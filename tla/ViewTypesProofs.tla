-------------------------- MODULE ViewTypesProofs ---------------------------
(***************************************************************************)
(* Theorems about ViewTypes, for every layout, index, constant, tile and   *)
(* atom, and kernels of every length: what the types say of the numbers is *)
(* true, and pointers to whole bytes and to bits have the alignment their  *)
(* type states.                                                            *)
(*                                                                         *)
(* A number is true when the type says its value, or a divisor of it that  *)
(* is not 0. Sums, products, quotients and remainders of true numbers are  *)
(* true (the gcd of what divides two numbers divides their sum), hence so  *)
(* are the strides, extents and offsets that the layout algebra makes of   *)
(* them: the invariant TrueState says that all numbers in hand are true.   *)
(* For the alignment it is joined by Aligned, which says besides that the  *)
(* alignment of a pointer is never lost: the natural one, which            *)
(* MovedAlignment falls back on, would not have to divide the address.     *)
(***************************************************************************)
EXTENDS ViewTypes, FiniteSetTheorems, SequenceTheorems, TLAPS

-----------------------------------------------------------------------------
(* Induction, over sets of numbers                                         *)

(* A set of numbers that is not empty has a least.                         *)
LEMMA LeastNumber ==
  ASSUME NEW T \in SUBSET Nat, T # {}
  PROVE  \E x \in T : \A y \in T : x <= y
<1>1. IsWellFoundedOn({ss \in Nat \X Nat : ss[1] < ss[2]}, Nat)
  BY NatLessThanWellFounded, Zenon DEF OpToRel
<1>2. PICK x \in T : \A y \in T : <<y, x>> \notin {ss \in Nat \X Nat : ss[1] < ss[2]}
  BY <1>1, WFMin, Zenon
<1>3. \A y \in T : ~(y < x) /\ y \in Nat /\ x \in Nat
  BY <1>2
<1> QED
  BY <1>3

(* What holds at 0 and at the next number holds up to N.                   *)
LEMMA InductionUpTo ==
  ASSUME NEW N \in Nat, NEW S, 0 \in S, \A n \in 0 .. N - 1 : n \in S => n + 1 \in S
  PROVE  0 .. N \subseteq S
<1>1. SUFFICES ASSUME (0 .. N) \ S # {} PROVE FALSE
  OBVIOUS
<1>2. PICK m \in (0 .. N) \ S : \A y \in (0 .. N) \ S : m <= y
  <2>1. (0 .. N) \ S \in SUBSET Nat
    OBVIOUS
  <2> QED
    BY <1>1, <2>1, LeastNumber
<1>3. m # 0
  BY <1>2
<1>4. m - 1 \in 0 .. N - 1 /\ m - 1 \in S
  BY <1>2, <1>3
<1> QED
  BY <1>2, <1>4

-----------------------------------------------------------------------------
(* Multiples                                                               *)

Multiple(d, r) == \E q \in Int : r = d * q

LEMMA Remainder ==
  ASSUME NEW n \in Int, NEW m \in Nat \ {0}
  PROVE  n \div m \in Int /\ n % m \in 0 .. m - 1 /\ n = m * (n \div m) + (n % m)
<1>1. \A a \in Int, b \in Nat \ {0} : a = b * (a \div b) + (a % b) /\ a \div b \in Int /\ a % b \in Nat /\ a % b < b
  BY Z3
<1>2. n = m * (n \div m) + (n % m) /\ n \div m \in Int /\ n % m \in Nat /\ n % m < m
  BY <1>1
<1> QED
  BY <1>2

(* The model asks for a remainder of 0, the proofs for a quotient.         *)
LEMMA DividesIs ==
  ASSUME NEW d \in Nat \ {0}, NEW r \in Int
  PROVE  Divides(d, r) <=> Multiple(d, r)
<1> DEFINE q == r \div d
           m == r % d
<1>1. q \in Int /\ m \in 0 .. d - 1 /\ r = d * q + m
  BY Remainder
<1>2. ASSUME Divides(d, r) PROVE Multiple(d, r)
  <2>1. m = 0
    BY <1>2 DEF Divides
  <2>2. \A x, y \in Int : x * y \in Int /\ x * y + 0 = x * y
    BY Z3
  <2> HIDE DEF m, q
  <2>3. r = d * q
    BY <1>1, <2>1, <2>2
  <2> QED
    BY <1>1, <2>3 DEF Multiple
<1>3. ASSUME Multiple(d, r) PROVE Divides(d, r)
  <2>1. PICK p \in Int : r = d * p
    BY <1>3 DEF Multiple
  <2> HIDE DEF m, q
  <2>2. \A x \in Nat \ {0}, y, z, s \in Int : x * y = x * z + s /\ s \in 0 .. x - 1 => s = 0
    <3>1. \A x \in Nat \ {0}, y, z \in Int : x * (y - z) = x * y - x * z /\ x * y \in Int /\ x * z \in Int
      BY Z3
    <3>2. \A x \in Nat \ {0}, t \in Int : t >= 1 => x * t >= x
      BY Z3
    <3>3. \A x \in Nat \ {0}, t \in Int : t <= 0 => x * t <= 0
      BY Z3
    <3> QED
      <4> SUFFICES ASSUME NEW x \in Nat \ {0}, NEW y \in Int, NEW z \in Int, NEW s \in Int, x * y = x * z + s, s \in 0 .. x - 1
                   PROVE  s = 0
        OBVIOUS
      <4>1. y - z \in Int /\ x * (y - z) = s
        BY <3>1
      <4>2. CASE y - z >= 1
        BY <3>2, <4>1, <4>2
      <4>3. CASE y - z <= 0
        BY <3>3, <4>1, <4>3
      <4> QED
        BY <4>1, <4>2, <4>3
  <2>3. d \in Nat \ {0} /\ p \in Int /\ q \in Int /\ m \in Int /\ m \in 0 .. d - 1 /\ d * p = d * q + m
    BY <1>1, <2>1
  <2>4. m = 0
    BY <2>2, <2>3, Zenon
  <2> QED
    BY <2>4 DEF Divides, m
<1> QED
  BY <1>2, <1>3

LEMMA MultipleSum ==
  ASSUME NEW d \in Int, NEW a \in Int, NEW b \in Int, Multiple(d, a), Multiple(d, b)
  PROVE  Multiple(d, a + b) /\ Multiple(d, a - b) /\ Multiple(d, -a)
<1>1. PICK p \in Int : a = d * p
  BY DEF Multiple
<1>2. PICK q \in Int : b = d * q
  BY DEF Multiple
<1>3. \A x, y, z \in Int : x * (y + z) = x * y + x * z /\ x * (y - z) = x * y - x * z /\ x * (-y) = -(x * y)
  BY Z3
<1>4. a + b = d * (p + q) /\ a - b = d * (p - q) /\ -a = d * (-p)
  BY <1>1, <1>2, <1>3
<1>5. p + q \in Int /\ p - q \in Int /\ -p \in Int
  OBVIOUS
<1> HIDE <1>3
<1> QED
  BY <1>4, <1>5, Zenon DEF Multiple

LEMMA MultipleTimes ==
  ASSUME NEW c \in Int, NEW d \in Int, NEW a \in Int, NEW b \in Int, Multiple(c, a), Multiple(d, b)
  PROVE  Multiple(c * d, a * b) /\ Multiple(c, a * b) /\ Multiple(d, a * b)
<1>1. PICK p \in Int : a = c * p
  BY DEF Multiple
<1>2. PICK q \in Int : b = d * q
  BY DEF Multiple
<1>3. \A x, y, z, w \in Int : (x * y) * (z * w) = (x * z) * (y * w) /\ (x * y) * (z * w) = x * (y * (z * w))
                              /\ (x * y) * (z * w) = z * ((x * y) * w) /\ x * y \in Int
  BY Z3
<1>4. /\ a * b = (c * d) * (p * q) /\ a * b = c * (p * (d * q)) /\ a * b = d * ((c * p) * q)
  BY <1>1, <1>2, <1>3
<1>5. p * q \in Int /\ p * (d * q) \in Int /\ (c * p) * q \in Int
  BY <1>3
<1> HIDE <1>3
<1> QED
  BY <1>4, <1>5, Zenon DEF Multiple

LEMMA MultipleThrough ==
  ASSUME NEW c \in Int, NEW d \in Int, NEW a \in Int, Multiple(c, d), Multiple(d, a)
  PROVE  Multiple(c, a)
<1>1. PICK p \in Int : d = c * p
  BY DEF Multiple
<1>2. PICK q \in Int : a = d * q
  BY DEF Multiple
<1>3. \A x, y, z \in Int : (x * y) * z = x * (y * z) /\ x * y \in Int
  BY Z3
<1>4. a = c * (p * q) /\ p * q \in Int
  BY <1>1, <1>2, <1>3
<1> HIDE <1>3
<1> QED
  BY <1>4, Zenon DEF Multiple

LEMMA MultipleOwn ==
  ASSUME NEW d \in Int
  PROVE  Multiple(d, d) /\ Multiple(d, 0) /\ Multiple(1, d)
<1>1. d = d * 1 /\ 0 = d * 0 /\ d = 1 * d /\ 0 \in Int /\ 1 \in Int /\ d \in Int
  OBVIOUS
<1> QED
  BY <1>1, Zenon DEF Multiple

(* A divisor of a number that is not 0 is no larger.                       *)
LEMMA MultipleLess ==
  ASSUME NEW d \in Nat \ {0}, NEW a \in Nat \ {0}, Multiple(d, a)
  PROVE  d <= a
<1>1. PICK p \in Int : a = d * p
  BY DEF Multiple
<1>2. \A x \in Nat \ {0}, y \in Int : (y <= 0 => x * y <= 0) /\ (y >= 1 => x * y >= x) /\ x * y \in Int
  BY Z3
<1> QED
  BY <1>1, <1>2

-----------------------------------------------------------------------------
(* The greatest common divisor                                             *)

Common(a, b) == {c \in Nat \ {0} : Multiple(c, a) /\ Multiple(c, b)}
Top(C) == CHOOSE c \in C : \A e \in C : e <= c
Greatest(a, b) == IF a = 0 /\ b = 0 THEN 0 ELSE Top(Common(a, b))

(* Euclid: the common divisors of two numbers are those of the smaller and *)
(* of the remainder.                                                       *)
LEMMA CommonStep ==
  ASSUME NEW a \in Nat, NEW b \in Nat \ {0}
  PROVE  a % b \in 0 .. b - 1 /\ Common(a, b) = Common(b, a % b)
<1> DEFINE q == a \div b
           m == a % b
<1>1. q \in Int /\ m \in 0 .. b - 1 /\ a = b * q + m
  BY Remainder
<1> HIDE DEF q, m
<1>2. b * q \in Int
  <2>1. \A x, y \in Int : x * y \in Int
    BY Z3
  <2> QED
    BY <1>1, <2>1
<1>3. ASSUME NEW c \in Nat \ {0}, Multiple(c, b)
      PROVE  Multiple(c, a) <=> Multiple(c, m)
  <2>1. Multiple(c, b * q)
    <3>1. c \in Int /\ b \in Int /\ q \in Int /\ 1 \in Int /\ Multiple(1, q)
      BY <1>1, MultipleOwn
    <3> QED
      BY <1>3, <3>1, MultipleTimes
  <2>2. m \in Int /\ a \in Int /\ m = a - b * q
    BY <1>1, <1>2
  <2>3. Multiple(c, a) => Multiple(c, m)
    BY <1>2, <2>1, <2>2, MultipleSum
  <2>4. Multiple(c, m) => Multiple(c, b * q + m)
    BY <1>2, <2>1, <2>2, MultipleSum
  <2> QED
    BY <1>1, <2>3, <2>4
<1>4. Common(a, b) = Common(b, m)
  BY <1>3 DEF Common
<1> QED
  BY <1>1, <1>4 DEF m

(* The definition by recursion has a solution: the greatest number that    *)
(* divides both.                                                           *)
LEMMA GcdExists ==
  \E h : h = [p \in Nat \X Nat |-> IF p[2] = 0 THEN p[1] ELSE h[<<p[2], p[1] % p[2]>>]]
<1> DEFINE h == [p \in Nat \X Nat |-> Greatest(p[1], p[2])]
<1>1. ASSUME NEW a \in Nat PROVE Greatest(a, 0) = a
  <2>1. CASE a = 0
    BY <2>1 DEF Greatest
  <2>2. CASE a # 0
    <3>1. a \in Common(a, 0)
      BY <2>2, MultipleOwn DEF Common
    <3>2. \A e \in Common(a, 0) : e <= a /\ e \in Nat
      BY <2>2, MultipleLess DEF Common
    <3>3. \A c \in Common(a, 0) : (\A e \in Common(a, 0) : e <= c) => c = a
      BY <3>1, <3>2
    <3> QED
      BY <2>2, <3>1, <3>2, <3>3 DEF Greatest, Top
  <2> QED
    BY <2>1, <2>2
<1>2. ASSUME NEW a \in Nat, NEW b \in Nat \ {0} PROVE Greatest(a, b) = Greatest(b, a % b) /\ a % b \in Nat
  <2>1. Common(a, b) = Common(b, a % b) /\ a % b \in Nat /\ b # 0
    BY CommonStep
  <2> QED
    BY <2>1 DEF Greatest
<1>3. ASSUME NEW p \in Nat \X Nat
      PROVE  h[p] = IF p[2] = 0 THEN p[1] ELSE h[<<p[2], p[1] % p[2]>>]
  <2>1. p[1] \in Nat /\ p[2] \in Nat /\ h[p] = Greatest(p[1], p[2])
    BY <1>3
  <2>2. CASE p[2] = 0
    BY <1>1, <2>1, <2>2
  <2>3. CASE p[2] # 0
    <3>1. p[1] % p[2] \in Nat /\ Greatest(p[1], p[2]) = Greatest(p[2], p[1] % p[2])
      BY <1>2, <2>1, <2>3
    <3>2. h[<<p[2], p[1] % p[2]>>] = Greatest(p[2], p[1] % p[2])
      BY <2>1, <3>1
    <3> QED
      BY <2>1, <2>3, <3>1, <3>2
  <2> QED
    BY <2>2, <2>3
<1>4. h = [p \in Nat \X Nat |-> h[p]]
  OBVIOUS
<1> HIDE DEF h
<1>5. h = [p \in Nat \X Nat |-> IF p[2] = 0 THEN p[1] ELSE h[<<p[2], p[1] % p[2]>>]]
  BY <1>3, <1>4, Zenon
<1> QED
  BY <1>5

LEMMA GcdStep ==
  ASSUME NEW a \in Nat, NEW b \in Nat
  PROVE  Gcd[<<a, b>>] = IF b = 0 THEN a ELSE Gcd[<<b, a % b>>]
<1>1. Gcd = [p \in Nat \X Nat |-> IF p[2] = 0 THEN p[1] ELSE Gcd[<<p[2], p[1] % p[2]>>]]
  BY GcdExists, Zenon DEF Gcd
<1>2. <<a, b>> \in Nat \X Nat /\ <<a, b>>[1] = a /\ <<a, b>>[2] = b
  OBVIOUS
<1> HIDE DEF Gcd
<1>3. Gcd[<<a, b>>] = IF <<a, b>>[2] = 0 THEN <<a, b>>[1] ELSE Gcd[<<<<a, b>>[2], <<a, b>>[1] % <<a, b>>[2]>>]
  BY <1>1, <1>2, Zenon
<1> QED
  BY <1>2, <1>3

(* g divides both numbers and whatever divides both divides g.             *)
IsGcd(g, a, b) ==
  /\ g \in Nat /\ (g = 0 => a = 0 /\ b = 0)
  /\ Multiple(g, a) /\ Multiple(g, b)
  /\ \A c \in Nat \ {0} : Multiple(c, a) /\ Multiple(c, b) => Multiple(c, g)

LEMMA GcdRight ==
  ASSUME NEW a \in Nat, NEW b \in Nat
  PROVE  IsGcd(Gcd[<<a, b>>], a, b)
<1> DEFINE S == {n \in 0 .. b : \A x \in Nat : \A y \in 0 .. n : IsGcd(Gcd[<<x, y>>], x, y)}
<1>1. ASSUME NEW x \in Nat PROVE IsGcd(Gcd[<<x, 0>>], x, 0)
  <2>1. Gcd[<<x, 0>>] = x
    BY GcdStep
  <2>2. IsGcd(x, x, 0)
    BY MultipleOwn DEF IsGcd
  <2> QED
    BY <2>1, <2>2
<1>2. 0 \in S
  BY <1>1
<1>3. ASSUME NEW n \in 0 .. b - 1, n \in S PROVE n + 1 \in S
  <2>1. ASSUME NEW x \in Nat PROVE IsGcd(Gcd[<<x, n + 1>>], x, n + 1)
    <3> DEFINE y == n + 1
               g == Gcd[<<y, x % y>>]
    <3>1. y \in Nat \ {0} /\ x % y \in 0 .. n /\ Gcd[<<x, y>>] = g
      <4>1. y \in Nat \ {0}
        OBVIOUS
      <4> HIDE DEF y
      <4>2. x % y \in 0 .. y - 1 /\ Gcd[<<x, y>>] = g
        BY <4>1, GcdStep, CommonStep
      <4> QED
        BY <4>1, <4>2 DEF y
    <3>2. IsGcd(g, y, x % y)
      BY <1>3, <3>1
    <3> HIDE DEF y, g
    <3>3. Common(x, y) = Common(y, x % y)
      BY <3>1, CommonStep
    <3>4. g \in Nat \ {0} /\ Multiple(g, y) /\ Multiple(g, x % y)
      BY <3>1, <3>2 DEF IsGcd
    <3>5. g \in Common(x, y)
      BY <3>3, <3>4 DEF Common
    <3>6. \A c \in Nat \ {0} : Multiple(c, x) /\ Multiple(c, y) => Multiple(c, g)
      <4> SUFFICES ASSUME NEW c \in Nat \ {0}, Multiple(c, x), Multiple(c, y) PROVE Multiple(c, g)
        OBVIOUS
      <4>1. c \in Common(y, x % y)
        BY <3>3 DEF Common
      <4> QED
        BY <3>2, <4>1 DEF Common, IsGcd
    <3>7. IsGcd(g, x, y)
      BY <3>4, <3>5, <3>6 DEF IsGcd, Common
    <3> QED
      BY <3>1, <3>7 DEF y
  <2>2. ASSUME NEW x \in Nat, NEW y \in 0 .. n + 1 PROVE IsGcd(Gcd[<<x, y>>], x, y)
    <3>1. CASE y = n + 1
      BY <2>1, <3>1
    <3>2. CASE y \in 0 .. n
      BY <1>3, <3>2
    <3> QED
      BY <3>1, <3>2
  <2>3. n + 1 \in 0 .. b
    OBVIOUS
  <2> QED
    BY <2>2, <2>3
<1> HIDE DEF S
<1>4. 0 .. b \subseteq S
  BY <1>2, <1>3, InductionUpTo
<1>5. b \in S /\ b \in 0 .. b
  BY <1>4
<1> QED
  BY <1>5 DEF S

-----------------------------------------------------------------------------
(* Numbers whose statement is true                                         *)

LEMMA NumberIs ==
  ASSUME NEW x \in TrueNumbers
  PROVE  /\ x.known \in BOOLEAN /\ x.claim \in Int /\ x.real \in Int
         /\ x.known => x.claim = x.real
         /\ ~x.known => x.claim \in Nat \ {0} /\ Multiple(x.claim, x.real)
         /\ Fact(x) \in Nat /\ Multiple(Fact(x), x.real) /\ (Fact(x) = 0 => x.known /\ x.claim = 0)
         /\ ~x.known => Fact(x) = x.claim
         /\ Honest(x)
<1>1. /\ x.known \in BOOLEAN /\ x.claim \in Int /\ x.real \in Int
      /\ Honest(x) /\ (x.known \/ x.claim > 0)
  BY DEF TrueNumbers
<1>2. x.known => x.claim = x.real
  BY <1>1 DEF Honest
<1>3. ~x.known => x.claim \in Nat \ {0} /\ Multiple(x.claim, x.real)
  <2>1. ~x.known => x.claim \in Nat \ {0} /\ Divides(x.claim, x.real)
    BY <1>1 DEF Honest
  <2> QED
    BY <1>1, <2>1, DividesIs
<1>4. Fact(x) \in Nat /\ (x.claim >= 0 => Fact(x) = x.claim) /\ (x.claim < 0 => Fact(x) = -x.claim)
  BY <1>1 DEF Fact, Magnitude
<1>5. Multiple(Fact(x), x.claim)
  <2>1. CASE x.claim >= 0
    BY <1>1, <1>4, <2>1, MultipleOwn
  <2>2. CASE x.claim < 0
    <3>1. Multiple(Fact(x), Fact(x)) /\ Fact(x) \in Int /\ x.claim = -Fact(x)
      BY <1>1, <1>4, <2>2, MultipleOwn
    <3>2. Multiple(Fact(x), -Fact(x))
      BY <3>1, MultipleSum
    <3> QED
      BY <3>1, <3>2
  <2> QED
    BY <1>1, <2>1, <2>2
<1>6. Multiple(Fact(x), x.real)
  BY <1>1, <1>2, <1>3, <1>4, <1>5
<1> QED
  BY <1>1, <1>2, <1>3, <1>4, <1>6

LEMMA KnownTrue ==
  ASSUME NEW v \in Int
  PROVE  Known(v, v) \in TrueNumbers /\ Static(v) \in TrueNumbers
BY DEF Known, Static, TrueNumbers, Honest

LEMMA UnknownTrue ==
  ASSUME NEW d \in Nat \ {0}, NEW r \in Int, Multiple(d, r)
  PROVE  Unknown(d, r) \in TrueNumbers
<1>1. Divides(d, r)
  BY DividesIs
<1> QED
  BY <1>1 DEF Unknown, TrueNumbers, Honest

LEMMA AnyTrue ==
  ASSUME NEW r \in Int
  PROVE  Unknown(1, r) \in TrueNumbers
<1>1. 1 \in Nat \ {0} /\ Multiple(1, r)
  BY MultipleOwn
<1> QED
  BY <1>1, UnknownTrue

(* What divides two numbers divides their sum.                             *)
LEMMA PlusTrue ==
  ASSUME NEW x \in TrueNumbers, NEW y \in TrueNumbers
  PROVE  Plus(x, y) \in TrueNumbers /\ Plus(x, y).real = x.real + y.real
<1> DEFINE g == Gcd[<<Fact(x), Fact(y)>>]
           d == IF g = 0 THEN 1 ELSE g
<1>1. x.real \in Int /\ y.real \in Int /\ x.real + y.real \in Int
  BY NumberIs
<1>2. CASE x.known /\ y.known
  <2>1. x.claim = x.real /\ y.claim = y.real
    BY <1>2, NumberIs
  <2>2. Plus(x, y) = Known(x.real + y.real, x.real + y.real)
    BY <1>2, <2>1 DEF Plus
  <2> QED
    BY <1>1, <2>2, KnownTrue DEF Known
<1>3. CASE ~(x.known /\ y.known)
  <2>1. Plus(x, y) = Unknown(d, x.real + y.real)
    BY <1>3 DEF Plus
  <2>2. Fact(x) \in Nat /\ Fact(y) \in Nat /\ Multiple(Fact(x), x.real) /\ Multiple(Fact(y), y.real)
    BY NumberIs
  <2>3. IsGcd(g, Fact(x), Fact(y))
    BY <2>2, GcdRight
  <2> HIDE DEF g
  <2>4. g \in Nat /\ Multiple(g, x.real) /\ Multiple(g, y.real)
    <3>1. g \in Int /\ Fact(x) \in Int /\ Fact(y) \in Int /\ Multiple(g, Fact(x)) /\ Multiple(g, Fact(y)) /\ g \in Nat
      BY <2>2, <2>3 DEF IsGcd
    <3>2. Multiple(g, x.real)
      BY <1>1, <2>2, <3>1, MultipleThrough
    <3>3. Multiple(g, y.real)
      BY <1>1, <2>2, <3>1, MultipleThrough
    <3> QED
      BY <3>1, <3>2, <3>3
  <2>5. Multiple(g, x.real + y.real)
    <3>1. g \in Int
      BY <2>4
    <3> QED
      BY <1>1, <2>4, <3>1, MultipleSum, Zenon
  <2>6. d \in Nat \ {0} /\ Multiple(d, x.real + y.real)
    BY <1>1, <2>4, <2>5, MultipleOwn
  <2> QED
    BY <1>1, <2>1, <2>6, UnknownTrue DEF Unknown
<1> QED
  BY <1>2, <1>3

LEMMA TimesTrue ==
  ASSUME NEW x \in TrueNumbers, NEW y \in TrueNumbers
  PROVE  Times(x, y) \in TrueNumbers /\ Times(x, y).real = x.real * y.real
<1>1. x.real \in Int /\ y.real \in Int /\ x.real * y.real \in Int
  <2>1. \A a, b \in Int : a * b \in Int
    BY Z3
  <2> QED
    BY <2>1, NumberIs
<1>2. CASE x.known /\ y.known
  <2>1. x.claim = x.real /\ y.claim = y.real
    BY <1>2, NumberIs
  <2>2. Times(x, y) = Known(x.real * y.real, x.real * y.real)
    BY <1>2, <2>1 DEF Times
  <2> QED
    BY <1>1, <2>2, KnownTrue DEF Known
<1>3. CASE ~(x.known /\ y.known) /\ ((x.known /\ x.claim = 0) \/ (y.known /\ y.claim = 0))
  <2>1. Times(x, y) = Known(0, x.real * y.real)
    BY <1>3 DEF Times
  <2>2. x.real = 0 \/ y.real = 0
    BY <1>3, NumberIs
  <2>3. x.real * y.real = 0
    BY <1>1, <2>2
  <2> QED
    BY <2>1, <2>3, KnownTrue DEF Known
<1>4. CASE ~(x.known /\ y.known) /\ ~((x.known /\ x.claim = 0) \/ (y.known /\ y.claim = 0))
  <2>1. Times(x, y) = Unknown(Fact(x) * Fact(y), x.real * y.real)
    BY <1>4 DEF Times
  <2>2. Fact(x) \in Nat \ {0} /\ Fact(y) \in Nat \ {0} /\ Multiple(Fact(x), x.real) /\ Multiple(Fact(y), y.real)
    BY <1>4, NumberIs
  <2>3. Fact(x) * Fact(y) \in Nat \ {0}
    <3>1. \A a, b \in Nat \ {0} : a * b \in Nat \ {0}
      BY Z3
    <3> QED
      BY <2>2, <3>1
  <2>4. Multiple(Fact(x) * Fact(y), x.real * y.real)
    <3>1. Fact(x) \in Int /\ Fact(y) \in Int
      BY <2>2
    <3> QED
      BY <1>1, <2>2, <3>1, MultipleTimes, Zenon
  <2> QED
    BY <1>1, <2>1, <2>3, <2>4, UnknownTrue DEF Unknown
<1> QED
  BY <1>2, <1>3, <1>4

LEMMA MinusTrue ==
  ASSUME NEW x \in TrueNumbers, NEW y \in TrueNumbers
  PROVE  Minus(x, y) \in TrueNumbers
<1>1. Static(-1) \in TrueNumbers
  BY KnownTrue
<1>2. Times(Static(-1), y) \in TrueNumbers
  BY <1>1, TimesTrue
<1> QED
  BY <1>2, PlusTrue DEF Minus

LEMMA ExactQuotient ==
  ASSUME NEW n \in Nat \ {0}, NEW t \in Int
  PROVE  (n * t) \div n = t /\ (n * t) % n = 0 /\ n * t \in Int
<1> DEFINE v == n * t
           q == v \div n
<1>0. v \in Int
  <2>1. \A a, b \in Int : a * b \in Int
    BY Z3
  <2> QED
    BY <2>1
<1>1. Multiple(n, v)
  BY Zenon DEF Multiple
<1>2. v % n = 0
  BY <1>0, <1>1, DividesIs DEF Divides
<1>3. q \in Int /\ v = n * q + (v % n)
  BY <1>0, Remainder
<1>4. v = n * q
  <2>1. \A a, b \in Int : a * b \in Int
    BY Z3
  <2>2. n * q \in Int
    BY <1>3, <2>1
  <2> HIDE DEF v, q
  <2> QED
    BY <1>2, <1>3, <2>2
<1>5. \A a \in Nat \ {0}, b, c \in Int : a * b = a * c => b = c
  BY Z3
<1> HIDE DEF q
<1>6. q = t
  BY <1>3, <1>4, <1>5, Zenon DEF v
<1> QED
  BY <1>0, <1>2, <1>6 DEF q

(* Dividing what is known by a divisor of it divides the number exactly.   *)
LEMMA QuotientTrue ==
  ASSUME NEW d \in Nat \ {0}, NEW r \in Int, NEW n \in Nat \ {0}, Multiple(d, r), Divides(n, d)
  PROVE  d \div n \in Nat \ {0} /\ Multiple(d \div n, r \div n) /\ r % n = 0
<1>1. PICK c \in Int : d = n * c
  BY DividesIs DEF Multiple
<1>2. PICK q \in Int : r = d * q
  BY DEF Multiple
<1>3. c \in Nat \ {0}
  <2>1. \A a \in Nat \ {0}, b \in Int : a * b > 0 => b > 0
    BY Z3
  <2> QED
    BY <1>1, <2>1
<1>4. \A a, b, e \in Int : (a * b) * e = a * (b * e) /\ b * e \in Int
  BY Z3
<1>5. r = n * (c * q) /\ c * q \in Int
  BY <1>1, <1>2, <1>4
<1> HIDE <1>4
<1>6. d \div n = c
  BY <1>1, ExactQuotient
<1>7. r \div n = c * q /\ r % n = 0
  BY <1>5, ExactQuotient
<1>8. Multiple(c, c * q)
  BY Zenon DEF Multiple
<1> QED
  BY <1>3, <1>6, <1>7, <1>8

LEMMA OverTrue ==
  ASSUME NEW x \in TrueNumbers, NEW n \in Nat \ {0}
  PROVE  Over(x, n) \in TrueNumbers /\ Over(x, n).real = x.real \div n
<1>1. x.real \in Int /\ x.real \div n \in Int
  BY NumberIs, Remainder
<1>2. CASE x.known
  <2>1. Over(x, n) = Known(x.real \div n, x.real \div n)
    BY <1>2, NumberIs DEF Over
  <2> QED
    BY <1>1, <2>1, KnownTrue DEF Known
<1>3. CASE ~x.known
  <2> DEFINE d == IF Divides(n, x.claim) THEN x.claim \div n ELSE 1
  <2>1. Over(x, n) = Unknown(d, x.real \div n)
    BY <1>3 DEF Over
  <2>2. x.claim \in Nat \ {0} /\ Multiple(x.claim, x.real)
    BY <1>3, NumberIs
  <2>3. CASE Divides(n, x.claim)
    <3>1. x.claim \div n \in Nat \ {0} /\ Multiple(x.claim \div n, x.real \div n)
      BY <1>1, <2>2, <2>3, QuotientTrue
    <3>2. Unknown(x.claim \div n, x.real \div n) \in TrueNumbers
      BY <1>1, <3>1, UnknownTrue
    <3> QED
      BY <2>1, <2>3, <3>2 DEF Unknown
  <2>4. CASE ~Divides(n, x.claim)
    <3>1. Unknown(1, x.real \div n) \in TrueNumbers
      BY <1>1, AnyTrue
    <3> QED
      BY <2>1, <2>4, <3>1 DEF Unknown
  <2> QED
    BY <2>3, <2>4
<1> QED
  BY <1>2, <1>3

(* A remainder by a multiple of the divisor keeps it.                      *)
LEMMA RemainderTrue ==
  ASSUME NEW d \in Nat \ {0}, NEW r \in Int, NEW n \in Nat \ {0}, Multiple(d, r), Divides(d, n)
  PROVE  Multiple(d, r % n)
<1> DEFINE q == r \div n
           m == r % n
<1>1. q \in Int /\ m \in 0 .. n - 1 /\ r = n * q + m
  BY Remainder
<1> HIDE DEF q, m
<1>2. n * q \in Int
  <2>1. \A a, b \in Int : a * b \in Int
    BY Z3
  <2> QED
    BY <1>1, <2>1
<1>3. Multiple(d, n)
  BY DividesIs
<1>4. Multiple(d, n * q)
  <2>1. Multiple(1, q)
    BY <1>1, MultipleOwn
  <2> QED
    BY <1>1, <1>3, <2>1, MultipleTimes
<1>5. Multiple(d, r - n * q)
  BY <1>2, <1>4, MultipleSum
<1>6. r - n * q = m
  BY <1>1, <1>2
<1> QED
  BY <1>5, <1>6 DEF m

LEMMA ModuloTrue ==
  ASSUME NEW x \in TrueNumbers, NEW n \in Nat \ {0}
  PROVE  Modulo(x, n) \in TrueNumbers
<1>1. x.real \in Int /\ x.real % n \in Int
  BY NumberIs, Remainder
<1>2. CASE x.known
  <2>1. Modulo(x, n) = Known(x.real % n, x.real % n)
    BY <1>2, NumberIs DEF Modulo
  <2> QED
    BY <1>1, <2>1, KnownTrue
<1>3. CASE ~x.known /\ Divides(n, x.claim)
  <2>1. x.real % n = 0
    BY <1>3, NumberIs, QuotientTrue
  <2>2. Modulo(x, n) = Known(0, 0)
    BY <1>3, <2>1 DEF Modulo
  <2> QED
    BY <2>2, KnownTrue
<1>4. CASE ~x.known /\ ~Divides(n, x.claim)
  <2> DEFINE d == IF Divides(x.claim, n) THEN x.claim ELSE 1
  <2>1. Modulo(x, n) = Unknown(d, x.real % n)
    BY <1>4 DEF Modulo
  <2>2. x.claim \in Nat \ {0} /\ Multiple(x.claim, x.real)
    BY <1>4, NumberIs
  <2>3. d \in Nat \ {0} /\ Multiple(d, x.real % n)
    BY <1>1, <2>2, RemainderTrue, MultipleOwn
  <2> QED
    BY <1>1, <2>1, <2>3, UnknownTrue
<1> QED
  BY <1>2, <1>3, <1>4

(* idx2crd: the coordinate and the index that is left, by an extent.       *)
LEMMA SplitTrue ==
  ASSUME NEW x \in TrueNumbers, NEW n \in TrueNumbers, n.real > 0, x.known => n.known
  PROVE  /\ Split(x, n)[1] \in TrueNumbers /\ Split(x, n)[2] \in TrueNumbers
         /\ Split(x, n)[2].known <=> x.known
<1> DEFINE c == x.real % n.real
           r == x.real \div n.real
<1>1. n.real \in Nat \ {0} /\ x.real \in Int /\ c \in Int /\ r \in Int
  <2>1. n.real \in Nat \ {0} /\ x.real \in Int
    BY NumberIs
  <2>2. r \in Int /\ c \in 0 .. n.real - 1
    BY <2>1, Remainder
  <2> HIDE DEF c, r
  <2> QED
    BY <2>1, <2>2
<1>2. n.known => n.claim = n.real
  BY NumberIs
<1>3. CASE x.known
  <2>1. Split(x, n) = <<Known(c, c), Known(r, r)>>
    BY <1>2, <1>3, NumberIs DEF Split
  <2> HIDE DEF c, r
  <2> QED
    BY <1>1, <1>3, <2>1, KnownTrue DEF Known
<1>4. CASE ~x.known /\ n.known /\ Divides(n.claim, x.claim)
  <2> DEFINE d == x.claim \div n.claim
  <2>1. Split(x, n) = <<Known(0, c), Unknown(d, r)>>
    BY <1>4 DEF Split
  <2>2. x.claim \in Nat \ {0} /\ Multiple(x.claim, x.real)
    BY <1>4, NumberIs
  <2>3. c = 0 /\ d \in Nat \ {0} /\ Multiple(d, r)
    BY <1>1, <1>2, <1>4, <2>2, QuotientTrue
  <2> HIDE DEF c, d, r
  <2>4. Known(0, 0) \in TrueNumbers /\ Unknown(d, r) \in TrueNumbers
    BY <1>1, <2>3, KnownTrue, UnknownTrue
  <2> QED
    BY <1>4, <2>1, <2>3, <2>4 DEF Unknown
<1>5. CASE ~x.known /\ ~(n.known /\ Divides(n.claim, x.claim))
  <2> DEFINE d == IF n.known /\ Divides(x.claim, n.claim) THEN x.claim ELSE 1
  <2>1. Split(x, n) = <<Unknown(d, c), Unknown(1, r)>>
    BY <1>5 DEF Split
  <2>2. x.claim \in Nat \ {0} /\ Multiple(x.claim, x.real)
    BY <1>5, NumberIs
  <2>3. d \in Nat \ {0} /\ Multiple(d, c)
    BY <1>1, <1>2, <2>2, RemainderTrue, MultipleOwn
  <2> HIDE DEF c, d, r
  <2>4. Unknown(d, c) \in TrueNumbers /\ Unknown(1, r) \in TrueNumbers
    BY <1>1, <2>3, UnknownTrue, AnyTrue
  <2> QED
    BY <1>5, <2>1, <2>4 DEF Unknown
<1> QED
  BY <1>3, <1>4, <1>5

LEMMA HierLeafTrue ==
  ASSUME NEW x \in TrueNumbers, NEW n \in TrueNumbers, NEW d \in TrueNumbers, n.real > 0,
         One(n) \/ (d.real > 0 /\ (x.known => d.known))
  PROVE  HierLeaf(x, n, d) \in TrueNumbers
<1> DEFINE q == (x.real \div d.real) % n.real
           v == IF n.real = 1 THEN 0 ELSE q
<1>1. x.real \in Int /\ n.real \in Nat \ {0} /\ d.real \in Int
  BY NumberIs
<1>2. CASE One(n)
  <2>1. n.known /\ n.claim = 1 /\ n.real = 1
    BY <1>2, NumberIs DEF One
  <2>2. HierLeaf(x, n, d) = Known(0, 0)
    BY <2>1 DEF HierLeaf
  <2> QED
    BY <2>2, KnownTrue
<1>3. CASE ~One(n)
  <2>1. d.real \in Nat \ {0} /\ q \in Int /\ v \in Int
    <3>1. d.real \in Nat \ {0}
      BY <1>1, <1>3
    <3> DEFINE w == x.real \div d.real
    <3>2. w \in Int
      BY <1>1, <3>1, Remainder
    <3> HIDE DEF w
    <3>3. w % n.real \in 0 .. n.real - 1
      BY <1>1, <3>2, Remainder
    <3>4. q \in Int
      BY <1>1, <3>3 DEF w
    <3> HIDE DEF q
    <3> QED
      BY <3>1, <3>4
  <2>2. CASE x.known /\ n.known
    <3>1. n.real # 1 /\ x.claim = x.real /\ n.claim = n.real /\ d.claim = d.real
      BY <1>3, <2>2, NumberIs DEF One
    <3>2. HierLeaf(x, n, d) = Known(q, q)
      BY <1>3, <2>2, <3>1 DEF HierLeaf, One
    <3> QED
      BY <2>1, <3>2, KnownTrue
  <2>3. CASE ~(x.known /\ n.known)
    <3>1. HierLeaf(x, n, d) = Unknown(1, v)
      BY <1>3, <2>3 DEF HierLeaf, One
    <3> QED
      BY <2>1, <3>1, AnyTrue
  <2> QED
    BY <2>2, <2>3
<1> QED
  BY <1>2, <1>3

-----------------------------------------------------------------------------
(* A function that is defined step by step exists.                         *)
IsRun(h, N, V, z, step) ==
  h \in [0 .. N -> V] /\ h[0] = z /\ \A n \in 1 .. N : h[n] = step[n][h[n - 1]]

LEMMA StepsExist ==
  ASSUME NEW N \in Nat, NEW V, NEW z \in V, NEW step \in [1 .. N -> [V -> V]]
  PROVE  \E h : IsRun(h, N, V, z, step)
<1> DEFINE Good(h, m) == h[0] = z /\ \A n \in 1 .. m : h[n] = step[n][h[n - 1]]
           S == {m \in 0 .. N : \E h \in [0 .. m -> V] : Good(h, m)}
<1>1. 0 \in S
  <2> DEFINE h == [n \in 0 .. 0 |-> z]
  <2>1. h \in [0 .. 0 -> V] /\ h[0] = z
    OBVIOUS
  <2>2. Good(h, 0)
    BY <2>1
  <2>3. 0 \in 0 .. N
    OBVIOUS
  <2> HIDE DEF h, Good
  <2> QED
    BY <2>1, <2>2, <2>3
<1>2. ASSUME NEW m \in 0 .. N - 1, m \in S PROVE m + 1 \in S
  <2>1. PICK h \in [0 .. m -> V] : Good(h, m)
    BY <1>2
  <2> DEFINE g == [n \in 0 .. m + 1 |-> IF n = m + 1 THEN step[m + 1][h[m]] ELSE h[n]]
  <2>2. m + 1 \in 1 .. N /\ m \in 0 .. m
    OBVIOUS
  <2>3. g \in [0 .. m + 1 -> V]
    BY <2>2
  <2>4. ASSUME NEW n \in 1 .. m + 1 PROVE g[n] = step[n][g[n - 1]]
    <3>1. CASE n = m + 1
      <4>1. n - 1 = m /\ m \in 0 .. m + 1 /\ m # m + 1
        BY <3>1
      <4>2. g[n - 1] = h[m]
        BY <4>1
      <4> QED
        BY <3>1, <4>2
    <3>2. CASE n # m + 1
      <4>1. n \in 1 .. m /\ n - 1 \in 0 .. m + 1 /\ n - 1 # m + 1
        BY <3>2
      <4>2. g[n - 1] = h[n - 1] /\ g[n] = h[n]
        BY <3>2, <4>1
      <4> QED
        BY <2>1, <4>1, <4>2
    <3> QED
      BY <3>1, <3>2
  <2>5. g[0] = z
    BY <2>1
  <2>6. m + 1 \in 0 .. N
    BY <2>2
  <2> HIDE DEF g
  <2>7. Good(g, m + 1)
    BY <2>4, <2>5
  <2> HIDE DEF Good
  <2> QED
    BY <2>3, <2>6, <2>7
<1> HIDE DEF S
<1>3. 0 .. N \subseteq S
  BY <1>1, <1>2, InductionUpTo
<1>4. N \in S
  BY <1>3
<1> QED
  BY <1>4 DEF S, IsRun

(* Sums and products of true numbers are true.                             *)
LEMMA TotalTrue ==
  ASSUME NEW xs \in Seq(TrueNumbers)
  PROVE  Total(xs) \in TrueNumbers
<1> DEFINE N == Len(xs)
           V == TrueNumbers
           p == CHOOSE h : h = [k \in 0 .. N |-> IF k = 0 THEN Static(0) ELSE Plus(h[k - 1], xs[k])]
<1>1. N \in Nat /\ Static(0) \in V /\ \A k \in 1 .. N : xs[k] \in TrueNumbers
  BY KnownTrue
<1>2. ASSUME NEW k \in 1 .. N, NEW v \in V PROVE Plus(v, xs[k]) \in V
  BY <1>1, <1>2, PlusTrue
<1>3. \E h : h = [k \in 0 .. N |-> IF k = 0 THEN Static(0) ELSE Plus(h[k - 1], xs[k])]
  <2> DEFINE step == [k \in 1 .. N |-> [v \in V |-> Plus(v, xs[k])]]
  <2>1. step \in [1 .. N -> [V -> V]]
    BY <1>2, Zenon
  <2>2. \E h : IsRun(h, N, V, Static(0), step)
    <3> HIDE DEF step, N, V
    <3> QED
      BY <1>1, <2>1, StepsExist
  <2>3. PICK h : h \in [0 .. N -> V] /\ h[0] = Static(0) /\ \A k \in 1 .. N : h[k] = step[k][h[k - 1]]
    BY <2>2 DEF IsRun
  <2>4. ASSUME NEW k \in 1 .. N PROVE h[k] = Plus(h[k - 1], xs[k])
    <3>1. k - 1 \in 0 .. N
      BY <1>1
    <3>2. h[k - 1] \in V
      <4> HIDE DEF step, N, V
      <4> QED
        BY <2>3, <3>1
    <3> QED
      BY <2>3, <3>2, Zenon
  <2>5. \A k \in 0 .. N : h[k] = IF k = 0 THEN Static(0) ELSE Plus(h[k - 1], xs[k])
    <3> HIDE DEF step, N, V
    <3> QED
      BY <1>1, <2>3, <2>4
  <2>6. h = [k \in 0 .. N |-> h[k]]
    <3> HIDE DEF step, N, V
    <3> QED
      BY <2>3
  <2>7. h = [k \in 0 .. N |-> IF k = 0 THEN Static(0) ELSE Plus(h[k - 1], xs[k])]
    BY <2>5, <2>6, Zenon
  <2> QED
    BY <2>7, Zenon
<1>4. p = [k \in 0 .. N |-> IF k = 0 THEN Static(0) ELSE Plus(p[k - 1], xs[k])]
  BY <1>3, Zenon
<1> HIDE DEF p, V
<1> DEFINE S == {k \in 0 .. N : p[k] \in V}
<1>5. 0 \in S
  BY <1>1, <1>4
<1>6. ASSUME NEW k \in 0 .. N - 1, k \in S PROVE k + 1 \in S
  <2>1. k + 1 \in 1 .. N /\ k + 1 \in 0 .. N /\ p[k] \in V /\ (k + 1) - 1 = k /\ k + 1 # 0
    BY <1>1, <1>6
  <2>2. p[k + 1] = Plus(p[k], xs[k + 1])
    BY <1>4, <2>1
  <2>3. p[k + 1] \in V
    BY <1>2, <2>1, <2>2
  <2> QED
    BY <2>1, <2>3
<1> HIDE DEF S
<1>7. 0 .. N \subseteq S
  BY <1>1, <1>5, <1>6, InductionUpTo
<1>8. \A k \in 0 .. N : p[k] \in V
  BY <1>7 DEF S
<1>9. Total(xs) = p[N]
  BY DEF Total, p
<1> QED
  BY <1>1, <1>8, <1>9 DEF V

LEMMA ProductTrue ==
  ASSUME NEW xs \in Seq(TrueNumbers)
  PROVE  Product(xs) \in TrueNumbers
<1> DEFINE N == Len(xs)
           V == TrueNumbers
           p == CHOOSE h : h = [k \in 0 .. N |-> IF k = 0 THEN Static(1) ELSE Times(h[k - 1], xs[k])]
<1>1. N \in Nat /\ Static(1) \in V /\ \A k \in 1 .. N : xs[k] \in TrueNumbers
  BY KnownTrue
<1>2. ASSUME NEW k \in 1 .. N, NEW v \in V PROVE Times(v, xs[k]) \in V
  BY <1>1, <1>2, TimesTrue
<1>3. \E h : h = [k \in 0 .. N |-> IF k = 0 THEN Static(1) ELSE Times(h[k - 1], xs[k])]
  <2> DEFINE step == [k \in 1 .. N |-> [v \in V |-> Times(v, xs[k])]]
  <2>1. step \in [1 .. N -> [V -> V]]
    BY <1>2, Zenon
  <2>2. \E h : IsRun(h, N, V, Static(1), step)
    <3> HIDE DEF step, N, V
    <3> QED
      BY <1>1, <2>1, StepsExist
  <2>3. PICK h : h \in [0 .. N -> V] /\ h[0] = Static(1) /\ \A k \in 1 .. N : h[k] = step[k][h[k - 1]]
    BY <2>2 DEF IsRun
  <2>4. ASSUME NEW k \in 1 .. N PROVE h[k] = Times(h[k - 1], xs[k])
    <3>1. k - 1 \in 0 .. N
      BY <1>1
    <3>2. h[k - 1] \in V
      <4> HIDE DEF step, N, V
      <4> QED
        BY <2>3, <3>1
    <3> QED
      BY <2>3, <3>2, Zenon
  <2>5. \A k \in 0 .. N : h[k] = IF k = 0 THEN Static(1) ELSE Times(h[k - 1], xs[k])
    <3> HIDE DEF step, N, V
    <3> QED
      BY <1>1, <2>3, <2>4
  <2>6. h = [k \in 0 .. N |-> h[k]]
    <3> HIDE DEF step, N, V
    <3> QED
      BY <2>3
  <2>7. h = [k \in 0 .. N |-> IF k = 0 THEN Static(1) ELSE Times(h[k - 1], xs[k])]
    BY <2>5, <2>6, Zenon
  <2> QED
    BY <2>7, Zenon
<1>4. p = [k \in 0 .. N |-> IF k = 0 THEN Static(1) ELSE Times(p[k - 1], xs[k])]
  BY <1>3, Zenon
<1> HIDE DEF p, V
<1> DEFINE S == {k \in 0 .. N : p[k] \in V}
<1>5. 0 \in S
  BY <1>1, <1>4
<1>6. ASSUME NEW k \in 0 .. N - 1, k \in S PROVE k + 1 \in S
  <2>1. k + 1 \in 1 .. N /\ k + 1 \in 0 .. N /\ p[k] \in V /\ (k + 1) - 1 = k /\ k + 1 # 0
    BY <1>1, <1>6
  <2>2. p[k + 1] = Times(p[k], xs[k + 1])
    BY <1>4, <2>1
  <2>3. p[k + 1] \in V
    BY <1>2, <2>1, <2>2
  <2> QED
    BY <2>1, <2>3
<1> HIDE DEF S
<1>7. 0 .. N \subseteq S
  BY <1>1, <1>5, <1>6, InductionUpTo
<1>8. \A k \in 0 .. N : p[k] \in V
  BY <1>7 DEF S
<1>9. Product(xs) = p[N]
  BY DEF Product, p
<1> QED
  BY <1>1, <1>8, <1>9 DEF V

LEMMA SplitIndexTrue ==
  ASSUME NEW idx \in TrueNumbers, NEW shape \in Seq(TrueNumbers),
         \A k \in DOMAIN shape : shape[k].real > 0, CanSplit(idx, shape)
  PROVE  SplitIndex(idx, shape) \in Seq(TrueNumbers)
<1> DEFINE N == Len(shape)
           V == {x \in TrueNumbers : x.known <=> idx.known}
           p == CHOOSE h : h = [k \in 0 .. N |-> IF k = 0 THEN idx ELSE Split(h[k - 1], shape[k])[2]]
<1>1. N \in Nat /\ idx \in V /\ \A k \in 1 .. N : shape[k] \in TrueNumbers /\ shape[k].real > 0 /\ (idx.known => shape[k].known)
  BY DEF CanSplit
<1>2. ASSUME NEW k \in 1 .. N, NEW v \in V PROVE Split(v, shape[k])[2] \in V
  BY <1>1, <1>2, SplitTrue
<1>3. \E h : h = [k \in 0 .. N |-> IF k = 0 THEN idx ELSE Split(h[k - 1], shape[k])[2]]
  <2> DEFINE step == [k \in 1 .. N |-> [v \in V |-> Split(v, shape[k])[2]]]
  <2>1. step \in [1 .. N -> [V -> V]]
    BY <1>2, Zenon
  <2>2. \E h : IsRun(h, N, V, idx, step)
    <3> HIDE DEF step, N, V
    <3> QED
      BY <1>1, <2>1, StepsExist
  <2>3. PICK h : h \in [0 .. N -> V] /\ h[0] = idx /\ \A k \in 1 .. N : h[k] = step[k][h[k - 1]]
    BY <2>2 DEF IsRun
  <2>4. ASSUME NEW k \in 1 .. N PROVE h[k] = Split(h[k - 1], shape[k])[2]
    <3>1. k - 1 \in 0 .. N
      BY <1>1
    <3>2. h[k - 1] \in V
      <4> HIDE DEF step, N, V
      <4> QED
        BY <2>3, <3>1
    <3> QED
      BY <2>3, <3>2, Zenon
  <2>5. \A k \in 0 .. N : h[k] = IF k = 0 THEN idx ELSE Split(h[k - 1], shape[k])[2]
    <3>1. ASSUME NEW k \in 0 .. N PROVE k = 0 \/ (k # 0 /\ k \in 1 .. N)
      BY <1>1
    <3> HIDE DEF step, N, V
    <3> QED
      BY <2>3, <2>4, <3>1, Zenon
  <2>6. h = [k \in 0 .. N |-> h[k]]
    <3> HIDE DEF step, N, V
    <3> QED
      BY <2>3
  <2>7. h = [k \in 0 .. N |-> IF k = 0 THEN idx ELSE Split(h[k - 1], shape[k])[2]]
    BY <2>5, <2>6, Zenon
  <2> QED
    BY <2>7, Zenon
<1>4. p = [k \in 0 .. N |-> IF k = 0 THEN idx ELSE Split(p[k - 1], shape[k])[2]]
  BY <1>3, Zenon
<1> HIDE DEF p, V
<1> DEFINE S == {k \in 0 .. N : p[k] \in V}
<1>5. 0 \in S
  BY <1>1, <1>4
<1>6. ASSUME NEW k \in 0 .. N - 1, k \in S PROVE k + 1 \in S
  <2>1. k + 1 \in 1 .. N /\ k + 1 \in 0 .. N /\ p[k] \in V /\ (k + 1) - 1 = k /\ k + 1 # 0
    BY <1>1, <1>6
  <2>2. p[k + 1] = Split(p[k], shape[k + 1])[2]
    BY <1>4, <2>1
  <2>3. p[k + 1] \in V
    BY <1>2, <2>1, <2>2
  <2> QED
    BY <2>1, <2>3
<1> HIDE DEF S
<1>7. 0 .. N \subseteq S
  BY <1>1, <1>5, <1>6, InductionUpTo
<1>8. \A k \in 0 .. N : p[k] \in V
  BY <1>7 DEF S
<1>9. SplitIndex(idx, shape) =
       [k \in 1 .. N |-> IF k = N THEN p[k - 1] ELSE Split(p[k - 1], shape[k])[1]]
  BY DEF SplitIndex, p
<1>10. ASSUME NEW k \in 1 .. N
       PROVE  (IF k = N THEN p[k - 1] ELSE Split(p[k - 1], shape[k])[1]) \in TrueNumbers
  <2>1. k - 1 \in 0 .. N /\ p[k - 1] \in V
    BY <1>1, <1>8
  <2>2. p[k - 1] \in TrueNumbers /\ (p[k - 1].known => shape[k].known)
    BY <1>1, <2>1 DEF V
  <2>3. Split(p[k - 1], shape[k])[1] \in TrueNumbers
    BY <1>1, <2>2, SplitTrue
  <2> QED
    BY <2>2, <2>3
<1> HIDE DEF N
<1>11. SplitIndex(idx, shape) \in [1 .. N -> TrueNumbers]
  BY <1>9, <1>10, Zenon
<1> QED
  BY <1>1, <1>11

LEMMA TakenAt ==
  ASSUME NEW l, NEW under, Len(l) \in Nat, \A i \in 1 .. Len(l) : Len(l[i]) \in Nat
  PROVE  /\ Taken(l, under) \in [0 .. Len(l) -> Nat]
         /\ \A i \in 1 .. Len(l) :
              Taken(l, under)[i] = Taken(l, under)[i - 1] + (IF i \in under THEN 0 ELSE Len(l[i]))
<1> DEFINE N == Len(l)
           V == Nat
           p == CHOOSE h : h = [k \in 0 .. N |-> IF k = 0 THEN 0 ELSE (h[k - 1] + (IF k \in under THEN 0 ELSE Len(l[k])))]
<1>1. N \in Nat /\ 0 \in V /\ \A k \in 1 .. N : Len(l[k]) \in Nat
  OBVIOUS
<1>2. ASSUME NEW k \in 1 .. N, NEW v \in V PROVE (v + (IF k \in under THEN 0 ELSE Len(l[k]))) \in V
  BY <1>1, <1>2
<1>3. \E h : h = [k \in 0 .. N |-> IF k = 0 THEN 0 ELSE (h[k - 1] + (IF k \in under THEN 0 ELSE Len(l[k])))]
  <2> DEFINE step == [k \in 1 .. N |-> [v \in V |-> (v + (IF k \in under THEN 0 ELSE Len(l[k])))]]
  <2>1. step \in [1 .. N -> [V -> V]]
    BY <1>2, Zenon
  <2>2. \E h : IsRun(h, N, V, 0, step)
    <3> HIDE DEF step, N, V
    <3> QED
      BY <1>1, <2>1, StepsExist
  <2>3. PICK h : h \in [0 .. N -> V] /\ h[0] = 0 /\ \A k \in 1 .. N : h[k] = step[k][h[k - 1]]
    BY <2>2 DEF IsRun
  <2>4. ASSUME NEW k \in 1 .. N PROVE h[k] = (h[k - 1] + (IF k \in under THEN 0 ELSE Len(l[k])))
    <3>1. k - 1 \in 0 .. N
      BY <1>1
    <3>2. h[k - 1] \in V
      <4> HIDE DEF step, N, V
      <4> QED
        BY <2>3, <3>1
    <3> QED
      BY <2>3, <3>2, Zenon
  <2>5. \A k \in 0 .. N : h[k] = IF k = 0 THEN 0 ELSE (h[k - 1] + (IF k \in under THEN 0 ELSE Len(l[k])))
    <3> HIDE DEF step, N, V
    <3> QED
      BY <1>1, <2>3, <2>4
  <2>6. h = [k \in 0 .. N |-> h[k]]
    <3> HIDE DEF step, N, V
    <3> QED
      BY <2>3
  <2>7. h = [k \in 0 .. N |-> IF k = 0 THEN 0 ELSE (h[k - 1] + (IF k \in under THEN 0 ELSE Len(l[k])))]
    BY <2>5, <2>6, Zenon
  <2> QED
    BY <2>7, Zenon
<1>4. p = [k \in 0 .. N |-> IF k = 0 THEN 0 ELSE (p[k - 1] + (IF k \in under THEN 0 ELSE Len(l[k])))]
  BY <1>3, Zenon
<1> HIDE DEF p, V
<1> DEFINE S == {k \in 0 .. N : p[k] \in V}
<1>5. 0 \in S
  BY <1>1, <1>4
<1>6. ASSUME NEW k \in 0 .. N - 1, k \in S PROVE k + 1 \in S
  <2>1. k + 1 \in 1 .. N /\ k + 1 \in 0 .. N /\ p[k] \in V /\ (k + 1) - 1 = k /\ k + 1 # 0
    BY <1>1, <1>6
  <2>2. p[k + 1] = (p[k] + (IF k + 1 \in under THEN 0 ELSE Len(l[k + 1])))
    BY <1>4, <2>1
  <2>3. p[k + 1] \in V
    BY <1>2, <2>1, <2>2
  <2> QED
    BY <2>1, <2>3
<1> HIDE DEF S
<1>7. 0 .. N \subseteq S
  BY <1>1, <1>5, <1>6, InductionUpTo
<1>8. \A k \in 0 .. N : p[k] \in V
  BY <1>7 DEF S
<1>9. Taken(l, under) = p
  BY DEF Taken, p
<1>10. p \in [0 .. N -> Nat]
  BY <1>4, <1>8 DEF V
<1>11. \A k \in 1 .. N : p[k] = p[k - 1] + (IF k \in under THEN 0 ELSE Len(l[k]))
  <2> SUFFICES ASSUME NEW k \in 1 .. N PROVE p[k] = p[k - 1] + (IF k \in under THEN 0 ELSE Len(l[k]))
    OBVIOUS
  <2>1. k \in 0 .. N /\ k # 0
    BY <1>1
  <2> QED
    BY <1>4, <2>1
<1> QED
  BY <1>9, <1>10, <1>11

(* FlattenSeq takes the sequences one after the other.                     *)
IsFlattening(h, N, X, seqs) ==
  h \in [0 .. N -> Seq(X)] /\ h[0] = <<>> /\ \A k \in 1 .. N : h[k] = h[k - 1] \o seqs[k]

LEMMA Flattened ==
  ASSUME NEW X, NEW seqs \in Seq(Seq(X))
  PROVE  \E h : IsFlattening(h, Len(seqs), X, seqs) /\ FlattenSeq(seqs) = h[Len(seqs)]
<1> DEFINE N == Len(seqs)
           V == Seq(X)
           p == CHOOSE f : f = [i \in 1 .. N |-> IF i = 1 THEN seqs[i] ELSE f[i - 1] \o seqs[i]]
<1>1. N \in Nat /\ <<>> \in V /\ \A k \in 1 .. N : seqs[k] \in V
  OBVIOUS
<1>2. ASSUME NEW k \in 1 .. N, NEW v \in V PROVE v \o seqs[k] \in V
  BY <1>1
<1>3. PICK h : IsFlattening(h, N, X, seqs)
  <2> DEFINE step == [k \in 1 .. N |-> [v \in V |-> v \o seqs[k]]]
  <2>1. step \in [1 .. N -> [V -> V]]
    BY <1>2, Zenon
  <2>2. \E h : IsRun(h, N, V, <<>>, step)
    <3> HIDE DEF step, N, V
    <3> QED
      BY <1>1, <2>1, StepsExist
  <2>3. PICK h : h \in [0 .. N -> V] /\ h[0] = <<>> /\ \A k \in 1 .. N : h[k] = step[k][h[k - 1]]
    BY <2>2 DEF IsRun
  <2>4. ASSUME NEW k \in 1 .. N PROVE h[k] = h[k - 1] \o seqs[k]
    <3>1. k - 1 \in 0 .. N
      BY <1>1
    <3>2. h[k - 1] \in V
      <4> HIDE DEF step, N, V
      <4> QED
        BY <2>3, <3>1
    <3> QED
      BY <2>3, <3>2, Zenon
  <2> HIDE DEF step, N
  <2>5. IsFlattening(h, N, X, seqs)
    BY <2>3, <2>4 DEF IsFlattening
  <2> QED
    BY <2>5
<1>4. h \in [0 .. N -> V] /\ h[0] = <<>> /\ \A k \in 1 .. N : h[k] = h[k - 1] \o seqs[k]
  BY <1>3 DEF IsFlattening
<1>5. N > 0 => h[1] = seqs[1]
  <2>1. \A s \in V : <<>> \o s = s
    OBVIOUS
  <2> SUFFICES ASSUME N > 0 PROVE h[1] = seqs[1]
    OBVIOUS
  <2>2. 1 \in 1 .. N /\ 1 - 1 = 0
    BY <1>1
  <2> HIDE DEF N, V
  <2>3. h[1] = <<>> \o seqs[1] /\ seqs[1] \in V
    BY <1>1, <1>4, <2>2
  <2> QED
    BY <2>1, <2>3
<1>6. \E f : f = [i \in 1 .. N |-> IF i = 1 THEN seqs[i] ELSE f[i - 1] \o seqs[i]]
  <2> DEFINE f == [i \in 1 .. N |-> h[i]]
  <2>1. ASSUME NEW i \in 1 .. N PROVE f[i] = IF i = 1 THEN seqs[i] ELSE f[i - 1] \o seqs[i]
    <3>1. CASE i = 1
      BY <1>5, <3>1
    <3>2. CASE i # 1
      <4>1. i - 1 \in 1 .. N
        BY <1>1, <3>2
      <4> HIDE DEF N
      <4> QED
        BY <1>4, <3>2, <4>1
    <3> QED
      BY <3>1, <3>2
  <2>2. f = [i \in 1 .. N |-> f[i]]
    OBVIOUS
  <2> HIDE DEF f, N
  <2>3. f = [i \in 1 .. N |-> IF i = 1 THEN seqs[i] ELSE f[i - 1] \o seqs[i]]
    BY <2>1, <2>2, Zenon
  <2> QED
    BY <2>3, Zenon
<1>7. p = [i \in 1 .. N |-> IF i = 1 THEN seqs[i] ELSE p[i - 1] \o seqs[i]]
  BY <1>6, Zenon
<1>8. FlattenSeq(seqs) = IF N = 0 THEN seqs ELSE p[N]
  BY DEF FlattenSeq
<1> HIDE DEF p, V
<1> DEFINE S == {n \in 0 .. N : n > 0 => p[n] = h[n]}
<1>9. 0 \in S
  BY <1>1
<1>10. ASSUME NEW n \in 0 .. N - 1, n \in S PROVE n + 1 \in S
  <2>1. n + 1 \in 1 .. N /\ n + 1 \in 0 .. N /\ (n + 1) - 1 = n
    BY <1>1
  <2>2. CASE n = 0
    BY <1>1, <1>5, <1>7, <2>1, <2>2
  <2>3. CASE n # 0
    <3>1. n + 1 # 1 /\ n > 0
      BY <1>1, <2>3
    <3>2. p[n + 1] = p[n] \o seqs[n + 1]
      <4> HIDE DEF N
      <4> QED
        BY <1>7, <2>1, <3>1
    <3>3. p[n] = h[n]
      BY <1>10, <3>1
    <3> QED
      BY <1>4, <2>1, <3>2, <3>3
  <2> QED
    BY <2>2, <2>3
<1> HIDE DEF S
<1>11. 0 .. N \subseteq S
  BY <1>1, <1>9, <1>10, InductionUpTo
<1>12. N > 0 => p[N] = h[N]
  BY <1>1, <1>11 DEF S
<1>13. N = 0 => seqs = <<>>
  OBVIOUS
<1>14. FlattenSeq(seqs) = h[N]
  BY <1>1, <1>4, <1>8, <1>12, <1>13
<1> HIDE DEF N
<1>15. IsFlattening(h, N, X, seqs) /\ FlattenSeq(seqs) = h[N]
  BY <1>3, <1>14
<1> QED
  BY <1>15 DEF N

LEMMA FlattenType ==
  ASSUME NEW X, NEW seqs \in Seq(Seq(X))
  PROVE  FlattenSeq(seqs) \in Seq(X)
<1>1. PICK h : IsFlattening(h, Len(seqs), X, seqs) /\ FlattenSeq(seqs) = h[Len(seqs)]
  BY Flattened
<1>2. Len(seqs) \in 0 .. Len(seqs) /\ h \in [0 .. Len(seqs) -> Seq(X)]
  BY <1>1 DEF IsFlattening
<1> QED
  BY <1>1, <1>2

(* Sequences of the same lengths are as long when flattened.               *)
LEMMA FlattenLength ==
  ASSUME NEW X, NEW Y, NEW s \in Seq(Seq(X)), NEW t \in Seq(Seq(Y)),
         Len(s) = Len(t), \A k \in 1 .. Len(s) : Len(s[k]) = Len(t[k])
  PROVE  Len(FlattenSeq(s)) = Len(FlattenSeq(t))
<1> DEFINE N == Len(s)
<1>1. PICK g : IsFlattening(g, N, X, s) /\ FlattenSeq(s) = g[N]
  BY Flattened
<1>2. PICK h : IsFlattening(h, N, Y, t) /\ FlattenSeq(t) = h[N]
  BY Flattened
<1> DEFINE S == {n \in 0 .. N : Len(g[n]) = Len(h[n])}
<1>3. N \in Nat /\ \A k \in 1 .. N : s[k] \in Seq(X) /\ t[k] \in Seq(Y) /\ Len(s[k]) = Len(t[k])
  OBVIOUS
<1> HIDE DEF N
<1>4. 0 \in S
  BY <1>1, <1>2, <1>3 DEF IsFlattening
<1>5. ASSUME NEW n \in 0 .. N - 1, n \in S PROVE n + 1 \in S
  <2>1. n + 1 \in 1 .. N /\ n + 1 \in 0 .. N /\ (n + 1) - 1 = n /\ n \in 0 .. N
    BY <1>3
  <2>2. g[n + 1] = g[n] \o s[n + 1] /\ h[n + 1] = h[n] \o t[n + 1]
    BY <1>1, <1>2, <2>1 DEF IsFlattening
  <2>3. g[n] \in Seq(X) /\ h[n] \in Seq(Y)
    BY <1>1, <1>2, <2>1 DEF IsFlattening
  <2>4. Len(g[n + 1]) = Len(g[n]) + Len(s[n + 1])
    BY <1>3, <2>1, <2>2, <2>3
  <2>5. Len(h[n + 1]) = Len(h[n]) + Len(t[n + 1])
    BY <1>3, <2>1, <2>2, <2>3
  <2> QED
    BY <1>3, <1>5, <2>1, <2>4, <2>5
<1> HIDE DEF S
<1>6. 0 .. N \subseteq S
  BY <1>3, <1>4, <1>5, InductionUpTo
<1> QED
  BY <1>1, <1>2, <1>3, <1>6 DEF S

-----------------------------------------------------------------------------
(* Layouts of true numbers                                                 *)

(* A coordinate has no more numbers in a mode than the mode has leaves.    *)
Indexes(l, c) == \A i \in DOMAIN l : c[i] \in Seq(TrueNumbers) /\ Len(c[i]) <= Len(l[i])

LEMMA FunctionIsSeq ==
  ASSUME NEW N \in Nat, NEW X, NEW f \in [1 .. N -> X]
  PROVE  f \in Seq(X) /\ Len(f) = N /\ DOMAIN f = 1 .. N
OBVIOUS

LEMMA SizeTrue ==
  ASSUME NEW n \in Nat \ {0}
  PROVE  Static(n) \in Sizes
BY KnownTrue DEF Sizes, Static, Known

LEMMA LeafTrue ==
  ASSUME NEW n \in Sizes, NEW d \in TrueNumbers, NEW at \in Axes
  PROVE  Leaf(n, d, at) \in TrueLeaves
BY DEF Leaf, TrueLeaves

LEMMA LeafIs ==
  ASSUME NEW f \in TrueLeaves
  PROVE  /\ f.n \in Sizes /\ f.n \in TrueNumbers /\ f.n.real > 0 /\ f.d \in TrueNumbers /\ f.at \in Axes
         /\ f = [n |-> f.n, d |-> f.d, at |-> f.at]
BY DEF TrueLeaves, Sizes

LEMMA LayoutIs ==
  ASSUME NEW l \in TrueLayouts
  PROVE  /\ Len(l) \in Nat /\ DOMAIN l = 1 .. Len(l) /\ l \in [1 .. Len(l) -> Seq(TrueLeaves)]
         /\ \A i \in 1 .. Len(l) :
              /\ l[i] \in Seq(TrueLeaves) /\ Len(l[i]) \in Nat /\ DOMAIN l[i] = 1 .. Len(l[i])
              /\ \A k \in 1 .. Len(l[i]) : l[i][k] \in TrueLeaves
<1>1. Len(l) \in Nat /\ DOMAIN l = 1 .. Len(l) /\ l \in [1 .. Len(l) -> Seq(TrueLeaves)]
  BY DEF TrueLayouts
<1>2. ASSUME NEW i \in 1 .. Len(l)
      PROVE  /\ l[i] \in Seq(TrueLeaves) /\ Len(l[i]) \in Nat /\ DOMAIN l[i] = 1 .. Len(l[i])
             /\ \A k \in 1 .. Len(l[i]) : l[i][k] \in TrueLeaves
  <2>1. l[i] \in Seq(TrueLeaves)
    BY <1>1
  <2> QED
    BY <2>1
<1> QED
  BY <1>1, <1>2

LEMMA LeavesTrue ==
  ASSUME NEW l \in TrueLayouts
  PROVE  /\ Leaves(l) \in Seq(TrueLeaves) /\ Len(Leaves(l)) \in Nat /\ DOMAIN Leaves(l) = 1 .. Len(Leaves(l))
         /\ \A k \in 1 .. Len(Leaves(l)) : Leaves(l)[k] \in TrueLeaves
<1>1. Leaves(l) \in Seq(TrueLeaves)
  BY FlattenType DEF Leaves, TrueLayouts
<1> QED
  BY <1>1

LEMMA SlicedTrue ==
  ASSUME NEW l \in TrueLayouts, NEW c
  PROVE  Sliced(l, c) \in TrueLayouts
<1> DEFINE N == Len(l)
           s == [i \in 1 .. N |-> IF c[i] = Under THEN <<l[i]>> ELSE <<>>]
<1>1. N \in Nat /\ DOMAIN l = 1 .. N /\ \A i \in 1 .. N : l[i] \in Seq(TrueLeaves)
  BY LayoutIs
<1>2. Sliced(l, c) = FlattenSeq(s)
  BY <1>1 DEF Sliced
<1>3. s \in [1 .. N -> TrueLayouts]
  <2>1. \A x \in Seq(TrueLeaves) : <<x>> \in Seq(Seq(TrueLeaves))
    OBVIOUS
  <2>2. <<>> \in Seq(Seq(TrueLeaves))
    OBVIOUS
  <2> HIDE DEF N
  <2> QED
    BY <1>1, <2>1, <2>2 DEF TrueLayouts
<1>4. s \in Seq(Seq(Seq(TrueLeaves)))
  <2> HIDE DEF s, N
  <2> QED
    BY <1>1, <1>3, FunctionIsSeq, Zenon DEF TrueLayouts
<1> HIDE DEF s
<1> QED
  BY <1>2, <1>4, FlattenType DEF TrueLayouts

LEMMA OffsetTrue ==
  ASSUME NEW l \in TrueLayouts, NEW c, Indexes(l, c)
  PROVE  OffsetOf(l, c) \in [Axes -> TrueNumbers]
<1> DEFINE N == Len(l)
           w(i, a) == [k \in DOMAIN c[i] |-> IF l[i][k].at = a THEN Times(c[i][k], l[i][k].d) ELSE Static(0)]
           s(a) == [i \in DOMAIN l |-> w(i, a)]
<1>1. N \in Nat /\ DOMAIN l = 1 .. N
  BY LayoutIs
<1>2. ASSUME NEW a \in Axes, NEW i \in 1 .. N PROVE w(i, a) \in Seq(TrueNumbers)
  <2>1. c[i] \in Seq(TrueNumbers) /\ Len(c[i]) \in Nat /\ Len(c[i]) <= Len(l[i]) /\ DOMAIN c[i] = 1 .. Len(c[i])
    BY <1>1 DEF Indexes
  <2>2. ASSUME NEW k \in 1 .. Len(c[i])
        PROVE  (IF l[i][k].at = a THEN Times(c[i][k], l[i][k].d) ELSE Static(0)) \in TrueNumbers
    <3>1. k \in 1 .. Len(l[i]) /\ c[i][k] \in TrueNumbers
      BY <1>1, <2>1, LayoutIs
    <3>2. l[i][k].d \in TrueNumbers
      BY <3>1, LayoutIs, LeafIs
    <3>3. Times(c[i][k], l[i][k].d) \in TrueNumbers
      BY <3>1, <3>2, TimesTrue
    <3>4. Static(0) \in TrueNumbers
      BY KnownTrue
    <3> QED
      BY <3>3, <3>4
  <2>3. w(i, a) \in [1 .. Len(c[i]) -> TrueNumbers]
    BY <2>1, <2>2, Zenon
  <2> HIDE DEF w
  <2> QED
    BY <2>1, <2>3, FunctionIsSeq, Zenon
<1>3. ASSUME NEW a \in Axes PROVE Total(FlattenSeq(s(a))) \in TrueNumbers
  <2> HIDE DEF w
  <2>1. s(a) \in [1 .. N -> Seq(TrueNumbers)]
    <3> HIDE DEF N
    <3> QED
      BY <1>1, <1>2, Zenon
  <2>2. s(a) \in Seq(Seq(TrueNumbers))
    <3> HIDE DEF s, N
    <3> QED
      BY <1>1, <2>1, FunctionIsSeq, Zenon
  <2> HIDE DEF s
  <2> QED
    BY <2>2, FlattenType, TotalTrue
<1>4. OffsetOf(l, c) = [a \in Axes |-> Total(FlattenSeq(s(a)))]
  BY DEF OffsetOf
<1> HIDE DEF s
<1> QED
  BY <1>3, <1>4

(* What divides what the type says of a known extent leaves an extent.     *)
LEMMA OverSize ==
  ASSUME NEW n \in Sizes, NEW t \in Nat \ {0}, n.known, Divides(t, n.claim)
  PROVE  Over(n, t) \in Sizes
<1>1. n \in TrueNumbers /\ n.real > 0 /\ n.claim = n.real /\ n.real \in Nat \ {0}
  BY NumberIs DEF Sizes
<1>2. Over(n, t) \in TrueNumbers /\ Over(n, t).real = n.real \div t
  BY <1>1, OverTrue
<1>3. Multiple(n.claim, n.real)
  BY <1>1, MultipleOwn
<1>4. n.real \div t \in Nat \ {0}
  BY <1>1, <1>3, QuotientTrue
<1> QED
  BY <1>2, <1>4 DEF Sizes

LEMMA DivideTrue ==
  ASSUME NEW l \in TrueLayouts, NEW t \in Seq(Nat \ {0}), Divisible(l, t)
  PROVE  /\ ZippedDivide(l, t).tile \in TrueLayouts /\ ZippedDivide(l, t).rest \in TrueLayouts
         /\ Len(ZippedDivide(l, t).tile) = Len(t) /\ Len(ZippedDivide(l, t).rest) = Len(l)
         /\ Len(t) \in Nat /\ Len(t) <= Len(l) /\ DOMAIN t = 1 .. Len(t)
         /\ \A i \in 1 .. Len(t) : Len(ZippedDivide(l, t).tile[i]) = 1 /\ Len(ZippedDivide(l, t).rest[i]) = 1
<1> DEFINE N == Len(t)
           tile(f, n) == Leaf(Static(n), f.d, f.at)
           rest(f, n) == Leaf(Over(f.n, n), Times(Static(n), f.d), f.at)
           a == [i \in 1 .. N |-> <<tile(l[i][1], t[i])>>]
           b == [i \in 1 .. N |-> <<rest(l[i][1], t[i])>>]
           beyond == SubSeq(l, N + 1, Len(l))
<1>1. N \in Nat /\ DOMAIN t = 1 .. N /\ N <= Len(l) /\ Len(l) \in Nat /\ \A i \in 1 .. N : t[i] \in Nat \ {0}
  BY LayoutIs DEF Divisible
<1>2. ASSUME NEW i \in 1 .. N
      PROVE  /\ tile(l[i][1], t[i]) \in TrueLeaves
             /\ rest(l[i][1], t[i]) \in TrueLeaves
  <2> DEFINE f == l[i][1]
  <2>1. Len(l[i]) = 1 /\ f.n.known /\ Divides(t[i], f.n.claim)
    BY <1>1 DEF Divisible
  <2>2. f \in TrueLeaves
    BY <1>1, <2>1, LayoutIs
  <2> HIDE DEF f
  <2>3. Static(t[i]) \in Sizes /\ Static(t[i]) \in TrueNumbers
    BY <1>1, SizeTrue DEF Sizes
  <2>4. Over(f.n, t[i]) \in Sizes
    BY <1>1, <2>1, <2>2, LeafIs, OverSize
  <2>5. Times(Static(t[i]), f.d) \in TrueNumbers
    BY <2>2, <2>3, LeafIs, TimesTrue
  <2> QED
    BY <2>2, <2>3, <2>4, <2>5, LeafIs, LeafTrue DEF f
<1> HIDE DEF tile, rest
<1>3. a \in [1 .. N -> Seq(TrueLeaves)] /\ b \in [1 .. N -> Seq(TrueLeaves)]
  <2>1. \A x \in TrueLeaves : <<x>> \in Seq(TrueLeaves)
    OBVIOUS
  <2> HIDE DEF N
  <2> QED
    BY <1>2, <2>1
<1>4. \A i \in 1 .. N : Len(a[i]) = 1 /\ Len(b[i]) = 1
  OBVIOUS
<1>5. ZippedDivide(l, t) = [tile |-> a, rest |-> b \o beyond]
  BY <1>1 DEF ZippedDivide, tile, rest
<1>6. beyond \in TrueLayouts /\ Len(beyond) = Len(l) - N
  BY <1>1 DEF TrueLayouts
<1> HIDE DEF a, b, beyond, N
<1>7. a \in TrueLayouts /\ Len(a) = N /\ b \in TrueLayouts /\ Len(b) = N
  BY <1>1, <1>3, FunctionIsSeq, Zenon DEF TrueLayouts
<1>8. b \o beyond \in TrueLayouts /\ Len(b \o beyond) = Len(l) /\ \A i \in 1 .. N : (b \o beyond)[i] = b[i]
  BY <1>1, <1>6, <1>7 DEF TrueLayouts
<1> QED
  BY <1>1, <1>4, <1>5, <1>7, <1>8 DEF N

LEMMA JoinedTrue ==
  ASSUME NEW a \in TrueLayouts, NEW b \in TrueLayouts
  PROVE  a \o b \in TrueLayouts /\ Len(a \o b) = Len(a) + Len(b)
BY DEF TrueLayouts

(* A layout with other strides, or other extents, leaf by leaf.            *)
LEMMA LeafByLeaf ==
  ASSUME NEW l \in TrueLayouts, NEW X, NEW g,
         DOMAIN g = DOMAIN l, g = [i \in DOMAIN g |-> g[i]],
         \A i \in DOMAIN l : g[i] \in [DOMAIN l[i] -> X]
  PROVE  g \in Seq(Seq(X)) /\ Len(g) = Len(l) /\ \A i \in 1 .. Len(l) : Len(g[i]) = Len(l[i])
<1> DEFINE N == Len(l)
<1>1. N \in Nat /\ DOMAIN l = 1 .. N
  BY LayoutIs
<1>2. ASSUME NEW i \in 1 .. N PROVE g[i] \in Seq(X) /\ Len(g[i]) = Len(l[i])
  <2>1. Len(l[i]) \in Nat /\ g[i] \in [1 .. Len(l[i]) -> X]
    BY <1>1, LayoutIs
  <2> QED
    BY <2>1, FunctionIsSeq, Zenon
<1> HIDE DEF N
<1>3. g \in [1 .. N -> Seq(X)]
  BY <1>1, <1>2
<1>4. g \in Seq(Seq(X)) /\ Len(g) = N
  BY <1>1, <1>3, FunctionIsSeq, Zenon
<1> QED
  BY <1>2, <1>4 DEF N

LEMMA FilterZerosTrue ==
  ASSUME NEW l \in TrueLayouts
  PROVE  FilterZeros(l) \in TrueLayouts
<1> DEFINE e(i, k) == IF Nil(l[i][k].d) THEN [l[i][k] EXCEPT !.n = Static(1)] ELSE l[i][k]
           g == [i \in DOMAIN l |-> [k \in DOMAIN l[i] |-> e(i, k)]]
<1>1. ASSUME NEW i \in DOMAIN l, NEW k \in DOMAIN l[i] PROVE e(i, k) \in TrueLeaves
  <2>1. l[i][k] \in TrueLeaves
    BY LayoutIs
  <2>2. Static(1) \in Sizes
    BY SizeTrue
  <2> QED
    BY <2>1, <2>2 DEF TrueLeaves
<1> HIDE DEF e
<1>2. DOMAIN g = DOMAIN l /\ g = [i \in DOMAIN g |-> g[i]] /\ \A i \in DOMAIN l : g[i] \in [DOMAIN l[i] -> TrueLeaves]
  BY <1>1
<1>3. FilterZeros(l) = g
  BY DEF FilterZeros, e
<1> HIDE DEF g
<1> QED
  BY <1>2, <1>3, LeafByLeaf DEF TrueLayouts

LEMMA ZeroUnitModesTrue ==
  ASSUME NEW l \in TrueLayouts
  PROVE  ZeroUnitModes(l) \in TrueLayouts /\ Len(ZeroUnitModes(l)) = Len(l)
<1> DEFINE e(i, k) == IF One(l[i][k].n) THEN [l[i][k] EXCEPT !.d = Static(0)] ELSE l[i][k]
           g == [i \in DOMAIN l |-> [k \in DOMAIN l[i] |-> e(i, k)]]
<1>1. ASSUME NEW i \in DOMAIN l, NEW k \in DOMAIN l[i] PROVE e(i, k) \in TrueLeaves
  <2>1. l[i][k] \in TrueLeaves
    BY LayoutIs
  <2>2. Static(0) \in TrueNumbers
    BY KnownTrue
  <2> QED
    BY <2>1, <2>2 DEF TrueLeaves
<1> HIDE DEF e
<1>2. DOMAIN g = DOMAIN l /\ g = [i \in DOMAIN g |-> g[i]] /\ \A i \in DOMAIN l : g[i] \in [DOMAIN l[i] -> TrueLeaves]
  BY <1>1
<1>3. ZeroUnitModes(l) = g
  BY DEF ZeroUnitModes, e
<1> HIDE DEF g
<1> QED
  BY <1>2, <1>3, LeafByLeaf DEF TrueLayouts

LEMMA HeadTrue ==
  ASSUME NEW l \in TrueLayouts, NEW keep \in Nat
  PROVE  ZeroUnitModesHead(l, keep) \in TrueLayouts /\ Len(ZeroUnitModesHead(l, keep)) = Len(l)
<1>1. Len(l) \in Nat
  BY LayoutIs
<1>2. CASE keep > Len(l)
  BY <1>2 DEF ZeroUnitModesHead
<1>3. CASE ~(keep > Len(l))
  <2> DEFINE a == SubSeq(l, 1, Len(l) - keep)
             b == SubSeq(l, Len(l) - keep + 1, Len(l))
  <2>1. a \in TrueLayouts /\ b \in TrueLayouts /\ Len(a) = Len(l) - keep /\ Len(b) = keep
    BY <1>1, <1>3 DEF TrueLayouts
  <2>2. ZeroUnitModesHead(l, keep) = ZeroUnitModes(a) \o b
    BY <1>3 DEF ZeroUnitModesHead
  <2> HIDE DEF a, b
  <2>3. ZeroUnitModes(a) \in TrueLayouts /\ Len(ZeroUnitModes(a)) = Len(l) - keep
    BY <2>1, ZeroUnitModesTrue
  <2>4. ZeroUnitModes(a) \o b \in TrueLayouts /\ Len(ZeroUnitModes(a) \o b) = Len(l) - keep + keep
    BY <2>1, <2>3, JoinedTrue
  <2> QED
    BY <1>1, <2>2, <2>4
<1> QED
  BY <1>2, <1>3

LEMMA ArrangedTrue ==
  ASSUME NEW a \in TrueLayouts, NEW b \in TrueLayouts, Len(a) <= Len(b),
         NEW how \in {"logical", "zipped", "tiled", "flat"}
  PROVE  Arranged([tile |-> a, rest |-> b], how) \in TrueLayouts
<1> DEFINE r == Len(a)
           beyond == SubSeq(b, r + 1, Len(b))
           both == [i \in 1 .. r |-> a[i] \o b[i]]
<1>1. r \in Nat /\ Len(b) \in Nat /\ \A i \in 1 .. r : a[i] \in Seq(TrueLeaves) /\ b[i] \in Seq(TrueLeaves)
  BY LayoutIs
<1>2. beyond \in TrueLayouts
  BY <1>1 DEF TrueLayouts
<1>3. both \in [1 .. r -> Seq(TrueLeaves)]
  BY <1>1
<1>4. both \in TrueLayouts
  <2> HIDE DEF r, both
  <2> QED
    BY <1>1, <1>3, FunctionIsSeq, Zenon DEF TrueLayouts
<1>5. Arranged([tile |-> a, rest |-> b], how) =
        CASE how = "logical" -> both \o beyond
          [] how = "zipped" -> <<Leaves(a), Leaves(b)>>
          [] how = "tiled" -> <<Leaves(a)>> \o b
          [] how = "flat" -> a \o b
  BY DEF Arranged
<1>6. Leaves(a) \in Seq(TrueLeaves) /\ Leaves(b) \in Seq(TrueLeaves)
  BY LeavesTrue
<1>7. both \o beyond \in TrueLayouts
  <2> HIDE DEF both, beyond
  <2> QED
    BY <1>2, <1>4 DEF TrueLayouts
<1>8. <<Leaves(a), Leaves(b)>> \in TrueLayouts
  BY <1>6 DEF TrueLayouts
<1>9. <<Leaves(a)>> \o b \in TrueLayouts /\ a \o b \in TrueLayouts
  BY <1>6 DEF TrueLayouts
<1> HIDE DEF both, beyond
<1> QED
  BY <1>5, <1>7, <1>8, <1>9

LEMMA GroupTrue ==
  ASSUME NEW l \in TrueLayouts, NEW e \in 2 .. Len(l)
  PROVE  Group(e - 2, e, l) \in TrueLayouts
<1>1. Len(l) \in Nat /\ e \in Nat /\ e - 2 \in 0 .. Len(l)
  BY LayoutIs
<1> DEFINE a == SubSeq(l, 1, e - 2)
           b == SubSeq(l, e - 2 + 1, e)
           c == SubSeq(l, e + 1, Len(l))
<1>2. a \in TrueLayouts /\ b \in TrueLayouts /\ c \in TrueLayouts
  BY <1>1 DEF TrueLayouts
<1>3. Group(e - 2, e, l) = a \o <<Leaves(b)>> \o c
  BY DEF Group
<1> HIDE DEF a, b, c
<1>4. <<Leaves(b)>> \in TrueLayouts
  BY <1>2, LeavesTrue DEF TrueLayouts
<1>5. a \o <<Leaves(b)>> \in TrueLayouts
  BY <1>2, <1>4, JoinedTrue
<1>6. (a \o <<Leaves(b)>>) \o c \in TrueLayouts
  BY <1>2, <1>5, JoinedTrue
<1> QED
  BY <1>3, <1>6

LEMMA MakeLayoutTrue ==
  ASSUME NEW shape \in Seq(Seq(Sizes))
  PROVE  MakeLayout(shape) \in TrueLayouts
<1> DEFINE N == Len(shape)
           before(i, k) == Leaves(SubSeq(shape, 1, i - 1)) \o SubSeq(shape[i], 1, k - 1)
           e(i, k) == Leaf(shape[i][k], Product(before(i, k)), 1)
           w(i) == [k \in DOMAIN shape[i] |-> e(i, k)]
           g == [i \in DOMAIN shape |-> w(i)]
<1>1. N \in Nat /\ DOMAIN shape = 1 .. N
  OBVIOUS
<1>2. ASSUME NEW i \in 1 .. N PROVE w(i) \in Seq(TrueLeaves)
  <2>1. shape[i] \in Seq(Sizes) /\ Len(shape[i]) \in Nat /\ DOMAIN shape[i] = 1 .. Len(shape[i])
    OBVIOUS
  <2>2. ASSUME NEW k \in 1 .. Len(shape[i]) PROVE e(i, k) \in TrueLeaves
    <3>1. SubSeq(shape, 1, i - 1) \in Seq(Seq(Sizes)) /\ SubSeq(shape[i], 1, k - 1) \in Seq(Sizes)
      BY <1>1, <2>1
    <3>2. Leaves(SubSeq(shape, 1, i - 1)) \in Seq(Sizes)
      BY <3>1, FlattenType DEF Leaves
    <3>3. before(i, k) \in Seq(Sizes)
      BY <3>1, <3>2
    <3>4. before(i, k) \in Seq(TrueNumbers)
      <4>1. Sizes \subseteq TrueNumbers
        BY DEF Sizes
      <4> HIDE DEF before
      <4> QED
        BY <3>3, <4>1
    <3> HIDE DEF before
    <3>5. Product(before(i, k)) \in TrueNumbers
      BY <3>4, ProductTrue
    <3>6. shape[i][k] \in Sizes /\ 1 \in Axes
      BY <2>1 DEF Axes
    <3> QED
      BY <3>5, <3>6, LeafTrue
  <2> HIDE DEF e
  <2>3. w(i) \in [1 .. Len(shape[i]) -> TrueLeaves]
    BY <2>1, <2>2
  <2> HIDE DEF w
  <2> QED
    BY <2>1, <2>3, FunctionIsSeq, Zenon
<1> HIDE DEF w
<1>3. g \in [1 .. N -> Seq(TrueLeaves)]
  <2> HIDE DEF N
  <2> QED
    BY <1>1, <1>2
<1>4. g \in TrueLayouts
  <2> HIDE DEF N, g
  <2> QED
    BY <1>1, <1>3, FunctionIsSeq, Zenon DEF TrueLayouts
<1>5. MakeLayout(shape) = ZeroUnitModes(g)
  BY DEF MakeLayout, w
<1> HIDE DEF g
<1> QED
  BY <1>4, <1>5, ZeroUnitModesTrue

LEMMA FragmentTrue ==
  ASSUME NEW l \in TrueLayouts, NEW basis \in BOOLEAN
  PROVE  MakeFragmentLike(l, basis) \in Seq(TrueLeaves)
<1> DEFINE leaves == Leaves(l)
           N == Len(leaves)
           b(j, k) == IF Earlier(l, basis, j, k) /\ ~NoRegisters(l, j) THEN leaves[j].n ELSE Static(1)
           before(k) == [j \in DOMAIN leaves |-> b(j, k)]
           d(k) == IF NoRegisters(l, k) THEN Static(0) ELSE Product(before(k))
           g == [k \in DOMAIN leaves |-> [leaves[k] EXCEPT !.d = d(k)]]
<1>1. N \in Nat /\ DOMAIN leaves = 1 .. N /\ \A k \in 1 .. N : leaves[k] \in TrueLeaves
  BY LeavesTrue
<1>2. MakeFragmentLike(l, basis) = g
  BY DEF MakeFragmentLike
<1> HIDE DEF leaves
<1>3. ASSUME NEW k \in 1 .. N PROVE d(k) \in TrueNumbers
  <2>1. ASSUME NEW j \in 1 .. N PROVE b(j, k) \in TrueNumbers
    <3>1. leaves[j].n \in TrueNumbers /\ Static(1) \in TrueNumbers
      BY <1>1, LeafIs, KnownTrue
    <3> QED
      BY <3>1
  <2> HIDE DEF b, N
  <2>2. before(k) \in [1 .. N -> TrueNumbers]
    BY <1>1, <2>1
  <2> HIDE DEF before
  <2>3. before(k) \in Seq(TrueNumbers)
    BY <1>1, <2>2, FunctionIsSeq, Zenon
  <2> QED
    BY <2>3, ProductTrue, KnownTrue
<1> HIDE DEF d, N
<1>4. g \in [1 .. N -> TrueLeaves]
  <2>1. \A k \in 1 .. N : [leaves[k] EXCEPT !.d = d(k)] \in TrueLeaves
    BY <1>1, <1>3 DEF TrueLeaves
  <2> QED
    BY <1>1, <2>1
<1> HIDE DEF g
<1> QED
  BY <1>1, <1>2, <1>4, FunctionIsSeq, Zenon

-----------------------------------------------------------------------------
(* Views                                                                   *)

TrueViews ==
  [kind : {"memref", "coord"}, bits : Nat \ {0}, align : Nat, addr : Int, iter : [Axes -> TrueNumbers],
   composed : BOOLEAN, offset : TrueNumbers, layout : TrueLayouts]

(* A pointer to elements of whole bytes, or of one bit, is a multiple of   *)
(* its alignment, which is never lost; that of one bit stays a power of 2. *)
Aligned(v) ==
  v.kind = "memref" =>
    /\ v.align > 0 /\ Multiple(8 * v.align, v.addr)
    /\ v.bits % 8 = 0 \/ (v.bits = 1 /\ v.align \in {1, 2, 4, 8, 16})

(* A view that operations on v may leave in hand.                          *)
Follows(v, w) == w \in TrueViews /\ (Aligned(v) => Aligned(w))

LEMMA ViewIs ==
  ASSUME NEW v \in TrueViews
  PROVE  /\ v.kind \in {"memref", "coord"} /\ v.bits \in Nat \ {0} /\ v.align \in Nat /\ v.addr \in Int
         /\ v.iter \in [Axes -> TrueNumbers] /\ v.composed \in BOOLEAN /\ v.offset \in TrueNumbers
         /\ v.layout \in TrueLayouts
BY DEF TrueViews

LEMMA SameFollows ==
  ASSUME NEW v \in TrueViews
  PROVE  Follows(v, v)
BY DEF Follows

LEMMA WithLayoutTrue ==
  ASSUME NEW v \in TrueViews, NEW l \in TrueLayouts
  PROVE  Follows(v, WithLayout(v, l)) /\ WithLayout(v, l) \in TrueViews
<1>1. WithLayout(v, l) \in TrueViews
  BY DEF WithLayout, TrueViews
<1>2. \A f \in {"kind", "align", "addr", "bits"} : WithLayout(v, l)[f] = v[f]
  BY DEF WithLayout, TrueViews
<1>3. WithLayout(v, l).kind = v.kind /\ WithLayout(v, l).align = v.align /\ WithLayout(v, l).addr = v.addr
      /\ WithLayout(v, l).bits = v.bits
  BY <1>2
<1> QED
  BY <1>1, <1>3, Zenon DEF Follows, Aligned

LEMMA FollowsThrough ==
  ASSUME NEW u, NEW v, NEW w, Follows(u, v), Follows(v, w)
  PROVE  Follows(u, w)
BY DEF Follows

LEMMA NaturalIs ==
  ASSUME NEW bits \in Nat \ {0}
  PROVE  /\ NaturalAlignment(bits) \in Nat /\ Stride(bits) \in Nat \ {0}
         /\ bits = 1 => NaturalAlignment(bits) = 1 /\ Stride(bits) = 8
         /\ bits % 8 = 0 => /\ NaturalAlignment(bits) > 0 /\ bits = 8 * NaturalAlignment(bits)
                            /\ Stride(bits) = bits
BY DEF NaturalAlignment, Stride

(* The gcd of the two, in bytes, or a fallback: a number in any case.      *)
LEMMA MovedAlignmentIs ==
  ASSUME NEW v \in TrueViews, NEW x \in TrueNumbers
  PROVE  MovedAlignment(v, x) \in Nat
<1> DEFINE natural == NaturalAlignment(v.bits)
           align == IF v.align = 0 THEN natural ELSE v.align
           g == Gcd[<<align * 8, Fact(x) * v.bits>>]
<1>1. natural \in Nat /\ v.align \in Nat /\ align \in Nat /\ Fact(x) \in Nat /\ v.bits \in Nat
  BY NaturalIs, ViewIs, NumberIs
<1>2. align * 8 \in Nat /\ Fact(x) * v.bits \in Nat
  <2>1. \A a, b \in Nat : a * b \in Nat
    BY Z3
  <2> HIDE DEF align
  <2> QED
    BY <1>1, <2>1
<1>3. g \in Nat
  <2> HIDE DEF align
  <2> QED
    BY <1>2, GcdRight DEF IsGcd
<1> HIDE DEF g, natural
<1>4. MovedAlignment(v, x) = IF Nil(x) THEN v.align ELSE IF g \div 8 = 0 THEN natural ELSE g \div 8
  BY DEF MovedAlignment, g, natural
<1> QED
  BY <1>1, <1>3, <1>4

LEMMA MovedTrue ==
  ASSUME NEW v \in TrueViews, NEW x \in [Axes -> TrueNumbers]
  PROVE  Moved(v, x) \in TrueViews
<1>1. x[1] \in TrueNumbers /\ x[1].real \in Int /\ Stride(v.bits) \in Int
  BY ViewIs, NaturalIs, NumberIs DEF Axes
<1>2. x[1].real * Stride(v.bits) \in Int /\ v.addr + x[1].real * Stride(v.bits) \in Int
  <2>1. \A a, b \in Int : a * b \in Int
    BY Z3
  <2>2. x[1].real * Stride(v.bits) \in Int
    BY <1>1, <2>1
  <2> QED
    BY <2>2, ViewIs
<1>3. CASE v.kind = "memref"
  <2>1. Moved(v, x) = [v EXCEPT !.align = MovedAlignment(v, x[1]), !.addr = @ + x[1].real * Stride(v.bits)]
    BY <1>3 DEF Moved
  <2>2. MovedAlignment(v, x[1]) \in Nat
    BY <1>1, MovedAlignmentIs
  <2> QED
    BY <1>2, <2>1, <2>2 DEF TrueViews
<1>4. CASE v.kind = "coord"
  <2>1. Moved(v, x) = [v EXCEPT !.iter = [a \in Axes |-> Plus(v.iter[a], x[a])]]
    BY <1>4 DEF Moved
  <2>2. \A a \in Axes : Plus(v.iter[a], x[a]) \in TrueNumbers
    BY PlusTrue, ViewIs
  <2> QED
    BY <2>1, <2>2 DEF TrueViews
<1> QED
  BY <1>3, <1>4, ViewIs

(* The divisors of 128 that are a multiple of a byte.                      *)
LEMMA WholeBytes ==
  ASSUME NEW g \in Nat \ {0}, Multiple(g, 128)
  PROVE  g < 8 \/ g \in {8, 16, 32, 64, 128}
<1>1. PICK p \in Int : 128 = g * p
  BY DEF Multiple
<1>2. SUFFICES ASSUME g >= 8 PROVE g \in {8, 16, 32, 64, 128}
  OBVIOUS
<1>3. p \in 1 .. 16
  <2>1. \A a \in Int, b \in Int : a >= 8 /\ b > 16 => a * b > 128
    BY Z3
  <2>2. \A a \in Int, b \in Int : a >= 8 /\ b <= 0 => a * b <= 0
    BY Z3
  <2> QED
    BY <1>1, <1>2, <2>1, <2>2
<1>4. \/ p = 1 \/ p = 2 \/ p = 3 \/ p = 4 \/ p = 5 \/ p = 6 \/ p = 7 \/ p = 8
      \/ p = 9 \/ p = 10 \/ p = 11 \/ p = 12 \/ p = 13 \/ p = 14 \/ p = 15 \/ p = 16
  BY <1>3
<1> QED
  BY <1>1, <1>4

LEMMA MovedAligned ==
  ASSUME NEW v \in TrueViews, NEW x \in [Axes -> TrueNumbers]
  PROVE  Follows(v, Moved(v, x))
<1> DEFINE w == Moved(v, x)
           y == x[1]
           natural == NaturalAlignment(v.bits)
           moved == y.real * Stride(v.bits)
<1>1. w \in TrueViews
  BY MovedTrue
<1>2. CASE v.kind = "coord"
  <2>1. w.kind = "coord"
    BY <1>2 DEF Moved, TrueViews
  <2> QED
    BY <1>1, <2>1 DEF Follows, Aligned
<1>3. CASE v.kind = "memref"
  <2>1. /\ w.kind = v.kind /\ w.bits = v.bits /\ w.align = MovedAlignment(v, y) /\ w.addr = v.addr + moved
    BY <1>3 DEF Moved, TrueViews
  <2> SUFFICES ASSUME Aligned(v)
               PROVE  /\ w.align > 0 /\ Multiple(8 * w.align, w.addr)
                      /\ v.bits % 8 = 0 \/ (v.bits = 1 /\ w.align \in {1, 2, 4, 8, 16})
    BY <1>1, <2>1 DEF Follows, Aligned
  <2>2. /\ v.align \in Nat \ {0} /\ Multiple(8 * v.align, v.addr) /\ v.addr \in Int /\ v.bits \in Nat \ {0}
        /\ v.bits % 8 = 0 \/ (v.bits = 1 /\ v.align \in {1, 2, 4, 8, 16})
    BY <1>3, ViewIs DEF Aligned
  <2>3. y \in TrueNumbers /\ y.real \in Int /\ Fact(y) \in Nat /\ Multiple(Fact(y), y.real)
    <3>1. y \in TrueNumbers
      BY DEF Axes
    <3> HIDE DEF y
    <3> QED
      BY <3>1, NumberIs
  <2> HIDE DEF w, y
  <2>4. CASE Nil(y)
    <3>1. y.real = 0
      BY <2>3, <2>4, NumberIs DEF Nil
    <3>2. moved = 0
      BY <2>2, <3>1, NaturalIs
    <3>3. w.align = v.align
      BY <2>1, <2>4 DEF MovedAlignment
    <3> HIDE DEF moved
    <3> QED
      BY <2>1, <2>2, <3>2, <3>3
  <2>5. CASE ~Nil(y)
    <3> DEFINE a == v.align * 8
               f == Fact(y) * v.bits
               g == Gcd[<<a, f>>]
    <3>1. w.align = IF g \div 8 = 0 THEN natural ELSE g \div 8
      BY <2>1, <2>2, <2>5 DEF MovedAlignment
    <3>2. a \in Nat \ {0} /\ a = 8 * v.align
      BY <2>2
    <3>3. f \in Nat /\ moved \in Int
      <4>1. \A b, c \in Int : b * c \in Int
        BY Z3
      <4>2. \A b, c \in Nat : b * c \in Nat
        BY Z3
      <4> QED
        BY <2>2, <2>3, <4>1, <4>2, NaturalIs
    <3> HIDE DEF a
    <3>4. g \in Nat \ {0} /\ Multiple(g, a) /\ Multiple(g, f)
          /\ \A c \in Nat \ {0} : Multiple(c, a) /\ Multiple(c, f) => Multiple(c, g)
      <4> HIDE DEF f
      <4> QED
        BY <3>2, <3>3, GcdRight DEF IsGcd
    <3>5. Multiple(g, v.addr)
      BY <2>2, <3>2, <3>4, MultipleThrough
    <3>6. v.bits % 8 = 0 => Multiple(g, moved)
      <4> SUFFICES ASSUME v.bits % 8 = 0 PROVE Multiple(g, moved)
        OBVIOUS
      <4>1. Stride(v.bits) = v.bits
        BY <2>2, NaturalIs
      <4>2. v.bits \in Int /\ Fact(y) \in Int /\ Multiple(v.bits, v.bits)
        BY <2>2, <2>3, MultipleOwn
      <4>3. Multiple(f, moved)
        BY <2>3, <4>1, <4>2, MultipleTimes
      <4> HIDE DEF f, g, moved
      <4>4. g \in Int /\ f \in Int
        BY <3>3, <3>4
      <4> QED
        BY <3>3, <3>4, <4>3, <4>4, MultipleThrough, Zenon
    <3>7. v.bits = 1 => f = Fact(y) /\ moved = y.real * 8 /\ natural = 1
      BY <2>2, <2>3, NaturalIs
    <3> HIDE DEF f, g, moved
    <3>8. g \in Int /\ v.addr \in Int /\ moved \in Int /\ 8 \in Int
      BY <2>2, <3>3, <3>4
    <3>9. CASE v.bits % 8 = 0
      <4>1. Multiple(8, g)
        <5>1. Multiple(8, a)
          BY <2>2, <3>2 DEF Multiple
        <5>2. Multiple(8, f)
          <6>1. v.bits = 8 * natural /\ natural \in Int
            BY <2>2, <3>9, NaturalIs
          <6>2. Multiple(8, v.bits) /\ Multiple(1, Fact(y))
            BY <2>3, <6>1, MultipleOwn DEF Multiple
          <6>3. 8 \in Int /\ 1 \in Int /\ v.bits \in Int /\ Fact(y) \in Int
            BY <2>2, <2>3
          <6>4. Multiple(8, Fact(y) * v.bits)
            BY <6>2, <6>3, MultipleTimes, Zenon
          <6> QED
            BY <6>4 DEF f
        <5> QED
          BY <3>4, <5>1, <5>2
      <4>2. PICK q \in Int : g = 8 * q
        BY <4>1 DEF Multiple
      <4>3. w.align = q /\ q > 0 /\ 8 * w.align = g
        BY <3>1, <3>4, <4>2
      <4>4. Multiple(g, v.addr + moved)
        BY <3>5, <3>6, <3>9, <3>8, MultipleSum, Zenon
      <4> QED
        BY <2>1, <3>9, <4>3, <4>4
    <3>10. CASE v.bits = 1
      <4>1. v.align \in {1, 2, 4, 8, 16}
        BY <2>2, <3>10
      <4>2. Multiple(a, 128)
        <5>1. \/ 128 = a * 16 \/ 128 = a * 8 \/ 128 = a * 4 \/ 128 = a * 2 \/ 128 = a * 1
          BY <3>2, <4>1
        <5> QED
          BY <5>1 DEF Multiple
      <4>3. Multiple(g, 128)
        BY <3>2, <3>4, <4>2, MultipleThrough
      <4>4. g < 8 \/ g \in {8, 16, 32, 64, 128}
        BY <3>4, <4>3, WholeBytes
      <4>5. Multiple(8, moved)
        BY <2>3, <3>7, <3>10 DEF Multiple
      <4>6. CASE g < 8
        <5>1. w.align = 1
          BY <3>1, <3>4, <3>7, <3>10, <4>6
        <5>2. Multiple(8, v.addr)
          <6>1. Multiple(8, a)
            BY <2>2, <3>2 DEF Multiple
          <6> QED
            BY <2>2, <3>2, <6>1, MultipleThrough
        <5>3. Multiple(8, v.addr + moved)
          BY <3>8, <4>5, <5>2, MultipleSum, Zenon
        <5> QED
          BY <2>1, <3>10, <5>1, <5>3
      <4>7. CASE g \in {8, 16, 32, 64, 128}
        <5>1. w.align \in {1, 2, 4, 8, 16} /\ 8 * w.align = g
          BY <3>1, <4>7
        <5>2. Multiple(g, moved)
          <6>1. Multiple(g, Fact(y))
            BY <3>4, <3>7, <3>10
          <6>2. Multiple(g, y.real)
            BY <2>3, <3>4, <6>1, MultipleThrough
          <6>3. Multiple(1, 8) /\ 1 \in Int /\ y.real \in Int
            BY <2>3, MultipleOwn
          <6>4. Multiple(g, y.real * 8)
            BY <3>8, <6>2, <6>3, MultipleTimes, Zenon
          <6> QED
            BY <3>7, <3>10, <6>4
        <5>3. Multiple(g, v.addr + moved)
          BY <3>5, <3>8, <5>2, MultipleSum, Zenon
        <5> QED
          BY <2>1, <3>10, <5>1, <5>3
      <4> QED
        BY <4>4, <4>6, <4>7
    <3> QED
      BY <2>2, <3>9, <3>10
  <2> QED
    BY <2>4, <2>5
<1> QED
  BY <1>2, <1>3, ViewIs

(* Every member of a part is in the whole.                                 *)
LEMMA FlattenHolds ==
  ASSUME NEW X, NEW s \in Seq(Seq(X)), NEW i \in 1 .. Len(s), NEW k \in 1 .. Len(s[i])
  PROVE  \E m \in 1 .. Len(FlattenSeq(s)) : FlattenSeq(s)[m] = s[i][k]
<1> DEFINE N == Len(s)
<1>1. PICK h : IsFlattening(h, N, X, s) /\ FlattenSeq(s) = h[N]
  BY Flattened
<1> DEFINE S == {n \in 0 .. N : i <= n => \E m \in 1 .. Len(h[n]) : h[n][m] = s[i][k]}
<1>2. N \in Nat /\ i \in 1 .. N /\ s[i] \in Seq(X) /\ k \in 1 .. Len(s[i]) /\ \A n \in 1 .. N : s[n] \in Seq(X)
  OBVIOUS
<1> HIDE DEF N
<1>3. 0 \in S
  BY <1>2
<1>4. ASSUME NEW n \in 0 .. N - 1, n \in S PROVE n + 1 \in S
  <2>1. n + 1 \in 1 .. N /\ n + 1 \in 0 .. N /\ (n + 1) - 1 = n /\ n \in 0 .. N
    BY <1>2
  <2>2. h[n + 1] = h[n] \o s[n + 1] /\ h[n] \in Seq(X)
    BY <1>1, <2>1 DEF IsFlattening
  <2> DEFINE u == h[n]
             v == s[n + 1]
  <2>3. u \in Seq(X) /\ v \in Seq(X) /\ h[n + 1] = u \o v
    BY <1>2, <2>1, <2>2
  <2>4. ASSUME i <= n PROVE \E m \in 1 .. Len(h[n + 1]) : h[n + 1][m] = s[i][k]
    <3>1. PICK m \in 1 .. Len(u) : u[m] = s[i][k]
      BY <1>4, <2>4
    <3> HIDE DEF u, v
    <3>2. m \in 1 .. Len(u \o v) /\ (u \o v)[m] = u[m]
      BY <2>3
    <3> QED
      BY <2>3, <3>1, <3>2
  <2>5. ASSUME i = n + 1 PROVE \E m \in 1 .. Len(h[n + 1]) : h[n + 1][m] = s[i][k]
    <3>1. v[k] = s[i][k] /\ k \in 1 .. Len(v)
      BY <1>2, <2>5
    <3> HIDE DEF u, v
    <3>2. Len(u) + k \in 1 .. Len(u \o v) /\ (u \o v)[Len(u) + k] = v[k]
      BY <2>3, <3>1
    <3> QED
      BY <2>3, <3>1, <3>2
  <2>6. i <= n + 1 => i <= n \/ i = n + 1
    BY <1>2
  <2> QED
    BY <2>1, <2>4, <2>5, <2>6
<1> HIDE DEF S
<1>5. 0 .. N \subseteq S
  BY <1>2, <1>3, <1>4, InductionUpTo
<1>6. N \in S /\ i <= N
  BY <1>2, <1>5
<1> QED
  BY <1>1, <1>6 DEF S

LEMMA ColMajorTrue ==
  ASSUME NEW c \in Seq(TrueNumbers), NEW shape \in Seq(TrueNumbers), Len(c) = Len(shape)
  PROVE  ColMajor(c, shape) \in TrueNumbers
<1> DEFINE e(k) == Times(c[k], Product(SubSeq(shape, 1, k - 1)))
           s == [k \in DOMAIN c |-> e(k)]
           N == Len(c)
<1>1. N \in Nat /\ DOMAIN c = 1 .. N
  OBVIOUS
<1>2. ASSUME NEW k \in 1 .. N PROVE e(k) \in TrueNumbers
  <2>1. SubSeq(shape, 1, k - 1) \in Seq(TrueNumbers) /\ c[k] \in TrueNumbers
    OBVIOUS
  <2> QED
    BY <2>1, ProductTrue, TimesTrue
<1> HIDE DEF e
<1>3. s \in [1 .. N -> TrueNumbers]
  BY <1>1, <1>2
<1>4. s \in Seq(TrueNumbers)
  <2> HIDE DEF s, N
  <2> QED
    BY <1>1, <1>3, FunctionIsSeq, Zenon
<1>5. ColMajor(c, shape) = IF (\A k \in DOMAIN c : c[k].known) /\ (\A k \in 1 .. Len(c) - 1 : shape[k].known)
                           THEN Total(s) ELSE Unknown(1, Total(s).real)
  BY DEF ColMajor, e
<1> HIDE DEF s
<1>6. Total(s) \in TrueNumbers
  BY <1>4, TotalTrue
<1>7. Unknown(1, Total(s).real) \in TrueNumbers
  BY <1>6, NumberIs, AnyTrue
<1> QED
  BY <1>5, <1>6, <1>7

LEMMA ShapeTrue ==
  ASSUME NEW l \in TrueLayouts
  PROVE  /\ Shape(l) \in Seq(Seq(TrueNumbers)) /\ Len(Shape(l)) = Len(l)
         /\ \A i \in 1 .. Len(l) : Len(Shape(l)[i]) = Len(l[i])
<1> DEFINE g == Shape(l)
<1>1. \A i \in DOMAIN l : \A k \in DOMAIN l[i] : l[i][k].n \in TrueNumbers
  BY LayoutIs, LeafIs
<1>2. DOMAIN g = DOMAIN l /\ g = [i \in DOMAIN g |-> g[i]] /\ \A i \in DOMAIN l : g[i] \in [DOMAIN l[i] -> TrueNumbers]
  BY <1>1 DEF Shape
<1> HIDE DEF g
<1>3. g \in Seq(Seq(TrueNumbers)) /\ Len(g) = Len(l) /\ \A i \in 1 .. Len(l) : Len(g[i]) = Len(l[i])
  BY <1>2, LeafByLeaf
<1> QED
  BY <1>3 DEF g

(* A slice: some modes are given a coordinate.                             *)
LEMMA SliceTrue ==
  ASSUME NEW v \in TrueViews, NEW c, Indexes(v.layout, c)
  PROVE  Follows(v, Slice(v, c))
<1> DEFINE l == WithLayout(v, Sliced(v.layout, c))
           x == OffsetOf(v.layout, c)
<1>1. l \in TrueViews /\ Follows(v, l) /\ x \in [Axes -> TrueNumbers] /\ l.composed = v.composed
      /\ l.offset = v.offset
  <2>1. v.layout \in TrueLayouts
    BY ViewIs
  <2>2. x \in [Axes -> TrueNumbers] /\ Sliced(v.layout, c) \in TrueLayouts
    BY <2>1, OffsetTrue, SlicedTrue
  <2>3. l.composed = v.composed /\ l.offset = v.offset
    BY DEF WithLayout, TrueViews
  <2> QED
    BY <2>2, <2>3, WithLayoutTrue
<1>2. Slice(v, c) = IF v.composed THEN [l EXCEPT !.offset = Plus(l.offset, x[1])] ELSE Moved(l, x)
  BY DEF Slice
<1> HIDE DEF l, x
<1>3. CASE ~v.composed
  <2>1. Follows(l, Moved(l, x))
    BY <1>1, MovedAligned
  <2> QED
    BY <1>1, <1>2, <1>3, <2>1, FollowsThrough
<1>4. CASE v.composed
  <2> DEFINE w == [l EXCEPT !.offset = Plus(l.offset, x[1])]
  <2>1. Plus(l.offset, x[1]) \in TrueNumbers
    BY <1>1, ViewIs, PlusTrue DEF Axes
  <2>2. w \in TrueViews /\ w.kind = l.kind /\ w.align = l.align /\ w.addr = l.addr /\ w.bits = l.bits
    BY <1>1, <2>1 DEF TrueViews
  <2> HIDE DEF w
  <2>3. Follows(l, w)
    BY <2>2 DEF Follows, Aligned
  <2> QED
    BY <1>1, <1>2, <1>4, <2>3, FollowsThrough DEF w
<1> QED
  BY <1>3, <1>4

LEMMA TiledTrue ==
  ASSUME NEW v \in TrueViews, NEW l \in TrueLayouts, NEW x \in [Axes -> TrueNumbers]
  PROVE  Follows(v, Moved(WithLayout(v, l), x))
<1>1. WithLayout(v, l) \in TrueViews /\ Follows(v, WithLayout(v, l))
  BY WithLayoutTrue
<1>2. Follows(WithLayout(v, l), Moved(WithLayout(v, l), x))
  BY <1>1, MovedAligned
<1> QED
  BY <1>1, <1>2, FollowsThrough

(* A tile, at a coordinate that has one number in each mode it is given    *)
(* in, and the mode one leaf.                                              *)
LEMMA LocalTileTrue ==
  ASSUME NEW v \in TrueViews, NEW t \in Seq(Nat \ {0}), Divisible(v.layout, t), NEW c,
         Indexes(ZippedDivide(v.layout, t).rest, c), Len(c) \in Nat
  PROVE  Follows(v, LocalTile(v, t, c))
<1> DEFINE z == ZippedDivide(v.layout, t)
           keep == Cardinality({i \in Len(t) + 1 .. Len(c) : c[i] = Under})
           l == ZeroUnitModesHead(z.tile \o Sliced(z.rest, c), keep)
<1>1. z.tile \in TrueLayouts /\ z.rest \in TrueLayouts /\ Len(t) \in Nat
  BY DivideTrue, ViewIs
<1>2. keep \in Nat
  <2>1. IsFiniteSet(Len(t) + 1 .. Len(c))
    BY <1>1, FS_Interval
  <2>2. IsFiniteSet({i \in Len(t) + 1 .. Len(c) : c[i] = Under})
    BY <2>1, FS_Subset
  <2> QED
    BY <2>2, FS_CardinalityType
<1> HIDE DEF keep
<1>3. z.tile \o Sliced(z.rest, c) \in TrueLayouts
  BY <1>1, SlicedTrue, JoinedTrue
<1>4. l \in TrueLayouts
  BY <1>2, <1>3, HeadTrue
<1>5. OffsetOf(z.rest, c) \in [Axes -> TrueNumbers]
  BY <1>1, OffsetTrue
<1>6. LocalTile(v, t, c) = Moved(WithLayout(v, l), OffsetOf(z.rest, c))
  BY DEF LocalTile, keep
<1> HIDE DEF l, z
<1> QED
  BY <1>4, <1>5, <1>6, TiledTrue

LEMMA LocalPartitionTrue ==
  ASSUME NEW v \in TrueViews, NEW t \in Seq(Nat \ {0}), Divisible(v.layout, t),
         NEW p \in [DOMAIN t -> Int], \A i \in DOMAIN t : t[i] = 1 => p[i] = 0
  PROVE  Follows(v, LocalPartition(v, t, ThreadAt(t, p)))
<1> DEFINE z == ZippedDivide(v.layout, t)
           c == ThreadAt(t, p)
<1>1. z.tile \in TrueLayouts /\ z.rest \in TrueLayouts /\ DOMAIN t = 1 .. Len(t) /\ Len(t) \in Nat
      /\ Len(z.tile) = Len(t) /\ \A i \in 1 .. Len(t) : Len(z.tile[i]) = 1
  BY DivideTrue, ViewIs
<1>2. ASSUME NEW i \in 1 .. Len(t) PROVE c[i] \in Seq(TrueNumbers) /\ Len(c[i]) = 1
  <2>1. p[i] \in Int /\ (t[i] = 1 => p[i] = 0)
    BY <1>1
  <2>2. Unknown(1, p[i]) \in TrueNumbers /\ Known(0, 0) \in TrueNumbers
    BY <2>1, AnyTrue, KnownTrue
  <2>3. c[i] = IF t[i] = 1 THEN <<Known(0, p[i])>> ELSE <<Unknown(1, p[i])>>
    BY <1>1 DEF ThreadAt
  <2> HIDE DEF c
  <2>4. CASE t[i] = 1
    <3>1. c[i] = <<Known(0, 0)>>
      BY <2>1, <2>3, <2>4
    <3> QED
      BY <2>2, <3>1
  <2>5. CASE t[i] # 1
    <3>1. c[i] = <<Unknown(1, p[i])>>
      BY <2>3, <2>5
    <3> QED
      BY <2>2, <3>1
  <2> QED
    BY <2>4, <2>5
<1> HIDE DEF c, z
<1>3. Indexes(z.tile, c)
  <2>1. ASSUME NEW i \in DOMAIN z.tile PROVE c[i] \in Seq(TrueNumbers) /\ Len(c[i]) <= Len(z.tile[i])
    <3>1. i \in 1 .. Len(t)
      BY <1>1
    <3> QED
      BY <1>1, <1>2, <3>1
  <2> QED
    BY <2>1, Zenon DEF Indexes
<1>4. ZeroUnitModes(z.rest) \in TrueLayouts /\ OffsetOf(z.tile, c) \in [Axes -> TrueNumbers]
  BY <1>1, <1>3, ZeroUnitModesTrue, OffsetTrue
<1>5. LocalPartition(v, t, c) = Moved(WithLayout(v, ZeroUnitModes(z.rest)), OffsetOf(z.tile, c))
  BY DEF LocalPartition, z
<1>6. Follows(v, LocalPartition(v, t, c))
  BY <1>4, <1>5, TiledTrue
<1> QED
  BY <1>6 DEF c

LEMMA MmaPartitionTrue ==
  ASSUME NEW v \in TrueViews, NEW atom, NEW which, NEW x \in TrueNumbers,
         MmaDivisible(v.layout, atom, which), AtomTile(atom, which) \in Seq(Nat \ {0}),
         Len(AtomTile(atom, which)) = 2, atom.ctas \in Nat \ {0}, x.real \in 0 .. atom.ctas - 1
  PROVE  Follows(v, MmaPartition(v, atom, which, x))
<1> DEFINE l == v.layout
           t == AtomTile(atom, which)
           z == ZippedDivide(SubSeq(l, 1, 2), t)
           one == <<atom.ctas>>
           first == <<z.rest[1]>>
           byCta == ZippedDivide(first, one)
           y == IF atom.ctas = 1 THEN Known(0, x.real) ELSE x
           beyond == SubSeq(l, 3, Len(l))
           m == <<Leaves(z.tile), byCta.rest[1], z.rest[2]>> \o beyond
<1>1. l \in TrueLayouts /\ Len(l) \in Nat /\ Len(l) >= 2 /\ Divisible(l, t) /\ t \in Seq(Nat \ {0}) /\ Len(t) = 2
      /\ Divisible(z.rest, one)
  BY ViewIs, LayoutIs DEF MmaDivisible
<1>2. SubSeq(l, 1, 2) \in TrueLayouts /\ Len(SubSeq(l, 1, 2)) = 2 /\ \A i \in 1 .. 2 : SubSeq(l, 1, 2)[i] = l[i]
  BY <1>1 DEF TrueLayouts
<1>3. beyond \in TrueLayouts /\ Len(beyond) \in Nat
  BY <1>1 DEF TrueLayouts
<1> HIDE DEF l, t, beyond
<1>4. Divisible(SubSeq(l, 1, 2), t)
  <2>1. DOMAIN t = 1 .. 2
    BY <1>1
  <2> QED
    BY <1>1, <1>2, <2>1 DEF Divisible
<1>5. z.tile \in TrueLayouts /\ z.rest \in TrueLayouts /\ Len(z.rest) = 2
  BY <1>1, <1>2, <1>4, DivideTrue
<1> HIDE DEF z
<1>6. one \in Seq(Nat \ {0}) /\ Len(one) = 1 /\ DOMAIN one = 1 .. 1 /\ one[1] = atom.ctas
  OBVIOUS
<1> HIDE DEF one
<1>7. first \in TrueLayouts /\ Divisible(first, one)
  <2>1. z.rest[1] \in Seq(TrueLeaves)
    BY <1>5, LayoutIs
  <2>2. first \in TrueLayouts /\ Len(first) = 1 /\ first[1] = z.rest[1]
    BY <2>1 DEF TrueLayouts
  <2> HIDE DEF first
  <2> QED
    BY <1>1, <1>6, <2>2 DEF Divisible
<1>8. /\ byCta.tile \in TrueLayouts /\ byCta.rest \in TrueLayouts /\ Len(byCta.rest) = Len(first)
      /\ Len(byCta.tile) = 1 /\ Len(byCta.tile[1]) = 1
  <2> HIDE DEF first
  <2> QED
    BY <1>6, <1>7, DivideTrue
<1>9. Len(first) = 1
  OBVIOUS
<1> HIDE DEF byCta, first
<1>10. y \in TrueNumbers
  <2>1. CASE atom.ctas = 1
    <3>1. x.real = 0
      BY <2>1
    <3> QED
      BY <2>1, <3>1, KnownTrue
  <2> QED
    BY <2>1
<1> HIDE DEF y
<1>11. Indexes(byCta.tile, <<<<y>>>>)
  <2>1. DOMAIN byCta.tile = 1 .. 1 /\ Len(byCta.tile[1]) = 1
    BY <1>8, LayoutIs
  <2>2. <<y>> \in Seq(TrueNumbers) /\ Len(<<y>>) = 1 /\ <<<<y>>>>[1] = <<y>>
    BY <1>10
  <2> DEFINE w == <<<<y>>>>
             tile == byCta.tile
  <2>3. w[1] = <<y>> /\ DOMAIN tile = 1 .. 1 /\ Len(tile[1]) = 1
    BY <2>1, <2>2
  <2>4. w[1] \in Seq(TrueNumbers) /\ Len(w[1]) <= Len(tile[1])
    BY <2>2, <2>3
  <2> HIDE DEF w, tile
  <2>5. \A i \in DOMAIN tile : i = 1
    BY <2>3
  <2>6. Indexes(tile, w)
    BY <2>4, <2>5 DEF Indexes
  <2> QED
    BY <2>6 DEF w, tile
<1>12. OffsetOf(byCta.tile, <<<<y>>>>) \in [Axes -> TrueNumbers]
  BY <1>8, <1>11, OffsetTrue
<1>13. m \in TrueLayouts
  <2>3. Leaves(z.tile) \in Seq(TrueLeaves)
    BY <1>5, LeavesTrue, Zenon
  <2>4. byCta.rest[1] \in Seq(TrueLeaves)
    BY <1>8, <1>9, LayoutIs
  <2>5. z.rest[2] \in Seq(TrueLeaves)
    BY <1>5, <1>9, LayoutIs
  <2>1. Leaves(z.tile) \in Seq(TrueLeaves) /\ byCta.rest[1] \in Seq(TrueLeaves) /\ z.rest[2] \in Seq(TrueLeaves)
    BY <2>3, <2>4, <2>5
  <2>2. <<Leaves(z.tile), byCta.rest[1], z.rest[2]>> \in TrueLayouts
    BY <2>1 DEF TrueLayouts
  <2> QED
    BY <1>3, <2>2, JoinedTrue
<1>14. MmaPartition(v, atom, which, x) =
         Moved(WithLayout(v, ZeroUnitModesHead(m, Len(beyond))), OffsetOf(byCta.tile, <<<<y>>>>))
  BY DEF MmaPartition, beyond, y, byCta, z, l, t, first, one
<1> HIDE DEF m
<1>15. ZeroUnitModesHead(m, Len(beyond)) \in TrueLayouts
  BY <1>3, <1>13, HeadTrue
<1> QED
  BY <1>12, <1>14, <1>15, TiledTrue

-----------------------------------------------------------------------------
(* The kernel                                                              *)

TrueMade(m) == m.kind = "fragment" => m.regs \in Seq(TrueLeaves)

TrueState == view \in TrueViews /\ crd \in Seq(TrueNumbers) /\ TrueMade(made)

(* A step builds a view that follows the one in hand, of true numbers.     *)
Carried == Follows(view, view') /\ crd' \in Seq(TrueNumbers) /\ TrueMade(made')

LEMMA TrueStateIs ==
  ASSUME TrueState
  PROVE  /\ view \in TrueViews /\ view.layout \in TrueLayouts /\ Follows(view, view)
         /\ crd \in Seq(TrueNumbers) /\ Len(crd) \in Nat /\ DOMAIN crd = 1 .. Len(crd)
         /\ \A k \in 1 .. Len(crd) : crd[k] \in TrueNumbers
         /\ TrueMade(made)
<1>1. view \in TrueViews /\ crd \in Seq(TrueNumbers) /\ TrueMade(made)
  BY DEF TrueState
<1> QED
  BY <1>1, ViewIs, SameFollows

(* A coordinate of one number.                                             *)
LEMMA OneTrue ==
  ASSUME NEW x \in TrueNumbers
  PROVE  <<x>> \in Seq(TrueNumbers) /\ Len(<<x>>) = 1 /\ <<x>>[1] = x
OBVIOUS

LEMMA ArithmeticCarries ==
  ASSUME TrueState, TupleArith
  PROVE  Carried
<1>1. PICK n \in Numbers :
        \/ Built(view, [k \in DOMAIN crd |-> Plus(crd[k], Static(n))], made)
        \/ Built(view, [k \in DOMAIN crd |-> Minus(crd[k], Static(n))], made)
        \/ Built(view, [k \in DOMAIN crd |-> Times(crd[k], Static(n))], made)
        \/ n > 0 /\ Built(view, [k \in DOMAIN crd |-> Over(crd[k], n)], made)
        \/ n > 0 /\ Built(view, [k \in DOMAIN crd |-> Modulo(crd[k], n)], made)
  BY DEF TupleArith
<1>2. n \in Int /\ Static(n) \in TrueNumbers
  BY TypesAssumption, KnownTrue
<1>3. \A k \in DOMAIN crd : crd[k] \in TrueNumbers
  BY TrueStateIs
<1>4. \A k \in DOMAIN crd : Plus(crd[k], Static(n)) \in TrueNumbers /\ Minus(crd[k], Static(n)) \in TrueNumbers
                            /\ Times(crd[k], Static(n)) \in TrueNumbers
  BY <1>2, <1>3, PlusTrue, MinusTrue, TimesTrue
<1>5. n > 0 => \A k \in DOMAIN crd : Over(crd[k], n) \in TrueNumbers /\ Modulo(crd[k], n) \in TrueNumbers
  <2>1. n > 0 => n \in Nat \ {0}
    BY <1>2
  <2> QED
    BY <1>3, <2>1, OverTrue, ModuloTrue
<1>6. view' = view /\ made' = made
  BY <1>1 DEF Built
<1>7. crd' \in [1 .. Len(crd) -> TrueNumbers]
  BY <1>1, <1>4, <1>5, TrueStateIs DEF Built
<1>8. crd' \in Seq(TrueNumbers)
  BY <1>7, TrueStateIs, FunctionIsSeq, Zenon
<1> QED
  BY <1>6, <1>8, TrueStateIs DEF Carried, TrueMade

LEMMA ExtentsTrue ==
  ASSUME NEW l \in TrueLayouts
  PROVE  /\ [k \in DOMAIN Leaves(l) |-> Leaves(l)[k].n] \in Seq(TrueNumbers)
         /\ \A k \in DOMAIN [m \in DOMAIN Leaves(l) |-> Leaves(l)[m].n] : Leaves(l)[k].n.real > 0
<1> DEFINE s == Leaves(l)
           g == [k \in DOMAIN s |-> s[k].n]
<1>1. Len(s) \in Nat /\ DOMAIN s = 1 .. Len(s) /\ \A k \in 1 .. Len(s) : s[k] \in TrueLeaves
  BY LeavesTrue
<1> HIDE DEF s
<1>2. \A k \in 1 .. Len(s) : s[k].n \in TrueNumbers /\ s[k].n.real > 0
  BY <1>1, LeafIs
<1>3. g \in [1 .. Len(s) -> TrueNumbers]
  BY <1>1, <1>2
<1>4. DOMAIN g = 1 .. Len(s)
  BY <1>1
<1> HIDE DEF g
<1>5. g \in Seq(TrueNumbers)
  BY <1>1, <1>3, FunctionIsSeq, Zenon
<1> QED
  BY <1>2, <1>4, <1>5 DEF g, s

LEMMA GetLeafCarries ==
  ASSUME TrueState, GetLeaf
  PROVE  Carried
<1>1. PICK k \in DOMAIN crd : Built(view, <<crd[k]>>, made)
  BY DEF GetLeaf
<1>2. crd[k] \in TrueNumbers
  BY TrueStateIs
<1>3. view' = view /\ made' = made /\ crd' = <<crd[k]>>
  BY <1>1 DEF Built
<1> QED
  BY <1>2, <1>3, OneTrue, TrueStateIs DEF Carried, TrueMade

LEMMA Idx2CrdCarries ==
  ASSUME TrueState, Idx2Crd
  PROVE  Carried
<1>1. Scalar /\ CanSplit(crd[1], Extents) /\ Built(view, SplitIndex(crd[1], Extents), made)
  BY DEF Idx2Crd
<1>2. crd[1] \in TrueNumbers
  BY <1>1, TrueStateIs DEF Scalar
<1>3. Extents \in Seq(TrueNumbers) /\ \A k \in DOMAIN Extents : Extents[k].real > 0
  BY TrueStateIs, ExtentsTrue DEF Extents
<1>4. SplitIndex(crd[1], Extents) \in Seq(TrueNumbers)
  BY <1>1, <1>2, <1>3, SplitIndexTrue
<1>5. view' = view /\ made' = made /\ crd' = SplitIndex(crd[1], Extents)
  BY <1>1 DEF Built
<1> QED
  BY <1>4, <1>5, TrueStateIs DEF Carried, TrueMade

LEMMA Crd2IdxCarries ==
  ASSUME TrueState, Crd2Idx
  PROVE  Carried
<1> DEFINE l == <<Leaves(view.layout)>>
           c == <<crd>>
<1>1. Len(crd) = Len(Extents) /\ Built(view, <<OffsetOf(l, c)[1]>>, made)
  BY DEF Crd2Idx
<1>2. Leaves(view.layout) \in Seq(TrueLeaves) /\ Len(Leaves(view.layout)) \in Nat
  BY TrueStateIs, LeavesTrue
<1>3. Len(Extents) = Len(Leaves(view.layout))
  BY <1>2 DEF Extents
<1>4. l \in TrueLayouts /\ Len(l) = 1 /\ l[1] = Leaves(view.layout)
  BY <1>2 DEF TrueLayouts
<1>5. c[1] \in Seq(TrueNumbers) /\ Len(c[1]) = Len(l[1]) /\ DOMAIN l = 1 .. 1
  BY <1>1, <1>3, <1>4, TrueStateIs, LayoutIs
<1> HIDE DEF l, c
<1>6. Indexes(l, c)
  <2>1. \A i \in DOMAIN l : i = 1
    BY <1>5
  <2>2. Len(l[1]) \in Nat
    BY <1>2, <1>4
  <2> QED
    BY <1>5, <2>1, <2>2 DEF Indexes
<1>7. OffsetOf(l, c)[1] \in TrueNumbers
  BY <1>4, <1>6, OffsetTrue DEF Axes
<1>8. view' = view /\ made' = made /\ crd' = <<OffsetOf(l, c)[1]>>
  BY <1>1 DEF Built
<1> QED
  BY <1>7, <1>8, OneTrue, TrueStateIs DEF Carried, TrueMade

LEMMA GetCoordCarries ==
  ASSUME TrueState, GetCoord
  PROVE  Carried
<1> DEFINE l == view.layout
           s == Shape(l)
           h == HierCoord
           g == [i \in DOMAIN s |-> ColMajor(h[i], s[i])]
<1>1. /\ Scalar
      /\ \A f \in ToSet(Leaves(l)) : One(f.n) \/ (f.d.real > 0 /\ (crd[1].known => f.d.known))
      /\ \/ Built(view, Leaves(h), made)
         \/ Built(view, g, made)
         \/ Built(view, <<ColMajor(Leaves(h), Leaves(s))>>, made)
  BY DEF GetCoord
<1>2. l \in TrueLayouts /\ crd[1] \in TrueNumbers
  BY <1>1, TrueStateIs DEF Scalar
<1>3. s \in Seq(Seq(TrueNumbers)) /\ Len(s) = Len(l) /\ \A i \in 1 .. Len(l) : Len(s[i]) = Len(l[i])
  BY <1>2, ShapeTrue
<1>4. ASSUME NEW i \in DOMAIN l, NEW k \in DOMAIN l[i]
      PROVE  HierLeaf(crd[1], l[i][k].n, l[i][k].d) \in TrueNumbers
  <2>1. i \in 1 .. Len(l) /\ k \in 1 .. Len(l[i]) /\ l[i][k] \in TrueLeaves
    BY <1>2, LayoutIs
  <2>2. PICK m \in 1 .. Len(Leaves(l)) : Leaves(l)[m] = l[i][k]
    BY <1>2, <2>1, FlattenHolds DEF Leaves, TrueLayouts
  <2>3. l[i][k] \in ToSet(Leaves(l))
    BY <1>2, <2>2, LeavesTrue DEF ToSet
  <2>4. One(l[i][k].n) \/ (l[i][k].d.real > 0 /\ (crd[1].known => l[i][k].d.known))
    BY <1>1, <2>3
  <2> QED
    BY <1>2, <2>1, <2>4, LeafIs, HierLeafTrue
<1>5. DOMAIN h = DOMAIN l /\ h = [i \in DOMAIN h |-> h[i]] /\ \A i \in DOMAIN l : h[i] \in [DOMAIN l[i] -> TrueNumbers]
  BY <1>4 DEF HierCoord
<1> HIDE DEF h, l, s
<1>6. h \in Seq(Seq(TrueNumbers)) /\ Len(h) = Len(l) /\ \A i \in 1 .. Len(l) : Len(h[i]) = Len(l[i])
  BY <1>2, <1>5, LeafByLeaf
<1>7. Leaves(h) \in Seq(TrueNumbers)
  BY <1>6, FlattenType DEF Leaves
<1>8. g \in Seq(TrueNumbers)
  <2>1. DOMAIN s = 1 .. Len(l) /\ Len(l) \in Nat
    BY <1>2, <1>3, LayoutIs
  <2>2. \A i \in 1 .. Len(l) : ColMajor(h[i], s[i]) \in TrueNumbers
    <3> SUFFICES ASSUME NEW i \in 1 .. Len(l) PROVE ColMajor(h[i], s[i]) \in TrueNumbers
      OBVIOUS
    <3>1. h[i] \in Seq(TrueNumbers) /\ s[i] \in Seq(TrueNumbers) /\ Len(h[i]) = Len(s[i])
      BY <1>3, <1>6
    <3> QED
      BY <3>1, ColMajorTrue
  <2>3. g \in [1 .. Len(l) -> TrueNumbers]
    BY <2>1, <2>2
  <2> HIDE DEF g
  <2> QED
    BY <2>1, <2>3, FunctionIsSeq, Zenon
<1>9. ColMajor(Leaves(h), Leaves(s)) \in TrueNumbers
  <2>1. Leaves(s) \in Seq(TrueNumbers)
    BY <1>3, FlattenType DEF Leaves
  <2>2. Len(h) = Len(s) /\ \A i \in 1 .. Len(h) : Len(h[i]) = Len(s[i])
    BY <1>3, <1>6
  <2>3. Len(Leaves(h)) = Len(Leaves(s))
    BY <1>3, <1>6, <2>2, FlattenLength DEF Leaves
  <2> QED
    BY <1>7, <2>1, <2>3, ColMajorTrue
<1>10. view' = view /\ made' = made
       /\ (crd' = Leaves(h) \/ crd' = g \/ crd' = <<ColMajor(Leaves(h), Leaves(s))>>)
  BY <1>1 DEF Built
<1> HIDE DEF g
<1>11. crd' \in Seq(TrueNumbers)
  BY <1>7, <1>8, <1>9, <1>10, OneTrue
<1> QED
  BY <1>10, <1>11, TrueStateIs DEF Carried, TrueMade

LEMMA AddOffsetCarries ==
  ASSUME TrueState, AddOffset
  PROVE  Carried
<1> DEFINE x == [a \in Axes |-> IF a = 1 THEN crd[1] ELSE Static(0)]
<1>1. Scalar /\ Built(Moved(view, x), crd, made)
  BY DEF AddOffset
<1>2. crd[1] \in TrueNumbers /\ Static(0) \in TrueNumbers
  BY <1>1, TrueStateIs, KnownTrue DEF Scalar
<1>3. x \in [Axes -> TrueNumbers]
  BY <1>2
<1> HIDE DEF x
<1>4. Follows(view, Moved(view, x))
  BY <1>3, TrueStateIs, MovedAligned
<1>5. view' = Moved(view, x) /\ crd' = crd /\ made' = made
  BY <1>1 DEF Built
<1> QED
  BY <1>4, <1>5, TrueStateIs DEF Carried, TrueMade

(* The numbers in hand, handed out to the modes that are not `_`.          *)
LEMMA HandedOut ==
  ASSUME NEW l \in TrueLayouts, NEW under, NEW s \in Seq(TrueNumbers), Taken(l, under)[Len(l)] = Len(s)
  PROVE  Indexes(l, [i \in DOMAIN l |-> SubSeq(s, Taken(l, under)[i - 1] + 1, Taken(l, under)[i])])
<1> DEFINE N == Len(l)
           b == Taken(l, under)
           c == [i \in DOMAIN l |-> SubSeq(s, b[i - 1] + 1, b[i])]
           S == {n \in 0 .. N : b[N - n] <= b[N]}
<1>1. N \in Nat /\ DOMAIN l = 1 .. N /\ \A i \in 1 .. N : Len(l[i]) \in Nat
  BY LayoutIs
<1>2. b \in [0 .. N -> Nat] /\ \A i \in 1 .. N : b[i] = b[i - 1] + (IF i \in under THEN 0 ELSE Len(l[i]))
  BY <1>1, TakenAt
<1>3. Len(s) \in Nat /\ b[N] = Len(s)
  OBVIOUS
<1> HIDE DEF N, b
<1>4. \A i \in 1 .. N : i - 1 \in 0 .. N /\ b[i - 1] \in Nat /\ b[i] \in Nat /\ b[i - 1] <= b[i] /\ b[i] - b[i - 1] <= Len(l[i])
  <2> SUFFICES ASSUME NEW i \in 1 .. N
               PROVE  i - 1 \in 0 .. N /\ b[i - 1] \in Nat /\ b[i] \in Nat /\ b[i - 1] <= b[i] /\ b[i] - b[i - 1] <= Len(l[i])
    OBVIOUS
  <2>1. i - 1 \in 0 .. N /\ i \in 0 .. N
    BY <1>1
  <2>2. b[i - 1] \in Nat /\ b[i] \in Nat /\ b[i] = b[i - 1] + (IF i \in under THEN 0 ELSE Len(l[i])) /\ Len(l[i]) \in Nat
    BY <1>1, <1>2, <2>1
  <2> QED
    BY <2>1, <2>2
<1>5. 0 \in S
  BY <1>1, <1>3
<1>6. ASSUME NEW n \in 0 .. N - 1, n \in S PROVE n + 1 \in S
  <2>1. N - n \in 1 .. N /\ n + 1 \in 0 .. N /\ (N - n) - 1 = N - (n + 1)
    BY <1>1
  <2>2. b[N - n] <= b[N] /\ b[(N - n) - 1] <= b[N - n] /\ b[(N - n) - 1] \in Nat /\ b[N - n] \in Nat /\ b[N] \in Nat
    BY <1>3, <1>4, <1>6, <2>1
  <2> QED
    BY <2>1, <2>2
<1> HIDE DEF S
<1>7. 0 .. N \subseteq S
  BY <1>1, <1>5, <1>6, InductionUpTo
<1>8. ASSUME NEW i \in 1 .. N PROVE b[i] <= Len(s)
  <2>1. N - i \in S /\ N - (N - i) = i
    BY <1>1, <1>7
  <2> QED
    BY <1>3, <2>1 DEF S
<1>9. ASSUME NEW i \in 1 .. N PROVE c[i] \in Seq(TrueNumbers) /\ Len(c[i]) <= Len(l[i])
  <2> DEFINE x == b[i - 1]  y == b[i]
  <2>1. c[i] = SubSeq(s, x + 1, y)
    BY <1>1
  <2>2. x \in Nat /\ y \in Nat /\ x <= y /\ y <= Len(s) /\ y - x <= Len(l[i]) /\ Len(l[i]) \in Nat
    BY <1>1, <1>4, <1>8
  <2> HIDE DEF x, y
  <2>3. SubSeq(s, x + 1, y) \in Seq(TrueNumbers) /\ Len(SubSeq(s, x + 1, y)) = y - x
    BY <2>2
  <2> HIDE DEF c
  <2> QED
    BY <2>1, <2>2, <2>3
<1> HIDE DEF c
<1>10. Indexes(l, c)
  BY <1>1, <1>9 DEF Indexes
<1> QED
  BY <1>10 DEF c, b

LEMMA SliceCarries ==
  ASSUME TrueState, SliceView
  PROVE  Carried
<1>1. PICK under \in SUBSET DOMAIN view.layout :
        LET before == Taken(view.layout, under)
            c == [i \in DOMAIN view.layout |-> SubSeq(crd, before[i - 1] + 1, before[i])]
        IN before[Len(view.layout)] = Len(crd) /\ Built(Slice(view, c), crd, made)
  BY DEF SliceView
<1> DEFINE b == Taken(view.layout, under)
           c == [i \in DOMAIN view.layout |-> SubSeq(crd, b[i - 1] + 1, b[i])]
<1>2. b[Len(view.layout)] = Len(crd) /\ view' = Slice(view, c) /\ crd' = crd /\ made' = made
  BY <1>1 DEF Built
<1>3. Indexes(view.layout, c)
  BY <1>2, HandedOut, TrueStateIs
<1> HIDE DEF c
<1>4. Follows(view, Slice(view, c))
  BY <1>3, SliceTrue, TrueStateIs
<1> QED
  BY <1>2, <1>4, TrueStateIs DEF Carried, TrueMade

LEMMA TilersAre ==
  /\ \A t \in Tilers \cup TilersMNK : t \in Seq(Nat \ {0})
  /\ \A t \in TilersMNK, proj \in Projections : Dice(proj, t) \in Seq(Nat \ {0})
<1>2. \A t \in Tilers \cup TilersMNK : t \in Seq(Nat \ {0})
  BY TypesAssumption
<1>3. ASSUME NEW t \in Seq(Nat \ {0}), NEW proj PROVE Dice(proj, t) \in Seq(Nat \ {0})
  <2> DEFINE s == [i \in DOMAIN t |-> IF proj[i] THEN <<t[i]>> ELSE <<>>]
             N == Len(t)
             X == Nat \ {0}
  <2>1. N \in Nat /\ DOMAIN t = 1 .. N /\ \A i \in 1 .. N : t[i] \in X
    OBVIOUS
  <2>2. s \in [1 .. N -> Seq(X)]
    <3> HIDE DEF N, X
    <3>1. \A x \in X : <<x>> \in Seq(X)
      OBVIOUS
    <3>2. <<>> \in Seq(X)
      OBVIOUS
    <3> QED
      BY <2>1, <3>1, <3>2
  <2> HIDE DEF s, N, X
  <2>3. s \in Seq(Seq(X))
    BY <2>1, <2>2, FunctionIsSeq, Zenon
  <2>4. FlattenSeq(s) \in Seq(X)
    BY <2>3, FlattenType
  <2> QED
    BY <2>4 DEF Dice, s, X
<1> QED
  BY <1>2, <1>3

LEMMA DivideCarries ==
  ASSUME TrueState, DivideView
  PROVE  Carried
<1>1. PICK t \in Tilers, how \in {"logical", "zipped", "tiled", "flat"} :
        Tileable(t) /\ Built(WithLayout(view, Divide(view.layout, t, how)), crd, made)
  BY DEF DivideView
<1> DEFINE l == view.layout
           z == ZippedDivide(l, t)
           b == ZeroUnitModesHead(z.rest, Len(l) - Len(t))
<1>2. l \in TrueLayouts /\ Len(l) \in Nat /\ t \in Seq(Nat \ {0}) /\ Divisible(l, t)
  BY <1>1, TilersAre, TrueStateIs, LayoutIs DEF Tileable
<1> HIDE DEF l
<1>3. z.tile \in TrueLayouts /\ z.rest \in TrueLayouts /\ Len(z.tile) = Len(t) /\ Len(z.rest) = Len(l)
      /\ Len(t) \in Nat /\ Len(t) <= Len(l)
  BY <1>2, DivideTrue
<1> HIDE DEF z
<1>4. Len(l) - Len(t) \in Nat
  BY <1>2, <1>3
<1>5. b \in TrueLayouts /\ Len(b) = Len(l)
  BY <1>3, <1>4, HeadTrue
<1>6. ZeroUnitModes(z.tile) \in TrueLayouts /\ Len(ZeroUnitModes(z.tile)) = Len(t)
  BY <1>3, ZeroUnitModesTrue
<1>7. Divide(l, t, how) = Arranged([tile |-> ZeroUnitModes(z.tile), rest |-> b], how)
  BY DEF Divide, z
<1> HIDE DEF b
<1>8. Divide(l, t, how) \in TrueLayouts
  BY <1>3, <1>5, <1>6, <1>7, ArrangedTrue
<1>9. view' = WithLayout(view, Divide(l, t, how)) /\ crd' = crd /\ made' = made
  BY <1>1 DEF Built, l
<1> QED
  BY <1>8, <1>9, WithLayoutTrue, TrueStateIs DEF Carried, TrueMade

LEMMA GroupCarries ==
  ASSUME TrueState, GroupModes
  PROVE  Carried
<1>1. PICK e \in 2 .. Len(view.layout) : Built(WithLayout(view, Group(e - 2, e, view.layout)), crd, made)
  BY DEF GroupModes
<1>2. Group(e - 2, e, view.layout) \in TrueLayouts
  BY TrueStateIs, GroupTrue
<1>3. view' = WithLayout(view, Group(e - 2, e, view.layout)) /\ crd' = crd /\ made' = made
  BY <1>1 DEF Built
<1> QED
  BY <1>2, <1>3, WithLayoutTrue, TrueStateIs DEF Carried, TrueMade

LEMMA FilterZerosCarries ==
  ASSUME TrueState, FilterZerosOp
  PROVE  Carried
<1>1. FilterZeros(view.layout) \in TrueLayouts
  BY TrueStateIs, FilterZerosTrue
<1>2. view' = WithLayout(view, FilterZeros(view.layout)) /\ crd' = crd /\ made' = made
  BY DEF FilterZerosOp, Built
<1> QED
  BY <1>1, <1>2, WithLayoutTrue, TrueStateIs DEF Carried, TrueMade

(* Where the number in hand is the coordinate of a tile.                   *)
LEMMA TileAtIs ==
  ASSUME TrueState, Scalar, NEW t \in Seq(Nat \ {0}), Divisible(view.layout, t), NEW c \in TileAt(t)
  PROVE  Follows(view, LocalTile(view, t, c))
<1> DEFINE r == ZippedDivide(view.layout, t).rest
<1>1. r \in TrueLayouts /\ Len(r) \in Nat /\ DOMAIN r = 1 .. Len(r)
  BY TrueStateIs, DivideTrue, LayoutIs
<1>2. c \in [DOMAIN r -> {Under, crd}] /\ \A i \in DOMAIN r : c[i] # Under => Len(r[i]) = 1
  BY DEF TileAt
<1> HIDE DEF r
<1>3. crd \in Seq(TrueNumbers) /\ Len(crd) = 1 /\ Under \in Seq(TrueNumbers) /\ Len(Under) = 0
  BY TrueStateIs DEF Scalar, Under
<1>4. ASSUME NEW i \in DOMAIN r PROVE c[i] \in Seq(TrueNumbers) /\ Len(c[i]) <= Len(r[i])
  <2>1. Len(r[i]) \in Nat /\ (c[i] = Under \/ c[i] = crd)
    BY <1>1, <1>2, LayoutIs
  <2>2. CASE c[i] = Under
    BY <1>3, <2>1, <2>2
  <2>3. CASE c[i] # Under
    <3>1. Len(r[i]) = 1
      BY <1>2, <2>3
    <3>2. c[i] = crd
      BY <2>1, <2>3
    <3>3. c[i] \in Seq(TrueNumbers) /\ Len(c[i]) = 1
      BY <1>3, <3>2, Zenon
    <3> QED
      BY <3>1, <3>3
  <2> QED
    BY <2>2, <2>3
<1>5. Indexes(r, c)
  BY <1>4 DEF Indexes
<1>6. Len(c) \in Nat
  BY <1>1, <1>2, FunctionIsSeq
<1> QED
  BY <1>5, <1>6, LocalTileTrue, TrueStateIs DEF r

LEMMA LocalTileCarries ==
  ASSUME TrueState, LocalTileView
  PROVE  Carried
<1>1. PICK t \in Seq(Nat \ {0}) :
        Scalar /\ Tileable(t) /\ \E c \in TileAt(t) : Built(LocalTile(view, t, c), crd, made)
  <2>1. CASE \E t \in Tilers : Tileable(t) /\ \E c \in TileAt(t) : Built(LocalTile(view, t, c), crd, made)
    BY <2>1, TilersAre DEF LocalTileView
  <2>2. CASE \E t \in TilersMNK, proj \in Projections :
               Tileable(Dice(proj, t)) /\ \E c \in TileAt(Dice(proj, t)) : Built(LocalTile(view, Dice(proj, t), c), crd, made)
    BY <2>2, TilersAre DEF LocalTileView
  <2> QED
    BY <2>1, <2>2 DEF LocalTileView
<1>2. PICK c \in TileAt(t) : Built(LocalTile(view, t, c), crd, made)
  BY <1>1
<1>3. Follows(view, LocalTile(view, t, c))
  BY <1>1, TileAtIs DEF Tileable
<1>4. view' = LocalTile(view, t, c) /\ crd' = crd /\ made' = made
  BY <1>2 DEF Built
<1> QED
  BY <1>3, <1>4, TrueStateIs DEF Carried, TrueMade

LEMMA LocalPartitionCarries ==
  ASSUME TrueState, LocalPartitionView
  PROVE  Carried
<1>1. PICK t \in Tilers : Tileable(t) /\ \E p \in Places(t) : Built(LocalPartition(view, t, ThreadAt(t, p)), crd, made)
  BY DEF LocalPartitionView
<1>2. PICK p \in Places(t) : Built(LocalPartition(view, t, ThreadAt(t, p)), crd, made)
  BY <1>1
<1>3. p \in [DOMAIN t -> Int] /\ \A i \in DOMAIN t : t[i] = 1 => p[i] = 0
  <2>1. /\ p \in [DOMAIN t -> 0 .. Max(ToSet(t)) - 1] /\ \A i \in DOMAIN t : p[i] < t[i]
    BY DEF Places
  <2> DEFINE m == Max(ToSet(t)) - 1
  <2> HIDE DEF m
  <2>2. \A i \in 0 .. m : i \in Int /\ i >= 0
    OBVIOUS
  <2>3. p \in [DOMAIN t -> 0 .. m]
    BY <2>1 DEF m
  <2>4. p \in [DOMAIN t -> Int] /\ \A i \in DOMAIN t : p[i] \in Int /\ p[i] >= 0
    BY <2>2, <2>3
  <2> QED
    BY <2>1, <2>4
<1>4. Follows(view, LocalPartition(view, t, ThreadAt(t, p)))
  <2>1. t \in Seq(Nat \ {0}) /\ Divisible(view.layout, t)
    BY <1>1, TilersAre DEF Tileable
  <2> QED
    BY <1>3, <2>1, LocalPartitionTrue, TrueStateIs
<1>5. view' = LocalPartition(view, t, ThreadAt(t, p)) /\ crd' = crd /\ made' = made
  BY <1>2 DEF Built
<1> QED
  BY <1>4, <1>5, TrueStateIs DEF Carried, TrueMade

LEMMA MmaPartitionCarries ==
  ASSUME TrueState, MmaPartitionView
  PROVE  Carried
<1>1. PICK atom \in Atoms, which \in {"A", "B", "C"} :
        /\ MmaDivisible(view.layout, atom, which) /\ Scalar /\ crd[1].real \in 0 .. atom.ctas - 1
        /\ Built(MmaPartition(view, atom, which, crd[1]), crd, made)
  BY DEF MmaPartitionView
<1>2. crd[1] \in TrueNumbers
  BY <1>1, TrueStateIs DEF Scalar
<1>3. /\ atom.m \in Nat \ {0} /\ atom.n \in Nat \ {0} /\ atom.k \in Nat \ {0} /\ atom.ctas \in Nat \ {0}
      /\ Divides(atom.ctas, atom.m) /\ Divides(atom.ctas, atom.n)
  BY TypesAssumption
<1> DEFINE a == atom.m \div atom.ctas
           b == atom.n \div atom.ctas
<1>4. a \in Nat \ {0} /\ b \in Nat \ {0}
  <2>1. Multiple(atom.m, atom.m) /\ Multiple(atom.n, atom.n) /\ atom.m \in Int /\ atom.n \in Int
    BY <1>3, MultipleOwn
  <2> QED
    BY <1>3, <2>1, QuotientTrue
<1>5. AtomTile(atom, which) \in Seq(Nat \ {0}) /\ Len(AtomTile(atom, which)) = 2
  <2>1. \/ AtomTile(atom, which) = <<a, atom.k>> \/ AtomTile(atom, which) = <<b, atom.k>>
        \/ AtomTile(atom, which) = <<a, atom.n>>
    BY DEF AtomTile
  <2> HIDE DEF a, b
  <2>2. \A x, y \in Nat \ {0} : <<x, y>> \in Seq(Nat \ {0}) /\ Len(<<x, y>>) = 2
    OBVIOUS
  <2> QED
    BY <1>3, <1>4, <2>1, <2>2
<1>6. Follows(view, MmaPartition(view, atom, which, crd[1]))
  BY <1>1, <1>2, <1>3, <1>5, MmaPartitionTrue, TrueStateIs
<1>7. view' = MmaPartition(view, atom, which, crd[1]) /\ crd' = crd /\ made' = made
  BY <1>1 DEF Built
<1> QED
  BY <1>6, <1>7, TrueStateIs DEF Carried, TrueMade

LEMMA MakingCarries ==
  ASSUME TrueState, MakeFragment \/ MmaMakeFragment \/ MakeCopy \/ MakeBoxes
  PROVE  Carried
<1>1. CASE MakeFragment
  <2>1. made' = [kind |-> "fragment", source |-> view.layout, regs |-> MakeFragmentLike(view.layout, ~InMemory)]
        /\ view' = view /\ crd' = crd
    BY <1>1 DEF MakeFragment, Built
  <2>2. MakeFragmentLike(view.layout, ~InMemory) \in Seq(TrueLeaves)
    BY FragmentTrue, TrueStateIs DEF InMemory
  <2> QED
    BY <2>1, <2>2, TrueStateIs DEF Carried, TrueMade
<1>2. CASE MmaMakeFragment
  <2>1. PICK atom \in TmemAtoms, n \in {8, 16}, rest \in Stages :
          Built(view, crd, [kind |-> "accumulator", rows |-> AccumulatorRows(atom), columns |-> n, rest |-> rest,
                            regs |-> Accumulator(atom, AccumulatorRows(atom), n, rest)])
    BY <1>2 DEF MmaMakeFragment
  <2>2. view' = view /\ crd' = crd /\ made'.kind = "accumulator"
    BY <2>1 DEF Built
  <2> QED
    BY <2>2, TrueStateIs DEF Carried, TrueMade
<1>3. CASE MakeCopy
  <2>1. PICK t \in CopyAtoms : Built(view, crd, [kind |-> "copy", traits |-> t])
    BY <1>3 DEF MakeCopy
  <2>2. view' = view /\ crd' = crd /\ made'.kind = "copy"
    BY <2>1 DEF Built
  <2> QED
    BY <2>2, TrueStateIs DEF Carried, TrueMade
<1>4. CASE MakeBoxes
  <2>1. \E x, y : Built(view, crd, [kind |-> "boxes", leaves |-> x, groups |-> y])
    BY <1>4 DEF MakeBoxes
  <2>2. view' = view /\ crd' = crd /\ made'.kind = "boxes"
    BY <2>1 DEF Built
  <2> QED
    BY <2>2, TrueStateIs DEF Carried, TrueMade
<1> QED
  BY <1>1, <1>2, <1>3, <1>4

(* Every operation builds a view of true numbers that is aligned when the  *)
(* one in hand is.                                                         *)
LEMMA StepCarries ==
  ASSUME TrueState, [Next]_vars
  PROVE  Carried
<1>1. CASE UNCHANGED vars
  BY <1>1, TrueStateIs DEF vars, Carried, TrueMade
<1>2. CASE TupleArith \/ GetLeaf \/ Idx2Crd \/ Crd2Idx \/ GetCoord
  BY <1>2, ArithmeticCarries, GetLeafCarries, Idx2CrdCarries, Crd2IdxCarries, GetCoordCarries
<1>3. CASE AddOffset \/ SliceView \/ DivideView \/ GroupModes \/ FilterZerosOp
  BY <1>3, AddOffsetCarries, SliceCarries, DivideCarries, GroupCarries, FilterZerosCarries
<1>4. CASE LocalTileView \/ LocalPartitionView \/ MmaPartitionView
  BY <1>4, LocalTileCarries, LocalPartitionCarries, MmaPartitionCarries
<1>5. CASE MakeFragment \/ MmaMakeFragment \/ MakeCopy \/ MakeBoxes
  BY <1>5, MakingCarries
<1> QED
  BY <1>1, <1>2, <1>3, <1>4, <1>5 DEF Next

-----------------------------------------------------------------------------
(* The first views                                                         *)

LEMMA LayoutsTrue ==
  \A l \in Layouts \cup {Identity} : l \in TrueLayouts
<1>1. Static(4) \in Sizes /\ Static(8) \in Sizes /\ Static(1) \in TrueNumbers /\ 1 \in Axes /\ 2 \in Axes
  BY SizeTrue, KnownTrue DEF Axes
<1>2. Leaf(Static(4), Static(1), 1) \in TrueLeaves /\ Leaf(Static(8), Static(1), 2) \in TrueLeaves
  BY <1>1, LeafTrue
<1>3. Identity \in TrueLayouts
  BY <1>2 DEF Identity, TrueLayouts
<1> QED
  BY <1>3, TypesAssumption

LEMMA MaxIs ==
  ASSUME NEW a \in Nat
  PROVE  Max({1, a}) \in Nat /\ (a > 0 => Max({1, a}) = a)
<1> DEFINE m == IF a > 0 THEN a ELSE 1
<1>1. m \in {1, a} /\ \A y \in {1, a} : m >= y
  OBVIOUS
<1>2. \A x \in {1, a} : (\A y \in {1, a} : x >= y) => x = m
  OBVIOUS
<1>3. Max({1, a}) = m
  <2> HIDE DEF m
  <2> QED
    BY <1>1, <1>2 DEF Max
<1> QED
  BY <1>3

(* A pointer to whole bytes, or to bits, that is made aligned.             *)
LEMMA MemRefTrue ==
  ASSUME NEW bits \in Nat \ {0}, NEW align \in Nat, NEW composed \in BOOLEAN, NEW l \in TrueLayouts
  PROVE  /\ MemRef(bits, align, composed, l) \in TrueViews
         /\ align > 0 /\ (bits % 8 = 0 \/ (bits = 1 /\ align \in {1, 16}))
              => Aligned(MemRef(bits, align, composed, l))
<1> DEFINE v == MemRef(bits, align, composed, l)
           m == Max({1, align})
<1>1. m \in Nat /\ (align > 0 => m = align)
  BY MaxIs
<1>2. v = [kind |-> "memref", bits |-> bits, align |-> align, addr |-> 24 * m, iter |-> [a \in Axes |-> Static(0)],
           composed |-> composed, offset |-> Static(0), layout |-> l]
  BY DEF MemRef
<1>3. Static(0) \in TrueNumbers
  BY KnownTrue
<1> HIDE DEF m, v
<1>4. v \in TrueViews
  BY <1>1, <1>2, <1>3 DEF TrueViews
<1>5. ASSUME align > 0, bits % 8 = 0 \/ (bits = 1 /\ align \in {1, 16}) PROVE Aligned(v)
  <2>1. v.addr = (8 * align) * 3 /\ v.align = align /\ v.bits = bits
    BY <1>1, <1>2, <1>5
  <2>2. Multiple(8 * v.align, v.addr)
    BY <2>1 DEF Multiple
  <2> QED
    BY <1>5, <2>1, <2>2 DEF Aligned
<1> QED
  BY <1>4, <1>5 DEF v

LEMMA FirstView ==
  ASSUME Init
  PROVE  \/ view = Coords
         \/ \E bits \in ElemBits, l \in Layouts : view = MemRef(bits, 16, FALSE, l)
         \/ \E bits \in ElemBits, l \in Layouts : view = MemRef(bits, NaturalAlignment(bits), TRUE, l)
BY DEF Init

LEMMA InitTrue ==
  ASSUME Init
  PROVE  TrueState
<1>1. Coords \in TrueViews
  <2>1. Static(0) \in TrueNumbers /\ Identity \in TrueLayouts
    BY KnownTrue, LayoutsTrue
  <2> QED
    BY <2>1 DEF Coords, TrueViews
<1>2. view \in TrueViews
  <2>1. \A bits \in ElemBits : bits \in Nat \ {0} /\ NaturalAlignment(bits) \in Nat
    BY TypesAssumption, NaturalIs
  <2>2. \A bits \in ElemBits, l \in Layouts :
          MemRef(bits, 16, FALSE, l) \in TrueViews /\ MemRef(bits, NaturalAlignment(bits), TRUE, l) \in TrueViews
    <3> SUFFICES ASSUME NEW bits \in ElemBits, NEW l \in Layouts
                 PROVE  MemRef(bits, 16, FALSE, l) \in TrueViews /\ MemRef(bits, NaturalAlignment(bits), TRUE, l) \in TrueViews
      OBVIOUS
    <3>1. l \in TrueLayouts /\ 16 \in Nat /\ TRUE \in BOOLEAN /\ FALSE \in BOOLEAN
      BY LayoutsTrue
    <3> QED
      BY <2>1, <3>1, MemRefTrue, Zenon
  <2> QED
    BY <1>1, <2>2, FirstView, Zenon
<1>3. \A x \in Indices : x \in TrueNumbers
  BY TypesAssumption
<1>4. crd \in Seq(TrueNumbers)
  <2>1. PICK x \in Indices : crd = <<x>>
    BY DEF Init
  <2> QED
    BY <1>3, <2>1, OneTrue
<1>5. TrueMade(made)
  BY DEF Init, Nothing, TrueMade
<1> QED
  BY <1>2, <1>4, <1>5 DEF TrueState

(* Every number in the kernel is true, at every step.                      *)
LEMMA StateTrue == Spec => []TrueState
<1>1. TrueState /\ [Next]_vars => TrueState'
  BY StepCarries DEF Carried, Follows, TrueState
<1> QED
  BY <1>1, InitTrue, PTL DEF Spec

(* Which is what FactsTrue says, of the numbers its types name.            *)
LEMMA StateFacts ==
  ASSUME TrueState
  PROVE  FactsTrue
<1> DEFINE of(leaves) == UNION {{f.n, f.d} : f \in ToSet(leaves)}
<1>1. ASSUME NEW s \in Seq(TrueLeaves), NEW x \in of(s) PROVE Honest(x)
  <2>1. PICK f \in ToSet(s) : x \in {f.n, f.d}
    OBVIOUS
  <2>2. f \in TrueLeaves
    BY DEF ToSet
  <2> QED
    BY <2>1, <2>2, LeafIs, NumberIs
<1>2. \A x \in ToSet(crd) : Honest(x)
  BY TrueStateIs, NumberIs DEF ToSet
<1>3. \A a \in Axes : Honest(view.iter[a])
  BY TrueStateIs, ViewIs, NumberIs
<1>4. Honest(view.offset)
  BY TrueStateIs, ViewIs, NumberIs
<1>5. \A x \in of(Leaves(view.layout)) : Honest(x)
  <2>1. Leaves(view.layout) \in Seq(TrueLeaves)
    BY TrueStateIs, LeavesTrue
  <2> HIDE DEF of
  <2> QED
    BY <1>1, <2>1
<1>6. made.kind = "fragment" => \A x \in of(made.regs) : Honest(x)
  <2>1. made.kind = "fragment" => made.regs \in Seq(TrueLeaves)
    BY TrueStateIs DEF TrueMade
  <2> HIDE DEF of
  <2> QED
    BY <1>1, <2>1
<1>7. FactsTrue <=>
        \A x \in ToSet(crd) \cup {view.iter[a] : a \in Axes} \cup {view.offset} \cup of(Leaves(view.layout))
                 \cup (IF made.kind = "fragment" THEN of(made.regs) ELSE {}) : Honest(x)
  BY DEF FactsTrue
<1> HIDE DEF of
<1> QED
  BY <1>2, <1>3, <1>4, <1>5, <1>6, <1>7

(* The value or the divisor that a type states of an index, an extent, a   *)
(* stride or an offset holds of the number the kernel computes, after any  *)
(* chain of the operations CuteInference.cpp infers the types of.          *)
THEOREM FactsAlwaysTrue == Spec => []FactsTrue
BY StateTrue, StateFacts, PTL

(* A pointer has at least the alignment its type states, whatever offsets, *)
(* slices, tiles and partitions moved it, where the elements are bits or   *)
(* take whole bytes. For other elements of less than a byte it does not    *)
(* hold: their natural alignment, which movedAlignment falls back on, is   *)
(* 0, and the next move takes it for a multiple of everything.             *)
THEOREM AlignmentAlwaysTrue ==
  ASSUME \A b \in ElemBits : b = 1 \/ b % 8 = 0
  PROVE  Spec => []AlignmentTrue
<1>1. Init => Aligned(view)
  <2> SUFFICES ASSUME Init PROVE Aligned(view)
    OBVIOUS
  <2>1. CASE view = Coords
    BY <2>1 DEF Coords, Aligned
  <2>2. CASE \E bits \in ElemBits, l \in Layouts : view = MemRef(bits, 16, FALSE, l)
    <3>1. PICK bits \in ElemBits, l \in Layouts : view = MemRef(bits, 16, FALSE, l)
      BY <2>2
    <3>2. bits \in Nat \ {0} /\ (bits = 1 \/ bits % 8 = 0) /\ l \in TrueLayouts
      BY TypesAssumption, LayoutsTrue
    <3>3. 16 \in Nat /\ 16 > 0 /\ 16 \in {1, 16} /\ FALSE \in BOOLEAN
      OBVIOUS
    <3> QED
      BY <3>1, <3>2, <3>3, MemRefTrue, Zenon
  <2>3. CASE \E bits \in ElemBits, l \in Layouts : view = MemRef(bits, NaturalAlignment(bits), TRUE, l)
    <3>1. PICK bits \in ElemBits, l \in Layouts : view = MemRef(bits, NaturalAlignment(bits), TRUE, l)
      BY <2>3
    <3>2. bits \in Nat \ {0} /\ (bits = 1 \/ bits % 8 = 0) /\ l \in TrueLayouts
      BY TypesAssumption, LayoutsTrue
    <3>3. NaturalAlignment(bits) \in Nat /\ NaturalAlignment(bits) > 0 /\ (bits = 1 => NaturalAlignment(bits) = 1)
      BY <3>2, NaturalIs
    <3>4. bits = 1 => NaturalAlignment(bits) \in {1, 16}
      BY <3>3
    <3>5. TRUE \in BOOLEAN
      OBVIOUS
    <3> QED
      BY <3>1, <3>2, <3>3, <3>4, <3>5, MemRefTrue, Zenon
  <2> QED
    BY <2>1, <2>2, <2>3, FirstView, Zenon
<1>2. TrueState /\ Aligned(view) /\ [Next]_vars => Aligned(view)'
  <2> SUFFICES ASSUME TrueState, Aligned(view), [Next]_vars PROVE Aligned(view')
    BY DEF Aligned
  <2> QED
    BY StepCarries DEF Carried, Follows
<1>3. TrueState /\ Aligned(view) => AlignmentTrue
  <2> SUFFICES ASSUME TrueState, Aligned(view), InMemory, view.align > 0 PROVE Divides(8 * view.align, view.addr)
    BY DEF AlignmentTrue
  <2>1. Multiple(8 * view.align, view.addr) /\ view.addr \in Int /\ 8 * view.align \in Nat \ {0}
    BY TrueStateIs, ViewIs DEF InMemory, Aligned
  <2> QED
    BY <2>1, DividesIs
<1> QED
  BY <1>1, <1>2, <1>3, StateTrue, PTL DEF Spec
=============================================================================
