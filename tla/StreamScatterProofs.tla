------------------------ MODULE StreamScatterProofs ------------------------
(***************************************************************************)
(* Theorems about StreamScatter, and the lemmas about DispatchPlan they    *)
(* rest on. For every layout whose dimensions are cut into equal parts and *)
(* every chunk size: the window is where the reader's bytes need no copy,  *)
(* the cursor never skips a fence, the routing table is right, every byte  *)
(* is delivered to the right place, and no write of a whole tensor is      *)
(* refused.                                                                *)
(*                                                                         *)
(* First the routing table: its spans are of one length, in order from the *)
(* first byte of the tensor to the last, each with the writers that own    *)
(* its bytes, none of them twice (PlanTiles, PlanRight), and every writer  *)
(* owns as many bytes as its shard has (SharesEqual). The argument is      *)
(* about numbers written digit by digit: the indexes of an element are the *)
(* digits of its byte, and the coordinates of a device those of its        *)
(* number. A part of a dimension is a range of one digit.                  *)
(*                                                                         *)
(* Then the writes: an invariant relates the cursor, the window and the    *)
(* bytes pushed to the table.                                              *)
(***************************************************************************)
EXTENDS StreamScatter, FiniteSetTheorems, SequenceTheorems, TLAPS

-----------------------------------------------------------------------------
(* Induction, over sets of numbers                                         *)

(* A set of numbers that is not empty has a least.                         *)
LEMMA LeastNumber ==
  ASSUME NEW T \in SUBSET Nat, T # {}
  PROVE  \E x \in T : \A y \in T : x <= y
<1>1. IsWellFoundedOn({ss \in Nat \X Nat : ss[1] < ss[2]}, Nat)
  BY NatLessThanWellFounded, Zenon DEF OpToRel
<1>2. PICK x \in T : \A y \in T : <<y, x>> \notin {ss \in Nat \X Nat : ss[1] < ss[2]}
  BY <1>1, WFMin, Zenon
<1>3. \A y \in T : ~(y < x) /\ y \in Nat /\ x \in Nat
  BY <1>2
<1> QED
  BY <1>3

(* What holds at 0 and at the next number holds up to N.                   *)
LEMMA InductionUpTo ==
  ASSUME NEW N \in Nat, NEW S, 0 \in S, \A n \in 0 .. N - 1 : n \in S => n + 1 \in S
  PROVE  0 .. N \subseteq S
<1>1. SUFFICES ASSUME (0 .. N) \ S # {} PROVE FALSE
  OBVIOUS
<1>2. PICK m \in (0 .. N) \ S : \A y \in (0 .. N) \ S : m <= y
  <2>1. (0 .. N) \ S \in SUBSET Nat
    OBVIOUS
  <2> QED
    BY <1>1, <2>1, LeastNumber
<1>3. m # 0
  BY <1>2
<1>4. m - 1 \in 0 .. N - 1 /\ m - 1 \in S
  BY <1>2, <1>3
<1> QED
  BY <1>2, <1>4

(* A function that is defined step by step exists.                         *)
IsRun(h, N, V, z, step) ==
  h \in [0 .. N -> V] /\ h[0] = z /\ \A n \in 1 .. N : h[n] = step[n][h[n - 1]]

LEMMA StepsExist ==
  ASSUME NEW N \in Nat, NEW V, NEW z \in V, NEW step \in [1 .. N -> [V -> V]]
  PROVE  \E h : IsRun(h, N, V, z, step)
<1> DEFINE Good(h, m) == h[0] = z /\ \A n \in 1 .. m : h[n] = step[n][h[n - 1]]
           S == {m \in 0 .. N : \E h \in [0 .. m -> V] : Good(h, m)}
<1>1. 0 \in S
  <2> DEFINE h == [n \in 0 .. 0 |-> z]
  <2>1. h \in [0 .. 0 -> V] /\ h[0] = z
    OBVIOUS
  <2>2. Good(h, 0)
    BY <2>1
  <2>3. 0 \in 0 .. N
    OBVIOUS
  <2> HIDE DEF h, Good
  <2> QED
    BY <2>1, <2>2, <2>3
<1>2. ASSUME NEW m \in 0 .. N - 1, m \in S PROVE m + 1 \in S
  <2>1. PICK h \in [0 .. m -> V] : Good(h, m)
    BY <1>2
  <2> DEFINE g == [n \in 0 .. m + 1 |-> IF n = m + 1 THEN step[m + 1][h[m]] ELSE h[n]]
  <2>2. m + 1 \in 1 .. N /\ m \in 0 .. m
    OBVIOUS
  <2>3. g \in [0 .. m + 1 -> V]
    BY <2>2
  <2>4. ASSUME NEW n \in 1 .. m + 1 PROVE g[n] = step[n][g[n - 1]]
    <3>1. CASE n = m + 1
      <4>1. n - 1 = m /\ m \in 0 .. m + 1 /\ m # m + 1
        BY <3>1
      <4>2. g[n - 1] = h[m]
        BY <4>1
      <4> QED
        BY <3>1, <4>2
    <3>2. CASE n # m + 1
      <4>1. n \in 1 .. m /\ n - 1 \in 0 .. m + 1 /\ n - 1 # m + 1
        BY <3>2
      <4>2. g[n - 1] = h[n - 1] /\ g[n] = h[n]
        BY <3>2, <4>1
      <4> QED
        BY <2>1, <4>1, <4>2
    <3> QED
      BY <3>1, <3>2
  <2>5. g[0] = z
    BY <2>1
  <2>6. m + 1 \in 0 .. N
    BY <2>2
  <2> HIDE DEF g
  <2>7. Good(g, m + 1)
    BY <2>4, <2>5
  <2> HIDE DEF Good
  <2> QED
    BY <2>3, <2>6, <2>7
<1> HIDE DEF S
<1>3. 0 .. N \subseteq S
  BY <1>1, <1>2, InductionUpTo
<1>4. N \in S
  BY <1>3
<1> QED
  BY <1>4 DEF S, IsRun

-----------------------------------------------------------------------------
(* Products and sums                                                       *)

LEMMA ProductRecursion ==
  ASSUME NEW s \in Seq(Nat \ {0})
  PROVE  \E t \in [0 .. Len(s) -> Nat \ {0}] :
           /\ Product(s) = t[Len(s)] /\ t[0] = 1
           /\ \A n \in 1 .. Len(s) : t[n] = t[n - 1] * s[n]
<1> DEFINE N == Len(s)
           V == Nat \ {0}
           p == CHOOSE h : h = [n \in 0 .. N |-> IF n = 0 THEN 1 ELSE h[n - 1] * s[n]]
<1>1. N \in Nat /\ \A n \in 1 .. N : s[n] \in V
  OBVIOUS
<1>2. Product(s) = p[N]
  BY DEF Product
<1>3. \A a, b \in V : a * b \in V
  BY Z3
<1>4. \E h : h = [n \in 0 .. N |-> IF n = 0 THEN 1 ELSE h[n - 1] * s[n]]
  <2> DEFINE step == [n \in 1 .. N |-> [v \in V |-> v * s[n]]]
  <2>0. \A n \in 1 .. N, v \in V : v * s[n] \in V
    BY <1>1, <1>3
  <2>1. step \in [1 .. N -> [V -> V]]
    BY <2>0, Zenon
  <2>5. 1 \in V
    OBVIOUS
  <2>6. \E h : IsRun(h, N, V, 1, step)
    BY <1>1, <2>1, <2>5, StepsExist
  <2>2. PICK h : h \in [0 .. N -> V] /\ h[0] = 1 /\ \A n \in 1 .. N : h[n] = step[n][h[n - 1]]
    BY <2>6 DEF IsRun
  <2>3. ASSUME NEW n \in 1 .. N PROVE h[n] = h[n - 1] * s[n]
    <3>1. h[n - 1] \in V
      <4>1. n - 1 \in 0 .. N
        BY <1>1
      <4>2. h \in [0 .. N -> V]
        BY <2>2
      <4> HIDE DEF step, N
      <4> QED
        BY <4>1, <4>2
    <3> QED
      BY <2>2, <3>1
  <2>4. \A n \in 0 .. N : h[n] = IF n = 0 THEN 1 ELSE h[n - 1] * s[n]
    BY <1>1, <2>2, <2>3
  <2>7. h = [n \in 0 .. N |-> IF n = 0 THEN 1 ELSE h[n - 1] * s[n]]
    BY <2>2, <2>4
  <2> QED
    BY <2>7
<1>5. p = [n \in 0 .. N |-> IF n = 0 THEN 1 ELSE p[n - 1] * s[n]]
  BY <1>4
<1> HIDE DEF p
<1> DEFINE S == {n \in 0 .. N : p[n] \in V}
<1>6. 0 \in S
  BY <1>1, <1>5
<1>7. ASSUME NEW n \in 0 .. N - 1, n \in S PROVE n + 1 \in S
  <2>1. n + 1 \in 1 .. N /\ n + 1 \in 0 .. N /\ p[n] \in V
    BY <1>1, <1>7
  <2>2. p[n + 1] = p[n] * s[n + 1]
    BY <1>5, <2>1
  <2> QED
    BY <1>1, <1>3, <2>1, <2>2
<1> HIDE DEF S
<1>8. 0 .. N \subseteq S
  BY <1>1, <1>6, <1>7, InductionUpTo
<1>9. p \in [0 .. N -> V]
  BY <1>5, <1>8 DEF S
<1>10. p[0] = 1 /\ \A n \in 1 .. N : p[n] = p[n - 1] * s[n]
  BY <1>1, <1>5
<1> QED
  BY <1>2, <1>9, <1>10

LEMMA ProductType ==
  ASSUME NEW s \in Seq(Nat \ {0})
  PROVE  Product(s) \in Nat \ {0}
<1>1. Len(s) \in 0 .. Len(s)
  OBVIOUS
<1> QED
  BY <1>1, ProductRecursion

LEMMA ProductMonotonic ==
  ASSUME NEW s \in Seq(Nat \ {0}), NEW u \in Seq(Nat \ {0}), Len(s) = Len(u),
         \A n \in 1 .. Len(s) : s[n] <= u[n]
  PROVE  Product(s) <= Product(u)
<1> DEFINE N == Len(s)
<1>0. N \in Nat /\ \A n \in 1 .. N : s[n] \in Nat /\ u[n] \in Nat
  OBVIOUS
<1>1. PICK t \in [0 .. N -> Nat \ {0}] : Product(s) = t[N] /\ t[0] = 1 /\ \A n \in 1 .. N : t[n] = t[n - 1] * s[n]
  BY ProductRecursion
<1>2. PICK v \in [0 .. N -> Nat \ {0}] : Product(u) = v[N] /\ v[0] = 1 /\ \A n \in 1 .. N : v[n] = v[n - 1] * u[n]
  BY ProductRecursion, ZenonT(30)
<1> DEFINE S == {n \in 0 .. N : t[n] <= v[n]}
<1>3. 0 \in S
  BY <1>0, <1>1, <1>2
<1>4. ASSUME NEW n \in 0 .. N - 1, n \in S PROVE n + 1 \in S
  <2>0. n + 1 \in 1 .. N /\ n + 1 \in 0 .. N /\ n \in 0 .. N /\ (n + 1) - 1 = n
    BY <1>0
  <2>1. t[n] <= v[n] /\ t[n] \in Nat /\ v[n] \in Nat
    BY <1>4, <2>0
  <2>2. t[n + 1] = t[n] * s[n + 1] /\ v[n + 1] = v[n] * u[n + 1]
    BY <1>1, <1>2, <2>0
  <2>3. s[n + 1] <= u[n + 1] /\ s[n + 1] \in Nat /\ u[n + 1] \in Nat
    BY <1>0, <2>0
  <2>4. \A a, b, c, d \in Nat : a <= b /\ c <= d => a * c <= b * d
    <3>1. \A a, b, c \in Nat : a <= b => a * c <= b * c /\ c * a <= c * b /\ a * c \in Nat /\ b * c \in Nat
      BY Z3
    <3>2. \A x, y, z \in Nat : x <= y /\ y <= z => x <= z
      OBVIOUS
    <3>3. ASSUME NEW a \in Nat, NEW b \in Nat, NEW c \in Nat, NEW d \in Nat, a <= b, c <= d
          PROVE  a * c <= b * d
      <4>1. a * c <= b * c /\ b * c <= b * d /\ a * c \in Nat /\ b * c \in Nat /\ b * d \in Nat
        BY <3>1, <3>3
      <4> QED
        BY <3>2, <4>1
    <3> QED
      BY <3>3
  <2> QED
    BY <2>0, <2>1, <2>2, <2>3, <2>4, ZenonT(30)
<1> HIDE DEF S
<1>5. 0 .. N \subseteq S
  BY <1>0, <1>3, <1>4, InductionUpTo
<1>6. N \in S
  BY <1>0, <1>5
<1> QED
  BY <1>1, <1>2, <1>6 DEF S

(* A sum of numbers is a number, and no more than that of greater ones.    *)
LEMMA SumRecursion ==
  ASSUME NEW s \in Seq(Nat)
  PROVE  \E t \in [0 .. Len(s) -> Nat] :
           /\ SumOf(s) = t[Len(s)] /\ t[0] = 0
           /\ \A n \in 1 .. Len(s) : t[n] = t[n - 1] + s[n]
<1> DEFINE N == Len(s)
           p == CHOOSE h : h = [n \in 0 .. N |-> IF n = 0 THEN 0 ELSE h[n - 1] + s[n]]
<1>1. N \in Nat /\ \A n \in 1 .. N : s[n] \in Nat
  OBVIOUS
<1>2. SumOf(s) = p[N]
  BY DEF SumOf
<1>4. \E h : h = [n \in 0 .. N |-> IF n = 0 THEN 0 ELSE h[n - 1] + s[n]]
  <2> DEFINE step == [n \in 1 .. N |-> [v \in Nat |-> v + s[n]]]
  <2>0. 0 \in Nat /\ \A n \in 1 .. N, v \in Nat : v + s[n] \in Nat
    BY <1>1
  <2>1. step \in [1 .. N -> [Nat -> Nat]]
    BY <2>0, Zenon
  <2>6. \E h : IsRun(h, N, Nat, 0, step)
    BY <1>1, <2>0, <2>1, StepsExist
  <2>2. PICK h : h \in [0 .. N -> Nat] /\ h[0] = 0 /\ \A n \in 1 .. N : h[n] = step[n][h[n - 1]]
    BY <2>6 DEF IsRun
  <2>3. ASSUME NEW n \in 1 .. N PROVE h[n] = h[n - 1] + s[n]
    <3>1. h[n - 1] \in Nat
      <4>1. n - 1 \in 0 .. N
        BY <1>1
      <4>2. h \in [0 .. N -> Nat]
        BY <2>2
      <4> HIDE DEF step, N
      <4> QED
        BY <4>1, <4>2
    <3> QED
      BY <2>2, <3>1
  <2>4. \A n \in 0 .. N : h[n] = IF n = 0 THEN 0 ELSE h[n - 1] + s[n]
    BY <1>1, <2>2, <2>3
  <2>5. h = [n \in 0 .. N |-> IF n = 0 THEN 0 ELSE h[n - 1] + s[n]]
    BY <2>2, <2>4
  <2> QED
    BY <2>5
<1>5. p = [n \in 0 .. N |-> IF n = 0 THEN 0 ELSE p[n - 1] + s[n]]
  BY <1>4
<1> HIDE DEF p
<1> DEFINE S == {n \in 0 .. N : p[n] \in Nat}
<1>6. 0 \in S
  BY <1>1, <1>5
<1>7. ASSUME NEW n \in 0 .. N - 1, n \in S PROVE n + 1 \in S
  <2>1. n + 1 \in 1 .. N /\ n + 1 \in 0 .. N /\ p[n] \in Nat
    BY <1>1, <1>7
  <2>2. p[n + 1] = p[n] + s[n + 1]
    BY <1>5, <2>1
  <2> QED
    BY <1>1, <2>1, <2>2
<1> HIDE DEF S
<1>8. 0 .. N \subseteq S
  BY <1>1, <1>6, <1>7, InductionUpTo
<1>9. p \in [0 .. N -> Nat]
  BY <1>5, <1>8 DEF S
<1>10. p[0] = 0 /\ \A n \in 1 .. N : p[n] = p[n - 1] + s[n]
  BY <1>1, <1>5
<1> QED
  BY <1>2, <1>9, <1>10

LEMMA SumType ==
  ASSUME NEW s \in Seq(Nat)
  PROVE  SumOf(s) \in Nat
<1>1. Len(s) \in 0 .. Len(s)
  OBVIOUS
<1> QED
  BY <1>1, SumRecursion

LEMMA SumMonotonic ==
  ASSUME NEW s \in Seq(Nat), NEW u \in Seq(Nat), Len(s) = Len(u), \A n \in 1 .. Len(s) : s[n] <= u[n]
  PROVE  SumOf(s) <= SumOf(u)
<1> DEFINE N == Len(s)
<1>0. N \in Nat /\ \A n \in 1 .. N : s[n] \in Nat /\ u[n] \in Nat
  OBVIOUS
<1>1. PICK t \in [0 .. N -> Nat] : SumOf(s) = t[N] /\ t[0] = 0 /\ \A n \in 1 .. N : t[n] = t[n - 1] + s[n]
  BY SumRecursion
<1>2. PICK v \in [0 .. N -> Nat] : SumOf(u) = v[N] /\ v[0] = 0 /\ \A n \in 1 .. N : v[n] = v[n - 1] + u[n]
  BY SumRecursion, ZenonT(30)
<1> DEFINE S == {n \in 0 .. N : t[n] <= v[n]}
<1>3. 0 \in S
  BY <1>0, <1>1, <1>2
<1>4. ASSUME NEW n \in 0 .. N - 1, n \in S PROVE n + 1 \in S
  <2>0. n + 1 \in 1 .. N /\ n + 1 \in 0 .. N /\ n \in 0 .. N /\ (n + 1) - 1 = n
    BY <1>0
  <2>1. t[n] <= v[n] /\ t[n] \in Nat /\ v[n] \in Nat
    BY <1>4, <2>0
  <2>2. t[n + 1] = t[n] + s[n + 1] /\ v[n + 1] = v[n] + u[n + 1]
    BY <1>1, <1>2, <2>0
  <2>3. s[n + 1] <= u[n + 1] /\ s[n + 1] \in Nat /\ u[n + 1] \in Nat
    BY <1>0, <2>0
  <2> QED
    BY <2>0, <2>1, <2>2, <2>3
<1> HIDE DEF S
<1>5. 0 .. N \subseteq S
  BY <1>0, <1>3, <1>4, InductionUpTo
<1>6. N \in S
  BY <1>0, <1>5
<1> QED
  BY <1>1, <1>2, <1>6 DEF S

-----------------------------------------------------------------------------
(* Sorted                                                                  *)

Below(S, x) == Cardinality({y \in S : y < x})

LEMMA BelowGrows ==
  ASSUME NEW S \in SUBSET Nat, IsFiniteSet(S), NEW x \in S, NEW z \in S, x < z
  PROVE  Below(S, x) \in Nat /\ Below(S, z) \in Nat /\ Below(S, x) < Below(S, z)
<1> DEFINE A == {y \in S : y < x}
           B == {y \in S : y < z}
<1>1. A \subseteq S /\ B \subseteq S /\ A \cup {x} \subseteq B /\ x \notin A
  <2>1. \A y \in S : y \in Nat /\ x \in Nat /\ z \in Nat
    OBVIOUS
  <2>2. \A y \in S : y < x => y < z
    BY <2>1
  <2>3. ~(x < x)
    BY <2>1
  <2> QED
    BY <2>2, <2>3
<1>2. IsFiniteSet(A) /\ IsFiniteSet(B) /\ Cardinality(A) \in Nat /\ Cardinality(B) \in Nat
  BY <1>1, FS_Subset, FS_CardinalityType
<1>3. Cardinality(A \cup {x}) = Cardinality(A) + 1
  BY <1>1, <1>2, FS_AddElement
<1>4. Cardinality(A \cup {x}) <= Cardinality(B)
  BY <1>1, <1>2, FS_Subset
<1> QED
  BY <1>2, <1>3, <1>4 DEF Below

(* The ranks of the members are 0 .. Cardinality(S) - 1, each of them once. *)
LEMMA Ranks ==
  ASSUME NEW S \in SUBSET Nat, IsFiniteSet(S)
  PROVE  /\ Cardinality(S) \in Nat
         /\ \A i \in 1 .. Cardinality(S) : \E x \in S : Below(S, x) = i - 1
         /\ \A x, z \in S : Below(S, x) = Below(S, z) => x = z
         /\ \A x \in S : Below(S, x) \in 0 .. Cardinality(S) - 1
<1> DEFINE N == Cardinality(S)
           f == [x \in S |-> Below(S, x)]
<1>1. N \in Nat
  BY FS_CardinalityType
<1>2. ASSUME NEW x \in S, NEW z \in S, Below(S, x) = Below(S, z) PROVE x = z
  <2>1. ~(x < z) /\ ~(z < x)
    BY <1>2, BelowGrows
  <2> QED
    BY <2>1
<1>3. ASSUME NEW x \in S PROVE Below(S, x) \in 0 .. N - 1
  <2> DEFINE A == {y \in S : y < x}
  <2>1. A \subseteq S /\ A # S
    OBVIOUS
  <2>2. IsFiniteSet(A) /\ Cardinality(A) \in Nat /\ Cardinality(A) <= N /\ Cardinality(A) # N
    BY <2>1, FS_Subset, FS_CardinalityType
  <2> QED
    BY <1>1, <2>2 DEF Below
<1>4. f \in [S -> 0 .. N - 1]
  BY <1>3
<1>5. f \in Injection(S, 0 .. N - 1)
  BY <1>2, <1>4 DEF Injection, IsInjective
<1>6. IsFiniteSet(0 .. N - 1) /\ Cardinality(0 .. N - 1) = N
  <2>1. N - 1 \in Int
    BY <1>1
  <2> QED
    BY <1>1, <2>1, FS_Interval
<1>7. f \in Surjection(S, 0 .. N - 1)
  BY <1>5, <1>6, FS_Injection
<1>8. ASSUME NEW i \in 1 .. N PROVE \E x \in S : Below(S, x) = i - 1
  <2>1. i - 1 \in 0 .. N - 1
    BY <1>1
  <2> QED
    BY <1>7, <2>1 DEF Surjection
<1> QED
  BY <1>1, <1>2, <1>3, <1>8

LEMMA SortedRight ==
  ASSUME NEW S \in SUBSET Nat, IsFiniteSet(S)
  PROVE  /\ Sorted(S) \in Seq(S) /\ Len(Sorted(S)) = Cardinality(S) /\ Cardinality(S) \in Nat
         /\ \A i \in 1 .. Cardinality(S) : Sorted(S)[i] \in S /\ Below(S, Sorted(S)[i]) = i - 1
         /\ \A i, j \in 1 .. Cardinality(S) : Sorted(S)[i] = Sorted(S)[j] => i = j
         /\ \A x \in S : \A i \in Nat : Below(S, x) = i - 1 => i \in 1 .. Cardinality(S) /\ Sorted(S)[i] = x
<1> DEFINE N == Cardinality(S)
<1>1. N \in Nat
  BY Ranks
<1>2. ASSUME NEW i \in 1 .. N PROVE Sorted(S)[i] \in S /\ Below(S, Sorted(S)[i]) = i - 1
  <2>1. \E x \in S : Cardinality({y \in S : y < x}) = i - 1
    BY <1>2, Ranks DEF Below
  <2> QED
    BY <2>1 DEF Sorted, Below
<1>3. Sorted(S) = [i \in 1 .. N |-> Sorted(S)[i]]
  BY SMTT(20) DEF Sorted
<1>4. Sorted(S) \in [1 .. N -> S]
  BY <1>2, <1>3
<1>5. Sorted(S) \in Seq(S) /\ Len(Sorted(S)) = N
  BY <1>1, <1>4
<1>6. ASSUME NEW i \in 1 .. N, NEW j \in 1 .. N, Sorted(S)[i] = Sorted(S)[j] PROVE i = j
  BY <1>1, <1>2, <1>6
<1>7. ASSUME NEW x \in S, NEW i \in Nat, Below(S, x) = i - 1
      PROVE  i \in 1 .. N /\ Sorted(S)[i] = x
  <2>1. i \in 1 .. N
    BY <1>1, <1>7, Ranks
  <2>2. Sorted(S)[i] \in S /\ Below(S, Sorted(S)[i]) = Below(S, x)
    BY <1>2, <1>7, <2>1
  <2>3. \A y \in S : Below(S, y) = Below(S, x) => y = x
    BY Ranks
  <2>4. Sorted(S)[i] = x
    BY <2>2, <2>3, Zenon
  <2> QED
    BY <2>1, <2>4
<1> QED
  BY <1>1, <1>2, <1>5, <1>6, <1>7

-----------------------------------------------------------------------------
(* Numbers, digit by digit                                                 *)

(* A number is written with digits below m[1], .., m[N], the first the     *)
(* most significant; W[k] is the weight of the digit k, W[N] that of the   *)
(* last, which need not be 1, and W[0] the first number too large.         *)
IsRadix(N, m, W) ==
  /\ N \in Nat
  /\ \A k \in 1 .. N : m[k] \in Nat \ {0}
  /\ \A k \in 0 .. N : W[k] \in Nat \ {0}
  /\ \A k \in 1 .. N : W[k - 1] = m[k] * W[k]

AreDigits(N, m, x) == \A k \in 1 .. N : x[k] \in 0 .. m[k] - 1

(* h[k] is the number of the first k digits.                               *)
IsHorner(N, m, x, h) ==
  /\ \A k \in 0 .. N : h[k] \in Nat
  /\ h[0] = 0
  /\ \A k \in 1 .. N : h[k] = h[k - 1] * m[k] + x[k]

(* n has these digits.                                                     *)
HasDigits(N, m, W, x, n) == \A k \in 1 .. N : (n \div W[k]) % m[k] = x[k]

LEMMA Division ==
  ASSUME NEW n \in Nat, NEW m \in Nat \ {0}
  PROVE  /\ n \div m \in Nat /\ n % m \in 0 .. m - 1 /\ n = (n \div m) * m + (n % m)
         /\ (n \div m) * m <= n /\ n < (n \div m) * m + m
<1>1. \A a \in Nat, b \in Nat \ {0} : a = b * (a \div b) + (a % b) /\ a \div b \in Nat /\ a % b \in Nat /\ a % b < b
  BY Z3
<1>2. \A a \in Nat, b \in Nat \ {0} : a * b = b * a /\ a * b \in Nat
  BY Z3
<1>3. n = m * (n \div m) + (n % m) /\ n \div m \in Nat /\ n % m \in Nat /\ n % m < m
  BY <1>1
<1>4. m * (n \div m) = (n \div m) * m /\ (n \div m) * m \in Nat
  BY <1>2, <1>3
<1> HIDE <1>1, <1>2
<1> DEFINE q == n \div m
           r == n % m
           p == q * m
<1>5. n = p + r /\ r \in Nat /\ r < m /\ p \in Nat /\ q \in Nat
  BY <1>3, <1>4
<1> HIDE DEF q, r, p
<1>6. r \in 0 .. m - 1 /\ p <= n /\ n < p + m
  BY <1>5
<1> QED
  BY <1>5, <1>6, Zenon DEF q, r, p

LEMMA QuotientIs ==
  ASSUME NEW n \in Nat, NEW m \in Nat \ {0}, NEW q \in Nat, q * m <= n, n < q * m + m
  PROVE  n \div m = q /\ n % m = n - q * m
<1> DEFINE d == n \div m
           r == n % m
<1>1. d \in Nat /\ r \in 0 .. m - 1 /\ n = d * m + r
  BY Division
<1>2. \A a, b, c \in Nat : a < b => a * c + c <= b * c
  BY Z3
<1>3. \A a, b \in Nat : a * b \in Nat
  BY Z3
<1> HIDE DEF d, r
<1>4. d * m \in Nat /\ q * m \in Nat
  BY <1>1, <1>3
<1>5. ~(d < q)
  <2>1. SUFFICES ASSUME d < q PROVE FALSE
    OBVIOUS
  <2>2. d * m + m <= q * m
    BY <1>1, <1>2, <2>1
  <2> DEFINE a == d * m
             b == q * m
  <2>3. a \in Nat /\ b \in Nat /\ a + m <= b /\ b <= n /\ n = a + r
    BY <1>1, <1>4, <2>2
  <2> HIDE DEF a, b
  <2> QED
    BY <1>1, <2>3
<1>6. ~(q < d)
  <2>1. SUFFICES ASSUME q < d PROVE FALSE
    OBVIOUS
  <2>2. q * m + m <= d * m
    BY <1>1, <1>2, <2>1
  <2> DEFINE a == d * m
             b == q * m
  <2>3. a \in Nat /\ b \in Nat /\ b + m <= a /\ n < b + m /\ n = a + r
    BY <1>1, <1>4, <2>2
  <2> HIDE DEF a, b
  <2> QED
    BY <1>1, <2>3
<1>7. d = q
  BY <1>1, <1>5, <1>6
<1>8. r = n - q * m
  <2> DEFINE b == q * m
  <2>1. n = b + r /\ b \in Nat /\ r \in Nat
    BY <1>1, <1>4, <1>7
  <2> HIDE DEF b
  <2>2. r = n - b
    BY <2>1
  <2> QED
    BY <2>2 DEF b
<1> QED
  BY <1>7, <1>8 DEF d, r

LEMMA DivisionTwice ==
  ASSUME NEW n \in Nat, NEW a \in Nat \ {0}, NEW b \in Nat \ {0}
  PROVE  (n \div a) \div b = n \div (b * a) /\ b * a \in Nat \ {0}
<1>1. \A x, y, z \in Nat : (x * y) * z = x * (y * z) /\ x * y \in Nat /\ (x + 1) * y = x * y + y
  BY Z3
<1>2. \A x, y \in Nat \ {0} : x * y \in Nat \ {0}
  BY Z3
<1>3. \A x, y, z \in Nat : x <= y => x * z <= y * z
  BY Z3
<1> DEFINE d == n \div a
           q == d \div b
<1>4. d \in Nat /\ d * a <= n /\ n < d * a + a
  BY Division
<1> HIDE DEF d
<1>5. q \in Nat /\ q * b <= d /\ d < q * b + b
  BY <1>4, Division
<1> HIDE DEF q
<1>6. q * b \in Nat /\ b * a \in Nat \ {0} /\ d * a \in Nat /\ (q * b) * a = q * (b * a)
  BY <1>1, <1>2, <1>4, <1>5
<1>7. (q * b) * a <= d * a
  BY <1>3, <1>4, <1>5, <1>6
<1>8. d * a + a <= q * (b * a) + b * a
  <2>1. d + 1 <= q * b + b /\ d + 1 \in Nat /\ q * b + b \in Nat
    BY <1>4, <1>5, <1>6
  <2>2. (d + 1) * a <= (q * b + b) * a
    BY <1>3, <2>1
  <2>3. (d + 1) * a = d * a + a
    BY <1>1, <1>4
  <2>4. q * b + b = (q + 1) * b /\ q + 1 \in Nat
    BY <1>1, <1>5
  <2>5. (q * b + b) * a = (q + 1) * (b * a)
    BY <1>1, <2>4
  <2>6. (q + 1) * (b * a) = q * (b * a) + b * a
    BY <1>1, <1>5, <1>6
  <2> QED
    BY <2>2, <2>3, <2>5, <2>6
<1> DEFINE c == b * a
           e == q * c
           f == d * a
<1>9. e \in Nat /\ f \in Nat /\ e <= f /\ f + a <= e + c /\ f <= n /\ n < f + a /\ c \in Nat \ {0}
  BY <1>1, <1>4, <1>5, <1>6, <1>7, <1>8
<1> HIDE DEF e, f, c
<1>10. e <= n /\ n < e + c
  BY <1>9
<1>11. n \div c = q
  BY <1>5, <1>9, <1>10, QuotientIs DEF e
<1> QED
  BY <1>6, <1>11 DEF c, q, d

(* What the digits of a number are, from the number of those before them.  *)
LEMMA RadixStep ==
  ASSUME NEW N, NEW m, NEW W, IsRadix(N, m, W), NEW n \in Nat, NEW k \in 1 .. N
  PROVE  /\ n \div W[k - 1] \in Nat /\ n \div W[k] \in Nat
         /\ n \div W[k] = (n \div W[k - 1]) * m[k] + ((n \div W[k]) % m[k])
         /\ (n \div W[k]) % m[k] \in 0 .. m[k] - 1
<1>1. k - 1 \in 0 .. N /\ k \in 0 .. N
  BY DEF IsRadix
<1>2. W[k - 1] \in Nat \ {0} /\ W[k] \in Nat \ {0} /\ m[k] \in Nat \ {0} /\ W[k - 1] = m[k] * W[k]
  BY <1>1 DEF IsRadix
<1>3. (n \div W[k]) \div m[k] = n \div W[k - 1]
  BY <1>2, DivisionTwice
<1>4. n \div W[k] \in Nat /\ n \div W[k - 1] \in Nat
  BY <1>2, Division
<1>5. n \div W[k] = ((n \div W[k]) \div m[k]) * m[k] + ((n \div W[k]) % m[k])
      /\ (n \div W[k]) % m[k] \in 0 .. m[k] - 1
  BY <1>2, <1>4, Division
<1> QED
  BY <1>3, <1>4, <1>5

LEMMA SmallQuotient ==
  ASSUME NEW n \in Nat, NEW m \in Nat \ {0}, n < m
  PROVE  n \div m = 0 /\ n % m = n
<1>1. 0 * m = 0 /\ n - 0 * m = n
  OBVIOUS
<1> QED
  BY <1>1, QuotientIs

(* Numbers with the same digits, and the same rest below the last, are     *)
(* equal.                                                                  *)
LEMMA RadixEqual ==
  ASSUME NEW N, NEW m, NEW W, IsRadix(N, m, W),
         NEW n \in Nat, NEW o \in Nat, n < W[0], o < W[0],
         \A k \in 1 .. N : (n \div W[k]) % m[k] = (o \div W[k]) % m[k],
         n % W[N] = o % W[N]
  PROVE  n = o
<1> DEFINE S == {k \in 0 .. N : n \div W[k] = o \div W[k]}
<1>0. N \in Nat /\ 0 \in 0 .. N /\ N \in 0 .. N
  BY DEF IsRadix
<1>1. 0 \in S
  BY <1>0, SmallQuotient DEF IsRadix
<1>2. ASSUME NEW k \in 0 .. N - 1, k \in S PROVE k + 1 \in S
  <2>1. k + 1 \in 1 .. N /\ (k + 1) - 1 = k /\ k + 1 \in 0 .. N
    BY <1>0
  <2>2. /\ n \div W[k + 1] = (n \div W[k]) * m[k + 1] + ((n \div W[k + 1]) % m[k + 1])
        /\ o \div W[k + 1] = (o \div W[k]) * m[k + 1] + ((o \div W[k + 1]) % m[k + 1])
    BY <2>1, RadixStep
  <2>3. n \div W[k] = o \div W[k]
    BY <1>2
  <2> QED
    BY <2>1, <2>2, <2>3
<1> HIDE DEF S
<1>3. 0 .. N \subseteq S
  BY <1>0, <1>1, <1>2, InductionUpTo
<1>4. n \div W[N] = o \div W[N]
  BY <1>0, <1>3 DEF S
<1>5. n = (n \div W[N]) * W[N] + (n % W[N]) /\ o = (o \div W[N]) * W[N] + (o % W[N])
  BY <1>0, Division DEF IsRadix
<1> QED
  BY <1>4, <1>5

(* The number of every sequence of digits exists, ...                      *)
LEMMA HornerExists ==
  ASSUME NEW N \in Nat, NEW m, NEW x, \A k \in 1 .. N : m[k] \in Nat /\ x[k] \in Nat
  PROVE  \E h : IsHorner(N, m, x, h)
<1> DEFINE step == [k \in 1 .. N |-> [v \in Nat |-> v * m[k] + x[k]]]
<1>1. \A a, b, c \in Nat : a * b + c \in Nat
  BY Z3
<1>2. \A k \in 1 .. N, v \in Nat : v * m[k] + x[k] \in Nat
  BY <1>1
<1>3. step \in [1 .. N -> [Nat -> Nat]]
  BY <1>2, Zenon
<1>4. 0 \in Nat
  OBVIOUS
<1>5. \E h : IsRun(h, N, Nat, 0, step)
  BY <1>3, <1>4, StepsExist
<1>6. PICK h : h \in [0 .. N -> Nat] /\ h[0] = 0 /\ \A k \in 1 .. N : h[k] = step[k][h[k - 1]]
  BY <1>5 DEF IsRun
<1>7. ASSUME NEW k \in 1 .. N PROVE h[k] = h[k - 1] * m[k] + x[k]
  <2>1. h[k - 1] \in Nat
    <3>1. k - 1 \in 0 .. N
      OBVIOUS
    <3>2. h \in [0 .. N -> Nat]
      BY <1>6
    <3> HIDE DEF step
    <3> QED
      BY <3>1, <3>2
  <2> QED
    BY <1>6, <2>1
<1>8. \A k \in 0 .. N : h[k] \in Nat
  BY <1>6
<1> QED
  BY <1>6, <1>7, <1>8 DEF IsHorner

(* ... is only one, ...                                                    *)
LEMMA HornerUnique ==
  ASSUME NEW N \in Nat, NEW m, NEW x, NEW y, NEW g, NEW h,
         IsHorner(N, m, x, g), IsHorner(N, m, y, h), \A k \in 1 .. N : x[k] = y[k]
  PROVE  \A k \in 0 .. N : g[k] = h[k]
<1> DEFINE S == {k \in 0 .. N : g[k] = h[k]}
<1>1. 0 \in S
  BY DEF IsHorner
<1>2. ASSUME NEW k \in 0 .. N - 1, k \in S PROVE k + 1 \in S
  <2>1. k + 1 \in 1 .. N /\ (k + 1) - 1 = k /\ k + 1 \in 0 .. N
    OBVIOUS
  <2>2. g[k + 1] = g[k] * m[k + 1] + x[k + 1] /\ h[k + 1] = h[k] * m[k + 1] + y[k + 1]
    BY <2>1 DEF IsHorner
  <2> QED
    BY <1>2, <2>1, <2>2
<1> HIDE DEF S
<1>3. 0 .. N \subseteq S
  BY <1>1, <1>2, InductionUpTo
<1> QED
  BY <1>3 DEF S

(* ... and is what the sum of the digits by their weights is.              *)
LEMMA HornerSum ==
  ASSUME NEW N, NEW m, NEW W, IsRadix(N, m, W), NEW x, NEW h, IsHorner(N, m, x, h),
         \A k \in 1 .. N : x[k] \in Nat
  PROVE  SumOf([k \in 1 .. N |-> x[k] * W[k]]) = h[N] * W[N]
<1> DEFINE s == [k \in 1 .. N |-> x[k] * W[k]]
<1>0. N \in Nat /\ 0 \in 0 .. N /\ N \in 0 .. N
  BY DEF IsRadix
<1>a. \A a, b \in Nat : a * b \in Nat
  BY Z3
<1>b. \A a, b, c, d \in Nat : (a * b + c) * d = a * (b * d) + c * d
  BY Z3
<1>1. \A k \in 1 .. N : W[k] \in Nat /\ x[k] \in Nat /\ m[k] \in Nat /\ x[k] * W[k] \in Nat
  BY <1>0, <1>a DEF IsRadix
<1>2. s \in Seq(Nat) /\ Len(s) = N
  BY <1>0, <1>1
<1>3. \A k \in 1 .. N : s[k] = x[k] * W[k]
  OBVIOUS
<1> HIDE DEF s
<1>4. PICK t \in [0 .. N -> Nat] : SumOf(s) = t[N] /\ t[0] = 0 /\ \A n \in 1 .. N : t[n] = t[n - 1] + s[n]
  BY <1>2, SumRecursion
<1> DEFINE S == {k \in 0 .. N : t[k] = h[k] * W[k]}
<1>5. 0 \in S
  <2>1. W[0] \in Nat /\ h[0] = 0 /\ 0 * W[0] = 0
    BY <1>0 DEF IsRadix, IsHorner
  <2> QED
    BY <1>0, <1>4, <2>1
<1>6. ASSUME NEW k \in 0 .. N - 1, k \in S PROVE k + 1 \in S
  <2>1. k + 1 \in 1 .. N /\ (k + 1) - 1 = k /\ k + 1 \in 0 .. N /\ k \in 0 .. N
    BY <1>0
  <2>2. h[k + 1] = h[k] * m[k + 1] + x[k + 1] /\ h[k] \in Nat
    BY <2>1 DEF IsHorner
  <2>3. W[k] = m[k + 1] * W[k + 1]
    BY <2>1 DEF IsRadix
  <2>4. t[k + 1] = h[k] * (m[k + 1] * W[k + 1]) + x[k + 1] * W[k + 1]
    BY <1>3, <1>4, <1>6, <2>1, <2>3
  <2>5. (h[k] * m[k + 1] + x[k + 1]) * W[k + 1] = h[k] * (m[k + 1] * W[k + 1]) + x[k + 1] * W[k + 1]
    BY <1>b, <1>1, <2>1, <2>2
  <2>6. t[k + 1] = h[k + 1] * W[k + 1]
    BY <2>2, <2>4, <2>5
  <2> QED
    BY <2>1, <2>6
<1> HIDE DEF S
<1>7. 0 .. N \subseteq S
  BY <1>0, <1>5, <1>6, InductionUpTo
<1> QED
  BY <1>0, <1>4, <1>7 DEF S, s

(* A number between those of its first digits has those digits.            *)
LEMMA HornerDigits ==
  ASSUME NEW N, NEW m, NEW W, IsRadix(N, m, W), NEW x, AreDigits(N, m, x),
         NEW h, IsHorner(N, m, x, h), NEW n \in Nat, n \div W[N] = h[N]
  PROVE  n < W[0] /\ HasDigits(N, m, W, x, n) /\ \A k \in 0 .. N : n \div W[k] = h[k]
<1> DEFINE S == {k \in 0 .. N : n \div W[N - k] = h[N - k]}
<1>0. N \in Nat /\ 0 \in 0 .. N /\ N \in 0 .. N /\ N - 0 = N
  BY DEF IsRadix
<1>1. 0 \in S
  BY <1>0
<1>2. ASSUME NEW k \in 1 .. N, n \div W[k] = h[k]
      PROVE  n \div W[k - 1] = h[k - 1] /\ (n \div W[k]) % m[k] = x[k]
  <2>1. k - 1 \in 0 .. N /\ k \in 0 .. N
    BY <1>0
  <2>2. W[k - 1] = m[k] * W[k] /\ W[k] \in Nat \ {0} /\ m[k] \in Nat \ {0}
    BY <2>1 DEF IsRadix
  <2>3. h[k] = h[k - 1] * m[k] + x[k] /\ h[k - 1] \in Nat /\ h[k] \in Nat
    BY <2>1 DEF IsHorner
  <2>4. x[k] \in 0 .. m[k] - 1
    BY DEF AreDigits
  <2>5. h[k - 1] * m[k] \in Nat
    <3>1. \A a, b \in Nat : a * b \in Nat
      BY Z3
    <3> QED
      BY <2>2, <2>3, <3>1
  <2> DEFINE a == h[k - 1] * m[k]
             d == h[k]
             q == m[k]
             y == x[k]
  <2>6. a \in Nat /\ d \in Nat /\ q \in Nat \ {0} /\ y \in 0 .. q - 1 /\ d = a + y
    BY <2>2, <2>3, <2>4, <2>5
  <2> HIDE DEF a, d, q, y
  <2>7. a <= d /\ d < a + q /\ d - a = y
    BY <2>6
  <2>12. h[k - 1] * m[k] <= h[k] /\ h[k] < h[k - 1] * m[k] + m[k] /\ h[k] - h[k - 1] * m[k] = x[k]
    BY <2>7, Zenon DEF a, d, q, y
  <2>13. h[k] \div m[k] = h[k - 1] /\ h[k] % m[k] = x[k]
    <3>1. h[k] \div m[k] = h[k - 1] /\ h[k] % m[k] = h[k] - h[k - 1] * m[k]
      <4>1. \A u \in Nat, v \in Nat \ {0}, w \in Nat :
              w * v <= u /\ u < w * v + v => u \div v = w /\ u % v = u - w * v
        BY QuotientIs
      <4>2. h[k] \in Nat /\ m[k] \in Nat \ {0} /\ h[k - 1] \in Nat
        BY <2>2, <2>3
      <4>3. h[k - 1] * m[k] <= h[k] /\ h[k] < h[k - 1] * m[k] + m[k]
        BY <2>12, Zenon
      <4> QED
        BY <4>1, <4>2, <4>3, Zenon
    <3> QED
      BY <2>12, <3>1, Zenon
  <2>8. n \div W[k - 1] = (n \div W[k]) \div m[k]
    BY <2>2, DivisionTwice
  <2> QED
    BY <1>2, <2>13, <2>8
<1>3. ASSUME NEW k \in 0 .. N - 1, k \in S PROVE k + 1 \in S
  <2>1. N - k \in 1 .. N /\ (N - k) - 1 = N - (k + 1) /\ k + 1 \in 0 .. N
    BY <1>0
  <2>2. n \div W[N - k] = h[N - k]
    BY <1>3
  <2> QED
    BY <1>2, <2>1, <2>2
<1> HIDE DEF S
<1>4. 0 .. N \subseteq S
  BY <1>0, <1>1, <1>3, InductionUpTo
<1>5. ASSUME NEW k \in 0 .. N PROVE n \div W[k] = h[k]
  <2>1. N - k \in S /\ N - (N - k) = k
    BY <1>0, <1>4
  <2> QED
    BY <2>1 DEF S
<1>6. HasDigits(N, m, W, x, n)
  <2>1. \A k \in 1 .. N : k \in 0 .. N
    BY <1>0
  <2> QED
    BY <1>2, <1>5, <2>1 DEF HasDigits
<1>7. n < W[0]
  <2>1. W[0] \in Nat \ {0} /\ n \div W[0] = 0
    BY <1>0, <1>5 DEF IsRadix, IsHorner
  <2>2. n < (n \div W[0]) * W[0] + W[0]
    BY <2>1, Division
  <2>3. \A j \in Nat : 0 * j + j = j
    OBVIOUS
  <2> QED
    BY <2>1, <2>2, <2>3
<1> QED
  BY <1>5, <1>6, <1>7

(* Every sequence of digits is that of a number, with every rest.          *)
LEMMA RadixExists ==
  ASSUME NEW N, NEW m, NEW W, IsRadix(N, m, W), NEW x, AreDigits(N, m, x), NEW r \in 0 .. W[N] - 1
  PROVE  \E n \in 0 .. W[0] - 1 : HasDigits(N, m, W, x, n) /\ n % W[N] = r
<1>0. N \in Nat /\ N \in 0 .. N /\ 0 \in 0 .. N /\ W[N] \in Nat \ {0} /\ W[0] \in Nat \ {0}
  BY DEF IsRadix
<1>1. \A k \in 1 .. N : m[k] \in Nat /\ x[k] \in Nat
  BY DEF IsRadix, AreDigits
<1>2. PICK h : IsHorner(N, m, x, h)
  BY <1>0, <1>1, HornerExists
<1> DEFINE a == h[N] * W[N]
           n == a + r
<1>3. h[N] \in Nat /\ a \in Nat
  <2>1. \A i, j \in Nat : i * j \in Nat
    BY Z3
  <2> QED
    BY <1>0, <1>2, <2>1 DEF IsHorner
<1> HIDE DEF a
<1>4. n \in Nat /\ a <= n /\ n < a + W[N] /\ n - a = r
  BY <1>0, <1>3
<1> HIDE DEF n
<1>5. n \div W[N] = h[N] /\ n % W[N] = r
  BY <1>0, <1>3, <1>4, QuotientIs DEF a
<1>6. n < W[0] /\ HasDigits(N, m, W, x, n)
  BY <1>2, <1>4, <1>5, HornerDigits
<1>7. n \in 0 .. W[0] - 1
  BY <1>0, <1>4, <1>6
<1> QED
  BY <1>5, <1>6, <1>7

(* The quotients of a number by the weights are those of its digits.       *)
LEMMA HornerOfDigits ==
  ASSUME NEW N, NEW m, NEW W, IsRadix(N, m, W), NEW n \in Nat, n < W[0],
         NEW x, HasDigits(N, m, W, x, n), NEW h, IsHorner(N, m, x, h)
  PROVE  h[N] = n \div W[N]
<1> DEFINE g == [k \in 0 .. N |-> n \div W[k]]
<1>0. N \in Nat /\ N \in 0 .. N /\ 0 \in 0 .. N
  BY DEF IsRadix
<1>1. \A k \in 0 .. N : g[k] = n \div W[k] /\ g[k] \in Nat
  BY Division DEF IsRadix
<1>2. g[0] = 0
  BY <1>0, <1>1, SmallQuotient DEF IsRadix
<1>3. ASSUME NEW k \in 1 .. N PROVE g[k] = g[k - 1] * m[k] + x[k]
  <2>1. k \in 0 .. N /\ k - 1 \in 0 .. N
    BY <1>0
  <2>2. g[k] = n \div W[k] /\ g[k - 1] = n \div W[k - 1]
    BY <1>1, <2>1
  <2>3. x[k] = (n \div W[k]) % m[k]
    BY DEF HasDigits
  <2> QED
    BY <2>2, <2>3, RadixStep
<1> HIDE DEF g
<1>4. IsHorner(N, m, x, g)
  BY <1>1, <1>2, <1>3 DEF IsHorner
<1> QED
  BY <1>0, <1>1, <1>4, HornerUnique

-----------------------------------------------------------------------------
(* The weights of the dimensions of a shape, or of the axes of a mesh      *)

Weights(s, u) == [k \in 0 .. Len(s) |-> Product(After(s, k)) * u]

LEMMA AfterIs ==
  ASSUME NEW V, NEW s \in Seq(V), NEW i \in 0 .. Len(s)
  PROVE  /\ After(s, i) \in Seq(V) /\ Len(After(s, i)) = Len(s) - i
         /\ \A j \in 1 .. Len(s) - i : After(s, i)[j] = s[i + j]
<1> DEFINE b == i + 1
           e == Len(s)
<1>1. e \in Nat /\ \A j \in 1 .. e : s[j] \in V
  OBVIOUS
<1>2. b \in Int /\ e \in Int /\ e - b + 1 = e - i /\ (b <= e => e - b + 1 = e - i) /\ (~(b <= e) => e - i = 0)
  BY <1>1
<1>3. \A j \in b .. e : s[j] \in V
  BY <1>1
<1>4. \A j \in 1 .. e - i : b + j - 1 = i + j
  BY <1>1
<1>5. After(s, i) = SubSeq(s, b, e)
  BY DEF After
<1> HIDE DEF b, e
<1>6. /\ SubSeq(s, b, e) \in Seq(V)
      /\ Len(SubSeq(s, b, e)) = IF b <= e THEN e - b + 1 ELSE 0
      /\ \A j \in 1 .. e - b + 1 : SubSeq(s, b, e)[j] = s[b + j - 1]
  BY <1>2, <1>3, SubSeqProperties
<1> QED
  BY <1>2, <1>4, <1>5, <1>6 DEF e

LEMMA ProductEnds ==
  ASSUME NEW s \in Seq(Nat \ {0})
  PROVE  After(s, 0) = s /\ Product(After(s, Len(s))) = 1
<1>1. Len(s) \in Nat /\ 0 \in 0 .. Len(s) /\ Len(s) \in 0 .. Len(s)
  OBVIOUS
<1>2. /\ After(s, 0) \in Seq(Nat \ {0}) /\ Len(After(s, 0)) = Len(s)
      /\ \A j \in 1 .. Len(s) : After(s, 0)[j] = s[j]
  <2>1. \A j \in 1 .. Len(s) : 0 + j = j
    BY <1>1
  <2>2. Len(s) - 0 = Len(s)
    BY <1>1
  <2>3. /\ After(s, 0) \in Seq(Nat \ {0}) /\ Len(After(s, 0)) = Len(s) - 0
        /\ \A j \in 1 .. Len(s) - 0 : After(s, 0)[j] = s[0 + j]
    BY <1>1, AfterIs
  <2> QED
    BY <2>1, <2>2, <2>3
<1>3. After(s, 0) = s
  BY <1>2, SeqEqual
<1> DEFINE u == After(s, Len(s))
<1>4. u \in Seq(Nat \ {0}) /\ Len(u) = 0
  BY <1>1, AfterIs
<1> HIDE DEF u
<1>5. Product(u) = 1
  BY <1>4, ProductRecursion
<1> QED
  BY <1>3, <1>5 DEF u

LEMMA AfterProduct ==
  ASSUME NEW s \in Seq(Nat \ {0}), NEW k \in 1 .. Len(s)
  PROVE  Product(After(s, k - 1)) = s[k] * Product(After(s, k))
<1> DEFINE u == After(s, k - 1)
           v == After(s, k)
           M == Len(s) - k
<1>1. M \in Nat /\ k - 1 \in 0 .. Len(s) /\ k \in 0 .. Len(s) /\ Len(s) - (k - 1) = M + 1 /\ Len(s) \in Nat
  OBVIOUS
<1>2. /\ u \in Seq(Nat \ {0}) /\ Len(u) = M + 1 /\ \A j \in 1 .. M + 1 : u[j] = s[(k - 1) + j]
      /\ v \in Seq(Nat \ {0}) /\ Len(v) = M /\ \A j \in 1 .. M : v[j] = s[k + j]
  <2>1. /\ u \in Seq(Nat \ {0}) /\ Len(u) = Len(s) - (k - 1)
        /\ \A j \in 1 .. Len(s) - (k - 1) : u[j] = s[(k - 1) + j]
    BY <1>1, AfterIs, Zenon
  <2>2. v \in Seq(Nat \ {0}) /\ Len(v) = M /\ \A j \in 1 .. M : v[j] = s[k + j]
    BY <1>1, AfterIs, Zenon
  <2> QED
    BY <1>1, <2>1, <2>2, Zenon
<1> HIDE DEF u, v, M
<1>3. PICK t \in [0 .. M + 1 -> Nat \ {0}] :
        Product(u) = t[M + 1] /\ t[0] = 1 /\ \A n \in 1 .. M + 1 : t[n] = t[n - 1] * u[n]
  <2>1. u \in Seq(Nat \ {0}) /\ Len(u) = M + 1
    BY <1>2
  <2>2. \E t \in [0 .. Len(u) -> Nat \ {0}] :
          /\ Product(u) = t[Len(u)] /\ t[0] = 1
          /\ \A n \in 1 .. Len(u) : t[n] = t[n - 1] * u[n]
    BY <2>1, ProductRecursion
  <2> QED
    BY <2>1, <2>2, Zenon
<1>4. PICK r \in [0 .. M -> Nat \ {0}] :
        Product(v) = r[M] /\ r[0] = 1 /\ \A n \in 1 .. M : r[n] = r[n - 1] * v[n]
  BY <1>2, ProductRecursion, ZenonT(30)
<1> DEFINE S == {n \in 0 .. M : t[n + 1] = s[k] * r[n]}
<1>5. s[k] \in Nat /\ \A j \in 1 .. M : u[j + 1] = v[j] /\ v[j] \in Nat
  <2>1. \A j \in 1 .. M : j + 1 \in 1 .. M + 1 /\ (k - 1) + (j + 1) = k + j
    BY <1>1
  <2>2. \A j \in 1 .. M : u[j + 1] = s[k + j] /\ v[j] = s[k + j]
    BY <1>2, <2>1
  <2>3. \A j \in 1 .. M : v[j] \in Nat
    BY <1>2
  <2>4. s[k] \in Nat
    OBVIOUS
  <2> QED
    BY <2>2, <2>3, <2>4
<1>6. 0 \in S
  <2>1. 1 \in 1 .. M + 1 /\ 1 - 1 = 0 /\ (k - 1) + 1 = k /\ 0 + 1 = 1 /\ 0 \in 0 .. M
    BY <1>1
  <2>2. t[1] = t[0] * u[1] /\ u[1] = s[k]
    BY <1>2, <1>3, <2>1
  <2>3. 1 * s[k] = s[k] /\ s[k] * 1 = s[k]
    BY <1>5
  <2> QED
    BY <1>3, <1>4, <2>1, <2>2, <2>3
<1>7. ASSUME NEW n \in 0 .. M - 1, n \in S PROVE n + 1 \in S
  <2>1. n + 1 \in 1 .. M /\ (n + 1) - 1 = n /\ n + 1 \in 0 .. M /\ n \in 0 .. M
        /\ (n + 1) + 1 \in 1 .. M + 1 /\ ((n + 1) + 1) - 1 = n + 1
    BY <1>1
  <2>2. t[(n + 1) + 1] = t[n + 1] * u[(n + 1) + 1]
    BY <1>3, <2>1
  <2>3. r[n + 1] = r[n] * v[n + 1] /\ r[n] \in Nat
    BY <1>4, <2>1
  <2>4. \A a, b, c \in Nat : (a * b) * c = a * (b * c)
    BY Z3
  <2>5. t[n + 1] = s[k] * r[n] /\ u[(n + 1) + 1] = v[n + 1] /\ v[n + 1] \in Nat
    BY <1>5, <1>7, <2>1
  <2>6. t[(n + 1) + 1] = (s[k] * r[n]) * v[n + 1]
    BY <2>2, <2>5, Zenon
  <2>7. (s[k] * r[n]) * v[n + 1] = s[k] * (r[n] * v[n + 1])
    BY <1>5, <2>3, <2>4, <2>5
  <2>8. t[(n + 1) + 1] = s[k] * r[n + 1]
    BY <2>3, <2>6, <2>7, Zenon
  <2> QED
    BY <2>1, <2>8
<1> HIDE DEF S
<1>8. 0 .. M \subseteq S
  BY <1>1, <1>6, <1>7, InductionUpTo
<1>9. M \in S
  BY <1>1, <1>8
<1> QED
  BY <1>3, <1>4, <1>9 DEF S, u, v

LEMMA WeightsRight ==
  ASSUME NEW s \in Seq(Nat \ {0}), NEW u \in Nat \ {0}
  PROVE  /\ IsRadix(Len(s), s, Weights(s, u))
         /\ Weights(s, u)[0] = Product(s) * u /\ Weights(s, u)[Len(s)] = u
<1>1. Len(s) \in Nat /\ 0 \in 0 .. Len(s) /\ Len(s) \in 0 .. Len(s) /\ \A k \in 1 .. Len(s) : s[k] \in Nat \ {0}
  OBVIOUS
<1>2. \A k \in 0 .. Len(s) : Weights(s, u)[k] = Product(After(s, k)) * u
  BY DEF Weights
<1>3. \A k \in 0 .. Len(s) : Product(After(s, k)) \in Nat \ {0}
  BY AfterIs, ProductType
<1>4. \A a, b \in Nat \ {0} : a * b \in Nat \ {0}
  BY Z3
<1>5. \A k \in 0 .. Len(s) : Weights(s, u)[k] \in Nat \ {0}
  BY <1>2, <1>3, <1>4
<1>6. \A a, b, c \in Nat : (a * b) * c = a * (b * c)
  BY Z3
<1>7. ASSUME NEW k \in 1 .. Len(s) PROVE Weights(s, u)[k - 1] = s[k] * Weights(s, u)[k]
  <2>1. k - 1 \in 0 .. Len(s) /\ k \in 0 .. Len(s)
    BY <1>1
  <2>2. Product(After(s, k - 1)) = s[k] * Product(After(s, k))
    BY AfterProduct
  <2>3. (s[k] * Product(After(s, k))) * u = s[k] * (Product(After(s, k)) * u)
    BY <1>1, <1>3, <1>6, <2>1
  <2> QED
    BY <1>2, <2>1, <2>2, <2>3, Zenon
<1>8. 1 * u = u
  OBVIOUS
<1> QED
  BY <1>1, <1>2, <1>5, <1>7, <1>8, ProductEnds DEF IsRadix

-----------------------------------------------------------------------------
(* The layout                                                              *)

LEMMA LayoutParts ==
  ASSUME NEW l, IsLayout(l)
  PROVE  /\ Rank(l) \in Nat /\ DOMAIN l.dims = 1 .. Rank(l) /\ l.elem \in Nat \ {0}
         /\ DOMAIN l.mesh = 1 .. Len(l.mesh) /\ Len(l.mesh) \in Nat
         /\ \A a \in 1 .. Rank(l) : l.dims[a] \in Nat \ {0} /\ l.bind[a] \in Seq(DOMAIN l.mesh)
         /\ \A p \in DOMAIN l.mesh : l.mesh[p] \in Nat \ {0}
<1>1. l.dims \in Seq(Nat \ {0}) /\ l.mesh \in Seq(Nat \ {0}) /\ Rank(l) = Len(l.dims) /\ l.elem \in Nat \ {0}
      /\ l.bind \in Seq(Seq(DOMAIN l.mesh)) /\ Len(l.bind) = Len(l.dims)
  BY DEF IsLayout, Rank
<1>2. Rank(l) \in Nat /\ DOMAIN l.dims = 1 .. Rank(l) /\ \A a \in 1 .. Rank(l) : l.dims[a] \in Nat \ {0}
  BY <1>1
<1>3. DOMAIN l.mesh = 1 .. Len(l.mesh) /\ Len(l.mesh) \in Nat /\ \A p \in 1 .. Len(l.mesh) : l.mesh[p] \in Nat \ {0}
  BY <1>1
<1> DEFINE B == Seq(DOMAIN l.mesh)
<1> HIDE DEF B
<1>4. l.bind \in Seq(B)
  BY <1>1 DEF B
<1>5. \A a \in 1 .. Rank(l) : l.bind[a] \in B
  BY <1>1, <1>4
<1> QED
  BY <1>1, <1>2, <1>3, <1>5 DEF B

LEMMA StrideType ==
  ASSUME NEW l, IsLayout(l)
  PROVE  /\ TotalBytes(l) \in Nat \ {0}
         /\ \A a \in 1 .. Rank(l) : ByteStride(l, a) \in Nat \ {0}
         /\ Writers(l) = 1 .. Product(l.mesh) /\ Product(l.mesh) \in Nat \ {0}
<1>1. \A m, n \in Nat \ {0} : m * n \in Nat \ {0}
  BY Z3
<1>2. l.elem \in Nat \ {0} /\ l.dims \in Seq(Nat \ {0}) /\ l.mesh \in Seq(Nat \ {0}) /\ Rank(l) = Len(l.dims)
  BY DEF IsLayout, Rank
<1>3. Product(l.dims) \in Nat \ {0} /\ Product(l.mesh) \in Nat \ {0}
  BY <1>2, ProductType
<1>4. TotalBytes(l) \in Nat \ {0}
  BY <1>1, <1>2, <1>3 DEF TotalBytes
<1>5. ASSUME NEW a \in 1 .. Rank(l) PROVE ByteStride(l, a) \in Nat \ {0}
  <2>1. After(l.dims, a) \in Seq(Nat \ {0})
    BY <1>2, AfterIs
  <2>2. Product(After(l.dims, a)) \in Nat \ {0}
    BY <2>1, ProductType
  <2> QED
    BY <1>1, <1>2, <2>2 DEF ByteStride
<1> QED
  BY <1>3, <1>4, <1>5 DEF Writers

LEMMA CoordType ==
  ASSUME NEW l, IsLayout(l), NEW w \in Writers(l), NEW p \in DOMAIN l.mesh
  PROVE  Coord(l, w, p) \in 0 .. l.mesh[p] - 1
<1>1. l.mesh \in Seq(Nat \ {0}) /\ p \in 0 .. Len(l.mesh) /\ l.mesh[p] \in Nat \ {0}
  BY LayoutParts DEF IsLayout
<1>2. After(l.mesh, p) \in Seq(Nat \ {0})
  BY <1>1, AfterIs
<1>3. Product(After(l.mesh, p)) \in Nat \ {0}
  BY <1>2, ProductType
<1>4. w - 1 \in Nat
  BY StrideType
<1>5. (w - 1) \div Product(After(l.mesh, p)) \in Nat
  BY <1>3, <1>4, Division
<1> QED
  BY <1>1, <1>5, Division DEF Coord

(* A dimension is split over axes of the mesh.                             *)
LEMMA SplitType ==
  ASSUME NEW l, IsLayout(l), NEW a \in 1 .. Rank(l)
  PROVE  /\ SplitAxes(l, a) \in Seq(DOMAIN l.mesh)
         /\ SplitSizes(l, a) \in Seq(Nat \ {0})
         /\ Len(SplitSizes(l, a)) = Len(SplitAxes(l, a))
         /\ Count(l, a) \in Nat \ {0}
<1> DEFINE K == {k \in DOMAIN l.bind[a] : Unused(l, a, k)}
           N == Cardinality(K)
<1>1. l.bind[a] \in Seq(DOMAIN l.mesh) /\ Len(l.bind[a]) \in Nat /\ DOMAIN l.bind[a] = 1 .. Len(l.bind[a])
  BY LayoutParts
<1>2. K \in SUBSET Nat /\ IsFiniteSet(K) /\ K \subseteq DOMAIN l.bind[a]
  <2>1. IsFiniteSet(1 .. Len(l.bind[a]))
    BY <1>1, FS_Interval
  <2> QED
    BY <1>1, <2>1, FS_Subset
<1> HIDE DEF K
<1>3. Len(Sorted(K)) = N /\ N \in Nat /\ Sorted(K) \in Seq(K) /\ \A i \in 1 .. N : Sorted(K)[i] \in K
  BY <1>2, SortedRight
<1>4. DOMAIN Sorted(K) = 1 .. N
  BY <1>3
<1>5. SplitAxes(l, a) = [i \in 1 .. N |-> l.bind[a][Sorted(K)[i]]]
  <2>1. SplitAxes(l, a) = [i \in DOMAIN Sorted(K) |-> l.bind[a][Sorted(K)[i]]]
    BY Zenon DEF SplitAxes, K
  <2> QED
    BY <1>4, <2>1
<1>6. \A k \in K : l.bind[a][k] \in DOMAIN l.mesh
  <2>1. \A k \in 1 .. Len(l.bind[a]) : l.bind[a][k] \in DOMAIN l.mesh
    BY <1>1, ElementOfSeq
  <2> QED
    BY <1>1, <1>2, <2>1
<1>7. SplitAxes(l, a) \in Seq(DOMAIN l.mesh)
  BY <1>3, <1>5, <1>6
<1>8. DOMAIN SplitAxes(l, a) = 1 .. N /\ \A i \in 1 .. N : SplitAxes(l, a)[i] \in DOMAIN l.mesh
  BY <1>3, <1>5, <1>6
<1>9. \A i \in 1 .. N : l.mesh[SplitAxes(l, a)[i]] \in Nat \ {0}
  BY <1>8, LayoutParts
<1>10. SplitSizes(l, a) \in Seq(Nat \ {0})
  BY <1>3, <1>8, <1>9 DEF SplitSizes
<1>11. DOMAIN SplitSizes(l, a) = DOMAIN SplitAxes(l, a)
  BY DEF SplitSizes
<1>12. Len(SplitSizes(l, a)) = N /\ Len(SplitAxes(l, a)) = N
  BY <1>3, <1>5, <1>8, <1>10, <1>11
<1> QED
  BY <1>7, <1>10, <1>12, ProductType DEF Count

(* Every dimension is cut into equal parts.                                *)
IsEven(l) == IsLayout(l) /\ \A a \in 1 .. Rank(l) : l.dims[a] % Count(l, a) = 0

LEMMA ShardType ==
  ASSUME NEW l, IsEven(l)
  PROVE  /\ \A a \in 1 .. Rank(l) : ShardDim(l, a) \in Nat \ {0}
         /\ ShardBytes(l) \in Nat \ {0} /\ ShardBytes(l) <= TotalBytes(l)
<1>1. \A d \in Nat \ {0}, m \in Nat \ {0} : d % m = 0 => d \div m \in Nat \ {0} /\ d \div m <= d
  BY Z3
<1>2. \A m, n \in Nat \ {0} : m * n \in Nat \ {0}
  BY Z3
<1>9. \A a \in 1 .. Rank(l) : ShardDim(l, a) \in Nat \ {0} /\ ShardDim(l, a) <= l.dims[a]
  <2> TAKE a \in 1 .. Rank(l)
  <2>1. l.dims[a] \in Nat \ {0} /\ Count(l, a) \in Nat \ {0} /\ l.dims[a] % Count(l, a) = 0
    BY LayoutParts, SplitType DEF IsEven
  <2> QED
    BY <1>1, <2>1 DEF ShardDim
<1>3. \A a \in 1 .. Rank(l) : ShardDim(l, a) \in Nat \ {0}
  BY <1>9
<1>4. [a \in 1 .. Rank(l) |-> ShardDim(l, a)] \in Seq(Nat \ {0})
  BY <1>3, LayoutParts DEF IsEven
<1>5. Product([a \in 1 .. Rank(l) |-> ShardDim(l, a)]) \in Nat \ {0}
  BY <1>4, ProductType
<1>6. Product([a \in 1 .. Rank(l) |-> ShardDim(l, a)]) <= Product(l.dims) /\ Product(l.dims) \in Nat \ {0}
  <2> DEFINE part == [a \in 1 .. Rank(l) |-> ShardDim(l, a)]
  <2>1. l.dims \in Seq(Nat \ {0}) /\ Len(l.dims) = Rank(l) /\ Rank(l) \in Nat
    BY LayoutParts DEF IsEven, IsLayout, Rank
  <2>2. Len(part) = Rank(l) /\ \A a \in 1 .. Rank(l) : part[a] <= l.dims[a]
    BY <1>9, <2>1
  <2> HIDE DEF part
  <2> QED
    BY <1>4, <2>1, <2>2, ProductMonotonic, ProductType DEF part
<1>7. \A a, b, c \in Nat : a <= b => a * c <= b * c
  BY Z3
<1>8. l.elem \in Nat \ {0}
  BY LayoutParts DEF IsEven
<1> QED
  BY <1>2, <1>3, <1>5, <1>6, <1>7, <1>8 DEF ShardBytes, TotalBytes

(* The index of a part has the coordinates of the mesh as its digits.      *)
Coords(l, w, a) == [k \in DOMAIN SplitAxes(l, a) |-> Coord(l, w, SplitAxes(l, a)[k])]

LEMMA IndexRun ==
  ASSUME NEW l, IsLayout(l), NEW a \in 1 .. Rank(l), NEW w \in Writers(l)
  PROVE  \E h : /\ IsHorner(Len(SplitAxes(l, a)), SplitSizes(l, a), Coords(l, w, a), h)
               /\ LinearIndex(l, w, a) = h[Len(SplitAxes(l, a))]
<1> DEFINE axes == SplitAxes(l, a)
           N == Len(axes)
           p == CHOOSE h : h = [n \in 0 .. N |-> IF n = 0 THEN 0
                                 ELSE h[n - 1] * l.mesh[axes[n]] + Coord(l, w, axes[n])]
<1>0. axes \in Seq(DOMAIN l.mesh) /\ N \in Nat /\ \A n \in 1 .. N : axes[n] \in DOMAIN l.mesh
  BY SplitType
<1>1. \A n \in 1 .. N : l.mesh[axes[n]] \in Nat /\ Coord(l, w, axes[n]) \in Nat
  BY <1>0, LayoutParts, CoordType
<1>2. LinearIndex(l, w, a) = p[N]
  BY DEF LinearIndex
<1>3. \A x, y, z \in Nat : x * y + z \in Nat
  BY Z3
<1> HIDE DEF axes
<1>4. \E h : h = [n \in 0 .. N |-> IF n = 0 THEN 0
                    ELSE h[n - 1] * l.mesh[axes[n]] + Coord(l, w, axes[n])]
  <2> DEFINE step == [n \in 1 .. N |-> [v \in Nat |-> v * l.mesh[axes[n]] + Coord(l, w, axes[n])]]
  <2>0. 0 \in Nat /\ \A n \in 1 .. N, v \in Nat : v * l.mesh[axes[n]] + Coord(l, w, axes[n]) \in Nat
    BY <1>1, <1>3
  <2>1. step \in [1 .. N -> [Nat -> Nat]]
    BY <2>0, Zenon
  <2>6. \E h : IsRun(h, N, Nat, 0, step)
    BY <1>0, <2>0, <2>1, StepsExist
  <2>2. PICK h : h \in [0 .. N -> Nat] /\ h[0] = 0 /\ \A n \in 1 .. N : h[n] = step[n][h[n - 1]]
    BY <2>6 DEF IsRun
  <2>3. ASSUME NEW n \in 1 .. N PROVE h[n] = h[n - 1] * l.mesh[axes[n]] + Coord(l, w, axes[n])
    <3>1. h[n - 1] \in Nat
      <4>1. n - 1 \in 0 .. N
        BY <1>0
      <4>2. h \in [0 .. N -> Nat]
        BY <2>2
      <4> HIDE DEF step, N
      <4> QED
        BY <4>1, <4>2
    <3> QED
      BY <2>2, <3>1
  <2>4. \A n \in 0 .. N : h[n] = IF n = 0 THEN 0 ELSE h[n - 1] * l.mesh[axes[n]] + Coord(l, w, axes[n])
    BY <1>0, <2>2, <2>3
  <2>5. h = [n \in 0 .. N |-> IF n = 0 THEN 0 ELSE h[n - 1] * l.mesh[axes[n]] + Coord(l, w, axes[n])]
    BY <2>2, <2>4
  <2> QED
    BY <2>5
<1>5. p = [n \in 0 .. N |-> IF n = 0 THEN 0 ELSE p[n - 1] * l.mesh[axes[n]] + Coord(l, w, axes[n])]
  BY <1>4
<1> HIDE DEF p
<1> DEFINE S == {n \in 0 .. N : p[n] \in Nat}
<1>6. 0 \in S
  BY <1>0, <1>5
<1>7. ASSUME NEW n \in 0 .. N - 1, n \in S PROVE n + 1 \in S
  <2>1. n + 1 \in 1 .. N /\ n + 1 \in 0 .. N /\ p[n] \in Nat
    BY <1>0, <1>7
  <2>2. p[n + 1] = p[n] * l.mesh[axes[n + 1]] + Coord(l, w, axes[n + 1])
    BY <1>5, <2>1
  <2>3. l.mesh[axes[n + 1]] \in Nat /\ Coord(l, w, axes[n + 1]) \in Nat
    BY <1>1, <2>1, Zenon
  <2>4. p[n + 1] \in Nat
    BY <1>3, <2>1, <2>2, <2>3, Zenon
  <2> QED
    BY <2>1, <2>4, Zenon
<1> HIDE DEF S
<1>8. 0 .. N \subseteq S
  BY <1>0, <1>6, <1>7, InductionUpTo
<1>9. \A n \in 0 .. N : p[n] \in Nat
  BY <1>8 DEF S
<1>10. DOMAIN SplitAxes(l, a) = 1 .. N /\ axes = SplitAxes(l, a)
  BY <1>0 DEF axes
<1>11. \A n \in 1 .. N : SplitSizes(l, a)[n] = l.mesh[axes[n]] /\ Coords(l, w, a)[n] = Coord(l, w, axes[n])
  BY <1>10 DEF SplitSizes, Coords
<1>12. p[0] = 0 /\ \A n \in 1 .. N : p[n] = p[n - 1] * l.mesh[axes[n]] + Coord(l, w, axes[n])
  BY <1>0, <1>5
<1>13. IsHorner(N, SplitSizes(l, a), Coords(l, w, a), p)
  BY <1>9, <1>11, <1>12 DEF IsHorner
<1> QED
  BY <1>2, <1>13 DEF axes

LEMMA SplitRadix ==
  ASSUME NEW l, IsLayout(l), NEW a \in 1 .. Rank(l)
  PROVE  LET N == Len(SplitAxes(l, a))
             W == Weights(SplitSizes(l, a), 1)
         IN /\ IsRadix(N, SplitSizes(l, a), W) /\ W[0] = Count(l, a) /\ W[N] = 1
            /\ \A w \in Writers(l) : AreDigits(N, SplitSizes(l, a), Coords(l, w, a))
<1> DEFINE N == Len(SplitAxes(l, a))
           s == SplitSizes(l, a)
<1>1. /\ s \in Seq(Nat \ {0}) /\ Len(s) = N /\ Product(s) \in Nat /\ N \in Nat
      /\ DOMAIN SplitAxes(l, a) = 1 .. N /\ \A k \in 1 .. N : SplitAxes(l, a)[k] \in DOMAIN l.mesh
  BY SplitType DEF Count
<1>2. IsRadix(N, s, Weights(s, 1)) /\ Weights(s, 1)[0] = Product(s) * 1 /\ Weights(s, 1)[N] = 1
  <2>1. 1 \in Nat \ {0}
    OBVIOUS
  <2> HIDE DEF s
  <2> QED
    BY <1>1, <2>1, WeightsRight
<1>3. Product(s) * 1 = Count(l, a)
  BY <1>1 DEF Count
<1>4. ASSUME NEW w \in Writers(l), NEW k \in 1 .. N PROVE Coords(l, w, a)[k] \in 0 .. s[k] - 1
  <2>1. Coords(l, w, a)[k] = Coord(l, w, SplitAxes(l, a)[k]) /\ s[k] = l.mesh[SplitAxes(l, a)[k]]
    BY <1>1 DEF Coords, SplitSizes
  <2> QED
    BY <1>1, <2>1, CoordType
<1> QED
  BY <1>2, <1>3, <1>4 DEF AreDigits

(* There are as many indexes as there are parts.                           *)
LEMMA IndexType ==
  ASSUME NEW l, IsLayout(l), NEW a \in 1 .. Rank(l), NEW w \in Writers(l)
  PROVE  LinearIndex(l, w, a) \in Nat /\ LinearIndex(l, w, a) < Count(l, a)
<1> DEFINE N == Len(SplitAxes(l, a))
           m == SplitSizes(l, a)
           W == Weights(m, 1)
           x == Coords(l, w, a)
<1>1. PICK h : IsHorner(N, m, x, h) /\ LinearIndex(l, w, a) = h[N]
  BY IndexRun
<1>2. IsRadix(N, m, W) /\ W[0] = Count(l, a) /\ W[N] = 1 /\ AreDigits(N, m, x)
  BY SplitRadix
<1> HIDE DEF N, m, W, x
<1>3. h[N] \in Nat
  BY <1>1, <1>2 DEF IsHorner, IsRadix
<1>4. h[N] \div W[N] = h[N]
  BY <1>2, <1>3
<1>5. h[N] < W[0]
  BY <1>1, <1>2, <1>3, <1>4, HornerDigits
<1> QED
  BY <1>1, <1>2, <1>3, <1>5

-----------------------------------------------------------------------------
(* The spans                                                               *)

LEMMA GreatestNumber ==
  ASSUME NEW N \in Nat, NEW T \in SUBSET (0 .. N), T # {}
  PROVE  Max(T) \in T /\ \A y \in T : y <= Max(T)
<1> DEFINE D == {k \in 0 .. N : N - k \in T}
<1>1. D \in SUBSET Nat /\ D # {}
  <2>1. PICK t \in T : TRUE
    OBVIOUS
  <2>2. N - t \in 0 .. N /\ N - (N - t) = t
    BY <2>1
  <2> QED
    BY <2>2
<1>2. PICK k \in D : \A y \in D : k <= y
  BY <1>1, LeastNumber
<1>3. N - k \in T
  BY <1>2
<1>4. ASSUME NEW y \in T PROVE N - k >= y
  <2>1. N - y \in D
    <3>1. y \in 0 .. N /\ N - (N - y) = y
      OBVIOUS
    <3> QED
      BY <3>1
  <2>2. k <= N - y /\ k \in Nat /\ y \in Nat
    BY <1>2, <2>1
  <2> QED
    BY <2>2
<1>5. \E x \in T : \A y \in T : x >= y
  BY <1>3, <1>4
<1>6. Max(T) \in T /\ \A y \in T : Max(T) >= y
  BY <1>5, Zenon DEF Max
<1>7. \A y \in T : y \in Int
  OBVIOUS
<1>8. \A x, y \in Int : x >= y => y <= x
  OBVIOUS
<1> QED
  BY <1>6, <1>7, <1>8, Zenon

LEMMA SpanLenType ==
  ASSUME NEW l, IsEven(l)
  PROVE  /\ SpanLen(l) \in Nat \ {0}
         /\ Rank(l) # 0 => ContiguousAxis(l) \in 1 .. Rank(l)
<1>0. IsLayout(l)
  BY DEF IsEven
<1>1. Rank(l) \in Nat /\ l.elem \in Nat \ {0}
  BY <1>0, LayoutParts
<1>2. ASSUME Rank(l) # 0 PROVE ContiguousAxis(l) \in 1 .. Rank(l)
  <2> DEFINE T == {1} \cup {a \in 2 .. Rank(l) : ShardDim(l, a) # l.dims[a]}
  <2>1. T \in SUBSET (0 .. Rank(l)) /\ T # {} /\ T \subseteq 1 .. Rank(l)
    BY <1>1, <1>2
  <2>2. ContiguousAxis(l) = Max(T)
    BY DEF ContiguousAxis
  <2> HIDE DEF T
  <2>3. Max(T) \in T
    BY <1>1, <2>1, GreatestNumber
  <2> QED
    BY <2>1, <2>2, <2>3
<1>3. \A m, n \in Nat \ {0} : m * n \in Nat \ {0}
  BY Z3
<1>4. CASE Rank(l) = 0
  BY <1>1, <1>4 DEF SpanLen
<1>5. CASE Rank(l) # 0
  <2>1. ShardDim(l, ContiguousAxis(l)) \in Nat \ {0} /\ ByteStride(l, ContiguousAxis(l)) \in Nat \ {0}
    BY <1>0, <1>2, <1>5, ShardType, StrideType
  <2> QED
    BY <1>2, <1>3, <1>5, <2>1 DEF SpanLen
<1> QED
  BY <1>2, <1>4, <1>5

(* A writer's spans begin at finitely many bytes.                          *)
LEMMA StartsType ==
  ASSUME NEW l, IsEven(l), NEW w \in Writers(l)
  PROVE  SpanStarts(l, w) \in SUBSET Nat /\ IsFiniteSet(SpanStarts(l, w))
<1>0. IsLayout(l)
  BY DEF IsEven
<1>1. CASE Rank(l) = 0
  <2>1. SpanStarts(l, w) = {0}
    BY <1>1 DEF SpanStarts
  <2>2. \A x \in {0} : x <= 0
    OBVIOUS
  <2> QED
    BY <2>1, <2>2, FS_BoundedSetOfNaturals
<1>2. CASE Rank(l) # 0
  <2> DEFINE c == ContiguousAxis(l)
             outer == {i \in [1 .. c - 1 -> 0 .. Max(Range(l.dims)) - 1] :
                         \A a \in 1 .. c - 1 : i[a] < ShardDim(l, a)}
             index(i, a) == SliceStart(l, w, a) + IF a < c THEN i[a] ELSE 0
             terms(i) == [a \in 1 .. c |-> index(i, a) * ByteStride(l, a)]
             most == [a \in 1 .. c |-> (SliceStart(l, w, a) + ShardDim(l, a)) * ByteStride(l, a)]
  <2>1. SpanStarts(l, w) = {SumOf(terms(i)) : i \in outer}
    BY <1>2 DEF SpanStarts
  <2>2. c \in 1 .. Rank(l) /\ Rank(l) \in Nat
    BY <1>0, <1>2, SpanLenType, LayoutParts
  <2>3. \A x, y \in Nat : x + y \in Nat /\ x * y \in Nat
    BY Z3
  <2>4. \A x, y, z \in Nat : x <= y => x * z <= y * z
    BY Z3
  <2>5. \A a \in 1 .. c : /\ SliceStart(l, w, a) \in Nat /\ ShardDim(l, a) \in Nat /\ ByteStride(l, a) \in Nat
    <3> TAKE a \in 1 .. c
    <3>1. a \in 1 .. Rank(l)
      BY <2>2
    <3>2. LinearIndex(l, w, a) \in Nat /\ ShardDim(l, a) \in Nat /\ ByteStride(l, a) \in Nat
      BY <1>0, <3>1, IndexType, ShardType, StrideType
    <3> QED
      BY <2>3, <3>2 DEF SliceStart
  <2>6. most \in Seq(Nat) /\ Len(most) = c
    <3>1. \A a \in 1 .. c : (SliceStart(l, w, a) + ShardDim(l, a)) * ByteStride(l, a) \in Nat
      BY <2>3, <2>5
    <3> HIDE DEF c
    <3> QED
      BY <2>2, <3>1
  <2>7. ASSUME NEW i \in outer
        PROVE  /\ terms(i) \in Seq(Nat) /\ Len(terms(i)) = c
               /\ \A a \in 1 .. c : terms(i)[a] <= most[a]
    <3>1. ASSUME NEW a \in 1 .. c
          PROVE  index(i, a) \in Nat /\ index(i, a) <= SliceStart(l, w, a) + ShardDim(l, a)
      <4>1. CASE a < c
        <5>1. a \in 1 .. c - 1
          BY <2>2, <4>1
        <5>2. i[a] \in Nat /\ i[a] < ShardDim(l, a)
          BY <5>1
        <5> QED
          BY <2>5, <4>1, <5>2
      <4>2. CASE ~(a < c)
        BY <2>5, <4>2
      <4> QED
        BY <4>1, <4>2
    <3>2. \A a \in 1 .. c : index(i, a) * ByteStride(l, a) \in Nat
      BY <2>3, <2>5, <3>1
    <3>3. \A a \in 1 .. c : index(i, a) * ByteStride(l, a) <= (SliceStart(l, w, a) + ShardDim(l, a)) * ByteStride(l, a)
      BY <2>3, <2>4, <2>5, <3>1
    <3> HIDE DEF c, index
    <3> QED
      BY <2>2, <3>2, <3>3
  <2> HIDE DEF c, outer, terms, most
  <2>8. \A i \in outer : SumOf(terms(i)) \in Nat /\ SumOf(terms(i)) <= SumOf(most)
    BY <2>2, <2>6, <2>7, SumType, SumMonotonic
  <2>9. SumOf(most) \in Nat
    BY <2>6, SumType
  <2>10. SpanStarts(l, w) \in SUBSET Nat /\ \A x \in SpanStarts(l, w) : x <= SumOf(most)
    BY <2>1, <2>8
  <2> QED
    BY <2>9, <2>10, FS_BoundedSetOfNaturals
<1> QED
  BY <1>1, <1>2

LEMMA AllStartsType ==
  ASSUME NEW l, IsEven(l)
  PROVE  /\ UNION {SpanStarts(l, w) : w \in Writers(l)} \in SUBSET Nat
         /\ IsFiniteSet(UNION {SpanStarts(l, w) : w \in Writers(l)})
<1> DEFINE N == Product(l.mesh)
           U(n) == UNION {SpanStarts(l, w) : w \in 1 .. n}
           S == {n \in 0 .. N : IsFiniteSet(U(n))}
<1>0. N \in Nat /\ Writers(l) = 1 .. N
  BY StrideType DEF IsEven
<1>1. 0 \in S
  <2>1. U(0) = {}
    OBVIOUS
  <2> QED
    BY <1>0, <2>1, FS_EmptySet
<1>2. ASSUME NEW n \in 0 .. N - 1, n \in S PROVE n + 1 \in S
  <2>1. n + 1 \in 0 .. N /\ n + 1 \in 1 .. N
    BY <1>0
  <2>2. U(n + 1) = U(n) \cup SpanStarts(l, n + 1)
    <3>1. 1 .. n + 1 = (1 .. n) \cup {n + 1}
      BY <1>0
    <3> QED
      BY <3>1
  <2>3. IsFiniteSet(SpanStarts(l, n + 1))
    BY <1>0, <2>1, StartsType
  <2>4. IsFiniteSet(U(n + 1))
    BY <1>2, <2>2, <2>3, FS_Union
  <2> QED
    BY <2>1, <2>4
<1> HIDE DEF S
<1>3. 0 .. N \subseteq S
  BY <1>0, <1>1, <1>2, InductionUpTo
<1>4. N \in S
  BY <1>0, <1>3
<1>5. IsFiniteSet(U(N))
  BY <1>4 DEF S
<1>6. \A w \in Writers(l) : SpanStarts(l, w) \subseteq Nat
  BY StartsType
<1> QED
  BY <1>0, <1>5, <1>6

(* The routing table: spans of one length, each for a first writer and for *)
(* mirrors, none of them twice.                                            *)
LEMMA PlanType ==
  ASSUME NEW l, IsEven(l)
  PROVE  /\ Len(DispatchSpans(l)) \in Nat /\ DOMAIN DispatchSpans(l) = 1 .. Len(DispatchSpans(l))
         /\ \A i \in 1 .. Len(DispatchSpans(l)) :
              LET span == DispatchSpans(l)[i] IN
              /\ span.start \in Nat /\ span.end = span.start + SpanLen(l)
              /\ span.primary_writer \in Writers(l)
              /\ span.mirror_writers \in Seq(Writers(l))
              /\ \A j \in 1 .. Len(span.mirror_writers) : span.mirror_writers[j] # span.primary_writer
              /\ \A j, k \in 1 .. Len(span.mirror_writers) :
                   span.mirror_writers[j] = span.mirror_writers[k] => j = k
<1> DEFINE U == UNION {SpanStarts(l, w) : w \in Writers(l)}
           N == Cardinality(U)
<1>1. U \in SUBSET Nat /\ IsFiniteSet(U)
  BY AllStartsType
<1> HIDE DEF U
<1>2. Sorted(U) \in Seq(U) /\ Len(Sorted(U)) = N /\ N \in Nat /\ \A i \in 1 .. N : Sorted(U)[i] \in U
  BY <1>1, SortedRight
<1>3. DispatchSpans(l) = [i \in 1 .. Len(Sorted(U)) |-> SpanOf(l, Sorted(U)[i])]
  BY Zenon DEF DispatchSpans, U
<1>4. /\ Len(DispatchSpans(l)) = N /\ DOMAIN DispatchSpans(l) = 1 .. N
      /\ \A i \in 1 .. N : DispatchSpans(l)[i] = SpanOf(l, Sorted(U)[i])
  BY <1>2, <1>3
<1>5. ASSUME NEW s \in U
      PROVE  LET span == SpanOf(l, s) IN
             /\ span.start \in Nat /\ span.end = span.start + SpanLen(l)
             /\ span.primary_writer \in Writers(l)
             /\ span.mirror_writers \in Seq(Writers(l))
             /\ \A j \in 1 .. Len(span.mirror_writers) : span.mirror_writers[j] # span.primary_writer
             /\ \A j, k \in 1 .. Len(span.mirror_writers) :
                  span.mirror_writers[j] = span.mirror_writers[k] => j = k
  <2> DEFINE T == {w \in Writers(l) : s \in SpanStarts(l, w)}
             ws == Sorted(T)
             m == Tail(ws)
  <2>1. T # {} /\ T \in SUBSET Nat /\ T \subseteq Writers(l)
    <3>1. Writers(l) \subseteq Nat
      BY StrideType DEF IsEven
    <3> QED
      BY <3>1 DEF U
  <2>2. IsFiniteSet(T)
    <3>1. IsFiniteSet(Writers(l))
      BY StrideType, FS_Interval DEF IsEven
    <3> QED
      BY <2>1, <3>1, FS_Subset
  <2>3. SpanOf(l, s) = [start |-> s, end |-> s + SpanLen(l), primary_writer |-> ws[1], mirror_writers |-> m]
    BY Zenon DEF SpanOf
  <2> HIDE DEF T
  <2>4. /\ ws \in Seq(T) /\ Len(ws) = Cardinality(T) /\ Cardinality(T) \in Nat
        /\ \A i, j \in 1 .. Len(ws) : ws[i] = ws[j] => i = j
    BY <2>1, <2>2, SortedRight
  <2>5. Len(ws) # 0
    BY <2>1, <2>2, <2>4, FS_EmptySet
  <2> HIDE DEF ws
  <2>6. ws[1] \in T /\ m \in Seq(T) /\ Len(m) = Len(ws) - 1
        /\ \A j \in 1 .. Len(m) : m[j] = ws[j + 1] /\ j + 1 \in 1 .. Len(ws)
    BY <2>4, <2>5
  <2>7. \A j \in 1 .. Len(m) : m[j] # ws[1]
    <3> TAKE j \in 1 .. Len(m)
    <3>1. m[j] = ws[j + 1] /\ j + 1 \in 1 .. Len(ws) /\ 1 \in 1 .. Len(ws) /\ j + 1 # 1
      BY <2>4, <2>6
    <3> QED
      BY <2>4, <3>1
  <2>8. \A j, k \in 1 .. Len(m) : m[j] = m[k] => j = k
    <3> TAKE j, k \in 1 .. Len(m)
    <3>1. m[j] = ws[j + 1] /\ j + 1 \in 1 .. Len(ws) /\ m[k] = ws[k + 1] /\ k + 1 \in 1 .. Len(ws)
      BY <2>6
    <3>2. j \in Int /\ k \in Int /\ (j + 1 = k + 1 => j = k)
      OBVIOUS
    <3> QED
      BY <2>4, <3>1, <3>2
  <2>9. s \in Nat
    BY <1>1
  <2>10. m \in Seq(Writers(l)) /\ ws[1] \in Writers(l)
    BY <2>1, <2>6, SeqMonotonic
  <2> HIDE DEF m
  <2> QED
    BY <2>3, <2>7, <2>8, <2>9, <2>10
<1> QED
  BY <1>2, <1>4, <1>5

-----------------------------------------------------------------------------
(* What a writer owns                                                      *)

LEMMA InPart ==
  ASSUME NEW x \in Nat, NEW m \in Nat \ {0}, NEW q \in Nat
  PROVE  x \div m = q <=> q * m <= x /\ x < q * m + m
<1>1. ASSUME x \div m = q PROVE q * m <= x /\ x < q * m + m
  <2>1. (x \div m) * m <= x /\ x < (x \div m) * m + m
    BY Division
  <2> QED
    BY <1>1, <2>1
<1>2. ASSUME q * m <= x, x < q * m + m PROVE x \div m = q
  BY <1>2, QuotientIs
<1> QED
  BY <1>1, <1>2

LEMMA AfterMap ==
  ASSUME NEW V, NEW s \in Seq(V), NEW k \in 0 .. Len(s)
  PROVE  After(s, k) = [j \in 1 .. Len(s) - k |-> s[k + j]]
<1>1. Len(s) \in Nat /\ Len(s) - k \in Nat
  OBVIOUS
<1>2. /\ After(s, k) \in Seq(V) /\ Len(After(s, k)) = Len(s) - k
      /\ \A j \in 1 .. Len(s) - k : After(s, k)[j] = s[k + j]
  BY AfterIs
<1> DEFINE t == After(s, k)
           n == Len(s) - k
<1>3. t \in [1 .. n -> V] /\ n \in Nat
  <2>1. t \in Seq(V) /\ Len(t) = n /\ n \in Nat
    BY <1>1, <1>2
  <2> HIDE DEF t, n
  <2> QED
    BY <2>1
<1>4. t = [j \in 1 .. n |-> t[j]]
  BY <1>3, Zenon
<1>5. [j \in 1 .. n |-> t[j]] = [j \in 1 .. n |-> s[k + j]]
  BY <1>2, Zenon
<1> QED
  BY <1>4, <1>5

(* The sum the reference computes is the index of the part.                *)
LEMMA PartNumber ==
  ASSUME NEW l, IsLayout(l), NEW a \in 1 .. Rank(l), NEW w \in Writers(l)
  PROVE  LET part == SplitAxes(l, a)
             digit(k) == Coord(l, w, part[k]) * Product([j \in 1 .. Len(part) - k |-> l.mesh[part[k + j]]])
         IN SumOf([k \in DOMAIN part |-> digit(k)]) = LinearIndex(l, w, a)
<1> DEFINE part == SplitAxes(l, a)
           N == Len(part)
           m == SplitSizes(l, a)
           W == Weights(m, 1)
           x == Coords(l, w, a)
           digit(k) == Coord(l, w, part[k]) * Product([j \in 1 .. N - k |-> l.mesh[part[k + j]]])
<1>1. /\ m \in Seq(Nat \ {0}) /\ Len(m) = N /\ N \in Nat /\ DOMAIN part = 1 .. N
      /\ \A k \in 1 .. N : m[k] = l.mesh[part[k]] /\ x[k] = Coord(l, w, part[k]) /\ m[k] \in Nat \ {0}
  <2>1. m \in Seq(Nat \ {0}) /\ Len(m) = N /\ N \in Nat /\ DOMAIN part = 1 .. N
    BY SplitType
  <2>2. \A k \in 1 .. N : m[k] = l.mesh[part[k]] /\ x[k] = Coord(l, w, part[k])
    BY <2>1 DEF SplitSizes, Coords
  <2> HIDE DEF m, N, part, x
  <2>3. \A k \in 1 .. N : m[k] \in Nat \ {0}
    BY <2>1
  <2> QED
    BY <2>1, <2>2, <2>3
<1>2. IsRadix(N, m, W) /\ W[N] = 1 /\ AreDigits(N, m, x)
  BY SplitRadix
<1>3. PICK h : IsHorner(N, m, x, h) /\ LinearIndex(l, w, a) = h[N]
  BY IndexRun
<1>4. ASSUME NEW k \in 1 .. N PROVE digit(k) = x[k] * W[k]
  <2> DEFINE u == [j \in 1 .. N - k |-> l.mesh[part[k + j]]]
  <2> HIDE DEF m, N, part, x
  <2>1. k \in 0 .. Len(m)
    BY <1>1
  <2>2. After(m, k) \in Seq(Nat \ {0}) /\ After(m, k) = [j \in 1 .. Len(m) - k |-> m[k + j]]
    <3>1. m \in Seq(Nat \ {0})
      BY <1>1
    <3> HIDE DEF W, u, digit
    <3> QED
      BY <2>1, <3>1, AfterIs, AfterMap, Zenon
  <2>3. \A j \in 1 .. N - k : k + j \in 1 .. N
    BY <1>1
  <2>4. \A j \in 1 .. N - k : m[k + j] = l.mesh[part[k + j]]
    BY <1>1, <2>3
  <2>5. Len(m) - k = N - k
    BY <1>1
  <2>6. u = After(m, k)
    BY <2>2, <2>4, <2>5, Zenon
  <2> HIDE DEF u
  <2>7. Product(After(m, k)) \in Nat
    BY <2>2, ProductType
  <2>8. W[k] = Product(After(m, k)) * 1
    BY <2>1 DEF Weights
  <2>9. W[k] = Product(u)
    BY <2>6, <2>7, <2>8
  <2>10. x[k] = Coord(l, w, part[k])
    BY <1>1
  <2> HIDE DEF W
  <2> QED
    BY <2>9, <2>10, Zenon DEF u
<1> HIDE DEF W, digit
<1>5. [k \in DOMAIN part |-> digit(k)] = [k \in 1 .. N |-> x[k] * W[k]]
  BY <1>1, <1>4, Zenon
<1> HIDE DEF m, N, x
<1>6. \A k \in 1 .. N : x[k] \in Nat
  BY <1>1, <1>2 DEF AreDigits
<1>7. SumOf([k \in 1 .. N |-> x[k] * W[k]]) = h[N] * W[N]
  BY <1>2, <1>3, <1>6, HornerSum
<1>8. h[N] \in Nat /\ h[N] * W[N] = h[N]
  <2>1. h[N] \in Nat
    BY <1>1, <1>3 DEF IsHorner
  <2> QED
    BY <1>2, <2>1
<1>9. SumOf([k \in DOMAIN part |-> digit(k)]) = LinearIndex(l, w, a)
  BY <1>3, <1>5, <1>7, <1>8
<1> QED
  BY <1>9, Zenon DEF digit, N

(* A writer owns a byte if its index in every dimension is in the part the *)
(* writer has of it.                                                       *)
LEMMA OwnsIs ==
  ASSUME NEW l, IsLayout(l), NEW w \in Writers(l), NEW o
  PROVE  Owns(l, w, o) <=>
           \A a \in 1 .. Rank(l) : IndexOf(l, o, a) \div ShardDim(l, a) = LinearIndex(l, w, a)
BY PartNumber, Zenon DEF Owns

(* The weights of the dimensions are their strides.                        *)
Strides(l) == Weights(l.dims, l.elem)

LEMMA StridesRight ==
  ASSUME NEW l, IsLayout(l)
  PROVE  /\ IsRadix(Rank(l), l.dims, Strides(l))
         /\ Strides(l)[0] = TotalBytes(l) /\ Strides(l)[Rank(l)] = l.elem
         /\ \A a \in 1 .. Rank(l) : Strides(l)[a] = ByteStride(l, a)
<1>1. l.dims \in Seq(Nat \ {0}) /\ Len(l.dims) = Rank(l) /\ l.elem \in Nat \ {0} /\ Rank(l) \in Nat
  BY LayoutParts DEF IsLayout, Rank
<1>2. \A a \in 1 .. Rank(l) : a \in 0 .. Len(l.dims)
  BY <1>1
<1>3. \A a \in 1 .. Rank(l) : Strides(l)[a] = ByteStride(l, a)
  BY <1>2 DEF Strides, Weights, ByteStride
<1> QED
  BY <1>1, <1>3, WeightsRight DEF Strides, TotalBytes

(* Every dimension is as many shards as there are parts of it.             *)
LEMMA PartsFill ==
  ASSUME NEW l, IsEven(l), NEW a \in 1 .. Rank(l)
  PROVE  /\ l.dims[a] \in Nat \ {0} /\ Count(l, a) \in Nat \ {0} /\ ShardDim(l, a) \in Nat \ {0}
         /\ l.dims[a] = Count(l, a) * ShardDim(l, a)
         /\ \A q \in Nat : q < Count(l, a) =>
              q * ShardDim(l, a) \in Nat /\ q * ShardDim(l, a) + ShardDim(l, a) <= l.dims[a]
<1> DEFINE d == l.dims[a]
           n == Count(l, a)
           s == ShardDim(l, a)
<1>1. d \in Nat \ {0} /\ n \in Nat \ {0} /\ s \in Nat \ {0} /\ d % n = 0 /\ s = d \div n
  BY LayoutParts, SplitType, ShardType DEF IsEven, ShardDim
<1> HIDE DEF d, n, s
<1>2. d = (d \div n) * n + (d % n)
  BY <1>1, Division
<1>3. d = n * s
  <2>1. \A i, j \in Nat : i * j = j * i /\ i * j \in Nat
    BY Z3
  <2>2. d = s * n + 0 /\ s * n = n * s /\ s * n \in Nat
    BY <1>1, <1>2, <2>1
  <2> QED
    BY <2>2
<1>4. ASSUME NEW q \in Nat, q < n PROVE q * s \in Nat /\ q * s + s <= d
  <2>1. \A i, j, k \in Nat : i < j => i * k \in Nat /\ i * k + k <= j * k
    BY Z3
  <2> QED
    BY <1>1, <1>3, <1>4, <2>1
<1> QED
  BY <1>1, <1>3, <1>4 DEF d, n, s

LEMMA IndexOfType ==
  ASSUME NEW l, IsLayout(l), NEW o \in Nat, NEW a \in 1 .. Rank(l)
  PROVE  /\ IndexOf(l, o, a) \in 0 .. l.dims[a] - 1
         /\ IndexOf(l, o, a) = (o \div Strides(l)[a]) % l.dims[a]
<1>1. IndexOf(l, o, a) = (o \div Strides(l)[a]) % l.dims[a]
  BY StridesRight DEF IndexOf
<1>2. (o \div Strides(l)[a]) % l.dims[a] \in 0 .. l.dims[a] - 1
  BY StridesRight, RadixStep
<1> QED
  BY <1>1, <1>2

(* No axis of the mesh splits a dimension twice, nor two dimensions.       *)
LEMMA SplitOnce ==
  ASSUME NEW l, IsLayout(l), NEW a \in 1 .. Rank(l), NEW b \in 1 .. Rank(l),
         NEW i \in DOMAIN SplitAxes(l, a), NEW j \in DOMAIN SplitAxes(l, b),
         SplitAxes(l, a)[i] = SplitAxes(l, b)[j]
  PROVE  a = b /\ i = j
<1> DEFINE K(c) == {k \in DOMAIN l.bind[c] : Unused(l, c, k)}
           F(c) == Sorted(K(c))
<1>1. ASSUME NEW c \in 1 .. Rank(l)
      PROVE  /\ DOMAIN SplitAxes(l, c) = DOMAIN F(c)
             /\ \A k \in DOMAIN F(c) : F(c)[k] \in K(c) /\ SplitAxes(l, c)[k] = l.bind[c][F(c)[k]]
             /\ \A k, n \in DOMAIN F(c) : F(c)[k] = F(c)[n] => k = n
             /\ K(c) \subseteq Nat /\ DOMAIN l.bind[c] \subseteq Nat \ {0}
  <2>1. Len(l.bind[c]) \in Nat /\ DOMAIN l.bind[c] = 1 .. Len(l.bind[c])
    BY LayoutParts
  <2>2. K(c) \in SUBSET Nat /\ IsFiniteSet(K(c))
    <3>1. IsFiniteSet(1 .. Len(l.bind[c]))
      BY <2>1, FS_Interval
    <3> QED
      BY <2>1, <3>1, FS_Subset
  <2>3. SplitAxes(l, c) = [k \in DOMAIN F(c) |-> l.bind[c][F(c)[k]]]
    BY Zenon DEF SplitAxes
  <2> HIDE DEF K
  <2>4. F(c) \in Seq(K(c)) /\ Len(F(c)) = Cardinality(K(c)) /\ Cardinality(K(c)) \in Nat
        /\ (\A k \in 1 .. Cardinality(K(c)) : F(c)[k] \in K(c))
        /\ (\A k, n \in 1 .. Cardinality(K(c)) : F(c)[k] = F(c)[n] => k = n)
    BY <2>2, SortedRight
  <2>5. DOMAIN F(c) = 1 .. Cardinality(K(c))
    BY <2>4
  <2> QED
    BY <2>1, <2>2, <2>3, <2>4, <2>5
<1>2. ASSUME NEW c \in 1 .. Rank(l), NEW k \in K(c), NEW e \in 1 .. Rank(l), NEW n \in K(e),
             c < e, l.bind[c][k] = l.bind[e][n]
      PROVE  FALSE
  <2>1. c \in 1 .. e - 1
    BY <1>2
  <2>2. l.bind[e][n] \notin Range(l.bind[c])
    BY <2>1 DEF Unused
  <2>3. l.bind[c][k] \in Range(l.bind[c])
    BY DEF Range
  <2> QED
    BY <1>2, <2>2, <2>3
<1>3. ASSUME NEW c \in 1 .. Rank(l), NEW k \in K(c), NEW n \in K(c), l.bind[c][k] = l.bind[c][n], k < n
      PROVE  FALSE
  <2>1. k \in 1 .. n - 1
    <3>1. k \in Nat \ {0} /\ n \in Nat
      BY <1>1
    <3> QED
      BY <1>3, <3>1
  <2> QED
    BY <1>3, <2>1 DEF Unused
<1>4. i \in DOMAIN F(a) /\ j \in DOMAIN F(b) /\ F(a)[i] \in K(a) /\ F(b)[j] \in K(b)
      /\ l.bind[a][F(a)[i]] = l.bind[b][F(b)[j]] /\ K(a) \subseteq Nat /\ K(b) \subseteq Nat
  BY <1>1
<1>5. \A u, v \in K(a) : (\A k, n \in DOMAIN F(a) : F(a)[k] = F(a)[n] => k = n)
  BY <1>1
<1> HIDE DEF F, K
<1>6. a = b
  <2>1. ~(a < b)
    BY <1>2, <1>4
  <2>2. ~(b < a)
    BY <1>2, <1>4
  <2> QED
    BY <2>1, <2>2
<1>7. F(a)[i] = F(b)[j]
  <2>1. ~(F(a)[i] < F(a)[j])
    BY <1>3, <1>4, <1>6
  <2>2. ~(F(a)[j] < F(a)[i])
    BY <1>3, <1>4, <1>6
  <2>3. F(a)[i] \in Nat /\ F(a)[j] \in Nat
    BY <1>4, <1>6
  <2>4. F(a)[i] = F(a)[j]
    BY <2>1, <2>2, <2>3
  <2> QED
    BY <1>6, <2>4
<1> QED
  BY <1>4, <1>5, <1>6, <1>7

LEMMA MeshRight ==
  ASSUME NEW l, IsLayout(l)
  PROVE  /\ IsRadix(Len(l.mesh), l.mesh, Weights(l.mesh, 1))
         /\ Weights(l.mesh, 1)[0] = Product(l.mesh) /\ Weights(l.mesh, 1)[Len(l.mesh)] = 1
         /\ \A w, p : p \in DOMAIN l.mesh =>
              Coord(l, w, p) = ((w - 1) \div Weights(l.mesh, 1)[p]) % l.mesh[p]
<1> DEFINE m == l.mesh
           W == Weights(m, 1)
<1>1. m \in Seq(Nat \ {0}) /\ DOMAIN m = 1 .. Len(m) /\ Len(m) \in Nat
  BY LayoutParts DEF IsLayout
<1>2. 1 \in Nat \ {0}
  OBVIOUS
<1>3. Product(m) \in Nat
  BY <1>1, ProductType
<1>4. IsRadix(Len(m), m, W) /\ W[0] = Product(m) * 1 /\ W[Len(m)] = 1
  <2> HIDE DEF m
  <2> QED
    BY <1>1, <1>2, WeightsRight
<1>5. Product(m) * 1 = Product(m)
  BY <1>3
<1>6. ASSUME NEW p \in DOMAIN m PROVE W[p] = Product(After(m, p))
  <2>1. p \in 0 .. Len(m)
    BY <1>1
  <2>2. After(m, p) \in Seq(Nat \ {0})
    <3> HIDE DEF m
    <3> QED
      BY <1>1, <2>1, AfterIs, Zenon
  <2>3. Product(After(m, p)) \in Nat
    BY <2>2, ProductType
  <2>4. W[p] = Product(After(m, p)) * 1
    BY <2>1 DEF Weights
  <2> QED
    BY <2>3, <2>4
<1> HIDE DEF W
<1>7. \A w, p : p \in DOMAIN m => Coord(l, w, p) = ((w - 1) \div W[p]) % m[p]
  BY <1>6, Zenon DEF Coord
<1> QED
  BY <1>4, <1>5, <1>7 DEF W

(* Every byte has an owner: the axes that split the dimensions are all     *)
(* different, so their coordinates can be chosen one by one.               *)
LEMMA SomeOwner ==
  ASSUME NEW l, IsEven(l), NEW o \in Nat
  PROVE  \E w \in Writers(l) : Owns(l, w, o)
<1> DEFINE M == Len(l.mesh)
           W == Weights(l.mesh, 1)
           D(a) == DOMAIN SplitAxes(l, a)
           t(a) == IndexOf(l, o, a) \div ShardDim(l, a)
           y(a, k) == (t(a) \div Weights(SplitSizes(l, a), 1)[k]) % SplitSizes(l, a)[k]
           Agrees(p, v) == \A a \in 1 .. Rank(l) : \A k \in D(a) : SplitAxes(l, a)[k] = p => v = y(a, k)
           x == [p \in DOMAIN l.mesh |-> CHOOSE v \in 0 .. l.mesh[p] - 1 : Agrees(p, v)]
<1>1. IsLayout(l) /\ DOMAIN l.mesh = 1 .. M /\ M \in Nat
  BY LayoutParts DEF IsEven
<1>2. ASSUME NEW a \in 1 .. Rank(l)
      PROVE  t(a) \in Nat /\ t(a) < Count(l, a)
  <2> DEFINE i == IndexOf(l, o, a)
             s == ShardDim(l, a)
             c == Count(l, a)
             q == i \div s
  <2>1. i \in Nat /\ i < l.dims[a] /\ s \in Nat \ {0} /\ c \in Nat \ {0} /\ l.dims[a] = c * s
    <3>1. i \in 0 .. l.dims[a] - 1
      BY <1>1, IndexOfType
    <3>2. l.dims[a] \in Nat \ {0} /\ c \in Nat \ {0} /\ s \in Nat \ {0} /\ l.dims[a] = c * s
      BY PartsFill
    <3> HIDE DEF i, s, c
    <3> QED
      BY <3>1, <3>2
  <2> HIDE DEF i, s, c
  <2>2. q \in Nat /\ q * s <= i
    BY <2>1, Division
  <2>3. \A j, k, n \in Nat : j <= k => j * n <= k * n /\ j * n \in Nat /\ k * n \in Nat
    BY Z3
  <2> HIDE DEF q
  <2>4. SUFFICES ASSUME c <= q PROVE FALSE
    BY <2>1, <2>2 DEF i, s, c, q
  <2>5. c * s <= q * s /\ c * s \in Nat /\ q * s \in Nat
    BY <2>1, <2>2, <2>3, <2>4
  <2> DEFINE e == c * s
             f == q * s
  <2>6. e \in Nat /\ f \in Nat /\ e <= f /\ f <= i /\ i < e
    BY <2>1, <2>2, <2>5
  <2> HIDE DEF e, f
  <2> QED
    BY <2>1, <2>6
<1>3. ASSUME NEW a \in 1 .. Rank(l), NEW k \in D(a)
      PROVE  SplitAxes(l, a)[k] \in DOMAIN l.mesh /\ y(a, k) \in 0 .. l.mesh[SplitAxes(l, a)[k]] - 1
  <2> DEFINE N == Len(SplitAxes(l, a))
             m == SplitSizes(l, a)
  <2>1. N \in Nat /\ D(a) = 1 .. N /\ SplitAxes(l, a)[k] \in DOMAIN l.mesh
    BY <1>1, SplitType
  <2>2. m[k] = l.mesh[SplitAxes(l, a)[k]]
    BY <2>1 DEF SplitSizes
  <2>3. IsRadix(N, m, Weights(m, 1)) /\ k \in 1 .. N
    BY <1>1, <2>1, SplitRadix
  <2>4. t(a) \in Nat
    BY <1>2
  <2> HIDE DEF N, m, t
  <2>5. (t(a) \div Weights(m, 1)[k]) % m[k] \in 0 .. m[k] - 1
    BY <2>3, <2>4, RadixStep, Zenon
  <2> QED
    BY <2>1, <2>2, <2>5 DEF m
<1> HIDE DEF y, t
<1>4. ASSUME NEW p \in DOMAIN l.mesh PROVE \E v \in 0 .. l.mesh[p] - 1 : Agrees(p, v)
  <2>1. CASE \E a \in 1 .. Rank(l) : \E k \in D(a) : SplitAxes(l, a)[k] = p
    <3>1. PICK a \in 1 .. Rank(l) : \E k \in D(a) : SplitAxes(l, a)[k] = p
      BY <2>1
    <3>2. PICK k \in D(a) : SplitAxes(l, a)[k] = p
      BY <3>1
    <3>3. Agrees(p, y(a, k))
      <4> SUFFICES ASSUME NEW b \in 1 .. Rank(l), NEW j \in D(b), SplitAxes(l, b)[j] = p
                   PROVE  y(a, k) = y(b, j)
        OBVIOUS
      <4>1. b = a /\ j = k
        BY <1>1, <3>2, SplitOnce
      <4> QED
        BY <4>1
    <3> QED
      BY <1>3, <3>2, <3>3
  <2>2. CASE ~\E a \in 1 .. Rank(l) : \E k \in D(a) : SplitAxes(l, a)[k] = p
    <3>1. 0 \in 0 .. l.mesh[p] - 1
      BY <1>1, LayoutParts
    <3> QED
      BY <2>2, <3>1
  <2> QED
    BY <2>1, <2>2
<1>5. \A p \in DOMAIN l.mesh : x[p] \in 0 .. l.mesh[p] - 1 /\ Agrees(p, x[p])
  BY <1>4
<1> HIDE DEF x
<1>6. AreDigits(M, l.mesh, x)
  BY <1>1, <1>5 DEF AreDigits
<1>7. IsRadix(M, l.mesh, W) /\ W[0] = Product(l.mesh) /\ 0 \in 0 .. W[M] - 1
  BY <1>1, MeshRight
<1>8. PICK n \in 0 .. W[0] - 1 : HasDigits(M, l.mesh, W, x, n)
  BY <1>6, <1>7, RadixExists
<1> DEFINE w == n + 1
<1>9. w \in Writers(l) /\ w - 1 = n
  BY <1>1, <1>7, StrideType
<1> HIDE DEF w
<1>10. ASSUME NEW p \in DOMAIN l.mesh PROVE Coord(l, w, p) = x[p]
  <2>1. Coord(l, w, p) = (n \div W[p]) % l.mesh[p]
    BY <1>1, <1>9, MeshRight
  <2> QED
    BY <1>1, <1>8, <2>1 DEF HasDigits
<1>11. ASSUME NEW a \in 1 .. Rank(l) PROVE t(a) = LinearIndex(l, w, a)
  <2> DEFINE N == Len(SplitAxes(l, a))
             m == SplitSizes(l, a)
             V == Weights(m, 1)
             z == Coords(l, w, a)
  <2>1. PICK h : IsHorner(N, m, z, h) /\ LinearIndex(l, w, a) = h[N]
    BY <1>1, <1>9, IndexRun
  <2>2. IsRadix(N, m, V) /\ V[0] = Count(l, a) /\ V[N] = 1
    BY <1>1, SplitRadix
  <2>3. N \in Nat /\ D(a) = 1 .. N /\ \A k \in 1 .. N : SplitAxes(l, a)[k] \in DOMAIN l.mesh
    BY <1>1, SplitType
  <2>4. \A k \in 1 .. N : z[k] = y(a, k)
    <3> TAKE k \in 1 .. N
    <3>1. z[k] = Coord(l, w, SplitAxes(l, a)[k])
      BY <2>3 DEF Coords
    <3>2. z[k] = x[SplitAxes(l, a)[k]]
      BY <1>10, <2>3, <3>1
    <3> QED
      BY <1>5, <2>3, <3>2
  <2>5. HasDigits(N, m, V, z, t(a))
    BY <2>4 DEF HasDigits, y
  <2>6. t(a) \in Nat /\ t(a) < V[0]
    BY <1>2, <2>2
  <2> HIDE DEF N, m, V, z
  <2>7. h[N] = t(a) \div V[N]
    BY <2>1, <2>2, <2>5, <2>6, HornerOfDigits
  <2>8. t(a) \div 1 = t(a)
    BY <2>6
  <2> QED
    BY <2>1, <2>2, <2>7, <2>8
<1>12. Owns(l, w, o)
  BY <1>1, <1>9, <1>11, OwnsIs DEF t
<1> QED
  BY <1>9, <1>12

(* The dimensions of a shard, and the weights of its own bytes.            *)
ShardDims(l) == [a \in 1 .. Rank(l) |-> ShardDim(l, a)]
ShardStrides(l) == Weights(ShardDims(l), l.elem)

LEMMA ShardRadix ==
  ASSUME NEW l, IsEven(l)
  PROVE  /\ IsRadix(Rank(l), ShardDims(l), ShardStrides(l))
         /\ ShardStrides(l)[0] = ShardBytes(l) /\ ShardStrides(l)[Rank(l)] = l.elem
         /\ \A a \in 1 .. Rank(l) : ShardDims(l)[a] = ShardDim(l, a)
<1> DEFINE s == ShardDims(l)
<1>1. Rank(l) \in Nat /\ l.elem \in Nat \ {0} /\ \A a \in 1 .. Rank(l) : ShardDim(l, a) \in Nat \ {0}
  BY LayoutParts, ShardType DEF IsEven
<1>2. s \in Seq(Nat \ {0}) /\ Len(s) = Rank(l) /\ \A a \in 1 .. Rank(l) : s[a] = ShardDim(l, a)
  BY <1>1 DEF ShardDims
<1> HIDE DEF s
<1>3. IsRadix(Len(s), s, Weights(s, l.elem)) /\ Weights(s, l.elem)[0] = Product(s) * l.elem
      /\ Weights(s, l.elem)[Len(s)] = l.elem
  BY <1>1, <1>2, WeightsRight
<1> QED
  BY <1>2, <1>3 DEF s, ShardStrides, ShardBytes, ShardDims

(* A writer owns as many bytes as its shard has: byte n of the shard is    *)
(* the byte of the tensor whose indexes are those of n in the shard,       *)
(* behind the beginning of the writer's parts.                             *)
LEMMA SharesEqual ==
  ASSUME NEW l, IsEven(l), NEW w \in Writers(l)
  PROVE  IsFiniteSet(Owned(l, w)) /\ Cardinality(Owned(l, w)) = ShardBytes(l)
<1> DEFINE R == Rank(l)
           d == l.dims
           W == Strides(l)
           s == ShardDims(l)
           V == ShardStrides(l)
           L(a) == LinearIndex(l, w, a)
           in(n, a) == (n \div V[a]) % s[a]
           X(n) == [a \in 1 .. R |-> L(a) * s[a] + in(n, a)]
           Rel(n, o) == HasDigits(R, d, W, X(n), o) /\ o % l.elem = n % l.elem
           A == 0 .. ShardBytes(l) - 1
           B == 0 .. TotalBytes(l) - 1
           g == [n \in A |-> CHOOSE o \in B : Rel(n, o)]
<1>0. IsLayout(l) /\ R \in Nat /\ l.elem \in Nat \ {0} /\ ShardBytes(l) \in Nat \ {0} /\ TotalBytes(l) \in Nat \ {0}
  BY LayoutParts, ShardType, StrideType DEF IsEven
<1>1. IsRadix(R, d, W) /\ W[0] = TotalBytes(l) /\ W[R] = l.elem
  BY <1>0, StridesRight
<1>2. IsRadix(R, s, V) /\ V[0] = ShardBytes(l) /\ V[R] = l.elem /\ \A a \in 1 .. R : s[a] = ShardDim(l, a)
  BY ShardRadix
<1>3. ASSUME NEW a \in 1 .. R
      PROVE  /\ s[a] \in Nat \ {0} /\ L(a) \in Nat /\ d[a] \in Nat
             /\ L(a) * s[a] \in Nat /\ L(a) * s[a] + s[a] <= d[a]
  BY <1>0, <1>2, IndexType, PartsFill
<1>4. ASSUME NEW o \in B, NEW a \in 1 .. R
      PROVE  /\ IndexOf(l, o, a) = (o \div W[a]) % d[a] /\ IndexOf(l, o, a) \in 0 .. d[a] - 1
             /\ IndexOf(l, o, a) \div ShardDim(l, a) = L(a) <=>
                  L(a) * s[a] <= IndexOf(l, o, a) /\ IndexOf(l, o, a) < L(a) * s[a] + s[a]
  <2>1. IndexOf(l, o, a) = (o \div W[a]) % d[a] /\ IndexOf(l, o, a) \in 0 .. d[a] - 1
    <3>1. o \in Nat
      BY <1>0
    <3> QED
      BY <1>0, <3>1, IndexOfType
  <2>2. IndexOf(l, o, a) \in Nat
    BY <1>3, <2>1
  <2>3. ShardDim(l, a) = s[a]
    BY <1>2
  <2> HIDE DEF d, W, s, L
  <2> QED
    BY <1>3, <2>1, <2>2, <2>3, InPart
<1>5. ASSUME NEW o \in B
      PROVE  o \in Owned(l, w) <=> \A a \in 1 .. R : L(a) * s[a] <= IndexOf(l, o, a) /\ IndexOf(l, o, a) < L(a) * s[a] + s[a]
  BY <1>0, <1>4, OwnsIs DEF Owned
<1>6. Owned(l, w) \subseteq B
  BY DEF Owned
<1> HIDE DEF d, W, s, V, L
<1>7. ASSUME NEW n \in A, NEW a \in 1 .. R
      PROVE  in(n, a) \in 0 .. s[a] - 1 /\ X(n)[a] = L(a) * s[a] + in(n, a)
  <2>1. n \in Nat
    BY <1>0
  <2>2. in(n, a) \in 0 .. s[a] - 1
    BY <1>2, <2>1, RadixStep
  <2> HIDE DEF in
  <2> QED
    BY <2>2
<1> HIDE DEF in, X
<1>8. ASSUME NEW n \in A PROVE g[n] \in B /\ Rel(n, g[n])
  <2>1. AreDigits(R, d, X(n))
    <3>1. ASSUME NEW a \in 1 .. R PROVE X(n)[a] \in 0 .. d[a] - 1
      <4> DEFINE b == L(a) * s[a]
                 c == s[a]
                 i == in(n, a)
      <4>1. b \in Nat /\ c \in Nat \ {0} /\ b + c <= d[a] /\ i \in 0 .. c - 1 /\ X(n)[a] = b + i /\ d[a] \in Nat
        BY <1>3, <1>7
      <4> HIDE DEF b, c, i
      <4> QED
        BY <4>1
    <3> QED
      BY <3>1 DEF AreDigits
  <2>2. n % l.elem \in 0 .. W[R] - 1
    <3>1. n \in Nat
      BY <1>0
    <3>2. n % l.elem \in 0 .. l.elem - 1
      BY <1>0, <3>1, Division
    <3> QED
      BY <1>1, <3>2
  <2>3. \E o \in 0 .. W[0] - 1 : HasDigits(R, d, W, X(n), o) /\ o % W[R] = n % l.elem
    BY <1>1, <2>1, <2>2, RadixExists
  <2>4. \E o \in B : Rel(n, o)
    BY <1>1, <2>3
  <2> QED
    BY <2>4
<1> HIDE DEF g
<1>9. ASSUME NEW n \in A, NEW a \in 1 .. R PROVE IndexOf(l, g[n], a) = L(a) * s[a] + in(n, a)
  BY <1>4, <1>7, <1>8 DEF HasDigits
<1>10. ASSUME NEW n \in A PROVE g[n] \in Owned(l, w)
  <2>1. ASSUME NEW a \in 1 .. R
        PROVE  L(a) * s[a] <= IndexOf(l, g[n], a) /\ IndexOf(l, g[n], a) < L(a) * s[a] + s[a]
    <3> DEFINE b == L(a) * s[a]
               c == s[a]
               i == in(n, a)
    <3>1. b \in Nat /\ c \in Nat \ {0} /\ i \in 0 .. c - 1 /\ IndexOf(l, g[n], a) = b + i
      BY <1>3, <1>7, <1>9
    <3> HIDE DEF b, c, i
    <3>2. b <= IndexOf(l, g[n], a) /\ IndexOf(l, g[n], a) < b + c
      BY <3>1
    <3> QED
      BY <3>2 DEF b, c
  <2> QED
    BY <1>5, <1>8, <2>1
<1>11. ASSUME NEW n \in A, NEW k \in A, g[n] = g[k] PROVE n = k
  <2>1. ASSUME NEW a \in 1 .. R PROVE in(n, a) = in(k, a)
    <3> DEFINE b == L(a) * s[a]
    <3>1. b \in Nat /\ in(n, a) \in Nat /\ in(k, a) \in Nat /\ b + in(n, a) = b + in(k, a)
      BY <1>3, <1>7, <1>9, <1>11
    <3> HIDE DEF b
    <3> QED
      BY <3>1
  <2>2. n % l.elem = k % l.elem
    BY <1>8, <1>11
  <2>3. n \in Nat /\ k \in Nat /\ n < V[0] /\ k < V[0]
    BY <1>0, <1>2
  <2>4. \A a \in 1 .. R : (n \div V[a]) % s[a] = (k \div V[a]) % s[a]
    BY <2>1 DEF in
  <2> QED
    BY <1>2, <2>2, <2>3, <2>4, RadixEqual
<1>12. ASSUME NEW o \in Owned(l, w) PROVE \E n \in A : g[n] = o
  <2> DEFINE y == [a \in 1 .. R |-> IndexOf(l, o, a) - L(a) * s[a]]
  <2>0. o \in B
    BY <1>6
  <2>1. ASSUME NEW a \in 1 .. R
        PROVE  y[a] \in 0 .. s[a] - 1 /\ IndexOf(l, o, a) = L(a) * s[a] + y[a]
    <3> DEFINE b == L(a) * s[a]
               c == s[a]
               i == IndexOf(l, o, a)
    <3>1. b \in Nat /\ c \in Nat \ {0} /\ d[a] \in Nat /\ i \in 0 .. d[a] - 1 /\ b <= i /\ i < b + c /\ y[a] = i - b
      BY <1>3, <1>4, <1>5, <2>0
    <3> HIDE DEF b, c, i, y
    <3>2. y[a] \in 0 .. c - 1 /\ i = b + y[a]
      BY <3>1
    <3> QED
      BY <3>2 DEF b, c, i
  <2> HIDE DEF y
  <2>2. AreDigits(R, s, y)
    BY <2>1 DEF AreDigits
  <2>3. o \in Nat /\ o < W[0] /\ o % l.elem \in 0 .. V[R] - 1
    <3>1. o \in Nat /\ o < W[0]
      BY <1>0, <1>1, <2>0
    <3>2. o % l.elem \in 0 .. l.elem - 1
      BY <1>0, <3>1, Division
    <3> QED
      BY <1>2, <3>1, <3>2
  <2>4. PICK n \in 0 .. V[0] - 1 : HasDigits(R, s, V, y, n) /\ n % V[R] = o % l.elem
    BY <1>2, <2>2, <2>3, RadixExists
  <2>5. n \in A /\ n % l.elem = o % l.elem
    BY <1>2, <2>4
  <2>6. ASSUME NEW a \in 1 .. R PROVE (g[n] \div W[a]) % d[a] = (o \div W[a]) % d[a]
    <3>1. in(n, a) = y[a]
      BY <2>4 DEF HasDigits, in
    <3>2. IndexOf(l, g[n], a) = IndexOf(l, o, a)
      BY <1>9, <2>1, <2>5, <3>1
    <3> QED
      BY <1>4, <1>8, <2>0, <2>5, <3>2
  <2>7. g[n] % l.elem = o % l.elem /\ g[n] \in Nat /\ g[n] < W[0]
    BY <1>0, <1>1, <1>8, <2>5
  <2>8. g[n] = o
    BY <1>1, <2>3, <2>6, <2>7, RadixEqual
  <2> QED
    BY <2>5, <2>8
<1>13. g \in Surjection(A, Owned(l, w)) /\ g \in Injection(A, Owned(l, w))
  <2>1. g \in [A -> Owned(l, w)]
    <3>1. g = [n \in A |-> g[n]]
      BY DEF g
    <3> QED
      BY <1>10, <3>1
  <2> QED
    BY <1>11, <1>12, <2>1, Zenon DEF Surjection, Injection, IsInjective
<1>14. IsFiniteSet(A) /\ Cardinality(A) = ShardBytes(l)
  <2>1. ShardBytes(l) - 1 \in Int /\ 0 \in Int /\ ~(0 > ShardBytes(l) - 1) /\ (ShardBytes(l) - 1) - 0 + 1 = ShardBytes(l)
    BY <1>0
  <2> QED
    BY <2>1, FS_Interval
<1> QED
  BY <1>13, <1>14, FS_Surjection

-----------------------------------------------------------------------------
(* Where spans begin                                                       *)

LEMMA QuotientBetween ==
  ASSUME NEW n \in Nat, NEW m \in Nat \ {0}, NEW p \in Nat, NEW q \in Nat, p * m <= n, n < q * m
  PROVE  p <= n \div m /\ n \div m < q
<1> DEFINE g == n \div m
<1>1. g \in Nat /\ g * m <= n /\ n < g * m + m
  BY Division
<1> HIDE DEF g
<1>2. \A i, j, k \in Nat : i < j => i * k + k <= j * k
  BY Z3
<1>3. \A i, j, k \in Nat : i <= j => i * k <= j * k
  BY Z3
<1>4. \A i, j \in Nat : i * j \in Nat
  BY Z3
<1> DEFINE e == g * m
           f == p * m
           r == q * m
<1>5. e \in Nat /\ f \in Nat /\ r \in Nat /\ e <= n /\ n < e + m /\ f <= n /\ n < r
      /\ (g < p => e + m <= f) /\ (q <= g => r <= e)
  BY <1>1, <1>2, <1>3, <1>4
<1> HIDE DEF e, f, r
<1>6. ~(g < p) /\ ~(q <= g)
  BY <1>5
<1>7. p <= g /\ g < q
  BY <1>1, <1>6
<1> QED
  BY <1>7 DEF g

(* Behind the contiguous dimension nothing is cut.                         *)
LEMMA Uncut ==
  ASSUME NEW l, IsEven(l), NEW a \in 1 .. Rank(l), ContiguousAxis(l) < a
  PROVE  /\ \A w \in Writers(l) : LinearIndex(l, w, a) = 0
         /\ \A x \in Nat : x < l.dims[a] => x \div ShardDim(l, a) = 0
<1> DEFINE T == {1} \cup {b \in 2 .. Rank(l) : ShardDim(l, b) # l.dims[b]}
<1>0. IsLayout(l) /\ Rank(l) \in Nat /\ Rank(l) # 0
  BY LayoutParts DEF IsEven
<1>1. T \in SUBSET (0 .. Rank(l)) /\ T # {} /\ ContiguousAxis(l) = Max(T)
  BY <1>0 DEF ContiguousAxis
<1>2. \A b \in T : b <= ContiguousAxis(l)
  <2> HIDE DEF T
  <2> QED
    BY <1>0, <1>1, GreatestNumber
<1>3. ContiguousAxis(l) \in 1 .. Rank(l)
  BY <1>0, SpanLenType
<1>4. a \in 2 .. Rank(l) /\ ~(a <= ContiguousAxis(l))
  BY <1>0, <1>3
<1>5. a \notin T
  BY <1>2, <1>4
<1>6. ShardDim(l, a) = l.dims[a]
  BY <1>4, <1>5
<1> DEFINE n == Count(l, a)
           s == ShardDim(l, a)
<1>7. n \in Nat \ {0} /\ s \in Nat \ {0} /\ s = n * s
  BY <1>6, PartsFill
<1> HIDE DEF n, s
<1>8. n = 1
  <2>1. \A i \in Nat, j \in Nat \ {0} : i > 1 => i * j > j
    BY Z3
  <2>2. ~(n > 1)
    BY <1>7, <2>1
  <2> QED
    BY <1>7, <2>2
<1>9. \A w \in Writers(l) : LinearIndex(l, w, a) \in Nat /\ LinearIndex(l, w, a) < n
  BY <1>0, IndexType DEF n
<1>10. \A x \in Nat : x < l.dims[a] => x \div ShardDim(l, a) = 0
  BY <1>6, <1>7, SmallQuotient DEF s
<1> QED
  BY <1>8, <1>9, <1>10

LEMMA DimsBounded ==
  ASSUME NEW l, IsLayout(l), NEW a \in 1 .. Rank(l)
  PROVE  l.dims[a] <= Max(Range(l.dims)) /\ Max(Range(l.dims)) \in Nat
<1> DEFINE R == Rank(l)
           d == l.dims
           S == {n \in 0 .. R : \E N \in Nat : \A b \in 1 .. n : d[b] <= N}
<1>1. R \in Nat /\ DOMAIN d = 1 .. R /\ \A b \in 1 .. R : d[b] \in Nat
  BY LayoutParts
<1> HIDE DEF d, R
<1>2. 0 \in S
  BY <1>1
<1>3. ASSUME NEW n \in 0 .. R - 1, n \in S PROVE n + 1 \in S
  <2>1. PICK N \in Nat : \A b \in 1 .. n : d[b] <= N
    BY <1>3
  <2>2. n + 1 \in 0 .. R /\ d[n + 1] \in Nat
    BY <1>1
  <2> DEFINE K == N + d[n + 1]
  <2>3. K \in Nat /\ d[n + 1] <= K /\ N <= K
    BY <2>2
  <2>4. ASSUME NEW b \in 1 .. n + 1 PROVE d[b] <= K
    <3>1. b = n + 1 \/ b \in 1 .. n
      OBVIOUS
    <3>2. b \in 1 .. n => d[b] \in Nat /\ d[b] <= N
      BY <1>1, <2>1
    <3> HIDE DEF K
    <3> QED
      BY <2>3, <3>1, <3>2
  <2> HIDE DEF K
  <2> QED
    BY <2>2, <2>3, <2>4
<1> HIDE DEF S
<1>4. R \in S
  <2>1. 0 .. R \subseteq S
    BY <1>1, <1>2, <1>3, InductionUpTo
  <2> QED
    BY <1>1, <2>1
<1>5. PICK N \in Nat : \A b \in 1 .. R : d[b] <= N
  BY <1>4 DEF S
<1>6. Range(d) \in SUBSET (0 .. N) /\ d[a] \in Range(d)
  BY <1>1, <1>5 DEF Range, R
<1>7. Max(Range(d)) \in Range(d) /\ \A y \in Range(d) : y <= Max(Range(d))
  BY <1>6, GreatestNumber
<1>8. d[a] <= Max(Range(d)) /\ Max(Range(d)) \in Nat
  BY <1>6, <1>7
<1> QED
  BY <1>8 DEF d

(* A span of w begins at an element whose indexes are in the parts of w,   *)
(* the first of its part in the contiguous dimension; h has the numbers of *)
(* its first indexes.                                                      *)
IsCorner(l, w, x, h) ==
  LET c == ContiguousAxis(l) IN
  /\ \A a \in 1 .. c - 1 : x[a] \in SliceStart(l, w, a) .. SliceStart(l, w, a) + ShardDim(l, a) - 1
  /\ x[c] = SliceStart(l, w, c)
  /\ IsHorner(c, l.dims, x, h)

LEMMA SliceType ==
  ASSUME NEW l, IsEven(l), NEW w \in Writers(l), NEW a \in 1 .. Rank(l)
  PROVE  /\ SliceStart(l, w, a) = LinearIndex(l, w, a) * ShardDim(l, a)
         /\ SliceStart(l, w, a) \in Nat /\ ShardDim(l, a) \in Nat \ {0} /\ l.dims[a] \in Nat \ {0}
         /\ SliceStart(l, w, a) + ShardDim(l, a) <= l.dims[a]
<1>1. LinearIndex(l, w, a) \in Nat /\ LinearIndex(l, w, a) < Count(l, a)
  BY IndexType DEF IsEven
<1> QED
  BY <1>1, PartsFill DEF SliceStart

LEMMA StartsAre ==
  ASSUME NEW l, IsEven(l), NEW w \in Writers(l), Rank(l) # 0, NEW s
  PROVE  s \in SpanStarts(l, w) <=>
           \E x, h : IsCorner(l, w, x, h) /\ s = h[ContiguousAxis(l)] * Strides(l)[ContiguousAxis(l)]
<1> DEFINE R == Rank(l)
           c == ContiguousAxis(l)
           d == l.dims
           W == Strides(l)
           B(a) == SliceStart(l, w, a)
           D(a) == ShardDim(l, a)
           outer == {i \in [1 .. c - 1 -> 0 .. Max(Range(d)) - 1] : \A a \in 1 .. c - 1 : i[a] < D(a)}
           index(i, a) == B(a) + IF a < c THEN i[a] ELSE 0
           terms(i) == [a \in 1 .. c |-> index(i, a) * ByteStride(l, a)]
<1>0. IsLayout(l) /\ R \in Nat /\ c \in 1 .. R
  BY LayoutParts, SpanLenType DEF IsEven
<1>1. SpanStarts(l, w) = {SumOf(terms(i)) : i \in outer}
  BY DEF SpanStarts
<1>2. IsRadix(c, d, W) /\ \A a \in 1 .. c : W[a] = ByteStride(l, a) /\ a \in 1 .. R
  <2>1. IsRadix(R, d, W) /\ \A a \in 1 .. R : W[a] = ByteStride(l, a)
    BY <1>0, StridesRight
  <2>2. c \in Nat /\ \A a \in 1 .. c : a \in 1 .. R /\ a \in 0 .. R
    BY <1>0
  <2>3. \A a \in 0 .. c : a \in 0 .. R
    BY <1>0
  <2> HIDE DEF c, R, d, W
  <2> QED
    BY <2>1, <2>2, <2>3 DEF IsRadix
<1>3. \A a \in 1 .. c : B(a) \in Nat /\ D(a) \in Nat \ {0} /\ d[a] \in Nat \ {0} /\ B(a) + D(a) <= d[a]
  BY <1>2, SliceType
<1>4. \A a \in 1 .. c : d[a] <= Max(Range(d)) /\ Max(Range(d)) \in Nat
  BY <1>0, <1>2, DimsBounded
<1> HIDE DEF c, d, W, B, D
<1>5. ASSUME NEW i \in outer
      PROVE  \E x, h : IsCorner(l, w, x, h) /\ SumOf(terms(i)) = h[c] * W[c]
  <2> DEFINE x == [a \in 1 .. c |-> index(i, a)]
  <2>1. ASSUME NEW a \in 1 .. c - 1 PROVE x[a] \in B(a) .. B(a) + D(a) - 1
    <3>1. a \in 1 .. c /\ a < c /\ i[a] \in Nat /\ i[a] < D(a)
      BY <1>0
    <3> QED
      BY <1>3, <3>1
  <2>2. x[c] = B(c) /\ c \in 1 .. c
    BY <1>0, <1>3
  <2>3. terms(i) = [a \in 1 .. c |-> x[a] * W[a]]
    BY <1>2
  <2> HIDE DEF x, terms
  <2>4. \A a \in 1 .. c : x[a] \in Nat /\ d[a] \in Nat
    <3> TAKE a \in 1 .. c
    <3>1. a \in 1 .. c - 1 \/ a = c
      BY <1>0
    <3>2. B(a) \in Nat /\ D(a) \in Nat /\ d[a] \in Nat
      BY <1>3, Zenon
    <3>3. x[a] \in B(a) .. B(a) + D(a) - 1 \/ x[a] = B(a)
      BY <2>1, <2>2, <3>1, Zenon
    <3> QED
      BY <3>2, <3>3
  <2>5. c \in Nat
    BY <1>0
  <2>6. PICK h : IsHorner(c, d, x, h)
    BY <2>4, <2>5, HornerExists
  <2>7. SumOf(terms(i)) = h[c] * W[c]
    BY <1>2, <2>3, <2>4, <2>6, HornerSum
  <2>8. IsCorner(l, w, x, h)
    BY <2>1, <2>2, <2>6 DEF IsCorner, c, B, D, d
  <2> QED
    BY <2>7, <2>8
<1>6. ASSUME NEW x, NEW h, IsCorner(l, w, x, h)
      PROVE  \E i \in outer : SumOf(terms(i)) = h[c] * W[c]
  <2>1. /\ \A a \in 1 .. c - 1 : x[a] \in B(a) .. B(a) + D(a) - 1
        /\ x[c] = B(c) /\ IsHorner(c, d, x, h)
    BY <1>6 DEF IsCorner, c, B, D, d
  <2> DEFINE i == [a \in 1 .. c - 1 |-> x[a] - B(a)]
  <2>2. ASSUME NEW a \in 1 .. c - 1
        PROVE  i[a] \in 0 .. Max(Range(d)) - 1 /\ i[a] < D(a) /\ B(a) + i[a] = x[a] /\ x[a] \in Nat
    <3>1. a \in 1 .. c
      BY <1>0
    <3> DEFINE u == B(a)
               v == D(a)
               m == Max(Range(d))
               y == x[a]
    <3>2. u \in Nat /\ v \in Nat \ {0} /\ v <= d[a] /\ d[a] <= m /\ m \in Nat /\ d[a] \in Nat /\ y \in u .. u + v - 1 /\ i[a] = y - u
      BY <1>3, <1>4, <2>1, <3>1
    <3> HIDE DEF u, v, m, y, i
    <3>3. i[a] \in 0 .. m - 1 /\ i[a] < v /\ u + i[a] = y /\ y \in Nat
      BY <3>2
    <3> QED
      BY <3>3 DEF u, v, m, y
  <2>3. i \in [1 .. c - 1 -> 0 .. Max(Range(d)) - 1]
    BY <2>2
  <2> HIDE DEF i
  <2>4. i \in outer
    BY <2>2, <2>3
  <2>5. ASSUME NEW a \in 1 .. c PROVE index(i, a) = x[a] /\ x[a] \in Nat
    <3>1. CASE a \in 1 .. c - 1
      <4>1. a < c
        BY <1>0, <3>1
      <4> QED
        BY <2>2, <3>1, <4>1
    <3>2. CASE a = c
      <4>1. ~(a < c)
        BY <1>0, <3>2
      <4>2. B(a) \in Nat
        BY <1>3
      <4> QED
        BY <2>1, <3>2, <4>1, <4>2
    <3>3. a \in 1 .. c - 1 \/ a = c
      BY <1>0
    <3> QED
      BY <3>1, <3>2, <3>3
  <2> HIDE DEF index
  <2>6. terms(i) = [a \in 1 .. c |-> x[a] * W[a]]
    BY <1>2, <2>5
  <2> HIDE DEF terms, outer
  <2>7. SumOf(terms(i)) = h[c] * W[c]
    BY <1>2, <2>1, <2>5, <2>6, HornerSum
  <2> QED
    BY <2>4, <2>7
<1> HIDE DEF outer, terms
<1>7. s \in SpanStarts(l, w) <=> \E i \in outer : s = SumOf(terms(i))
  BY <1>1
<1>8. s \in SpanStarts(l, w) <=> \E x, h : IsCorner(l, w, x, h) /\ s = h[c] * W[c]
  BY <1>5, <1>6, <1>7, Zenon
<1> QED
  BY <1>8, Zenon DEF c, W

(* Where a span of w begins is a whole number of spans, ...                *)
LEMMA StartIsMultiple ==
  ASSUME NEW l, IsEven(l), NEW w \in Writers(l), NEW s \in SpanStarts(l, w)
  PROVE  \E q \in Nat : s = q * SpanLen(l)
<1>1. CASE Rank(l) = 0
  <2>1. s = 0
    BY <1>1 DEF SpanStarts
  <2>2. SpanLen(l) \in Nat
    BY SpanLenType
  <2>3. 0 * SpanLen(l) = 0 /\ 0 \in Nat
    BY <2>2
  <2> QED
    BY <2>1, <2>3
<1>2. CASE Rank(l) # 0
  <2> DEFINE c == ContiguousAxis(l)
             W == Strides(l)
  <2>1. PICK x, h : IsCorner(l, w, x, h) /\ s = h[c] * W[c]
    BY <1>2, StartsAre
  <2>2. IsLayout(l) /\ Rank(l) \in Nat /\ c \in 1 .. Rank(l)
    BY <1>2, LayoutParts, SpanLenType DEF IsEven
  <2>3. W[c] \in Nat /\ SpanLen(l) = ShardDim(l, c) * W[c]
    <3>1. W[c] = ByteStride(l, c) /\ W[c] \in Nat
      BY <2>2, StridesRight, StrideType
    <3> QED
      BY <1>2, <3>1 DEF SpanLen
  <2> DEFINE D == ShardDim(l, c)
             L == LinearIndex(l, w, c)
             n == Count(l, c)
             p == h[c - 1]
  <2>4. L \in Nat /\ n \in Nat /\ D \in Nat /\ l.dims[c] = n * D
    BY <2>2, IndexType, PartsFill
  <2>5. p \in Nat /\ h[c] = p * (n * D) + L * D
    <3>1. c - 1 \in 0 .. c /\ c \in 1 .. c
      BY <2>2
    <3>2. x[c] = L * D /\ h[c] = p * l.dims[c] + x[c] /\ p \in Nat
      BY <2>1, <3>1 DEF IsCorner, IsHorner, SliceStart
    <3> QED
      BY <2>4, <3>2
  <2> HIDE DEF D, L, n, p
  <2>6. p * n + L \in Nat /\ p * (n * D) + L * D = (p * n + L) * D
    <3>1. \A i, j, k, m \in Nat : i * (j * k) + m * k = (i * j + m) * k /\ i * j + m \in Nat
      BY Z3
    <3> QED
      BY <2>4, <2>5, <3>1
  <2>7. s = (p * n + L) * (D * W[c])
    <3>1. \A i, k, e \in Nat : (i * k) * e = i * (k * e)
      BY Z3
    <3>2. s = ((p * n + L) * D) * W[c]
      BY <2>1, <2>5, <2>6, Zenon
    <3>3. W[c] \in Nat
      BY <2>3
    <3> HIDE DEF W, c
    <3> QED
      BY <2>4, <2>6, <3>1, <3>2, <3>3, Zenon
  <2> QED
    BY <2>3, <2>6, <2>7 DEF D
<1> QED
  BY <1>1, <1>2

(* ... w owns all its bytes, ...                                           *)
LEMMA SpanOwned ==
  ASSUME NEW l, IsEven(l), NEW w \in Writers(l), NEW s \in SpanStarts(l, w),
         NEW o \in Nat, s <= o, o < s + SpanLen(l)
  PROVE  o < TotalBytes(l) /\ Owns(l, w, o)
<1>0. IsLayout(l) /\ Rank(l) \in Nat
  BY LayoutParts DEF IsEven
<1>1. CASE Rank(l) = 0
  <2>1. s = 0 /\ SpanLen(l) = l.elem /\ l.elem \in Nat
    BY <1>0, <1>1, LayoutParts DEF SpanStarts, SpanLen
  <2>2. TotalBytes(l) = l.elem
    BY <1>0, <1>1, StridesRight
  <2>3. Owns(l, w, o)
    BY <1>0, <1>1, OwnsIs
  <2> QED
    BY <2>1, <2>2, <2>3
<1>2. CASE Rank(l) # 0
  <2> DEFINE R == Rank(l)
             c == ContiguousAxis(l)
             d == l.dims
             W == Strides(l)
             D(a) == ShardDim(l, a)
             B(a) == SliceStart(l, w, a)
             g == o \div W[c]
  <2>1. PICK x, h : IsCorner(l, w, x, h) /\ s = h[c] * W[c]
    BY <1>2, StartsAre
  <2>2. c \in 1 .. R
    BY <1>2, SpanLenType
  <2>3. IsRadix(R, d, W) /\ W[0] = TotalBytes(l) /\ \A a \in 1 .. R : W[a] = ByteStride(l, a)
    BY <1>0, StridesRight
  <2>4. IsRadix(c, d, W) /\ W[c] \in Nat \ {0}
    <3>1. c \in Nat /\ c \in 0 .. R /\ \A a \in 1 .. c : a \in 1 .. R
      BY <1>0, <2>2
    <3>2. \A a \in 0 .. c : a \in 0 .. R
      BY <1>0, <2>2
    <3> HIDE DEF c, R, d, W
    <3> QED
      BY <2>3, <3>1, <3>2 DEF IsRadix
  <2>5. SpanLen(l) = D(c) * W[c]
    BY <1>2, <2>2, <2>3 DEF SpanLen
  <2>6. \A a \in 1 .. c : B(a) \in Nat /\ D(a) \in Nat \ {0} /\ d[a] \in Nat \ {0} /\ B(a) + D(a) <= d[a]
    <3>1. \A a \in 1 .. c : a \in 1 .. R
      BY <1>0, <2>2
    <3> QED
      BY <3>1, SliceType
  <2>7. /\ \A a \in 1 .. c - 1 : x[a] \in B(a) .. B(a) + D(a) - 1
        /\ x[c] = B(c) /\ IsHorner(c, d, x, h)
    BY <2>1 DEF IsCorner
  <2>8. c \in 0 .. c /\ c \in 1 .. c /\ c \in Nat
    BY <2>2
  <2>9. h[c] \in Nat /\ D(c) \in Nat \ {0} /\ B(c) \in Nat /\ d[c] \in Nat /\ B(c) + D(c) <= d[c]
    BY <2>6, <2>7, <2>8 DEF IsHorner
  <2> HIDE DEF R, c, d, W, D, B
  <2>10. g \in Nat /\ h[c] <= g /\ g < h[c] + D(c)
    <3>1. \A i, j, k \in Nat : i * k + j * k = (i + j) * k /\ i + j \in Nat /\ i * k \in Nat /\ j * k \in Nat
      BY Z3
    <3>2. h[c] * W[c] <= o
      BY <2>1
    <3>3. o < h[c] * W[c] + D(c) * W[c]
      BY <2>1, <2>5
    <3>4. o < (h[c] + D(c)) * W[c] /\ h[c] + D(c) \in Nat
      BY <2>4, <2>9, <3>1, <3>3
    <3> QED
      BY <2>4, <2>9, <3>2, <3>4, Division, QuotientBetween
  <2> HIDE DEF g
  <2> DEFINE y == [a \in 1 .. c |-> IF a = c THEN B(c) + (g - h[c]) ELSE x[a]]
             k == [a \in 0 .. c |-> IF a = c THEN g ELSE h[a]]
  <2>11. ASSUME NEW a \in 1 .. c
         PROVE  y[a] \in 0 .. d[a] - 1 /\ B(a) <= y[a] /\ y[a] < B(a) + D(a)
    <3>1. CASE a = c
      <4>1. y[a] = B(c) + (g - h[c])
        BY <3>1
      <4> QED
        BY <2>9, <2>10, <3>1, <4>1
    <3>2. CASE a # c
      <4>1. a \in 1 .. c - 1
        BY <2>8, <3>2
      <4>2. y[a] = x[a] /\ x[a] \in B(a) .. B(a) + D(a) - 1
        BY <2>7, <3>2, <4>1
      <4>3. B(a) \in Nat /\ D(a) \in Nat \ {0} /\ d[a] \in Nat /\ B(a) + D(a) <= d[a]
        BY <2>6
      <4> HIDE DEF y
      <4> QED
        BY <4>2, <4>3
    <3> QED
      BY <3>1, <3>2
  <2>12. IsHorner(c, d, y, k)
    <3>1. ASSUME NEW a \in 0 .. c PROVE k[a] \in Nat
      BY <2>7, <2>10 DEF IsHorner
    <3>2. k[0] = 0
      <4>1. 0 \in 0 .. c /\ 0 # c
        BY <2>2, <2>8
      <4> QED
        BY <2>7, <4>1 DEF IsHorner
    <3>3. ASSUME NEW a \in 1 .. c PROVE k[a] = k[a - 1] * d[a] + y[a]
      <4>1. a - 1 \in 0 .. c /\ a - 1 # c /\ a \in 0 .. c
        BY <2>8
      <4>2. k[a - 1] = h[a - 1] /\ h[a - 1] \in Nat /\ d[a] \in Nat
        BY <2>6, <2>7, <4>1 DEF IsHorner
      <4>3. h[a] = h[a - 1] * d[a] + x[a]
        BY <2>7 DEF IsHorner
      <4>4. CASE a # c
        BY <4>1, <4>2, <4>3, <4>4
      <4>5. CASE a = c
        <5> DEFINE e == h[a - 1] * d[a]
        <5>1. e \in Nat
          <6>1. \A i, j \in Nat : i * j \in Nat
            BY Z3
          <6> QED
            BY <4>2, <6>1
        <5>2. k[a] = g /\ y[a] = B(c) + (g - h[c]) /\ x[a] = B(c) /\ h[c] = e + B(c)
          BY <2>7, <4>1, <4>3, <4>5
        <5> HIDE DEF e, y, k
        <5>3. k[a] = e + y[a]
          BY <2>9, <2>10, <5>1, <5>2
        <5> QED
          BY <4>2, <5>3 DEF e
      <4> QED
        BY <4>4, <4>5
    <3> HIDE DEF k, y
    <3> QED
      BY <3>1, <3>2, <3>3 DEF IsHorner
  <2>13. k[c] = g
    BY <2>8
  <2> HIDE DEF k, y
  <2>14. o < W[0] /\ HasDigits(c, d, W, y, o)
    <3>1. AreDigits(c, d, y)
      BY <2>11 DEF AreDigits
    <3> QED
      BY <2>4, <2>12, <2>13, <3>1, HornerDigits DEF g
  <2>15. ASSUME NEW a \in 1 .. R
         PROVE  IndexOf(l, o, a) \div ShardDim(l, a) = LinearIndex(l, w, a)
    <3>1. CASE a \in 1 .. c
      <4>1. IndexOf(l, o, a) = y[a]
        BY <1>0, <2>14, <3>1, IndexOfType DEF HasDigits, R, W, d
      <4>2. y[a] \in Nat
        <5>1. y[a] \in 0 .. d[a] - 1
          BY <2>11, <3>1
        <5> QED
          BY <5>1
      <4>3. B(a) = LinearIndex(l, w, a) * D(a) /\ LinearIndex(l, w, a) \in Nat /\ D(a) \in Nat \ {0}
        BY <1>0, SliceType, IndexType DEF B, D, R
      <4>4. B(a) <= y[a] /\ y[a] < B(a) + D(a)
        BY <2>11, <3>1
      <4>5. y[a] \div D(a) = LinearIndex(l, w, a)
        BY <4>2, <4>3, <4>4, InPart
      <4> QED
        BY <4>1, <4>5 DEF D
    <3>2. CASE c < a
      <4>1. IndexOf(l, o, a) \in Nat /\ IndexOf(l, o, a) < l.dims[a]
        <5>1. IndexOf(l, o, a) \in 0 .. l.dims[a] - 1 /\ l.dims[a] \in Nat
          BY <1>0, IndexOfType, LayoutParts DEF R
        <5> QED
          BY <5>1
      <4> QED
        BY <3>2, <4>1, Uncut DEF R, c
    <3>3. a \in 1 .. c \/ c < a
      BY <1>0, <2>8 DEF R
    <3> QED
      BY <3>1, <3>2, <3>3
  <2>16. Owns(l, w, o)
    BY <1>0, <2>15, OwnsIs DEF R
  <2> QED
    BY <2>3, <2>14, <2>16
<1> QED
  BY <1>1, <1>2

(* ... and every byte that w owns is in one of its spans.                  *)
LEMMA OwnedInSpan ==
  ASSUME NEW l, IsEven(l), NEW w \in Writers(l), NEW o \in Nat, o < TotalBytes(l), Owns(l, w, o)
  PROVE  \E s \in SpanStarts(l, w) : s <= o /\ o < s + SpanLen(l)
<1>0. IsLayout(l) /\ Rank(l) \in Nat
  BY LayoutParts DEF IsEven
<1>1. CASE Rank(l) = 0
  <2>1. SpanStarts(l, w) = {0} /\ SpanLen(l) = l.elem /\ l.elem \in Nat
    BY <1>0, <1>1, LayoutParts DEF SpanStarts, SpanLen
  <2>2. TotalBytes(l) = l.elem
    BY <1>0, <1>1, StridesRight
  <2> QED
    BY <2>1, <2>2
<1>2. CASE Rank(l) # 0
  <2> DEFINE R == Rank(l)
             c == ContiguousAxis(l)
             d == l.dims
             W == Strides(l)
             D(a) == ShardDim(l, a)
             B(a) == SliceStart(l, w, a)
             I(a) == IndexOf(l, o, a)
             p == o \div W[c - 1]
             g == o \div W[c]
             x == [a \in 1 .. c |-> IF a = c THEN B(c) ELSE I(a)]
             h == [a \in 0 .. c |-> IF a = c THEN p * d[c] + B(c) ELSE o \div W[a]]
  <2>1. c \in 1 .. R /\ c - 1 \in 0 .. c /\ c \in 0 .. c /\ c \in 1 .. c /\ \A a \in 1 .. c : a \in 1 .. R
    BY <1>0, <1>2, SpanLenType
  <2>2. IsRadix(R, d, W) /\ W[0] = TotalBytes(l) /\ \A a \in 1 .. R : W[a] = ByteStride(l, a)
    BY <1>0, StridesRight
  <2>3. SpanLen(l) = D(c) * W[c]
    BY <1>2, <2>1, <2>2 DEF SpanLen
  <2>4. \A a \in 0 .. c : W[a] \in Nat \ {0} /\ o \div W[a] \in Nat
    <3>1. \A a \in 0 .. c : a \in 0 .. R
      BY <1>0, <2>1
    <3>2. \A a \in 0 .. c : W[a] \in Nat \ {0}
      BY <2>2, <3>1 DEF IsRadix
    <3> QED
      BY <3>2, Division
  <2>5. \A a \in 1 .. c : /\ B(a) \in Nat /\ D(a) \in Nat \ {0} /\ d[a] \in Nat \ {0} /\ B(a) + D(a) <= d[a]
                          /\ B(a) = LinearIndex(l, w, a) * D(a) /\ LinearIndex(l, w, a) \in Nat
    BY <1>0, <2>1, SliceType, IndexType
  <2>6. ASSUME NEW a \in 1 .. c PROVE B(a) <= I(a) /\ I(a) < B(a) + D(a) /\ I(a) \in Nat /\ I(a) = (o \div W[a]) % d[a]
    <3>1. a \in 1 .. R
      BY <2>1
    <3>2. I(a) \in 0 .. d[a] - 1 /\ I(a) = (o \div W[a]) % d[a] /\ I(a) \div D(a) = LinearIndex(l, w, a)
      BY <1>0, <3>1, IndexOfType, OwnsIs
    <3> HIDE DEF I, d, W, D, B
    <3>3. I(a) \in Nat
      BY <2>5, <3>2
    <3> QED
      BY <2>5, <3>2, <3>3, InPart
  <2>7. ASSUME NEW a \in 1 .. c PROVE o \div W[a] = (o \div W[a - 1]) * d[a] + I(a)
    <3>1. a \in 1 .. R
      BY <2>1
    <3>2. o \div W[a] = (o \div W[a - 1]) * d[a] + ((o \div W[a]) % d[a])
      BY <2>2, <3>1, RadixStep
    <3> HIDE DEF I, d, W
    <3> QED
      BY <2>6, <3>2
  <2> HIDE DEF R, c, d, W, D, B, I
  <2>8. p \in Nat /\ g \in Nat /\ p * d[c] \in Nat /\ B(c) \in Nat /\ D(c) \in Nat \ {0} /\ I(c) \in Nat
        /\ B(c) <= I(c) /\ I(c) < B(c) + D(c) /\ g = p * d[c] + I(c) /\ W[c] \in Nat \ {0}
    <3>1. \A i, j \in Nat : i * j \in Nat
      BY Z3
    <3>2. p \in Nat /\ g \in Nat /\ d[c] \in Nat /\ B(c) \in Nat /\ D(c) \in Nat \ {0} /\ W[c] \in Nat \ {0}
      BY <2>1, <2>4, <2>5
    <3>3. p * d[c] \in Nat
      BY <3>1, <3>2
    <3>4. g = p * d[c] + I(c)
      BY <2>1, <2>7
    <3> HIDE DEF p, g
    <3> QED
      BY <2>1, <2>6, <3>2, <3>3, <3>4
  <2> HIDE DEF p, g
  <2>9. \A a \in 1 .. c - 1 : x[a] \in B(a) .. B(a) + D(a) - 1
    <3> TAKE a \in 1 .. c - 1
    <3>1. a \in 1 .. c /\ a # c
      BY <2>1
    <3>2. x[a] = I(a)
      BY <3>1
    <3> HIDE DEF x
    <3> QED
      BY <2>5, <2>6, <3>1, <3>2
  <2>10. x[c] = B(c)
    BY <2>1
  <2>11. IsHorner(c, d, x, h)
    <3>1. ASSUME NEW a \in 0 .. c PROVE h[a] \in Nat
      BY <2>4, <2>8
    <3>2. h[0] = 0
      <4>1. 0 \in 0 .. c /\ 0 # c
        BY <2>1
      <4>2. h[0] = o \div W[0]
        BY <4>1
      <4>3. W[0] \in Nat \ {0}
        BY <2>4, <4>1
      <4> QED
        BY <2>2, <4>2, <4>3, SmallQuotient
    <3>3. ASSUME NEW a \in 1 .. c PROVE h[a] = h[a - 1] * d[a] + x[a]
      <4>1. a - 1 \in 0 .. c /\ a - 1 # c /\ a \in 0 .. c
        BY <2>1
      <4>2. h[a - 1] = o \div W[a - 1]
        BY <4>1
      <4>3. CASE a = c
        <5>1. h[a] = p * d[c] + B(c) /\ x[a] = B(c) /\ h[a - 1] = p
          BY <2>10, <4>1, <4>2, <4>3 DEF p
        <5> QED
          BY <4>3, <5>1, Zenon
      <4>4. CASE a # c
        <5>1. h[a] = o \div W[a] /\ x[a] = I(a)
          BY <4>1, <4>4
        <5> QED
          BY <2>7, <4>2, <5>1, Zenon
      <4> QED
        BY <4>3, <4>4
    <3> HIDE DEF h, x
    <3> QED
      BY <3>1, <3>2, <3>3 DEF IsHorner
  <2>12. h[c] = p * d[c] + B(c)
    BY <2>1
  <2> HIDE DEF x, h
  <2> DEFINE s == h[c] * W[c]
  <2>13. s \in SpanStarts(l, w)
    <3>1. IsCorner(l, w, x, h)
      BY <2>9, <2>10, <2>11 DEF IsCorner, c, d, B, D
    <3> QED
      BY <1>2, <3>1, StartsAre DEF W, c
  <2>14. s <= o /\ o < s + D(c) * W[c]
    <3> DEFINE u == p * d[c] + B(c)
               m == W[c]
    <3>1. u \in Nat /\ u <= g /\ g < u + D(c) /\ u = h[c]
      BY <2>8, <2>12
    <3>2. g * m <= o /\ o < g * m + m /\ m \in Nat \ {0}
      BY <2>8, Division DEF g
    <3> HIDE DEF u, m
    <3>3. \A i, j, k \in Nat : i <= j => i * k <= j * k
      BY Z3
    <3>4. \A i, j, k, n \in Nat : i < j + n => i * k + k <= j * k + n * k
      <4>1. \A i, j, k \in Nat : i < j => i * k + k <= j * k
        BY Z3
      <4>2. \A i, j, k \in Nat : (i + j) * k = i * k + j * k /\ i + j \in Nat
        BY Z3
      <4> QED
        BY <4>1, <4>2
    <3>5. \A i, j \in Nat : i * j \in Nat
      BY Z3
    <3>6. u * m <= g * m /\ g * m + m <= u * m + D(c) * m
      BY <2>8, <3>1, <3>2, <3>3, <3>4
    <3> DEFINE e == u * m
               f == g * m
               r == D(c) * m
    <3>7. e \in Nat /\ f \in Nat /\ r \in Nat /\ e <= f /\ f + m <= e + r /\ f <= o /\ o < f + m
      BY <2>8, <3>1, <3>2, <3>5, <3>6
    <3> HIDE DEF e, f, r
    <3>8. e <= o /\ o < e + r
      BY <3>2, <3>7
    <3> QED
      BY <3>1, <3>8 DEF e, r, m
  <2> HIDE DEF s
  <2> QED
    BY <2>3, <2>13, <2>14
<1> QED
  BY <1>1, <1>2

-----------------------------------------------------------------------------
(* The plan                                                                *)

Multiples(n, width) == {q * width : q \in 0 .. n - 1}
Starts(l) == UNION {SpanStarts(l, w) : w \in Writers(l)}

LEMMA MultiplesCount ==
  ASSUME NEW n \in Nat, NEW width \in Nat \ {0}
  PROVE  /\ Multiples(n, width) \in SUBSET Nat /\ IsFiniteSet(Multiples(n, width))
         /\ Cardinality(Multiples(n, width)) = n
<1> DEFINE A == 0 .. n - 1
           B == Multiples(n, width)
           f == [q \in A |-> q * width]
<1>1. \A i, j, k \in Nat : (i < j => i * k + k <= j * k) /\ i * k \in Nat
  BY Z3
<1>2. ASSUME NEW q \in A, NEW r \in A, f[q] = f[r] PROVE q = r
  <2>1. q \in Nat /\ r \in Nat /\ q * width = r * width /\ q * width \in Nat
    BY <1>1, <1>2
  <2>2. (q < r => q * width + width <= r * width) /\ (r < q => r * width + width <= q * width)
    BY <1>1, <2>1
  <2> DEFINE e == q * width
  <2>3. e \in Nat /\ (q < r => e + width <= e) /\ (r < q => e + width <= e)
    BY <2>1, <2>2
  <2> HIDE DEF e
  <2> QED
    BY <2>1, <2>3
<1>3. f \in [A -> B]
  BY DEF Multiples
<1>4. \A b \in B : \E q \in A : f[q] = b
  BY DEF Multiples
<1> HIDE DEF f, B
<1>5. f \in Surjection(A, B) /\ f \in Injection(A, B)
  BY <1>2, <1>3, <1>4, Zenon DEF Surjection, Injection, IsInjective
<1>6. IsFiniteSet(A) /\ Cardinality(A) = n
  <2>1. n - 1 \in Int /\ 0 \in Int /\ (0 > n - 1 => n = 0) /\ (n - 1) - 0 + 1 = n
    OBVIOUS
  <2> QED
    BY <2>1, FS_Interval
<1>7. B \in SUBSET Nat
  BY <1>1 DEF B, Multiples
<1>8. IsFiniteSet(B) /\ Cardinality(B) = n
  BY <1>5, <1>6, FS_Surjection
<1> QED
  BY <1>7, <1>8 DEF B

(* The spans begin at every multiple of their length within the tensor:    *)
(* each byte has an owner, one of whose spans it is in.                    *)
LEMMA StartsFill ==
  ASSUME NEW l, IsEven(l)
  PROVE  \E n \in Nat \ {0} : TotalBytes(l) = n * SpanLen(l) /\ Starts(l) = Multiples(n, SpanLen(l))
<1> DEFINE T == TotalBytes(l)
           e == SpanLen(l)
<1>1. T \in Nat \ {0} /\ e \in Nat \ {0}
  BY StrideType, SpanLenType DEF IsEven
<1>2. ASSUME NEW o \in Nat, o < T PROVE \E s \in Starts(l) : s <= o /\ o < s + e
  <2>1. PICK w \in Writers(l) : Owns(l, w, o)
    BY SomeOwner
  <2>2. PICK s \in SpanStarts(l, w) : s <= o /\ o < s + e
    BY <1>2, <2>1, OwnedInSpan
  <2> QED
    BY <2>2 DEF Starts
<1>3. ASSUME NEW s \in Starts(l)
      PROVE  /\ \E q \in Nat : s = q * e
             /\ \A o \in Nat : s <= o /\ o < s + e => o < T
  <2>1. PICK w \in Writers(l) : s \in SpanStarts(l, w)
    BY DEF Starts
  <2> QED
    BY <2>1, StartIsMultiple, SpanOwned
<1> HIDE DEF T, e
<1>4. \A i, j, k \in Nat : (i < j => i * k + k <= j * k) /\ i * k \in Nat /\ (i + 1) * k = i * k + k /\ (i <= j => i * k <= j * k)
  BY Z3
<1>5. PICK p \in Starts(l) : p <= T - 1 /\ T - 1 < p + e
  <2>1. T - 1 \in Nat /\ T - 1 < T
    BY <1>1
  <2> QED
    BY <1>2, <2>1
<1>6. PICK r \in Nat : p = r * e
  BY <1>3
<1>7. p \in Nat
  BY <1>1, <1>4, <1>6
<1>8. T = p + e
  <2> DEFINE o == (p + e) - 1
  <2>1. o \in Nat /\ p <= o /\ o < p + e
    BY <1>1, <1>7
  <2>2. o < T
    BY <1>3, <2>1
  <2> QED
    BY <1>1, <1>5, <1>7, <2>2
<1> DEFINE n == r + 1
<1>9. n \in Nat \ {0} /\ T = n * e
  <2>1. n * e = r * e + e
    BY <1>1, <1>4
  <2> QED
    BY <1>6, <1>8, <2>1
<1> HIDE DEF n
<1>10. ASSUME NEW s \in Starts(l) PROVE s \in Multiples(n, e)
  <2>1. PICK q \in Nat : s = q * e
    BY <1>3
  <2>2. s \in Nat /\ s < T
    <3>1. s \in Nat
      BY <1>1, <1>4, <2>1
    <3>2. s <= s /\ s < s + e
      BY <1>1, <3>1
    <3> QED
      BY <1>3, <3>1, <3>2
  <2>3. ~(n <= q)
    <3>1. SUFFICES ASSUME n <= q PROVE FALSE
      OBVIOUS
    <3>2. n * e <= q * e
      BY <1>1, <1>4, <1>9, <3>1
    <3>3. T <= s
      BY <1>9, <2>1, <3>2, Zenon
    <3> QED
      BY <1>1, <2>2, <3>3
  <2>4. q \in 0 .. n - 1
    BY <1>9, <2>3
  <2> QED
    BY <2>1, <2>4 DEF Multiples
<1>11. ASSUME NEW o \in Multiples(n, e) PROVE o \in Starts(l)
  <2>1. PICK q \in 0 .. n - 1 : o = q * e
    BY DEF Multiples
  <2>2. q \in Nat /\ q < n
    BY <1>9
  <2>3. o \in Nat /\ o + e <= T
    BY <1>1, <1>4, <1>9, <2>1, <2>2
  <2>4. o < T
    BY <1>1, <2>3
  <2>5. PICK s \in Starts(l) : s <= o /\ o < s + e
    BY <1>2, <2>3, <2>4
  <2>6. PICK t \in Nat : s = t * e
    BY <1>3
  <2>7. o \div e = t
    BY <1>1, <2>3, <2>5, <2>6, InPart
  <2>8. o \div e = q
    <3>1. q * e <= o /\ o < q * e + e
      BY <1>1, <2>1, <2>3
    <3> QED
      BY <1>1, <2>2, <2>3, <3>1, InPart
  <2> QED
    BY <2>1, <2>5, <2>6, <2>7, <2>8
<1>12. Starts(l) = Multiples(n, e)
  BY <1>10, <1>11
<1> QED
  BY <1>9, <1>12 DEF T, e

(* So the table has the spans in order, from the first byte to the last.   *)
LEMMA PlanIs ==
  ASSUME NEW l, IsEven(l)
  PROVE  \E n \in Nat \ {0} :
           /\ TotalBytes(l) = n * SpanLen(l) /\ Starts(l) = Multiples(n, SpanLen(l))
           /\ Len(DispatchSpans(l)) = n /\ DOMAIN DispatchSpans(l) = 1 .. n
           /\ \A i \in 1 .. n : DispatchSpans(l)[i] = SpanOf(l, (i - 1) * SpanLen(l))
<1> DEFINE e == SpanLen(l)
           U == Starts(l)
<1>1. e \in Nat \ {0}
  BY SpanLenType
<1>2. PICK n \in Nat \ {0} : TotalBytes(l) = n * e /\ U = Multiples(n, e)
  BY StartsFill
<1> HIDE DEF e, U
<1>3. U \in SUBSET Nat /\ IsFiniteSet(U) /\ Cardinality(U) = n
  BY <1>1, <1>2, MultiplesCount
<1>4. ASSUME NEW i \in 1 .. n PROVE Sorted(U)[i] = (i - 1) * e
  <2> DEFINE q == i - 1
             x == q * e
  <2>1. q \in Nat /\ q \in 0 .. n - 1 /\ i \in Nat /\ q = i - 1
    BY <1>2
  <2> HIDE DEF q
  <2>2. \A a, b, k \in Nat : (a < b => a * k + k <= b * k) /\ a * k \in Nat /\ (a <= b => a * k <= b * k)
    BY Z3
  <2>3. x \in U
    BY <1>2, <2>1 DEF Multiples
  <2>4. \A j \in 0 .. n - 1 : j * e < x <=> j \in 0 .. q - 1
    <3> TAKE j \in 0 .. n - 1
    <3>1. j \in Nat /\ q \in Nat
      BY <2>1
    <3> DEFINE y == j * e
    <3>2. (j < q => y + e <= x) /\ (q <= j => x <= y) /\ x \in Nat /\ y \in Nat
      BY <1>1, <2>2, <3>1
    <3> HIDE DEF x, y
    <3>3. y < x <=> j \in 0 .. q - 1
      BY <1>1, <3>1, <3>2
    <3> QED
      BY <3>3 DEF y
  <2>5. {y \in U : y < x} = Multiples(q, e)
    <3>1. \A j \in 0 .. q - 1 : j \in 0 .. n - 1
      BY <1>2, <2>1
    <3> HIDE DEF x
    <3> QED
      BY <1>2, <2>4, <3>1 DEF Multiples
  <2>6. Below(U, x) = i - 1
    BY <1>1, <2>1, <2>5, MultiplesCount DEF Below
  <2> HIDE DEF x
  <2>7. Sorted(U)[i] = x
    BY <1>3, <2>1, <2>3, <2>6, SortedRight
  <2> QED
    BY <2>1, <2>7 DEF x
<1>5. Sorted(U) \in Seq(U) /\ Len(Sorted(U)) = n
  BY <1>3, SortedRight
<1>6. DispatchSpans(l) = [i \in 1 .. Len(Sorted(U)) |-> SpanOf(l, Sorted(U)[i])]
  BY Zenon DEF DispatchSpans, U, Starts
<1>7. DispatchSpans(l) = [i \in 1 .. n |-> SpanOf(l, (i - 1) * e)]
  BY <1>4, <1>5, <1>6, Zenon
<1>8. DOMAIN DispatchSpans(l) = 1 .. n /\ \A i \in 1 .. n : DispatchSpans(l)[i] = SpanOf(l, (i - 1) * e)
  BY <1>7, Zenon
<1>9. Len(DispatchSpans(l)) = n
  BY <1>2, <1>8, PlanType
<1> QED
  BY <1>2, <1>8, <1>9 DEF e, U

LEMMA SpanEnds ==
  ASSUME NEW l, NEW s
  PROVE  SpanOf(l, s).start = s /\ SpanOf(l, s).end = s + SpanLen(l)
<1> DEFINE ws == Sorted({w \in Writers(l) : s \in SpanStarts(l, w)})
<1>1. SpanOf(l, s) = [start |-> s, end |-> s + SpanLen(l), primary_writer |-> ws[1], mirror_writers |-> Tail(ws)]
  BY Zenon DEF SpanOf
<1> HIDE DEF ws
<1> QED
  BY <1>1

(* No plan is refused.                                                     *)
LEMMA PlanTiles ==
  ASSUME NEW l, IsEven(l)
  PROVE  Tiles(DispatchSpans(l), TotalBytes(l))
<1> DEFINE e == SpanLen(l)
           P == DispatchSpans(l)
           T == TotalBytes(l)
<1>1. PICK n \in Nat \ {0} :
        /\ T = n * e /\ Len(P) = n /\ DOMAIN P = 1 .. n
        /\ \A i \in 1 .. n : P[i] = SpanOf(l, (i - 1) * e)
  BY PlanIs
<1>2. e \in Nat \ {0}
  BY SpanLenType
<1> HIDE DEF P, T, e
<1>3. \A i \in 1 .. n : P[i].start = (i - 1) * e /\ P[i].end = (i - 1) * e + e
  BY <1>1, SpanEnds DEF e
<1>4. \A i \in Nat : (i + 1) * e = i * e + e /\ i * e \in Nat
  <2>1. \A i, j \in Nat : (i + 1) * j = i * j + j /\ i * j \in Nat
    BY Z3
  <2> QED
    BY <1>2, <2>1
<1>5. P # <<>> /\ P[1].start = 0
  <2>1. 1 \in 1 .. n /\ 1 - 1 = 0
    BY <1>1
  <2>2. P[1].start = 0 * e
    BY <1>3, <2>1
  <2>3. 0 * e = 0
    BY <1>2
  <2> QED
    BY <1>1, <2>2, <2>3
<1>6. Last(P).end = T
  <2>1. n \in 1 .. n /\ n - 1 \in Nat /\ (n - 1) + 1 = n
    BY <1>1
  <2>2. P[n].end = (n - 1) * e + e
    BY <1>3, <2>1
  <2>3. n * e = (n - 1) * e + e
    BY <1>4, <2>1
  <2> QED
    BY <1>1, <2>2, <2>3, Zenon DEF Last
<1>7. ASSUME NEW i \in 1 .. n - 1 PROVE P[i].end = P[i + 1].start
  <2>1. i \in 1 .. n /\ i + 1 \in 1 .. n /\ i - 1 \in Nat /\ (i - 1) + 1 = i /\ (i + 1) - 1 = i
    BY <1>1
  <2>2. P[i].end = (i - 1) * e + e /\ P[i + 1].start = i * e
    BY <1>3, <2>1
  <2>3. i * e = (i - 1) * e + e
    BY <1>4, <2>1
  <2> QED
    BY <2>2, <2>3, Zenon
<1> QED
  BY <1>1, <1>5, <1>6, <1>7 DEF Tiles, P, T

(* Every byte is in one span, whose writers are its owners.                *)
LEMMA PlanRight ==
  ASSUME NEW l, IsEven(l), NEW o \in 0 .. TotalBytes(l) - 1
  PROVE  \E i \in DOMAIN DispatchSpans(l) :
           LET P == DispatchSpans(l)
               to == <<P[i].primary_writer>> \o P[i].mirror_writers
           IN /\ o \in P[i].start .. P[i].end - 1
              /\ \A j \in DOMAIN P \ {i} : o \notin P[j].start .. P[j].end - 1
              /\ IsInjective(to)
              /\ Range(to) = {w \in Writers(l) : Owns(l, w, o)}
<1> DEFINE e == SpanLen(l)
           P == DispatchSpans(l)
           T == TotalBytes(l)
           q == o \div e
           i == q + 1
           s == q * e
<1>1. PICK n \in Nat \ {0} :
        /\ T = n * e /\ Starts(l) = Multiples(n, e) /\ DOMAIN P = 1 .. n
        /\ \A j \in 1 .. n : P[j] = SpanOf(l, (j - 1) * e)
  BY PlanIs
<1>2. e \in Nat \ {0} /\ T \in Nat \ {0} /\ o \in Nat /\ o < T
  BY StrideType, SpanLenType DEF IsEven
<1>3. q \in Nat /\ s <= o /\ o < s + e
  BY <1>2, Division
<1>4. q < n
  <2>1. \A a, b, k \in Nat : (a <= b => a * k <= b * k) /\ a * k \in Nat
    BY Z3
  <2>2. SUFFICES ASSUME n <= q PROVE FALSE
    BY <1>1, <1>3
  <2>3. n * e <= q * e /\ q * e \in Nat /\ n * e \in Nat
    BY <1>1, <1>2, <1>3, <2>1, <2>2
  <2> HIDE DEF e, T
  <2> QED
    BY <1>1, <1>2, <1>3, <2>3
<1> HIDE DEF q, e, T, P
<1>5. s \in Nat
  <2>1. \A a, k \in Nat : a * k \in Nat
    BY Z3
  <2> QED
    BY <1>2, <1>3, <2>1
<1>6. i \in 1 .. n /\ i - 1 = q /\ q \in 0 .. n - 1
  BY <1>1, <1>3, <1>4
<1>7. s \in Starts(l)
  BY <1>1, <1>6 DEF Multiples
<1> HIDE DEF i
<1> DEFINE S == {w \in Writers(l) : s \in SpanStarts(l, w)}
           ws == Sorted(S)
<1>8. P[i] = [start |-> s, end |-> s + e, primary_writer |-> ws[1], mirror_writers |-> Tail(ws)]
  BY <1>1, <1>6, Zenon DEF SpanOf, e
<1>9. S = {w \in Writers(l) : Owns(l, w, o)}
  <2>1. ASSUME NEW w \in Writers(l), s \in SpanStarts(l, w) PROVE Owns(l, w, o)
    BY <1>2, <1>3, <2>1, SpanOwned DEF e
  <2>2. ASSUME NEW w \in Writers(l), Owns(l, w, o) PROVE s \in SpanStarts(l, w)
    <3>1. PICK t \in SpanStarts(l, w) : t <= o /\ o < t + e
      BY <1>2, <2>2, OwnedInSpan DEF e, T
    <3>2. PICK r \in Nat : t = r * e
      BY StartIsMultiple DEF e
    <3>3. o \div e = r
      BY <1>2, <3>1, <3>2, InPart
    <3> QED
      BY <3>1, <3>2, <3>3 DEF q
  <2> QED
    BY <2>1, <2>2
<1> HIDE DEF s
<1>10. S \in SUBSET Nat /\ IsFiniteSet(S) /\ S # {}
  <2>1. Writers(l) = 1 .. Product(l.mesh) /\ Product(l.mesh) \in Nat
    BY StrideType DEF IsEven
  <2>2. IsFiniteSet(Writers(l)) /\ Writers(l) \subseteq Nat
    BY <2>1, FS_Interval
  <2>3. S \subseteq Writers(l)
    OBVIOUS
  <2>4. S # {}
    BY <1>7 DEF Starts
  <2> QED
    BY <2>2, <2>3, <2>4, FS_Subset
<1> HIDE DEF S
<1>11. /\ ws \in Seq(S) /\ Len(ws) = Cardinality(S) /\ Cardinality(S) \in Nat
       /\ \A j \in 1 .. Len(ws) : ws[j] \in S
       /\ \A j, k \in 1 .. Len(ws) : ws[j] = ws[k] => j = k
       /\ \A x \in S : \E j \in 1 .. Len(ws) : ws[j] = x
  <2>1. /\ ws \in Seq(S) /\ Len(ws) = Cardinality(S) /\ Cardinality(S) \in Nat
        /\ \A j \in 1 .. Len(ws) : ws[j] \in S
        /\ \A j, k \in 1 .. Len(ws) : ws[j] = ws[k] => j = k
    BY <1>10, SortedRight
  <2>2. ASSUME NEW x \in S PROVE \E j \in 1 .. Len(ws) : ws[j] = x
    <3>1. Below(S, x) \in 0 .. Cardinality(S) - 1
      BY <1>10, Ranks
    <3> DEFINE j == Below(S, x) + 1
    <3>2. j \in Nat /\ Below(S, x) = j - 1
      BY <2>1, <3>1
    <3> HIDE DEF j
    <3>3. j \in 1 .. Cardinality(S) /\ ws[j] = x
      BY <1>10, <3>2, SortedRight
    <3> QED
      BY <2>1, <3>3
  <2> QED
    BY <2>1, <2>2
<1>12. Len(ws) # 0
  BY <1>10, <1>11, FS_EmptySet
<1> HIDE DEF ws
<1>13. <<ws[1]>> \o Tail(ws) = ws
  BY <1>11, <1>12
<1>14. DOMAIN ws = 1 .. Len(ws)
  BY <1>11
<1>15. IsInjective(ws) /\ Range(ws) = S
  <2>1. IsInjective(ws)
    BY <1>11, <1>14 DEF IsInjective
  <2>2. Range(ws) = S
    BY <1>11, <1>14 DEF Range
  <2> QED
    BY <2>1, <2>2
<1>16. ASSUME NEW j \in DOMAIN P \ {i} PROVE o \notin P[j].start .. P[j].end - 1
  <2>1. j \in 1 .. n /\ j # i /\ j - 1 \in Nat /\ j - 1 # q
    <3>1. j \in 1 .. n /\ j # i /\ i = q + 1
      BY <1>1 DEF i
    <3> QED
      BY <1>3, <3>1
  <2> DEFINE t == (j - 1) * e
  <2>2. P[j].start = t /\ P[j].end = t + e
    BY <1>1, <2>1, SpanEnds DEF e
  <2>3. t \in Nat
    <3>1. \A a, k \in Nat : a * k \in Nat
      BY Z3
    <3> QED
      BY <1>2, <2>1, <3>1
  <2>4. ~(t <= o /\ o < t + e)
    <3>1. SUFFICES ASSUME t <= o, o < t + e PROVE FALSE
      OBVIOUS
    <3>2. o \div e = j - 1
      BY <1>2, <2>1, <3>1, InPart
    <3> QED
      BY <2>1, <3>2 DEF q
  <2> HIDE DEF t
  <2> QED
    BY <1>2, <2>2, <2>3, <2>4
<1>17. o \in P[i].start .. P[i].end - 1
  BY <1>2, <1>3, <1>5, <1>8 DEF s
<1>18. <<P[i].primary_writer>> \o P[i].mirror_writers = ws
  BY <1>8, <1>13
<1>19. i \in DOMAIN P
  BY <1>1, <1>6
<1> QED
  BY <1>9, <1>15, <1>16, <1>17, <1>18, <1>19, Zenon DEF P

-----------------------------------------------------------------------------
(* The plan                                                                *)

Setting == layout \in Layouts /\ dma_chunk_size \in ChunkSizes /\ spans = DispatchSpans(layout)

LEMMA Numbers ==
  ASSUME Setting
  PROVE  /\ Total \in Nat \ {0} /\ Quota \in Nat \ {0} /\ Quota <= Total
         /\ dma_chunk_size \in Nat \ {0} /\ SpanLen(layout) \in Nat \ {0}
         /\ All \in SUBSET Nat
<1>1. IsEven(layout) /\ IsLayout(layout) /\ dma_chunk_size \in Nat \ {0}
  BY ScatterAssumption DEF Setting, IsEven
<1>2. All \in SUBSET Nat
  BY <1>1, StrideType DEF All
<1> QED
  BY <1>1, <1>2, StrideType, ShardType, SpanLenType DEF Total, Quota

LEMMA Spans ==
  ASSUME Setting
  PROVE  /\ Len(spans) \in Nat /\ DOMAIN spans = 1 .. Len(spans)
         /\ \A i \in 1 .. Len(spans) :
              /\ spans[i].start \in Nat /\ spans[i].end = spans[i].start + SpanLen(layout)
              /\ spans[i].primary_writer \in All
              /\ spans[i].mirror_writers \in Seq(All)
              /\ \A j \in 1 .. Len(spans[i].mirror_writers) :
                   spans[i].mirror_writers[j] # spans[i].primary_writer
              /\ \A j, k \in 1 .. Len(spans[i].mirror_writers) :
                   spans[i].mirror_writers[j] = spans[i].mirror_writers[k] => j = k
<1>1. IsEven(layout) /\ spans = DispatchSpans(layout)
  BY ScatterAssumption DEF Setting, IsEven
<1> QED
  BY <1>1, PlanType DEF All

(* Spans that tile the tensor end within it.                               *)
LEMMA TilesEnd ==
  ASSUME Setting, Tiles(spans, Total)
  PROVE  /\ Len(spans) \in Nat \ {0} /\ spans[1].start = 0 /\ spans[Len(spans)].end = Total
         /\ \A i \in 1 .. Len(spans) - 1 : spans[i].end = spans[i + 1].start
         /\ \A i \in 1 .. Len(spans) : spans[i].end <= Total
<1> DEFINE N == Len(spans)
           S == {k \in 0 .. N - 1 : spans[N - k].end <= Total}
<1>0. N \in Nat /\ DOMAIN spans = 1 .. N
  BY Spans
<1>1. N # 0
  <2>1. spans # <<>> /\ spans \in Seq({spans[i] : i \in 1 .. N})
    <3>1. spans = [i \in 1 .. N |-> spans[i]]
      BY Spans DEF Setting, DispatchSpans
    <3> QED
      BY <1>0, <3>1 DEF Tiles
  <2> QED
    BY <2>1, EmptySeq
<1>2. /\ spans[1].start = 0 /\ spans[N].end = Total
      /\ \A i \in 1 .. N - 1 : spans[i].end = spans[i + 1].start
  BY DEF Tiles, Last
<1>3. Total \in Nat /\ SpanLen(layout) \in Nat
  BY Numbers
<1>4. 0 \in S
  BY <1>0, <1>1, <1>2, <1>3
<1>5. ASSUME NEW k \in 0 .. (N - 1) - 1, k \in S PROVE k + 1 \in S
  <2>1. N - k \in 1 .. N /\ N - (k + 1) \in 1 .. N - 1 /\ N - (k + 1) \in 1 .. N
        /\ (N - (k + 1)) + 1 = N - k /\ k + 1 \in 0 .. N - 1
    BY <1>0, <1>1
  <2>2. spans[N - (k + 1)].end = spans[N - k].start
    BY <1>2, <2>1
  <2>3. spans[N - k].start \in Nat /\ spans[N - k].end = spans[N - k].start + SpanLen(layout)
    BY <2>1, Spans
  <2>4. spans[N - k].end <= Total
    BY <1>5
  <2>5. spans[N - (k + 1)].end <= Total
    BY <1>3, <2>2, <2>3, <2>4
  <2> QED
    BY <2>1, <2>5
<1> HIDE DEF S
<1>6. 0 .. N - 1 \subseteq S
  <2>1. N - 1 \in Nat
    BY <1>0, <1>1
  <2> QED
    BY <1>4, <1>5, <2>1, InductionUpTo
<1>7. ASSUME NEW i \in 1 .. N PROVE spans[i].end <= Total
  <2>1. N - i \in 0 .. N - 1 /\ N - (N - i) = i
    BY <1>0
  <2>2. N - i \in S
    BY <1>6, <2>1
  <2> QED
    BY <2>1, <2>2 DEF S
<1> QED
  BY <1>0, <1>1, <1>2, <1>7

-----------------------------------------------------------------------------
(* A shard writer                                                          *)

LEMMA ShardFacts ==
  ASSUME Setting, NEW s \in Shards
  PROVE  /\ s.end \in Nat /\ s.offset \in Nat /\ s.len \in Nat /\ s.end <= s.len /\ s.len <= dma_chunk_size
         /\ s.offset + s.len <= Quota /\ s.offset <= Quota
         /\ s.len = Smaller(dma_chunk_size, Quota - s.offset)
         /\ s.block \in [1 .. dma_chunk_size -> Nat] /\ s.dev \in [1 .. Quota -> Nat]
BY Numbers DEF Shards, Smaller

LEMMA PutRight ==
  ASSUME Setting, NEW s \in Shards, NEW at \in Nat, NEW bytes \in Seq(Nat),
         at + Len(bytes) <= dma_chunk_size
  PROVE  /\ Put(s, at, bytes) \in Shards
         /\ Put(s, at, bytes) = [s EXCEPT !.block = Put(s, at, bytes).block]
         /\ \A i \in 1 .. dma_chunk_size :
              Put(s, at, bytes).block[i] = IF at < i /\ i <= at + Len(bytes) THEN bytes[i - at] ELSE s.block[i]
<1> DEFINE b == [i \in 1 .. dma_chunk_size |->
                   IF at < i /\ i <= at + Len(bytes) THEN bytes[i - at] ELSE s.block[i]]
<1>1. s.block \in [1 .. dma_chunk_size -> Nat] /\ dma_chunk_size \in Nat
  BY ShardFacts, Numbers
<1>2. Put(s, at, bytes) = [s EXCEPT !.block = b]
  BY <1>1 DEF Put, Shards
<1>3. b \in [1 .. dma_chunk_size -> Nat]
  <2>1. ASSUME NEW i \in 1 .. dma_chunk_size, at < i, i <= at + Len(bytes) PROVE bytes[i - at] \in Nat
    <3>1. i - at \in 1 .. Len(bytes)
      BY <1>1, <2>1
    <3> QED
      BY <3>1, ElementOfSeq
  <2> QED
    BY <1>1, <2>1
<1>4. \A i \in 1 .. dma_chunk_size : b[i] = IF at < i /\ i <= at + Len(bytes) THEN bytes[i - at] ELSE s.block[i]
  OBVIOUS
<1> HIDE DEF b
<1>5. Put(s, at, bytes) \in Shards /\ Put(s, at, bytes).block = b
  BY <1>2, <1>3 DEF Shards
<1> QED
  BY <1>2, <1>4, <1>5

LEMMA AppendedRight ==
  ASSUME Setting, NEW s \in Shards, NEW bytes \in Seq(Nat), s.end + Len(bytes) <= s.len
  PROVE  LET t == Appended(s, bytes) IN
         /\ t \in Shards /\ t.end = s.end + Len(bytes) /\ t.len = s.len /\ t.offset = s.offset /\ t.dev = s.dev
         /\ \A i \in 1 .. dma_chunk_size :
              t.block[i] = IF s.end < i /\ i <= s.end + Len(bytes) THEN bytes[i - s.end] ELSE s.block[i]
<1>1. s.end \in Nat /\ s.len \in Nat /\ s.len <= dma_chunk_size /\ dma_chunk_size \in Nat /\ Len(bytes) \in Nat
  BY ShardFacts, Numbers
<1>2. s.end + Len(bytes) <= dma_chunk_size
  BY <1>1
<1> DEFINE p == Put(s, s.end, bytes)
<1>3. /\ p \in Shards /\ p = [s EXCEPT !.block = p.block]
      /\ \A i \in 1 .. dma_chunk_size :
           p.block[i] = IF s.end < i /\ i <= s.end + Len(bytes) THEN bytes[i - s.end] ELSE s.block[i]
  BY <1>1, <1>2, PutRight
<1>4. Appended(s, bytes) = [p EXCEPT !.end = p.end + Len(bytes)]
  BY DEF Appended
<1> HIDE DEF p
<1>5. p.end = s.end /\ p.len = s.len /\ p.offset = s.offset /\ p.dev = s.dev
  BY <1>3 DEF Shards
<1> DEFINE e == s.end + Len(bytes)
<1>6. e \in Nat /\ e <= p.len /\ Appended(s, bytes) = [p EXCEPT !.end = e]
  BY <1>1, <1>4, <1>5
<1> HIDE DEF e
<1>7. LET t == [p EXCEPT !.end = e] IN
      t \in Shards /\ t.end = e /\ t.len = p.len /\ t.offset = p.offset /\ t.dev = p.dev /\ t.block = p.block
  BY <1>3, <1>6 DEF Shards
<1> QED
  BY <1>3, <1>5, <1>6, <1>7 DEF e

(* A hand-over empties the block, if it is not empty, and moves the offset *)
(* by what the block held.                                                 *)
LEMMA FlushedRight ==
  ASSUME Setting, NEW s \in Shards
  PROVE  LET t == Flushed(s) IN
         /\ t \in Shards /\ t.end = 0 /\ t.offset = s.offset + s.end
         /\ \A o \in 1 .. Quota : t.dev[o] = IF s.offset < o /\ o <= s.offset + s.end
                                           THEN s.block[o - s.offset] ELSE s.dev[o]
<1>0. dma_chunk_size \in Nat \ {0} /\ Quota \in Nat \ {0}
  BY Numbers
<1>1. /\ s.end \in Nat /\ s.offset \in Nat /\ s.len \in Nat /\ s.end <= s.len /\ s.len <= dma_chunk_size
      /\ s.offset + s.len <= Quota /\ s.offset <= Quota
      /\ s.block \in [1 .. dma_chunk_size -> Nat] /\ s.dev \in [1 .. Quota -> Nat]
  BY ShardFacts
<1>2. CASE s.offset >= Quota \/ s.end = 0
  <2>1. Flushed(s) = s
    BY <1>2 DEF Flushed
  <2>2. s.end = 0
    BY <1>0, <1>1, <1>2
  <2>3. \A o \in 1 .. Quota : ~(s.offset < o /\ o <= s.offset + 0)
    BY <1>0, <1>1
  <2> QED
    BY <1>1, <2>1, <2>2, <2>3
<1>3. CASE ~(s.offset >= Quota \/ s.end = 0)
  <2> DEFINE to == s.offset + s.end
             d == [o \in 1 .. Quota |-> IF s.offset < o /\ o <= to THEN s.block[o - s.offset] ELSE s.dev[o]]
             n == Smaller(dma_chunk_size, Quota - to)
             z == Zeros(dma_chunk_size)
  <2>1. Flushed(s) = [block |-> z, end |-> 0, offset |-> to, len |-> n, dev |-> d]
    BY <1>3 DEF Flushed
  <2>2. to \in 0 .. Quota
    BY <1>0, <1>1
  <2>3. n \in Nat /\ 0 <= n
    BY <1>0, <2>2 DEF Smaller
  <2>4. z \in [1 .. dma_chunk_size -> Nat]
    BY DEF Zeros
  <2>5. d \in [1 .. Quota -> Nat]
    <3>1. ASSUME NEW o \in 1 .. Quota, s.offset < o, o <= to PROVE s.block[o - s.offset] \in Nat
      <4>0. o \in Int /\ o <= s.offset + s.end
        BY <3>1
      <4>1. o - s.offset \in 1 .. dma_chunk_size
        <5>1. s.offset < o /\ s.offset \in Int /\ s.end \in Int /\ s.end <= dma_chunk_size /\ dma_chunk_size \in Int
          BY <1>0, <1>1, <3>1
        <5> HIDE DEF to
        <5> QED
          BY <4>0, <5>1
      <4> QED
        BY <1>1, <4>1
    <3> QED
      BY <1>1, <3>1
  <2>6. \A o \in 1 .. Quota : d[o] = IF s.offset < o /\ o <= to THEN s.block[o - s.offset] ELSE s.dev[o]
    OBVIOUS
  <2>7. n = Smaller(dma_chunk_size, Quota - to)
    OBVIOUS
  <2> HIDE DEF d, z, n
  <2>8. Flushed(s) \in Shards
    BY <2>1, <2>2, <2>3, <2>4, <2>5, <2>7 DEF Shards
  <2> QED
    BY <2>1, <2>6, <2>8
<1> QED
  BY <1>2, <1>3

(* Bytes that are not refused fit behind a hand-over at the latest.        *)
LEMMA WriteAllRight ==
  ASSUME Setting, NEW s \in Shards, NEW bytes \in Seq(Nat), ~Refuses(s, Len(bytes))
  PROVE  /\ WriteAll(s, bytes) \in Shards
         /\ ~Fits(s, Len(bytes)) => Flushed(s) \in Shards /\ Flushed(s).end + Len(bytes) <= Flushed(s).len
<1>1. Len(bytes) \in Nat /\ dma_chunk_size \in Nat /\ Quota \in Nat
  BY Numbers
<1>2. CASE Fits(s, Len(bytes))
  <2>1. s.end + Len(bytes) <= s.len
    BY <1>2 DEF Fits
  <2> QED
    BY <1>2, <2>1, AppendedRight DEF WriteAll
<1>3. CASE ~Fits(s, Len(bytes))
  <2> DEFINE t == Flushed(s)
             u == Appended(t, bytes)
  <2>1. t \in Shards /\ t.end = 0 /\ t.offset = s.offset + s.end
    BY FlushedRight
  <2>2. t.len = Smaller(dma_chunk_size, Quota - t.offset)
    BY <2>1, ShardFacts
  <2>3. s.end \in Nat /\ s.offset \in Nat /\ s.len \in Nat /\ s.len <= dma_chunk_size
    BY ShardFacts
  <2>4. Len(bytes) <= s.len /\ Len(bytes) <= Quota - (s.offset + s.end)
    BY <1>1, <1>3, <2>3 DEF Refuses
  <2>5. Len(bytes) <= t.len
    BY <1>1, <2>1, <2>2, <2>3, <2>4 DEF Smaller
  <2>6. t.end + Len(bytes) <= t.len
    BY <1>1, <2>1, <2>5
  <2>7. u \in Shards
    BY <2>1, <2>6, AppendedRight
  <2>8. Flushed(u) \in Shards
    BY <2>7, FlushedRight
  <2>9. WriteAll(s, bytes) \in {u, Flushed(u)}
    BY <1>3 DEF WriteAll
  <2> QED
    BY <2>1, <2>6, <2>7, <2>8, <2>9
<1> QED
  BY <1>2, <1>3

LEMMA ChunkRight ==
  ASSUME Setting, NEW sh, sh[active] \in Shards, NEW from \in Nat, NEW n \in Nat, from + n <= dma_chunk_size
  PROVE  /\ Chunk(sh, from, n) \in Seq(Nat) /\ Len(Chunk(sh, from, n)) = n
         /\ \A i \in 1 .. n : Chunk(sh, from, n)[i] = sh[active].block[from + i]
<1> DEFINE b == sh[active].block
<1>1. b \in [1 .. dma_chunk_size -> Nat] /\ dma_chunk_size \in Nat
  BY ShardFacts, Numbers
<1>2. \A i \in from + 1 .. from + n : b[i] \in Nat
  BY <1>1
<1>3. from + 1 \in Int /\ from + n \in Int
  OBVIOUS
<1> HIDE DEF b
<1>4. /\ SubSeq(b, from + 1, from + n) \in Seq(Nat)
      /\ Len(SubSeq(b, from + 1, from + n)) = IF from + 1 <= from + n THEN (from + n) - (from + 1) + 1 ELSE 0
      /\ \A i \in 1 .. (from + n) - (from + 1) + 1 : SubSeq(b, from + 1, from + n)[i] = b[(from + 1) + i - 1]
  BY <1>2, <1>3, SubSeqProperties
<1>5. Chunk(sh, from, n) = SubSeq(b, from + 1, from + n)
  BY DEF Chunk, b
<1>6. \A i \in 1 .. n : (from + 1) + i - 1 = from + i /\ i \in 1 .. (from + n) - (from + 1) + 1
  OBVIOUS
<1>7. (IF from + 1 <= from + n THEN (from + n) - (from + 1) + 1 ELSE 0) = n
  OBVIOUS
<1> QED
  BY <1>4, <1>5, <1>6, <1>7 DEF b

(* The same bytes are read from two blocks that agree on them.             *)
LEMMA SameChunk ==
  ASSUME Setting, NEW sh, sh[active] \in Shards, NEW si, si[active] \in Shards,
         NEW from \in Nat, NEW n \in Nat, from + n <= dma_chunk_size,
         \A i \in from + 1 .. from + n : sh[active].block[i] = si[active].block[i]
  PROVE  Chunk(sh, from, n) = Chunk(si, from, n)
<1>1. \A i \in 1 .. n : sh[active].block[from + i] = si[active].block[from + i]
  <2>1. \A i \in 1 .. n : from + i \in from + 1 .. from + n
    OBVIOUS
  <2> QED
    BY <2>1
<1>2. /\ Chunk(sh, from, n) \in Seq(Nat) /\ Len(Chunk(sh, from, n)) = n
      /\ \A i \in 1 .. n : Chunk(sh, from, n)[i] = sh[active].block[from + i]
  BY ChunkRight
<1>3. /\ Chunk(si, from, n) \in Seq(Nat) /\ Len(Chunk(si, from, n)) = n
      /\ \A i \in 1 .. n : Chunk(si, from, n)[i] = si[active].block[from + i]
  BY ChunkRight
<1> QED
  BY <1>1, <1>2, <1>3, SeqEqual

-----------------------------------------------------------------------------
(* The loop over the writers of a span                                     *)

(* What a writer makes of n bytes of the window.                           *)
Given(w, from, n) ==
  IF w = active THEN Appended(shard[w], Chunk(shard, from, n))
  ELSE WriteAll(shard[w], Chunk(shard, from, n))

Filled(n) == [shard[active] EXCEPT !.end = @ + n]
Mirrors(span) == {span.mirror_writers[j] : j \in 1 .. Len(span.mirror_writers)}
First(span, w, from, n) == IF InPlace(span) THEN Filled(n) ELSE Given(w, from, n)

LEMMA FilledRight ==
  ASSUME Setting, shard \in [All -> Shards], active \in All, NEW n \in Nat,
         shard[active].end + n <= shard[active].len
  PROVE  LET t == Filled(n) IN
         /\ t \in Shards /\ t.end = shard[active].end + n /\ t.block = shard[active].block
         /\ t.len = shard[active].len /\ t.offset = shard[active].offset /\ t.dev = shard[active].dev
<1> DEFINE s == shard[active]
           e == s.end + n
<1>1. s \in Shards /\ s.end \in Nat
  BY ShardFacts
<1>2. e \in Nat /\ e <= s.len /\ Filled(n) = [s EXCEPT !.end = e]
  BY <1>1 DEF Filled
<1> HIDE DEF s, e
<1>3. LET t == [s EXCEPT !.end = e] IN
      t \in Shards /\ t.end = e /\ t.block = s.block /\ t.len = s.len /\ t.offset = s.offset /\ t.dev = s.dev
  BY <1>1, <1>2 DEF Shards
<1> QED
  BY <1>2, <1>3 DEF s, e

(* Every writer of the span is given the bytes the window held before the  *)
(* first of them was: a copy within the active block is one onto itself,   *)
(* or down by no less than it is long.                                     *)
LEMMA ScatteredIs ==
  ASSUME Setting, shard \in [All -> Shards], active \in All,
         NEW span, span.primary_writer \in All, span.mirror_writers \in Seq(All),
         \A j \in 1 .. Len(span.mirror_writers) : span.mirror_writers[j] # span.primary_writer,
         \A j, k \in 1 .. Len(span.mirror_writers) :
           span.mirror_writers[j] = span.mirror_writers[k] => j = k,
         NEW from \in Nat, NEW n \in Nat, from + n <= dma_chunk_size,
         shard[active].end + n <= shard[active].len,
         from = shard[active].end \/ shard[active].end + n <= from
  PROVE  Scattered(span, from, n) =
           [w \in All |-> IF w = span.primary_writer THEN First(span, w, from, n)
                          ELSE IF w \in Mirrors(span) THEN Given(w, from, n) ELSE shard[w]]
<1> DEFINE p == span.primary_writer
           m == span.mirror_writers
           N == Len(m)
           F == IF InPlace(span) THEN [shard EXCEPT ![p].end = @ + n] ELSE Deliver(shard, p, from, n)
           To(k) == {m[j] : j \in 1 .. k}
           At(k) == [w \in All |-> IF w = p THEN First(span, w, from, n)
                                   ELSE IF w \in To(k) THEN Given(w, from, n) ELSE shard[w]]
           C == Chunk(shard, from, n)
<1>0. N \in Nat /\ (\A j \in 1 .. N : m[j] \in All) /\ p \in All
  BY ElementOfSeq
<1>1. C \in Seq(Nat) /\ Len(C) = n /\ \A i \in 1 .. n : C[i] = shard[active].block[from + i]
  <2>1. shard[active] \in Shards
    OBVIOUS
  <2> QED
    BY <2>1, ChunkRight
<1>2. Appended(shard[active], C) \in Shards
      /\ \A i \in 1 .. dma_chunk_size : Appended(shard[active], C).block[i] =
           IF shard[active].end < i /\ i <= shard[active].end + n THEN C[i - shard[active].end]
           ELSE shard[active].block[i]
  BY <1>1, AppendedRight
<1>3. \A i \in from + 1 .. from + n :
        Appended(shard[active], C).block[i] = shard[active].block[i]
  <2> TAKE i \in from + 1 .. from + n
  <2>1. i \in 1 .. dma_chunk_size /\ dma_chunk_size \in Nat /\ shard[active].end \in Nat
    BY Numbers, ShardFacts
  <2>2. CASE from = shard[active].end
    <3>1. i - from \in 1 .. n /\ from + (i - from) = i
      OBVIOUS
    <3>2. C[i - from] = shard[active].block[i]
      BY <1>1, <3>1
    <3> QED
      BY <1>2, <2>1, <2>2, <3>2
  <2>3. CASE shard[active].end + n <= from
    <3>1. ~(i <= shard[active].end + n)
      BY <2>1, <2>3
    <3> QED
      BY <1>2, <2>1, <3>1
  <2> QED
    BY <2>2, <2>3
<1>4. Filled(n) \in Shards /\ Filled(n).block = shard[active].block
  BY FilledRight
<1>5. ASSUME NEW k \in 0 .. N PROVE Chunk(At(k), from, n) = C
  <2>1. At(k)[active] \in {Filled(n), Appended(shard[active], C), shard[active]}
    BY DEF First, Given
  <2>2. At(k)[active] \in Shards
        /\ \A i \in from + 1 .. from + n : At(k)[active].block[i] = shard[active].block[i]
    BY <1>2, <1>3, <1>4, <2>1
  <2> HIDE DEF At
  <2>3. shard[active] \in Shards
    OBVIOUS
  <2> QED
    BY <2>2, <2>3, SameChunk
<1>6. At(0) = F
  <2>1. To(0) = {}
    OBVIOUS
  <2>2. At(0) = [w \in All |-> IF w = p THEN First(span, w, from, n) ELSE shard[w]]
    BY <2>1
  <2>3. CASE InPlace(span)
    <3>1. p = active
      BY <2>3 DEF InPlace
    <3>2. F = [w \in All |-> IF w = p THEN Filled(n) ELSE shard[w]]
      BY <2>3, <3>1 DEF Filled
    <3> QED
      BY <2>2, <2>3, <3>2 DEF First
  <2>4. CASE ~InPlace(span)
    <3>1. F = [w \in All |-> IF w = p THEN Given(w, from, n) ELSE shard[w]]
      BY <2>4 DEF Deliver, Given
    <3> QED
      BY <2>2, <2>4, <3>1 DEF First
  <2> QED
    BY <2>3, <2>4
<1>7. ASSUME NEW k \in 1 .. N PROVE At(k) = Deliver(At(k - 1), m[k], from, n)
  <2>0. k - 1 \in 0 .. N /\ m[k] \in All /\ m[k] # p
    BY <1>0
  <2>1. To(k) = To(k - 1) \cup {m[k]}
    BY <1>0
  <2>2. m[k] \notin To(k - 1)
    <3>1. ASSUME NEW j \in 1 .. k - 1 PROVE m[j] # m[k]
      <4>1. j \in 1 .. N /\ j # k
        BY <1>0
      <4> QED
        BY <4>1
    <3> QED
      BY <3>1
  <2>3. At(k - 1)[m[k]] = shard[m[k]]
    BY <2>0, <2>2
  <2>4. Chunk(At(k - 1), from, n) = C
    BY <1>5, <2>0
  <2>5. Deliver(At(k - 1), m[k], from, n) =
          [At(k - 1) EXCEPT ![m[k]] = IF m[k] = active THEN Appended(shard[m[k]], C) ELSE WriteAll(shard[m[k]], C)]
    BY <2>0, <2>3, <2>4 DEF Deliver
  <2>6. Deliver(At(k - 1), m[k], from, n) = [At(k - 1) EXCEPT ![m[k]] = Given(m[k], from, n)]
    BY <2>5 DEF Given
  <2> HIDE DEF To, C
  <2>7. [At(k - 1) EXCEPT ![m[k]] = Given(m[k], from, n)] =
          [w \in All |-> IF w = m[k] THEN Given(w, from, n) ELSE At(k - 1)[w]]
    BY <2>0
  <2>8. \A w \in All : (IF w = m[k] THEN Given(w, from, n) ELSE At(k - 1)[w]) = At(k)[w]
    BY <2>0, <2>1
  <2>9. At(k) = [w \in All |-> At(k)[w]]
    OBVIOUS
  <2> HIDE DEF At
  <2> QED
    BY <2>6, <2>7, <2>8, <2>9
<1> DEFINE after == CHOOSE h : h = [k \in 0 .. N |-> IF k = 0 THEN F ELSE Deliver(h[k - 1], m[k], from, n)]
<1>8. Scattered(span, from, n) = after[N]
  BY DEF Scattered
<1> HIDE DEF m, F, C, To, At
<1>9. \E h : h = [k \in 0 .. N |-> IF k = 0 THEN F ELSE Deliver(h[k - 1], m[k], from, n)]
  <2> DEFINE h == [k \in 0 .. N |-> At(k)]
  <2>1. \A k \in 0 .. N : h[k] = IF k = 0 THEN F ELSE Deliver(h[k - 1], m[k], from, n)
    <3> TAKE k \in 0 .. N
    <3>1. CASE k = 0
      BY <1>6, <3>1
    <3>2. CASE k # 0
      <4>1. k \in 1 .. N /\ k - 1 \in 0 .. N
        BY <1>0, <3>2
      <4>2. h[k - 1] = At(k - 1) /\ h[k] = At(k)
        BY <4>1
      <4> QED
        BY <1>7, <3>2, <4>1, <4>2
    <3> QED
      BY <3>1, <3>2
  <2>2. h = [k \in 0 .. N |-> IF k = 0 THEN F ELSE Deliver(h[k - 1], m[k], from, n)]
    BY <2>1
  <2> QED
    BY <2>2
<1>10. after = [k \in 0 .. N |-> IF k = 0 THEN F ELSE Deliver(after[k - 1], m[k], from, n)]
  BY <1>9
<1> HIDE DEF after
<1> DEFINE S == {k \in 0 .. N : after[k] = At(k)}
<1>11. 0 \in S
  BY <1>0, <1>6, <1>10
<1>12. ASSUME NEW k \in 0 .. N - 1, k \in S PROVE k + 1 \in S
  <2>1. k + 1 \in 1 .. N /\ k + 1 \in 0 .. N /\ (k + 1) - 1 = k /\ after[k] = At(k) /\ k + 1 # 0
    BY <1>0, <1>12
  <2>2. after[k + 1] = Deliver(after[k], m[k + 1], from, n)
    BY <1>10, <2>1
  <2>3. At(k + 1) = Deliver(At(k), m[k + 1], from, n)
    BY <1>7, <2>1
  <2> QED
    BY <2>1, <2>2, <2>3
<1> HIDE DEF S
<1>13. 0 .. N \subseteq S
  BY <1>0, <1>11, <1>12, InductionUpTo
<1>14. N \in S
  BY <1>0, <1>13
<1> QED
  BY <1>8, <1>14 DEF S, At, To, m, Mirrors

-----------------------------------------------------------------------------
(* ScatterInv                                                              *)

LEMMA PlanKept ==
  ASSUME Setting, UNCHANGED plan
  PROVE  /\ Setting' /\ layout' = layout /\ dma_chunk_size' = dma_chunk_size /\ spans' = spans
         /\ Total' = Total /\ Quota' = Quota /\ All' = All /\ Shards' = Shards
         /\ SpanLen(layout)' = SpanLen(layout) /\ (Tiles(spans, Total) => Tiles(spans, Total)')
<1>1. layout' = layout /\ dma_chunk_size' = dma_chunk_size /\ spans' = spans
  BY DEF plan
<1>2. Total' = Total /\ Quota' = Quota /\ All' = All
  BY <1>1 DEF Total, Quota, All
<1>3. Shards' = Shards
  BY <1>1, <1>2 DEF Shards
<1>4. Tiles(spans, Total) => Tiles(spans, Total)'
  BY <1>1, <1>2 DEF Tiles
<1> QED
  BY <1>1, <1>2, <1>3, <1>4 DEF Setting

(* What a state between failures is known to satisfy.                      *)
LEMMA InvFacts ==
  ASSUME ScatterInv
  PROVE  /\ Setting /\ shard \in [All -> Shards] /\ asked \in Nat
         /\ pc # "failed" =>
              /\ Tiles(spans, Total) /\ Cursor /\ Window /\ Scratch
              /\ byte_cursor \in Nat /\ span_index \in Nat
              /\ IF SpansLeft
                 THEN /\ byte_cursor < Total /\ span_index \in 1 .. Len(spans)
                      /\ spans[span_index].primary_writer \in All
                      /\ byte_cursor \in spans[span_index].start .. spans[span_index].end - 1
                 ELSE byte_cursor = Total
<1>1. Setting /\ shard \in [All -> Shards] /\ asked \in Nat
  BY DEF ScatterInv, Setting
<1>2. ASSUME pc # "failed"
      PROVE  /\ Tiles(spans, Total) /\ Cursor /\ Window /\ Scratch
             /\ byte_cursor \in Nat /\ span_index \in Nat
             /\ IF SpansLeft
                 THEN /\ byte_cursor < Total /\ span_index \in 1 .. Len(spans)
                      /\ spans[span_index].primary_writer \in All
                      /\ byte_cursor \in spans[span_index].start .. spans[span_index].end - 1
                 ELSE byte_cursor = Total
  <2>1. Tiles(spans, Total) /\ Cursor /\ Window /\ Scratch
    BY <1>2 DEF ScatterInv
  <2>2. Len(spans) \in Nat /\ span_index \in 1 .. Len(spans) + 1 /\ byte_cursor \in Nat
    BY <1>1, <2>1, Spans DEF Cursor
  <2>3. ASSUME SpansLeft
        PROVE  /\ byte_cursor < Total /\ span_index \in 1 .. Len(spans)
               /\ spans[span_index].primary_writer \in All
               /\ byte_cursor \in spans[span_index].start .. spans[span_index].end - 1
    <3>1. span_index \in 1 .. Len(spans)
      BY <2>2, <2>3 DEF SpansLeft
    <3>2. spans[span_index].end <= Total /\ spans[span_index].end \in Nat /\ spans[span_index].start \in Nat
          /\ spans[span_index].primary_writer \in All
      BY <1>1, <2>1, <3>1, Spans, TilesEnd, Numbers
    <3>3. byte_cursor \in spans[span_index].start .. spans[span_index].end - 1
      BY <2>1, <2>3 DEF Cursor
    <3> QED
      BY <1>1, <2>2, <3>1, <3>2, <3>3, Numbers
  <2>4. ~SpansLeft => byte_cursor = Total
    BY <2>1 DEF Cursor
  <2> QED
    BY <2>1, <2>2, <2>3, <2>4
<1> QED
  BY <1>1, <1>2

LEMMA ScatterInit ==
  ASSUME Init
  PROVE  ScatterInv
<1>0. Setting /\ layout \in Layouts /\ dma_chunk_size \in ChunkSizes /\ spans = DispatchSpans(layout)
  BY DEF Init, Setting
<1>1. Total \in Nat \ {0} /\ Quota \in Nat \ {0} /\ Quota <= Total /\ dma_chunk_size \in Nat \ {0}
  BY <1>0, Numbers
<1> DEFINE s == [block |-> Zeros(dma_chunk_size), end |-> 0, offset |-> 0,
                 len |-> Smaller(dma_chunk_size, Quota), dev |-> Zeros(Quota)]
<1>2. s \in Shards
  <2>1. Zeros(dma_chunk_size) \in [1 .. dma_chunk_size -> Nat] /\ Zeros(Quota) \in [1 .. Quota -> Nat]
    BY DEF Zeros
  <2>2. Smaller(dma_chunk_size, Quota) \in Nat /\ Smaller(dma_chunk_size, Quota) = Smaller(dma_chunk_size, Quota - 0)
    BY <1>1 DEF Smaller
  <2> QED
    BY <1>1, <2>1, <2>2 DEF Shards
<1>3. shard = [w \in All |-> s]
  BY DEF Init
<1>4. shard \in [All -> Shards] /\ asked = 0 /\ pc \in {"idle", "failed"}
  BY <1>2, <1>3 DEF Init
<1>5. ASSUME pc # "failed" PROVE Tiles(spans, Total) /\ Cursor /\ Window /\ Scratch
  <2>1. Tiles(spans, Total) /\ pc = "idle"
    BY <1>5 DEF Init
  <2>2. /\ Len(spans) \in Nat \ {0} /\ spans[1].start = 0 /\ spans[1].end = 0 + SpanLen(layout)
        /\ SpanLen(layout) \in Nat \ {0} /\ spans[1].primary_writer \in All
    BY <1>0, <2>1, TilesEnd, Spans, Numbers
  <2>3. span_index = 1 /\ byte_cursor = 0 /\ SpansLeft
    BY <2>2 DEF Init, SpansLeft
  <2>4. Cursor
    BY <2>2, <2>3 DEF Cursor
  <2>5. /\ active = spans[1].primary_writer /\ window_start = 0 /\ end = 0
        /\ len = Smaller(dma_chunk_size, Quota) /\ shard[active] = s
    BY <1>3, <2>2 DEF Init
  <2>6. shard[active].len = len /\ shard[active].end = 0
    BY <2>5
  <2>7. len \in Nat \ {0} /\ len <= dma_chunk_size /\ len <= Total
    BY <1>1, <2>5 DEF Smaller
  <2>8. Opened = 0
    BY <2>1, <2>3 DEF Opened
  <2>9. len - window_start <= Smaller(dma_chunk_size - (Opened % dma_chunk_size), Total - Opened)
    <3>1. 0 % dma_chunk_size = 0
      BY <1>1
    <3> QED
      BY <1>1, <2>5, <2>7, <2>8, <3>1 DEF Smaller
  <2>10. Window
    BY <2>1, <2>2, <2>3, <2>5, <2>6, <2>7, <2>8, <2>9 DEF Window
  <2>11. Scratch
    BY <2>1 DEF Scratch
  <2> QED
    BY <2>1, <2>4, <2>10, <2>11
<1> QED
  BY <1>0, <1>4, <1>5 DEF ScatterInv

(* The reader's bytes go behind those of the active block's writer.        *)
LEMMA FillRight ==
  ASSUME Setting, shard \in [All -> Shards], active \in All, end \in Nat, Position \in Nat,
         NEW n \in Nat, end + n <= dma_chunk_size, Fill(n)
  PROVE  /\ shard' \in [All -> Shards] /\ end' = end + n
         /\ \A w \in All \ {active} : shard'[w] = shard[w]
         /\ shard'[active].end = shard[active].end /\ shard'[active].len = shard[active].len
         /\ shard'[active].offset = shard[active].offset /\ shard'[active].dev = shard[active].dev
         /\ \A i \in 1 .. dma_chunk_size :
              shard'[active].block[i] = IF end < i /\ i <= end + n THEN Position + (i - end)
                                        ELSE shard[active].block[i]
<1> DEFINE bytes == [i \in 1 .. n |-> Position + i]
           s == shard[active]
           p == Put(s, end, bytes)
<1>1. bytes \in Seq(Nat) /\ Len(bytes) = n /\ \A i \in 1 .. n : bytes[i] = Position + i
  OBVIOUS
<1>2. shard' = [shard EXCEPT ![active] = p] /\ end' = end + n
  BY DEF Fill, s
<1> HIDE DEF bytes
<1>3. s \in Shards
  OBVIOUS
<1> HIDE DEF s
<1>4. /\ p \in Shards /\ p = [s EXCEPT !.block = p.block]
      /\ \A i \in 1 .. dma_chunk_size :
           p.block[i] = IF end < i /\ i <= end + n THEN bytes[i - end] ELSE s.block[i]
  <2>1. end + Len(bytes) <= dma_chunk_size
    BY <1>1
  <2>2. p \in Shards /\ p = [s EXCEPT !.block = p.block]
    BY <1>1, <1>3, <2>1, PutRight
  <2>3. \A i \in 1 .. dma_chunk_size :
          p.block[i] = IF end < i /\ i <= end + Len(bytes) THEN bytes[i - end] ELSE s.block[i]
    BY <1>1, <1>3, <2>1, PutRight
  <2> HIDE DEF p
  <2> QED
    BY <1>1, <2>2, <2>3
<1> HIDE DEF p
<1>5. p.end = s.end /\ p.len = s.len /\ p.offset = s.offset /\ p.dev = s.dev
  BY <1>3, <1>4 DEF Shards
<1>6. shard'[active] = p /\ shard' \in [All -> Shards] /\ \A w \in All \ {active} : shard'[w] = shard[w]
  BY <1>2, <1>4
<1>7. ASSUME NEW i \in 1 .. dma_chunk_size, end < i, i <= end + n PROVE bytes[i - end] = Position + (i - end)
  <2>1. i - end \in 1 .. n
    BY <1>7
  <2> QED
    BY <1>1, <2>1
<1> QED
  BY <1>2, <1>4, <1>5, <1>6, <1>7 DEF s

(* The state of an open window, spelled out.                               *)
LEMMA OpenWindow ==
  ASSUME ScatterInv, WindowOpen
  PROVE  /\ pc # "failed" /\ active \in All /\ window_start \in Nat /\ len \in Nat /\ end \in Nat
         /\ window_start <= end /\ end <= len /\ window_start < len /\ Opened \in Nat
         /\ shard[active] \in Shards /\ shard[active].end \in Nat /\ shard[active].len \in Nat
         /\ shard[active].end <= shard[active].len
         /\ len <= shard[active].len /\ len <= dma_chunk_size
         /\ len - window_start <= dma_chunk_size - (Opened % dma_chunk_size)
         /\ len - window_start <= Total - Opened
         /\ pc # "scatter" \/ consumed = 0 =>
              active = spans[span_index].primary_writer /\ window_start = shard[active].end
         /\ pc = "return" => end = window_start
         /\ pc # "idle" /\ caller = "flush" => Opened + (end - window_start) = Total
<1>1. Setting /\ shard \in [All -> Shards] /\ pc # "failed" /\ Window
  BY InvFacts DEF WindowOpen
<1>2. /\ active \in All /\ window_start \in Nat /\ len \in Nat /\ end \in window_start .. len
      /\ window_start < len /\ len <= shard[active].len /\ Opened \in Nat
      /\ len - window_start <= Smaller(dma_chunk_size - (Opened % dma_chunk_size), Total - Opened)
      /\ pc # "scatter" \/ consumed = 0 =>
            active = spans[span_index].primary_writer /\ window_start = shard[active].end
      /\ pc = "return" => end = window_start
      /\ pc # "idle" /\ caller = "flush" => Opened + (end - window_start) = Total
  BY <1>1 DEF Window
<1>3. dma_chunk_size \in Nat \ {0} /\ Total \in Nat /\ Opened % dma_chunk_size \in Nat
  BY <1>1, <1>2, Numbers
<1>4. /\ len - window_start <= dma_chunk_size - (Opened % dma_chunk_size)
      /\ len - window_start <= Total - Opened
  BY <1>2, <1>3 DEF Smaller
<1>5. shard[active] \in Shards
  BY <1>1, <1>2
<1>6. shard[active].end \in Nat /\ shard[active].len \in Nat /\ shard[active].end <= shard[active].len
      /\ shard[active].len <= dma_chunk_size
  BY <1>1, <1>5, ShardFacts
<1> QED
  BY <1>1, <1>2, <1>3, <1>4, <1>5, <1>6

LEMMA PositionType ==
  ASSUME ScatterInv, pc \in {"idle", "return", "commit"}, SpansLeft
  PROVE  Position \in Nat /\ Position = Opened + (end - window_start) /\ Opened = byte_cursor
<1>1. WindowOpen /\ pc # "failed"
  BY DEF WindowOpen
<1>2. byte_cursor \in Nat
  BY <1>1, InvFacts
<1> QED
  BY <1>1, <1>2, OpenWindow DEF Position, Opened

(* An empty interface takes no bytes.                                      *)
LEMMA RoomMeansSpans ==
  ASSUME ScatterInv, pc \in {"idle", "return"}, ~SpansLeft
  PROVE  len = 0 /\ end = 0
BY InvFacts DEF Window

LEMMA FillKeeps ==
  ASSUME ScatterInv, pc \in {"idle", "return"}, SpansLeft, NEW n \in Nat, Fill(n), end + n <= len,
         pc' = "idle" \/ (pc' = "commit" /\ caller' # "flush"), asked' \in Nat,
         UNCHANGED <<plan, span_index, byte_cursor, active, window_start, len, consumed>>
  PROVE  ScatterInv'
<1>0. Setting /\ shard \in [All -> Shards] /\ WindowOpen /\ pc # "failed" /\ UNCHANGED plan
  BY InvFacts DEF WindowOpen
<1>1. /\ Setting' /\ layout' = layout /\ dma_chunk_size' = dma_chunk_size /\ spans' = spans
      /\ Total' = Total /\ All' = All /\ Shards' = Shards
      /\ Tiles(spans, Total)'
  BY <1>0, PlanKept, InvFacts
<1>2. /\ active \in All /\ window_start \in Nat /\ len \in Nat /\ end \in Nat
      /\ window_start <= end /\ end <= len /\ window_start < len
      /\ len <= shard[active].len /\ len <= dma_chunk_size
      /\ active = spans[span_index].primary_writer /\ window_start = shard[active].end
  BY <1>0, OpenWindow
<1>3. Position \in Nat /\ end + n <= dma_chunk_size
  BY <1>2, PositionType, Numbers, <1>0
<1>4. /\ shard' \in [All -> Shards] /\ end' = end + n
      /\ shard'[active].end = shard[active].end /\ shard'[active].len = shard[active].len
  BY <1>0, <1>2, <1>3, FillRight
<1>5. SpansLeft' /\ WindowOpen' /\ pc' \in {"idle", "commit"}
  BY <1>1 DEF SpansLeft, WindowOpen
<1>6. Cursor'
  BY <1>0, <1>1, <1>5, InvFacts DEF Cursor
<1>7. Opened' = byte_cursor /\ Opened = byte_cursor /\ Opened \in Nat
  BY <1>5, <1>0, OpenWindow DEF Opened
<1>8. len - window_start <= Smaller(dma_chunk_size - (Opened % dma_chunk_size), Total - Opened)
  BY <1>0, InvFacts DEF Window
<1>9. (len - window_start <= Smaller(dma_chunk_size - (Opened % dma_chunk_size), Total - Opened))'
  BY <1>1, <1>7, <1>8 DEF Smaller
<1>10. Window'
  BY <1>1, <1>2, <1>4, <1>5, <1>7, <1>9 DEF Window
<1>11. Scratch'
  BY <1>5 DEF Scratch
<1> QED
  BY <1>1, <1>4, <1>6, <1>10, <1>11 DEF ScatterInv, Setting

LEMMA WriteKeeps ==
  ASSUME ScatterInv, NEW n \in 1 .. Total, Write(n)
  PROVE  ScatterInv'
<1>1. pc = "idle" /\ Fill(n) /\ end + n <= len /\ n \in Nat /\ n # 0
      /\ UNCHANGED <<plan, span_index, byte_cursor, active, window_start, len, consumed>>
      /\ pc' = "idle" /\ asked' = asked
  BY DEF Write
<1>2. SpansLeft /\ pc \in {"idle", "return"}
  BY <1>1, RoomMeansSpans
<1>3. asked' \in Nat
  BY <1>1, InvFacts
<1> QED
  BY <1>1, <1>2, <1>3, FillKeeps

(* A call changes nothing but the place in the code.                       *)
LEMMA CallKeeps ==
  ASSUME ScatterInv, NEW op, NEW n \in Nat, Call(op, n), op = "flush" => Position = Total
  PROVE  ScatterInv'
<1>0. Setting /\ shard \in [All -> Shards] /\ pc = "idle" /\ pc' = "commit" /\ caller' = op /\ asked' = n
      /\ UNCHANGED <<plan, span_index, byte_cursor, active, window_start, len, end, shard, consumed>>
  BY InvFacts DEF Call, window
<1>1. /\ Setting' /\ dma_chunk_size' = dma_chunk_size /\ spans' = spans
      /\ Total' = Total /\ All' = All /\ Shards' = Shards /\ Tiles(spans, Total)'
  BY <1>0, PlanKept, InvFacts
<1>2. SpansLeft' = SpansLeft /\ WindowOpen' = WindowOpen /\ Opened' = Opened
  BY <1>0, <1>1 DEF SpansLeft, WindowOpen, Opened
<1>3. Cursor'
  BY <1>0, <1>1, <1>2, InvFacts DEF Cursor
<1>4. Window
  BY <1>0, InvFacts
<1>5. WindowOpen /\ op = "flush" => Opened + (end - window_start) = Total
  BY <1>0, PositionType DEF WindowOpen
<1>6. Window'
  BY <1>0, <1>1, <1>2, <1>4, <1>5 DEF Window, Smaller
<1>7. Scratch'
  BY <1>0 DEF Scratch
<1> QED
  BY <1>0, <1>1, <1>3, <1>6, <1>7 DEF ScatterInv, Setting

LEMMA DrainCopiesKeeps ==
  ASSUME ScatterInv, DrainCopies
  PROVE  ScatterInv'
<1>0. pc = "return" /\ UNCHANGED <<plan, span_index, byte_cursor, active, window_start, len, consumed>>
      /\ asked' = 0 /\ Setting /\ shard \in [All -> Shards] /\ asked \in Nat
  BY InvFacts DEF DrainCopies
<1>1. CASE len = end
  <2>1. pc' = "failed" /\ shard' = shard
    BY <1>1 DEF DrainCopies
  <2>2. Setting' /\ All' = All /\ Shards' = Shards
    BY <1>0, PlanKept
  <2> QED
    BY <1>0, <2>1, <2>2 DEF ScatterInv, Setting
<1>2. CASE len # end
  <2>1. SpansLeft
    BY <1>0, <1>2, RoomMeansSpans
  <2>2. len \in Nat /\ end \in Nat /\ end <= len
    BY <1>0, <2>1, OpenWindow DEF WindowOpen
  <2> DEFINE n == Smaller(len - end, asked)
  <2>3. n \in Nat /\ end + n <= len
    BY <1>0, <2>2 DEF Smaller
  <2>4. Fill(n) /\ pc' = "commit" /\ caller' = "write"
    BY <1>2 DEF DrainCopies
  <2> HIDE DEF n
  <2> QED
    BY <1>0, <2>1, <2>3, <2>4, FillKeeps
<1> QED
  BY <1>1, <1>2

(* What returns to the reader leaves the window alone.                     *)
LEMMA ReturnKeeps ==
  ASSUME ScatterInv, DrainReturns \/ RebaseReturns
  PROVE  ScatterInv'
<1>0. Setting /\ shard \in [All -> Shards] /\ asked \in Nat /\ pc = "return" /\ pc' \in {"idle", "failed"}
      /\ UNCHANGED <<plan, span_index, byte_cursor, active, window_start, len, end, shard, consumed, asked>>
  BY InvFacts DEF DrainReturns, RebaseReturns, window
<1>1. /\ Setting' /\ dma_chunk_size' = dma_chunk_size /\ spans' = spans
      /\ Total' = Total /\ All' = All /\ Shards' = Shards /\ Tiles(spans, Total)'
  BY <1>0, PlanKept, InvFacts
<1>2. CASE pc' = "idle"
  <2>1. SpansLeft' = SpansLeft /\ WindowOpen' = WindowOpen /\ Opened' = Opened
    BY <1>0, <1>1, <1>2 DEF SpansLeft, WindowOpen, Opened
  <2>2. Cursor'
    BY <1>0, <1>1, <2>1, InvFacts DEF Cursor
  <2>3. Window
    BY <1>0, InvFacts
  <2>4. Window'
    BY <1>0, <1>1, <1>2, <2>1, <2>3 DEF Window, Smaller
  <2>5. Scratch'
    BY <1>2 DEF Scratch
  <2> QED
    BY <1>0, <1>1, <2>2, <2>4, <2>5 DEF ScatterInv, Setting
<1>3. CASE pc' = "failed"
  BY <1>0, <1>1, <1>3 DEF ScatterInv, Setting
<1> QED
  BY <1>0, <1>2, <1>3

LEMMA FlushReturnsKeeps ==
  ASSUME ScatterInv, FlushReturns
  PROVE  ScatterInv'
<1>0. Setting /\ shard \in [All -> Shards] /\ asked \in Nat /\ pc = "return" /\ pc' = "closed"
      /\ UNCHANGED <<plan, span_index, byte_cursor, asked>> /\ shard' = [w \in All |-> Flushed(shard[w])]
  BY InvFacts DEF FlushReturns
<1>1. /\ Setting' /\ dma_chunk_size' = dma_chunk_size /\ spans' = spans
      /\ Total' = Total /\ All' = All /\ Shards' = Shards /\ Tiles(spans, Total)'
  BY <1>0, PlanKept, InvFacts
<1>2. shard' \in [All -> Shards]
  <2>1. \A w \in All : Flushed(shard[w]) \in Shards
    BY <1>0, FlushedRight
  <2> QED
    BY <1>0, <2>1
<1>3. Cursor'
  BY <1>0, <1>1, InvFacts DEF Cursor, SpansLeft
<1>4. Window' /\ Scratch'
  BY <1>0 DEF Window, WindowOpen, Scratch
<1> QED
  BY <1>0, <1>1, <1>2, <1>3, <1>4 DEF ScatterInv, Setting

LEMMA CommitKeeps ==
  ASSUME ScatterInv, Commit
  PROVE  ScatterInv'
<1>0. Setting /\ shard \in [All -> Shards] /\ asked \in Nat /\ pc = "commit" /\ consumed' = 0
      /\ UNCHANGED <<plan, span_index, byte_cursor, active, window_start, shard, asked, caller>>
  BY InvFacts DEF Commit
<1>1. /\ Setting' /\ dma_chunk_size' = dma_chunk_size /\ spans' = spans
      /\ Total' = Total /\ All' = All /\ Shards' = Shards /\ Tiles(spans, Total)'
  BY <1>0, PlanKept, InvFacts
<1>2. Cursor' /\ SpansLeft' = SpansLeft
  BY <1>0, <1>1, InvFacts DEF Cursor, SpansLeft
<1>3. CASE SpansLeft
  <2>0. WindowOpen
    BY <1>0, <1>3 DEF WindowOpen
  <2>1. /\ active \in All /\ window_start \in Nat /\ len \in Nat /\ end \in Nat
        /\ window_start <= end /\ end <= len /\ window_start < len
        /\ len <= shard[active].len
        /\ active = spans[span_index].primary_writer /\ window_start = shard[active].end
        /\ caller = "flush" => Opened + (end - window_start) = Total
    BY <1>0, <2>0, OpenWindow
  <2>2. len' = len /\ end' = end /\ pc' = IF end > window_start THEN "scatter" ELSE "return"
    BY <1>3 DEF Commit
  <2>3. WindowOpen' /\ pc' \in {"scatter", "return"} /\ (pc' = "return" => end = window_start)
    BY <1>2, <1>3, <2>1, <2>2 DEF WindowOpen
  <2>4. Opened' = byte_cursor /\ Opened = byte_cursor /\ byte_cursor \in Nat
    BY <1>0, <2>3, InvFacts DEF Opened
  <2>5. Window
    BY <1>0, InvFacts
  <2>6. Window'
    BY <1>0, <1>1, <1>2, <1>3, <2>0, <2>1, <2>2, <2>3, <2>4, <2>5 DEF Window, Smaller
  <2>7. Scratch'
    BY <1>0, <2>1, <2>2 DEF Scratch, Gap
  <2> QED
    BY <1>0, <1>1, <1>2, <2>6, <2>7 DEF ScatterInv, Setting
<1>4. CASE ~SpansLeft
  <2>1. pc' = "return" /\ len' = 0 /\ end' = 0
    BY <1>4 DEF Commit
  <2>2. Window' /\ Scratch'
    BY <1>2, <1>4, <2>1 DEF Window, WindowOpen, Scratch
  <2> QED
    BY <1>0, <1>1, <1>2, <2>2 DEF ScatterInv, Setting
<1> QED
  BY <1>3, <1>4

LEMMA FenceRight ==
  ASSUME Setting, shard \in [All -> Shards]
  PROVE  /\ AfterFence \in [All -> Shards]
         /\ \A w \in All : AfterFence[w] \in {shard[w], Flushed(shard[w])}
<1>1. \A w \in All : Flushed(shard[w]) \in Shards
  BY FlushedRight
<1> QED
  BY <1>1 DEF AfterFence

LEMMA RotateKeeps ==
  ASSUME ScatterInv, Rotate
  PROVE  ScatterInv'
<1>0. Setting /\ shard \in [All -> Shards] /\ asked \in Nat /\ pc = "scatter" /\ consumed = end - window_start
      /\ shard' = AfterFence /\ UNCHANGED <<plan, span_index, byte_cursor, caller, asked, consumed>>
  BY InvFacts DEF Rotate, Publish
<1>1. /\ Setting' /\ dma_chunk_size' = dma_chunk_size /\ spans' = spans
      /\ Total' = Total /\ All' = All /\ Shards' = Shards /\ Tiles(spans, Total)'
  BY <1>0, PlanKept, InvFacts
<1>2. shard' \in [All -> Shards]
  BY <1>0, FenceRight
<1>3. Cursor' /\ SpansLeft' = SpansLeft
  BY <1>0, <1>1, InvFacts DEF Cursor, SpansLeft
<1>4. CASE ~SpansLeft
  <2>1. pc' = "return" /\ len' = 0 /\ end' = 0
    BY <1>4 DEF Rotate, Publish
  <2>2. Window' /\ Scratch'
    BY <1>3, <1>4, <2>1 DEF Window, WindowOpen, Scratch
  <2> QED
    BY <1>0, <1>1, <1>2, <1>3, <2>2 DEF ScatterInv, Setting
<1>5. CASE SpansLeft
  <2> DEFINE p == spans[span_index].primary_writer
             room == Smaller(BlockRoom, Smaller(dma_chunk_size - ChunkOffset, Total - byte_cursor))
  <2>1. active' = p /\ window_start' = NextWriter.end
        /\ IF room = 0 THEN pc' = "failed" ELSE pc' = "return" /\ len' = NextWriter.end + room /\ end' = NextWriter.end
    BY <1>5 DEF Rotate, Publish
  <2>2. p \in All /\ byte_cursor < Total /\ byte_cursor \in Nat
    BY <1>0, <1>5, InvFacts
  <2>3. NextWriter \in Shards /\ NextWriter = shard'[active']
    BY <1>0, <2>1, <2>2, FenceRight DEF NextWriter
  <2>4. NextWriter.end \in Nat /\ NextWriter.len \in Nat /\ NextWriter.end <= NextWriter.len
    BY <1>0, <2>3, ShardFacts
  <2>5. dma_chunk_size \in Nat \ {0} /\ Total \in Nat
    BY <1>0, Numbers
  <2>6. byte_cursor % dma_chunk_size \in 0 .. dma_chunk_size - 1
    BY <2>2, <2>5
  <2>7. room \in Nat /\ room <= NextWriter.len - NextWriter.end
        /\ room <= Smaller(dma_chunk_size - (byte_cursor % dma_chunk_size), Total - byte_cursor)
    BY <2>2, <2>4, <2>5, <2>6 DEF BlockRoom, ChunkOffset, Smaller
  <2> HIDE DEF p, room
  <2>8. CASE room = 0
    <3>1. pc' = "failed"
      BY <2>1, <2>8
    <3> QED
      BY <1>0, <1>1, <1>2, <3>1 DEF ScatterInv, Setting
  <2>9. CASE room # 0
    <3>1. pc' = "return" /\ len' = NextWriter.end + room /\ end' = NextWriter.end /\ window_start' = NextWriter.end
      BY <2>1, <2>9
    <3>2. Opened' = byte_cursor /\ WindowOpen'
      BY <1>0, <1>3, <1>5, <3>1 DEF Opened, WindowOpen
    <3>3. caller # "flush"
      <4>1. consumed \in Int /\ Opened = byte_cursor - consumed
        BY <1>0, <2>2, OpenWindow DEF WindowOpen, Opened
      <4>2. caller = "flush" => Opened + (end - window_start) = Total
        BY <1>0, OpenWindow DEF WindowOpen
      <4> QED
        BY <1>0, <2>2, <2>5, <4>1, <4>2
    <3>4. (len - window_start <= Smaller(dma_chunk_size - (Opened % dma_chunk_size), Total - Opened))'
      <4>1. len' - window_start' = room
        BY <2>4, <2>7, <3>1
      <4> QED
        BY <1>1, <2>7, <3>2, <4>1 DEF Smaller
    <3>5. active' = spans'[span_index'].primary_writer /\ active' \in All'
      BY <1>0, <1>1, <2>1, <2>2 DEF p
    <3>6. /\ window_start' \in Nat /\ len' \in Nat /\ end' \in window_start' .. len'
          /\ window_start' < len' /\ len' <= shard'[active'].len /\ window_start' = shard'[active'].end
          /\ end' = window_start'
      BY <2>3, <2>4, <2>7, <2>9, <3>1
    <3>7. Window'
      BY <1>0, <1>3, <1>5, <2>2, <3>1, <3>2, <3>3, <3>4, <3>5, <3>6 DEF Window
    <3>8. Scratch'
      BY <3>1 DEF Scratch
    <3> QED
      BY <1>0, <1>1, <1>2, <1>3, <3>7, <3>8 DEF ScatterInv, Setting
  <2> QED
    BY <2>8, <2>9
<1> QED
  BY <1>4, <1>5

(* One step of the loop over spans that does not fail.                     *)
Targets(span) == {span.primary_writer} \cup Mirrors(span)

SpanStep(n) ==
  /\ n \in Nat \ {0} /\ pc = "scatter" /\ pc' = "scatter" /\ SpansLeft /\ consumed \in Nat
  /\ window_start + consumed + n <= end
  /\ byte_cursor + n <= spans[span_index].end
  /\ window_start + consumed + n = end \/ byte_cursor + n = spans[span_index].end
  /\ shard[active].end <= window_start + consumed
  /\ window_start + consumed = shard[active].end \/ shard[active].end + n <= window_start + consumed
  /\ consumed > 0 /\ window_start + consumed # shard[active].end =>
       shard[active].end + SpanLen(layout) <= window_start + consumed
  /\ \A w \in Targets(spans[span_index]) \ {active} : InPlace(spans[span_index]) \/ ~Refuses(shard[w], n)
  /\ \A w \in Mirrors(spans[span_index]) \ {active} : ~Refuses(shard[w], n)
  /\ shard' = [w \in All |->
                 IF w = spans[span_index].primary_writer
                 THEN First(spans[span_index], w, window_start + consumed, n)
                 ELSE IF w \in Mirrors(spans[span_index]) THEN Given(w, window_start + consumed, n)
                 ELSE shard[w]]
  /\ byte_cursor' = byte_cursor + n /\ consumed' = consumed + n
  /\ span_index' = span_index + IF byte_cursor + n = spans[span_index].end THEN 1 ELSE 0
  /\ UNCHANGED <<plan, window, caller, asked>>

LEMMA SpanStepIs ==
  ASSUME ScatterInv, ScatterSpan, pc' # "failed"
  PROVE  \E n : SpanStep(n)
<1> DEFINE span == spans[span_index]
           n == Smaller(end - window_start - consumed, span.end - byte_cursor)
           from == window_start + consumed
<1>0. pc = "scatter" /\ consumed < end - window_start /\ UNCHANGED <<plan, window, caller, asked>>
      /\ Setting /\ shard \in [All -> Shards] /\ WindowOpen
  BY InvFacts DEF ScatterSpan, WindowOpen
<1>1. /\ SpansLeft /\ shard' = Scattered(span, from, n)
      /\ byte_cursor' = byte_cursor + n /\ consumed' = consumed + n
      /\ span_index' = span_index + (IF byte_cursor' = span.end THEN 1 ELSE 0) /\ pc' = pc
      /\ \A w \in Range(span.mirror_writers) \cup (IF InPlace(span) THEN {} ELSE {span.primary_writer}) :
           w # active => ~Refuses(shard[w], n)
  BY Zenon DEF ScatterSpan
<1>2. /\ byte_cursor \in Nat /\ span_index \in 1 .. Len(spans)
      /\ byte_cursor \in span.start .. span.end - 1 /\ Scratch
  BY <1>0, <1>1, InvFacts
<1>3. /\ span.start \in Nat /\ span.end = span.start + SpanLen(layout)
      /\ span.primary_writer \in All /\ span.mirror_writers \in Seq(All)
      /\ \A j \in 1 .. Len(span.mirror_writers) : span.mirror_writers[j] # span.primary_writer
      /\ \A j, k \in 1 .. Len(span.mirror_writers) : span.mirror_writers[j] = span.mirror_writers[k] => j = k
  BY <1>0, <1>2, Spans
<1>4. /\ active \in All /\ window_start \in Nat /\ len \in Nat /\ end \in Nat
      /\ window_start <= end /\ end <= len /\ len <= dma_chunk_size
      /\ shard[active].end \in Nat /\ shard[active].len \in Nat /\ len <= shard[active].len
      /\ consumed = 0 => window_start = shard[active].end
  BY <1>0, OpenWindow
<1>5. SpanLen(layout) \in Nat \ {0} /\ dma_chunk_size \in Nat
  BY <1>0, Numbers
<1>6. /\ consumed \in Nat /\ window_start + consumed >= shard[active].end
      /\ 0 < consumed => /\ byte_cursor = span.start
                         /\ \/ window_start + consumed = shard[active].end
                            \/ window_start + consumed - shard[active].end >= SpanLen(layout)
  BY <1>0, <1>2, <1>4, SMTT(20) DEF Scratch, Gap
<1>7. /\ n \in Nat \ {0} /\ from \in Nat /\ from + n <= end /\ byte_cursor + n <= span.end
      /\ from + n = end \/ byte_cursor + n = span.end
      /\ n <= SpanLen(layout)
  <2> DEFINE r == end - window_start - consumed
             q == span.end - byte_cursor
  <2>1. r \in Nat \ {0} /\ from + r = end /\ from \in Nat
    BY <1>0, <1>4, <1>6
  <2>2. q \in Nat \ {0} /\ q <= SpanLen(layout) /\ byte_cursor + q = span.end
    <3>1. span.end \in Int /\ span.start \in Int
      BY <1>3, <1>5
    <3>2. span.start <= byte_cursor /\ byte_cursor <= span.end - 1 /\ byte_cursor \in Int
      BY <1>2, <3>1
    <3> HIDE DEF span
    <3> QED
      BY <1>3, <1>5, <3>1, <3>2
  <2>3. n = Smaller(r, q) /\ end \in Nat /\ span.end \in Int /\ byte_cursor \in Nat
    BY <1>2, <1>3, <1>4, <1>5
  <2> HIDE DEF r, q, from, span, n
  <2> QED
    BY <1>5, <2>1, <2>2, <2>3 DEF Smaller
<1> HIDE DEF span, n, from
<1>8. /\ shard[active].end <= from
      /\ from = shard[active].end \/ shard[active].end + n <= from
      /\ consumed > 0 /\ from # shard[active].end => shard[active].end + SpanLen(layout) <= from
  BY <1>4, <1>5, <1>6, <1>7 DEF from
<1>9. shard[active].end + n <= shard[active].len /\ from + n <= dma_chunk_size
  BY <1>4, <1>5, <1>7, <1>8
<1>10. Scattered(span, from, n) =
         [w \in All |-> IF w = span.primary_writer THEN First(span, w, from, n)
                        ELSE IF w \in Mirrors(span) THEN Given(w, from, n) ELSE shard[w]]
  <2>1. Setting /\ shard \in [All -> Shards] /\ active \in All /\ from \in Nat /\ n \in Nat
    BY <1>0, <1>4, <1>7
  <2>2. from = shard[active].end \/ shard[active].end + n <= from
    BY <1>8
  <2> QED
    BY <1>3, <1>9, <2>1, <2>2, ScatteredIs
<1>11. Range(span.mirror_writers) = Mirrors(span)
  BY <1>3 DEF Range, Mirrors
<1>12. /\ \A w \in Targets(span) \ {active} : InPlace(span) \/ ~Refuses(shard[w], n)
       /\ \A w \in Mirrors(span) \ {active} : ~Refuses(shard[w], n)
  BY <1>1, <1>11 DEF Targets
<1>13. SpanStep(n)
  BY <1>0, <1>1, <1>6, <1>7, <1>8, <1>10, <1>12 DEF SpanStep, span, from
<1> QED
  BY <1>13

LEMMA SpanShards ==
  ASSUME ScatterInv, NEW n, SpanStep(n)
  PROVE  /\ shard' \in [All -> Shards]
         /\ shard'[active].len = shard[active].len
         /\ shard'[active].end \in {shard[active].end, shard[active].end + n}
         /\ consumed = 0 => shard'[active].end = shard[active].end + n
         /\ \A i \in 1 .. dma_chunk_size :
              i > window_start + consumed + n => shard'[active].block[i] = shard[active].block[i]
<1> DEFINE span == spans[span_index]
           from == window_start + consumed
           C == Chunk(shard, from, n)
           s == shard[active]
<1>0. /\ Setting /\ shard \in [All -> Shards] /\ pc = "scatter" /\ SpansLeft /\ n \in Nat /\ WindowOpen
      /\ span.primary_writer \in All
  BY InvFacts DEF SpanStep, WindowOpen
<1>1. /\ active \in All /\ s \in Shards /\ s.end \in Nat /\ s.len \in Nat /\ len \in Nat /\ end \in Nat
      /\ end <= len /\ len <= s.len /\ len <= dma_chunk_size /\ window_start \in Nat
      /\ consumed = 0 => active = span.primary_writer /\ window_start = s.end
  BY <1>0, OpenWindow
<1>2. consumed \in Nat /\ from \in Nat /\ from + n <= end /\ s.end <= from
  BY <1>1 DEF SpanStep
<1>3. dma_chunk_size \in Nat /\ from + n <= dma_chunk_size /\ s.end + n <= s.len
  BY <1>0, <1>1, <1>2, Numbers
<1>4. C \in Seq(Nat) /\ Len(C) = n
  BY <1>0, <1>1, <1>2, <1>3, ChunkRight
<1>5. LET t == Filled(n) IN t \in Shards /\ t.end = s.end + n /\ t.len = s.len /\ t.block = s.block
  BY <1>0, <1>1, <1>3, FilledRight
<1>6. LET t == Appended(s, C) IN
      /\ t \in Shards /\ t.end = s.end + n /\ t.len = s.len
      /\ \A i \in 1 .. dma_chunk_size :
           t.block[i] = IF s.end < i /\ i <= s.end + n THEN C[i - s.end] ELSE s.block[i]
  <2>1. s.end + Len(C) <= s.len
    BY <1>3, <1>4
  <2> HIDE DEF C, s
  <2>2. LET t == Appended(s, C) IN
      /\ t \in Shards /\ t.end = s.end + Len(C) /\ t.len = s.len
      /\ \A i \in 1 .. dma_chunk_size :
           t.block[i] = IF s.end < i /\ i <= s.end + Len(C) THEN C[i - s.end] ELSE s.block[i]
    BY <1>0, <1>1, <1>4, <2>1, AppendedRight
  <2> QED
    BY <1>4, <2>2
<1>7. \A w \in All \ {active} : ~Refuses(shard[w], n) => WriteAll(shard[w], C) \in Shards
  BY <1>0, <1>4, WriteAllRight
<1>8. shard' = [w \in All |->
                 IF w = span.primary_writer THEN First(span, w, from, n)
                 ELSE IF w \in Mirrors(span) THEN Given(w, from, n) ELSE shard[w]]
  BY DEF SpanStep
<1>9. /\ \A w \in Targets(span) \ {active} : InPlace(span) \/ ~Refuses(shard[w], n)
      /\ \A w \in Mirrors(span) \ {active} : ~Refuses(shard[w], n)
  BY DEF SpanStep
<1>10. InPlace(span) => span.primary_writer = active
  BY DEF InPlace
<1>11. \A w \in All : Given(w, from, n) = IF w = active THEN Appended(s, C) ELSE WriteAll(shard[w], C)
  BY DEF Given
<1> HIDE DEF span, from, C, s
<1>12. \A w \in Mirrors(span) : w \in All => Given(w, from, n) \in Shards
  BY <1>6, <1>7, <1>9, <1>11
<1>13. First(span, span.primary_writer, from, n) \in Shards
  BY <1>0, <1>5, <1>6, <1>7, <1>9, <1>11 DEF First, Targets
<1>14. shard' \in [All -> Shards]
  BY <1>0, <1>8, <1>12, <1>13
<1>15. shard'[active] \in {Filled(n), Appended(s, C), s}
  BY <1>1, <1>8, <1>11 DEF First, s
<1>16. consumed = 0 => shard'[active] = Filled(n)
  BY <1>1, <1>8 DEF First, InPlace, span
<1>17. ASSUME NEW i \in 1 .. dma_chunk_size, i > from + n
       PROVE  shard'[active].block[i] = s.block[i]
  <2>1. ~(i <= s.end + n)
    BY <1>0, <1>1, <1>2, <1>17
  <2> QED
    BY <1>5, <1>6, <1>15, <2>1
<1>18. shard'[active].len = s.len /\ shard'[active].end \in {s.end, s.end + n}
       /\ (consumed = 0 => shard'[active].end = s.end + n)
  BY <1>5, <1>6, <1>15, <1>16
<1> QED
  BY <1>14, <1>17, <1>18 DEF s, from

LEMMA SpanKeeps ==
  ASSUME ScatterInv, NEW n, SpanStep(n)
  PROVE  ScatterInv'
<1> DEFINE span == spans[span_index]
           e == shard[active].end
<1>0. /\ Setting /\ pc = "scatter" /\ pc' = "scatter" /\ SpansLeft /\ n \in Nat \ {0} /\ WindowOpen
      /\ asked \in Nat /\ UNCHANGED <<plan, active, window_start, len, end, caller, asked>>
      /\ Tiles(spans, Total) /\ byte_cursor \in Nat /\ span_index \in 1 .. Len(spans)
      /\ byte_cursor \in span.start .. span.end - 1
  BY InvFacts DEF SpanStep, WindowOpen, window
<1>1. /\ Setting' /\ dma_chunk_size' = dma_chunk_size /\ spans' = spans /\ layout' = layout
      /\ Total' = Total /\ All' = All /\ Shards' = Shards /\ Tiles(spans, Total)'
      /\ SpanLen(layout)' = SpanLen(layout)
  BY <1>0, PlanKept
<1>2. /\ Len(spans) \in Nat \ {0} /\ spans[Len(spans)].end = Total
      /\ \A i \in 1 .. Len(spans) - 1 : spans[i].end = spans[i + 1].start
  BY <1>0, TilesEnd
<1>3. /\ SpanLen(layout) \in Nat \ {0} /\ Total \in Nat
      /\ \A i \in 1 .. Len(spans) : spans[i].start \in Nat /\ spans[i].end = spans[i].start + SpanLen(layout)
  BY <1>0, Numbers, Spans
<1>4. /\ active \in All /\ window_start \in Nat /\ len \in Nat /\ end \in Nat /\ e \in Nat
      /\ window_start <= end /\ end <= len /\ window_start < len /\ len <= shard[active].len
      /\ Opened \in Nat /\ Opened = byte_cursor - consumed
      /\ len - window_start <= Total - Opened
      /\ consumed = 0 => window_start = e
      /\ caller = "flush" => Opened + (end - window_start) = Total
  BY <1>0, OpenWindow DEF Opened
<1>5. /\ consumed \in Nat /\ window_start + consumed + n <= end /\ byte_cursor + n <= span.end
      /\ window_start + consumed + n = end \/ byte_cursor + n = span.end
      /\ e <= window_start + consumed
      /\ consumed > 0 /\ window_start + consumed # e => e + SpanLen(layout) <= window_start + consumed
      /\ byte_cursor' = byte_cursor + n /\ consumed' = consumed + n
      /\ span_index' = span_index + IF byte_cursor + n = span.end THEN 1 ELSE 0
  BY DEF SpanStep
<1>6. /\ shard' \in [All -> Shards] /\ shard'[active].len = shard[active].len
      /\ shard'[active].end \in {e, e + n} /\ (consumed = 0 => shard'[active].end = e + n)
  BY SpanShards
<1>7. Opened' = Opened
  BY <1>0, <1>4, <1>5 DEF Opened
<1>8. ASSUME byte_cursor + n = span.end
      PROVE  /\ Cursor'
             /\ SpansLeft' => byte_cursor' = spans[span_index'].start
             /\ ~SpansLeft' => byte_cursor' = Total
  <2>1. span_index' = span_index + 1 /\ byte_cursor' = span.end
    BY <1>5, <1>8
  <2>2. SpansLeft' <=> span_index < Len(spans)
    BY <1>0, <1>1, <1>2, <2>1 DEF SpansLeft
  <2>3. ASSUME span_index < Len(spans)
        PROVE  /\ byte_cursor' = spans[span_index'].start
               /\ byte_cursor' \in spans[span_index'].start .. spans[span_index'].end - 1
    <3>1. span_index + 1 \in 1 .. Len(spans) /\ span_index \in 1 .. Len(spans) - 1
      BY <1>0, <1>2, <2>3
    <3>2. byte_cursor' = spans[span_index + 1].start
      BY <1>2, <2>1, <3>1
    <3>3. spans[span_index + 1].start \in Nat
          /\ spans[span_index + 1].end = spans[span_index + 1].start + SpanLen(layout)
      BY <1>3, <3>1
    <3>4. byte_cursor' \in spans[span_index + 1].start .. spans[span_index + 1].end - 1
      BY <1>3, <3>2, <3>3
    <3> QED
      BY <2>1, <3>2, <3>4
  <2>4. ASSUME ~(span_index < Len(spans)) PROVE byte_cursor' = Total
    <3>1. span_index = Len(spans)
      BY <1>0, <1>2, <2>4
    <3> QED
      BY <1>2, <2>1, <3>1
  <2>5. span_index' \in 1 .. Len(spans) + 1 /\ byte_cursor' \in Nat
    BY <1>0, <1>2, <1>5, <2>1
  <2>6. Cursor'
    BY <1>1, <2>2, <2>3, <2>4, <2>5 DEF Cursor
  <2> QED
    BY <2>2, <2>3, <2>4, <2>6
<1>9. ASSUME byte_cursor + n # span.end PROVE Cursor'
  <2>1. span_index' = span_index
    BY <1>0, <1>5, <1>9
  <2>2. byte_cursor' \in spans[span_index'].start .. spans[span_index'].end - 1 /\ byte_cursor' \in Nat
    <3>1. span.start \in Nat /\ span.end \in Nat
      BY <1>0, <1>3
    <3>2. byte_cursor + n \in span.start .. span.end - 1 /\ byte_cursor + n \in Nat
      <4> HIDE DEF span
      <4> QED
        BY <1>0, <1>5, <1>9, <3>1
    <3> QED
      BY <1>5, <2>1, <3>2
  <2>3. SpansLeft'
    BY <1>0, <1>1, <2>1 DEF SpansLeft
  <2> QED
    BY <1>0, <1>1, <1>2, <2>1, <2>2, <2>3 DEF Cursor
<1>10. Cursor'
  BY <1>8, <1>9
<1>11. consumed' > 0 /\ consumed' \in 0 .. end - window_start /\ consumed' # 0
  BY <1>0, <1>4, <1>5
<1>12. Window'
  <2>1. len - window_start <= Smaller(dma_chunk_size - (Opened % dma_chunk_size), Total - Opened)
        /\ end \in window_start .. len
    BY <1>0, InvFacts DEF Window
  <2>2. (len - window_start <= Smaller(dma_chunk_size - (Opened % dma_chunk_size), Total - Opened))'
    BY <1>0, <1>1, <1>7, <2>1 DEF Smaller
  <2> QED
    BY <1>0, <1>1, <1>4, <1>6, <1>7, <1>11, <2>1, <2>2 DEF Window
<1>13. Gap' = window_start + consumed + n - shard'[active].end /\ shard'[active].end \in Nat
  <2>1. Gap' = window_start + (consumed + n) - shard'[active].end
    BY <1>0, <1>5 DEF Gap
  <2>2. shard'[active].end \in Nat
    <3>1. e \in Nat /\ n \in Nat /\ shard'[active].end \in {e, e + n}
      BY <1>0, <1>4, <1>6
    <3> HIDE DEF e
    <3> QED
      BY <3>1
  <2> QED
    BY <1>0, <1>4, <1>5, <2>1, <2>2
<1> DEFINE x == shard'[active].end
           g == Gap'
<1>17. /\ window_start \in Int /\ consumed \in Nat /\ n \in Nat \ {0} /\ e \in Nat /\ end \in Int /\ x \in Nat
       /\ x = e \/ x = e + n
       /\ consumed = 0 => x = e + n /\ window_start = e
       /\ e <= window_start + consumed /\ g = window_start + consumed + n - x
       /\ consumed > 0 /\ window_start + consumed # e => e + SpanLen(layout) <= window_start + consumed
  <2>1. /\ window_start \in Int /\ consumed \in Nat /\ n \in Nat \ {0} /\ e \in Nat /\ end \in Int
        /\ consumed = 0 => window_start = e
    BY <1>0, <1>4, <1>5
  <2>2. /\ x \in Nat /\ (x = e \/ x = e + n) /\ (consumed = 0 => x = e + n)
        /\ g = window_start + consumed + n - x
    BY <1>6, <1>13
  <2>3. /\ e <= window_start + consumed
        /\ consumed > 0 /\ window_start + consumed # e => e + SpanLen(layout) <= window_start + consumed
    BY <1>5
  <2> HIDE DEF e, x, g
  <2> QED
    BY <2>1, <2>2, <2>3
<1> HIDE DEF e, x, g
<1>18. g >= 0
  BY <1>17
<1>14. Gap' >= 0
  BY <1>18 DEF g
<1>15. ASSUME consumed' < end - window_start
       PROVE  /\ byte_cursor' = spans[span_index'].start
              /\ Gap' = 0 \/ Gap' >= SpanLen(layout)
  <2>1. byte_cursor + n = span.end
    <3>1. consumed + n < end - window_start
      BY <1>5, <1>15
    <3>2. window_start + consumed + n # end
      BY <1>17, <3>1
    <3> QED
      BY <1>5, <3>2
  <2>2. byte_cursor' # Total
    BY <1>0, <1>3, <1>4, <1>5, <1>15
  <2>3. byte_cursor' = spans[span_index'].start
    BY <1>8, <2>1, <2>2
  <2>4. consumed = 0 => Gap' = 0
    BY <1>17 DEF g
  <2>5. consumed # 0 => n = SpanLen(layout)
    <3>1. consumed # 0 => byte_cursor = span.start
      <4>1. Scratch
        BY <1>0, InvFacts
      <4>2. consumed < end - window_start
        BY <1>0, <1>4, <1>5
      <4> QED
        BY <1>0, <1>5, <4>1, <4>2 DEF Scratch
    <3>2. span.end = span.start + SpanLen(layout) /\ span.start \in Nat
      BY <1>0, <1>3
    <3> QED
      BY <1>0, <1>3, <2>1, <3>1, <3>2
  <2>6. consumed # 0 => Gap' = 0 \/ Gap' >= SpanLen(layout)
    BY <1>3, <1>17, <2>5 DEF g
  <2> QED
    BY <2>3, <2>4, <2>6
<1>16. Scratch'
  BY <1>0, <1>1, <1>11, <1>14, <1>15 DEF Scratch
<1> QED
  BY <1>0, <1>1, <1>6, <1>10, <1>12, <1>16 DEF ScatterInv, Setting

LEMMA ScatterSpanKeeps ==
  ASSUME ScatterInv, ScatterSpan
  PROVE  ScatterInv'
<1>1. CASE pc' = "failed"
  <2>1. pc = "scatter"
    BY DEF ScatterSpan
  <2>2. Setting /\ shard \in [All -> Shards] /\ asked \in Nat /\ UNCHANGED plan /\ asked' = asked /\ shard' = shard
    <3>1. UNCHANGED plan /\ asked' = asked /\ (pc' = pc \/ shard' = shard)
      BY Zenon DEF ScatterSpan
    <3> QED
      BY <1>1, <2>1, <3>1, InvFacts
  <2>3. Setting' /\ All' = All /\ Shards' = Shards
    BY <2>2, PlanKept
  <2> QED
    BY <1>1, <2>2, <2>3 DEF ScatterInv, Setting
<1>2. CASE pc' # "failed"
  <2>1. PICK n : SpanStep(n)
    BY <1>2, SpanStepIs
  <2> QED
    BY <2>1, SpanKeeps
<1> QED
  BY <1>1, <1>2

LEMMA ScatterStutter ==
  ASSUME ScatterInv, UNCHANGED vars
  PROVE  ScatterInv'
<1>0. /\ UNCHANGED plan /\ shard' = shard /\ asked' = asked /\ pc' = pc /\ Setting
      /\ UNCHANGED <<span_index, byte_cursor, active, window_start, len, end, caller, consumed>>
      /\ shard \in [All -> Shards] /\ asked \in Nat
  BY InvFacts DEF vars, window
<1>1. /\ Setting' /\ dma_chunk_size' = dma_chunk_size /\ spans' = spans /\ layout' = layout
      /\ Total' = Total /\ All' = All /\ Shards' = Shards /\ SpanLen(layout)' = SpanLen(layout)
      /\ (Tiles(spans, Total) => Tiles(spans, Total)')
  BY <1>0, PlanKept
<1>2. ASSUME pc # "failed" PROVE Cursor' /\ Window' /\ Scratch'
  <2>1. Cursor /\ Window /\ Scratch
    BY <1>2, InvFacts
  <2>2. SpansLeft' = SpansLeft /\ WindowOpen' = WindowOpen /\ Opened' = Opened /\ Gap' = Gap
    BY <1>0, <1>1 DEF SpansLeft, WindowOpen, Opened, Gap
  <2>3. Cursor'
    BY <1>0, <1>1, <2>1, <2>2 DEF Cursor
  <2>4. Window'
    BY <1>0, <1>1, <2>1, <2>2 DEF Window, Smaller
  <2>5. Scratch'
    BY <1>0, <1>1, <2>1, <2>2 DEF Scratch
  <2> QED
    BY <2>3, <2>4, <2>5
<1> QED
  BY <1>0, <1>1, <1>2, InvFacts DEF ScatterInv, Setting

LEMMA ScatterNext ==
  ASSUME ScatterInv, [Next]_vars
  PROVE  ScatterInv'
<1>1. ASSUME NEW n \in 1 .. Total, Write(n) PROVE ScatterInv'
  BY <1>1, WriteKeeps
<1>2. ASSUME NEW n \in 1 .. Total, Drain(n) PROVE ScatterInv'
  BY <1>2, CallKeeps DEF Drain
<1>3. CASE Rebase
  BY <1>3, CallKeeps DEF Rebase
<1>4. CASE Flush
  BY <1>4, CallKeeps DEF Flush
<1>5. CASE Step
  BY <1>5, CommitKeeps, ScatterSpanKeeps, RotateKeeps, DrainCopiesKeeps, ReturnKeeps, FlushReturnsKeeps DEF Step
<1> QED
  BY <1>1, <1>2, <1>3, <1>4, <1>5, ScatterStutter DEF Next, Stream

(* The window, the cursor and the shard writers stay in step: the cursor   *)
(* is in the span that is next, the window is within the active block, its *)
(* chunk and the tensor, and commitWindow copies down or not at all.       *)
THEOREM WindowsHold == Spec => []ScatterInv
<1>1. Init => ScatterInv
  BY ScatterInit
<1>2. ScatterInv /\ [Next]_vars => ScatterInv'
  BY ScatterNext
<1> QED
  BY <1>1, <1>2, PTL DEF Spec

(* Between calls the window is the free part of the block of the writer    *)
(* that comes next: what the reader puts there needs no copy.              *)
THEOREM ReaderWritesInPlace == Spec => []WindowInPlace
<1>1. ScatterInv => WindowInPlace
  <2>1. ASSUME ScatterInv, pc = "idle", SpansLeft
        PROVE  /\ active = spans[span_index].primary_writer
               /\ window_start = shard[active].end
               /\ len <= shard[active].len
               /\ window_start < len
    BY <2>1, OpenWindow DEF WindowOpen
  <2> QED
    BY <2>1 DEF WindowInPlace
<1> QED
  BY <1>1, WindowsHold, PTL

(* A number that stays within a chunk.                                     *)
LEMMA SameChunkNumber ==
  ASSUME NEW c \in Nat \ {0}, NEW o \in Nat, NEW k \in Nat, (o % c) + k < c
  PROVE  (o + k) \div c = o \div c
BY Z3

LEMMA FenceStep ==
  ASSUME ScatterInv, NEW n, SpanStep(n)
  PROVE  (byte_cursor' - 1) \div dma_chunk_size = byte_cursor \div dma_chunk_size
<1>0. WindowOpen /\ pc = "scatter" /\ Setting /\ byte_cursor \in Nat
  BY InvFacts DEF SpanStep, WindowOpen
<1>1. /\ Opened \in Nat /\ Opened = byte_cursor - consumed
      /\ len - window_start <= dma_chunk_size - (Opened % dma_chunk_size)
      /\ window_start \in Nat /\ len \in Nat /\ end \in Nat /\ end <= len
  BY <1>0, OpenWindow DEF Opened
<1>2. consumed \in Nat /\ n \in Nat \ {0} /\ window_start + consumed + n <= end /\ byte_cursor' = byte_cursor + n
  BY DEF SpanStep
<1>3. dma_chunk_size \in Nat \ {0}
  BY <1>0, Numbers
<1>4. Opened % dma_chunk_size \in Nat
  BY <1>1, <1>3
<1>5. (Opened % dma_chunk_size) + (consumed + (n - 1)) < dma_chunk_size
      /\ (Opened % dma_chunk_size) + consumed < dma_chunk_size
  BY <1>1, <1>2, <1>3, <1>4
<1>6. consumed + (n - 1) \in Nat
  BY <1>2
<1>7. (Opened + (consumed + (n - 1))) \div dma_chunk_size = Opened \div dma_chunk_size
      /\ (Opened + consumed) \div dma_chunk_size = Opened \div dma_chunk_size
  BY <1>1, <1>2, <1>3, <1>5, <1>6, SameChunkNumber
<1>8. Opened + (consumed + (n - 1)) = byte_cursor' - 1 /\ Opened + consumed = byte_cursor
  BY <1>0, <1>1, <1>2
<1> QED
  BY <1>7, <1>8

(* commitWindow never carries the cursor past the end of a chunk, where    *)
(* the fence is, in one step.                                              *)
THEOREM NoFenceIsSkipped == Spec => FenceNotSkipped
<1> DEFINE A == byte_cursor' > byte_cursor =>
                  (byte_cursor' - 1) \div dma_chunk_size = byte_cursor \div dma_chunk_size
<1>1. ScatterInv /\ [Next]_vars => [A]_vars
  <2>1. SUFFICES ASSUME ScatterInv, Next, byte_cursor' > byte_cursor PROVE A
    OBVIOUS
  <2>2. CASE ScatterSpan
    <3>1. pc' # "failed"
      <4>1. pc' = "failed" => byte_cursor' = byte_cursor
        <5>1. pc = "scatter" /\ (pc' = pc \/ byte_cursor' = byte_cursor)
          BY <2>2, Zenon DEF ScatterSpan
        <5> QED
          BY <5>1
      <4>2. byte_cursor \in Nat
        <5>1. pc # "failed"
          BY <2>2 DEF ScatterSpan
        <5> QED
          BY <2>1, <5>1, InvFacts
      <4> QED
        BY <2>1, <4>1, <4>2
    <3>2. PICK n : SpanStep(n)
      BY <2>1, <2>2, <3>1, SpanStepIs
    <3> QED
      BY <2>1, <3>2, FenceStep
  <2>3. CASE ~ScatterSpan
    <3>1. pc # "failed" /\ byte_cursor' = byte_cursor
      BY <2>1, <2>3 DEF Next, Stream, Step, Write, Drain, Rebase, Flush, Call, Commit, Rotate, Publish,
                       DrainCopies, DrainReturns, RebaseReturns, FlushReturns
    <3>2. byte_cursor \in Nat
      BY <2>1, <3>1, InvFacts
    <3> QED
      BY <2>1, <3>1, <3>2
  <2> QED
    BY <2>2, <2>3
<1> QED
  BY <1>1, WindowsHold, PTL DEF Spec, FenceNotSkipped

-----------------------------------------------------------------------------
(* What a shard must hold                                                  *)

Shift(A) == {o + 1 : o \in A}

LEMMA ShiftRight ==
  ASSUME NEW A \in SUBSET Nat, IsFiniteSet(A)
  PROVE  Shift(A) \in SUBSET Nat /\ IsFiniteSet(Shift(A)) /\ Cardinality(Shift(A)) = Cardinality(A)
<1> DEFINE f == [o \in A |-> o + 1]
<1>1. f \in Bijection(A, Shift(A))
  BY DEF Bijection, Injection, Surjection, IsInjective, Shift
<1>2. ExistsBijection(A, Shift(A))
  BY <1>1 DEF ExistsBijection
<1>3. Shift(A) \in SUBSET Nat
  <2>1. \A o \in A : o + 1 \in Nat
    OBVIOUS
  <2> QED
    BY <2>1, Zenon DEF Shift
<1> QED
  BY <1>2, <1>3, FS_Bijection

LEMMA OwnedRight ==
  ASSUME Setting, NEW w
  PROVE  /\ Owned(layout, w) \in SUBSET (0 .. Total - 1) /\ Owned(layout, w) \in SUBSET Nat
         /\ IsFiniteSet(Owned(layout, w))
         /\ \A n \in Nat : IsFiniteSet({o \in Owned(layout, w) : o < n}) /\ Got(w, n) \in Nat
<1> DEFINE A == Owned(layout, w)
<1>1. A \in SUBSET (0 .. Total - 1)
  BY DEF Owned, Total
<1>2. Total - 1 \in Int
  BY Numbers
<1>3. IsFiniteSet(0 .. Total - 1)
  BY <1>2, FS_Interval
<1>4. IsFiniteSet(A)
  BY <1>1, <1>3, FS_Subset
<1> HIDE DEF A
<1>5. ASSUME NEW n \in Nat PROVE IsFiniteSet({o \in A : o < n}) /\ Cardinality({o \in A : o < n}) \in Nat
  <2>1. {o \in A : o < n} \subseteq A
    OBVIOUS
  <2> QED
    BY <1>4, <2>1, FS_Subset, FS_CardinalityType
<1> QED
  BY <1>1, <1>4, <1>5 DEF Got, A

(* A byte's place in the shard is the number of the shard's bytes that     *)
(* precede it.                                                             *)
LEMMA ExpectedRight ==
  ASSUME Setting, NEW w, NEW o \in Owned(layout, w)
  PROVE  Expected(w)[Got(w, o) + 1] = o + 1
<1> DEFINE A == Owned(layout, w)
           B == {p \in A : p < o}
<1>1. A \in SUBSET Nat /\ IsFiniteSet(A) /\ IsFiniteSet(B) /\ o \in Nat /\ Got(w, o) \in Nat /\ o \in A
  BY OwnedRight
<1>2. Expected(w) = Sorted(Shift(A)) /\ Got(w, o) = Cardinality(B)
  BY DEF Expected, Shift, Got
<1> HIDE DEF A
<1>3. Shift(A) \in SUBSET Nat /\ IsFiniteSet(Shift(A)) /\ o + 1 \in Shift(A)
  BY <1>1, ShiftRight DEF Shift
<1>4. {y \in Shift(A) : y < o + 1} = Shift(B)
  <2>1. ASSUME NEW y \in Shift(A), y < o + 1 PROVE y \in Shift(B)
    <3>1. PICK p \in A : y = p + 1
      BY DEF Shift
    <3>2. p \in Nat /\ p < o
      BY <1>1, <2>1, <3>1
    <3> QED
      BY <3>1, <3>2 DEF Shift
  <2>2. ASSUME NEW y \in Shift(B) PROVE y \in Shift(A) /\ y < o + 1
    <3>1. PICK p \in B : y = p + 1
      BY DEF Shift
    <3>2. p \in Nat /\ p < o /\ p \in A
      BY <1>1, <3>1
    <3> QED
      BY <1>1, <3>1, <3>2 DEF Shift
  <2> QED
    BY <2>1, <2>2
<1>5. Below(Shift(A), o + 1) = Cardinality(B)
  <2>1. B \in SUBSET Nat
    BY <1>1
  <2> QED
    BY <1>1, <1>4, <2>1, ShiftRight DEF Below
<1>6. Got(w, o) + 1 \in Nat /\ Below(Shift(A), o + 1) = (Got(w, o) + 1) - 1
  BY <1>1, <1>2, <1>5
<1>7. \A x \in Shift(A) : \A i \in Nat : Below(Shift(A), x) = i - 1 => Sorted(Shift(A))[i] = x
  BY <1>3, SortedRight
<1> QED
  BY <1>2, <1>3, <1>6, <1>7

LEMMA GotBounds ==
  ASSUME Setting, PlanRoutes, NEW w \in All
  PROVE  Got(w, 0) = 0 /\ Got(w, Total) = Quota
<1> DEFINE A == Owned(layout, w)
<1>1. A \in SUBSET (0 .. Total - 1) /\ Total \in Nat
  BY OwnedRight, Numbers
<1>2. {o \in A : o < 0} = {} /\ {o \in A : o < Total} = A
  BY <1>1
<1>3. Cardinality(A) = Quota
  BY DEF PlanRoutes
<1> QED
  BY <1>2, <1>3, FS_EmptySet DEF Got

(* A writer that owns n bytes in a row is given n bytes, one after the     *)
(* other, and one that owns none of them nothing.                          *)
LEMMA GotRow ==
  ASSUME Setting, NEW w, NEW c \in Nat, NEW n \in Nat, \A o \in c .. c + n - 1 : o \in Owned(layout, w)
  PROVE  Got(w, c + n) = Got(w, c) + n
<1> DEFINE A == Owned(layout, w)
           B == {o \in A : o < c}
           R == c .. c + n - 1
<1>1. A \in SUBSET Nat /\ IsFiniteSet(B) /\ Got(w, c) = Cardinality(B) /\ Got(w, c) \in Nat
  BY OwnedRight DEF Got
<1>2. c + n - 1 \in Int /\ c \in Int
  OBVIOUS
<1>3. IsFiniteSet(R) /\ Cardinality(R) = n
  BY <1>2, FS_Interval
<1>4. {o \in A : o < c + n} = B \cup R
  BY <1>1
<1>5. B \cap R = {}
  BY <1>1
<1>6. Cardinality(B \cup R) = Cardinality(B) + n
  <2>1. Cardinality(B \cap R) = 0
    BY <1>5, FS_EmptySet
  <2> HIDE DEF B, R
  <2>2. Cardinality(B \cup R) = Cardinality(B) + Cardinality(R) - Cardinality(B \cap R)
    BY <1>1, <1>3, FS_Union
  <2>3. Cardinality(B) \in Nat
    BY <1>1
  <2> QED
    BY <1>3, <2>1, <2>2, <2>3
<1> QED
  BY <1>1, <1>4, <1>6 DEF Got

LEMMA GotNone ==
  ASSUME Setting, NEW w, NEW c \in Nat, NEW n \in Nat, \A o \in c .. c + n - 1 : o \notin Owned(layout, w)
  PROVE  Got(w, c + n) = Got(w, c)
<1> DEFINE A == Owned(layout, w)
<1>1. A \in SUBSET Nat
  BY OwnedRight
<1>2. {o \in A : o < c + n} = {o \in A : o < c}
  BY <1>1
<1> QED
  BY <1>2 DEF Got

(* Each byte of a span is owned by the writers of the span and no other.   *)
LEMMA TargetsOwn ==
  ASSUME Setting, PlanRoutes, Tiles(spans, Total), NEW i \in 1 .. Len(spans),
         NEW o \in spans[i].start .. spans[i].end - 1, NEW w \in All
  PROVE  o \in Owned(layout, w) <=> w \in Targets(spans[i])
<1>1. /\ spans[i].start \in Nat /\ spans[i].end \in Nat /\ spans[i].end <= Total /\ Total \in Nat
      /\ spans[i].primary_writer \in All /\ spans[i].mirror_writers \in Seq(All) /\ i \in DOMAIN spans
  <2>1. SpanLen(layout) \in Nat /\ Total \in Nat
    BY Numbers
  <2>2. spans[i].end <= Total
    BY TilesEnd
  <2>3. /\ spans[i].start \in Nat /\ spans[i].end = spans[i].start + SpanLen(layout)
        /\ spans[i].primary_writer \in All /\ spans[i].mirror_writers \in Seq(All) /\ i \in DOMAIN spans
    BY Spans
  <2> QED
    BY <2>1, <2>2, <2>3
<1>2. o \in 0 .. Total - 1
  BY <1>1
<1>3. PICK k \in DOMAIN spans :
        LET to == <<spans[k].primary_writer>> \o spans[k].mirror_writers
        IN /\ \A j \in DOMAIN spans \ {k} : o \notin spans[j].start .. spans[j].end - 1
           /\ Range(to) = {v \in All : Owns(layout, v, o)}
  BY <1>2 DEF PlanRoutes
<1>4. k = i
  BY <1>1, <1>3
<1> DEFINE m == spans[i].mirror_writers
           p == spans[i].primary_writer
           to == <<p>> \o m
<1>5. Range(to) = {v \in All : Owns(layout, v, o)}
  BY <1>3, <1>4
<1>6. Range(to) = Targets(spans[i])
  <2>1. m \in Seq(All) /\ <<p>> \in Seq(All) /\ Len(<<p>>) = 1 /\ <<p>>[1] = p /\ Len(m) \in Nat
    BY <1>1
  <2>2. /\ to \in Seq(All) /\ Len(to) = 1 + Len(m)
        /\ \A j \in 1 .. 1 + Len(m) : to[j] = IF j <= 1 THEN <<p>>[j] ELSE m[j - 1]
    BY <2>1, ConcatProperties
  <2>3. DOMAIN to = 1 .. 1 + Len(m)
    BY <2>2
  <2> HIDE DEF to
  <2>4. ASSUME NEW x \in Range(to) PROVE x \in Targets(spans[i])
    <3>1. PICK j \in 1 .. 1 + Len(m) : x = to[j]
      BY <2>3 DEF Range
    <3>2. CASE j <= 1
      <4>1. j = 1
        BY <2>1, <3>2
      <4> QED
        BY <2>1, <2>2, <3>1, <4>1 DEF Targets
    <3>3. CASE ~(j <= 1)
      <4>1. j - 1 \in 1 .. Len(m)
        BY <2>1, <3>3
      <4>2. x = m[j - 1]
        BY <2>2, <3>1, <3>3
      <4> QED
        BY <4>1, <4>2 DEF Targets, Mirrors
    <3> QED
      BY <3>2, <3>3
  <2>5. ASSUME NEW x \in Targets(spans[i]) PROVE x \in Range(to)
    <3>1. CASE x = p
      <4>1. 1 \in 1 .. 1 + Len(m) /\ to[1] = p
        BY <2>1, <2>2
      <4> QED
        BY <2>3, <3>1, <4>1 DEF Range
    <3>2. CASE x # p
      <4>1. PICK j \in 1 .. Len(m) : x = m[j]
        BY <3>2 DEF Targets, Mirrors
      <4>2. j + 1 \in 1 .. 1 + Len(m) /\ ~(j + 1 <= 1) /\ (j + 1) - 1 = j
        BY <2>1
      <4>3. to[j + 1] = x
        BY <2>2, <4>1, <4>2
      <4> QED
        BY <2>3, <4>2, <4>3 DEF Range
    <3> QED
      BY <3>1, <3>2
  <2> QED
    BY <2>4, <2>5
<1>7. Targets(spans[i]) = {v \in All : Owns(layout, v, o)}
  BY <1>5, <1>6
<1> QED
  BY <1>2, <1>7 DEF Owned, Total

-----------------------------------------------------------------------------
(* Contents                                                                *)

LEMMA FlushedHolds ==
  ASSUME Setting, NEW s \in Shards, NEW w, NEW c, Holds(s, w, c)
  PROVE  Holds(Flushed(s), w, c)
<1> DEFINE t == Flushed(s)
<1>1. /\ t.end = 0 /\ t.offset = s.offset + s.end
      /\ \A o \in 1 .. Quota : t.dev[o] = IF s.offset < o /\ o <= s.offset + s.end
                                       THEN s.block[o - s.offset] ELSE s.dev[o]
  BY FlushedRight
<1>2. s.end \in Nat /\ s.offset \in Nat /\ Quota \in Nat
  BY ShardFacts, Numbers
<1>3. /\ s.offset + s.end = Got(w, c)
      /\ \A i \in 1 .. s.end : s.block[i] = Expected(w)[s.offset + i]
      /\ \A i \in 1 .. Quota : s.dev[i] = IF i <= s.offset THEN Expected(w)[i] ELSE 0
  BY DEF Holds
<1> HIDE DEF t
<1>4. t.offset + t.end = Got(w, c)
  BY <1>1, <1>2, <1>3
<1>5. ASSUME NEW i \in 1 .. Quota PROVE t.dev[i] = IF i <= t.offset THEN Expected(w)[i] ELSE 0
  <2>1. CASE s.offset < i /\ i <= s.offset + s.end
    <3>1. i - s.offset \in 1 .. s.end /\ s.offset + (i - s.offset) = i
      BY <1>2, <2>1
    <3>2. s.block[i - s.offset] = Expected(w)[i]
      BY <1>3, <3>1
    <3> QED
      BY <1>1, <2>1, <3>2
  <2>2. CASE ~(s.offset < i /\ i <= s.offset + s.end)
    <3>1. t.dev[i] = s.dev[i] /\ (i <= s.offset <=> i <= t.offset)
      BY <1>1, <1>2, <2>2
    <3> QED
      BY <1>3, <3>1
  <2> QED
    BY <2>1, <2>2
<1>6. \A i \in 1 .. t.end : t.block[i] = Expected(w)[t.offset + i]
  BY <1>1
<1> QED
  BY <1>4, <1>5, <1>6 DEF Holds, t

(* A shard writer whose block got n more bytes, those that follow in its   *)
(* shard, holds what the next bytes of the tensor bring it.                *)
LEMMA GrownHolds ==
  ASSUME Setting, NEW s \in Shards, NEW t \in Shards, NEW w, NEW c, NEW d, NEW n \in Nat, Holds(s, w, c),
         Got(w, d) = Got(w, c) + n,
         t.end = s.end + n, t.offset = s.offset, t.dev = s.dev,
         \A i \in 1 .. s.end : t.block[i] = s.block[i],
         \A j \in 1 .. n : t.block[s.end + j] = Expected(w)[Got(w, c) + j]
  PROVE  Holds(t, w, d)
<1>1. s.end \in Nat /\ s.offset \in Nat
  BY ShardFacts
<1>2. /\ s.offset + s.end = Got(w, c)
      /\ \A i \in 1 .. s.end : s.block[i] = Expected(w)[s.offset + i]
      /\ \A i \in 1 .. Quota : s.dev[i] = IF i <= s.offset THEN Expected(w)[i] ELSE 0
  BY DEF Holds
<1>3. t.offset + t.end = Got(w, d)
  BY <1>1, <1>2
<1>4. ASSUME NEW i \in 1 .. t.end PROVE t.block[i] = Expected(w)[t.offset + i]
  <2>1. CASE i <= s.end
    <3>1. i \in 1 .. s.end
      BY <1>1, <2>1
    <3> QED
      BY <1>2, <3>1
  <2>2. CASE ~(i <= s.end)
    <3>1. i - s.end \in 1 .. n /\ s.end + (i - s.end) = i /\ Got(w, c) + (i - s.end) = t.offset + i
      BY <1>1, <1>2, <2>2
    <3>2. t.block[s.end + (i - s.end)] = Expected(w)[Got(w, c) + (i - s.end)]
      BY <3>1
    <3> QED
      BY <3>1, <3>2
  <2> QED
    BY <2>1, <2>2
<1> QED
  BY <1>2, <1>3, <1>4 DEF Holds

LEMMA AppendedHolds ==
  ASSUME Setting, NEW s \in Shards, NEW w, NEW c, NEW d, Holds(s, w, c), NEW bytes \in Seq(Nat),
         s.end + Len(bytes) <= s.len, Got(w, d) = Got(w, c) + Len(bytes),
         \A j \in 1 .. Len(bytes) : bytes[j] = Expected(w)[Got(w, c) + j]
  PROVE  Holds(Appended(s, bytes), w, d)
<1> DEFINE t == Appended(s, bytes)
           n == Len(bytes)
<1>1. /\ t \in Shards /\ t.end = s.end + n /\ t.offset = s.offset /\ t.dev = s.dev
      /\ \A i \in 1 .. dma_chunk_size :
           t.block[i] = IF s.end < i /\ i <= s.end + n THEN bytes[i - s.end] ELSE s.block[i]
  BY AppendedRight
<1>2. n \in Nat /\ s.end \in Nat /\ s.len \in Nat /\ s.len <= dma_chunk_size /\ dma_chunk_size \in Nat
  BY ShardFacts, Numbers
<1> HIDE DEF t, n
<1>3. \A i \in 1 .. s.end : t.block[i] = s.block[i]
  <2> TAKE i \in 1 .. s.end
  <2>1. i \in 1 .. dma_chunk_size /\ ~(s.end < i)
    BY <1>2 DEF n
  <2> QED
    BY <1>1, <2>1
<1>4. \A j \in 1 .. n : t.block[s.end + j] = Expected(w)[Got(w, c) + j]
  <2> TAKE j \in 1 .. n
  <2>1. s.end + j \in 1 .. dma_chunk_size /\ s.end < s.end + j /\ s.end + j <= s.end + n /\ (s.end + j) - s.end = j
    BY <1>2 DEF n
  <2>2. t.block[s.end + j] = bytes[j]
    BY <1>1, <2>1
  <2> QED
    BY <2>2 DEF n
<1> QED
  BY <1>1, <1>2, <1>3, <1>4, GrownHolds DEF n, t

LEMMA WriteAllHolds ==
  ASSUME Setting, NEW s \in Shards, NEW w, NEW c, NEW d, Holds(s, w, c), NEW bytes \in Seq(Nat),
         ~Refuses(s, Len(bytes)), Got(w, d) = Got(w, c) + Len(bytes),
         \A j \in 1 .. Len(bytes) : bytes[j] = Expected(w)[Got(w, c) + j]
  PROVE  Holds(WriteAll(s, bytes), w, d)
<1>1. CASE Fits(s, Len(bytes))
  <2>1. s.end + Len(bytes) <= s.len /\ WriteAll(s, bytes) = Appended(s, bytes)
    BY <1>1 DEF Fits, WriteAll
  <2> QED
    BY <2>1, AppendedHolds
<1>2. CASE ~Fits(s, Len(bytes))
  <2> DEFINE f == Flushed(s)
             t == Appended(f, bytes)
  <2>1. f \in Shards /\ f.end + Len(bytes) <= f.len /\ Holds(f, w, c)
    BY <1>2, WriteAllRight, FlushedHolds
  <2>2. t \in Shards /\ Holds(t, w, d)
    BY <2>1, AppendedRight, AppendedHolds
  <2>3. Holds(Flushed(t), w, d)
    BY <2>2, FlushedHolds
  <2>4. WriteAll(s, bytes) \in {t, Flushed(t)}
    BY <1>2 DEF WriteAll
  <2> QED
    BY <2>2, <2>3, <2>4
<1> QED
  BY <1>1, <1>2

(* A piece of a span brings its writers the next bytes of their shards.    *)
LEMMA PieceRight ==
  ASSUME Setting, PlanRoutes, Tiles(spans, Total), NEW i \in 1 .. Len(spans), NEW w \in All,
         NEW c \in Nat, NEW n \in Nat, spans[i].start <= c, c + n <= spans[i].end
  PROVE  /\ w \in Targets(spans[i]) =>
              Got(w, c + n) = Got(w, c) + n /\ \A j \in 1 .. n : Expected(w)[Got(w, c) + j] = c + j
         /\ w \notin Targets(spans[i]) => Got(w, c + n) = Got(w, c)
<1>1. \A o \in c .. c + n - 1 : o \in spans[i].start .. spans[i].end - 1
  <2>1. spans[i].start \in Nat /\ spans[i].end \in Nat
    BY Spans, Numbers
  <2> QED
    BY <2>1
<1>2. \A o \in c .. c + n - 1 : o \in Owned(layout, w) <=> w \in Targets(spans[i])
  BY <1>1, TargetsOwn
<1>3. ASSUME w \in Targets(spans[i])
      PROVE  Got(w, c + n) = Got(w, c) + n /\ \A j \in 1 .. n : Expected(w)[Got(w, c) + j] = c + j
  <2>1. Got(w, c + n) = Got(w, c) + n
    BY <1>2, <1>3, GotRow
  <2>2. ASSUME NEW j \in 1 .. n PROVE Expected(w)[Got(w, c) + j] = c + j
    <3> DEFINE o == c + (j - 1)
    <3>1. o \in c .. c + n - 1 /\ j - 1 \in Nat /\ o + 1 = c + j
      OBVIOUS
    <3>2. \A q \in c .. c + (j - 1) - 1 : q \in c .. c + n - 1
      OBVIOUS
    <3>3. \A q \in c .. c + (j - 1) - 1 : q \in Owned(layout, w)
      BY <1>2, <1>3, <3>2
    <3>4. Got(w, c + (j - 1)) = Got(w, c) + (j - 1)
      BY <3>1, <3>3, GotRow
    <3>5. o \in Owned(layout, w)
      BY <1>2, <1>3, <3>1
    <3>6. Expected(w)[Got(w, o) + 1] = o + 1
      BY <3>5, ExpectedRight
    <3>7. Got(w, c) \in Nat
      BY OwnedRight
    <3>8. Got(w, o) + 1 = Got(w, c) + j
      BY <3>4, <3>7
    <3> QED
      BY <3>1, <3>6, <3>8
  <2> QED
    BY <2>1, <2>2
<1>4. ASSUME w \notin Targets(spans[i]) PROVE Got(w, c + n) = Got(w, c)
  <2>1. \A o \in c .. c + n - 1 : o \notin Owned(layout, w)
    BY <1>2, <1>4
  <2> QED
    BY <2>1, GotNone
<1> QED
  BY <1>3, <1>4

LEMMA SpanHolds ==
  ASSUME ScatterInv, PlanRoutes, Contents, Unscattered, NEW n, SpanStep(n), NEW w \in All
  PROVE  Holds(shard'[w], w, byte_cursor + n)
<1> DEFINE span == spans[span_index]
           from == window_start + consumed
           C == Chunk(shard, from, n)
           s == shard[w]
           a == shard[active]
           c == byte_cursor
<1>0. /\ Setting /\ shard \in [All -> Shards] /\ pc = "scatter" /\ SpansLeft /\ n \in Nat /\ WindowOpen
      /\ Tiles(spans, Total) /\ byte_cursor \in Nat /\ span_index \in 1 .. Len(spans)
      /\ byte_cursor \in span.start .. span.end - 1
  BY InvFacts DEF SpanStep, WindowOpen
<1>1. /\ active \in All /\ a \in Shards /\ a.end \in Nat /\ a.len \in Nat /\ len \in Nat /\ end \in Nat
      /\ end <= len /\ len <= a.len /\ len <= dma_chunk_size /\ window_start \in Nat
      /\ consumed = 0 => active = span.primary_writer /\ window_start = a.end
      /\ Opened = byte_cursor - consumed
  BY <1>0, OpenWindow DEF Opened
<1>2. consumed \in Nat /\ from \in Nat /\ from + n <= end /\ a.end <= from /\ byte_cursor + n <= span.end
  BY <1>1 DEF SpanStep
<1>3. dma_chunk_size \in Nat /\ from + n <= dma_chunk_size /\ a.end + n <= a.len
  <2>1. dma_chunk_size \in Nat
    BY <1>0, Numbers
  <2>2. /\ a.end \in Nat /\ a.len \in Nat /\ len \in Nat /\ end \in Nat /\ from \in Nat /\ n \in Nat
        /\ end <= len /\ len <= a.len /\ len <= dma_chunk_size /\ from + n <= end /\ a.end <= from
    BY <1>0, <1>1, <1>2
  <2> HIDE DEF a, from
  <2> QED
    BY <2>1, <2>2
<1>4. \A j \in 1 .. n : a.block[from + j] = c + j
  <2> TAKE j \in 1 .. n
  <2>1. consumed + j \in consumed + 1 .. end - window_start /\ window_start + (consumed + j) = from + j
        /\ Opened + (consumed + j) = c + j
    BY <1>0, <1>1, <1>2
  <2>2. a.block[window_start + (consumed + j)] = Opened + (consumed + j)
    BY <1>0, <2>1 DEF Unscattered
  <2> QED
    BY <2>1, <2>2
<1>5. C \in Seq(Nat) /\ Len(C) = n /\ \A j \in 1 .. n : C[j] = c + j
  <2>1. C \in Seq(Nat) /\ Len(C) = n /\ \A j \in 1 .. n : C[j] = a.block[from + j]
    BY <1>0, <1>1, <1>2, <1>3, ChunkRight
  <2> QED
    BY <1>4, <2>1
<1>6. /\ w \in Targets(span) =>
           Got(w, c + n) = Got(w, c) + n /\ \A j \in 1 .. n : Expected(w)[Got(w, c) + j] = c + j
      /\ w \notin Targets(span) => Got(w, c + n) = Got(w, c)
  <2>1. span.start <= c
    <3>1. span.start \in Nat /\ span.end \in Nat
      BY <1>0, Spans, Numbers
    <3> QED
      BY <1>0, <3>1
  <2> QED
    BY <1>0, <1>2, <2>1, PieceRight
<1>7. s \in Shards /\ Holds(s, w, c)
  BY <1>0 DEF Contents
<1>8. /\ shard'[w] = IF w = span.primary_writer THEN First(span, w, from, n)
                     ELSE IF w \in Mirrors(span) THEN Given(w, from, n) ELSE s
      /\ w \in Targets(span) \ {active} => InPlace(span) \/ ~Refuses(s, n)
      /\ w \in Mirrors(span) \ {active} => ~Refuses(s, n)
  BY DEF SpanStep
<1>9. Given(w, from, n) = IF w = active THEN Appended(s, C) ELSE WriteAll(s, C)
  BY DEF Given
<1>10. InPlace(span) => span.primary_writer = active /\ consumed = 0
  BY DEF InPlace
<1>11. w = active => s = a
  OBVIOUS
<1> HIDE DEF span, C, s, a, c
<1>12. ASSUME w \in Targets(span), w = active \/ ~Refuses(s, n)
       PROVE  Holds(Given(w, from, n), w, c + n)
  <2>1. Got(w, c + n) = Got(w, c) + Len(C) /\ \A j \in 1 .. Len(C) : C[j] = Expected(w)[Got(w, c) + j]
    BY <1>5, <1>6, <1>12
  <2>2. CASE w = active
    <3>1. s.end + Len(C) <= s.len
      BY <1>3, <1>5, <1>11, <2>2
    <3>2. Holds(Appended(s, C), w, c + n)
      BY <1>0, <1>5, <1>7, <2>1, <3>1, AppendedHolds
    <3> QED
      BY <1>9, <2>2, <3>2
  <2>3. CASE w # active
    <3>1. ~Refuses(s, Len(C))
      BY <1>5, <1>12, <2>3
    <3>2. Holds(WriteAll(s, C), w, c + n)
      BY <1>0, <1>5, <1>7, <2>1, <3>1, WriteAllHolds
    <3> QED
      BY <1>9, <2>3, <3>2
  <2> QED
    BY <2>2, <2>3
<1>13. CASE w \notin Targets(span)
  <2>1. shard'[w] = s
    BY <1>8, <1>13 DEF Targets
  <2>2. Holds(s, w, c + n)
    BY <1>6, <1>7, <1>13 DEF Holds
  <2> QED
    BY <2>1, <2>2 DEF c
<1>14. CASE w \in Targets(span) /\ w = span.primary_writer /\ InPlace(span)
  <2>1. w = active /\ s = a /\ consumed = 0 /\ shard'[w] = Filled(n) /\ a.end = from
    <3>1. w = active /\ consumed = 0
      BY <1>10, <1>14
    <3>2. window_start = a.end /\ from = a.end
      BY <1>1, <3>1
    <3> QED
      BY <1>8, <1>11, <1>14, <3>1, <3>2 DEF First
  <2>2. LET t == Filled(n) IN
        t \in Shards /\ t.end = a.end + n /\ t.block = a.block /\ t.offset = a.offset /\ t.dev = a.dev
    BY <1>0, <1>1, <1>3, FilledRight DEF a
  <2>3. \A j \in 1 .. n : a.block[a.end + j] = Expected(w)[Got(w, c) + j]
    BY <1>4, <1>6, <1>14, <2>1
  <2>4. Got(w, c + n) = Got(w, c) + n
    BY <1>6, <1>14
  <2> DEFINE t == Filled(n)
  <2>5. /\ t \in Shards /\ t.end = s.end + n /\ t.offset = s.offset /\ t.dev = s.dev
        /\ \A i \in 1 .. s.end : t.block[i] = s.block[i]
        /\ \A j \in 1 .. n : t.block[s.end + j] = Expected(w)[Got(w, c) + j]
    BY <2>1, <2>2, <2>3
  <2> HIDE DEF t
  <2>6. Holds(t, w, c + n)
    BY <1>0, <1>7, <2>4, <2>5, GrownHolds
  <2> QED
    BY <2>1, <2>6 DEF t, c
<1>15. CASE w \in Targets(span) /\ ~(w = span.primary_writer /\ InPlace(span))
  <2>1. shard'[w] = Given(w, from, n)
    BY <1>8, <1>15 DEF First, Targets
  <2>2. w = active \/ ~Refuses(s, n)
    <3>1. CASE w \in Mirrors(span)
      BY <1>8, <3>1
    <3>2. CASE w \notin Mirrors(span)
      BY <1>8, <1>15, <3>2 DEF Targets
    <3> QED
      BY <3>1, <3>2
  <2> QED
    BY <1>12, <1>15, <2>1, <2>2 DEF c
<1> QED
  BY <1>13, <1>14, <1>15

(* Contents is of the plan, the cursor and the shard writers.              *)
LEMMA HoldsKept ==
  ASSUME Setting, UNCHANGED plan, shard' \in [All -> Shards],
         \A w \in All : Holds(shard'[w], w, byte_cursor'),
         pc' = "closed" => \A w \in All : shard'[w].offset = Quota
  PROVE  Contents'
<1>1. layout' = layout /\ Quota' = Quota /\ All' = All
  BY PlanKept
<1>2. ASSUME NEW w \in All PROVE Holds(shard[w], w, byte_cursor)'
  <2>1. Holds(shard'[w], w, byte_cursor')
    OBVIOUS
  <2>2. Expected(w)' = Expected(w) /\ Got(w, byte_cursor)' = Got(w, byte_cursor')
    BY <1>1 DEF Expected, Got
  <2> QED
    BY <1>1, <2>1, <2>2 DEF Holds
<1> QED
  BY <1>1, <1>2 DEF Contents

ContentsInv == Contents /\ Unscattered

LEMMA ContentsInit ==
  ASSUME Init, PlanRoutes
  PROVE  ContentsInv
<1>0. Setting
  BY DEF Init, Setting
<1>1. \A w \in All : shard[w].end = 0 /\ shard[w].offset = 0 /\ shard[w].dev = Zeros(Quota)
  BY DEF Init
<1>2. byte_cursor = 0 /\ pc \in {"idle", "failed"} /\ end = 0 /\ window_start = 0
  BY DEF Init
<1>3. ASSUME NEW w \in All PROVE Holds(shard[w], w, byte_cursor)
  <2>1. Got(w, 0) = 0 /\ Quota \in Nat
    BY <1>0, GotBounds, Numbers
  <2> QED
    BY <1>1, <1>2, <2>1 DEF Holds, Zeros
<1> QED
  BY <1>2, <1>3 DEF ContentsInv, Contents, Unscattered, WindowOpen

(* What the reader writes is in the window, behind what it wrote before.   *)
LEMMA FillContents ==
  ASSUME ScatterInv, ContentsInv, pc \in {"idle", "return"}, SpansLeft, NEW n \in Nat, Fill(n), end + n <= len,
         pc' \in {"idle", "commit"}, UNCHANGED <<plan, span_index, byte_cursor, active, window_start, len, consumed>>
  PROVE  ContentsInv'
<1>0. Setting /\ shard \in [All -> Shards] /\ WindowOpen
  BY InvFacts DEF WindowOpen
<1>1. /\ active \in All /\ window_start \in Nat /\ len \in Nat /\ end \in Nat
      /\ window_start <= end /\ end <= len /\ len <= dma_chunk_size /\ window_start = shard[active].end
      /\ shard[active] \in Shards /\ Opened \in Nat
  BY <1>0, OpenWindow
<1>2. Position \in Nat /\ Position = Opened + (end - window_start) /\ Opened = byte_cursor /\ byte_cursor \in Nat
  BY <1>1, PositionType
<1>3. end + n <= dma_chunk_size /\ dma_chunk_size \in Nat
  BY <1>0, <1>1, Numbers
<1>4. /\ shard' \in [All -> Shards] /\ end' = end + n
      /\ \A w \in All \ {active} : shard'[w] = shard[w]
      /\ shard'[active].end = shard[active].end /\ shard'[active].len = shard[active].len
      /\ shard'[active].offset = shard[active].offset /\ shard'[active].dev = shard[active].dev
      /\ \A i \in 1 .. dma_chunk_size :
           shard'[active].block[i] = IF end < i /\ i <= end + n THEN Position + (i - end)
                                     ELSE shard[active].block[i]
  BY <1>0, <1>1, <1>2, <1>3, FillRight
<1>5. ASSUME NEW w \in All PROVE Holds(shard'[w], w, byte_cursor')
  <2>1. Holds(shard[w], w, byte_cursor)
    BY DEF ContentsInv, Contents
  <2>2. CASE w # active
    BY <1>4, <2>1, <2>2
  <2>3. CASE w = active
    <3>1. \A i \in 1 .. shard[active].end : shard'[active].block[i] = shard[active].block[i]
      <4> TAKE i \in 1 .. shard[active].end
      <4>1. i \in 1 .. dma_chunk_size /\ ~(end < i)
        BY <1>1, <1>3
      <4> QED
        BY <1>4, <4>1
    <3> QED
      BY <1>4, <2>1, <2>3, <3>1 DEF Holds
  <2> QED
    BY <2>2, <2>3
<1>6. Contents'
  <2>1. pc' # "closed"
    OBVIOUS
  <2> QED
    BY <1>0, <1>4, <1>5, <2>1, HoldsKept
<1>7. Unscattered'
  <2>1. ASSUME NEW i \in 1 .. end + n - window_start
        PROVE  shard'[active].block[window_start + i] = byte_cursor + i
    <3>1. window_start + i \in 1 .. dma_chunk_size
      BY <1>1, <1>3
    <3>2. CASE end < window_start + i
      <4>1. window_start + i <= end + n
        BY <1>1
      <4>2. Position + ((window_start + i) - end) = byte_cursor + i
        BY <1>1, <1>2
      <4> QED
        BY <1>4, <3>1, <3>2, <4>1, <4>2
    <3>3. CASE ~(end < window_start + i)
      <4>1. i \in 1 .. end - window_start
        BY <1>1, <3>3
      <4>2. shard[active].block[window_start + i] = Opened + i
        BY <1>0, <4>1 DEF ContentsInv, Unscattered
      <4> QED
        BY <1>2, <1>4, <3>1, <3>3, <4>2
    <3> QED
      BY <3>2, <3>3
  <2>2. pc' # "scatter" /\ Opened' = byte_cursor /\ end' = end + n /\ active' = active /\ window_start' = window_start
    BY <1>4 DEF Opened
  <2>3. ASSUME NEW i \in (IF pc = "scatter" THEN consumed + 1 ELSE 1)' .. (end - window_start)'
        PROVE  (shard'[active]).block[window_start + i] = Opened' + i
    <3>1. (IF pc = "scatter" THEN consumed + 1 ELSE 1)' = 1
      BY <2>2
    <3>2. (end - window_start)' = end + n - window_start
      <4>1. end' \in Nat /\ window_start' \in Nat
        BY <1>1, <2>2
      <4> QED
        BY <1>1, <2>2, <4>1
    <3>3. i \in 1 .. end + n - window_start
      BY <2>3, <3>1, <3>2, Zenon
    <3> QED
      BY <2>1, <2>2, <3>3
  <2> QED
    BY <2>2, <2>3 DEF Unscattered
<1> QED
  BY <1>6, <1>7 DEF ContentsInv

(* Steps that touch neither a shard writer nor the cursor.                 *)
LEMMA QuietContents ==
  ASSUME ScatterInv, ContentsInv, UNCHANGED <<plan, byte_cursor, shard>>, pc' = "closed" => pc = "closed",
         Unscattered'
  PROVE  ContentsInv'
<1>1. Setting /\ shard \in [All -> Shards]
  BY InvFacts
<1>2. \A w \in All : Holds(shard'[w], w, byte_cursor') /\ (pc' = "closed" => shard'[w].offset = Quota)
  BY DEF ContentsInv, Contents
<1> QED
  BY <1>1, <1>2, HoldsKept DEF ContentsInv

LEMMA SpanContents ==
  ASSUME ScatterInv, ContentsInv, PlanRoutes, NEW n, SpanStep(n)
  PROVE  ContentsInv'
<1>0. /\ Setting /\ pc = "scatter" /\ pc' = "scatter" /\ WindowOpen /\ UNCHANGED plan
      /\ byte_cursor' = byte_cursor + n /\ consumed' = consumed + n /\ active' = active
      /\ window_start' = window_start /\ end' = end /\ consumed \in Nat /\ n \in Nat /\ byte_cursor \in Nat
      /\ window_start + consumed + n <= end
  BY InvFacts DEF SpanStep, WindowOpen, window
<1>1. \A w \in All : Holds(shard'[w], w, byte_cursor')
  BY <1>0, SpanHolds DEF ContentsInv
<1>2. /\ shard' \in [All -> Shards]
      /\ \A i \in 1 .. dma_chunk_size :
           i > window_start + consumed + n => shard'[active].block[i] = shard[active].block[i]
  BY SpanShards
<1>3. Contents'
  BY <1>0, <1>1, <1>2, HoldsKept
<1>4. window_start \in Nat /\ end \in Nat /\ len \in Nat /\ end <= len /\ len <= dma_chunk_size
      /\ Opened = byte_cursor - consumed /\ dma_chunk_size \in Nat
  BY <1>0, OpenWindow, Numbers DEF Opened
<1>5. Opened' = Opened
  <2>1. Opened' = (byte_cursor + n) - (consumed + n)
    BY <1>0 DEF Opened
  <2> QED
    BY <1>0, <1>4, <2>1
<1>6. ASSUME NEW i \in consumed + n + 1 .. end - window_start
      PROVE  shard'[active].block[window_start + i] = Opened + i
  <2>1. i \in consumed + 1 .. end - window_start
    BY <1>0, <1>4
  <2>2. window_start + i \in 1 .. dma_chunk_size /\ window_start + i > window_start + consumed + n
    BY <1>0, <1>4
  <2>3. shard[active].block[window_start + i] = Opened + i
    BY <1>0, <2>1 DEF ContentsInv, Unscattered
  <2> QED
    BY <1>2, <2>2, <2>3
<1>7. Unscattered'
  BY <1>0, <1>5, <1>6 DEF Unscattered
<1> QED
  BY <1>3, <1>7 DEF ContentsInv

LEMMA RotateContents ==
  ASSUME ScatterInv, ContentsInv, Rotate
  PROVE  ContentsInv'
<1>0. /\ Setting /\ shard \in [All -> Shards] /\ pc = "scatter" /\ shard' = AfterFence
      /\ UNCHANGED <<plan, byte_cursor, span_index>> /\ pc' \in {"return", "failed"}
      /\ SpansLeft /\ pc' = "return" => end' = window_start'
  BY InvFacts DEF Rotate, Publish
<1>1. ASSUME NEW w \in All PROVE Holds(shard'[w], w, byte_cursor')
  <2>1. Holds(shard[w], w, byte_cursor) /\ shard[w] \in Shards
    BY <1>0 DEF ContentsInv, Contents
  <2>2. Holds(Flushed(shard[w]), w, byte_cursor)
    BY <1>0, <2>1, FlushedHolds
  <2>3. shard'[w] \in {shard[w], Flushed(shard[w])}
    BY <1>0, FenceRight
  <2> QED
    BY <1>0, <2>1, <2>2, <2>3
<1>2. shard' \in [All -> Shards]
  BY <1>0, FenceRight
<1>3. Contents'
  BY <1>0, <1>1, <1>2, HoldsKept
<1>4. SpansLeft' = SpansLeft
  BY <1>0 DEF SpansLeft, plan
<1>5. ASSUME WindowOpen' PROVE Unscattered'
  <2>1. end' = window_start' /\ pc' # "scatter"
    BY <1>0, <1>4, <1>5 DEF WindowOpen
  <2>2. window_start' \in Nat
    <3>1. ScatterInv'
      BY RotateKeeps
    <3>2. window_start' \in Nat
      BY <3>1, <1>5 DEF ScatterInv, Window, WindowOpen
    <3> QED
      BY <3>2
  <2>3. end' - window_start' = 0
    <3>1. \A x \in Nat : x - x = 0
      OBVIOUS
    <3>2. window_start' - window_start' = 0
      BY <2>2, <3>1, Zenon
    <3> QED
      BY <2>1, <3>2, Zenon
  <2> QED
    BY <2>1, <2>3 DEF Unscattered
<1>6. ~WindowOpen' => Unscattered'
  BY DEF Unscattered
<1> QED
  BY <1>3, <1>5, <1>6 DEF ContentsInv

LEMMA CallContents ==
  ASSUME ScatterInv, ContentsInv, NEW op, NEW n, Call(op, n)
  PROVE  ContentsInv'
<1>1. /\ pc = "idle" /\ pc' = "commit" /\ UNCHANGED <<plan, byte_cursor, shard>>
      /\ UNCHANGED <<span_index, active, window_start, end, spans>>
  BY DEF Call, window, plan
<1>2. WindowOpen' = WindowOpen /\ Opened' = Opened
  BY <1>1 DEF WindowOpen, Opened, SpansLeft
<1>3. Unscattered
  BY DEF ContentsInv
<1>4. Unscattered'
  BY <1>1, <1>2, <1>3 DEF Unscattered
<1> QED
  BY <1>1, <1>4, QuietContents

LEMMA ReturnContents ==
  ASSUME ScatterInv, ContentsInv, DrainReturns \/ RebaseReturns
  PROVE  ContentsInv'
<1>1. /\ pc = "return" /\ pc' \in {"idle", "failed"} /\ UNCHANGED <<plan, byte_cursor, shard>>
      /\ UNCHANGED <<span_index, active, window_start, end, spans>>
  BY DEF DrainReturns, RebaseReturns, window, plan
<1>2. WindowOpen' => WindowOpen /\ Opened' = Opened
  BY <1>1 DEF WindowOpen, Opened, SpansLeft
<1>3. Unscattered
  BY DEF ContentsInv
<1>4. Unscattered'
  BY <1>1, <1>2, <1>3 DEF Unscattered
<1> QED
  BY <1>1, <1>4, QuietContents

LEMMA CommitContents ==
  ASSUME ScatterInv, ContentsInv, Commit
  PROVE  ContentsInv'
<1>1. /\ pc = "commit" /\ pc' \in {"scatter", "return"} /\ UNCHANGED <<plan, byte_cursor, shard>>
      /\ consumed' = 0 /\ UNCHANGED <<span_index, active, window_start, spans>>
      /\ SpansLeft => end' = end
      /\ ~SpansLeft => pc' = "return"
  BY DEF Commit, plan
<1>2. SpansLeft' = SpansLeft
  BY <1>1 DEF SpansLeft
<1>3. CASE SpansLeft
  <2>1. Unscattered /\ WindowOpen /\ byte_cursor \in Nat
    BY <1>1, <1>3, InvFacts DEF ContentsInv, WindowOpen
  <2>2. Opened' = byte_cursor /\ Opened = byte_cursor
    BY <1>1, <2>1 DEF Opened
  <2>3. \A i \in 1 .. end - window_start : shard[active].block[window_start + i] = Opened + i
    BY <1>1, <2>1 DEF Unscattered
  <2>4. (IF pc = "scatter" THEN consumed + 1 ELSE 1)' = 1
    BY <1>1
  <2>5. Unscattered'
    BY <1>1, <1>3, <2>2, <2>3, <2>4 DEF Unscattered
  <2> QED
    BY <1>1, <2>5, QuietContents
<1>4. CASE ~SpansLeft
  <2>1. Unscattered'
    BY <1>1, <1>2, <1>4 DEF Unscattered, WindowOpen
  <2> QED
    BY <1>1, <2>1, QuietContents
<1> QED
  BY <1>3, <1>4

LEMMA DrainCopiesContents ==
  ASSUME ScatterInv, ContentsInv, DrainCopies
  PROVE  ContentsInv'
<1>0. pc = "return" /\ UNCHANGED <<plan, span_index, byte_cursor, active, window_start, len, consumed>>
      /\ asked \in Nat
  BY InvFacts DEF DrainCopies
<1>1. CASE len = end
  <2>1. pc' = "failed" /\ shard' = shard
    BY <1>1 DEF DrainCopies
  <2>2. Unscattered'
    BY <2>1 DEF Unscattered, WindowOpen
  <2> QED
    BY <1>0, <2>1, <2>2, QuietContents
<1>2. CASE len # end
  <2>1. SpansLeft
    BY <1>0, <1>2, RoomMeansSpans
  <2>2. len \in Nat /\ end \in Nat /\ end <= len
    BY <1>0, <2>1, OpenWindow DEF WindowOpen
  <2> DEFINE n == Smaller(len - end, asked)
  <2>3. n \in Nat /\ end + n <= len
    BY <1>0, <2>2 DEF Smaller
  <2>4. Fill(n) /\ pc' = "commit"
    BY <1>2 DEF DrainCopies
  <2> HIDE DEF n
  <2> QED
    BY <1>0, <2>1, <2>3, <2>4, FillContents
<1> QED
  BY <1>1, <1>2

LEMMA WriteContents ==
  ASSUME ScatterInv, ContentsInv, NEW n \in 1 .. Total, Write(n)
  PROVE  ContentsInv'
<1>1. pc = "idle" /\ Fill(n) /\ end + n <= len /\ n \in Nat /\ n # 0
      /\ UNCHANGED <<plan, span_index, byte_cursor, active, window_start, len, consumed>>
      /\ pc' \in {"idle", "commit"}
  BY DEF Write
<1>2. SpansLeft /\ pc \in {"idle", "return"}
  BY <1>1, RoomMeansSpans
<1> QED
  BY <1>1, <1>2, FillContents

(* When flush returns every byte was scattered.                            *)
LEMMA FlushContents ==
  ASSUME ScatterInv, ContentsInv, PlanRoutes, FlushReturns
  PROVE  ContentsInv'
<1>0. /\ Setting /\ shard \in [All -> Shards] /\ pc = "return" /\ caller = "flush" /\ pc' = "closed"
      /\ UNCHANGED <<plan, byte_cursor>> /\ shard' = [w \in All |-> Flushed(shard[w])]
  BY InvFacts DEF FlushReturns
<1>1. byte_cursor = Total
  <2>1. CASE ~SpansLeft
    BY <1>0, <2>1, InvFacts
  <2>2. CASE SpansLeft
    <3>1. /\ end = window_start /\ window_start \in Nat /\ Opened = byte_cursor /\ byte_cursor \in Nat
          /\ Opened + (end - window_start) = Total
      BY <1>0, <2>2, OpenWindow, InvFacts DEF WindowOpen, Opened
    <3> QED
      BY <3>1
  <2> QED
    BY <2>1, <2>2
<1>2. ASSUME NEW w \in All
      PROVE  Flushed(shard[w]) \in Shards /\ Holds(Flushed(shard[w]), w, byte_cursor)
             /\ Flushed(shard[w]).offset = Quota
  <2>1. shard[w] \in Shards /\ Holds(shard[w], w, byte_cursor)
    BY <1>0 DEF ContentsInv, Contents
  <2>2. Flushed(shard[w]) \in Shards /\ Holds(Flushed(shard[w]), w, byte_cursor)
        /\ Flushed(shard[w]).offset = shard[w].offset + shard[w].end
    BY <1>0, <2>1, FlushedRight, FlushedHolds
  <2>3. shard[w].offset + shard[w].end = Got(w, byte_cursor)
    BY <2>1 DEF Holds
  <2>4. Got(w, byte_cursor) = Quota
    BY <1>0, <1>1, GotBounds
  <2> QED
    BY <2>2, <2>3, <2>4
<1>3. shard' \in [All -> Shards] /\ \A w \in All : Holds(shard'[w], w, byte_cursor') /\ shard'[w].offset = Quota
  BY <1>0, <1>2
<1>4. Contents'
  BY <1>0, <1>3, HoldsKept
<1>5. Unscattered'
  BY <1>0 DEF Unscattered, WindowOpen
<1> QED
  BY <1>4, <1>5 DEF ContentsInv

LEMMA ScatterSpanContents ==
  ASSUME ScatterInv, ContentsInv, PlanRoutes, ScatterSpan
  PROVE  ContentsInv'
<1>1. CASE pc' = "failed"
  <2>1. pc = "scatter" /\ UNCHANGED plan
    BY Zenon DEF ScatterSpan
  <2>2. (pc' = pc) \/ (shard' = shard)
    BY Zenon DEF ScatterSpan
  <2>3. (pc' = pc) \/ (byte_cursor' = byte_cursor)
    BY Zenon DEF ScatterSpan
  <2>4. UNCHANGED <<plan, byte_cursor, shard>>
    BY <1>1, <2>1, <2>2, <2>3
  <2>5. Unscattered'
    BY <1>1 DEF Unscattered, WindowOpen
  <2> QED
    BY <1>1, <2>4, <2>5, QuietContents
<1>2. CASE pc' # "failed"
  <2>1. PICK n : SpanStep(n)
    BY <1>2, SpanStepIs
  <2> QED
    BY <2>1, SpanContents
<1> QED
  BY <1>1, <1>2

LEMMA ContentsStutter ==
  ASSUME ScatterInv, ContentsInv, UNCHANGED vars
  PROVE  ContentsInv'
<1>1. /\ UNCHANGED <<plan, byte_cursor, shard>> /\ pc' = pc
      /\ UNCHANGED <<span_index, active, window_start, end, consumed, spans>>
  BY DEF vars, window, plan
<1>2. WindowOpen' = WindowOpen /\ Opened' = Opened
  BY <1>1 DEF WindowOpen, Opened, SpansLeft
<1>3. Unscattered'
  BY <1>1, <1>2 DEF ContentsInv, Unscattered
<1> QED
  BY <1>1, <1>3, QuietContents

LEMMA ContentsNext ==
  ASSUME ScatterInv, ContentsInv, PlanRoutes, [Next]_vars
  PROVE  ContentsInv'
<1>1. ASSUME NEW n \in 1 .. Total, Write(n) PROVE ContentsInv'
  BY <1>1, WriteContents
<1>2. ASSUME NEW n \in 1 .. Total, Drain(n) PROVE ContentsInv'
  BY <1>2, CallContents DEF Drain
<1>3. CASE Rebase
  BY <1>3, CallContents DEF Rebase
<1>4. CASE Flush
  BY <1>4, CallContents DEF Flush
<1>5. CASE Step
  BY <1>5, CommitContents, ScatterSpanContents, RotateContents, DrainCopiesContents, ReturnContents, FlushContents
     DEF Step
<1> QED
  BY <1>1, <1>2, <1>3, <1>4, <1>5, ContentsStutter DEF Next, Stream

(* What DispatchPlanProofs shows of the plan of an even layout.            *)
LEMMA SettingRoutes ==
  ASSUME Setting
  PROVE  PlanRoutes /\ Tiles(spans, Total)
<1>1. IsEven(layout) /\ spans = DispatchSpans(layout)
  BY ScatterAssumption DEF Setting, IsEven
<1>2. Tiles(spans, Total)
  BY <1>1, PlanTiles DEF Total
<1>3. \A w \in All : Cardinality(Owned(layout, w)) = Quota
  BY <1>1, SharesEqual DEF All, Quota
<1>4. ASSUME NEW o \in 0 .. Total - 1
      PROVE  \E i \in DOMAIN spans :
               LET to == <<spans[i].primary_writer>> \o spans[i].mirror_writers
               IN /\ o \in spans[i].start .. spans[i].end - 1
                  /\ \A j \in DOMAIN spans \ {i} : o \notin spans[j].start .. spans[j].end - 1
                  /\ IsInjective(to)
                  /\ Range(to) = {w \in All : Owns(layout, w, o)}
  BY <1>1, PlanRight, Zenon DEF Total, All
<1> QED
  BY <1>2, <1>3, <1>4, Zenon DEF PlanRoutes

(* The routing table is right for every layout whose dimensions are cut    *)
(* into equal parts: the spans tile the tensor, the primary and the        *)
(* mirrors of a span are the owners of every byte of it, each of them      *)
(* once, and a writer owns as many bytes as its shard has.                 *)
THEOREM TableRoutes == Spec => []PlanRoutes
<1>1. ScatterInv => PlanRoutes
  BY InvFacts, SettingRoutes
<1> QED
  BY <1>1, WindowsHold, PTL

(* What a shard writer was given are the bytes its shard owns among those  *)
(* the cursor has passed, in order, on the device or in its block, and     *)
(* what the reader has written beyond the cursor is in the window.         *)
THEOREM EveryByteInOrder == Spec => [](Contents /\ Unscattered)
<1>1. Init /\ PlanRoutes => ContentsInv
  BY ContentsInit
<1>2. ScatterInv /\ ContentsInv /\ PlanRoutes /\ [Next]_vars => ContentsInv'
  BY ContentsNext
<1>3. Spec => []ContentsInv
  BY <1>1, <1>2, WindowsHold, TableRoutes, PTL DEF Spec
<1>4. ContentsInv => Contents /\ Unscattered
  BY DEF ContentsInv
<1> QED
  BY <1>3, <1>4, PTL

(* A byte of a shard that is on its device is the byte that belongs there, *)
(* and after flush all of them are.                                        *)
THEOREM ScatterDelivers == Spec => []ScatteredRight
<1>1. ScatterInv /\ Contents => ScatteredRight
  <2>1. ASSUME ScatterInv, Contents, NEW w \in All, NEW i \in 1 .. Quota
        PROVE  shard[w].dev[i] \in {Expected(w)[i]} \cup (IF pc = "closed" THEN {} ELSE {0})
    <3>1. Setting /\ Quota \in Nat
      BY <2>1, InvFacts, Numbers
    <3>2. shard[w].dev[i] = IF i <= shard[w].offset THEN Expected(w)[i] ELSE 0
      BY <2>1 DEF Contents, Holds
    <3>3. pc = "closed" => shard[w].offset = Quota
      BY <2>1 DEF Contents
    <3> QED
      BY <3>1, <3>2, <3>3
  <2> QED
    BY <2>1 DEF ScatteredRight
<1> QED
  BY <1>1, WindowsHold, EveryByteInOrder, PTL

-----------------------------------------------------------------------------
(* Nothing is refused                                                      *)

(* How much the reader has written, wherever the writer is. A drain and a  *)
(* rebase are only begun while some of the tensor is still to come.        *)
Ahead == IF WindowOpen THEN Opened + (end - window_start) ELSE byte_cursor
Served == pc # "failed" /\ (pc # "idle" /\ caller \in {"drain", "rebase"} => Ahead < Total)

(* A writer is never given more than its shard has.                        *)
LEMMA GotMost ==
  ASSUME Setting, PlanRoutes, NEW w \in All, NEW n \in Nat
  PROVE  Got(w, n) \in Nat /\ Got(w, n) <= Quota
<1> DEFINE A == Owned(layout, w)
           B == {o \in A : o < n}
<1>1. IsFiniteSet(A) /\ B \subseteq A /\ Got(w, n) \in Nat /\ Got(w, n) = Cardinality(B)
  BY OwnedRight DEF Got
<1>2. Cardinality(B) <= Cardinality(A)
  BY <1>1, FS_Subset
<1>3. Cardinality(A) = Quota
  BY DEF PlanRoutes
<1> QED
  BY <1>1, <1>2, <1>3

LEMMA AheadIs ==
  ASSUME ScatterInv, pc # "failed"
  PROVE  /\ pc \in {"idle", "commit", "return"} => Ahead = Position
         /\ ~WindowOpen => Ahead = byte_cursor
         /\ pc \in {"commit", "return"} /\ ~SpansLeft => Ahead = Total
<1>1. ~SpansLeft => byte_cursor = Total
  BY InvFacts
<1>2. WindowOpen /\ pc # "scatter" => SpansLeft
  BY DEF WindowOpen
<1>3. pc \in {"idle", "commit", "return"} => (WindowOpen <=> SpansLeft) /\ Opened = byte_cursor
  BY DEF WindowOpen, Opened
<1> QED
  BY <1>1, <1>2, <1>3 DEF Ahead, Position

(* The block of the next primary has room after the fence: it owns the     *)
(* byte at the cursor, so that its shard is not full, and a full block was *)
(* handed over.                                                            *)
LEMMA RoomLeft ==
  ASSUME ScatterInv, PlanRoutes, Contents, pc # "failed", SpansLeft
  PROVE  BlockRoom \in Nat \ {0}
<1> DEFINE p == spans[span_index].primary_writer
           s == shard[p]
           t == AfterFence[p]
           c == byte_cursor
<1>1. /\ Setting /\ shard \in [All -> Shards] /\ Tiles(spans, Total) /\ c \in Nat
      /\ span_index \in 1 .. Len(spans) /\ p \in All
      /\ c \in spans[span_index].start .. spans[span_index].end - 1
  BY InvFacts
<1>2. Got(p, c + 1) = Got(p, c) + 1
  <2>1. p \in Targets(spans[span_index])
    BY DEF Targets
  <2>2. c \in Owned(layout, p)
    BY <1>1, <2>1, TargetsOwn
  <2>3. \A o \in c .. c + 1 - 1 : o \in Owned(layout, p)
    BY <1>1, <2>2
  <2>4. Setting /\ c \in Nat /\ 1 \in Nat
    BY <1>1
  <2> HIDE DEF p, c
  <2> QED
    BY <2>3, <2>4, GotRow, Zenon
<1>3. Got(p, c) \in Nat /\ Got(p, c) < Quota /\ Quota \in Nat
  <2>1. Got(p, c) \in Nat /\ Got(p, c + 1) <= Quota /\ Quota \in Nat
    <3>1. Setting /\ p \in All /\ c \in Nat /\ c + 1 \in Nat
      BY <1>1
    <3> HIDE DEF p, c
    <3> QED
      BY <3>1, GotMost, Numbers
  <2> HIDE DEF p, c
  <2> QED
    BY <1>2, <2>1
<1>4. s \in Shards /\ Holds(s, p, c) /\ Holds(Flushed(s), p, c) /\ Flushed(s) \in Shards /\ Flushed(s).end = 0
  BY <1>1, FlushedHolds, FlushedRight DEF Contents
<1>5. (t = s /\ s.end # s.len) \/ t = Flushed(s)
  BY <1>1 DEF AfterFence
<1>6. t \in Shards /\ t.offset + t.end = Got(p, c) /\ (t.end = 0 \/ t.end # t.len)
  BY <1>4, <1>5 DEF Holds
<1>7. /\ t.end \in Nat /\ t.offset \in Nat /\ t.len \in Nat /\ t.end <= t.len
      /\ t.len = Smaller(dma_chunk_size, Quota - t.offset) /\ dma_chunk_size \in Nat \ {0}
  BY <1>1, <1>6, ShardFacts, Numbers
<1>8. BlockRoom = t.len - t.end
  BY DEF BlockRoom, NextWriter
<1> HIDE DEF t, s, p, c
<1>9. t.end # t.len
  BY <1>3, <1>6, <1>7 DEF Smaller
<1> QED
  BY <1>7, <1>8, <1>9

(* The next window has room for a byte.                                    *)
LEMMA RotateServes ==
  ASSUME ScatterInv, PlanRoutes, Contents, Served, Rotate
  PROVE  Served'
<1> DEFINE room == Smaller(BlockRoom, Smaller(dma_chunk_size - ChunkOffset, Total - byte_cursor))
<1>1. /\ pc = "scatter" /\ consumed = end - window_start
      /\ UNCHANGED <<plan, span_index, byte_cursor, caller>>
      /\ SpansLeft => window_start' = NextWriter.end
      /\ SpansLeft /\ room # 0 => pc' = "return" /\ end' = NextWriter.end
      /\ ~SpansLeft => pc' = "return"
  BY Zenon DEF Rotate, Publish
<1>2. /\ Setting /\ pc # "failed" /\ byte_cursor \in Nat /\ (SpansLeft => byte_cursor < Total)
      /\ dma_chunk_size \in Nat \ {0} /\ Total \in Nat
  BY InvFacts, Numbers DEF Served
<1>3. SpansLeft' = SpansLeft /\ Total' = Total
  BY <1>1, <1>2, PlanKept DEF SpansLeft
<1>4. SpansLeft => room # 0
  <2>1. ChunkOffset \in Nat /\ ChunkOffset < dma_chunk_size
    BY <1>2 DEF ChunkOffset
  <2>2. SpansLeft => BlockRoom \in Nat \ {0}
    BY <1>2, RoomLeft
  <2> QED
    BY <1>2, <2>1, <2>2 DEF Smaller
<1>5. Ahead = byte_cursor
  <2>1. WindowOpen /\ Opened = byte_cursor - consumed
    BY <1>1 DEF WindowOpen, Opened
  <2>2. end \in Nat /\ window_start \in Nat
    BY <2>1, OpenWindow
  <2> QED
    BY <1>1, <1>2, <2>1, <2>2 DEF Ahead
<1>6. pc' = "return" /\ (SpansLeft => window_start' = end')
  BY <1>1, <1>4
<1>7. Ahead' = byte_cursor
  <2>1. CASE SpansLeft
    <3>1. Opened' = byte_cursor /\ end' = window_start' /\ NextWriter.end \in Nat
      <4>1. NextWriter.end \in Nat
        <5>1. spans[span_index].primary_writer \in All /\ AfterFence \in [All -> Shards]
          BY <1>2, <2>1, InvFacts, FenceRight
        <5>2. NextWriter \in Shards
          BY <5>1 DEF NextWriter
        <5> QED
          BY <1>2, <5>2, ShardFacts
      <4> QED
        BY <1>1, <1>6, <2>1, <4>1 DEF Opened
    <3>2. WindowOpen'
      BY <1>3, <1>6, <2>1 DEF WindowOpen
    <3>3. Ahead' = Opened' + (end' - window_start')
      BY <3>2 DEF Ahead
    <3>4. PICK x \in Nat : window_start' = x
      BY <1>1, <2>1, <3>1
    <3>5. Ahead' = byte_cursor + (x - x)
      BY <3>1, <3>3, <3>4
    <3> QED
      BY <1>2, <3>4, <3>5
  <2>2. CASE ~SpansLeft
    BY <1>1, <1>3, <1>6, <2>2 DEF Ahead, WindowOpen
  <2> QED
    BY <2>1, <2>2
<1> QED
  BY <1>1, <1>3, <1>5, <1>6, <1>7 DEF Served

(* A span that reaches the cursor is there, and its writers take what the  *)
(* window has for them: it belongs to their shards.                        *)
LEMMA SpanAccepted ==
  ASSUME ScatterInv, PlanRoutes, Contents, pc # "failed", ScatterSpan
  PROVE  pc' = "scatter"
<1> DEFINE span == spans[span_index]
           n == Smaller(end - window_start - consumed, span.end - byte_cursor)
           to == Range(span.mirror_writers) \cup (IF InPlace(span) THEN {} ELSE {span.primary_writer})
<1>1. /\ pc = "scatter" /\ consumed < end - window_start
      /\ \/ ~SpansLeft
         \/ byte_cursor \notin span.start .. span.end - 1
         \/ \E w \in to \ {active} : Refuses(shard[w], n)
         \/ pc' = pc
  BY Zenon DEF ScatterSpan
<1>2. WindowOpen /\ Opened = byte_cursor - consumed
  BY <1>1 DEF WindowOpen, Opened
<1>3. /\ Setting /\ shard \in [All -> Shards] /\ Tiles(spans, Total) /\ byte_cursor \in Nat /\ Scratch
      /\ IF SpansLeft
         THEN /\ byte_cursor < Total /\ span_index \in 1 .. Len(spans) /\ span.primary_writer \in All
              /\ byte_cursor \in span.start .. span.end - 1
         ELSE byte_cursor = Total
  BY InvFacts
<1>4. /\ window_start \in Nat /\ len \in Nat /\ end \in Nat /\ end <= len /\ len <= dma_chunk_size
      /\ len - window_start <= Total - Opened /\ window_start <= end
      /\ dma_chunk_size \in Nat /\ Total \in Nat /\ Quota \in Nat
  BY <1>2, <1>3, OpenWindow, Numbers
<1>5. consumed \in Nat
  BY <1>1, <1>3, <1>4 DEF Scratch
<1>6. SpansLeft
  BY <1>1, <1>2, <1>3, <1>4, <1>5
<1>7. /\ span.start \in Nat /\ span.end \in Nat /\ span.mirror_writers \in Seq(All)
      /\ span_index \in 1 .. Len(spans) /\ span.primary_writer \in All
      /\ byte_cursor \in span.start .. span.end - 1
  <2>1. /\ span_index \in 1 .. Len(spans) /\ span.primary_writer \in All
        /\ byte_cursor \in span.start .. span.end - 1
    BY <1>3, <1>6, Zenon
  <2>2. span.start \in Nat /\ span.end = span.start + SpanLen(layout) /\ span.mirror_writers \in Seq(All)
    BY <1>3, <2>1, Spans, Zenon
  <2>3. SpanLen(layout) \in Nat
    BY <1>3, Numbers
  <2> HIDE DEF span
  <2> QED
    BY <2>1, <2>2, <2>3
<1>8. /\ n \in Nat /\ byte_cursor + n <= span.end /\ n <= dma_chunk_size
  <2> DEFINE r == end - window_start - consumed
             q == span.end - byte_cursor
  <2>1. r \in Nat /\ r <= dma_chunk_size
    BY <1>1, <1>4, <1>5
  <2>2. q \in Nat /\ byte_cursor + q = span.end
    BY <1>3, <1>7
  <2>3. n = Smaller(r, q)
    OBVIOUS
  <2> HIDE DEF r, q, n, span
  <2> QED
    BY <1>3, <1>4, <1>7, <2>1, <2>2, <2>3 DEF Smaller
<1>9. to \subseteq Targets(span) /\ to \subseteq All
  BY <1>7 DEF Range, Mirrors, Targets
<1> HIDE DEF n
<1>10. ASSUME NEW w \in to PROVE ~Refuses(shard[w], n)
  <2>1. w \in All /\ w \in Targets(span) /\ shard[w] \in Shards
    BY <1>3, <1>9, <1>10
  <2>2. Got(w, byte_cursor + n) = Got(w, byte_cursor) + n
    <3>1. span.start <= byte_cursor
      BY <1>7
    <3> QED
      BY <1>3, <1>7, <1>8, <2>1, <3>1, PieceRight
  <2>3. Got(w, byte_cursor + n) <= Quota
    BY <1>3, <1>8, <2>1, GotMost
  <2>4. shard[w].offset + shard[w].end = Got(w, byte_cursor)
    BY <2>1 DEF Contents, Holds
  <2>5. /\ shard[w].end \in Nat /\ shard[w].offset \in Nat
        /\ shard[w].len = Smaller(dma_chunk_size, Quota - shard[w].offset)
    BY <1>3, <2>1, ShardFacts
  <2> QED
    BY <1>4, <1>8, <2>2, <2>3, <2>4, <2>5 DEF Refuses, Smaller
<1> QED
  BY <1>1, <1>6, <1>7, <1>10

LEMMA SpanServes ==
  ASSUME ScatterInv, PlanRoutes, Contents, Served, ScatterSpan
  PROVE  Served'
<1>1. pc = "scatter" /\ pc' = "scatter"
  BY SpanAccepted DEF Served, ScatterSpan
<1>2. PICK n : SpanStep(n)
  BY <1>1, SpanStepIs
<1>3. /\ byte_cursor' = byte_cursor + n /\ consumed' = consumed + n /\ n \in Nat
      /\ end' = end /\ window_start' = window_start /\ caller' = caller /\ UNCHANGED plan
  BY <1>2 DEF SpanStep, window
<1>4. Setting /\ byte_cursor \in Nat /\ Scratch
  BY <1>1, InvFacts
<1>5. consumed \in Nat
  <2>1. end \in Nat /\ window_start \in Nat
    BY <1>1, OpenWindow DEF WindowOpen
  <2> QED
    BY <1>1, <1>4, <2>1 DEF Scratch
<1>6. Opened' = Opened /\ WindowOpen /\ WindowOpen'
  BY <1>1, <1>3, <1>4, <1>5 DEF Opened, WindowOpen
<1>7. Ahead' = Ahead /\ Total' = Total
  BY <1>3, <1>4, <1>6, PlanKept DEF Ahead
<1> QED
  BY <1>1, <1>3, <1>7 DEF Served

(* The other steps leave what was written alone, or are done with it.      *)
LEMMA QuietServes ==
  ASSUME ScatterInv, Served, UNCHANGED <<plan, span_index, byte_cursor, active, window_start>>,
         pc' # "failed",
         \/ pc' = "idle" \/ caller' \notin {"drain", "rebase"}
         \/ /\ caller' = caller /\ pc # "idle" /\ Ahead' = Ahead
         \/ Ahead' < Total
  PROVE  Served'
<1>1. Total' = Total
  BY InvFacts, PlanKept
<1> QED
  BY <1>1 DEF Served

LEMMA CallServes ==
  ASSUME ScatterInv, Served, NEW op, NEW n, Call(op, n), op # "flush" => Position < Total
  PROVE  Served'
<1>1. /\ pc = "idle" /\ pc' = "commit" /\ caller' = op
      /\ UNCHANGED <<plan, span_index, byte_cursor, active, window_start, end>>
  BY DEF Call, window
<1>2. Ahead = Position
  BY <1>1, AheadIs
<1>3. spans' = spans
  BY <1>1 DEF plan
<1>4. Ahead' = Ahead
  BY <1>1, <1>3 DEF Ahead, WindowOpen, Opened, SpansLeft
<1> QED
  BY <1>1, <1>2, <1>4, QuietServes

LEMMA CommitServes ==
  ASSUME ScatterInv, Served, Commit
  PROVE  Served'
<1>1. /\ pc = "commit" /\ consumed' = 0 /\ caller' = caller
      /\ UNCHANGED <<plan, span_index, byte_cursor, active, window_start>>
      /\ pc' \in {"scatter", "return"} /\ (SpansLeft => end' = end) /\ (~SpansLeft => pc' = "return")
  BY DEF Commit
<1>2. spans' = spans /\ byte_cursor \in Nat
  BY <1>1, InvFacts DEF plan, Served
<1>3. WindowOpen' = SpansLeft /\ WindowOpen = SpansLeft
  BY <1>1, <1>2 DEF WindowOpen, SpansLeft
<1>4. Opened' = byte_cursor /\ Opened = byte_cursor
  BY <1>1, <1>2 DEF Opened
<1>5. Ahead' = Ahead
  BY <1>1, <1>3, <1>4 DEF Ahead
<1> QED
  BY <1>1, <1>5, QuietServes

(* What drain and rebase ask for the window that commitWindow left has.    *)
LEMMA ReturnServes ==
  ASSUME ScatterInv, Served, DrainCopies \/ DrainReturns \/ RebaseReturns \/ FlushReturns
  PROVE  Served'
<1>1. /\ pc = "return" /\ UNCHANGED <<plan, span_index, byte_cursor, active, window_start>>
  BY DEF DrainCopies, DrainReturns, RebaseReturns, FlushReturns, window
<1>2. caller \in {"drain", "rebase"} => end < len
  <2>1. caller \in {"drain", "rebase"} => Ahead < Total
    BY <1>1 DEF Served
  <2>2. caller \in {"drain", "rebase"} => SpansLeft
    <3>1. ~SpansLeft => Ahead = Total
      BY <1>1, AheadIs
    <3>2. Total \in Nat
      BY InvFacts, Numbers
    <3> QED
      BY <2>1, <3>1, <3>2
  <2>3. SpansLeft => WindowOpen
    BY <1>1 DEF WindowOpen
  <2>4. WindowOpen => end = window_start /\ window_start < len
    BY <1>1, OpenWindow
  <2> QED
    BY <2>2, <2>3, <2>4
<1>3. caller \in {"drain", "rebase"} => end # len
  <2>1. caller \in {"drain", "rebase"} => end \in Nat /\ len \in Nat
    <3>1. SpansLeft => end \in Nat /\ len \in Nat
      BY <1>1, OpenWindow DEF WindowOpen
    <3>2. ~SpansLeft => end \in Nat /\ len \in Nat
      BY <1>1, RoomMeansSpans
    <3> QED
      BY <3>1, <3>2
  <2> QED
    BY <1>2, <2>1
<1>4. pc' \in {"idle", "closed"} \/ (pc' = "commit" /\ caller' = "write")
  BY <1>2, <1>3 DEF DrainCopies, DrainReturns, RebaseReturns, FlushReturns
<1>5. pc' = "closed" => caller' = caller /\ caller = "flush"
  BY <1>1, <1>2, <1>3 DEF DrainCopies, DrainReturns, RebaseReturns, FlushReturns
<1> QED
  BY <1>1, <1>4, <1>5, QuietServes

LEMMA ServedNext ==
  ASSUME ScatterInv, PlanRoutes, Contents, Served, [Next]_vars
  PROVE  Served'
<1>1. ASSUME NEW n \in 1 .. Total, Write(n) PROVE Served'
  <2>1. pc' = "idle" /\ UNCHANGED <<plan, span_index, byte_cursor, active, window_start>>
    BY <1>1 DEF Write
  <2> QED
    BY <2>1, QuietServes
<1>2. ASSUME NEW n \in 1 .. Total, Drain(n) PROVE Served'
  <2>1. Position + n <= Total /\ Call("drain", n) /\ pc = "idle"
    BY <1>2 DEF Drain, Call
  <2>2. Position \in Int /\ Total \in Nat
    <3>1. SpansLeft => Position \in Nat
      BY <2>1, PositionType
    <3>2. ~SpansLeft => Position \in Nat
      BY InvFacts DEF Position, Served
    <3> QED
      BY <3>1, <3>2, InvFacts, Numbers
  <2>3. Position < Total
    BY <2>1, <2>2
  <2> QED
    BY <2>1, <2>3, CallServes
<1>3. CASE Rebase
  BY <1>3, CallServes DEF Rebase
<1>4. CASE Flush
  BY <1>4, CallServes DEF Flush
<1>5. CASE Step
  BY <1>5, CommitServes, SpanServes, RotateServes, ReturnServes DEF Step
<1>6. CASE UNCHANGED vars
  <2>1. /\ UNCHANGED <<plan, span_index, byte_cursor, active, window_start>> /\ pc' = pc /\ caller' = caller
        /\ UNCHANGED <<consumed, end, spans>>
    BY <1>6 DEF vars, window, plan
  <2>2. Ahead' = Ahead
    BY <2>1 DEF Ahead, WindowOpen, Opened, SpansLeft
  <2> QED
    BY <2>1, <2>2, QuietServes DEF Served
<1> QED
  BY <1>1, <1>2, <1>3, <1>4, <1>5, <1>6 DEF Next, Stream

(* No write, drain, rebase or flush of a whole tensor ends in WriteFailed: *)
(* the plan is accepted, every window that commitWindow leaves before the  *)
(* tensor is done has room, the next span is where the cursor is, and no   *)
(* shard writer refuses bytes.                                             *)
THEOREM NothingRefused == Spec => [](pc # "failed")
<1>1. Init => Served
  <2>1. ASSUME Init PROVE Served
    <3>1. Setting
      BY <2>1 DEF Init, Setting
    <3>2. Tiles(spans, Total)
      BY <3>1, SettingRoutes
    <3> QED
      BY <2>1, <3>2 DEF Init, Served
  <2> QED
    BY <2>1
<1>2. ScatterInv /\ PlanRoutes /\ (Contents /\ Unscattered) /\ Served /\ [Next]_vars => Served'
  BY ServedNext
<1>3. Served => pc # "failed"
  BY DEF Served
<1> QED
  BY <1>1, <1>2, <1>3, WindowsHold, TableRoutes, EveryByteInOrder, PTL DEF Spec
=============================================================================
