---------------------------- MODULE ViewNumbers -----------------------------
(* The integers of the cute types. A leaf is a static integer or `?` with  *)
(* a divisor it is known to have; next to what the type says of it (claim) *)
(* the model keeps what it will be when the kernel runs (real). Sums and   *)
(* products keep divisors as third_party/cute_ir/                          *)
(* cutegen_dynamic_divisibility.patch has it; the widths are left out.     *)
EXTENDS Integers, Sequences, SequencesExt, FiniteSets

Known(c, r) == [known |-> TRUE, claim |-> c, real |-> r]
Unknown(d, r) == [known |-> FALSE, claim |-> d, real |-> r]
Static(v) == Known(v, v)

Divides(d, x) == x % d = 0
Honest(x) == IF x.known THEN x.claim = x.real ELSE Divides(x.claim, x.real)
TrueNumbers ==
  {x \in [known : BOOLEAN, claim : Int, real : Int] : Honest(x) /\ (x.known \/ x.claim > 0)}

Gcd[p \in Nat \X Nat] == IF p[2] = 0 THEN p[1] ELSE Gcd[<<p[2], p[1] % p[2]>>]
Magnitude(v) == IF v < 0 THEN -v ELSE v
Fact(x) == Magnitude(x.claim)

Plus(x, y) ==
  LET real == x.real + y.real
      div == Gcd[<<Fact(x), Fact(y)>>]
  IN IF x.known /\ y.known THEN Known(x.claim + y.claim, real)
     ELSE Unknown(IF div = 0 THEN 1 ELSE div, real)

Times(x, y) ==
  LET real == x.real * y.real
      zero(z) == z.known /\ z.claim = 0
  IN IF x.known /\ y.known THEN Known(x.claim * y.claim, real)
     ELSE IF zero(x) \/ zero(y) THEN Known(0, real)
     ELSE Unknown(Fact(x) * Fact(y), real)

Over(x, n) ==
  LET real == x.real \div n
  IN IF x.known THEN Known(x.claim \div n, real)
     ELSE Unknown(IF Divides(n, x.claim) THEN x.claim \div n ELSE 1, real)

Minus(x, y) == Plus(x, Times(Static(-1), y))
Total(xs) ==
  LET sum[k \in 0..Len(xs)] == IF k = 0 THEN Static(0) ELSE Plus(sum[k - 1], xs[k])
  IN sum[Len(xs)]
Product(xs) ==
  LET product[k \in 0..Len(xs)] == IF k = 0 THEN Static(1) ELSE Times(product[k - 1], xs[k])
  IN product[Len(xs)]

-----------------------------------------------------------------------------
(* What CuteInference.cpp adds to that.                                    *)

(* Mutant of Modulo: the divisor is kept whatever n is.                     *)
ModuloKeeps(x, n) ==
  LET real == x.real % n
  IN IF x.known THEN Known(x.claim % n, real)
     ELSE IF Divides(n, x.claim) THEN Known(0, real)
     ELSE Unknown(x.claim, real)

(* cute.tuple_mod, leaf by leaf: a `?` modulo n is 0 when n divides its    *)
(* divisor, keeps the divisor when that divides n, and is else unknown.    *)
Modulo(x, n) ==
  LET real == x.real % n
  IN IF x.known THEN Known(x.claim % n, real)
     ELSE IF Divides(n, x.claim) THEN Known(0, real)
     ELSE Unknown(IF Divides(x.claim, n) THEN x.claim ELSE 1, real)

(* splitIndex: idx2crd of a scalar, column-major. `left` is the index that *)
(* is left for the modes still to come; the last mode takes all of it.     *)
Split(left, n) ==
  LET crd == left.real % n.real
      rest == left.real \div n.real
  IN IF left.known THEN <<Known(left.claim % n.claim, crd), Known(left.claim \div n.claim, rest)>>
     ELSE IF n.known /\ Divides(n.claim, left.claim)
          THEN <<Known(0, crd), Unknown(left.claim \div n.claim, rest)>>
     ELSE <<Unknown(IF n.known /\ Divides(left.claim, n.claim) THEN left.claim ELSE 1, crd),
            Unknown(1, rest)>>

SplitIndex(idx, shape) ==
  LET left[k \in 0..Len(shape)] == IF k = 0 THEN idx ELSE Split(left[k - 1], shape[k])[2]
  IN [k \in DOMAIN shape |-> IF k = Len(shape) THEN left[k - 1] ELSE Split(left[k - 1], shape[k])[1]]
CanSplit(idx, shape) == idx.known => \A k \in DOMAIN shape : shape[k].known

(* hierCoord: (index / stride) % extent of a constant index, `?` of any    *)
(* other; a mode of extent 1 is at 0.                                      *)
HierLeaf(idx, n, d) ==
  LET real == IF n.real = 1 THEN 0 ELSE (idx.real \div d.real) % n.real
  IN IF n.known /\ n.claim = 1 THEN Known(0, real)
     ELSE IF idx.known /\ n.known THEN Known((idx.claim \div d.claim) % n.claim, real)
     ELSE Unknown(1, real)

(* colMajor: the column-major index of coordinates, `?` unless all of them *)
(* and the extents but the last are static.                                *)
ColMajor(crd, shape) ==
  LET at == Total([k \in DOMAIN crd |-> Times(crd[k], Product(SubSeq(shape, 1, k - 1)))])
      known == /\ \A k \in DOMAIN crd : crd[k].known
               /\ \A k \in 1..Len(crd) - 1 : shape[k].known
  IN IF known THEN at ELSE Unknown(1, at.real)
=============================================================================
