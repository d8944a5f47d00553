---------------------------- MODULE ViewLayouts -----------------------------
(* Layouts of the cute types and what the compiler's algebra, cutegen,     *)
(* does with them. A layout is a sequence of modes, a mode a sequence of   *)
(* leaves: n steps of d along axis `at` (memory has one axis, a coordinate *)
(* tensor two). Deeper nesting is left out. cutegen is not part of the     *)
(* repository: its operators are what CuteInference.cpp expects of them.   *)
EXTENDS ViewNumbers, FiniteSetsExt

Leaf(n, d, at) == [n |-> n, d |-> d, at |-> at]
Leaves(l) == FlattenSeq(l)
Shape(l) == [i \in DOMAIN l |-> [k \in DOMAIN l[i] |-> l[i][k].n]]
One(x) == x.known /\ x.claim = 1
Nil(x) == x.known /\ x.claim = 0

Axes == 1..2
Sizes == {x \in TrueNumbers : x.real > 0}
TrueLeaves == [n : Sizes, d : TrueNumbers, at : Axes]
TrueLayouts == Seq(Seq(TrueLeaves))

-----------------------------------------------------------------------------
(* What a layout reaches when the kernel runs.                             *)
Reached(leaves) ==
  LET step(points, f) ==
        {[p EXCEPT ![f.at] = @ + k * f.d.real] : p \in points, k \in 0..f.n.real - 1}
  IN FoldLeft(step, {[a \in Axes |-> 0]}, leaves)
Size(l) == FoldLeft(LAMBDA x, f : x * f.n.real, 1, Leaves(l))
Distinct(l) == Cardinality(Reached(Leaves(l))) = Size(l)

-----------------------------------------------------------------------------
(* cutegen                                                                 *)

(* A coordinate has one entry per mode: <<>> for `_`, else one number per  *)
(* leaf. slice_and_offset keeps the modes at `_` and evaluates the others. *)
Under == <<>>
Sliced(l, crd) == FlattenSeq([i \in DOMAIN l |-> IF crd[i] = Under THEN <<l[i]>> ELSE <<>>])
OffsetOf(l, crd) ==
  [a \in Axes |->
    Total(FlattenSeq([i \in DOMAIN l |->
      [k \in DOMAIN crd[i] |-> IF l[i][k].at = a THEN Times(crd[i][k], l[i][k].d) ELSE Static(0)]]))]

(* zipped_divide by one extent per leading mode (passing a mode over with  *)
(* `_` is left out): the tile's modes, and the rest: what is left of each  *)
(* and the modes beyond.                                                   *)
Divisible(l, t) ==
  /\ Len(t) <= Len(l)
  /\ \A i \in DOMAIN t : Len(l[i]) = 1 /\ l[i][1].n.known /\ Divides(t[i], l[i][1].n.claim)
ZippedDivide(l, t) ==
  LET tile(f, n) == Leaf(Static(n), f.d, f.at)
      rest(f, n) == Leaf(Over(f.n, n), Times(Static(n), f.d), f.at)
  IN [tile |-> [i \in DOMAIN t |-> <<tile(l[i][1], t[i])>>],
      rest |-> [i \in DOMAIN t |-> <<rest(l[i][1], t[i])>>] \o SubSeq(l, Len(t) + 1, Len(l))]

(* The four divides arrange the two parts differently.                     *)
Arranged(z, how) ==
  LET r == Len(z.tile)
      beyond == SubSeq(z.rest, r + 1, Len(z.rest))
  IN CASE how = "logical" -> [i \in 1..r |-> z.tile[i] \o z.rest[i]] \o beyond
       [] how = "zipped" -> <<Leaves(z.tile), Leaves(z.rest)>>
       [] how = "tiled" -> <<Leaves(z.tile)>> \o z.rest
       [] how = "flat" -> z.tile \o z.rest

Group(begin, end, l) ==
  SubSeq(l, 1, begin) \o <<Leaves(SubSeq(l, begin + 1, end))>> \o SubSeq(l, end + 1, Len(l))
FilterZeros(l) ==
  [i \in DOMAIN l |-> [k \in DOMAIN l[i] |->
    IF Nil(l[i][k].d) THEN [l[i][k] EXCEPT !.n = Static(1)] ELSE l[i][k]]]

-----------------------------------------------------------------------------
(* CuteInference.cpp                                                       *)

(* A stride of 0 on the leaves of extent 1.                                *)
ZeroUnitModes(l) ==
  [i \in DOMAIN l |-> [k \in DOMAIN l[i] |->
    IF One(l[i][k].n) THEN [l[i][k] EXCEPT !.d = Static(0)] ELSE l[i][k]]]
ZeroUnitModesHead(l, keep) ==
  IF keep > Len(l) THEN l
  ELSE ZeroUnitModes(SubSeq(l, 1, Len(l) - keep)) \o SubSeq(l, Len(l) - keep + 1, Len(l))

(* make_layout without a stride: compact, column-major.                    *)
MakeLayout(shape) ==
  LET before(i, k) == Leaves(SubSeq(shape, 1, i - 1)) \o SubSeq(shape[i], 1, k - 1)
  IN ZeroUnitModes([i \in DOMAIN shape |->
       [k \in DOMAIN shape[i] |-> Leaf(shape[i][k], Product(before(i, k)), 1)]])

(* make_fragment_like: the first mode compact with its broadcast leaves    *)
(* kept, then the other leaves in the order of their strides, last and as  *)
(* they come those that are no plain integer: `?`, and the basis elements  *)
(* of a coordinate tensor, 0 aside. One mode, or a first one of unknown    *)
(* extent: as they come.                                                   *)
Ordered(l) == Len(l) > 1 /\ \A k \in DOMAIN l[1] : l[1][k].n.known
Earlier(l, basis, j, k) ==
  LET x == Leaves(l)[j].d  y == Leaves(l)[k].d
      plain(d) == d.known /\ (basis => Nil(d))
  IN IF ~Ordered(l) \/ j <= Len(l[1]) \/ k <= Len(l[1]) THEN j < k
     ELSE \/ plain(x) /\ plain(y) /\ x.claim < y.claim
          \/ plain(x) /\ ~plain(y)
          \/ (plain(x) <=> plain(y)) /\ (plain(x) => x.claim = y.claim) /\ j < k

(* A leaf without registers of its own has stride 0; any other is as far   *)
(* apart as the leaves before it have registers.                           *)
NoRegisters(l, k) ==
  LET f == Leaves(l)[k] IN One(f.n) \/ (Ordered(l) /\ k <= Len(l[1]) /\ Nil(f.d))

(* Mutant of MakeFragmentLike: a broadcast leaf that gets registers takes   *)
(* none away from the leaves after it.                                     *)
MakeFragmentLikeBroadcast(l, basis) ==
  LET leaves == Leaves(l)
      before(k) == [j \in DOMAIN leaves |->
        IF Earlier(l, basis, j, k) /\ ~NoRegisters(l, j) /\ ~Nil(leaves[j].d) THEN leaves[j].n ELSE Static(1)]
  IN [k \in DOMAIN leaves |->
       [leaves[k] EXCEPT !.d = IF NoRegisters(l, k) THEN Static(0) ELSE Product(before(k))]]

MakeFragmentLike(l, basis) ==
  LET leaves == Leaves(l)
      before(k) == [j \in DOMAIN leaves |->
        IF Earlier(l, basis, j, k) /\ ~NoRegisters(l, j) THEN leaves[j].n ELSE Static(1)]
  IN [k \in DOMAIN leaves |->
       [leaves[k] EXCEPT !.d = IF NoRegisters(l, k) THEN Static(0) ELSE Product(before(k))]]

(* coalesce_256: adjacent leaves that run on into each other share one box *)
(* dimension of a copy descriptor while their extent stays within 256.     *)
BoxGroups(leaves) ==
  LET start(i) == [cur |-> <<i>>, s |-> leaves[i].n.claim, d |-> leaves[i].d.claim]
      step(acc, i) ==
        LET s == leaves[i].n.claim IN
        IF acc.s = 1 THEN [groups |-> acc.groups] @@ start(i)
        ELSE IF s = 1 THEN acc
        ELSE IF acc.s * acc.d = leaves[i].d.claim /\ s * acc.s <= 256
             THEN [acc EXCEPT !.cur = Append(@, i), !.s = @ * s]
        ELSE [groups |-> Append(acc.groups, acc.cur)] @@ start(i)
      done == FoldLeft(step, [groups |-> <<>>] @@ start(1), [k \in 1..Len(leaves) - 1 |-> k + 1])
  IN Append(done.groups, done.cur)
=============================================================================
