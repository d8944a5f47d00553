----------------------------- MODULE ViewTypes ------------------------------
(* Result type inference of the cute dialect (CuteInference.cpp): a kernel *)
(* is built one operation at a time, and each operation's result type is   *)
(* inferred from its operands' types alone. The type of an integer says    *)
(* its value or a divisor, that of a pointer its alignment, that of a view *)
(* its layout; the passes that follow pick instructions and drop checks by *)
(* it. The model carries, beside each type, the value the operation has    *)
(* when the kernel runs, so that a type that says too much shows.          *)
EXTENDS ViewLayouts, CopyTraits, TLC

CONSTANTS
  ElemBits,    \* widths of the elements in memory
  Depth,       \* how many operations a kernel has
  Layouts,     \* of the tensors in memory
  Indices,     \* the integers a kernel starts with
  Numbers,     \* the constants in its arithmetic
  Tilers,      \* the tiles it takes, one extent per mode,
  TilersMNK,   \*   those with a projection of a tile of M, N and K,
  Atoms        \*   and those of its mma atoms, which CTAs share

VARIABLES
  view,   \* the tensor in hand: memory or coordinates
  crd,    \* the int tuple or coord in hand
  made,   \* what was last made of them: registers, an atom's traits, boxes
  steps
vars == <<view, crd, made, steps>>

ASSUME TypesAssumption ==
  /\ ElemBits \subseteq Nat \ {0} /\ Depth \in Nat
  /\ Layouts \subseteq TrueLayouts
  /\ Indices \subseteq TrueNumbers /\ Numbers \subseteq Int
  /\ Tilers \subseteq Seq(Nat \ {0})
  /\ \A t \in TilersMNK : t \in Seq(Nat \ {0}) /\ Len(t) = 3
  /\ Atoms \subseteq [m : Nat \ {0}, n : Nat \ {0}, k : Nat \ {0}, ctas : Nat \ {0}]
  /\ \A a \in Atoms : Divides(a.ctas, a.m) /\ Divides(a.ctas, a.n)

-----------------------------------------------------------------------------
(* Views                                                                   *)

(* A bit takes a byte of memory: i1 is laid out 8 bits apart.              *)
Stride(bits) == IF bits = 1 THEN 8 ELSE bits
NaturalAlignment(bits) == IF bits = 1 THEN 1 ELSE IF bits % 8 = 0 THEN bits \div 8 ELSE 0

(* Mutant of MovedAlignment: the smaller of the two, not their gcd.        *)
MovedAlignmentMin(v, offset) ==
  LET natural == NaturalAlignment(v.bits)
      align == IF v.align = 0 THEN natural ELSE v.align
      moved == Fact(offset) * v.bits
      left == (IF moved < align * 8 THEN moved ELSE align * 8) \div 8
  IN IF Nil(offset) THEN v.align ELSE IF left = 0 THEN natural ELSE left

(* What is left of a pointer's alignment after a move by `offset` elements:*)
(* the gcd with what is known of the move, and the element's natural       *)
(* alignment when that is less than a byte.                                *)
MovedAlignment(v, offset) ==
  LET natural == NaturalAlignment(v.bits)
      align == IF v.align = 0 THEN natural ELSE v.align
      left == Gcd[<<align * 8, Fact(offset) * v.bits>>] \div 8
  IN IF Nil(offset) THEN v.align ELSE IF left = 0 THEN natural ELSE left

(* A memref's pointer moves; the coordinates of a coord tensor are added.  *)
Moved(v, offset) ==
  CASE v.kind = "memref" ->
         [v EXCEPT !.align = MovedAlignment(v, offset[1]),
                   !.addr = @ + offset[1].real * Stride(v.bits)]
    [] v.kind = "coord" -> [v EXCEPT !.iter = [a \in Axes |-> Plus(@[a], offset[a])]]

WithLayout(v, l) == [v EXCEPT !.layout = l]

(* Where the elements of a view are.                                       *)
Origin(v) ==
  CASE v.kind = "memref" -> [a \in Axes |-> IF a = 1 THEN v.addr \div Stride(v.bits) + v.offset.real ELSE 0]
    [] v.kind = "coord" -> [a \in Axes |-> v.iter[a].real]
Elements(v) == {[a \in Axes |-> p[a] + Origin(v)[a]] : p \in Reached(Leaves(v.layout))}

(* sliceCarrier: what is sliced away moves the iterator, or the offset of  *)
(* a composed layout, whose iterator stays.                                *)
Slice(v, c) ==
  LET l == WithLayout(v, Sliced(v.layout, c))
      offset == OffsetOf(v.layout, c)
  IN IF v.composed THEN [l EXCEPT !.offset = Plus(@, offset[1])] ELSE Moved(l, offset)

(* inferDivide refuses a tile of one element over a unit leaf that has a   *)
(* stride, and leaves the modes beyond the tiler alone.                    *)
PassesOver(l, t) ==
  \E i \in DOMAIN t : t[i] = 1 /\ \E k \in DOMAIN l[i] : One(l[i][k].n) /\ ~Nil(l[i][k].d)
Divide(l, t, how) ==
  LET z == ZippedDivide(l, t)
      rest == ZeroUnitModesHead(z.rest, Len(l) - Len(t))
  IN Arranged([tile |-> ZeroUnitModes(z.tile), rest |-> rest], how)

Dice(proj, s) == FlattenSeq([i \in DOMAIN s |-> IF proj[i] THEN <<s[i]>> ELSE <<>>])

(* Mutant of LocalTile: the offset is taken in the tile.                   *)
LocalTileInner(v, t, c) ==
  LET z == ZippedDivide(v.layout, t)
      keep == Cardinality({i \in Len(t) + 1 .. Len(c) : c[i] = Under})
      l == ZeroUnitModesHead(z.tile \o Sliced(z.rest, c), keep)
  IN Moved(WithLayout(v, l), OffsetOf(z.tile, SubSeq(c, 1, Len(t))))

(* local_tile: one tile of the tensor, at a coordinate in the rest.        *)
LocalTile(v, t, c) ==
  LET z == ZippedDivide(v.layout, t)
      keep == Cardinality({i \in Len(t) + 1 .. Len(c) : c[i] = Under})
      l == ZeroUnitModesHead(z.tile \o Sliced(z.rest, c), keep)
  IN Moved(WithLayout(v, l), OffsetOf(z.rest, c))

(* local_partition: one element of every tile, at the thread's place.      *)
LocalPartition(v, t, thread) ==
  LET z == ZippedDivide(v.layout, t)
  IN Moved(WithLayout(v, ZeroUnitModes(z.rest)), OffsetOf(z.tile, thread))
(* dynamicCoordLike: the thread's place is 0 in a mode of extent 1.        *)
ThreadAt(t, place) ==
  [i \in DOMAIN t |-> IF t[i] = 1 THEN <<Known(0, place[i])>> ELSE <<Unknown(1, place[i])>>]

(* partition_A/B/C of a tiled mma of one atom: a CTA's share of the first  *)
(* two modes, atom by atom.                                                *)
AtomTile(atom, which) ==
  CASE which = "A" -> <<atom.m \div atom.ctas, atom.k>>
    [] which = "B" -> <<atom.n \div atom.ctas, atom.k>>
    [] which = "C" -> <<atom.m \div atom.ctas, atom.n>>
MmaDivisible(l, atom, which) ==
  /\ Len(l) >= 2
  /\ Divisible(l, AtomTile(atom, which))
  /\ Divisible(ZippedDivide(SubSeq(l, 1, 2), AtomTile(atom, which)).rest, <<atom.ctas>>)
MmaPartition(v, atom, which, cta) ==
  LET z == ZippedDivide(SubSeq(v.layout, 1, 2), AtomTile(atom, which))
      byCta == ZippedDivide(<<z.rest[1]>>, <<atom.ctas>>)
      at == IF atom.ctas = 1 THEN Known(0, cta.real) ELSE cta
      beyond == SubSeq(v.layout, 3, Len(v.layout))
      l == <<Leaves(z.tile), byCta.rest[1], z.rest[2]>> \o beyond
  IN Moved(WithLayout(v, ZeroUnitModesHead(l, Len(beyond))), OffsetOf(byCta.tile, <<<<at>>>>))

(* mma_make_fragment of C: rows on lanes, columns next to each other, the  *)
(* stages by as many columns; a half of 64 rows puts the second half of    *)
(* its columns on the lanes from 64 up.                                    *)
LaneStride == 65536
AccumulatorRows(atom) == atom.m \div atom.ctas
CanAccumulate(atom, n) ==
  \/ AccumulatorRows(atom) = 128
  \/ AccumulatorRows(atom) = 64 /\ atom.ctas = 2 /\ n % 2 = 0
Accumulator(atom, m, n, rest) ==
  LET half == AccumulatorRows(atom) = 64
      cols == IF half THEN n \div 2 ELSE n
      stage(k) == Leaf(Static(rest[k]), Static(IF rest[k] = 1 THEN 0 ELSE cols), 1)
  IN <<Leaf(Static(m), Static(LaneStride), 1), Leaf(Static(cols), Static(1), 1)>>
     \o (IF half THEN <<Leaf(Static(2), Static(64 * LaneStride), 1)>> ELSE <<>>)
     \o [k \in DOMAIN rest |-> stage(k)]

-----------------------------------------------------------------------------
(* The kernel                                                              *)

(* make_identity_tensor: each coordinate steps along an axis of its own.   *)
Identity == <<<<Leaf(Static(4), Static(1), 1)>>, <<Leaf(Static(8), Static(1), 2)>>>>
Projections == {<<TRUE, FALSE, TRUE>>, <<FALSE, TRUE, TRUE>>, <<TRUE, TRUE, FALSE>>}
TmemAtoms == {[m |-> m, n |-> 8, k |-> 32, ctas |-> c] : m \in {128, 256}, c \in 1..2}

MemRef(bits, align, composed, l) ==
  [kind |-> "memref", bits |-> bits, align |-> align, addr |-> 24 * Max({1, align}),
   iter |-> [a \in Axes |-> Static(0)], composed |-> composed, offset |-> Static(0), layout |-> l]
Coords == [kind |-> "coord", bits |-> 1, align |-> 0, addr |-> 0, iter |-> [a \in Axes |-> Static(0)],
           composed |-> FALSE, offset |-> Static(0), layout |-> Identity]
Nothing == [kind |-> "nothing"]

Init ==
  /\ \/ \E bits \in ElemBits, l \in Layouts :
          view \in {MemRef(bits, 16, FALSE, l), MemRef(bits, NaturalAlignment(bits), TRUE, l)}
     \/ view = Coords
  /\ crd \in {<<x>> : x \in Indices}
  /\ made = Nothing
  /\ steps = 0

Built(v, c, m) ==
  /\ steps < Depth
  /\ view' = v /\ crd' = c /\ made' = m
  /\ steps' = steps + 1
Within(x, n) == x.real >= 0 /\ x.real < n.real
Scalar == Len(crd) = 1
InMemory == view.kind = "memref"
IsPlain == ~view.composed

(* Integers and coordinates                                                *)
TupleArith ==
  \E n \in Numbers :
    \/ Built(view, [k \in DOMAIN crd |-> Plus(crd[k], Static(n))], made)
    \/ Built(view, [k \in DOMAIN crd |-> Minus(crd[k], Static(n))], made)
    \/ Built(view, [k \in DOMAIN crd |-> Times(crd[k], Static(n))], made)
    \/ /\ n > 0 /\ \A k \in DOMAIN crd : crd[k].real >= 0
       /\ \/ Built(view, [k \in DOMAIN crd |-> Over(crd[k], n)], made)
          \/ Built(view, [k \in DOMAIN crd |-> Modulo(crd[k], n)], made)
GetLeaf == ~Scalar /\ \E k \in DOMAIN crd : Built(view, <<crd[k]>>, made)
Extents == [k \in DOMAIN Leaves(view.layout) |-> Leaves(view.layout)[k].n]
Idx2Crd ==
  /\ Scalar /\ crd[1].real \in 0..Size(view.layout) - 1
  /\ CanSplit(crd[1], Extents)
  /\ Built(view, SplitIndex(crd[1], Extents), made)
Crd2Idx ==
  /\ ~Scalar /\ Len(crd) = Len(Extents) /\ InMemory
  /\ \A k \in DOMAIN crd : Within(crd[k], Extents[k])
  /\ LET l == <<Leaves(view.layout)>> IN Built(view, <<OffsetOf(l, <<crd>>)[1]>>, made)
(* get_hier_coord, get_flat_coord and get_integral_coord of a scalar that  *)
(* is a constant or not; refused for a constant when a stride is unknown.  *)
HierCoord ==
  [i \in DOMAIN view.layout |-> [k \in DOMAIN view.layout[i] |->
    HierLeaf(crd[1], view.layout[i][k].n, view.layout[i][k].d)]]
GetCoord ==
  /\ Scalar /\ InMemory /\ crd[1].real >= 0 /\ (~crd[1].known => crd[1].claim = 1)
  /\ \A f \in ToSet(Leaves(view.layout)) :
       One(f.n) \/ (f.d.real > 0 /\ (crd[1].known => f.d.known))
  /\ LET s == Shape(view.layout) IN
     \/ Built(view, Leaves(HierCoord), made)
     \/ Built(view, [i \in DOMAIN s |-> ColMajor(HierCoord[i], s[i])], made)
     \/ Built(view, <<ColMajor(Leaves(HierCoord), Leaves(s))>>, made)

(* Views                                                                   *)
AddOffset ==
  /\ Scalar /\ InMemory
  /\ Built(Moved(view, [a \in Axes |-> IF a = 1 THEN crd[1] ELSE Static(0)]), crd, made)
(* How many of the coordinate's numbers the first modes take.              *)
Taken(l, under) ==
  LET taken[i \in 0..Len(l)] ==
        IF i = 0 THEN 0 ELSE taken[i - 1] + (IF i \in under THEN 0 ELSE Len(l[i]))
  IN taken
SliceView ==
  \E under \in SUBSET DOMAIN view.layout \ {{}, DOMAIN view.layout} :
    LET before == Taken(view.layout, under)
        c == [i \in DOMAIN view.layout |-> SubSeq(crd, before[i - 1] + 1, before[i])]
    IN /\ before[Len(view.layout)] = Len(crd)
       /\ \A i \in DOMAIN c \ under : \A k \in DOMAIN c[i] : Within(c[i][k], view.layout[i][k].n)
       /\ Built(Slice(view, c), crd, made)
Tileable(t) == IsPlain /\ Divisible(view.layout, t)
DivideView ==
  \E t \in Tilers, how \in {"logical", "zipped", "tiled", "flat"} :
    /\ Tileable(t) /\ ~PassesOver(view.layout, t)
    /\ Built(WithLayout(view, Divide(view.layout, t, how)), crd, made)
GroupModes == \E e \in 2..Len(view.layout) : Built(WithLayout(view, Group(e - 2, e, view.layout)), crd, made)
FilterZerosOp == Built(WithLayout(view, FilterZeros(view.layout)), crd, made)
(* A coordinate of the rest: `_` or the index in hand, mode by mode.       *)
TileAt(t) ==
  LET rest == ZippedDivide(view.layout, t).rest
  IN {c \in [DOMAIN rest -> {Under, crd}] :
       \A i \in DOMAIN rest : c[i] # Under => Len(rest[i]) = 1 /\ Within(crd[1], rest[i][1].n)}
LocalTileView ==
  /\ Scalar
  /\ \/ \E t \in Tilers : Tileable(t) /\ \E c \in TileAt(t) : Built(LocalTile(view, t, c), crd, made)
     \/ \E t \in TilersMNK, proj \in Projections : LET d == Dice(proj, t) IN
          Tileable(d) /\ \E c \in TileAt(d) : Built(LocalTile(view, d, c), crd, made)
Places(t) == {p \in [DOMAIN t -> 0..Max(ToSet(t)) - 1] : \A i \in DOMAIN t : p[i] < t[i]}
LocalPartitionView ==
  \E t \in Tilers : Tileable(t) /\ \E p \in Places(t) :
    Built(LocalPartition(view, t, ThreadAt(t, p)), crd, made)
MmaPartitionView ==
  \E atom \in Atoms, which \in {"A", "B", "C"} :
    /\ IsPlain /\ MmaDivisible(view.layout, atom, which)
    /\ Scalar /\ crd[1].real \in 0..atom.ctas - 1
    /\ Built(MmaPartition(view, atom, which, crd[1]), crd, made)

(* What is made of them                                                    *)
MakeFragment ==
  Built(view, crd, [kind |-> "fragment", source |-> view.layout,
                    regs |-> MakeFragmentLike(view.layout, ~InMemory)])
(* The modes of an accumulator after the atom's: how many stages each has. *)
Stages == {<<1, 1>>, <<1, 2>>, <<1, 1, 4>>, <<2, 2>>, <<1, 2, 3>>}
MmaMakeFragment ==
  /\ steps = 0
  /\ \E atom \in TmemAtoms, n \in {8, 16}, rest \in Stages :
       /\ CanAccumulate(atom, n)
       /\ Built(view, crd, [kind |-> "accumulator", rows |-> AccumulatorRows(atom), columns |-> n, rest |-> rest,
            regs |-> Accumulator(atom, AccumulatorRows(atom), n, rest)])
CopyAtoms ==
  {Simt(b) : b \in {8, 128}} \cup {Stsm(n, t) : n \in {1, 2, 4}, t \in BOOLEAN}
  \cup {Tmem(s, x, load) : s \in {"32x32", "16x256"}, x \in {1, 2, 8}, load \in BOOLEAN}
  \cup {S2T(c) : c \in 1..2}
MakeCopy == steps = 0 /\ \E t \in CopyAtoms : Built(view, crd, [kind |-> "copy", traits |-> t])
Boxes == {<<64, 1, 8, 2>>, <<256, 2, 1, 2>>, <<1, 1, 4, 1>>, <<32, 8, 3, 3>>, <<512, 2, 1, 4>>}
MakeBoxes ==
  /\ steps = 0
  /\ \E ns \in Boxes, gap \in 0..4 :
       LET d(k) == FoldLeft(LAMBDA x, j : x * ns[j], 1, [j \in 1..k - 1 |-> j]) + (IF k > gap /\ gap > 0 THEN 1 ELSE 0)
           leaves == [k \in DOMAIN ns |-> Leaf(Static(ns[k]), Static(IF ns[k] = 1 THEN 0 ELSE d(k)), 1)]
       IN Built(view, crd, [kind |-> "boxes", leaves |-> leaves, groups |-> BoxGroups(leaves)])

Next ==
  \/ TupleArith \/ GetLeaf \/ Idx2Crd \/ Crd2Idx \/ GetCoord
  \/ AddOffset \/ SliceView \/ DivideView \/ GroupModes \/ FilterZerosOp
  \/ LocalTileView \/ LocalPartitionView \/ MmaPartitionView
  \/ MakeFragment \/ MmaMakeFragment \/ MakeCopy \/ MakeBoxes
Spec == Init /\ [][Next]_vars

-----------------------------------------------------------------------------
(* Every value and divisor a type states is that of the number the kernel  *)
(* computes, after any chain of operations: what is stated of an index     *)
(* carries through idx2crd, arithmetic, strides, slices and tiles.         *)
FactsTrue ==
  LET of(leaves) == UNION {{f.n, f.d} : f \in ToSet(leaves)}
  IN \A x \in ToSet(crd) \cup {view.iter[a] : a \in Axes} \cup {view.offset} \cup of(Leaves(view.layout))
            \cup (IF made.kind = "fragment" THEN of(made.regs) ELSE {}) : Honest(x)

(* A pointer has at least the alignment its type states, whatever moved it:*)
(* vector loads and bulk copies are chosen by it.                          *)
AlignmentTrue == InMemory /\ view.align > 0 => Divides(8 * view.align, view.addr)

(* The local tiles of a tensor at all coordinates, the threads' partitions *)
(* of it and the CTAs' shares in an mma hand out every element once; a     *)
(* divide only arranges the elements anew.                                 *)
SplitUp(v, parts) ==
  /\ UNION {Elements(parts[c]) : c \in DOMAIN parts} = Elements(v)
  /\ FoldSet(LAMBDA c, n : n + Cardinality(Elements(parts[c])), 0, DOMAIN parts) = Cardinality(Elements(v))
TilesPartition ==
  LET l == view.layout
      at(k) == <<Unknown(1, k)>>
      widest(t) == Max({l[i][1].n.real : i \in DOMAIN t})
      rests(t) == {p \in [DOMAIN t -> 0..widest(t) - 1] : \A i \in DOMAIN t : p[i] < l[i][1].n.real \div t[i]}
      coordinate(t, p) == [i \in DOMAIN p |-> at(p[i])] \o [i \in 1..Len(l) - Len(t) |-> Under]
  IN IsPlain /\ Distinct(l) =>
     /\ \A t \in {t \in Tilers : Divisible(l, t)} :
          /\ SplitUp(view, [p \in rests(t) |-> LocalTile(view, t, coordinate(t, p))])
          /\ SplitUp(view, [p \in Places(t) |-> LocalPartition(view, t, ThreadAt(t, p))])
          /\ \A how \in {"logical", "zipped", "tiled", "flat"} :
               SplitUp(view, [one \in {1} |-> WithLayout(view, Divide(l, t, how))])
     /\ \A atom \in Atoms, which \in {"A", "B", "C"} : MmaDivisible(l, atom, which) =>
          SplitUp(view, [cta \in 0..atom.ctas - 1 |-> MmaPartition(view, atom, which, Unknown(1, cta))])

(* The places of a fragment's elements beside their registers.             *)
Pairs(source, regs) ==
  LET step(pairs, k) ==
        {<<[p[1] EXCEPT ![source[k].at] = @ + i * source[k].d.real], p[2] + i * regs[k].d.real>> :
          p \in pairs, i \in 0..source[k].n.real - 1}
  IN FoldLeft(step, {<<[a \in Axes |-> 0], 0>>}, [k \in DOMAIN regs |-> k])
Extents_(leaves) == [k \in DOMAIN leaves |-> <<leaves[k].n.real, leaves[k].d.real>>]

(* The registers of a fragment are packed, and two values share one only   *)
(* if they come from the same element. The values of an accumulator stay   *)
(* within the 128 lanes of tensor memory, those of a stage take its rows   *)
(* by its columns, and no two of them meet unless more than one mode has   *)
(* several stages: the code gives all such modes one stride, and there     *)
(* they do meet.                                                           *)
RegistersApart ==
  CASE made.kind = "fragment" ->
         LET pairs == Pairs(Leaves(made.source), made.regs)
             used == {p[2] : p \in pairs}
         IN used = 0..Cardinality(used) - 1 /\ Cardinality(pairs) = Cardinality(used)
    [] made.kind = "accumulator" ->
         LET step(leaf) == leaf[2] \div LaneStride
             lanes == SelectSeq(Extents_(made.regs), LAMBDA leaf : step(leaf) > 0)
         IN /\ NeverMeet(Extents_(made.regs)) <=> Cardinality({k \in DOMAIN made.rest : made.rest[k] > 1}) <= 1
            /\ FoldLeft(LAMBDA x, leaf : x + (leaf[1] - 1) * step(leaf), 0, lanes) < 128
            /\ Bits(SubSeq(Extents_(made.regs), 1, Len(lanes) + 1)) = made.rows * made.columns
    [] OTHER -> TRUE

(* A copy atom's threads together take every bit of the source block and   *)
(* fill every bit of the destination, each once, broadcasts aside, and no  *)
(* two bits have one tensor memory address; the boxes of a bulk copy cover *)
(* the tile in order, and no two modes merge into more than 256 elements.  *)
EveryBitMoved ==
  CASE made.kind = "copy" ->
         LET t == made.traits
             taken == Bits(Stepping(t.src[1])) * Bits(t.src[2])
             filled == Bits(Stepping(t.dst[1] \o t.dst[2]))
         IN /\ CountsUp(t.src[1] \o t.src[2]) /\ CountsUp(t.dst[1] \o t.dst[2])
            /\ taken = filled
            /\ t.valId # NoAddress => NeverMeet(t.valId) /\ Bits(t.valId) = filled
    [] made.kind = "boxes" ->
         LET wide == SelectSeq([k \in DOMAIN made.leaves |-> k], LAMBDA k : made.leaves[k].n.real > 1)
             size(g) == FoldLeft(LAMBDA x, k : x * made.leaves[k].n.real, 1, g)
             runsOn(g) == \A k \in 2..Len(g) :
               made.leaves[g[k]].d.real = made.leaves[g[1]].d.real * size(SubSeq(g, 1, k - 1))
         IN /\ SelectSeq(FlattenSeq(made.groups), LAMBDA k : made.leaves[k].n.real > 1) = wide
            /\ \A g \in ToSet(made.groups) : (Len(g) > 1 => size(g) <= 256) /\ runsOn(g)
    [] OTHER -> TRUE
=============================================================================
