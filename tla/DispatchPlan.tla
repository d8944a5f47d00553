---------------------------- MODULE DispatchPlan ----------------------------
(***************************************************************************)
(* How zml/Sharding.zig cuts a tensor over the devices of a mesh, and how  *)
(* DispatchSpans of zml/io.zig turns the cuts, known device by device,     *)
(* into a routing table in the order of the file: spans of the global byte *)
(* range, each with the writer that receives it first and the writers that *)
(* receive a copy.                                                         *)
(*                                                                         *)
(* A layout l is a record: dims and elem (the shape and the size of an     *)
(* element), mesh (the sizes of the physical axes, in the canonical order  *)
(* of the devices) and bind (for each dimension the physical axes bound to *)
(* it, folds already expanded). No dimension is zero. Bytes and starts     *)
(* count from 0, writers, dimensions and mesh axes from 1.                 *)
(***************************************************************************)
EXTENDS Integers, Sequences, FiniteSets, SequencesExt, FiniteSetsExt, Functions

Product(s) == LET p[n \in 0 .. Len(s)] == IF n = 0 THEN 1 ELSE p[n - 1] * s[n] IN p[Len(s)]
SumOf(s) == LET t[n \in 0 .. Len(s)] == IF n = 0 THEN 0 ELSE t[n - 1] + s[n] IN t[Len(s)]
After(s, i) == SubSeq(s, i + 1, Len(s))

(* The numbers of a set in increasing order.                               *)
Sorted(S) == [i \in 1 .. Cardinality(S) |-> CHOOSE x \in S : Cardinality({y \in S : y < x}) = i - 1]

IsLayout(l) ==
  /\ l.dims \in Seq(Nat \ {0}) /\ l.elem \in Nat \ {0} /\ l.mesh \in Seq(Nat \ {0})
  /\ l.bind \in Seq(Seq(DOMAIN l.mesh)) /\ Len(l.bind) = Len(l.dims)

Rank(l) == Len(l.dims)
TotalBytes(l) == Product(l.dims) * l.elem
ByteStride(l, a) == Product(After(l.dims, a)) * l.elem

-----------------------------------------------------------------------------
(* Placement                                                               *)

(* The devices in canonical order: row-major over the mesh.                *)
Writers(l) == 1 .. Product(l.mesh)
Coord(l, w, p) == ((w - 1) \div Product(After(l.mesh, p))) % l.mesh[p]

(* calculateSplit: the physical axes this dimension is split over, which   *)
(* are those of its binding that were not used before, neither by an       *)
(* earlier dimension nor by this one.                                      *)
Unused(l, a, k) ==
  /\ \A b \in 1 .. a - 1 : l.bind[a][k] \notin Range(l.bind[b])
  /\ \A j \in 1 .. k - 1 : l.bind[a][j] # l.bind[a][k]
SplitAxes(l, a) ==
  LET fresh == Sorted({k \in DOMAIN l.bind[a] : Unused(l, a, k)})
  IN [i \in DOMAIN fresh |-> l.bind[a][fresh[i]]]

SplitSizes(l, a) == [i \in DOMAIN SplitAxes(l, a) |-> l.mesh[SplitAxes(l, a)[i]]]
Count(l, a) == Product(SplitSizes(l, a))

(* Mutant: the axis added last is the most significant.                    *)
LinearIndexReversed(l, w, a) ==
  FoldRight(LAMBDA p, i : i * l.mesh[p] + Coord(l, w, p), SplitAxes(l, a), 0)

(* AxisSplit.linearIndex: each axis that is added scales the strides of    *)
(* those before it, so the first is the most significant digit.            *)
LinearIndex(l, w, a) ==
  LET axes == SplitAxes(l, a)
      index[n \in 0 .. Len(axes)] ==
        IF n = 0 THEN 0 ELSE index[n - 1] * l.mesh[axes[n]] + Coord(l, w, axes[n])
  IN index[Len(axes)]

ShardDim(l, a) == l.dims[a] \div Count(l, a)
ShardBytes(l) == Product([a \in 1 .. Rank(l) |-> ShardDim(l, a)]) * l.elem

(* Placement.slices: where the shard of writer w begins in dimension a.    *)
SliceStart(l, w, a) == LinearIndex(l, w, a) * ShardDim(l, a)

-----------------------------------------------------------------------------
(* DispatchSpans                                                           *)

(* Mutant: one dimension too many is taken to be contiguous.               *)
ContiguousAxisShort(l) ==
  LET cut == {a \in 2 .. Rank(l) : ShardDim(l, a) # l.dims[a]}
  IN IF cut = {} THEN 1 ELSE Max({1, Max(cut) - 1})

(* contiguousSliceAxis: the innermost dimension that is cut. Behind it a   *)
(* shard is contiguous; it is the same for every writer.                   *)
ContiguousAxis(l) == Max({1} \cup {a \in 2 .. Rank(l) : ShardDim(l, a) # l.dims[a]})

SpanLen(l) == IF Rank(l) = 0 THEN l.elem
              ELSE ShardDim(l, ContiguousAxis(l)) * ByteStride(l, ContiguousAxis(l))

(* appendShardAxisPlacementSpans: one span for every choice of an index in *)
(* the dimensions outside the contiguous one.                              *)
SpanStarts(l, w) ==
  IF Rank(l) = 0 THEN {0}
  ELSE LET c == ContiguousAxis(l)
           outer == {i \in [1 .. c - 1 -> 0 .. Max(Range(l.dims)) - 1] :
                       \A a \in 1 .. c - 1 : i[a] < ShardDim(l, a)}
           index(i, a) == SliceStart(l, w, a) + IF a < c THEN i[a] ELSE 0
       IN {SumOf([a \in 1 .. c |-> index(i, a) * ByteStride(l, a)]) : i \in outer}

(* deduplicateByRange: identical ranges, which sort by writer, become one  *)
(* span; the first of its writers is the primary, the others mirrors.      *)
SpanOf(l, s) ==
  LET ws == Sorted({w \in Writers(l) : s \in SpanStarts(l, w)})
  IN [start |-> s, end |-> s + SpanLen(l), primary_writer |-> ws[1],
      mirror_writers |-> Tail(ws)]

DispatchSpans(l) ==
  LET starts == Sorted(UNION {SpanStarts(l, w) : w \in Writers(l)})
  IN [i \in 1 .. Len(starts) |-> SpanOf(l, starts[i])]

(* Unless the spans follow each other from the first byte to the last, the *)
(* plan is refused with NonContiguousShardPlacement.                       *)
Tiles(spans, total) ==
  /\ spans # <<>> /\ spans[1].start = 0 /\ Last(spans).end = total
  /\ \A i \in 1 .. Len(spans) - 1 : spans[i].end = spans[i + 1].start

-----------------------------------------------------------------------------
(* What sharding means, byte by byte: the reference of the plan            *)

(* The index in dimension a of the element byte o belongs to.              *)
IndexOf(l, o, a) == (o \div ByteStride(l, a)) % l.dims[a]

(* Dimension a is cut into Count equal parts, numbered by the coordinates  *)
(* of the mesh; writer w owns the bytes of its part of every dimension.    *)
Owns(l, w, o) ==
  \A a \in 1 .. Rank(l) :
    LET part == SplitAxes(l, a)
        digit(k) == Coord(l, w, part[k]) * Product([j \in 1 .. Len(part) - k |-> l.mesh[part[k + j]]])
    IN IndexOf(l, o, a) \div ShardDim(l, a) = SumOf([k \in DOMAIN part |-> digit(k)])

Owned(l, w) == {o \in 0 .. TotalBytes(l) - 1 : Owns(l, w, o)}
=============================================================================
