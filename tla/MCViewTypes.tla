---------------------------- MODULE MCViewTypes -----------------------------
(* Small kernels: tensors that are compact, row-major with a row of unknown*)
(* length, padded, broadcast, of nested modes; indices that are constants  *)
(* or known by a divisor; tiles of one, two and three modes.               *)
EXTENDS ViewTypes

Strided(ns, ds) == [i \in DOMAIN ns |-> <<Leaf(Static(ns[i]), ds[i], 1)>>]
SmallLayouts == {
  MakeLayout(<<<<Static(4)>>, <<Static(4)>>>>),
  MakeLayout(<<<<Static(4)>>, <<Static(2)>>, <<Unknown(2, 4)>>>>),
  Strided(<<4, 8>>, <<Unknown(8, 24), Static(1)>>),
  Strided(<<4, 1, 2>>, <<Static(1), Static(5), Static(4)>>),
  Strided(<<2, 4>>, <<Static(0), Static(3)>>),
  <<<<Leaf(Static(2), Static(1), 1), Leaf(Static(2), Static(8), 1)>>, <<Leaf(Static(4), Static(2), 1)>>>>}
SmallIndices == {Static(3), Unknown(1, 1), Unknown(2, 6), Unknown(4, 4)}
SmallNumbers == {-2, 3}
SmallTilers == {<<2>>, <<1, 4>>, <<2, 1, 2>>}
SmallTilersMNK == {<<4, 2, 2>>}
SmallAtoms == {[m |-> 4, n |-> 4, k |-> 2, ctas |-> c] : c \in 1..2}
=============================================================================
