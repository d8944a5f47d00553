-------------------------- MODULE MCStreamScatter ---------------------------
(* Small tensors, sharded in the ways the tests of DirectMemoryWriter do.  *)
EXTENDS StreamScatter

(* Rows replicated or split, columns split: one or two mesh axes, folds.   *)
Scalar     == [dims |-> <<>>,        elem |-> 2, mesh |-> <<2>>,    bind |-> <<>>]
Replicated == [dims |-> <<5>>,       elem |-> 1, mesh |-> <<3>>,    bind |-> <<<<>>>>]
Split1     == [dims |-> <<6>>,       elem |-> 1, mesh |-> <<2>>,    bind |-> <<<<1>>>>]
Columns    == [dims |-> <<3, 4>>,    elem |-> 1, mesh |-> <<2>>,    bind |-> <<<<>>, <<1>>>>]
Mirrored   == [dims |-> <<2, 4>>,    elem |-> 1, mesh |-> <<2, 2>>, bind |-> <<<<>>, <<1>>>>]
Minor      == [dims |-> <<2, 4>>,    elem |-> 1, mesh |-> <<2, 2>>, bind |-> <<<<>>, <<2>>>>]
BothAxes   == [dims |-> <<2, 4>>,    elem |-> 1, mesh |-> <<2, 2>>, bind |-> <<<<1>>, <<2>>>>]
Folded     == [dims |-> <<8>>,       elem |-> 1, mesh |-> <<2, 2>>, bind |-> <<<<1, 2>>>>]
FoldedBack == [dims |-> <<2, 6>>,    elem |-> 1, mesh |-> <<3, 2>>, bind |-> <<<<>>, <<2, 1>>>>]
Reused     == [dims |-> <<4, 2>>,    elem |-> 1, mesh |-> <<2>>,    bind |-> <<<<1>>, <<1>>>>]
Repeated   == [dims |-> <<2, 4>>,    elem |-> 1, mesh |-> <<2, 2>>, bind |-> <<<<>>, <<1, 2, 1>>>>]
Middle     == [dims |-> <<2, 2, 2>>, elem |-> 1, mesh |-> <<2, 2>>, bind |-> <<<<>>, <<2>>, <<>>>>]

AllLayouts == {Scalar, Replicated, Split1, Columns, Mirrored, Minor, BothAxes, Folded,
               FoldedBack, Reused, Repeated, Middle}
=============================================================================
