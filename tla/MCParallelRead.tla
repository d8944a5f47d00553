--------------------------- MODULE MCParallelRead ---------------------------
(* A read of five bytes into three buffers, one of them empty, of a file   *)
(* that has four left: two chunks, the second of which goes on from one    *)
(* buffer to another and ends before the last. A read of two bytes of      *)
(* which the file has one. And one at the end of the file.                 *)
EXTENDS ParallelRead
MCRequests == {
  [offset |-> 1, buffers |-> <<3, 0, 2>>],
  [offset |-> 4, buffers |-> <<2>>],
  [offset |-> 5, buffers |-> <<1>>]}
=============================================================================
