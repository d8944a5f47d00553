----------------------------- MODULE BlockLease -----------------------------
(***************************************************************************)
(* What a pool of blocks promises to its callers, whatever stacks, counters*)
(* and locks it is built from: a lease is of a block nobody holds, at most *)
(* MaxBlocks leases are out at once, and no more than MaxBlocks blocks are *)
(* ever made. Abstract specification of BufferPool.                        *)
(***************************************************************************)
EXTENDS Naturals, FiniteSets

CONSTANTS Blocks, MaxBlocks

VARIABLES made, leased

leaseVars == <<made, leased>>

LeaseInit == made = {} /\ leased = {}

(* A fresh block, while the pool has made fewer than it may. *)
Make(b) ==
  /\ b \notin made
  /\ Cardinality(made) < MaxBlocks
  /\ made' = made \cup {b}
  /\ leased' = leased \cup {b}

(* A block that was made before and came back. *)
Reuse(b) ==
  /\ b \in made \ leased
  /\ leased' = leased \cup {b}
  /\ UNCHANGED made

Return(b) ==
  /\ b \in leased
  /\ leased' = leased \ {b}
  /\ UNCHANGED made

LeaseNext == \E b \in Blocks : Make(b) \/ Reuse(b) \/ Return(b)

LeaseSpec == LeaseInit /\ [][LeaseNext]_leaseVars

=============================================================================
