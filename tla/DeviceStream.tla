---------------------------- MODULE DeviceStream ----------------------------
(***************************************************************************)
(* What a shard writer promises to the tensor being loaded: the bytes it   *)
(* accepts are numbered 1 .. Total in stream order, each reaches its own   *)
(* place in device memory once, none before it was accepted, and the       *)
(* stream closes as "done" only when all of them are there. A stream that  *)
(* failed may still see accepted bytes land, until its writer is dropped   *)
(* with transfers under way: then it is lost, and any byte may be written. *)
(***************************************************************************)
EXTENDS Naturals

CONSTANT Total   \* the byte size of the shard

VARIABLES
  accepted,  \* how many bytes of the stream were accepted
  landed,    \* the bytes that are in their place on the device
  status     \* "open", "done", "failed" or "lost"

streamVars == <<accepted, landed, status>>

StreamInit ==
  /\ accepted = 0
  /\ landed = {}
  /\ status = "open"

Accept ==
  /\ status = "open"
  /\ accepted' \in accepted + 1 .. Total
  /\ UNCHANGED <<landed, status>>

Land ==
  /\ status \in {"open", "failed"}
  /\ \E lo, hi \in 1 .. accepted :
       /\ (lo .. hi) \cap landed = {}
       /\ landed' = landed \cup (lo .. hi)
  /\ UNCHANGED <<accepted, status>>

Finish ==
  /\ status = "open"
  /\ landed = 1 .. Total
  /\ status' = "done"
  /\ UNCHANGED <<accepted, landed>>

Fail ==
  /\ status = "open"
  /\ status' = "failed"
  /\ UNCHANGED <<accepted, landed>>

Lose ==
  /\ status = "failed"
  /\ status' = "lost"
  /\ UNCHANGED <<accepted, landed>>

Stray ==
  /\ status = "lost"
  /\ landed' \in SUBSET (1 .. Total)
  /\ UNCHANGED <<accepted, status>>

StreamNext == Accept \/ Land \/ Finish \/ Fail \/ Lose \/ Stray
StreamSpec == StreamInit /\ [][StreamNext]_streamVars

=============================================================================
