---------------------------- MODULE LoadPipeline ----------------------------
(***************************************************************************)
(* The Loader of zml/io.zig at work: one task per tensor, at most          *)
(* Parallelism of them at once (LimitedGroup), each with one shard writer  *)
(* per device, and one pool of DmaChunks blocks per device that all the    *)
(* tasks share. A task keeps a block of every device while it asks for the *)
(* next one of some device, so tasks hold and wait across pools.           *)
(*                                                                         *)
(* The pools and the group are taken as their own modules describe them, a *)
(* shard writer as its sequence of transfers without their contents.       *)
(***************************************************************************)
EXTENDS Naturals, FiniteSets

CONSTANTS
  Tasks,        \* the tensors to load, one task each
  DeviceCount,  \* the devices of the mesh, in canonical order 0 ..
  Parallelism,  \* opts.parallelism
  DmaChunks,    \* opts.dma_chunks
  Need,         \* how many blocks the bytes of a shard fill
  MayFail       \* whether the reader or a writer may fail

ASSUME PipelineAssumption ==
  /\ IsFiniteSet(Tasks)
  /\ DeviceCount \in Nat \ {0}
  /\ Parallelism \in Nat \ {0}
  /\ DmaChunks \in Nat \ {0}
  /\ Need \in Nat \ {0}
  /\ MayFail \in BOOLEAN

Devices == 0 .. DeviceCount - 1

VARIABLES
  tpc,     \* where each task is in loadSingleInner
  cursor,  \* how many shard writers DirectMemoryWriter.init has made
  dev,     \* the device whose writer the task is flushing
  holds,   \* the devices of which the task has a block it has not submitted
  sent,    \* the transfers each of its writers has submitted
  flying   \* the transfers <<task, device, number>> not completed yet

vars == <<tpc, cursor, dev, holds, sent, flying>>

Active == {t \in Tasks : tpc[t] \in {"init", "fill", "prev", "last", "get"}}
Failed == {t \in Tasks : tpc[t] = "failed"}

TypeOK ==
  /\ tpc \in [Tasks -> {"queued", "init", "fill", "prev", "last", "get", "done", "failed"}]
  /\ cursor \in [Tasks -> 0 .. DeviceCount]
  /\ dev \in [Tasks -> Devices]
  /\ holds \in [Tasks -> SUBSET Devices]
  /\ sent \in [Tasks -> [Devices -> 0 .. Need]]
  /\ flying \subseteq Tasks \X Devices \X (1 .. Need)

Init ==
  /\ tpc = [t \in Tasks |-> "queued"]
  /\ cursor = [t \in Tasks |-> 0]
  /\ dev = [t \in Tasks |-> 0]
  /\ holds = [t \in Tasks |-> {}]
  /\ sent = [t \in Tasks |-> [d \in Devices |-> 0]]
  /\ flying = {}

Goto(t, l) == tpc' = [tpc EXCEPT ![t] = l]

(* The blocks of device d that are out: kept by a task, or being read.     *)
Holders(d) == {t \in Tasks : d \in holds[t]}
InFlight(d) == {l \in flying : l[2] = d}
BlockFree(d) == Cardinality(Holders(d)) + Cardinality(InFlight(d)) < DmaChunks

-----------------------------------------------------------------------------
(* Mutant: the group has no limit.                                         *)
StartUnlimited(t) ==
  /\ tpc[t] = "queued"
  /\ Goto(t, "init")
  /\ UNCHANGED <<cursor, dev, holds, sent, flying>>

(* A slot of the group is free.                                            *)
Start(t) ==
  /\ tpc[t] = "queued"
  /\ Cardinality(Active) < Parallelism
  /\ Goto(t, "init")
  /\ UNCHANGED <<cursor, dev, holds, sent, flying>>

(* DirectMemoryWriter.init: each shard writer in turn leases a block.      *)
InitGet(t) ==
  /\ tpc[t] = "init"
  /\ BlockFree(cursor[t])
  /\ holds' = [holds EXCEPT ![t] = @ \cup {cursor[t]}]
  /\ cursor' = [cursor EXCEPT ![t] = @ + 1]
  /\ Goto(t, IF cursor[t] + 1 = DeviceCount THEN "fill" ELSE "init")
  /\ UNCHANGED <<dev, sent, flying>>

(* Mutant: the next block is asked for before the full one is submitted.   *)
SubmitAfterGet(t, d) ==
  /\ tpc[t] = "fill"
  /\ d \in holds[t]
  /\ dev' = [dev EXCEPT ![t] = d]
  /\ sent' = [sent EXCEPT ![t][d] = @ + 1]
  /\ Goto(t, "prev")
  /\ UNCHANGED <<cursor, holds, flying>>

(* The block of d is full: the writer of d submits it.                     *)
Submit(t, d) ==
  /\ tpc[t] = "fill"
  /\ d \in holds[t]
  /\ dev' = [dev EXCEPT ![t] = d]
  /\ holds' = [holds EXCEPT ![t] = @ \ {d}]
  /\ sent' = [sent EXCEPT ![t][d] = @ + 1]
  /\ flying' = flying \cup {<<t, d, sent[t][d] + 1>>}
  /\ Goto(t, "prev")
  /\ UNCHANGED cursor

(* It waits for the transfer before, and then gets its next block, or, if  *)
(* that was the last one, waits for it.                                    *)
WaitPrev(t) ==
  /\ tpc[t] = "prev"
  /\ <<t, dev[t], sent[t][dev[t]] - 1>> \notin flying
  /\ Goto(t, IF sent[t][dev[t]] = Need THEN "last" ELSE "get")
  /\ UNCHANGED <<cursor, dev, holds, sent, flying>>

(* Mutant: the last transfer is not waited for.                            *)
WaitLastSkipped(t) ==
  /\ tpc[t] = "last"
  /\ Goto(t, "fill")
  /\ UNCHANGED <<cursor, dev, holds, sent, flying>>

WaitLast(t) ==
  /\ tpc[t] = "last"
  /\ <<t, dev[t], sent[t][dev[t]]>> \notin flying
  /\ Goto(t, "fill")
  /\ UNCHANGED <<cursor, dev, holds, sent, flying>>

Get(t) ==
  /\ tpc[t] = "get"
  /\ BlockFree(dev[t])
  /\ holds' = [holds EXCEPT ![t] = @ \cup {dev[t]}]
  /\ Goto(t, "fill")
  /\ UNCHANGED <<cursor, dev, sent, flying>>

(* All bytes are streamed and flushed: the task leaves its slot.           *)
End(t) ==
  /\ tpc[t] = "fill"
  /\ \A d \in Devices : sent[t][d] = Need
  /\ Goto(t, "done")
  /\ UNCHANGED <<cursor, dev, holds, sent, flying>>

(* A read, a transfer or an allocation fails: the task leaves its slot and *)
(* the blocks it holds are not put back.                                   *)
Fail(t) ==
  /\ MayFail
  /\ t \in Active
  /\ Goto(t, "failed")
  /\ UNCHANGED <<cursor, dev, holds, sent, flying>>

(* PJRT completes a transfer: the callback puts the block and sets the     *)
(* event.                                                                  *)
Complete(l) ==
  /\ l \in flying
  /\ flying' = flying \ {l}
  /\ UNCHANGED <<tpc, cursor, dev, holds, sent>>

TaskStep(t) ==
  \/ Start(t) \/ InitGet(t) \/ WaitPrev(t) \/ WaitLast(t) \/ Get(t) \/ End(t)
  \/ \E d \in Devices : Submit(t, d)

(* Loader.await has returned and nothing is left to happen.                *)
Finished ==
  /\ \A t \in Tasks : tpc[t] \in {"done", "failed"}
  /\ flying = {}
  /\ UNCHANGED vars

Next ==
  \/ \E t \in Tasks : TaskStep(t) \/ Fail(t)
  \/ \E l \in flying : Complete(l)
  \/ Finished

Spec == Init /\ [][Next]_vars

(* Tasks run, PJRT completes its transfers. A task waiting for a block or  *)
(* a slot gets one if they are free again and again: there are finitely    *)
(* many tensors, so it is overtaken finitely often.                        *)
Fairness ==
  /\ \A t \in Tasks : WF_vars(TaskStep(t))
  /\ WF_vars(\E l \in flying : Complete(l))
FairSpec == Spec /\ Fairness

-----------------------------------------------------------------------------
(* Properties                                                              *)

Waiting(t, d) ==
  \/ (tpc[t] = "init" /\ cursor[t] = d)
  \/ (tpc[t] = "get" /\ dev[t] = d)

(* At least one block per concurrent load: the sizes the examples run with *)
(* (16 loads and 32 blocks, 8 and 16, 1 and 1), and the default (1 and 2). *)
(* Nothing in Loader.init asks for it.                                     *)
EnoughChunks == Parallelism <= DmaChunks

(* No load waits for a pool whose blocks are all kept by loads that may be *)
(* waiting themselves: one is free, or comes back by itself when a transfer*)
(* completes. Hence no cycle of loads that hold and wait.                  *)
NeverStarved ==
  \A t \in Tasks, d \in Devices :
    (Failed = {} /\ Waiting(t, d)) => Cardinality(Holders(d)) < DmaChunks

(* Once all loads have ended without a failure, no transfer still reads    *)
(* the pinned memory, which Loader.deinit frees, and every block is back.  *)
DeinitSafe ==
  (\A t \in Tasks : tpc[t] = "done") =>
    flying = {} /\ \A t \in Tasks : holds[t] = {}

(* Unless a load fails, every tensor is loaded and await returns: no load  *)
(* waits forever for a slot or for a block of some device.                 *)
AllLoaded == <>(Failed # {} \/ \A t \in Tasks : tpc[t] = "done")

-----------------------------------------------------------------------------
(* The inductive invariant behind NeverStarved and DeinitSafe              *)

(* A load that waits for a block of d keeps none of d, only loads under way*)
(* or failed keep any, and a writer that is through its shard keeps none.  *)
Honest(t) ==
  /\ tpc[t] = "queued" => (cursor[t] = 0 /\ holds[t] = {})
  /\ tpc[t] = "init" => (cursor[t] < DeviceCount /\ holds[t] = 0 .. cursor[t] - 1)
  /\ tpc[t] \in {"queued", "init"} => \A d \in Devices : sent[t][d] = 0
  /\ tpc[t] = "get" => (dev[t] \notin holds[t] /\ sent[t][dev[t]] < Need)
  /\ tpc[t] \in {"prev", "last"} => (dev[t] \notin holds[t] /\ sent[t][dev[t]] > 0)
  /\ tpc[t] = "last" => sent[t][dev[t]] = Need
  /\ \A d \in holds[t] : sent[t][d] < Need
  /\ tpc[t] = "done" => \A d \in Devices : sent[t][d] = Need

(* A transfer still to complete is the newest of its writer, or, while the *)
(* writer waits for it, the one before; none is left of a complete shard.  *)
Recent ==
  \A l \in flying :
    LET n == sent[l[1]][l[2]]
        flushing == dev[l[1]] = l[2] /\ tpc[l[1]] \in {"prev", "last"}
    IN tpc[l[1]] # "failed" =>
         /\ l[3] = n \/ (l[3] = n - 1 /\ flushing)
         /\ l[3] = Need => flushing
         /\ (tpc[l[1]] = "last" /\ dev[l[1]] = l[2]) => l[3] = Need

PipelineInv ==
  /\ TypeOK
  /\ Cardinality(Active) <= Parallelism
  /\ \A t \in Tasks : Honest(t)
  /\ Recent

=============================================================================
