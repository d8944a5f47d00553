---------------------------- MODULE LimitedGroup ----------------------------
(***************************************************************************)
(* stdx.Io.LimitedGroup: tasks are spawned into a std.Io.Group at once, and*)
(* each of them, in its wrapper, waits until fewer than Limit of them run. *)
(* The Loader spawns one task per tensor through it, so this is what keeps *)
(* the number of concurrent loads, hence of getters of BufferPool, bounded.*)
(*                                                                         *)
(* The group itself (spawn, await, cancel) is std.Io: a spawned task runs  *)
(* some time later, await returns when no spawned task is left, and cancel *)
(* reaches a task at its cancellation points, here the lock and the wait.  *)
(***************************************************************************)
EXTENDS Naturals, FiniteSets

CONSTANTS
  Tasks,   \* the tasks the owner spawns
  Limit,   \* limit
  Nobody   \* the mutex is free

ASSUME GroupAssumption ==
  /\ IsFiniteSet(Tasks)
  /\ Limit \in Nat \ {0}
  /\ Nobody \notin Tasks

VARIABLES
  inFlight,   \* in_flight
  mutex,      \* the holder of mutex, or Nobody
  tpc,        \* where each task is in its wrapper
  seen,       \* the local in_flight of the wrapper
  ran,        \* the tasks whose function was called
  owner,      \* "spawning", "awaiting" or "returned" from await
  canceling   \* whether cancel was requested

vars == <<inFlight, mutex, tpc, seen, ran, owner, canceling>>

Labels == {"new", "load", "reserve", "running", "leaveLock", "leave", "signal",
           "waitLock", "waitCheck", "asleep", "relock", "done"}

TypeOK ==
  /\ inFlight \in 0 .. Limit
  /\ mutex \in Tasks \cup {Nobody}
  /\ tpc \in [Tasks -> Labels]
  /\ seen \in [Tasks -> 0 .. Limit]
  /\ ran \subseteq Tasks
  /\ owner \in {"spawning", "awaiting", "returned"}
  /\ canceling \in BOOLEAN

Init ==
  /\ inFlight = 0
  /\ mutex = Nobody
  /\ tpc = [t \in Tasks |-> "new"]
  /\ seen = [t \in Tasks |-> 0]
  /\ ran = {}
  /\ owner = "spawning"
  /\ canceling = FALSE

Goto(t, l) == tpc' = [tpc EXCEPT ![t] = l]
Acquire(t) == mutex = Nobody /\ mutex' = t
Unlock == mutex' = Nobody
Asleep == {t \in Tasks : tpc[t] = "asleep"}

-----------------------------------------------------------------------------
(* The owner                                                               *)

(* async and concurrent: the wrapper is scheduled. *)
Spawn(t) ==
  /\ owner = "spawning"
  /\ tpc[t] = "new"
  /\ Goto(t, "load")
  /\ UNCHANGED <<inFlight, mutex, seen, ran, owner, canceling>>

Await ==
  /\ owner = "spawning"
  /\ owner' = "awaiting"
  /\ UNCHANGED <<inFlight, mutex, tpc, seen, ran, canceling>>

AwaitReturns ==
  /\ owner = "awaiting"
  /\ \A t \in Tasks : tpc[t] \in {"new", "done"}
  /\ owner' = "returned"
  /\ UNCHANGED <<inFlight, mutex, tpc, seen, ran, canceling>>

RequestCancel ==
  /\ owner = "awaiting"
  /\ ~canceling
  /\ canceling' = TRUE
  /\ UNCHANGED <<inFlight, mutex, tpc, seen, ran, owner>>

-----------------------------------------------------------------------------
(* The wrapper of a task                                                   *)

(* Mutant: the limit is tested with <=. *)
LookOffByOne(t) ==
  /\ seen' = [seen EXCEPT ![t] = inFlight]
  /\ Goto(t, IF inFlight <= Limit THEN "reserve" ELSE "waitLock")
  /\ UNCHANGED <<inFlight, mutex, ran, owner, canceling>>

Look(t) ==
  /\ seen' = [seen EXCEPT ![t] = inFlight]
  /\ Goto(t, IF inFlight < Limit THEN "reserve" ELSE "waitLock")
  /\ UNCHANGED <<inFlight, mutex, ran, owner, canceling>>

LoadInFlight(t) == tpc[t] = "load" /\ Look(t)

(* Mutant: the counter is added to instead of exchanged. *)
ReserveBlind(t) ==
  /\ tpc[t] = "reserve"
  /\ inFlight' = inFlight + 1
  /\ ran' = ran \cup {t}
  /\ Goto(t, "running")
  /\ UNCHANGED <<mutex, seen, owner, canceling>>

(* The exchange succeeds and the function is called. *)
Reserve(t) ==
  /\ tpc[t] = "reserve"
  /\ inFlight = seen[t]
  /\ inFlight' = inFlight + 1
  /\ ran' = ran \cup {t}
  /\ Goto(t, "running")
  /\ UNCHANGED <<mutex, seen, owner, canceling>>

ReserveFails(t) == tpc[t] = "reserve" /\ Look(t)

(* The function returns, with or without an error: the defer runs. *)
FunctionReturns(t) ==
  /\ tpc[t] = "running"
  /\ Goto(t, "leaveLock")
  /\ UNCHANGED <<inFlight, mutex, seen, ran, owner, canceling>>

LeaveLock(t) ==
  /\ tpc[t] = "leaveLock"
  /\ Acquire(t)
  /\ Goto(t, "leave")
  /\ UNCHANGED <<inFlight, seen, ran, owner, canceling>>

Leave(t) ==
  /\ tpc[t] = "leave"
  /\ inFlight' = inFlight - 1
  /\ Goto(t, "signal")
  /\ UNCHANGED <<mutex, seen, ran, owner, canceling>>

(* Mutant: the slot is given back without a signal. *)
SignalNone(t) ==
  /\ tpc[t] = "signal"
  /\ Unlock
  /\ Goto(t, "done")
  /\ UNCHANGED <<inFlight, seen, ran, owner, canceling>>

(* cond.signal wakes one sleeper, if there is one; the defer unlocks. *)
Signal(t) ==
  /\ tpc[t] = "signal"
  /\ Unlock
  /\ IF Asleep = {} THEN Goto(t, "done")
     ELSE \E u \in Asleep : tpc' = [tpc EXCEPT ![t] = "done", ![u] = "relock"]
  /\ UNCHANGED <<inFlight, seen, ran, owner, canceling>>

(* The lock before the wait, and the one with which cond.wait ends.        *)
WaitLock(t) ==
  /\ tpc[t] \in {"waitLock", "relock"}
  /\ Acquire(t)
  /\ Goto(t, "waitCheck")
  /\ UNCHANGED <<inFlight, seen, ran, owner, canceling>>

(* Mutant: a sleeper is not woken up to look, it just runs on. *)
WaitCheckOnce(t) ==
  /\ tpc[t] = "waitCheck"
  /\ Unlock
  /\ Goto(t, IF inFlight < Limit THEN "load" ELSE "done")
  /\ UNCHANGED <<inFlight, seen, ran, owner, canceling>>

WaitCheck(t) ==
  /\ tpc[t] = "waitCheck"
  /\ Unlock
  /\ Goto(t, IF inFlight >= Limit THEN "asleep" ELSE "load")
  /\ UNCHANGED <<inFlight, seen, ran, owner, canceling>>

(* try mutex.lock, try cond.wait: the wrapper ends without its function. A *)
(* wait that was signalled is over: it takes the lock again uncancelably.  *)
CancelTask(t) ==
  /\ canceling
  /\ tpc[t] \in {"waitLock", "asleep"}
  /\ Goto(t, "done")
  /\ UNCHANGED <<inFlight, mutex, seen, ran, owner, canceling>>

TaskStep(t) ==
  \/ LoadInFlight(t) \/ Reserve(t) \/ ReserveFails(t) \/ FunctionReturns(t)
  \/ LeaveLock(t) \/ Leave(t) \/ Signal(t) \/ WaitLock(t) \/ WaitCheck(t)

Next ==
  \/ \E t \in Tasks : Spawn(t) \/ TaskStep(t) \/ CancelTask(t)
  \/ Await \/ AwaitReturns \/ RequestCancel

Spec == Init /\ [][Next]_vars

(* Spawned tasks are scheduled, functions return, and the weak exchange    *)
(* does not fail forever. The owner awaits what it spawned, and a cancel   *)
(* reaches every task of the group that waits.                             *)
Fairness ==
  /\ WF_vars(Await) /\ WF_vars(AwaitReturns)
  /\ \A t \in Tasks : WF_vars(TaskStep(t)) /\ SF_vars(Reserve(t)) /\ WF_vars(CancelTask(t))
FairSpec == Spec /\ Fairness

-----------------------------------------------------------------------------
(* Properties                                                              *)

Inside == {t \in Tasks : tpc[t] \in {"running", "leaveLock", "leave"}}
Running == {t \in Tasks : tpc[t] = "running"}

(* Never more than limit functions run at once.                            *)
WithinLimit == Cardinality(Running) <= Limit

(* When await returns without a cancel, every spawned function has been    *)
(* called and has returned: none is skipped by the limiter's waiting.      *)
AwaitMeansDone ==
  owner = "returned" =>
    \A t \in Tasks : tpc[t] # "new" =>
      tpc[t] = "done" /\ (canceling \/ t \in ran)

(* No wakeup is lost: while a task sleeps, every free slot is matched by a *)
(* task that will look at in_flight again, or one that is about to signal. *)
(* The tasks still queueing for the lock are not needed for it: a cancel   *)
(* may end them without a signal.                                          *)
Alert == {t \in Tasks : tpc[t] \in {"load", "reserve", "waitCheck", "relock", "signal"}}
NoLostWakeup == Asleep # {} => Limit <= inFlight + Cardinality(Alert)

(* The inductive invariant: in_flight is exactly the number of tasks from  *)
(* their exchange to their decrement, an exchange starts below the limit,  *)
(* and a task that is past its function, or done uncancelled, has run it.  *)
GroupInv ==
  /\ TypeOK
  /\ inFlight = Cardinality(Inside)
  /\ \A t \in Tasks :
       /\ tpc[t] = "reserve" => seen[t] < Limit
       /\ tpc[t] \in {"running", "leaveLock", "leave", "signal"} => t \in ran
       /\ tpc[t] = "done" => canceling \/ t \in ran
       /\ owner = "returned" => tpc[t] \in {"new", "done"}

(* Every load of a model that is awaited comes to its end.                 *)
AwaitEventuallyReturns == <>(owner = "returned")

=============================================================================
