------------------------- MODULE LimitedGroupProofs -------------------------
(***************************************************************************)
(* Proofs about LimitedGroup, for every finite set of tasks and every      *)
(* limit: the limit holds, await means done, and no wakeup is lost.        *)
(***************************************************************************)
EXTENDS LimitedGroup, FiniteSetTheorems, TLAPS

(* Every set of tasks is finite and has a natural size.                    *)
LEMMA TaskSets ==
  ASSUME NEW S \in SUBSET Tasks
  PROVE  IsFiniteSet(S) /\ Cardinality(S) \in Nat
BY FS_Subset, FS_CardinalityType, GroupAssumption

(* What one task more or less does to the size of a set of tasks.          *)
LEMMA OneMore ==
  ASSUME NEW S \in SUBSET Tasks, NEW t \in Tasks, t \notin S
  PROVE  Cardinality(S \cup {t}) = Cardinality(S) + 1
BY TaskSets, FS_AddElement

LEMMA OneLess ==
  ASSUME NEW S \in SUBSET Tasks, NEW t \in S
  PROVE  Cardinality(S \ {t}) = Cardinality(S) - 1
BY TaskSets, FS_RemoveElement

(* A set that gains at most the task t and loses none is not smaller.      *)
LEMMA NoSmaller ==
  ASSUME NEW S \in SUBSET Tasks, NEW T \in SUBSET Tasks, S \subseteq T
  PROVE  Cardinality(S) <= Cardinality(T)
BY TaskSets, FS_Subset

-----------------------------------------------------------------------------
LEMMA InitInv == Init => GroupInv /\ NoLostWakeup
<1> SUFFICES ASSUME Init PROVE GroupInv /\ NoLostWakeup
  OBVIOUS
<1>1. Inside = {} /\ Asleep = {}
  BY DEF Init, Inside, Asleep
<1>2. Cardinality(Inside) = 0
  BY <1>1, FS_EmptySet
<1>3. TypeOK
  <2>1. 0 \in 0 .. Limit
    BY GroupAssumption
  <2>2. seen \in [Tasks -> 0 .. Limit]
    BY <2>1 DEF Init
  <2>3. tpc \in [Tasks -> Labels]
    BY DEF Init, Labels
  <2> QED
    BY <2>1, <2>2, <2>3 DEF Init, TypeOK
<1>4. NoLostWakeup
  BY <1>1 DEF NoLostWakeup
<1> QED
  BY <1>2, <1>3, <1>4 DEF Init, GroupInv

(* A step that leaves the running tasks alone keeps the invariant: the     *)
(* conjuncts that are left are local to the task that moves.               *)
LEMMA StepInv ==
  ASSUME GroupInv, [Next]_vars
  PROVE  GroupInv'
<1> USE GroupAssumption DEF GroupInv, TypeOK, Labels
<1>1. ASSUME NEW t \in Tasks, Spawn(t) PROVE GroupInv'
  <2>1. Inside' = Inside
    BY <1>1 DEF Spawn, Goto, Inside
  <2> QED
    BY <1>1, <2>1 DEF Spawn, Goto
<1>2. ASSUME NEW t \in Tasks, tpc[t] \in {"load", "reserve"}, Look(t) PROVE GroupInv'
  <2>1. Inside' = Inside
    BY <1>2 DEF Look, Goto, Inside
  <2> QED
    BY <1>2, <2>1 DEF Look, Goto
<1>3. ASSUME NEW t \in Tasks, Reserve(t) PROVE GroupInv'
  <2>1. Inside' = Inside \cup {t} /\ t \notin Inside
    BY <1>3 DEF Reserve, Goto, Inside
  <2>2. Cardinality(Inside') = Cardinality(Inside) + 1
    BY <2>1, OneMore DEF Inside
  <2>3. inFlight < Limit
    BY <1>3 DEF Reserve
  <2>4. TypeOK'
    BY <1>3, <2>3 DEF Reserve, Goto
  <2>5. inFlight' = Cardinality(Inside')
    BY <1>3, <2>2 DEF Reserve
  <2> QED
    BY <1>3, <2>4, <2>5 DEF Reserve, Goto
<1>4. ASSUME NEW t \in Tasks, FunctionReturns(t) PROVE GroupInv'
  <2>1. Inside' = Inside
    BY <1>4 DEF FunctionReturns, Goto, Inside
  <2> QED
    BY <1>4, <2>1 DEF FunctionReturns, Goto
<1>5. ASSUME NEW t \in Tasks, LeaveLock(t) PROVE GroupInv'
  <2>1. Inside' = Inside
    BY <1>5 DEF LeaveLock, Goto, Inside
  <2> QED
    BY <1>5, <2>1 DEF LeaveLock, Goto, Acquire
<1>6. ASSUME NEW t \in Tasks, Leave(t) PROVE GroupInv'
  <2>1. Inside' = Inside \ {t} /\ t \in Inside
    BY <1>6 DEF Leave, Goto, Inside
  <2>2. Cardinality(Inside') = Cardinality(Inside) - 1 /\ Cardinality(Inside') \in Nat
    BY <2>1, OneLess, TaskSets DEF Inside
  <2> QED
    BY <1>6, <2>2 DEF Leave, Goto
<1>7. ASSUME NEW t \in Tasks, Signal(t) PROVE GroupInv'
  <2>1. Inside' = Inside
    BY <1>7 DEF Signal, Goto, Inside, Asleep
  <2>2. TypeOK'
    BY <1>7 DEF Signal, Goto, Unlock, Asleep
  <2> QED
    BY <1>7, <2>1, <2>2 DEF Signal, Goto, Asleep
<1>8. ASSUME NEW t \in Tasks, WaitLock(t) PROVE GroupInv'
  <2>1. Inside' = Inside
    BY <1>8 DEF WaitLock, Goto, Inside
  <2> QED
    BY <1>8, <2>1 DEF WaitLock, Goto, Acquire
<1>9. ASSUME NEW t \in Tasks, WaitCheck(t) PROVE GroupInv'
  <2>1. Inside' = Inside
    BY <1>9 DEF WaitCheck, Goto, Inside
  <2> QED
    BY <1>9, <2>1 DEF WaitCheck, Goto, Unlock
<1>10. ASSUME NEW t \in Tasks, CancelTask(t) PROVE GroupInv'
  <2>1. Inside' = Inside
    BY <1>10 DEF CancelTask, Goto, Inside
  <2> QED
    BY <1>10, <2>1 DEF CancelTask, Goto
<1>11. ASSUME Await \/ AwaitReturns \/ RequestCancel PROVE GroupInv'
  <2>1. Inside' = Inside
    BY <1>11 DEF Await, AwaitReturns, RequestCancel, Inside
  <2> QED
    BY <1>11, <2>1 DEF Await, AwaitReturns, RequestCancel
<1>12. ASSUME UNCHANGED vars PROVE GroupInv'
  BY <1>12 DEF vars, Inside
<1> QED
  BY <1>1, <1>2, <1>3, <1>4, <1>5, <1>6, <1>7, <1>8, <1>9, <1>10, <1>11, <1>12
     DEF Next, TaskStep, LoadInFlight, ReserveFails

-----------------------------------------------------------------------------
(* A sleeper is woken by a signal only, so if someone sleeps after a step, *)
(* the step keeps every free slot matched.                                 *)
LEMMA StepWakeup ==
  ASSUME GroupInv, NoLostWakeup, [Next]_vars
  PROVE  NoLostWakeup'
<1> USE GroupAssumption DEF GroupInv, TypeOK, Labels
<1>0. Cardinality(Alert) \in Nat /\ Cardinality(Alert') \in Nat /\ inFlight \in Nat
  BY TaskSets DEF Alert
<1>1. ASSUME UNCHANGED inFlight, Asleep' # {} => Asleep # {}, Alert \subseteq Alert'
      PROVE  NoLostWakeup'
  <2>1. Cardinality(Alert) <= Cardinality(Alert')
    BY <1>1, NoSmaller DEF Alert
  <2> QED
    BY <1>0, <1>1, <2>1 DEF NoLostWakeup
<1>2. ASSUME inFlight' = Limit PROVE NoLostWakeup'
  BY <1>0, <1>2 DEF NoLostWakeup
<1>3. ASSUME NEW t \in Tasks, Spawn(t) \/ FunctionReturns(t) \/ LeaveLock(t) \/ WaitLock(t)
      PROVE  NoLostWakeup'
  <2>1. UNCHANGED inFlight /\ (Asleep' # {} => Asleep # {}) /\ Alert \subseteq Alert'
    BY <1>3 DEF Spawn, FunctionReturns, LeaveLock, WaitLock, Goto, Asleep, Alert
  <2> QED
    BY <1>1, <2>1
<1>4. ASSUME NEW t \in Tasks, tpc[t] \in {"load", "reserve"}, Look(t) PROVE NoLostWakeup'
  <2>1. CASE inFlight < Limit
    <3>1. UNCHANGED inFlight /\ (Asleep' # {} => Asleep # {}) /\ Alert \subseteq Alert'
      BY <1>4, <2>1 DEF Look, Goto, Asleep, Alert
    <3> QED
      BY <1>1, <3>1
  <2>2. CASE inFlight = Limit
    BY <1>2, <1>4, <2>2 DEF Look
  <2> QED
    BY <2>1, <2>2
<1>5. ASSUME NEW t \in Tasks, Reserve(t) PROVE NoLostWakeup'
  <2>1. Alert' = Alert \ {t} /\ t \in Alert /\ Asleep' = Asleep
    BY <1>5 DEF Reserve, Goto, Alert, Asleep
  <2>2. Cardinality(Alert') = Cardinality(Alert) - 1
    BY <2>1, OneLess DEF Alert
  <2>3. inFlight' = inFlight + 1
    BY <1>5 DEF Reserve
  <2> QED
    BY <1>0, <2>1, <2>2, <2>3 DEF NoLostWakeup
<1>6. ASSUME NEW t \in Tasks, Leave(t) PROVE NoLostWakeup'
  <2>1. Alert' = Alert \cup {t} /\ t \notin Alert /\ Asleep' = Asleep
    BY <1>6 DEF Leave, Goto, Alert, Asleep
  <2>2. Cardinality(Alert') = Cardinality(Alert) + 1
    BY <2>1, OneMore DEF Alert
  <2>3. inFlight' = inFlight - 1
    BY <1>6 DEF Leave
  <2> QED
    BY <1>0, <2>1, <2>2, <2>3 DEF NoLostWakeup
<1>7. ASSUME NEW t \in Tasks, Signal(t) PROVE NoLostWakeup'
  <2>1. CASE Asleep = {}
    <3>1. Asleep' = {}
      BY <1>7, <2>1 DEF Signal, Goto, Asleep
    <3> QED
      BY <3>1 DEF NoLostWakeup
  <2>2. CASE Asleep # {}
    <3>1. PICK u \in Asleep : tpc' = [tpc EXCEPT ![t] = "done", ![u] = "relock"]
      BY <1>7, <2>2 DEF Signal
    <3>2. t \in Alert /\ u \in Tasks /\ u \notin Alert /\ tpc[t] = "signal" /\ tpc[u] = "asleep"
      BY <1>7, <3>1 DEF Signal, Asleep, Alert
    <3>3. Alert' = (Alert \ {t}) \cup {u}
      BY <3>1, <3>2 DEF Alert
    <3>4. Cardinality(Alert \ {t}) = Cardinality(Alert) - 1
      BY <3>2, OneLess DEF Alert
    <3>5. Cardinality(Alert') = Cardinality(Alert \ {t}) + 1
      BY <3>2, <3>3, OneMore DEF Alert
    <3>6. inFlight' = inFlight
      BY <1>7 DEF Signal
    <3> QED
      BY <1>0, <2>2, <3>4, <3>5, <3>6 DEF NoLostWakeup
  <2> QED
    BY <2>1, <2>2
<1>8. ASSUME NEW t \in Tasks, WaitCheck(t) PROVE NoLostWakeup'
  <2>1. CASE inFlight < Limit
    <3>1. UNCHANGED inFlight /\ (Asleep' # {} => Asleep # {}) /\ Alert \subseteq Alert'
      BY <1>8, <2>1 DEF WaitCheck, Goto, Asleep, Alert
    <3> QED
      BY <1>1, <3>1
  <2>2. CASE inFlight = Limit
    BY <1>2, <1>8, <2>2 DEF WaitCheck
  <2> QED
    BY <2>1, <2>2
<1>9. ASSUME NEW t \in Tasks, CancelTask(t) PROVE NoLostWakeup'
  <2>1. UNCHANGED inFlight /\ (Asleep' # {} => Asleep # {}) /\ Alert \subseteq Alert'
    BY <1>9 DEF CancelTask, Goto, Asleep, Alert
  <2> QED
    BY <1>1, <2>1
<1>10. ASSUME Await \/ AwaitReturns \/ RequestCancel \/ UNCHANGED vars PROVE NoLostWakeup'
  BY <1>10 DEF Await, AwaitReturns, RequestCancel, vars, NoLostWakeup, Asleep, Alert
<1> QED
  BY <1>3, <1>4, <1>5, <1>6, <1>7, <1>8, <1>9, <1>10
     DEF Next, TaskStep, LoadInFlight, ReserveFails

-----------------------------------------------------------------------------
(* The invariant holds, whatever the tasks and the limit.                  *)
THEOREM GroupInvariant == Spec => []GroupInv
<1>1. Init => GroupInv
  BY InitInv
<1>2. GroupInv /\ [Next]_vars => GroupInv'
  BY StepInv
<1> QED
  BY <1>1, <1>2, PTL DEF Spec

(* No more than limit of the loads run at once.                            *)
THEOREM LimitHolds == Spec => []WithinLimit
<1>1. GroupInv => WithinLimit
  <2> SUFFICES ASSUME GroupInv PROVE WithinLimit
    OBVIOUS
  <2>1. Running \in SUBSET Tasks /\ Inside \in SUBSET Tasks /\ Running \subseteq Inside
    BY DEF Running, Inside
  <2>2. Cardinality(Running) <= Cardinality(Inside)
    BY <2>1, NoSmaller
  <2>3. Cardinality(Running) \in Nat /\ Cardinality(Inside) \in Nat
    BY <2>1, TaskSets
  <2> QED
    BY <2>2, <2>3, GroupAssumption DEF GroupInv, TypeOK, WithinLimit
<1> QED
  BY <1>1, GroupInvariant, PTL

(* When await returns uncancelled, every spawned load has run.             *)
THEOREM AwaitIsDone == Spec => []AwaitMeansDone
<1>1. GroupInv => AwaitMeansDone
  BY DEF GroupInv, AwaitMeansDone
<1> QED
  BY <1>1, GroupInvariant, PTL

(* A free slot is never left to sleepers alone.                            *)
THEOREM NoWakeupLost == Spec => []NoLostWakeup
<1>1. Init => NoLostWakeup
  BY InitInv
<1>2. GroupInv /\ NoLostWakeup /\ [Next]_vars => NoLostWakeup'
  BY StepWakeup
<1> QED
  BY <1>1, <1>2, GroupInvariant, PTL DEF Spec

=============================================================================
