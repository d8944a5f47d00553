------------------------- MODULE LoadPipelineProofs -------------------------
(***************************************************************************)
(* Proofs about LoadPipeline, for every set of tensors, number of devices, *)
(* size of shards and limits: what the loads keep and what PJRT still has  *)
(* to complete; hence that loads are never starved by each other as long   *)
(* as there is a block per concurrent load, and that the pools may be freed*)
(* after await.                                                            *)
(***************************************************************************)
EXTENDS LoadPipeline, FiniteSetTheorems, TLAPS

LEMMA TaskSets ==
  ASSUME NEW S \in SUBSET Tasks
  PROVE  IsFiniteSet(S) /\ Cardinality(S) \in Nat
BY FS_Subset, FS_CardinalityType, PipelineAssumption

(* A step that lets no task become active keeps the number within limits.  *)
LEMMA NoMoreActive ==
  ASSUME NEW S \in SUBSET Tasks, NEW T \in SUBSET S, Cardinality(S) <= Parallelism
  PROVE  Cardinality(T) <= Parallelism
<1>1. Cardinality(T) <= Cardinality(S)
  BY TaskSets, FS_Subset
<1> QED
  BY <1>1, TaskSets, PipelineAssumption

-----------------------------------------------------------------------------
LEMMA InitInv == Init => PipelineInv
<1> SUFFICES ASSUME Init PROVE PipelineInv
  OBVIOUS
<1>1. Active = {}
  BY DEF Init, Active
<1>2. Cardinality(Active) <= Parallelism
  BY <1>1, FS_EmptySet, PipelineAssumption
<1>3. TypeOK
  <2>1. 0 \in Devices /\ 0 \in 0 .. DeviceCount /\ 0 \in 0 .. Need
    BY PipelineAssumption DEF Devices
  <2>2. [d \in Devices |-> 0] \in [Devices -> 0 .. Need]
    BY <2>1
  <2> QED
    BY <2>1, <2>2 DEF Init, TypeOK
<1>4. ASSUME NEW t \in Tasks PROVE Honest(t)
  BY DEF Init, Honest
<1>5. Recent
  BY DEF Init, Recent
<1> QED
  BY <1>2, <1>3, <1>4, <1>5 DEF PipelineInv

(* The group admits a task only when fewer than Parallelism are active.    *)
LEMMA StepActive ==
  ASSUME PipelineInv, [Next]_vars
  PROVE  Cardinality(Active') <= Parallelism
<1> USE DEF PipelineInv, TypeOK
<1>0. Active \in SUBSET Tasks
  BY DEF Active
<1>1. ASSUME NEW t \in Tasks, Start(t) PROVE Cardinality(Active') <= Parallelism
  <2>1. Active' = Active \cup {t} /\ t \notin Active
    BY <1>1 DEF Start, Goto, Active
  <2>2. Cardinality(Active') = Cardinality(Active) + 1
    BY <1>0, <2>1, TaskSets, FS_AddElement
  <2>3. Cardinality(Active) < Parallelism /\ Cardinality(Active) \in Nat
    BY <1>0, <1>1, TaskSets DEF Start
  <2> QED
    BY <2>2, <2>3, PipelineAssumption
<1>2. ASSUME NEW t \in Tasks,
             InitGet(t) \/ WaitPrev(t) \/ WaitLast(t) \/ Get(t) \/ End(t) \/ Fail(t)
               \/ \E d \in Devices : Submit(t, d)
      PROVE  Active' \in SUBSET Active
  BY <1>2 DEF InitGet, WaitPrev, WaitLast, Get, End, Fail, Submit, Goto, Active
<1>3. ASSUME NEW l \in flying, Complete(l) PROVE Active' = Active
  BY <1>3 DEF Complete, Active
<1>4. ASSUME Finished \/ UNCHANGED vars PROVE Active' = Active
  BY <1>4 DEF Finished, vars, Active
<1> QED
  BY <1>0, <1>1, <1>2, <1>3, <1>4, NoMoreActive DEF Next, TaskStep

LEMMA StepType ==
  ASSUME PipelineInv, [Next]_vars
  PROVE  TypeOK'
<1> USE PipelineAssumption DEF PipelineInv, TypeOK, Devices
<1>1. ASSUME NEW t \in Tasks, Start(t) \/ WaitPrev(t) \/ WaitLast(t) \/ End(t) \/ Fail(t)
      PROVE  TypeOK'
  BY <1>1 DEF Start, WaitPrev, WaitLast, End, Fail, Goto
<1>2. ASSUME NEW t \in Tasks, InitGet(t) PROVE TypeOK'
  <2>1. cursor[t] \in Devices /\ cursor[t] + 1 \in 0 .. DeviceCount
    BY <1>2 DEF InitGet, Honest
  <2>2. holds' \in [Tasks -> SUBSET Devices] /\ cursor' \in [Tasks -> 0 .. DeviceCount]
    BY <1>2, <2>1 DEF InitGet
  <2>3. tpc' \in [Tasks -> {"queued", "init", "fill", "prev", "last", "get", "done", "failed"}]
    BY <1>2 DEF InitGet, Goto
  <2> QED
    BY <1>2, <2>2, <2>3 DEF InitGet
<1>3. ASSUME NEW t \in Tasks, NEW d \in Devices, Submit(t, d) PROVE TypeOK'
  <2>1. sent[t][d] < Need
    BY <1>3 DEF Submit, Honest
  <2>2. sent[t][d] + 1 \in 0 .. Need /\ sent[t][d] + 1 \in 1 .. Need
    BY <2>1
  <2>3. sent' \in [Tasks -> [Devices -> 0 .. Need]]
    BY <1>3, <2>2 DEF Submit
  <2>4. flying' \subseteq Tasks \X Devices \X (1 .. Need)
    BY <1>3, <2>2 DEF Submit
  <2>5. holds' \in [Tasks -> SUBSET Devices] /\ dev' \in [Tasks -> Devices]
    BY <1>3 DEF Submit
  <2> QED
    BY <1>3, <2>3, <2>4, <2>5 DEF Submit, Goto
<1>4. ASSUME NEW t \in Tasks, Get(t) PROVE TypeOK'
  BY <1>4 DEF Get, Goto
<1>5. ASSUME NEW l \in flying, Complete(l) PROVE TypeOK'
  BY <1>5 DEF Complete
<1>6. ASSUME Finished \/ UNCHANGED vars PROVE TypeOK'
  BY <1>6 DEF Finished, vars
<1> QED
  BY <1>1, <1>2, <1>3, <1>4, <1>5, <1>6 DEF Next, TaskStep

(* What a task keeps agrees with where it is; the other tasks do not touch *)
(* it.                                                                     *)
LEMMA StepHonest ==
  ASSUME PipelineInv, [Next]_vars, NEW u \in Tasks
  PROVE  Honest(u)'
<1> USE PipelineAssumption DEF PipelineInv, TypeOK, Devices
<1>0. Honest(u)
  OBVIOUS
<1>1. ASSUME UNCHANGED <<tpc[u], cursor[u], dev[u], holds[u], sent[u]>> PROVE Honest(u)'
  BY <1>0, <1>1 DEF Honest
<1>2. ASSUME NEW t \in Tasks, TaskStep(t) \/ Fail(t), t # u PROVE Honest(u)'
  <2>1. UNCHANGED <<tpc[u], cursor[u], dev[u], holds[u], sent[u]>>
    BY <1>2 DEF TaskStep, Start, InitGet, Submit, WaitPrev, WaitLast, Get, End, Fail, Goto
  <2> QED
    BY <1>1, <2>1
<1>3. ASSUME Start(u) PROVE Honest(u)'
  BY <1>0, <1>3 DEF Start, Goto, Honest
<1>4. ASSUME InitGet(u) PROVE Honest(u)'
  <2>1. cursor[u] < DeviceCount /\ holds[u] = 0 .. cursor[u] - 1 /\ \A d \in Devices : sent[u][d] = 0
    BY <1>0, <1>4 DEF InitGet, Honest
  <2>2. holds'[u] = 0 .. cursor'[u] - 1 /\ cursor'[u] = cursor[u] + 1
    BY <1>4, <2>1, SMTT(20) DEF InitGet
  <2>3. \A d \in holds'[u] : d \in Devices /\ sent'[u][d] < Need
    BY <1>4, <2>1, <2>2 DEF InitGet
  <2>4. tpc'[u] = IF cursor[u] + 1 = DeviceCount THEN "fill" ELSE "init"
    BY <1>4 DEF InitGet, Goto
  <2> QED
    BY <1>4, <2>1, <2>2, <2>3, <2>4 DEF InitGet, Honest
<1>5. ASSUME NEW d \in Devices, Submit(u, d) PROVE Honest(u)'
  <2>1. tpc'[u] = "prev" /\ dev'[u] = d /\ holds'[u] = holds[u] \ {d}
    BY <1>5 DEF Submit, Goto
  <2>2. sent'[u][d] > 0 /\ \A e \in Devices \ {d} : sent'[u][e] = sent[u][e]
    BY <1>5 DEF Submit
  <2> QED
    BY <1>0, <2>1, <2>2 DEF Honest
<1>6. ASSUME WaitPrev(u) PROVE Honest(u)'
  <2>1. sent[u][dev[u]] \in 0 .. Need
    OBVIOUS
  <2> QED
    BY <1>0, <1>6, <2>1 DEF WaitPrev, Goto, Honest
<1>7. ASSUME WaitLast(u) PROVE Honest(u)'
  BY <1>0, <1>7 DEF WaitLast, Goto, Honest
<1>8. ASSUME Get(u) PROVE Honest(u)'
  BY <1>0, <1>8 DEF Get, Goto, Honest
<1>9. ASSUME End(u) PROVE Honest(u)'
  BY <1>0, <1>9 DEF End, Goto, Honest
<1>10. ASSUME Fail(u) PROVE Honest(u)'
  BY <1>0, <1>10 DEF Fail, Goto, Honest
<1>11. ASSUME NEW l \in flying, Complete(l) PROVE Honest(u)'
  BY <1>1, <1>11 DEF Complete
<1>12. ASSUME Finished \/ UNCHANGED vars PROVE Honest(u)'
  BY <1>1, <1>12 DEF Finished, vars
<1> QED
  BY <1>2, <1>3, <1>4, <1>5, <1>6, <1>7, <1>8, <1>9, <1>10, <1>11, <1>12 DEF Next, TaskStep

(* A writer waits for its transfer before last, so that only the newest is *)
(* left when it goes on, and none of a complete shard.                     *)
RecentAt(l) ==
  LET n == sent[l[1]][l[2]]
      flushing == dev[l[1]] = l[2] /\ tpc[l[1]] \in {"prev", "last"}
  IN tpc[l[1]] # "failed" =>
       /\ l[3] = n \/ (l[3] = n - 1 /\ flushing)
       /\ l[3] = Need => flushing
       /\ (tpc[l[1]] = "last" /\ dev[l[1]] = l[2]) => l[3] = Need

LEMMA StepRecent ==
  ASSUME PipelineInv, [Next]_vars
  PROVE  Recent'
<1> USE PipelineAssumption DEF PipelineInv, TypeOK
<1>0. Recent <=> \A l \in flying : RecentAt(l)
  BY DEF Recent, RecentAt
<1>00. Recent' <=> \A l \in flying' : RecentAt(l)'
  BY DEF Recent, RecentAt
<1> SUFFICES ASSUME NEW l \in flying' PROVE RecentAt(l)'
  BY <1>00
<1>1. ASSUME l \in flying, UNCHANGED <<tpc[l[1]], dev[l[1]], sent[l[1]]>> PROVE RecentAt(l)'
  BY <1>0, <1>1 DEF RecentAt
<1>2. ASSUME NEW t \in Tasks, TaskStep(t) \/ Fail(t), l \in flying, t # l[1] PROVE RecentAt(l)'
  <2>1. UNCHANGED <<tpc[l[1]], dev[l[1]], sent[l[1]]>>
    BY <1>2 DEF TaskStep, Start, InitGet, Submit, WaitPrev, WaitLast, Get, End, Fail, Goto
  <2> QED
    BY <1>1, <1>2, <2>1
<1>3. ASSUME NEW t \in Tasks, NEW d \in Devices, Submit(t, d), t = l[1] PROVE RecentAt(l)'
  <2>1. tpc'[t] = "prev" /\ dev'[t] = d /\ tpc[t] = "fill"
    BY <1>3 DEF Submit, Goto
  <2>2. sent'[t][d] = sent[t][d] + 1 /\ \A e \in Devices \ {d} : sent'[t][e] = sent[t][e]
    BY <1>3 DEF Submit
  <2>3. CASE l = <<t, d, sent[t][d] + 1>>
    BY <2>1, <2>2, <2>3 DEF RecentAt
  <2>4. CASE l \in flying
    <3>1. RecentAt(l) /\ l[2] \in Devices
      BY <1>0, <2>4
    <3>2. l[3] = sent[t][l[2]] /\ l[3] # Need
      BY <1>3, <2>1, <3>1 DEF RecentAt
    <3>0. sent[t][d] \in 0 .. Need
      OBVIOUS
    <3>3. CASE l[2] = d
      <4>1. l[3] = sent'[t][d] - 1
        BY <2>2, <3>0, <3>2, <3>3
      <4> QED
        BY <1>3, <2>1, <3>3, <4>1 DEF RecentAt
    <3>4. CASE l[2] # d
      BY <1>3, <2>1, <2>2, <3>1, <3>2, <3>4 DEF RecentAt
    <3> QED
      BY <3>3, <3>4
  <2> QED
    BY <1>3, <2>3, <2>4 DEF Submit
<1>4. ASSUME l \in flying, Start(l[1]) \/ InitGet(l[1]) PROVE FALSE
  <2>1. RecentAt(l) /\ l[1] \in Tasks /\ l[2] \in Devices /\ l[3] \in 1 .. Need
    BY <1>0, <1>4
  <2>2. Honest(l[1])
    BY <2>1
  <2>3. sent[l[1]][l[2]] = 0 /\ tpc[l[1]] \in {"queued", "init"}
    BY <1>4, <2>1, <2>2 DEF Honest, Start, InitGet
  <2> QED
    BY <2>1, <2>3 DEF RecentAt
<1>5. ASSUME l \in flying, WaitPrev(l[1]) PROVE RecentAt(l)'
  <2>1. RecentAt(l) /\ l = <<l[1], l[2], l[3]>> /\ l[1] \in Tasks
    BY <1>0, <1>5
  <2>2. l[2] = dev[l[1]] => l[3] # sent[l[1]][l[2]] - 1
    BY <1>5, <2>1 DEF WaitPrev
  <2>3. tpc'[l[1]] = IF sent[l[1]][dev[l[1]]] = Need THEN "last" ELSE "get"
    BY <1>5, <2>1 DEF WaitPrev, Goto
  <2>4. UNCHANGED <<dev, sent>> /\ tpc[l[1]] = "prev"
    BY <1>5 DEF WaitPrev
  <2>5. l[3] = sent[l[1]][l[2]]
    BY <2>1, <2>2, <2>4 DEF RecentAt
  <2>6. CASE l[2] = dev[l[1]]
    BY <2>3, <2>4, <2>5, <2>6 DEF RecentAt
  <2>7. CASE l[2] # dev[l[1]]
    <3>1. l[3] # Need
      BY <2>1, <2>4, <2>7 DEF RecentAt
    <3> QED
      BY <2>3, <2>4, <2>5, <2>7, <3>1 DEF RecentAt
  <2> QED
    BY <2>6, <2>7
<1>6. ASSUME l \in flying, WaitLast(l[1]) PROVE RecentAt(l)'
  <2>1. RecentAt(l) /\ l = <<l[1], l[2], l[3]>> /\ l[1] \in Tasks /\ Honest(l[1])
    BY <1>0, <1>6
  <2>2. ASSUME l[2] = dev[l[1]] PROVE FALSE
    <3>1. tpc[l[1]] = "last" /\ <<l[1], dev[l[1]], sent[l[1]][dev[l[1]]]>> \notin flying
      BY <1>6 DEF WaitLast
    <3>2. l[3] = Need
      BY <2>1, <2>2, <3>1 DEF RecentAt
    <3>3. sent[l[1]][dev[l[1]]] = Need
      BY <2>1, <3>1 DEF Honest
    <3>4. l = <<l[1], dev[l[1]], sent[l[1]][dev[l[1]]]>>
      BY <2>1, <2>2, <3>2, <3>3
    <3> QED
      BY <1>6, <3>1, <3>4
  <2>3. tpc'[l[1]] = "fill"
    BY <1>6, <2>1 DEF WaitLast, Goto
  <2> QED
    BY <1>6, <2>1, <2>2, <2>3 DEF RecentAt, WaitLast
<1>7. ASSUME l \in flying, Get(l[1]) PROVE RecentAt(l)'
  <2>1. RecentAt(l) /\ l[1] \in Tasks
    BY <1>0, <1>7
  <2>2. tpc'[l[1]] = "fill"
    BY <1>7, <2>1 DEF Get, Goto
  <2> QED
    BY <1>7, <2>1, <2>2 DEF RecentAt, Get
<1>8. ASSUME l \in flying, End(l[1]) PROVE FALSE
  <2>1. RecentAt(l) /\ l[2] \in Devices
    BY <1>0, <1>8
  <2> QED
    BY <1>8, <2>1 DEF RecentAt, End
<1>9. ASSUME l \in flying, Fail(l[1]) PROVE RecentAt(l)'
  <2>1. l[1] \in Tasks
    BY <1>9
  <2>2. tpc'[l[1]] = "failed"
    BY <1>9, <2>1 DEF Fail, Goto
  <2> QED
    BY <2>2 DEF RecentAt
<1>10. ASSUME NEW m \in flying, Complete(m) PROVE RecentAt(l)'
  BY <1>1, <1>10 DEF Complete
<1>11. ASSUME Finished \/ UNCHANGED vars PROVE RecentAt(l)'
  BY <1>1, <1>11 DEF Finished, vars
<1>12. ASSUME NEW t \in Tasks, TaskStep(t) \/ Fail(t) PROVE RecentAt(l)'
  <2>1. CASE l \in flying
    BY <1>2, <1>3, <1>4, <1>5, <1>6, <1>7, <1>8, <1>9, <1>12, <2>1 DEF TaskStep
  <2>2. CASE l \notin flying
    <3>1. PICK d \in Devices : Submit(t, d)
      BY <1>12, <2>2 DEF TaskStep, Start, InitGet, WaitPrev, WaitLast, Get, End, Fail
    <3>2. l[1] = t
      BY <2>2, <3>1 DEF Submit
    <3> QED
      BY <1>3, <3>1, <3>2
  <2> QED
    BY <2>1, <2>2
<1> QED
  BY <1>10, <1>11, <1>12 DEF Next

-----------------------------------------------------------------------------
(* The invariant holds, failures included.                                 *)
THEOREM PipelineInvariant == Spec => []PipelineInv
<1>1. Init => PipelineInv
  BY InitInv
<1>2. PipelineInv /\ [Next]_vars => PipelineInv'
  BY StepActive, StepType, StepHonest, StepRecent DEF PipelineInv
<1> QED
  BY <1>1, <1>2, PTL DEF Spec

(* With a block per concurrent load, the loads never starve each other:    *)
(* those that keep a block of the device a load waits for are active and   *)
(* not that load, so they are fewer than Parallelism.                      *)
THEOREM NoStarvation == ASSUME EnoughChunks PROVE Spec => []NeverStarved
<1>1. ASSUME PipelineInv PROVE NeverStarved
  <2> USE <1>1, PipelineAssumption DEF PipelineInv, TypeOK
  <2> SUFFICES ASSUME NEW t \in Tasks, NEW d \in Devices, Failed = {}, Waiting(t, d)
               PROVE  Cardinality(Holders(d)) < DmaChunks
    BY DEF NeverStarved
  <2>1. t \in Active /\ Active \in SUBSET Tasks
    BY DEF Waiting, Active
  <2>2. t \notin Holders(d)
    <3>1. Honest(t)
      OBVIOUS
    <3>2. CASE tpc[t] = "init" /\ cursor[t] = d
      BY <3>1, <3>2 DEF Honest, Holders, Devices
    <3>3. CASE tpc[t] = "get" /\ dev[t] = d
      BY <3>1, <3>3 DEF Honest, Holders
    <3> QED
      BY <3>2, <3>3 DEF Waiting
  <2>3. ASSUME NEW u \in Holders(d) PROVE u \in Active
    <3>1. u \in Tasks /\ d \in holds[u] /\ Honest(u)
      BY DEF Holders
    <3>2. tpc[u] # "queued" /\ tpc[u] # "done" /\ tpc[u] # "failed"
      BY <3>1 DEF Honest, Failed
    <3> QED
      BY <3>1, <3>2 DEF Active
  <2>4. Holders(d) \in SUBSET (Active \ {t})
    BY <2>2, <2>3
  <2>5. /\ Cardinality(Active \ {t}) = Cardinality(Active) - 1
        /\ IsFiniteSet(Active \ {t})
    BY <2>1, TaskSets, FS_RemoveElement
  <2>6. Cardinality(Holders(d)) <= Cardinality(Active \ {t})
    BY <2>4, <2>5, FS_Subset
  <2>7. Cardinality(Holders(d)) \in Nat /\ Cardinality(Active) \in Nat
    BY <2>1, TaskSets DEF Holders
  <2> QED
    BY <2>5, <2>6, <2>7, EnoughChunks DEF EnoughChunks
<1> QED
  BY <1>1, PipelineInvariant, PTL

(* After the last load nothing reads the pinned memory any more.           *)
THEOREM DeinitIsSafe == Spec => []DeinitSafe
<1>1. ASSUME PipelineInv, \A t \in Tasks : tpc[t] = "done"
      PROVE  flying = {} /\ \A t \in Tasks : holds[t] = {}
  <2> USE <1>1, PipelineAssumption DEF PipelineInv, TypeOK
  <2>1. ASSUME NEW l \in flying PROVE FALSE
    <3>1. l[1] \in Tasks /\ l[2] \in Devices /\ Honest(l[1])
      BY <2>1
    <3>2. sent[l[1]][l[2]] = Need
      BY <3>1 DEF Honest
    <3>3. l[3] = Need
      BY <2>1, <3>1, <3>2 DEF Recent
    <3> QED
      BY <2>1, <3>1, <3>3 DEF Recent
  <2>2. ASSUME NEW t \in Tasks, NEW d \in holds[t] PROVE FALSE
    <3>1. Honest(t) /\ d \in Devices
      BY <2>2
    <3> QED
      BY <2>2, <3>1 DEF Honest
  <2> QED
    BY <2>1, <2>2
<1>2. PipelineInv => DeinitSafe
  BY <1>1 DEF DeinitSafe
<1> QED
  BY <1>2, PipelineInvariant, PTL

=============================================================================
