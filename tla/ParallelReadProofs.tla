------------------------- MODULE ParallelReadProofs -------------------------
(***************************************************************************)
(* Proofs about ParallelRead, for every set of readers and workers, every  *)
(* size of file, chunk and queue, and every request: no job outlives its   *)
(* batch, no reader sleeps without someone to wake it, and a read that     *)
(* returns without an error has put the file's bytes into its buffers.     *)
(***************************************************************************)
EXTENDS ParallelRead, FiniteSetTheorems, TLAPS

-----------------------------------------------------------------------------
(* Induction, over sets of numbers                                         *)

(* A set of numbers that is not empty has a least.                         *)
LEMMA LeastNumber ==
  ASSUME NEW T \in SUBSET Nat, T # {}
  PROVE  \E x \in T : \A y \in T : x <= y
<1>1. IsWellFoundedOn({ss \in Nat \X Nat : ss[1] < ss[2]}, Nat)
  BY NatLessThanWellFounded, Zenon DEF OpToRel
<1>2. PICK x \in T : \A y \in T : <<y, x>> \notin {ss \in Nat \X Nat : ss[1] < ss[2]}
  BY <1>1, WFMin, Zenon
<1>3. \A y \in T : ~(y < x) /\ y \in Nat /\ x \in Nat
  BY <1>2
<1> QED
  BY <1>3

(* What holds at 0 and at the next number holds up to N.                   *)
LEMMA InductionUpTo ==
  ASSUME NEW N \in Nat, NEW S, 0 \in S, \A n \in 0 .. N - 1 : n \in S => n + 1 \in S
  PROVE  0 .. N \subseteq S
<1>1. SUFFICES ASSUME (0 .. N) \ S # {} PROVE FALSE
  OBVIOUS
<1>2. PICK m \in (0 .. N) \ S : \A y \in (0 .. N) \ S : m <= y
  <2>1. (0 .. N) \ S \in SUBSET Nat
    OBVIOUS
  <2> QED
    BY <1>1, <2>1, LeastNumber
<1>3. m # 0
  BY <1>2
<1>4. m - 1 \in 0 .. N - 1 /\ m - 1 \in S
  BY <1>2, <1>3
<1> QED
  BY <1>2, <1>4

-----------------------------------------------------------------------------
(* What is read                                                            *)

(* The recursive functions of the model are functions.                     *)
LEMMA SumExists ==
  ASSUME NEW N \in Nat, NEW s
  PROVE  \E h : h = [n \in 0 .. N |-> IF n = 0 THEN 0 ELSE h[n - 1] + s[n]]
<1> DEFINE S == {m \in Nat : \E h : h = [n \in 0 .. m |-> IF n = 0 THEN 0 ELSE h[n - 1] + s[n]]}
<1>1. 0 \in S
  <2> DEFINE h == [n \in 0 .. 0 |-> 0]
  <2>1. h = [n \in 0 .. 0 |-> IF n = 0 THEN 0 ELSE h[n - 1] + s[n]]
    OBVIOUS
  <2> QED
    BY <2>1
<1>2. ASSUME NEW m \in 0 .. N - 1, m \in S PROVE m + 1 \in S
  <2>1. PICK h : h = [n \in 0 .. m |-> IF n = 0 THEN 0 ELSE h[n - 1] + s[n]]
    BY <1>2
  <2> DEFINE g == [n \in 0 .. m + 1 |-> IF n = m + 1 THEN h[m] + s[m + 1] ELSE h[n]]
  <2>2. ASSUME NEW n \in 0 .. m + 1
        PROVE  g[n] = IF n = 0 THEN 0 ELSE g[n - 1] + s[n]
    <3>1. CASE n = m + 1
      BY <3>1
    <3>2. CASE n # m + 1 /\ n = 0
      BY <2>1, <3>2
    <3>3. CASE n # m + 1 /\ n # 0
      <4>1. n \in 0 .. m /\ n - 1 \in 0 .. m
        BY <3>3
      <4>2. g[n] = h[n] /\ g[n - 1] = h[n - 1]
        BY <3>3, <4>1
      <4> QED
        BY <2>1, <3>3, <4>1, <4>2
    <3> QED
      BY <3>1, <3>2, <3>3
  <2>3. g = [n \in 0 .. m + 1 |-> IF n = 0 THEN 0 ELSE g[n - 1] + s[n]]
    BY <2>2
  <2>4. \E f : f = [n \in 0 .. m + 1 |-> IF n = 0 THEN 0 ELSE f[n - 1] + s[n]]
    BY <2>3
  <2>5. m + 1 \in Nat
    OBVIOUS
  <2> QED
    BY <2>4, <2>5
<1> HIDE DEF S
<1>3. 0 .. N \subseteq S /\ N \in 0 .. N
  BY <1>1, <1>2, InductionUpTo
<1>4. N \in S
  BY <1>3
<1> QED
  BY <1>4 DEF S

LEMMA HeldRecursion ==
  ASSUME NEW q \in Requests
  PROVE  /\ Len(q.buffers) \in Nat /\ DOMAIN q.buffers = 1 .. Len(q.buffers)
         /\ \A b \in DOMAIN q.buffers : q.buffers[b] \in Nat
         /\ Held(q) = [n \in 0 .. Len(q.buffers) |->
                         IF n = 0 THEN 0 ELSE Held(q)[n - 1] + q.buffers[n]]
<1>1. q.buffers \in Seq(Nat)
  BY ReadAssumption
<1>2. Len(q.buffers) \in Nat /\ DOMAIN q.buffers = 1 .. Len(q.buffers)
  BY <1>1
<1>3. \E h : h = [n \in 0 .. Len(q.buffers) |-> IF n = 0 THEN 0 ELSE h[n - 1] + q.buffers[n]]
  BY <1>2, SumExists
<1>4. Held(q) = CHOOSE h : h = [n \in 0 .. Len(q.buffers) |->
                                  IF n = 0 THEN 0 ELSE h[n - 1] + q.buffers[n]]
  BY DEF Held
<1>5. Held(q) = [n \in 0 .. Len(q.buffers) |->
                   IF n = 0 THEN 0 ELSE Held(q)[n - 1] + q.buffers[n]]
  BY <1>3, <1>4
<1>6. \A b \in DOMAIN q.buffers : q.buffers[b] \in Nat
  BY <1>1
<1> QED
  BY <1>2, <1>5, <1>6

LEMMA HeldFacts ==
  ASSUME NEW q \in Requests
  PROVE  /\ \A n \in 0 .. Len(q.buffers) : Held(q)[n] \in Nat
         /\ Held(q)[0] = 0
         /\ \A n \in 1 .. Len(q.buffers) : Held(q)[n] = Held(q)[n - 1] + q.buffers[n]
<1> DEFINE N == Len(q.buffers)
           H == Held(q)
           S == {n \in 0 .. N : H[n] \in Nat}
<1>1. N \in Nat /\ \A n \in 1 .. N : q.buffers[n] \in Nat
  BY HeldRecursion
<1>2. H = [n \in 0 .. N |-> IF n = 0 THEN 0 ELSE H[n - 1] + q.buffers[n]]
  BY HeldRecursion
<1> HIDE DEF H
<1>3. H[0] = 0 /\ \A n \in 1 .. N : H[n] = H[n - 1] + q.buffers[n]
  BY <1>1, <1>2
<1>4. 0 \in S
  BY <1>1, <1>3
<1>5. ASSUME NEW n \in 0 .. N - 1, n \in S PROVE n + 1 \in S
  <2>1. n + 1 \in 1 .. N
    BY <1>1
  <2>2. H[n + 1] = H[n] + q.buffers[n + 1]
    BY <1>3, <2>1
  <2> QED
    BY <1>1, <1>5, <2>1, <2>2
<1>6. 0 .. N \subseteq S
  BY <1>1, <1>4, <1>5, InductionUpTo
<1> QED
  BY <1>3, <1>6 DEF H

(* The number of jobs is a number, and not 0 when there is something to    *)
(* read.                                                                   *)
LEMMA MinOfTwo ==
  ASSUME NEW a \in Int, NEW b \in Int
  PROVE  Min({a, b}) = IF a <= b THEN a ELSE b
<1>1. \E x \in {a, b} : \A y \in {a, b} : x <= y
  OBVIOUS
<1>2. Min({a, b}) \in {a, b} /\ \A y \in {a, b} : Min({a, b}) <= y
  BY <1>1 DEF Min
<1> QED
  BY <1>2

LEMMA Sizes ==
  ASSUME NEW q \in Requests
  PROVE  /\ ReadSize(q) \in Nat /\ JobCount(q) \in Nat
         /\ ReadSize(q) # 0 => JobCount(q) > 0
         /\ ReadSize(q) = 0 => JobCount(q) = 0
<1>1. Requested(q) \in Nat /\ q.offset \in Nat /\ FileSize \in Nat
  <2>1. Len(q.buffers) \in 0 .. Len(q.buffers)
    BY HeldRecursion
  <2> QED
    BY <2>1, HeldFacts, ReadAssumption DEF Requested
<1>2. ReadSize(q) \in Nat
  <2>1. CASE q.offset < FileSize
    <3>1. FileSize - q.offset \in Nat
      BY <1>1, <2>1
    <3>2. Min({FileSize - q.offset, Requested(q)}) \in Nat
      BY <1>1, <3>1, MinOfTwo
    <3> QED
      BY <1>1, <2>1, <3>2 DEF ReadSize
  <2> QED
    BY <1>1, <2>1 DEF ReadSize
<1>3. \A n \in Nat, c \in Nat \ {0} :
        /\ (n + c - 1) \div c \in Nat
        /\ n # 0 => (n + c - 1) \div c > 0
        /\ n = 0 => (n + c - 1) \div c = 0
  OBVIOUS
<1> QED
  BY <1>2, <1>3, ReadAssumption DEF JobCount

(* What a reader waits for is a finite set.                                *)
LEMMA FiniteOutstanding ==
  ASSUME TypeOK, NEW r \in Readers
  PROVE  IsFiniteSet(Outstanding(r)) /\ Cardinality(Outstanding(r)) \in Nat
<1>1. JobCount(request[r]) - 1 \in Int
  BY Sizes DEF TypeOK
<1>2. IsFiniteSet(0 .. JobCount(request[r]) - 1)
  BY <1>1, FS_Interval
<1> QED
  BY <1>2, FS_Subset, FS_CardinalityType DEF Outstanding

(* Every job, queued or in hand, has a reader, a chunk and a batch.        *)
LEMMA JobTypes ==
  ASSUME TypeOK
  PROVE  /\ \A i \in DOMAIN queue : queue[i].reader \in Readers /\ queue[i].chunk \in Nat
         /\ \A w \in Workers : job[w].reader \in Readers /\ job[w].chunk \in Nat
<1>1. \A j \in Jobs : j.reader \in Readers /\ j.chunk \in Nat
  BY DEF Jobs
<1>2. queue \in Seq(Jobs) /\ job \in [Workers -> Jobs]
  BY DEF TypeOK
<1>3. \A i \in DOMAIN queue : queue[i] \in Jobs
  BY <1>2
<1> QED
  BY <1>1, <1>2, <1>3

-----------------------------------------------------------------------------
LEMMA InitInv == Init => ReadInv
<1> SUFFICES ASSUME Init PROVE ReadInv
  OBVIOUS
<1>1. Nothing \in Jobs /\ NoBatch \in Requests
  BY ReadAssumption DEF Nothing, NoBatch, Jobs
<1>2. TypeOK
  BY <1>1 DEF Init, TypeOK, ReaderLabels, WorkerLabels
<1>3. Working = {}
  BY DEF Init, Working
<1> QED
  BY <1>2, <1>3 DEF Init, ReadInv, Paced, Alive, Apart, Counted, Reading, SleeperHasWaker

(* A job that is queued or in hand is outstanding.                         *)
LEMMA JobsOutstanding ==
  ASSUME TypeOK, Paced, Alive
  PROVE  /\ \A i \in DOMAIN queue : queue[i].chunk \in Outstanding(queue[i].reader)
         /\ \A w \in Working : job[w].chunk \in Outstanding(job[w].reader)
<1>1. ASSUME NEW r \in Readers, Reading(r)
      PROVE  /\ JobCount(request[r]) \in Nat /\ putting[r] \in Nat
             /\ putting[r] <= JobCount(request[r])
  <2>1. JobCount(request[r]) \in Nat /\ putting[r] \in Nat
    BY Sizes DEF TypeOK
  <2> QED
    BY <1>1, <2>1 DEF Paced, Reading
<1>2. ASSUME NEW j, j.reader \in Readers, j.chunk \in Nat, Current(j)
      PROVE  j.chunk \in 0 .. JobCount(request[j.reader]) - 1
  BY <1>1, <1>2 DEF Current
<1> QED
  BY <1>2, JobTypes DEF Alive, Outstanding, Working

(* A step that moves one reader from label to label, with its jobs where   *)
(* they are, keeps the jobs in order.                                      *)
LEMMA ReaderMoves ==
  ASSUME ReadInv, NEW r \in Readers, NEW l \in ReaderLabels,
         rpc' = [rpc EXCEPT ![r] = l],
         UNCHANGED <<round, pending, queue, wpc, job>>,
         \A s \in Readers \ {r} : request'[s] = request[s] /\ putting'[s] = putting[s],
         l \in {"put", "load", "futex", "asleep"} =>
           Reading(r) /\ request'[r] = request[r] /\ putting'[r] = putting[r],
         Reading(r) /\ l \notin {"put", "load", "futex", "asleep"} => pending[r] = 0
  PROVE  Alive' /\ Apart' /\ Counted'
<1> USE DEF ReadInv
<1> DEFINE Busy == {"put", "load", "futex", "asleep"}
<1>1. Working' = Working
  BY DEF Working
<1>2. rpc'[r] = l /\ \A s \in Readers \ {r} : rpc'[s] = rpc[s]
  BY DEF TypeOK
<1>3. ASSUME l \notin Busy
      PROVE  /\ \A i \in DOMAIN queue : queue[i].reader # r
             /\ \A w \in Working : job[w].reader # r
  <2>1. CASE Reading(r)
    <3>1. Outstanding(r) = {}
      BY <1>3, <2>1, FiniteOutstanding, FS_EmptySet DEF Counted
    <3> QED
      BY <3>1, JobsOutstanding
  <2>2. CASE ~Reading(r)
    BY <2>2 DEF Alive, Current
  <2> QED
    BY <2>1, <2>2
<1>4. ASSUME NEW j, j.reader \in Readers, Current(j), l \notin Busy => j.reader # r
      PROVE  rpc'[j.reader] \in Busy /\ j.round = round[j.reader] /\ j.chunk < putting'[j.reader]
  <2>1. CASE j.reader = r
    BY <1>2, <1>4, <2>1 DEF Current
  <2>2. CASE j.reader # r
    BY <1>2, <1>4, <2>2 DEF Current, Reading
  <2> QED
    BY <2>1, <2>2
<1>5. Alive'
  <2>1. \A i \in DOMAIN queue : rpc'[queue[i].reader] \in Busy
            /\ queue[i].round = round[queue[i].reader] /\ queue[i].chunk < putting'[queue[i].reader]
    BY <1>3, <1>4, JobTypes DEF Alive
  <2>2. \A w \in Working : rpc'[job[w].reader] \in Busy
            /\ job[w].round = round[job[w].reader] /\ job[w].chunk < putting'[job[w].reader]
    BY <1>3, <1>4, JobTypes DEF Alive, Working
  <2> QED
    BY <1>1, <2>1, <2>2 DEF Alive, Current, Reading
<1>6. Apart'
  BY <1>1 DEF Apart, Same
<1>7. Counted'
  <2> SUFFICES ASSUME NEW s \in Readers, Reading(s)' PROVE pending'[s] = Cardinality(Outstanding(s)')
    BY DEF Counted
  <2>1. request'[s] = request[s] /\ putting'[s] = putting[s] /\ Reading(s)
    BY <1>2 DEF Reading
  <2>2. Outstanding(s)' = Outstanding(s)
    BY <1>1, <2>1 DEF Outstanding
  <2> QED
    BY <2>1, <2>2 DEF Counted
<1> QED
  BY <1>5, <1>6, <1>7

(* A batch is made where no job is any more: none of it is put.            *)
LEMMA StartInv ==
  ASSUME ReadInv, NEW r \in Readers, NEW q \in Requests, Start(r, q)
  PROVE  ReadInv'
<1> USE DEF ReadInv
<1>1. TypeOK'
  <2>1. JobCount(q) \in Nat
    BY Sizes
  <2>2. rpc' \in [Readers -> ReaderLabels]
    <3>1. (IF ReadSize(q) = 0 THEN "return" ELSE "put") \in ReaderLabels
      BY DEF ReaderLabels
    <3> QED
      BY <3>1 DEF Start, TypeOK
  <2>3. request' \in [Readers -> Requests] /\ round' \in [Readers -> Nat]
    <3>1. request \in [Readers -> Requests] /\ round \in [Readers -> Nat]
      BY DEF TypeOK
    <3>2. request' = [request EXCEPT ![r] = q] /\ round' = [round EXCEPT ![r] = @ + 1]
      BY DEF Start
    <3> QED
      BY <3>1, <3>2
  <2>4. putting' \in [Readers -> Nat] /\ pending' \in [Readers -> Int]
    <3>1. putting \in [Readers -> Nat] /\ pending \in [Readers -> Int]
      BY DEF TypeOK
    <3>2. putting' = [putting EXCEPT ![r] = 0] /\ pending' = [pending EXCEPT ![r] = JobCount(q)]
      BY DEF Start
    <3> QED
      BY <2>1, <3>1, <3>2
  <2>5. seen' = seen /\ queue' = queue /\ wpc' = wpc /\ job' = job
    BY DEF Start, workerVars
  <2> QED
    BY <2>2, <2>3, <2>4, <2>5 DEF TypeOK
<1>2. ~Reading(r) /\ queue' = queue /\ Working' = Working /\ job' = job
  BY DEF Start, Reading, Working, workerVars
<1>3. /\ \A i \in DOMAIN queue : queue[i].reader # r
      /\ \A w \in Working : job[w].reader # r
  BY <1>2 DEF Alive, Current
<1>4. Alive' /\ Apart'
  <2>1. /\ \A i \in DOMAIN queue : queue[i].reader \in Readers
        /\ \A w \in Working : job[w].reader \in Readers
    BY JobTypes DEF Working
  <2>2. \A s \in Readers \ {r} : rpc'[s] = rpc[s] /\ round'[s] = round[s] /\ putting'[s] = putting[s]
    BY DEF Start, TypeOK
  <2> QED
    BY <1>2, <1>3, <2>1, <2>2 DEF Alive, Apart, Current, Reading
<1>5. Paced'
  <2>1. rpc'[r] = "put" => putting'[r] < JobCount(request'[r])
    BY Sizes DEF Start, TypeOK
  <2>2. rpc'[r] \in {"put", "return"}
    BY DEF Start, TypeOK
  <2>3. \A s \in Readers \ {r} : /\ rpc'[s] = rpc[s] /\ seen'[s] = seen[s]
                                /\ putting'[s] = putting[s] /\ request'[s] = request[s]
    BY DEF Start, TypeOK
  <2> QED
    BY <2>1, <2>2, <2>3 DEF Paced
<1>6. Counted'
  <2>1. JobCount(q) \in Nat /\ request'[r] = q /\ putting'[r] = 0 /\ pending'[r] = JobCount(q)
    BY Sizes DEF Start, TypeOK
  <2>2. Outstanding(r)' = 0 .. JobCount(q) - 1
    BY <2>1 DEF Outstanding
  <2>3. pending'[r] = Cardinality(Outstanding(r)')
    BY <2>1, <2>2, FS_Interval
  <2>4. ASSUME NEW s \in Readers, s # r
        PROVE  Reading(s)' = Reading(s) /\ Outstanding(s)' = Outstanding(s) /\ pending'[s] = pending[s]
    <3>1. rpc'[s] = rpc[s] /\ putting'[s] = putting[s] /\ request'[s] = request[s] /\ pending'[s] = pending[s]
      BY <2>4 DEF Start, TypeOK
    <3> QED
      BY <1>2, <3>1 DEF Reading, Outstanding
  <2> QED
    BY <2>3, <2>4 DEF Counted
<1>7. SleeperHasWaker'
  <2>1. rpc'[r] # "asleep" /\ wpc' = wpc
    BY DEF Start, TypeOK, workerVars
  <2>2. \A s \in Readers \ {r} : rpc'[s] = rpc[s] /\ pending'[s] = pending[s]
    BY DEF Start, TypeOK
  <2> QED
    BY <1>2, <2>1, <2>2 DEF SleeperHasWaker, Owner
<1> QED
  BY <1>1, <1>4, <1>5, <1>6, <1>7

(* The job that is put is the first of its batch that was not: what is     *)
(* outstanding stays the same.                                             *)
LEMMA PutInv ==
  ASSUME ReadInv, NEW r \in Readers, Put(r)
  PROVE  /\ ReadInv'
         /\ \A s \in Readers : Outstanding(s)' = Outstanding(s)
<1> USE DEF ReadInv
<1> DEFINE c == putting[r]
           new == [reader |-> r, chunk |-> c, round |-> round[r]]
<1>1. /\ queue' = Append(queue, new) /\ rpc[r] = "put"
      /\ putting' = [putting EXCEPT ![r] = c + 1]
      /\ rpc' = [rpc EXCEPT ![r] = IF c + 1 = JobCount(request[r]) THEN "load" ELSE "put"]
      /\ UNCHANGED <<request, round, pending, seen, wpc, job>>
  BY DEF Put, TypeOK, workerVars
<1>2. c \in Nat /\ round[r] \in Nat /\ new \in Jobs
  BY DEF TypeOK, Jobs
<1>3. queue \in Seq(Jobs) /\ Len(queue) \in Nat
  BY DEF TypeOK
<1>4. /\ DOMAIN queue' = DOMAIN queue \cup {Len(queue) + 1} /\ Len(queue) + 1 \notin DOMAIN queue
      /\ \A i \in DOMAIN queue : queue'[i] = queue[i]
      /\ queue'[Len(queue) + 1] = new
  BY <1>1, <1>2, <1>3
<1>5. Working' = Working
  BY <1>1 DEF Working
<1>6. TypeOK'
  <2>1. queue' \in Seq(Jobs)
    BY <1>1, <1>2, <1>3
  <2>2. rpc' \in [Readers -> ReaderLabels]
    BY <1>1 DEF TypeOK, ReaderLabels
  <2>3. putting' \in [Readers -> Nat]
    BY <1>1, <1>2 DEF TypeOK
  <2> QED
    BY <1>1, <2>1, <2>2, <2>3 DEF TypeOK
<1>7. JobCount(request[r]) \in Nat /\ c < JobCount(request[r])
  BY <1>1, Sizes DEF TypeOK, Paced
<1>8. /\ rpc'[r] \in {"put", "load"} /\ putting'[r] = c + 1
      /\ rpc'[r] = "load" <=> c + 1 = JobCount(request[r])
      /\ \A s \in Readers \ {r} : rpc'[s] = rpc[s] /\ putting'[s] = putting[s]
  BY <1>1 DEF TypeOK
<1>9. \A s \in Readers : Reading(s)' <=> Reading(s)
  BY <1>1, <1>8 DEF Reading
<1>10. Paced'
  BY <1>1, <1>2, <1>7, <1>8 DEF Paced
<1>11. Alive'
  <2> DEFINE Still(j) == /\ rpc'[j.reader] \in {"put", "load", "futex", "asleep"}
                         /\ j.round = round'[j.reader] /\ j.chunk < putting'[j.reader]
  <2>1. \A s \in Readers : putting[s] \in Nat
    BY DEF TypeOK
  <2>2. \A s \in Readers : putting'[s] = IF s = r THEN c + 1 ELSE putting[s]
    BY <1>8
  <2>3. ASSUME NEW j, j.reader \in Readers, j.chunk \in Nat, Current(j)
        PROVE  Still(j)
    BY <1>1, <1>9, <2>1, <2>2, <2>3 DEF Current, Reading
  <2>4. Still(new)
    BY <1>1, <1>2, <1>8 DEF Current, Reading
  <2>5. \A i \in DOMAIN queue : Still(queue[i])
    BY <2>3, JobTypes DEF Alive
  <2>6. \A w \in Working : Still(job[w])
    BY <2>3, JobTypes DEF Alive, Working
  <2>7. \A i \in DOMAIN queue' : Still(queue'[i])
    BY <1>4, <2>4, <2>5
  <2> QED
    BY <1>1, <1>5, <2>6, <2>7 DEF Alive, Current, Reading
<1>12. Apart'
  <2>1. \A j : Current(j) /\ j.reader = r => j.chunk < c
    BY DEF Current
  <2>2. /\ \A i \in DOMAIN queue : ~Same(queue[i], new)
        /\ \A w \in Working : ~Same(job[w], new)
    BY <1>2, <2>1, JobTypes DEF Same, Alive, Working
  <2>3. \A i, k \in DOMAIN queue' : Same(queue'[i], queue'[k]) => i = k
    BY <1>4, <2>2 DEF Apart, Same
  <2>4. \A i \in DOMAIN queue', w \in Working : ~Same(queue'[i], job[w])
    BY <1>4, <2>2 DEF Apart, Same
  <2> QED
    BY <1>1, <1>5, <2>3, <2>4 DEF Apart, Same
<1>13. \A s \in Readers : Outstanding(s)' = Outstanding(s)
  BY <1>1, <1>2, <1>4, <1>5, <1>7, <1>8 DEF Outstanding
<1>14. Counted'
  BY <1>1, <1>9, <1>13 DEF Counted
<1>15. SleeperHasWaker'
  BY <1>1, <1>8 DEF SleeperHasWaker, Owner
<1> QED
  BY <1>6, <1>10, <1>11, <1>12, <1>13, <1>14, <1>15

(* The reader loads the count and leaves when it is 0: then no chunk is    *)
(* outstanding.                                                            *)
LEMMA LoadInv ==
  ASSUME ReadInv, NEW r \in Readers, Load(r)
  PROVE  ReadInv'
<1> USE DEF ReadInv
<1> DEFINE l == IF pending[r] = 0 THEN "return" ELSE "futex"
<1>1. /\ rpc[r] = "load" /\ rpc' = [rpc EXCEPT ![r] = l]
      /\ seen' = [seen EXCEPT ![r] = pending[r]]
      /\ UNCHANGED <<request, round, putting, pending, queue, wpc, job>>
  BY DEF Load, workerVars
<1>2. l \in ReaderLabels /\ pending[r] \in Int
  BY DEF ReaderLabels, TypeOK
<1>3. /\ rpc'[r] = l /\ seen'[r] = pending[r]
      /\ \A s \in Readers \ {r} : rpc'[s] = rpc[s] /\ seen'[s] = seen[s]
  BY <1>1 DEF TypeOK
<1>4. TypeOK'
  <2>1. rpc' \in [Readers -> ReaderLabels] /\ seen' \in [Readers -> Int]
    BY <1>1, <1>2 DEF TypeOK
  <2> QED
    BY <1>1, <2>1 DEF TypeOK
<1>5. Alive' /\ Apart' /\ Counted'
  <2>1. Reading(r)
    BY <1>1 DEF Reading
  <2>2. Reading(r) /\ l \notin {"put", "load", "futex", "asleep"} => pending[r] = 0
    OBVIOUS
  <2> HIDE DEF l, ReadInv
  <2> QED
    BY <1>1, <1>2, <2>1, <2>2, ReaderMoves
<1>6. Paced'
  BY <1>1, <1>3 DEF Paced
<1>7. SleeperHasWaker'
  BY <1>1, <1>3 DEF SleeperHasWaker, Owner
<1> QED
  BY <1>4, <1>5, <1>6, <1>7

(* It sleeps on the count it saw, which was not 0.                         *)
LEMMA FutexWaitInv ==
  ASSUME ReadInv, NEW r \in Readers, FutexWait(r)
  PROVE  ReadInv'
<1> USE DEF ReadInv
<1> DEFINE l == IF pending[r] = seen[r] THEN "asleep" ELSE "load"
<1>1. /\ rpc[r] = "futex" /\ rpc' = [rpc EXCEPT ![r] = l]
      /\ seen' = [seen EXCEPT ![r] = 0]
      /\ UNCHANGED <<request, round, putting, pending, queue, wpc, job>>
  BY DEF FutexWait, workerVars
<1>2. l \in ReaderLabels
  BY DEF ReaderLabels
<1>3. /\ rpc'[r] = l
      /\ \A s \in Readers \ {r} : rpc'[s] = rpc[s] /\ seen'[s] = seen[s]
  BY <1>1 DEF TypeOK
<1>4. TypeOK'
  <2>1. rpc' \in [Readers -> ReaderLabels] /\ seen' \in [Readers -> Int]
    BY <1>1, <1>2 DEF TypeOK
  <2> QED
    BY <1>1, <2>1 DEF TypeOK
<1>5. Alive' /\ Apart' /\ Counted'
  <2>1. Reading(r) /\ l \in {"put", "load", "futex", "asleep"}
    BY <1>1 DEF Reading
  <2> HIDE DEF l, ReadInv
  <2> QED
    BY <1>1, <1>2, <2>1, ReaderMoves
<1>6. Paced'
  BY <1>1, <1>3 DEF Paced
<1>7. SleeperHasWaker'
  <2>1. l = "asleep" => pending[r] > 0
    <3>1. pending[r] \in Nat
      BY <1>1, FiniteOutstanding DEF Counted, Reading
    <3>2. seen[r] # 0
      BY <1>1 DEF Paced
    <3> QED
      BY <3>1, <3>2
  <2> QED
    BY <1>1, <1>3, <2>1 DEF SleeperHasWaker, Owner
<1> QED
  BY <1>4, <1>5, <1>6, <1>7

LEMMA ReturnInv ==
  ASSUME ReadInv, NEW r \in Readers, Return(r)
  PROVE  ReadInv'
<1> USE DEF ReadInv
<1>1. /\ rpc[r] = "return" /\ rpc' = [rpc EXCEPT ![r] = "start"]
      /\ request' = [request EXCEPT ![r] = NoBatch] /\ putting' = [putting EXCEPT ![r] = 0]
      /\ UNCHANGED <<round, pending, seen, queue, wpc, job>>
  BY DEF Return, workerVars
<1>2. /\ rpc'[r] = "start"
      /\ \A s \in Readers \ {r} :
            rpc'[s] = rpc[s] /\ request'[s] = request[s] /\ putting'[s] = putting[s]
  BY <1>1 DEF TypeOK
<1>3. TypeOK'
  <2>1. rpc' \in [Readers -> ReaderLabels]
    BY <1>1 DEF TypeOK, ReaderLabels
  <2>2. request' \in [Readers -> Requests] /\ putting' \in [Readers -> Nat]
    BY <1>1, ReadAssumption DEF TypeOK, NoBatch
  <2> QED
    BY <1>1, <2>1, <2>2 DEF TypeOK
<1>4. Alive' /\ Apart' /\ Counted'
  <2>1. ~Reading(r) /\ "start" \in ReaderLabels
    BY <1>1 DEF Reading, ReaderLabels
  <2> HIDE DEF ReadInv
  <2> QED
    BY <1>1, <1>2, <2>1, ReaderMoves
<1>5. Paced' /\ SleeperHasWaker'
  BY <1>1, <1>2 DEF Paced, SleeperHasWaker, Owner
<1> QED
  BY <1>3, <1>4, <1>5

-----------------------------------------------------------------------------
(* A worker takes the first job of the queue: the chunk is in its hand     *)
(* instead of in the queue.                                                *)
LEMMA GetOneInv ==
  ASSUME ReadInv, NEW w \in Workers, GetOne(w)
  PROVE  /\ ReadInv'
         /\ \A s \in Readers : Outstanding(s)' = Outstanding(s)
<1> USE DEF ReadInv
<1> DEFINE n == Len(queue)
<1>1. /\ wpc[w] = "idle" /\ queue # <<>> /\ queue' = Tail(queue)
      /\ job' = [job EXCEPT ![w] = Head(queue)] /\ wpc' = [wpc EXCEPT ![w] = "check"]
      /\ UNCHANGED <<rpc, request, round, putting, pending, seen>>
  BY DEF GetOne, readerVars
<1>2. queue \in Seq(Jobs) /\ n \in Nat \ {0} /\ DOMAIN queue = 1 .. n
  BY <1>1 DEF TypeOK
<1>3. /\ queue' \in Seq(Jobs) /\ DOMAIN queue' = 1 .. n - 1 /\ Head(queue) = queue[1]
      /\ \A i \in 1 .. n - 1 : queue'[i] = queue[i + 1] /\ i + 1 \in DOMAIN queue
  BY <1>1, <1>2
<1>4. queue[1] \in Jobs /\ 1 \in DOMAIN queue
  BY <1>2
<1>5. job'[w] = queue[1] /\ \A v \in Workers \ {w} : job'[v] = job[v]
  BY <1>1, <1>3 DEF TypeOK
<1>6. Working' = Working \cup {w} /\ w \notin Working
  BY <1>1 DEF TypeOK, Working
<1>7. TypeOK'
  <2>1. wpc' \in [Workers -> WorkerLabels]
    BY <1>1 DEF TypeOK, WorkerLabels
  <2>2. job' \in [Workers -> Jobs]
    BY <1>1, <1>3, <1>4 DEF TypeOK
  <2> QED
    BY <1>1, <1>3, <2>1, <2>2 DEF TypeOK
<1>8. \A v \in Working : v \in Workers /\ v # w /\ job'[v] = job[v]
  BY <1>5, <1>6 DEF Working
<1>9. Alive'
  <2>1. \A i \in DOMAIN queue' : Current(queue'[i])
    BY <1>3 DEF Alive
  <2>2. \A v \in Working' : Current(job'[v])
    BY <1>4, <1>5, <1>6, <1>8 DEF Alive
  <2> QED
    BY <1>1, <2>1, <2>2 DEF Alive, Current, Reading
<1>10. Apart'
  <2>1. \A i, k \in DOMAIN queue' : Same(queue'[i], queue'[k]) => i = k
    BY <1>3 DEF Apart
  <2>2. \A u, v \in Working' : Same(job'[u], job'[v]) => u = v
    BY <1>4, <1>5, <1>6, <1>8 DEF Apart, Same
  <2>3. \A i \in DOMAIN queue', v \in Working' : ~Same(queue'[i], job'[v])
    <3>1. ASSUME NEW i \in DOMAIN queue' PROVE ~Same(queue'[i], job'[w])
      <4>1. queue'[i] = queue[i + 1] /\ i + 1 \in DOMAIN queue /\ i + 1 # 1
        BY <1>2, <1>3
      <4> QED
        BY <1>4, <1>5, <4>1 DEF Apart
    <3>2. ASSUME NEW i \in DOMAIN queue', NEW v \in Working PROVE ~Same(queue'[i], job'[v])
      BY <1>3, <1>8 DEF Apart
    <3> QED
      BY <1>6, <3>1, <3>2
  <2> QED
    BY <2>1, <2>2, <2>3 DEF Apart, Same
<1>11. \A r \in Readers : Outstanding(r)' = Outstanding(r)
  <2> SUFFICES ASSUME NEW r \in Readers, NEW c \in 0 .. JobCount(request[r]) - 1
               PROVE  ((\E i \in DOMAIN queue : queue[i].reader = r /\ queue[i].chunk = c)
                         \/ \E v \in Working : job[v].reader = r /\ job[v].chunk = c)
                      <=> ((\E i \in DOMAIN queue' : queue'[i].reader = r /\ queue'[i].chunk = c)
                         \/ \E v \in Working' : job'[v].reader = r /\ job'[v].chunk = c)
    BY <1>1 DEF Outstanding
  <2>1. \A i \in DOMAIN queue : i = 1 \/ (i - 1 \in DOMAIN queue' /\ queue[i] = queue'[i - 1])
    BY <1>2, <1>3
  <2> QED
    BY <1>3, <1>4, <1>5, <1>6, <1>8, <2>1
<1>12. Counted'
  BY <1>1, <1>11 DEF Counted, Reading
<1>13. Paced'
  BY <1>1 DEF Paced
<1>14. SleeperHasWaker'
  <2>1. \A v \in Workers : wpc[v] = "wake" => wpc'[v] = "wake" /\ job'[v] = job[v]
    BY <1>1, <1>5 DEF TypeOK
  <2> QED
    BY <1>1, <2>1 DEF SleeperHasWaker, Owner
<1> QED
  BY <1>7, <1>9, <1>10, <1>11, <1>12, <1>13, <1>14

(* Until it is complete a job stays in the worker's hand.                  *)
LEMMA WorkInv ==
  ASSUME ReadInv, NEW w \in Workers,
         Check(w) \/ Perform(w) \/ PerformRefused(w) \/ \E n \in 0 .. ChunkSize - 1 : PerformBroken(w, n)
  PROVE  /\ ReadInv'
         /\ \A s \in Readers : Outstanding(s)' = Outstanding(s)
<1> USE DEF ReadInv
<1>1. /\ wpc[w] \in {"check", "perform"}
      /\ UNCHANGED <<rpc, request, round, putting, pending, seen, queue, job>>
      /\ \E l \in {"check", "perform", "complete"} : wpc' = [wpc EXCEPT ![w] = l]
  BY DEF Check, Perform, PerformRefused, PerformBroken, readerVars
<1>2. /\ wpc' \in [Workers -> WorkerLabels]
      /\ wpc'[w] \in {"check", "perform", "complete"}
      /\ \A v \in Workers \ {w} : wpc'[v] = wpc[v]
  BY <1>1 DEF TypeOK, WorkerLabels
<1>3. TypeOK'
  BY <1>1, <1>2 DEF TypeOK
<1>4. Working' = Working
  BY <1>1, <1>2 DEF Working
<1>5. Alive' /\ Apart'
  BY <1>1, <1>4 DEF Alive, Current, Reading, Apart, Same
<1>6. \A r \in Readers : Outstanding(r)' = Outstanding(r)
  BY <1>1, <1>4 DEF Outstanding
<1>7. Counted' /\ Paced'
  BY <1>1, <1>6 DEF Counted, Reading, Paced
<1>8. SleeperHasWaker'
  BY <1>1, <1>2 DEF SleeperHasWaker, Owner
<1> QED
  BY <1>3, <1>5, <1>6, <1>7, <1>8

(* One chunk less is outstanding, and the count says so; the worker that   *)
(* brings it to 0 is going to wake.                                        *)
LEMMA CompleteInv ==
  ASSUME ReadInv, NEW w \in Workers, Complete(w)
  PROVE  /\ ReadInv'
         /\ \A r \in Readers : Outstanding(r)' = IF r = job[w].reader THEN Outstanding(r) \ {job[w].chunk}
                                                 ELSE Outstanding(r)
<1> USE DEF ReadInv
<1>0. PICK o \in Readers, c \in Nat : job[w].reader = o /\ job[w].chunk = c
  BY JobTypes
<1> DEFINE l == IF pending[o] = 1 THEN "wake" ELSE "idle"
           j == IF l = "wake" THEN job[w] ELSE Nothing
<1>1. wpc[w] = "complete" /\ w \in Working /\ job[w].reader = o /\ job[w].chunk = c
  BY <1>0 DEF Complete, Working
<1>2. /\ pending' = [pending EXCEPT ![o] = pending[o] - 1]
      /\ wpc' = [wpc EXCEPT ![w] = l]
      /\ UNCHANGED <<rpc, request, round, putting, seen, queue>>
  BY <1>1 DEF Complete, Owner, readerVars, TypeOK
<1>3. wpc'[w] = l /\ \A v \in Workers \ {w} : wpc'[v] = wpc[v]
  BY <1>2 DEF TypeOK
<1>4. job' = [job EXCEPT ![w] = j]
  BY <1>3 DEF Complete, TypeOK
<1>5. job'[w] = j /\ \A v \in Workers \ {w} : job'[v] = job[v]
  BY <1>4 DEF TypeOK
<1>6. TypeOK'
  <2>1. j \in Jobs
    BY ReadAssumption DEF TypeOK, Jobs, Nothing
  <2>2. job' \in [Workers -> Jobs]
    BY <1>4, <2>1 DEF TypeOK
  <2>3. wpc' \in [Workers -> WorkerLabels]
    BY <1>2 DEF TypeOK, WorkerLabels
  <2>4. pending' \in [Readers -> Int]
    BY <1>1, <1>2 DEF TypeOK
  <2> QED
    BY <1>2, <2>2, <2>3, <2>4 DEF TypeOK
<1>7. Working' = Working \ {w}
  BY <1>1, <1>3 DEF Working
<1>8. \A v \in Working' : v \in Working /\ job'[v] = job[v]
  BY <1>5, <1>7 DEF Working
<1>9. Alive' /\ Apart'
  <2>1. Alive'
    BY <1>2, <1>8 DEF Alive, Current, Reading
  <2>2. Apart'
    BY <1>2, <1>8 DEF Apart, Same
  <2> QED
    BY <2>1, <2>2
<1>10. c \in Outstanding(o) /\ Reading(o)
  BY <1>1, JobsOutstanding DEF Alive, Current
<1>11. Outstanding(o)' = Outstanding(o) \ {c}
  <2>1. c < putting[o] /\ putting[o] \in Nat
    BY <1>1 DEF Alive, Current, TypeOK
  <2>2. \A i \in DOMAIN queue : ~(queue[i].reader = o /\ queue[i].chunk = c)
    BY <1>1 DEF Apart, Same
  <2>3. \A v \in Working : job[v].reader = o /\ job[v].chunk = c => v = w
    BY <1>1 DEF Apart, Same
  <2>4. ASSUME NEW d \in 0 .. JobCount(request[o]) - 1, d # c
        PROVE  (\E v \in Working : job[v].reader = o /\ job[v].chunk = d)
               <=> \E v \in Working' : job'[v].reader = o /\ job'[v].chunk = d
    BY <1>1, <1>7, <1>8, <2>4
  <2>5. ~\E v \in Working' : job'[v].reader = o /\ job'[v].chunk = c
    BY <1>7, <1>8, <2>3
  <2>6. ~(c >= putting[o])
    BY <1>1, <2>1
  <2> QED
    <3>1. Outstanding(o)' = {d \in 0 .. JobCount(request[o]) - 1 :
             \/ d >= putting[o]
             \/ \E i \in DOMAIN queue : queue[i].reader = o /\ queue[i].chunk = d
             \/ \E v \in Working' : job'[v].reader = o /\ job'[v].chunk = d}
      BY <1>2 DEF Outstanding
    <3>2. c \notin Outstanding(o)'
      BY <2>2, <2>5, <2>6, <3>1
    <3>3. ASSUME NEW d \in 0 .. JobCount(request[o]) - 1, d # c
          PROVE  d \in Outstanding(o)' <=> d \in Outstanding(o)
      <4>1. d \in Outstanding(o)' <=>
               \/ d >= putting[o]
               \/ \E i \in DOMAIN queue : queue[i].reader = o /\ queue[i].chunk = d
               \/ \E v \in Working' : job'[v].reader = o /\ job'[v].chunk = d
        BY <3>1
      <4>2. d \in Outstanding(o) <=>
               \/ d >= putting[o]
               \/ \E i \in DOMAIN queue : queue[i].reader = o /\ queue[i].chunk = d
               \/ \E v \in Working : job[v].reader = o /\ job[v].chunk = d
        BY DEF Outstanding
      <4> QED
        BY <2>4, <3>3, <4>1, <4>2
    <3>4. Outstanding(o) \subseteq 0 .. JobCount(request[o]) - 1
      BY DEF Outstanding
    <3>5. Outstanding(o)' \subseteq 0 .. JobCount(request[o]) - 1
      BY <3>1
    <3> QED
      BY <3>2, <3>3, <3>4, <3>5
<1>12. \A r \in Readers \ {o} : Outstanding(r)' = Outstanding(r)
  <2>1. ASSUME NEW r \in Readers \ {o}, NEW d
        PROVE  (\E v \in Working : job[v].reader = r /\ job[v].chunk = d)
               <=> \E v \in Working' : job'[v].reader = r /\ job'[v].chunk = d
    BY <1>1, <1>7, <1>8
  <2> QED
    BY <1>2, <2>1 DEF Outstanding
<1>13. /\ pending[o] = Cardinality(Outstanding(o)) /\ pending[o] \in Nat \ {0}
       /\ pending[o] - 1 = Cardinality(Outstanding(o)')
  <2>1. pending[o] = Cardinality(Outstanding(o)) /\ pending[o] \in Nat
    BY <1>1, <1>10, FiniteOutstanding DEF Counted
  <2>2. pending[o] # 0
    <3>1. IsFiniteSet(Outstanding(o)) /\ Outstanding(o) # {}
      BY <1>1, <1>10, FiniteOutstanding
    <3> QED
      BY <2>1, <3>1, FS_EmptySet
  <2>3. Cardinality(Outstanding(o) \ {c}) = pending[o] - 1
    <3>1. IsFiniteSet(Outstanding(o))
      BY <1>1, FiniteOutstanding
    <3> QED
      BY <1>10, <2>1, <3>1, FS_RemoveElement
  <2> QED
    BY <1>11, <2>1, <2>2, <2>3
<1>14. pending'[o] = pending[o] - 1 /\ \A r \in Readers \ {o} : pending'[r] = pending[r]
  <2>1. pending \in [Readers -> Int]
    BY DEF TypeOK
  <2> HIDE DEF ReadInv
  <2> QED
    BY <1>1, <1>2, <2>1
<1>15. Counted'
  BY <1>2, <1>12, <1>13, <1>14 DEF Counted, Reading
<1>16. Paced'
  BY <1>2 DEF Paced
<1>17. SleeperHasWaker'
  <2> SUFFICES ASSUME NEW r \in Readers, rpc[r] = "asleep"
               PROVE  pending'[r] > 0 \/ \E v \in Workers : wpc'[v] = "wake" /\ job'[v].reader = r
    BY <1>2 DEF SleeperHasWaker, Owner
  <2>1. CASE r = o /\ pending[o] = 1
    BY <1>1, <1>3, <1>5, <2>1
  <2>2. CASE r = o /\ pending[o] # 1
    BY <1>13, <1>14, <2>2
  <2>3. CASE r # o
    <3>1. \A v \in Workers : wpc[v] = "wake" => wpc'[v] = "wake" /\ job'[v] = job[v]
      BY <1>1, <1>3, <1>5
    <3> QED
      BY <1>14, <2>3, <3>1 DEF SleeperHasWaker, Owner
  <2> QED
    BY <2>1, <2>2, <2>3
<1>18. \A r \in Readers : Outstanding(r)' = IF r = o THEN Outstanding(r) \ {c} ELSE Outstanding(r)
  BY <1>11, <1>12
<1> QED
  BY <1>0, <1>6, <1>9, <1>15, <1>16, <1>17, <1>18

(* Who sleeps at the address wakes, whichever batch it sleeps for.         *)
LEMMA WakeInv ==
  ASSUME ReadInv, NEW w \in Workers, Wake(w)
  PROVE  /\ ReadInv'
         /\ \A s \in Readers : Outstanding(s)' = Outstanding(s)
<1> USE DEF ReadInv
<1> DEFINE o == job[w].reader
<1>1. o \in Readers
  BY JobTypes
<1>2. /\ wpc[w] = "wake" /\ wpc' = [wpc EXCEPT ![w] = "idle"] /\ job' = [job EXCEPT ![w] = Nothing]
      /\ rpc' = [rpc EXCEPT ![o] = IF rpc[o] = "asleep" THEN "load" ELSE rpc[o]]
      /\ UNCHANGED <<request, round, putting, pending, seen, queue>>
  BY <1>1 DEF Wake, Owner, TypeOK
<1>3. /\ rpc'[o] = IF rpc[o] = "asleep" THEN "load" ELSE rpc[o]
      /\ \A r \in Readers \ {o} : rpc'[r] = rpc[r]
  BY <1>1, <1>2 DEF TypeOK
<1>4. \A v \in Workers \ {w} : wpc'[v] = wpc[v] /\ job'[v] = job[v]
  BY <1>2 DEF TypeOK
<1>5. TypeOK'
  <2>1. rpc' \in [Readers -> ReaderLabels] /\ wpc' \in [Workers -> WorkerLabels]
    BY <1>1, <1>2 DEF TypeOK, ReaderLabels, WorkerLabels
  <2>2. job' \in [Workers -> Jobs]
    BY <1>2, ReadAssumption DEF TypeOK, Jobs, Nothing
  <2> QED
    BY <1>2, <2>1, <2>2 DEF TypeOK
<1>6. wpc'[w] = "idle"
  BY <1>2 DEF TypeOK
<1>7. Working' = Working /\ \A v \in Working : job'[v] = job[v]
  BY <1>2, <1>4, <1>6 DEF Working
<1>8. \A r \in Readers : Reading(r)' <=> Reading(r)
  BY <1>3 DEF Reading
<1>9. Alive'
  <2>1. /\ \A i \in DOMAIN queue : rpc'[queue[i].reader] \in {"put", "load", "futex", "asleep"}
        /\ \A v \in Working : rpc'[job[v].reader] \in {"put", "load", "futex", "asleep"}
    BY <1>8, JobTypes DEF Alive, Current, Reading, Working
  <2> QED
    BY <1>2, <1>7, <2>1 DEF Alive, Current, Reading
<1>10. Apart'
  BY <1>2, <1>7 DEF Apart, Same
<1>11. \A r \in Readers : Outstanding(r)' = Outstanding(r)
  BY <1>2, <1>7 DEF Outstanding
<1>12. Counted'
  BY <1>2, <1>8, <1>11 DEF Counted
<1>13. Paced'
  BY <1>2, <1>3 DEF Paced
<1>14. SleeperHasWaker'
  <2> SUFFICES ASSUME NEW r \in Readers, rpc'[r] = "asleep"
               PROVE  pending[r] > 0 \/ \E v \in Workers : wpc'[v] = "wake" /\ job'[v].reader = r
    BY <1>2 DEF SleeperHasWaker, Owner
  <2>1. rpc[r] = "asleep" /\ r # o
    BY <1>3
  <2>2. \A v \in Workers : wpc[v] = "wake" /\ job[v].reader = r => wpc'[v] = "wake" /\ job'[v].reader = r
    BY <1>4, <2>1
  <2> QED
    BY <2>1, <2>2 DEF SleeperHasWaker, Owner
<1> QED
  BY <1>5, <1>9, <1>10, <1>11, <1>12, <1>13, <1>14

LEMMA NextInv == ReadInv /\ [Next]_vars => ReadInv'
<1> SUFFICES ASSUME ReadInv, [Next]_vars PROVE ReadInv'
  OBVIOUS
<1>1. ASSUME NEW r \in Readers, ReaderStep(r) PROVE ReadInv'
  BY <1>1, PutInv, LoadInv, FutexWaitInv, ReturnInv DEF ReaderStep
<1>2. ASSUME NEW r \in Readers, NEW q \in Requests, Start(r, q) PROVE ReadInv'
  BY <1>2, StartInv
<1>3. ASSUME NEW w \in Workers, WorkerStep(w) PROVE ReadInv'
  BY <1>3, GetOneInv, WorkInv, CompleteInv, WakeInv DEF WorkerStep
<1>4. ASSUME NEW w \in Workers,
             PerformRefused(w) \/ \E n \in 0 .. ChunkSize - 1 : PerformBroken(w, n)
      PROVE  ReadInv'
  BY <1>4, WorkInv
<1>5. ASSUME UNCHANGED vars PROVE ReadInv'
  <2>1. UNCHANGED <<rpc, request, round, putting, pending, seen, queue, wpc, job>> /\ Working' = Working
    BY <1>5 DEF vars, readerVars, workerVars, Working
  <2>2. \A r \in Readers : Outstanding(r)' = Outstanding(r)
    BY <2>1 DEF Outstanding
  <2>3. TypeOK' /\ Paced'
    BY <2>1 DEF ReadInv, TypeOK, Paced
  <2>4. Alive' /\ Apart'
    BY <2>1 DEF ReadInv, Alive, Current, Reading, Apart, Same
  <2>5. Counted' /\ SleeperHasWaker'
    BY <2>1, <2>2 DEF ReadInv, Counted, Reading, SleeperHasWaker, Owner
  <2> QED
    BY <2>3, <2>4, <2>5 DEF ReadInv
<1> QED
  BY <1>1, <1>2, <1>3, <1>4, <1>5 DEF Next

-----------------------------------------------------------------------------
(* The count of a batch is exact: as many as its chunks that are yet to be *)
(* put, queued or worked on, no chunk of which is in two places.           *)
THEOREM CountsAreExact == Spec => []ReadInv
BY InitInv, NextInv, PTL DEF Spec

(* What completeOne and waitUncancelable promise: whatever the interleaving *)
(* of readers and workers, a reader leaves its batch after the last touch. *)
THEOREM BatchesOutliveJobs == Spec => []BatchAlive
<1>1. ReadInv => BatchAlive
  <2> SUFFICES ASSUME ReadInv, NEW r \in Readers, NEW j \in JobsOf(r)
               PROVE  j.round = round[r] /\ rpc[r] \in {"put", "load", "futex", "asleep"}
    BY DEF BatchAlive
  <2>1. Current(j) /\ j.reader = r
    BY DEF JobsOf, ReadInv, Alive
  <2> QED
    BY <2>1 DEF Current, Reading
<1> QED
  BY <1>1, CountsAreExact, PTL

(* No wakeup is lost: who sleeps on a count that is 0 is about to be woken. *)
THEOREM SleepersAreWoken == Spec => []SleeperHasWaker
<1>1. ReadInv => SleeperHasWaker
  BY DEF ReadInv
<1> QED
  BY <1>1, CountsAreExact, PTL

-----------------------------------------------------------------------------
(* Chunks                                                                  *)

LEMMA Grows ==
  ASSUME NEW a \in Nat, NEW b \in Nat, NEW c \in Nat, a <= b
  PROVE  a * c <= b * c /\ a * c \in Nat /\ b * c \in Nat
<1>1. PICK x \in Nat : b = a + x
  BY Z3
<1>2. b * c = a * c + x * c
  BY <1>1, Z3
<1>3. a * c \in Nat /\ x * c \in Nat
  BY <1>1, Z3
<1> QED
  BY <1>2, <1>3

LEMMA InQuotient ==
  ASSUME NEW a \in Nat, NEW d \in Nat \ {0}
  PROVE  /\ a \div d \in Nat
         /\ (a \div d) * d <= a
         /\ a <= (a \div d) * d + d - 1
BY Z3

(* The jobs are the chunks that have something to read, and the last one   *)
(* reaches the end.                                                        *)
LEMMA JobsCover ==
  ASSUME NEW q \in Requests
  PROVE  /\ ReadSize(q) \in Nat /\ JobCount(q) \in Nat
         /\ JobCount(q) * ChunkSize \in Nat
         /\ ReadSize(q) <= JobCount(q) * ChunkSize
         /\ JobCount(q) * ChunkSize <= ReadSize(q) + ChunkSize - 1
<1>1. ReadSize(q) \in Nat /\ JobCount(q) \in Nat /\ ChunkSize \in Nat \ {0}
  BY Sizes, ReadAssumption
<1>2. ReadSize(q) + ChunkSize - 1 \in Nat
  BY <1>1
<1>3. JobCount(q) * ChunkSize \in Nat
  BY <1>1, Grows
<1>4. /\ JobCount(q) * ChunkSize <= ReadSize(q) + ChunkSize - 1
      /\ ReadSize(q) + ChunkSize - 1 <= JobCount(q) * ChunkSize + ChunkSize - 1
  BY <1>1, <1>2, InQuotient DEF JobCount
<1> QED
  BY <1>1, <1>3, <1>4

(* A chunk is not empty, and lies in what is read.                         *)
LEMMA ChunkFacts ==
  ASSUME NEW q \in Requests, NEW i \in 0 .. JobCount(q) - 1
  PROVE  /\ ChunkOffset(i) \in Nat
         /\ ChunkLen(q, i) \in 1 .. ChunkSize
         /\ ChunkOffset(i) + ChunkLen(q, i) <= ReadSize(q)
         /\ ChunkLen(q, i) = ChunkSize \/ ChunkOffset(i) + ChunkLen(q, i) = ReadSize(q)
<1> DEFINE J == JobCount(q)
           C == ChunkSize
           R == ReadSize(q)
<1>1. J \in Nat /\ i \in Nat /\ i + 1 \in Nat /\ i + 1 <= J /\ C \in Nat \ {0} /\ R \in Nat
  BY Sizes, ReadAssumption
<1>2. J * C \in Nat /\ J * C <= R + C - 1
  BY JobsCover
<1>3. (i + 1) * C <= J * C /\ i * C \in Nat
  BY <1>1, Grows
<1>4. (i + 1) * C = i * C + C
  BY <1>1, Z3
<1>5. i * C < R
  BY <1>1, <1>2, <1>3, <1>4
<1>6. ChunkLen(q, i) = IF C <= R - i * C THEN C ELSE R - i * C
  BY <1>1, <1>3, MinOfTwo DEF ChunkLen, ChunkOffset
<1> QED
  BY <1>1, <1>3, <1>5, <1>6 DEF ChunkOffset

(* Every byte that is read is of a chunk.                                  *)
LEMMA ChunkOf ==
  ASSUME NEW q \in Requests, NEW pos \in 1 .. ReadSize(q)
  PROVE  \E i \in 0 .. JobCount(q) - 1 :
           pos \in ChunkOffset(i) + 1 .. ChunkOffset(i) + ChunkLen(q, i)
<1> DEFINE J == JobCount(q)
           C == ChunkSize
           R == ReadSize(q)
           i == (pos - 1) \div C
<1>1. J \in Nat /\ C \in Nat \ {0} /\ R \in Nat /\ pos - 1 \in Nat /\ pos <= R
  BY Sizes, ReadAssumption
<1>2. i \in Nat /\ i * C <= pos - 1 /\ pos - 1 <= i * C + C - 1
  BY <1>1, InQuotient
<1> HIDE DEF i
<1>3. i * C \in Nat /\ J * C \in Nat /\ R <= J * C
  BY <1>1, <1>2, Grows, JobsCover
<1>4. i < J
  <2>1. SUFFICES ASSUME J <= i PROVE FALSE
    BY <1>1, <1>2
  <2>2. J * C <= i * C
    BY <1>1, <1>2, <2>1, Grows
  <2> QED
    BY <1>1, <1>2, <1>3, <2>2
<1>5. i \in 0 .. J - 1
  BY <1>1, <1>2, <1>4
<1>6. /\ ChunkOffset(i) = i * C
      /\ ChunkLen(q, i) \in 1 .. C
      /\ ChunkLen(q, i) = C \/ ChunkOffset(i) + ChunkLen(q, i) = R
  BY <1>5, ChunkFacts DEF ChunkOffset
<1>7. pos \in ChunkOffset(i) + 1 .. ChunkOffset(i) + ChunkLen(q, i)
  BY <1>1, <1>2, <1>3, <1>6
<1> QED
  BY <1>5, <1>7

-----------------------------------------------------------------------------
(* readChunk's loop over the buffers                                       *)

(* What remains, and what is to be skipped, behind the first p bytes of    *)
(* the buffers.                                                            *)
Behind(q, i, p) ==
  LET O == ChunkOffset(i)
      L == ChunkLen(q, i)
  IN [remaining |-> IF p <= O THEN L ELSE IF p >= O + L THEN 0 ELSE O + L - p,
      skip      |-> IF p <= O THEN O - p ELSE 0]

Scanned(s, len) ==
  IF s.skip >= len THEN [s EXCEPT !.skip = @ - len]
  ELSE [remaining |-> s.remaining - Min({s.remaining, len - s.skip}), skip |-> 0]

(* One turn of the loop, over a buffer of len bytes.                       *)
LEMMA ScannedRight ==
  ASSUME NEW q \in Requests, NEW i \in 0 .. JobCount(q) - 1, NEW p \in Nat, NEW len \in Nat
  PROVE  Scanned(Behind(q, i, p), len) = Behind(q, i, p + len)
<1> DEFINE O == ChunkOffset(i)
           L == ChunkLen(q, i)
           skip == IF p <= O THEN O - p ELSE 0
           remaining == IF p <= O THEN L ELSE IF p >= O + L THEN 0 ELSE O + L - p
<1>1. O \in Nat /\ L \in Nat \ {0}
  BY ChunkFacts, ReadAssumption
<1> HIDE DEF O, L
<1>2. Behind(q, i, p) = [remaining |-> remaining, skip |-> skip]
  BY DEF Behind, O, L
<1>3. Behind(q, i, p + len) =
        [remaining |-> IF p + len <= O THEN L ELSE IF p + len >= O + L THEN 0 ELSE O + L - (p + len),
         skip      |-> IF p + len <= O THEN O - (p + len) ELSE 0]
  BY DEF Behind, O, L
<1>4. skip \in Nat /\ remaining \in Nat
  BY <1>1
<1>5. CASE skip >= len
  <2>1. Scanned(Behind(q, i, p), len) = [remaining |-> remaining, skip |-> skip - len]
    BY <1>2, <1>5 DEF Scanned
  <2>2. remaining = IF p + len <= O THEN L ELSE IF p + len >= O + L THEN 0 ELSE O + L - (p + len)
    BY <1>1, <1>5
  <2>3. skip - len = IF p + len <= O THEN O - (p + len) ELSE 0
    BY <1>1, <1>5
  <2> QED
    BY <1>3, <2>1, <2>2, <2>3
<1>6. CASE ~(skip >= len)
  <2>1. Scanned(Behind(q, i, p), len) =
          [remaining |-> remaining - Min({remaining, len - skip}), skip |-> 0]
    BY <1>2, <1>6 DEF Scanned
  <2>2. Min({remaining, len - skip}) = IF remaining <= len - skip THEN remaining ELSE len - skip
    <3>1. remaining \in Int /\ len - skip \in Int
      BY <1>4
    <3> HIDE DEF remaining, skip
    <3> QED
      BY <3>1, MinOfTwo
  <2>3. remaining - Min({remaining, len - skip}) =
          IF p + len <= O THEN L ELSE IF p + len >= O + L THEN 0 ELSE O + L - (p + len)
    BY <1>1, <1>6, <2>2
  <2>4. 0 = IF p + len <= O THEN O - (p + len) ELSE 0
    BY <1>1, <1>6
  <2> QED
    BY <1>3, <2>1, <2>3, <2>4
<1> QED
  BY <1>5, <1>6

(* The loop, in closed form.                                               *)
LEMMA ScanIs ==
  ASSUME NEW q \in Requests, NEW i \in 0 .. JobCount(q) - 1
  PROVE  \A b \in 0 .. Len(q.buffers) : Scan(q, i)[b] = Behind(q, i, Held(q)[b])
<1> DEFINE N == Len(q.buffers)
           H == Held(q)
           z == [remaining |-> ChunkLen(q, i), skip |-> ChunkOffset(i)]
           Sc == Scan(q, i)
           S == {n \in 0 .. N : Sc[n] = Behind(q, i, H[n])}
<1>1. /\ N \in Nat
      /\ \A n \in 0 .. N : H[n] \in Nat
      /\ H[0] = 0
      /\ \A n \in 1 .. N : q.buffers[n] \in Nat /\ H[n] = H[n - 1] + q.buffers[n]
  BY HeldFacts, HeldRecursion
<1> HIDE DEF H
<1>2. z = Behind(q, i, H[0])
  BY <1>1, ChunkFacts DEF Behind
<1>3. ASSUME NEW n \in 1 .. N
      PROVE  Scanned(Behind(q, i, H[n - 1]), q.buffers[n]) = Behind(q, i, H[n])
  <2>1. H[n - 1] \in Nat /\ q.buffers[n] \in Nat /\ H[n] = H[n - 1] + q.buffers[n]
    <3>1. n - 1 \in 0 .. N
      BY <1>1
    <3> QED
      BY <1>1, <3>1
  <2> QED
    BY <2>1, ScannedRight
<1>4. \E h : h = [n \in 0 .. N |-> IF n = 0 THEN z ELSE Scanned(h[n - 1], q.buffers[n])]
  <2> DEFINE h == [n \in 0 .. N |-> Behind(q, i, H[n])]
  <2>1. ASSUME NEW n \in 0 .. N
        PROVE  h[n] = IF n = 0 THEN z ELSE Scanned(h[n - 1], q.buffers[n])
    <3>1. CASE n = 0
      BY <1>2, <3>1
    <3>2. CASE n # 0
      <4>1. n \in 1 .. N /\ n - 1 \in 0 .. N
        BY <1>1, <3>2
      <4>2. h[n - 1] = Behind(q, i, H[n - 1])
        BY <4>1
      <4> QED
        BY <1>3, <3>2, <4>1, <4>2
    <3> QED
      BY <3>1, <3>2
  <2>2. h = [n \in 0 .. N |-> IF n = 0 THEN z ELSE Scanned(h[n - 1], q.buffers[n])]
    BY <2>1
  <2> QED
    BY <2>2
<1>5. Sc = CHOOSE h : h = [n \in 0 .. N |-> IF n = 0 THEN z ELSE Scanned(h[n - 1], q.buffers[n])]
  BY DEF Scan, Scanned
<1> HIDE DEF Sc, z
<1>6. Sc = [n \in 0 .. N |-> IF n = 0 THEN z ELSE Scanned(Sc[n - 1], q.buffers[n])]
  BY <1>4, <1>5
<1>7. Sc[0] = z /\ \A n \in 1 .. N : Sc[n] = Scanned(Sc[n - 1], q.buffers[n])
  BY <1>1, <1>6
<1>8. 0 \in S
  BY <1>1, <1>2, <1>7
<1>9. ASSUME NEW n \in 0 .. N - 1, n \in S PROVE n + 1 \in S
  <2>1. n + 1 \in 1 .. N /\ n + 1 \in 0 .. N /\ (n + 1) - 1 = n
    BY <1>1
  <2>2. Sc[n + 1] = Scanned(Behind(q, i, H[n]), q.buffers[n + 1])
    BY <1>7, <1>9, <2>1
  <2>3. Scanned(Behind(q, i, H[n]), q.buffers[n + 1]) = Behind(q, i, H[n + 1])
    BY <1>3, <2>1
  <2> QED
    BY <2>1, <2>2, <2>3
<1> HIDE DEF S
<1>10. 0 .. N \subseteq S
  BY <1>1, <1>8, <1>9, InductionUpTo
<1> QED
  BY <1>10 DEF S, H, Sc

(* A byte of the chunk goes to the place that many bytes into the buffers, *)
(* and to no other.                                                        *)
LEMMA PlacementRight ==
  ASSUME NEW q \in Requests, NEW i \in 0 .. JobCount(q) - 1,
         NEW b \in DOMAIN q.buffers, NEW k \in 1 .. q.buffers[b]
  PROVE  LET at == Held(q)[b - 1] + k - ChunkOffset(i)
         IN Placement[q][i][b][k] = IF at \in 1 .. ChunkLen(q, i) THEN at ELSE 0
<1> DEFINE O == ChunkOffset(i)
           L == ChunkLen(q, i)
           P == Held(q)[b - 1]
           sc == Scan(q, i)[b - 1]
<1>1. b \in 1 .. Len(q.buffers) /\ b - 1 \in 0 .. Len(q.buffers) /\ q.buffers[b] \in Nat
  BY HeldRecursion
<1>2. O \in Nat /\ L \in Nat \ {0} /\ P \in Nat /\ k \in Nat \ {0}
  <2>1. O \in Nat /\ L \in Nat \ {0}
    BY ChunkFacts, ReadAssumption
  <2>2. P \in Nat
    BY <1>1, HeldFacts
  <2>3. k \in Nat \ {0}
    BY <1>1
  <2> QED
    BY <2>1, <2>2, <2>3
<1>3. sc = Behind(q, i, P)
  BY <1>1, ScanIs
<1>4. /\ sc.remaining = IF P <= O THEN L ELSE IF P >= O + L THEN 0 ELSE O + L - P
      /\ sc.skip = IF P <= O THEN O - P ELSE 0
  BY <1>3 DEF Behind
<1>5. Placement[q][i][b][k] =
        IF k \in sc.skip + 1 .. sc.skip + sc.remaining
        THEN L - sc.remaining + (k - sc.skip) ELSE 0
  BY DEF Placement
<1> HIDE DEF O, L, P, sc
<1>6. Placement[q][i][b][k] = IF P + k - O \in 1 .. L THEN P + k - O ELSE 0
  <2>1. CASE P <= O
    BY <1>2, <1>4, <1>5, <2>1
  <2>2. CASE P > O /\ P >= O + L
    BY <1>2, <1>4, <1>5, <2>2
  <2>3. CASE P > O /\ P < O + L
    BY <1>2, <1>4, <1>5, <2>3
  <2> QED
    BY <1>2, <2>1, <2>2, <2>3
<1> QED
  BY <1>6 DEF O, L, P

(* The first n bytes of a chunk, once arrived, are where they belong, and  *)
(* all else is as it was.                                                  *)
LEMMA ArrivedRight ==
  ASSUME NEW q \in Requests, NEW i \in 0 .. JobCount(q) - 1, NEW n \in 0 .. ChunkLen(q, i),
         NEW buffers, DOMAIN buffers = DOMAIN q.buffers,
         \A b \in DOMAIN q.buffers : DOMAIN buffers[b] = 1 .. q.buffers[b]
  PROVE  LET new == Arrived(buffers, q, i, n)
         IN /\ DOMAIN new = DOMAIN q.buffers
            /\ \A b \in DOMAIN q.buffers :
                 /\ DOMAIN new[b] = 1 .. q.buffers[b]
                 /\ \A k \in 1 .. q.buffers[b] :
                      new[b][k] = IF Held(q)[b - 1] + k \in ChunkOffset(i) + 1 .. ChunkOffset(i) + n
                                  THEN q.offset + (Held(q)[b - 1] + k) ELSE buffers[b][k]
<1> DEFINE new == Arrived(buffers, q, i, n)
<1>1. /\ DOMAIN new = DOMAIN q.buffers
      /\ \A b \in DOMAIN q.buffers : DOMAIN new[b] = 1 .. q.buffers[b]
  BY DEF Arrived
<1>2. ASSUME NEW b \in DOMAIN q.buffers, NEW k \in 1 .. q.buffers[b]
      PROVE  new[b][k] = IF Held(q)[b - 1] + k \in ChunkOffset(i) + 1 .. ChunkOffset(i) + n
                         THEN q.offset + (Held(q)[b - 1] + k) ELSE buffers[b][k]
  <2> DEFINE O == ChunkOffset(i)
             L == ChunkLen(q, i)
             P == Held(q)[b - 1]
             at == Placement[q][i][b][k]
  <2>1. new[b][k] = IF at \in 1 .. n THEN q.offset + O + at ELSE buffers[b][k]
    BY DEF Arrived
  <2>2. at = IF P + k - O \in 1 .. L THEN P + k - O ELSE 0
    BY PlacementRight
  <2>3. O \in Nat /\ L \in Nat /\ P \in Nat /\ k \in Nat /\ n \in 0 .. L /\ q.offset \in Nat
    <3>1. b - 1 \in 0 .. Len(q.buffers) /\ q.buffers[b] \in Nat
      BY HeldRecursion
    <3>2. P \in Nat
      BY <3>1, HeldFacts
    <3>3. O \in Nat /\ L \in Nat
      BY ChunkFacts, ReadAssumption
    <3>4. q.offset \in Nat
      BY ReadAssumption
    <3> QED
      BY <3>1, <3>2, <3>3, <3>4
  <2> HIDE DEF O, L, P, at, new
  <2>4. new[b][k] = IF P + k \in O + 1 .. O + n THEN q.offset + (P + k) ELSE buffers[b][k]
    <3>1. CASE P + k \in O + 1 .. O + n
      <4>1. at = P + k - O /\ at \in 1 .. n
        BY <2>2, <2>3, <3>1
      <4>2. q.offset + O + at = q.offset + (P + k)
        BY <2>3, <4>1
      <4> QED
        BY <2>1, <3>1, <4>1, <4>2
    <3>2. CASE P + k \notin O + 1 .. O + n
      <4>1. at \notin 1 .. n
        BY <2>2, <2>3, <3>2
      <4> QED
        BY <2>1, <3>2, <4>1
    <3> QED
      BY <3>1, <3>2
  <2> QED
    BY <2>4 DEF O, P
<1> QED
  BY <1>1, <1>2

-----------------------------------------------------------------------------
(* What stays as it was                                                    *)

LEMMA InitData == Init => DataInv
BY DEF Init, DataInv, InBatch, Reading

(* A batch of which no chunk is settled that was not before, and whose     *)
(* buffers are not touched, is kept.                                       *)
LEMMA KeptStays ==
  ASSUME NEW r \in Readers, Kept(r),
         request'[r] = request[r], data'[r] = data[r], err'[r] = "none" => err[r] = "none",
         err'[r] = "none" =>
           \A c \in 0 .. JobCount(request[r]) - 1 : Settled(r, c)' => Settled(r, c)
  PROVE  Kept(r)'
<1>1. Untouched(r)'
  BY DEF Kept, Untouched, Place
<1>2. ASSUME NEW c \in 0 .. JobCount(request[r]) - 1, Filled(r, c) PROVE Filled(r, c)'
  BY <1>2 DEF Filled, Place
<1> QED
  BY <1>1, <1>2 DEF Kept

LEMMA NotYetSettled ==
  ASSUME NEW r \in Readers, NEW c,
         rpc'[r] = "return" => rpc[r] = "return",
         Reading(r)' => Reading(r),
         Reading(r)' => Outstanding(r) \subseteq Outstanding(r)',
         \A w \in Workers : wpc'[w] = "complete" /\ job'[w].reader = r =>
                              wpc[w] = "complete" /\ job'[w] = job[w],
         Settled(r, c)'
  PROVE  Settled(r, c)
BY DEF Settled, Owner

-----------------------------------------------------------------------------
(* The reader's steps                                                      *)

LEMMA StartData ==
  ASSUME ReadInv, DataInv, NEW r \in Readers, NEW q \in Requests, Start(r, q), ReadInv'
  PROVE  DataInv'
<1>1. /\ ~InBatch(r) /\ ~Reading(r)
      /\ UNCHANGED <<queue, wpc, job>>
  BY DEF Start, InBatch, Reading, workerVars
<1>2. /\ request'[r] = q /\ data'[r] = Blank(q) /\ putting'[r] = 0
      /\ rpc'[r] = IF ReadSize(q) = 0 THEN "return" ELSE "put"
  BY DEF Start, DataInv, ReadInv, TypeOK
<1>3. /\ DOMAIN data' = Readers /\ DOMAIN err' = Readers
      /\ \A s \in Readers \ {r} : /\ request'[s] = request[s] /\ data'[s] = data[s] /\ err'[s] = err[s]
                                  /\ rpc'[s] = rpc[s] /\ putting'[s] = putting[s]
  BY DEF Start, DataInv, ReadInv, TypeOK
<1>4. Kept(r)'
  <2>1. Untouched(r)'
    BY <1>2 DEF Untouched, Blank
  <2>2. ASSUME NEW c \in 0 .. JobCount(q) - 1, Settled(r, c)' PROVE FALSE
    <3>1. ReadSize(q) # 0 /\ rpc'[r] = "put" /\ JobCount(q) \in Nat
      BY <1>2, Sizes
    <3>2. c \in Outstanding(r)'
      BY <1>2 DEF Outstanding
    <3>3. ASSUME NEW w \in Workers, wpc[w] = "complete", job[w].reader = r PROVE FALSE
      BY <1>1, <3>3 DEF ReadInv, Alive, Current, Working
    <3> QED
      BY <1>1, <2>2, <3>1, <3>2, <3>3 DEF Settled, Owner
  <2> QED
    BY <1>2, <2>1, <2>2 DEF Kept
<1>5. ASSUME NEW s \in Readers \ {r}, InBatch(s)' PROVE Kept(s)'
  <2>1. InBatch(s) /\ Kept(s)
    BY <1>3, <1>5 DEF InBatch, Reading, DataInv
  <2>2. Outstanding(s)' = Outstanding(s)
    BY <1>1, <1>3 DEF Outstanding, Working
  <2>3. ASSUME NEW c, Settled(s, c)' PROVE Settled(s, c)
    BY <1>1, <1>3, <2>2, <2>3 DEF Settled, Reading, Owner
  <2> QED
    BY <1>3, <2>1, <2>3, KeptStays
<1> QED
  BY <1>3, <1>4, <1>5 DEF DataInv

(* A reader that goes on in its batch.                                     *)
LEMMA ReaderGoesOn ==
  ASSUME ReadInv, DataInv, NEW r \in Readers, Reading(r), Reading(r)',
         UNCHANGED <<request, data, err, wpc, job>>,
         \A s \in Readers \ {r} : rpc'[s] = rpc[s],
         \A s \in Readers : Outstanding(s)' = Outstanding(s)
  PROVE  DataInv'
<1> SUFFICES ASSUME NEW s \in Readers, InBatch(s)' PROVE Kept(s)'
  BY DEF DataInv
<1>1. InBatch(s) /\ Kept(s) /\ (Reading(s)' <=> Reading(s)) /\ (rpc'[s] = "return" => rpc[s] = "return")
  <2>1. CASE s = r
    BY <2>1 DEF DataInv, InBatch, Reading
  <2>2. CASE s # r
    BY <2>2 DEF DataInv, InBatch, Reading
  <2> QED
    BY <2>1, <2>2
<1>2. ASSUME NEW c, Settled(s, c)' PROVE Settled(s, c)
  BY <1>1, <1>2, NotYetSettled
<1> QED
  BY <1>1, <1>2, KeptStays

LEMMA PutData ==
  ASSUME ReadInv, DataInv, NEW r \in Readers, Put(r), \A s \in Readers : Outstanding(s)' = Outstanding(s)
  PROVE  DataInv'
<1>1. /\ Reading(r) /\ Reading(r)'
      /\ \A s \in Readers \ {r} : rpc'[s] = rpc[s]
      /\ UNCHANGED <<request, data, err, wpc, job>>
  BY DEF Put, Reading, workerVars, ReadInv, TypeOK
<1> QED
  BY <1>1, ReaderGoesOn

LEMMA FutexWaitData ==
  ASSUME ReadInv, DataInv, NEW r \in Readers, FutexWait(r)
  PROVE  DataInv'
<1>1. /\ Reading(r) /\ Reading(r)'
      /\ \A s \in Readers \ {r} : rpc'[s] = rpc[s]
      /\ UNCHANGED <<request, data, err, wpc, job, putting, queue>>
  BY DEF FutexWait, Reading, workerVars, ReadInv, TypeOK
<1>2. \A s \in Readers : Outstanding(s)' = Outstanding(s)
  BY <1>1 DEF Outstanding, Working
<1> QED
  BY <1>1, <1>2, ReaderGoesOn

(* A reader that loads 0 leaves nothing outstanding: every chunk was       *)
(* settled before.                                                         *)
LEMMA LoadData ==
  ASSUME ReadInv, DataInv, NEW r \in Readers, Load(r)
  PROVE  DataInv'
<1>1. /\ Reading(r) /\ rpc[r] = "load"
      /\ rpc'[r] = IF pending[r] = 0 THEN "return" ELSE "futex"
      /\ \A s \in Readers \ {r} : rpc'[s] = rpc[s]
      /\ UNCHANGED <<request, data, err, wpc, job, putting, queue>>
  BY DEF Load, Reading, workerVars, ReadInv, TypeOK
<1>2. \A s \in Readers : Outstanding(s)' = Outstanding(s)
  BY <1>1 DEF Outstanding, Working
<1>3. CASE pending[r] # 0
  <2>1. Reading(r)'
    BY <1>1, <1>3 DEF Reading
  <2> QED
    BY <1>1, <1>2, <2>1, ReaderGoesOn
<1>4. CASE pending[r] = 0
  <2>1. Outstanding(r) = {}
    BY <1>1, <1>4, FiniteOutstanding, FS_EmptySet DEF ReadInv, Counted
  <2>2. \A c : Settled(r, c)
    BY <1>1, <2>1 DEF Settled
  <2>3. ASSUME NEW s \in Readers, InBatch(s)' PROVE Kept(s)'
    <3>1. InBatch(s) /\ Kept(s)
      BY <1>1, <2>3 DEF DataInv, InBatch, Reading
    <3>2. ASSUME NEW c, Settled(s, c)' PROVE Settled(s, c)
      <4>1. CASE s = r
        BY <2>2, <4>1
      <4>2. CASE s # r
        BY <1>1, <1>2, <3>2, <4>2 DEF Settled, Reading, Owner
      <4> QED
        BY <4>1, <4>2
    <3> QED
      BY <1>1, <3>1, <3>2, KeptStays
  <2> QED
    BY <1>1, <2>3 DEF DataInv
<1> QED
  BY <1>3, <1>4

LEMMA ReturnData ==
  ASSUME ReadInv, DataInv, NEW r \in Readers, Return(r)
  PROVE  DataInv'
<1>1. /\ ~InBatch(r)'
      /\ DOMAIN data' = Readers /\ DOMAIN err' = Readers
      /\ \A s \in Readers \ {r} : /\ request'[s] = request[s] /\ data'[s] = data[s] /\ err'[s] = err[s]
                                  /\ rpc'[s] = rpc[s] /\ putting'[s] = putting[s]
      /\ UNCHANGED <<queue, wpc, job>>
  BY DEF Return, InBatch, Reading, workerVars, DataInv, ReadInv, TypeOK
<1>2. ASSUME NEW s \in Readers, InBatch(s)' PROVE Kept(s)'
  <2>1. s # r /\ InBatch(s) /\ Kept(s)
    BY <1>1, <1>2 DEF InBatch, Reading, DataInv
  <2>2. Outstanding(s)' = Outstanding(s)
    BY <1>1, <2>1 DEF Outstanding, Working
  <2>3. ASSUME NEW c, Settled(s, c)' PROVE Settled(s, c)
    BY <1>1, <2>1, <2>2, <2>3 DEF Settled, Reading, Owner
  <2> QED
    BY <1>1, <2>1, <2>3, KeptStays
<1> QED
  BY <1>1, <1>2 DEF DataInv

-----------------------------------------------------------------------------
(* The worker's steps                                                      *)

(* A worker that writes n bytes of its chunk: nothing behind what is read, *)
(* and nothing over a chunk that is in its place.                          *)
LEMMA DeliverKeeps ==
  ASSUME ReadInv, DataInv, NEW w \in Working, NEW o \in Readers, NEW c \in Nat,
         job[w].reader = o, job[w].chunk = c,
         NEW n \in 0 .. ChunkLen(request[o], c), Deliver(w, n), request' = request
  PROVE  /\ DOMAIN data' = Readers /\ \A s \in Readers \ {o} : data'[s] = data[s]
         /\ Untouched(o)'
         /\ \A d \in 0 .. JobCount(request[o]) - 1 : Filled(o, d) => Filled(o, d)'
         /\ n = ChunkLen(request[o], c) => Filled(o, c)'
<1>1. PICK q \in Requests : request[o] = q
  BY DEF ReadInv, TypeOK
<1>2. c \in Outstanding(o) /\ Reading(o)
  BY JobsOutstanding DEF ReadInv, Alive, Current
<1>3. c \in 0 .. JobCount(q) - 1
  BY <1>1, <1>2 DEF Outstanding
<1>4. Untouched(o)
  BY <1>2 DEF DataInv, InBatch, Kept
<1>5. /\ data'[o] = Arrived(data[o], q, c, n)
      /\ DOMAIN data' = Readers /\ \A s \in Readers \ {o} : data'[s] = data[s]
  BY <1>1 DEF Deliver, Owner, DataInv
<1>6. /\ DOMAIN data'[o] = DOMAIN q.buffers
      /\ \A b \in DOMAIN q.buffers :
           /\ DOMAIN data'[o][b] = 1 .. q.buffers[b]
           /\ \A k \in 1 .. q.buffers[b] :
                data'[o][b][k] = IF Held(q)[b - 1] + k \in ChunkOffset(c) + 1 .. ChunkOffset(c) + n
                                 THEN q.offset + (Held(q)[b - 1] + k) ELSE data[o][b][k]
  <2>1. /\ DOMAIN data[o] = DOMAIN q.buffers
        /\ \A b \in DOMAIN q.buffers : DOMAIN data[o][b] = 1 .. q.buffers[b]
    BY <1>1, <1>4 DEF Untouched
  <2>2. n \in 0 .. ChunkLen(q, c)
    BY <1>1
  <2> QED
    BY <1>3, <1>5, <2>1, <2>2, ArrivedRight
<1>7. Untouched(o)'
  <2>1. ASSUME NEW b \in DOMAIN q.buffers, NEW k \in 1 .. q.buffers[b],
               Held(q)[b - 1] + k > ReadSize(q)
        PROVE  data'[o][b][k] = 0
    <3>1. data[o][b][k] = 0
      BY <1>1, <1>4, <2>1 DEF Untouched, Place
    <3>2. Held(q)[b - 1] + k \in Nat
      <4>1. b - 1 \in 0 .. Len(q.buffers) /\ q.buffers[b] \in Nat
        BY HeldRecursion
      <4> QED
        BY <4>1, HeldFacts
    <3>3. ChunkOffset(c) \in Nat /\ n \in Nat /\ ChunkOffset(c) + n <= ReadSize(q) /\ ReadSize(q) \in Nat
      BY <1>1, <1>3, ChunkFacts, Sizes, ReadAssumption
    <3> QED
      BY <1>6, <2>1, <3>1, <3>2, <3>3
  <2> QED
    BY <1>1, <1>6, <2>1 DEF Untouched, Place
<1>8. ASSUME NEW d \in 0 .. JobCount(q) - 1, Filled(o, d) PROVE Filled(o, d)'
  BY <1>1, <1>6, <1>8 DEF Filled, Place
<1>9. ASSUME n = ChunkLen(q, c) PROVE Filled(o, c)'
  BY <1>1, <1>6, <1>9 DEF Filled, Place
<1> QED
  BY <1>1, <1>5, <1>7, <1>8, <1>9

(* A step of a worker that touches no buffer, fails no batch, and settles  *)
(* no chunk that was not, is of no account.                                *)
LEMMA WorkerGoesOn ==
  ASSUME ReadInv, DataInv,
         UNCHANGED <<rpc, request, data, err>>,
         \A s \in Readers, c \in Nat : Settled(s, c)' /\ err[s] = "none" => Settled(s, c)
  PROVE  DataInv'
<1> SUFFICES ASSUME NEW s \in Readers, InBatch(s)' PROVE Kept(s)'
  BY DEF DataInv
<1>1. InBatch(s) /\ Kept(s)
  BY DEF DataInv, InBatch, Reading
<1>2. JobCount(request[s]) \in Nat
  BY Sizes DEF ReadInv, TypeOK
<1>3. \A c \in 0 .. JobCount(request[s]) - 1 : c \in Nat
  BY <1>2
<1> QED
  BY <1>1, <1>3, KeptStays

LEMMA GetOneData ==
  ASSUME ReadInv, DataInv, NEW w \in Workers, GetOne(w), \A s \in Readers : Outstanding(s)' = Outstanding(s)
  PROVE  DataInv'
<1>1. /\ UNCHANGED <<rpc, request, data, err>>
      /\ \A v \in Workers : wpc'[v] = "complete" => wpc[v] = "complete" /\ job'[v] = job[v]
  BY DEF GetOne, readerVars, ReadInv, TypeOK
<1>2. ASSUME NEW s \in Readers, NEW c \in Nat, Settled(s, c)' PROVE Settled(s, c)
  <2>1. Reading(s)' <=> Reading(s)
    BY <1>1 DEF Reading
  <2> QED
    BY <1>1, <1>2, <2>1, NotYetSettled
<1> QED
  BY <1>1, <1>2, WorkerGoesOn

(* Only a batch that has failed gives up a chunk unread.                   *)
LEMMA CheckData ==
  ASSUME ReadInv, DataInv, NEW w \in Workers, Check(w), \A s \in Readers : Outstanding(s)' = Outstanding(s)
  PROVE  DataInv'
<1>1. PICK o \in Readers : job[w].reader = o
  BY JobTypes DEF ReadInv
<1>2. /\ UNCHANGED <<rpc, request, data, err, job>>
      /\ wpc'[w] = IF err[o] # "none" THEN "complete" ELSE "perform"
      /\ \A v \in Workers \ {w} : wpc'[v] = wpc[v]
  BY <1>1 DEF Check, Owner, readerVars, ReadInv, TypeOK
<1>3. ASSUME NEW s \in Readers, NEW c \in Nat, Settled(s, c)', err[s] = "none" PROVE Settled(s, c)
  <2>1. Reading(s)' <=> Reading(s)
    BY <1>2 DEF Reading
  <2>2. ASSUME NEW v \in Workers, wpc'[v] = "complete", job'[v].reader = s
        PROVE  wpc[v] = "complete" /\ job'[v] = job[v]
    BY <1>1, <1>2, <1>3, <2>2
  <2> QED
    BY <1>2, <1>3, <2>1, <2>2, NotYetSettled
<1> QED
  BY <1>2, <1>3, WorkerGoesOn

(* Whoever else reads is not touched by what a worker does to its batch.   *)
LEMMA OthersKept ==
  ASSUME ReadInv, DataInv, NEW w \in Workers, NEW o \in Readers, job[w].reader = o,
         UNCHANGED <<rpc, request, job>>,
         \A v \in Workers \ {w} : wpc'[v] = wpc[v],
         \A s \in Readers : Outstanding(s)' = Outstanding(s),
         \A s \in Readers \ {o} : data'[s] = data[s] /\ err'[s] = err[s]
  PROVE  \A s \in Readers \ {o} : InBatch(s)' => Kept(s)'
<1> SUFFICES ASSUME NEW s \in Readers \ {o}, InBatch(s)' PROVE Kept(s)'
  OBVIOUS
<1>1. InBatch(s) /\ Kept(s) /\ (Reading(s)' <=> Reading(s))
  BY DEF DataInv, InBatch, Reading
<1>2. ASSUME NEW c, Settled(s, c)' PROVE Settled(s, c)
  BY <1>1, <1>2, NotYetSettled
<1> QED
  BY <1>1, <1>2, KeptStays

LEMMA PerformData ==
  ASSUME ReadInv, DataInv, NEW w \in Workers, Perform(w), \A s \in Readers : Outstanding(s)' = Outstanding(s)
  PROVE  DataInv'
<1>1. PICK o \in Readers, c \in Nat : job[w].reader = o /\ job[w].chunk = c
  BY JobTypes DEF ReadInv
<1>2. /\ UNCHANGED <<rpc, request, err, job>>
      /\ wpc[w] = "perform" /\ wpc'[w] = "complete" /\ w \in Working
      /\ \A v \in Workers \ {w} : wpc'[v] = wpc[v]
      /\ Deliver(w, ChunkLen(request[o], c))
  BY <1>1 DEF Perform, Length, Owner, readerVars, Working, ReadInv, TypeOK
<1>3. PICK q \in Requests : request[o] = q
  BY DEF ReadInv, TypeOK
<1>4. c \in 0 .. JobCount(q) - 1 /\ Reading(o)
  BY <1>1, <1>2, <1>3, JobsOutstanding DEF ReadInv, Alive, Current, Outstanding
<1>5. ChunkLen(request[o], c) \in 0 .. ChunkLen(request[o], c)
  BY <1>3, <1>4, ChunkFacts, ReadAssumption
<1>6. /\ DOMAIN data' = Readers /\ \A s \in Readers \ {o} : data'[s] = data[s]
      /\ Untouched(o)'
      /\ \A d \in 0 .. JobCount(request[o]) - 1 : Filled(o, d) => Filled(o, d)'
      /\ Filled(o, c)'
  BY <1>1, <1>2, <1>5, DeliverKeeps
<1>7. Kept(o)'
  <2>1. Kept(o)
    BY <1>4 DEF DataInv, InBatch
  <2>2. ASSUME NEW d \in 0 .. JobCount(q) - 1, Settled(o, d)', d # c PROVE Settled(o, d)
    BY <1>1, <1>2, <2>2 DEF Settled, Reading, Owner
  <2>3. ASSUME err[o] = "none", NEW d \in 0 .. JobCount(q) - 1, Settled(o, d)' PROVE Filled(o, d)'
    BY <1>3, <1>6, <2>1, <2>2, <2>3 DEF Kept
  <2> QED
    BY <1>2, <1>3, <1>6, <2>3 DEF Kept
<1>8. \A s \in Readers \ {o} : InBatch(s)' => Kept(s)'
  BY <1>1, <1>2, <1>6, OthersKept
<1> QED
  BY <1>2, <1>6, <1>7, <1>8 DEF DataInv

LEMMA PerformRefusedData ==
  ASSUME ReadInv, DataInv, NEW w \in Workers, PerformRefused(w),
         \A s \in Readers : Outstanding(s)' = Outstanding(s)
  PROVE  DataInv'
<1>1. PICK o \in Readers : job[w].reader = o
  BY JobTypes DEF ReadInv
<1>2. /\ UNCHANGED <<rpc, request, data, job>>
      /\ \A v \in Workers \ {w} : wpc'[v] = wpc[v]
      /\ DOMAIN err' = Readers /\ err'[o] # "none" /\ \A s \in Readers \ {o} : err'[s] = err[s]
  BY <1>1 DEF PerformRefused, Fail, Owner, readerVars, DataInv, ReadInv, TypeOK
<1>3. InBatch(o)' => Kept(o)'
  <2>1. InBatch(o)' => Untouched(o)
    BY <1>2 DEF DataInv, InBatch, Reading, Kept
  <2> QED
    BY <1>2, <2>1 DEF Kept, Untouched, Place
<1>4. \A s \in Readers \ {o} : InBatch(s)' => Kept(s)'
  BY <1>1, <1>2, OthersKept
<1> QED
  BY <1>2, <1>3, <1>4 DEF DataInv

LEMMA PerformBrokenData ==
  ASSUME ReadInv, DataInv, NEW w \in Workers, NEW n \in 0 .. ChunkSize - 1, PerformBroken(w, n),
         \A s \in Readers : Outstanding(s)' = Outstanding(s)
  PROVE  DataInv'
<1>1. PICK o \in Readers, c \in Nat : job[w].reader = o /\ job[w].chunk = c
  BY JobTypes DEF ReadInv
<1>2. /\ UNCHANGED <<rpc, request, job>>
      /\ w \in Working
      /\ \A v \in Workers \ {w} : wpc'[v] = wpc[v]
      /\ Deliver(w, n) /\ n < ChunkLen(request[o], c)
  BY <1>1 DEF PerformBroken, Length, Owner, readerVars, Working, ReadInv, TypeOK
<1>3. /\ DOMAIN err' = Readers /\ \A s \in Readers \ {o} : err'[s] = err[s]
      /\ err'[o] # "none" \/ (err'[o] = err[o] /\ wpc'[w] = "check")
  BY <1>1 DEF PerformBroken, Fail, Owner, DataInv, ReadInv, TypeOK
<1>4. PICK q \in Requests : request[o] = q
  BY DEF ReadInv, TypeOK
<1>5. c \in 0 .. JobCount(q) - 1 /\ Reading(o)
  BY <1>1, <1>2, <1>4, JobsOutstanding DEF ReadInv, Alive, Current, Outstanding
<1>6. n \in 0 .. ChunkLen(request[o], c)
  BY <1>2, <1>4, <1>5, ChunkFacts, ReadAssumption
<1>7. /\ DOMAIN data' = Readers /\ \A s \in Readers \ {o} : data'[s] = data[s]
      /\ Untouched(o)'
      /\ \A d \in 0 .. JobCount(request[o]) - 1 : Filled(o, d) => Filled(o, d)'
  BY <1>1, <1>2, <1>6, DeliverKeeps
<1>8. Kept(o)'
  <2>1. Kept(o)
    BY <1>5 DEF DataInv, InBatch
  <2>2. ASSUME err'[o] = "none", NEW d \in 0 .. JobCount(q) - 1, Settled(o, d)' PROVE Settled(o, d)
    BY <1>1, <1>2, <1>3, <2>2 DEF Settled, Reading, Owner
  <2>3. ASSUME err'[o] = "none", NEW d \in 0 .. JobCount(q) - 1, Settled(o, d)' PROVE Filled(o, d)'
    BY <1>3, <1>4, <1>7, <2>1, <2>2, <2>3 DEF Kept
  <2> QED
    BY <1>2, <1>4, <1>7, <2>3 DEF Kept
<1>9. \A s \in Readers \ {o} : InBatch(s)' => Kept(s)'
  BY <1>1, <1>2, <1>3, <1>7, OthersKept
<1> QED
  BY <1>3, <1>7, <1>8, <1>9 DEF DataInv

(* The chunk that is no longer outstanding was in its worker's hands.      *)
LEMMA CompleteData ==
  ASSUME ReadInv, DataInv, NEW w \in Workers, Complete(w),
         \A r \in Readers : Outstanding(r)' = IF r = job[w].reader THEN Outstanding(r) \ {job[w].chunk}
                                              ELSE Outstanding(r)
  PROVE  DataInv'
<1>1. /\ UNCHANGED <<rpc, request, data, err>>
      /\ wpc[w] = "complete" /\ wpc'[w] # "complete"
      /\ \A v \in Workers \ {w} : wpc'[v] = wpc[v] /\ job'[v] = job[v]
  BY DEF Complete, readerVars, ReadInv, TypeOK
<1>2. ASSUME NEW s \in Readers, NEW c \in Nat, Settled(s, c)' PROVE Settled(s, c)
  <2>1. Reading(s)' <=> Reading(s)
    BY <1>1 DEF Reading
  <2>2. CASE rpc[s] = "return"
    BY <2>2 DEF Settled
  <2>3. CASE Reading(s) /\ c \notin Outstanding(s)'
    <3>1. CASE c \notin Outstanding(s)
      BY <2>3, <3>1 DEF Settled
    <3>2. CASE c \in Outstanding(s)
      <4>1. s = job[w].reader /\ c = job[w].chunk
        BY <2>3, <3>2
      <4> QED
        BY <1>1, <4>1 DEF Settled, Owner
    <3> QED
      BY <3>1, <3>2
  <2>4. CASE \E v \in Workers : wpc'[v] = "complete" /\ job'[v].reader = s /\ job'[v].chunk = c
    BY <1>1, <2>4 DEF Settled, Owner
  <2> QED
    BY <1>1, <1>2, <2>1, <2>2, <2>3, <2>4 DEF Settled, Owner
<1> QED
  BY <1>1, <1>2, WorkerGoesOn

LEMMA WakeData ==
  ASSUME ReadInv, DataInv, NEW w \in Workers, Wake(w), \A s \in Readers : Outstanding(s)' = Outstanding(s)
  PROVE  DataInv'
<1>1. PICK o \in Readers : job[w].reader = o
  BY JobTypes DEF ReadInv
<1>2. /\ UNCHANGED <<request, data, err>>
      /\ rpc'[o] = (IF rpc[o] = "asleep" THEN "load" ELSE rpc[o])
      /\ \A s \in Readers \ {o} : rpc'[s] = rpc[s]
      /\ \A v \in Workers : wpc'[v] = "complete" => wpc[v] = "complete" /\ job'[v] = job[v]
  BY <1>1 DEF Wake, Owner, ReadInv, TypeOK
<1> SUFFICES ASSUME NEW s \in Readers, InBatch(s)' PROVE Kept(s)'
  BY <1>2 DEF DataInv
<1>3. InBatch(s) /\ Kept(s) /\ (Reading(s)' <=> Reading(s)) /\ (rpc'[s] = "return" => rpc[s] = "return")
  <2>1. CASE s = o
    BY <1>2, <2>1 DEF DataInv, InBatch, Reading
  <2>2. CASE s # o
    BY <1>2, <2>2 DEF DataInv, InBatch, Reading
  <2> QED
    BY <2>1, <2>2
<1>4. ASSUME NEW c, Settled(s, c)' PROVE Settled(s, c)
  BY <1>2, <1>3, <1>4, NotYetSettled
<1> QED
  BY <1>2, <1>3, <1>4, KeptStays

-----------------------------------------------------------------------------
LEMMA NextData == ReadInv /\ DataInv /\ [Next]_vars => DataInv'
<1> SUFFICES ASSUME ReadInv, DataInv, [Next]_vars PROVE DataInv'
  OBVIOUS
<1>1. ASSUME NEW r \in Readers, ReaderStep(r) PROVE DataInv'
  BY <1>1, PutInv, PutData, LoadData, FutexWaitData, ReturnData DEF ReaderStep
<1>2. ASSUME NEW r \in Readers, NEW q \in Requests, Start(r, q) PROVE DataInv'
  BY <1>2, StartInv, StartData
<1>3. ASSUME NEW w \in Workers, WorkerStep(w) PROVE DataInv'
  <2>1. CASE GetOne(w)
    BY <2>1, GetOneInv, GetOneData
  <2>2. CASE Check(w)
    BY <2>2, WorkInv, CheckData
  <2>3. CASE Perform(w)
    BY <2>3, WorkInv, PerformData
  <2>4. CASE Complete(w)
    BY <2>4, CompleteInv, CompleteData
  <2>5. CASE Wake(w)
    BY <2>5, WakeInv, WakeData
  <2> QED
    BY <1>3, <2>1, <2>2, <2>3, <2>4, <2>5 DEF WorkerStep
<1>4. ASSUME NEW w \in Workers, PerformRefused(w) PROVE DataInv'
  BY <1>4, WorkInv, PerformRefusedData
<1>5. ASSUME NEW w \in Workers, NEW n \in 0 .. ChunkSize - 1, PerformBroken(w, n) PROVE DataInv'
  BY <1>5, WorkInv, PerformBrokenData
<1>6. ASSUME UNCHANGED vars PROVE DataInv'
  <2>1. UNCHANGED <<rpc, request, data, err, putting, queue, wpc, job>>
    BY <1>6 DEF vars, readerVars, workerVars
  <2>2. \A s \in Readers : Outstanding(s)' = Outstanding(s)
    BY <2>1 DEF Outstanding, Working
  <2>3. \A s \in Readers, c \in Nat : Settled(s, c)' => Settled(s, c)
    BY <2>1, <2>2 DEF Settled, Reading, Owner
  <2> QED
    BY <2>1, <2>3, WorkerGoesOn
<1> QED
  BY <1>1, <1>2, <1>3, <1>4, <1>5, <1>6 DEF Next

(* What is settled is in its place, all along the read.                    *)
THEOREM SettledIsFilled == Spec => []DataInv
<1>1. Spec => []ReadInv
  BY CountsAreExact
<1> QED
  BY <1>1, InitData, NextData, PTL DEF Spec

(* A read that returns without an error has filled the buffers, in order   *)
(* and across their ends, with what the file holds there, and has touched  *)
(* nothing behind it: whatever the chunks, the order of the workers, the   *)
(* failures halfway and the retries.                                       *)
THEOREM ReadsReturnTheBytes == Spec => []ReturnsTheBytes
<1>1. ReadInv /\ DataInv => ReturnsTheBytes
  <2> SUFFICES ASSUME ReadInv, DataInv, NEW r \in Readers, rpc[r] = "return", err[r] = "none",
                      NEW b \in DOMAIN request[r].buffers, NEW k \in 1 .. request[r].buffers[b]
               PROVE  data[r][b][k] = IF Held(request[r])[b - 1] + k <= ReadSize(request[r])
                                      THEN request[r].offset + (Held(request[r])[b - 1] + k) ELSE 0
    BY DEF ReturnsTheBytes
  <2>1. PICK q \in Requests : request[r] = q
    BY DEF ReadInv, TypeOK
  <2> DEFINE pos == Held(q)[b - 1] + k
  <2>2. pos \in Nat \ {0} /\ ReadSize(q) \in Nat
    <3>1. b - 1 \in 0 .. Len(q.buffers) /\ q.buffers[b] \in Nat
      BY <2>1, HeldRecursion
    <3> QED
      BY <2>1, <3>1, HeldFacts, Sizes
  <2>3. Kept(r)
    BY DEF DataInv, InBatch
  <2>4. CASE pos <= ReadSize(q)
    <3>1. PICK i \in 0 .. JobCount(q) - 1 : pos \in ChunkOffset(i) + 1 .. ChunkOffset(i) + ChunkLen(q, i)
      BY <2>2, <2>4, ChunkOf
    <3>2. Filled(r, i)
      BY <2>1, <2>3 DEF Kept, Settled
    <3> QED
      BY <2>1, <2>4, <3>1, <3>2 DEF Filled, Place
  <2>5. CASE ~(pos <= ReadSize(q))
    BY <2>1, <2>2, <2>3, <2>5 DEF Kept, Untouched, Place
  <2> QED
    BY <2>1, <2>4, <2>5
<1> QED
  BY <1>1, CountsAreExact, SettledIsFilled, PTL

=============================================================================
