---------------------------- MODULE ParallelRead ----------------------------
(***************************************************************************)
(* vfs/parallel_read.zig, with performRead and Job.perform of its clients  *)
(* hf.zig, s3.zig and gcs.zig: a read of a remote file is cut into chunks, *)
(* each a job of a queue that a pool of workers shares; a worker fetches   *)
(* the chunk over HTTP, trying again a bounded number of times, and writes *)
(* it into the reader's buffers. The reader keeps the batch, the count of  *)
(* its pending jobs and their first error, on its own stack, waits on the  *)
(* count as on a futex and then returns: what a worker did with the batch  *)
(* after that, it would do to memory that is in use for something else.    *)
(*                                                                         *)
(* The file is the bytes 1 .. FileSize, and 0 is a byte that no one wrote. *)
(* A server honours the range it is asked for. A reader is not canceled    *)
(* while it reads, and the pool is closed after the last read.             *)
(***************************************************************************)
EXTENDS Integers, Sequences, FiniteSets, SequencesExt, FiniteSetsExt

CONSTANTS
  Readers,     \* the tasks that read, each from a stack of its own
  Workers,     \* the workers of the pool
  FileSize,
  Requests,    \* what may be read: records of offset and buffers (their lengths)
  ChunkSize,   \* chunk_size
  Capacity,    \* queue_capacity
  MaxRetries,  \* max_retries
  Reads,       \* bound: the reads, of all the readers
  Faults       \* bound: the requests that fail

ASSUME ReadAssumption ==
  /\ Readers # {} /\ Workers # {} /\ Requests # {}
  /\ FileSize \in Nat
  /\ ChunkSize \in Nat \ {0}
  /\ Capacity \in Nat \ {0}
  /\ MaxRetries \in Nat
  /\ Reads \in Nat
  /\ \A q \in Requests : q.offset \in Nat /\ q.buffers \in Seq(Nat)
  /\ Faults \in Nat

VARIABLES
  rpc,      \* where a reader is in performRead
  request,  \* what it reads
  round,    \* how many batches were on its stack before this one
  putting,  \* the jobs putAll has put
  pending,  \* the batch's count
  err,      \* the batch's error
  seen,     \* the count the reader loaded last
  data,     \* the reader's buffers
  queue,    \* job_queue
  wpc,      \* where a worker is in its loop
  job,      \* its job
  attempt,  \* its attempt
  faults    \* bound: how many requests have failed

readerVars == <<rpc, request, round, putting, seen>>
workerVars == <<wpc, job, attempt, faults>>
vars == <<readerVars, pending, err, data, queue, workerVars>>

-----------------------------------------------------------------------------
(* What a read is cut into                                                 *)

(* The bytes the first n buffers hold.                                     *)
Held(q) ==
  LET held[n \in 0 .. Len(q.buffers)] == IF n = 0 THEN 0 ELSE held[n - 1] + q.buffers[n]
  IN held
Requested(q) == Held(q)[Len(q.buffers)]

(* readSize: what there is of what was asked for.                          *)
ReadSize(q) == IF q.offset >= FileSize THEN 0 ELSE Min({FileSize - q.offset, Requested(q)})
JobCount(q) == (ReadSize(q) + ChunkSize - 1) \div ChunkSize

ChunkOffset(i) == i * ChunkSize

ChunkLen(q, i) == Min({ChunkSize, ReadSize(q) - ChunkOffset(i)})

(* Mutant: what was skipped in one buffer is skipped again in the next.    *)
ScanKeepsSkip(q, i) ==
  LET scan[b \in 0 .. Len(q.buffers)] ==
        IF b = 0 THEN [remaining |-> ChunkLen(q, i), skip |-> ChunkOffset(i)]
        ELSE LET s == scan[b - 1]
                 len == q.buffers[b]
             IN IF s.skip >= len THEN [s EXCEPT !.skip = @ - len]
                ELSE [s EXCEPT !.remaining = @ - Min({@, len - s.skip})]
  IN scan

(* readChunk: how much of the chunk remains, and how much is to be skipped *)
(* before it, behind the first b buffers.                                  *)
Scan(q, i) ==
  LET scan[b \in 0 .. Len(q.buffers)] ==
        IF b = 0 THEN [remaining |-> ChunkLen(q, i), skip |-> ChunkOffset(i)]
        ELSE LET s == scan[b - 1]
                 len == q.buffers[b]
             IN IF s.skip >= len THEN [s EXCEPT !.skip = @ - len]
                ELSE [remaining |-> s.remaining - Min({s.remaining, len - s.skip}), skip |-> 0]
  IN scan

(* Which byte of chunk i goes to place k of buffer b, that is to one of    *)
(* the remaining places behind what is skipped: 0 for none.                *)
Placement ==
  [q \in Requests |-> [i \in 0 .. JobCount(q) - 1 |->
     LET scan == Scan(q, i)
     IN [b \in DOMAIN q.buffers |-> [k \in 1 .. q.buffers[b] |->
          LET s == scan[b - 1]
          IN IF k \in s.skip + 1 .. s.skip + s.remaining
             THEN ChunkLen(q, i) - s.remaining + (k - s.skip) ELSE 0]]]]

Blank(q) == [b \in DOMAIN q.buffers |-> [k \in 1 .. q.buffers[b] |-> 0]]

(* The buffers once the first n bytes of chunk i have arrived.             *)
Arrived(buffers, q, i, n) ==
  [b \in DOMAIN buffers |-> [k \in DOMAIN buffers[b] |->
     LET at == Placement[q][i][b][k]
     IN IF at \in 1 .. n THEN q.offset + ChunkOffset(i) + at ELSE buffers[b][k]]]

-----------------------------------------------------------------------------
Nothing == [reader |-> CHOOSE r \in Readers : TRUE, chunk |-> 0, round |-> 0]
NoBatch == CHOOSE q \in Requests : TRUE

Init ==
  /\ rpc = [r \in Readers |-> "start"]
  /\ request = [r \in Readers |-> NoBatch]
  /\ round = [r \in Readers |-> 0]
  /\ putting = [r \in Readers |-> 0]
  /\ pending = [r \in Readers |-> 0]
  /\ err = [r \in Readers |-> "none"]
  /\ seen = [r \in Readers |-> 0]
  /\ data = [r \in Readers |-> Blank(NoBatch)]
  /\ queue = <<>>
  /\ wpc = [w \in Workers |-> "idle"]
  /\ job = [w \in Workers |-> Nothing]
  /\ attempt = [w \in Workers |-> 0]
  /\ faults = 0

-----------------------------------------------------------------------------
(* performRead                                                             *)

(* A batch is made where the one before was.                               *)
Start(r, q) ==
  /\ rpc[r] = "start"
  /\ FoldFunction(+, 0, round) < Reads
  /\ round' = [round EXCEPT ![r] = @ + 1]
  /\ request' = [request EXCEPT ![r] = q]
  /\ data' = [data EXCEPT ![r] = Blank(q)]
  /\ pending' = [pending EXCEPT ![r] = JobCount(q)]
  /\ err' = [err EXCEPT ![r] = "none"]
  /\ putting' = [putting EXCEPT ![r] = 0]
  /\ rpc' = [rpc EXCEPT ![r] = IF ReadSize(q) = 0 THEN "return" ELSE "put"]
  /\ UNCHANGED <<seen, queue, workerVars>>

(* putAll: one job after the other, as there is room.                      *)
Put(r) ==
  /\ rpc[r] = "put"
  /\ Len(queue) < Capacity
  /\ queue' = Append(queue, [reader |-> r, chunk |-> putting[r], round |-> round[r]])
  /\ putting' = [putting EXCEPT ![r] = @ + 1]
  /\ rpc' = [rpc EXCEPT ![r] = IF putting'[r] = JobCount(request[r]) THEN "load" ELSE "put"]
  /\ UNCHANGED <<request, round, pending, err, seen, data, workerVars>>

(* waitUncancelable: the count is loaded ...                               *)
Load(r) ==
  /\ rpc[r] = "load"
  /\ seen' = [seen EXCEPT ![r] = pending[r]]
  /\ rpc' = [rpc EXCEPT ![r] = IF pending[r] = 0 THEN "return" ELSE "futex"]
  /\ UNCHANGED <<request, round, putting, pending, err, data, queue, workerVars>>

(* Mutant: the reader sleeps whatever the count is by now.                 *)
FutexWaitBlind(r) ==
  /\ rpc[r] = "futex"
  /\ rpc' = [rpc EXCEPT ![r] = "asleep"]
  /\ seen' = [seen EXCEPT ![r] = 0]
  /\ UNCHANGED <<request, round, putting, pending, err, data, queue, workerVars>>

(* ... and slept on, unless it has changed since.                          *)
FutexWait(r) ==
  /\ rpc[r] = "futex"
  /\ rpc' = [rpc EXCEPT ![r] = IF pending[r] = seen[r] THEN "asleep" ELSE "load"]
  /\ seen' = [seen EXCEPT ![r] = 0]
  /\ UNCHANGED <<request, round, putting, pending, err, data, queue, workerVars>>

(* The batch's error, or read_size. The stack may be used again.           *)
Return(r) ==
  /\ rpc[r] = "return"
  /\ rpc' = [rpc EXCEPT ![r] = "start"]
  /\ request' = [request EXCEPT ![r] = NoBatch]
  /\ data' = [data EXCEPT ![r] = Blank(NoBatch)]
  /\ err' = [err EXCEPT ![r] = "none"]
  /\ putting' = [putting EXCEPT ![r] = 0]
  /\ UNCHANGED <<round, pending, seen, queue, workerVars>>

-----------------------------------------------------------------------------
(* A worker. Everything it does to a batch it does through the pointer in  *)
(* its job, that is to whatever is on that reader's stack by then.         *)

Owner(w) == job[w].reader

GetOne(w) ==
  /\ wpc[w] = "idle"
  /\ queue # <<>>
  /\ job' = [job EXCEPT ![w] = Head(queue)]
  /\ queue' = Tail(queue)
  /\ wpc' = [wpc EXCEPT ![w] = "check"]
  /\ UNCHANGED <<readerVars, pending, err, data, attempt, faults>>

(* A batch that has failed is not worked for any more.                     *)
Check(w) ==
  /\ wpc[w] = "check"
  /\ wpc' = [wpc EXCEPT ![w] = IF err[Owner(w)] # "none" THEN "complete" ELSE "perform"]
  /\ UNCHANGED <<readerVars, pending, err, data, queue, job, attempt, faults>>

(* n bytes of the chunk have been written to the reader's buffers.         *)
Deliver(w, n) ==
  data' = [data EXCEPT ![Owner(w)] = Arrived(@, request[Owner(w)], job[w].chunk, n)]

Length(w) == ChunkLen(request[Owner(w)], job[w].chunk)

Perform(w) ==
  /\ wpc[w] = "perform"
  /\ Deliver(w, Length(w))
  /\ wpc' = [wpc EXCEPT ![w] = "complete"]
  /\ UNCHANGED <<readerVars, pending, err, queue, job, attempt, faults>>

(* fail: the first error stays.                                            *)
Fail(w, e) == err' = [err EXCEPT ![Owner(w)] = IF @ = "none" THEN e ELSE @]

(* An answer that another attempt would not change.                        *)
PerformRefused(w) ==
  /\ faults < Faults
  /\ faults' = faults + 1
  /\ wpc[w] = "perform"
  /\ Fail(w, "refused")
  /\ wpc' = [wpc EXCEPT ![w] = "complete"]
  /\ UNCHANGED <<readerVars, pending, data, queue, job, attempt>>

(* A transient failure, after n bytes of the chunk: again, after a while,  *)
(* max_retries times.                                                      *)
PerformBroken(w, n) ==
  /\ faults < Faults
  /\ faults' = faults + 1
  /\ wpc[w] = "perform"
  /\ n < Length(w)
  /\ Deliver(w, n)
  /\ IF attempt[w] >= MaxRetries
     THEN Fail(w, "exhausted") /\ wpc' = [wpc EXCEPT ![w] = "complete"] /\ UNCHANGED attempt
     ELSE /\ wpc' = [wpc EXCEPT ![w] = "check"]
          /\ attempt' = [attempt EXCEPT ![w] = @ + 1]
          /\ UNCHANGED err
  /\ UNCHANGED <<readerVars, pending, queue, job>>

(* Mutant: a failed batch is completed at once, for all of its jobs.       *)
CompleteFailedBatch(w) ==
  /\ wpc[w] = "complete"
  /\ pending' = [pending EXCEPT ![Owner(w)] = IF err[Owner(w)] # "none" \/ @ = 0 THEN 0 ELSE @ - 1]
  /\ wpc' = [wpc EXCEPT ![w] = IF pending'[Owner(w)] = 0 THEN "wake" ELSE "idle"]
  /\ job' = [job EXCEPT ![w] = IF wpc'[w] = "wake" THEN @ ELSE Nothing]
  /\ attempt' = [attempt EXCEPT ![w] = 0]
  /\ UNCHANGED <<readerVars, err, data, queue, faults>>

(* completeOne: the count goes down, and from then on the batch may be     *)
(* gone; the worker that brought it to 0 ...                               *)
Complete(w) ==
  /\ wpc[w] = "complete"
  /\ pending' = [pending EXCEPT ![Owner(w)] = @ - 1]
  /\ wpc' = [wpc EXCEPT ![w] = IF pending[Owner(w)] = 1 THEN "wake" ELSE "idle"]
  /\ job' = [job EXCEPT ![w] = IF wpc'[w] = "wake" THEN @ ELSE Nothing]
  /\ attempt' = [attempt EXCEPT ![w] = 0]
  /\ UNCHANGED <<readerVars, err, data, queue, faults>>

(* Mutant: nobody is woken.                                                *)
WakeNone(w) ==
  /\ wpc[w] = "wake"
  /\ wpc' = [wpc EXCEPT ![w] = "idle"]
  /\ job' = [job EXCEPT ![w] = Nothing]
  /\ UNCHANGED <<readerVars, pending, err, data, queue, attempt, faults>>

(* ... wakes who sleeps at that address, perhaps for a later batch.        *)
Wake(w) ==
  /\ wpc[w] = "wake"
  /\ wpc' = [wpc EXCEPT ![w] = "idle"]
  /\ job' = [job EXCEPT ![w] = Nothing]
  /\ rpc' = [rpc EXCEPT ![Owner(w)] = IF @ = "asleep" THEN "load" ELSE @]
  /\ UNCHANGED <<request, round, putting, pending, err, seen, data, queue, attempt, faults>>

-----------------------------------------------------------------------------
ReaderStep(r) == Put(r) \/ Load(r) \/ FutexWait(r) \/ Return(r)
WorkerStep(w) == GetOne(w) \/ Check(w) \/ Perform(w) \/ Complete(w) \/ Wake(w)

Next ==
  \/ \E r \in Readers : ReaderStep(r) \/ \E q \in Requests : Start(r, q)
  \/ \E w \in Workers :
       \/ WorkerStep(w)
       \/ PerformRefused(w)
       \/ \E n \in 0 .. ChunkSize - 1 : PerformBroken(w, n)

Spec == Init /\ [][Next]_vars

(* Tasks run, and a request ends in one way or another. That putAll serves *)
(* those that wait for room in turn need not be said of finitely many      *)
(* reads.                                                                  *)
Fairness ==
  /\ \A r \in Readers : WF_<<rpc, putting>>(ReaderStep(r))
  /\ \A w \in Workers : WF_wpc(WorkerStep(w))
FairSpec == Spec /\ Fairness

-----------------------------------------------------------------------------
(* Properties                                                              *)

Working == {w \in Workers : wpc[w] \in {"check", "perform", "complete"}}
JobsOf(r) ==
  {queue[i] : i \in {i \in DOMAIN queue : queue[i].reader = r}}
    \cup {job[w] : w \in {w \in Working : job[w].reader = r}}

(* No job outlives the read it belongs to: while one is queued or worked   *)
(* on, its batch is the one on the reader's stack and its buffers are the  *)
(* reader's.                                                               *)
BatchAlive ==
  \A r \in Readers : \A j \in JobsOf(r) :
    j.round = round[r] /\ rpc[r] \in {"put", "load", "futex", "asleep"}

(* A read that returns without an error has filled the buffers, in order,  *)
(* with what the file holds there, and touched nothing behind it.          *)
ReturnsTheBytes ==
  \A r \in Readers : rpc[r] = "return" /\ err[r] = "none" =>
    LET q == request[r]
    IN \A b \in DOMAIN q.buffers : \A k \in 1 .. q.buffers[b] :
         LET i == Held(q)[b - 1] + k
         IN data[r][b][k] = IF i <= ReadSize(q) THEN q.offset + i ELSE 0

(* A reader sleeps only while someone will wake it.                        *)
SleeperHasWaker ==
  \A r \in Readers : rpc[r] = "asleep" =>
    pending[r] > 0 \/ \E w \in Workers : wpc[w] = "wake" /\ Owner(w) = r

-----------------------------------------------------------------------------
(* The inductive invariant behind BatchAlive and SleeperHasWaker           *)

Jobs == [reader : Readers, chunk : Nat, round : Nat]
ReaderLabels == {"start", "put", "load", "futex", "asleep", "return"}
WorkerLabels == {"idle", "check", "perform", "complete", "wake"}
TypeOK ==
  /\ rpc \in [Readers -> ReaderLabels]
  /\ request \in [Readers -> Requests]
  /\ round \in [Readers -> Nat] /\ putting \in [Readers -> Nat]
  /\ pending \in [Readers -> Int] /\ seen \in [Readers -> Int]
  /\ queue \in Seq(Jobs)
  /\ wpc \in [Workers -> WorkerLabels]
  /\ job \in [Workers -> Jobs]

Reading(r) == rpc[r] \in {"put", "load", "futex", "asleep"}

(* A reader waits when all of its jobs are put, and for a count above 0.   *)
Paced ==
  \A r \in Readers :
    /\ rpc[r] = "put" => putting[r] < JobCount(request[r])
    /\ rpc[r] \in {"load", "futex", "asleep"} => putting[r] = JobCount(request[r])
    /\ rpc[r] = "futex" => seen[r] # 0

(* A job is of the batch on its reader's stack, and was put.               *)
Current(j) == Reading(j.reader) /\ j.round = round[j.reader] /\ j.chunk < putting[j.reader]
Alive ==
  /\ \A i \in DOMAIN queue : Current(queue[i])
  /\ \A w \in Working : Current(job[w])

(* No chunk is in two places.                                              *)
Same(j, k) == j.reader = k.reader /\ j.chunk = k.chunk
Apart ==
  /\ \A i, k \in DOMAIN queue : Same(queue[i], queue[k]) => i = k
  /\ \A v, w \in Working : Same(job[v], job[w]) => v = w
  /\ \A i \in DOMAIN queue, w \in Working : ~Same(queue[i], job[w])

(* The chunks of a batch that are yet to be put, queued or worked on: as   *)
(* many as the batch counts.                                               *)
Outstanding(r) ==
  {c \in 0 .. JobCount(request[r]) - 1 :
     \/ c >= putting[r]
     \/ \E i \in DOMAIN queue : queue[i].reader = r /\ queue[i].chunk = c
     \/ \E w \in Working : job[w].reader = r /\ job[w].chunk = c}
Counted == \A r \in Readers : Reading(r) => pending[r] = Cardinality(Outstanding(r))

ReadInv == TypeOK /\ Paced /\ Alive /\ Apart /\ Counted /\ SleeperHasWaker

-----------------------------------------------------------------------------
(* The inductive invariant behind ReturnsTheBytes                          *)

Place(r, b, k) == Held(request[r])[b - 1] + k

(* The bytes of chunk c are in the places they belong to.                  *)
Filled(r, c) ==
  \A b \in DOMAIN request[r].buffers : \A k \in 1 .. request[r].buffers[b] :
    Place(r, b, k) \in ChunkOffset(c) + 1 .. ChunkOffset(c) + ChunkLen(request[r], c) =>
      data[r][b][k] = request[r].offset + Place(r, b, k)

(* Nothing is written behind what is read; and unless the batch has failed *)
(* a chunk that is settled, or about to be, is in its place.               *)
Settled(r, c) ==
  \/ rpc[r] = "return"
  \/ Reading(r) /\ c \notin Outstanding(r)
  \/ \E w \in Workers : wpc[w] = "complete" /\ Owner(w) = r /\ job[w].chunk = c
Untouched(r) ==
  /\ DOMAIN data[r] = DOMAIN request[r].buffers
  /\ \A b \in DOMAIN request[r].buffers :
       /\ DOMAIN data[r][b] = 1 .. request[r].buffers[b]
       /\ \A k \in 1 .. request[r].buffers[b] :
            Place(r, b, k) > ReadSize(request[r]) => data[r][b][k] = 0
Kept(r) ==
  /\ Untouched(r)
  /\ err[r] = "none" =>
       \A c \in 0 .. JobCount(request[r]) - 1 : Settled(r, c) => Filled(r, c)
InBatch(r) == Reading(r) \/ rpc[r] = "return"
DataInv ==
  /\ DOMAIN data = Readers /\ DOMAIN err = Readers
  /\ \A r \in Readers : InBatch(r) => Kept(r)

-----------------------------------------------------------------------------
(* Every read returns, whatever becomes of its requests.                   *)
EveryReadReturns == \A r \in Readers : rpc[r] = "put" ~> rpc[r] = "return"

=============================================================================
