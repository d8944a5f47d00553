---------------------------- MODULE ShardWriter -----------------------------
(***************************************************************************)
(* DirectShardWriter of zml/io.zig: the bytes of one shard are gathered in *)
(* a pinned block of the device's pool, a full block is handed to PJRT,    *)
(* which copies it to the device some time later and then calls back from  *)
(* a thread of its own, and the writer goes on with another block. Two     *)
(* EventContexts, used in turn, are what a callback finds its block by;    *)
(* the writer waits for the transfer before last before it uses a context  *)
(* again, and for its own after the last block.                            *)
(*                                                                         *)
(* The stream is the bytes 1 .. Total, 0 any other byte. The pool keeps    *)
(* the promise of BlockLease; Rival stands for the other loads, which take *)
(* blocks of the same pool and overwrite them. The context is modelled as  *)
(* the memory it is: setting it to null leaves the rest in place.          *)
(***************************************************************************)
EXTENDS Naturals, FiniteSets

CONSTANTS
  Blocks,      \* the blocks of the device's pool
  BlockSize,   \* the pool's block_size
  Total,       \* total: the byte size of the shard
  RivalGets,   \* bound: how many blocks the other loads take
  MayFail,     \* whether PJRT, the pool and the source of the bytes may fail
  Null         \* no block

ASSUME ShardAssumption ==
  /\ IsFiniteSet(Blocks)
  /\ Blocks # {}
  /\ BlockSize \in Nat \ {0}
  /\ Total \in Nat \ {0}
  /\ RivalGets \in Nat
  /\ MayFail \in BOOLEAN
  /\ Null \notin Blocks

VARIABLES
  pc,      \* where the writer is in drain or flushBuffered
  buffer,  \* the block behind interface.buffer
  len,     \* interface.buffer.len
  end,     \* interface.end
  offset,  \* offset
  flip,    \* flip_flop
  ctx,     \* events_contexts
  rest,    \* what drain still has to copy after its first flush
  flight,  \* the transfers PJRT or a callback thread has not finished
  free,    \* the blocks in the pool
  rival,   \* the blocks other loads hold
  gets,    \* how many the other loads have taken
  mem,     \* the contents of the blocks
  dev,     \* device memory
  errored  \* whether anything outside the writer failed

bufVars  == <<buffer, len, end, rest>>
poolVars == <<free, rival, gets>>
vars == <<pc, buffer, len, end, offset, flip, ctx, rest, flight,
          free, rival, gets, mem, dev, errored>>

Slots == {0, 1}
Other(s) == 1 - s
Smaller(a, b) == IF a < b THEN a ELSE b
NoContext == [live |-> FALSE, blk |-> Null, set |-> FALSE, err |-> FALSE]
(* The transfers whose callback has yet to run, or to end.                 *)
Due == {f \in flight : f.cb # "none"}

(* A transfer, an element of flight, has its slot, block and slice (slot,   *)
(* blk, off, len), what PJRT made of it (res is "moving", "ok" or "error") *)
(* and its callback's progress: cb is "none" until onReady, "wait", "put". *)

(* init: the transfer manager exists and a first block was leased.         *)
Init ==
  /\ pc = "idle"
  /\ buffer \in Blocks
  /\ len = Smaller(BlockSize, Total)
  /\ end = 0
  /\ offset = 0
  /\ flip = 0
  /\ ctx = [s \in Slots |-> NoContext]
  /\ rest = 0
  /\ flight = {}
  /\ free = Blocks \ {buffer}
  /\ rival = {}
  /\ gets = 0
  /\ mem = [b \in Blocks |-> [i \in 0 .. BlockSize - 1 |-> 0]]
  /\ dev = [o \in 1 .. Total |-> 0]
  /\ errored = FALSE

-----------------------------------------------------------------------------
(* Filling the block                                                       *)

(* The next c bytes of the stream are copied behind end.                   *)
Copied(c) == [mem EXCEPT ![buffer] =
                [i \in 0 .. BlockSize - 1 |->
                   IF end <= i /\ i < end + c THEN offset + i + 1 ELSE @[i]]]

(* Room for c more: std.Io.Writer copies, or DirectMemoryWriter, which     *)
(* exposes this block to the reader, only advances end.                    *)
Append(c) ==
  /\ pc = "idle"
  /\ offset + end + c <= Total
  /\ end + c <= len
  /\ mem' = Copied(c)
  /\ end' = end + c
  /\ UNCHANGED <<pc, buffer, len, offset, flip, ctx, rest, flight, poolVars, dev, errored>>

(* transferData submits what is in the block, and the context for it is    *)
(* filled in.                                                              *)
Submit ==
  /\ pc' = "register"
  /\ ctx' = [ctx EXCEPT ![flip] = [live |-> TRUE, blk |-> buffer, set |-> FALSE, err |-> FALSE]]
  /\ flight' = flight \cup {[slot |-> flip, blk |-> buffer, off |-> offset, len |-> end,
                             res |-> "moving", cb |-> "none"]}
  /\ UNCHANGED <<buffer, len, end, offset, flip, poolVars, mem, dev, errored>>

(* WriteFailed, with nothing else touched.                                 *)
WriteFails ==
  /\ pc' = "failed"
  /\ UNCHANGED <<bufVars, offset, flip, ctx, flight, poolVars, mem, dev, errored>>

(* drain: a chunk that does not fit flushes first, then is copied. Chunks  *)
(* are never longer than a block, nor than what the shard still lacks.     *)
Drain(c) ==
  /\ pc = "idle"
  /\ offset + end + c <= Total
  /\ end + c > len
  /\ IF c > len THEN WriteFails ELSE rest' = c /\ Submit

(* flush: with the block full, at a chunk fence, or at the end; drain does *)
(* it itself when the chunk it copied after a flush fills the new block.   *)
Flush ==
  /\ pc \in {"idle", "full"}
  /\ offset < Total
  /\ end > 0
  /\ rest' = 0
  /\ Submit

-----------------------------------------------------------------------------
(* flushBuffered                                                           *)

(* onReady: from now on the callback may run.                              *)
Register ==
  /\ pc = "register"
  /\ flight' = {IF f.cb = "none" THEN [f EXCEPT !.cb = "wait"] ELSE f : f \in flight}
  /\ pc' = "waitPrev"
  /\ UNCHANGED <<bufVars, offset, flip, ctx, poolVars, mem, dev, errored>>

IsLast == offset + end >= Total
AfterPrev == IF IsLast THEN "waitLast" ELSE "getBuf"

(* Mutant: the writer goes on without the transfer before.                 *)
WaitPrevSkipped ==
  /\ pc = "waitPrev"
  /\ ctx' = [ctx EXCEPT ![Other(flip)].live = FALSE]
  /\ pc' = AfterPrev
  /\ UNCHANGED <<bufVars, offset, flip, flight, poolVars, mem, dev, errored>>

(* Mutant: the writer, too, puts the block of the transfer it waited for.  *)
WaitPrevPuts ==
  /\ pc = "waitPrev"
  /\ ctx[Other(flip)].live => ctx[Other(flip)].set
  /\ free' = IF ctx[Other(flip)].live THEN free \cup {ctx[Other(flip)].blk} ELSE free
  /\ ctx' = [ctx EXCEPT ![Other(flip)].live = FALSE]
  /\ pc' = IF ctx[Other(flip)].live /\ ctx[Other(flip)].err THEN "failed" ELSE AfterPrev
  /\ UNCHANGED <<bufVars, offset, flip, flight, rival, gets, mem, dev, errored>>

WaitPrev ==
  /\ pc = "waitPrev"
  /\ ctx[Other(flip)].live => ctx[Other(flip)].set
  /\ ctx' = [ctx EXCEPT ![Other(flip)].live = FALSE]
  /\ pc' = IF ctx[Other(flip)].live /\ ctx[Other(flip)].err THEN "failed" ELSE AfterPrev
  /\ UNCHANGED <<bufVars, offset, flip, flight, poolVars, mem, dev, errored>>

(* The interface fails every later call: no block is behind it any more.   *)
Failing == buffer' = Null /\ len' = 0 /\ end' = 0

(* Mutant: the last block is not waited for.                               *)
WaitLastSkipped ==
  /\ pc = "waitLast"
  /\ ctx' = [ctx EXCEPT ![flip].live = FALSE]
  /\ Failing
  /\ pc' = "idle"
  /\ flip' = Other(flip)
  /\ offset' = offset + end
  /\ UNCHANGED <<rest, flight, poolVars, mem, dev, errored>>

WaitLast ==
  /\ pc = "waitLast"
  /\ ctx[flip].set
  /\ ctx' = [ctx EXCEPT ![flip].live = FALSE]
  /\ Failing
  /\ IF ctx[flip].err
     THEN pc' = "failed" /\ UNCHANGED <<flip, offset>>
     ELSE pc' = "idle" /\ flip' = Other(flip) /\ offset' = offset + end
  /\ UNCHANGED <<rest, flight, poolVars, mem, dev, errored>>

(* A new block, clipped to what remains of the shard; flushBuffered        *)
(* returns, and drain, if it was drain, copies its chunk.                  *)
GetBuffer ==
  /\ pc = "getBuf"
  /\ \E b \in free :
       /\ buffer' = b
       /\ free' = free \ {b}
       /\ mem' = [mem EXCEPT ![b] =
                    [i \in 0 .. BlockSize - 1 |-> IF i < rest THEN offset + end + i + 1 ELSE @[i]]]
  /\ len' = Smaller(BlockSize, Total - (offset + end))
  /\ end' = rest
  /\ rest' = 0
  /\ flip' = Other(flip)
  /\ offset' = offset + end
  /\ pc' = IF rest = len' THEN "full" ELSE "idle"
  /\ UNCHANGED <<ctx, flight, rival, gets, dev, errored>>

(* transferData, onReady and get may fail; the caller may run out of bytes *)
(* to write. The writer gives up and its owner drops it: what is left in   *)
(* the interface is not looked at again.                                   *)
StepFails ==
  /\ MayFail
  /\ pc \in {"idle", "full", "register", "getBuf"}
  /\ offset < Total
  /\ pc' = "failed"
  /\ errored' = TRUE
  /\ UNCHANGED <<bufVars, offset, flip, ctx, flight, poolVars, mem, dev>>

(* deinit: once the shard is complete or the load has failed, the memory   *)
(* of the writer, contexts included, is freed. Nothing is waited for: if a *)
(* callback is still due, the writer is "orphaned", and the callback will  *)
(* find its context in memory that is no longer the writer's.              *)
Deinit ==
  /\ \/ pc = "idle" /\ offset = Total
     \/ pc = "failed"
  /\ pc' = IF Due = {} THEN "freed" ELSE "orphaned"
  /\ ctx' = [s \in Slots |-> NoContext]
  /\ UNCHANGED <<bufVars, offset, flip, flight, poolVars, mem, dev, errored>>

-----------------------------------------------------------------------------
(* PJRT and the callback                                                   *)

(* PJRT reads the block at some moment of its own choosing.                *)
Move(f) ==
  /\ f.res = "moving"
  /\ dev' = [o \in 1 .. Total |->
               IF f.off < o /\ o <= f.off + f.len THEN mem[f.blk][o - f.off - 1] ELSE dev[o]]
  /\ flight' = (flight \ {f}) \cup {[f EXCEPT !.res = "ok"]}
  /\ UNCHANGED <<pc, bufVars, offset, flip, ctx, poolVars, mem, errored>>

MoveFails(f) ==
  /\ MayFail
  /\ f.res = "moving"
  /\ flight' = (flight \ {f}) \cup {[f EXCEPT !.res = "error"]}
  /\ errored' = TRUE
  /\ UNCHANGED <<pc, bufVars, offset, flip, ctx, poolVars, mem, dev>>

(* What a callback reads as its context's block, Null standing for a put   *)
(* that goes elsewhere: in freed memory the block and the pool of the put  *)
(* can be anything.                                                        *)
Found(f) == IF pc = "orphaned" THEN Blocks \cup {Null} ELSE {ctx[f.slot].blk}

(* Mutant: the callback runs before the transfer is complete.              *)
CallbackPutEarly(f) ==
  /\ f.cb = "wait"
  /\ \E b \in Found(f) : free' = free \cup ({b} \ {Null})
  /\ flight' = (flight \ {f}) \cup {[f EXCEPT !.cb = "put"]}
  /\ UNCHANGED <<pc, bufVars, offset, flip, ctx, rival, gets, mem, dev, errored>>

(* The callback puts the block its context names ...                       *)
CallbackPut(f) ==
  /\ f.cb = "wait"
  /\ f.res # "moving"
  /\ \E b \in Found(f) : free' = free \cup ({b} \ {Null})
  /\ flight' = (flight \ {f}) \cup {[f EXCEPT !.cb = "put"]}
  /\ UNCHANGED <<pc, bufVars, offset, flip, ctx, rival, gets, mem, dev, errored>>

(* ... and then sets the error and the event, for nobody once the writer   *)
(* is gone.                                                                *)
CallbackSet(f) ==
  /\ f.cb = "put"
  /\ f.res # "moving"
  /\ ctx' = IF pc = "orphaned" THEN ctx
            ELSE [ctx EXCEPT ![f.slot].err = (f.res = "error"), ![f.slot].set = TRUE]
  /\ flight' = flight \ {f}
  /\ UNCHANGED <<pc, bufVars, offset, flip, poolVars, mem, dev, errored>>

TransferStep(f) == Move(f) \/ CallbackPut(f) \/ CallbackSet(f)

-----------------------------------------------------------------------------
(* The other loads                                                         *)

RivalGet(b) ==
  /\ b \in free
  /\ gets < RivalGets
  /\ gets' = gets + 1
  /\ free' = free \ {b}
  /\ rival' = rival \cup {b}
  /\ mem' = [mem EXCEPT ![b] = [i \in 0 .. BlockSize - 1 |-> 0]]
  /\ UNCHANGED <<pc, bufVars, offset, flip, ctx, flight, dev, errored>>

RivalPut(b) ==
  /\ b \in rival
  /\ rival' = rival \ {b}
  /\ free' = free \cup {b}
  /\ UNCHANGED <<pc, bufVars, offset, flip, ctx, flight, gets, mem, dev, errored>>

-----------------------------------------------------------------------------
WriterStep == Register \/ WaitPrev \/ WaitLast \/ GetBuffer
Write == \E c \in 1 .. BlockSize : Append(c) \/ Drain(c)

Next ==
  \/ Write \/ Flush \/ WriterStep \/ StepFails \/ Deinit
  \/ \E f \in flight : TransferStep(f) \/ MoveFails(f)
  \/ \E b \in Blocks : RivalGet(b) \/ RivalPut(b)

Spec == Init /\ [][Next]_vars

-----------------------------------------------------------------------------
(* Properties                                                              *)

(* A writer that failed can be freed with a callback still due: nothing in *)
(* the code waits for it. The properties are about what comes before that, *)
(* and ImplementsStream says that it happens to a failed writer only.      *)
Orphaned == pc = "orphaned"

(* Every byte on the device is the byte of the stream that belongs there:  *)
(* no block is refilled, by this writer or by another load, while PJRT may *)
(* still read it.                                                          *)
DeviceFaithful == ~Orphaned => \A o \in 1 .. Total : dev[o] \in {0, o}

(* Whoever holds a block holds it alone: the pool, another load, the       *)
(* writer's buffer, and each transfer whose callback has not put it yet.   *)
Flying == {f \in flight : f.cb # "put"}
OneHolder ==
  ~Orphaned =>
    /\ free \cap rival = {}
    /\ \A f \in Flying : f.blk \notin free \cup rival
    /\ \A f, g \in Flying : f.blk = g.blk => f = g
    /\ (pc \in {"idle", "full"} /\ buffer # Null) =>
          buffer \notin free \cup rival \cup {f.blk : f \in Flying}

(* While a callback is due and the writer is not freed, its context is the *)
(* one it was registered with, still current unless the writer failed: the *)
(* two contexts are never used again too early.                            *)
ContextKept ==
  ~Orphaned => \A f \in Due : /\ ctx[f.slot].blk = f.blk
                             /\ ~ctx[f.slot].set
                             /\ pc # "failed" => ctx[f.slot].live

(* The writer implements the stream of DeviceStream: complete means that   *)
(* every byte is in device memory, not merely submitted. A writer freed    *)
(* under a callback is a lost stream, of which nothing more is promised.   *)
Accepted == IF buffer = Null THEN Total ELSE offset + end + rest
Landed == {o \in 1 .. Total : dev[o] = o}
Status == IF Orphaned THEN "lost"
          ELSE IF pc = "failed" \/ (pc = "freed" /\ offset < Total) THEN "failed"
          ELSE IF offset = Total THEN "done" ELSE "open"
Stream == INSTANCE DeviceStream WITH accepted <- Accepted, landed <- Landed, status <- Status
ImplementsStream == Stream!StreamSpec
-----------------------------------------------------------------------------
(* The inductive invariant behind the properties above                     *)

Transfers ==
  [slot : Slots, blk : Blocks, off : Nat, len : 0 .. BlockSize,
   res : {"moving", "ok", "error"}, cb : {"none", "wait", "put"}]
Contexts == [live : BOOLEAN, blk : Blocks \cup {Null}, set : BOOLEAN, err : BOOLEAN]
Labels == {"idle", "full", "register", "waitPrev", "waitLast", "getBuf", "failed", "freed", "orphaned"}
TypeOK ==
  /\ pc \in Labels
  /\ buffer \in Blocks \cup {Null}
  /\ len \in Nat /\ end \in Nat /\ offset \in Nat /\ rest \in Nat
  /\ flip \in Slots
  /\ ctx \in [Slots -> Contexts]
  /\ flight \subseteq Transfers
  /\ free \subseteq Blocks /\ rival \subseteq Blocks
  /\ mem \in [Blocks -> [0 .. BlockSize - 1 -> Nat]]
  /\ dev \in [1 .. Total -> Nat]

Over == pc \in {"failed", "freed"}
Flushing == pc \in {"register", "waitPrev", "waitLast", "getBuf"}
(* How much of the shard has been submitted.                               *)
Sent == IF Flushing THEN offset + end ELSE offset
Span(f) == f.off + 1 .. f.off + f.len

(* The block fits the shard, and so does what drain has left to copy; a    *)
(* writer without a block is through, and so is one past its shard.        *)
Fits ==
  /\ buffer # Null => /\ end <= len /\ len <= BlockSize /\ rest <= BlockSize
                      /\ offset + end + rest <= Total
  /\ pc \in {"idle", "full"} => rest = 0
  /\ pc \notin {"idle", "freed"} => offset < Total
  /\ offset <= Total
  /\ offset < Total /\ ~Over => buffer # Null
  /\ pc = "waitLast" => offset + end = Total
  /\ pc = "getBuf" => offset + end < Total
  /\ offset = Total => buffer = Null /\ flight = {}

(* A slot has one transfer, whose context is as it was filled in until the *)
(* writer is freed, with no callback due. The slot to be used next is free *)
(* when it is used, the callback registered soon.                          *)
Turns ==
  /\ \A f, g \in flight : f.slot = g.slot => f = g
  /\ pc = "freed" => Due = {}
  /\ pc # "freed" => \A f \in flight : /\ ctx[f.slot].blk = f.blk /\ ~ctx[f.slot].set
                                       /\ ~Over => ctx[f.slot].live
  /\ \A f \in flight : f.cb = "none" => pc = "register" \/ Over
  /\ \A f \in flight : f.cb = "put" => f.res # "moving"
  /\ pc \in {"idle", "full"} => ~ctx[flip].live
  /\ pc \in {"waitLast", "getBuf"} => ~ctx[Other(flip)].live

(* The blocks hold what they were filled with as long as it matters.       *)
Contents ==
  /\ \A f \in flight :
       /\ f.len > 0 /\ f.len <= BlockSize
       /\ f.off + f.len <= Accepted /\ f.off + f.len <= Total
       /\ f.res = "moving" => \A i \in 0 .. f.len - 1 : mem[f.blk][i] = f.off + i + 1
  /\ pc \in {"idle", "full"} /\ buffer # Null => \A i \in 0 .. end - 1 : mem[buffer][i] = offset + i + 1

(* No byte is sent twice, and none is left behind without an error that    *)
(* the writer has yet to see.                                              *)
ErrorPending == \E s \in Slots : ctx[s].live /\ ctx[s].set /\ ctx[s].err
NothingTwice ==
  /\ \A f, g \in flight : f # g => Span(f) \cap Span(g) = {}
  /\ \A f \in flight : f.res = "moving" => \A o \in Span(f) : dev[o] = 0
  /\ ~Over => /\ \A f \in flight : f.off + f.len <= Sent
              /\ \A o \in 1 .. Total : o > Sent => dev[o] = 0
NothingBehind ==
  ~Over /\ ~ErrorPending =>
    \A o \in 1 .. Total : o <= Sent =>
      dev[o] = o \/ \E f \in flight : o \in Span(f) /\ f.res # "ok"

LiveInv ==
  /\ ~Orphaned
  /\ TypeOK
  /\ Fits
  /\ OneHolder
  /\ Turns
  /\ Contents
  /\ DeviceFaithful
  /\ NothingTwice
  /\ NothingBehind

(* Of a writer freed under a callback only the types are left.             *)
ShardInv == LiveInv \/ (Orphaned /\ TypeOK)

=============================================================================
