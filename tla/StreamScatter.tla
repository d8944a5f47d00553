--------------------------- MODULE StreamScatter ----------------------------
(***************************************************************************)
(* DirectMemoryWriter of zml/io.zig: a reader streams the bytes of one     *)
(* tensor in file order, and the writer scatters them over the shards of   *)
(* the tensor. It owns no staging buffer: what the reader writes to, the   *)
(* window, is a part of the block of one shard writer, the active one, so  *)
(* that its bytes need no copy; bytes of other shards that arrive in the   *)
(* same window are copied out of it by commitWindow.                       *)
(*                                                                         *)
(* Byte o of the tensor (from 0) is the value o + 1; 0 is any other byte.  *)
(* The shard writers are those of ShardWriter without their concurrency: a *)
(* block is on the device as soon as it is handed over, which ShardWriter  *)
(* and DeviceStream justify. One thread runs all this; nothing interleaves *)
(* but the reader's choice of how much to write when.                      *)
(***************************************************************************)
EXTENDS DispatchPlan

CONSTANTS
  Layouts,    \* the layouts a tensor may have
  ChunkSizes  \* the values of dma_chunk_size, which is also the pool's block_size

ASSUME ScatterAssumption ==
  /\ Layouts # {}
  /\ ChunkSizes \subseteq Nat \ {0}
  /\ \A l \in Layouts : IsLayout(l) /\ \A a \in 1 .. Rank(l) : l.dims[a] % Count(l, a) = 0

VARIABLES
  layout,        \* the tensor's shape and sharding
  dma_chunk_size,
  spans,         \* dispatch_spans
  span_index,    \* the span byte_cursor is in
  byte_cursor,   \* how many bytes were scattered
  active,        \* active_writer_index
  window_start,  \* where in the active block the new bytes begin
  len,           \* interface.buffer.len
  end,           \* interface.end
  shard,         \* the shard writers
  pc,            \* where the writer is
  caller,        \* what called commitWindow
  asked,         \* how many bytes drain was given
  consumed       \* how much of the window commitWindow scattered

plan   == <<layout, dma_chunk_size, spans>>
window == <<active, window_start, len, end>>
vars == <<plan, span_index, byte_cursor, window, shard, pc, caller, asked, consumed>>

Smaller(a, b) == IF a < b THEN a ELSE b
Total == TotalBytes(layout)
Quota == ShardBytes(layout)
All == Writers(layout)
SpansLeft == span_index <= Len(spans)
Zeros(n) == [i \in 1 .. n |-> 0]

(* How much of the tensor the reader has written.                          *)
Position == IF SpansLeft THEN byte_cursor + (end - window_start) ELSE byte_cursor

(* init: every shard writer has leased a block, clipped to its shard, and  *)
(* the first window is in the block of the first span's primary.           *)
Init ==
  /\ layout \in Layouts
  /\ dma_chunk_size \in ChunkSizes
  /\ spans = DispatchSpans(layout)
  /\ span_index = 1
  /\ byte_cursor = 0
  /\ shard = [w \in All |-> [block |-> Zeros(dma_chunk_size), end |-> 0, offset |-> 0,
                             len |-> Smaller(dma_chunk_size, Quota), dev |-> Zeros(Quota)]]
  /\ active = spans[1].primary_writer
  /\ window_start = 0
  /\ len = Smaller(dma_chunk_size, Quota)
  /\ end = 0
  /\ pc = IF Tiles(spans, Total) THEN "idle" ELSE "failed"
  /\ caller = "none"
  /\ asked = 0
  /\ consumed = 0

-----------------------------------------------------------------------------
(* A shard writer, the record s                                            *)

Put(s, at, bytes) == [s EXCEPT !.block =
  [i \in DOMAIN @ |-> IF at < i /\ i <= at + Len(bytes) THEN bytes[i - at] ELSE @[i]]]

(* memcpy or memmove behind end.                                           *)
Appended(s, bytes) == [Put(s, s.end, bytes) EXCEPT !.end = @ + Len(bytes)]

(* flushBuffered: the block is handed over and replaced by one that is     *)
(* clipped to what remains; after the last the interface fails: len is 0.  *)
Flushed(s) ==
  IF s.offset >= Quota \/ s.end = 0 THEN s
  ELSE LET to == s.offset + s.end
       IN [block |-> Zeros(dma_chunk_size), end |-> 0, offset |-> to,
           len |-> Smaller(dma_chunk_size, Quota - to),
           dev |-> [o \in 1 .. Quota |-> IF s.offset < o /\ o <= to THEN s.block[o - s.offset]
                                         ELSE s.dev[o]]]

Fits(s, n) == s.end + n <= s.len
Refuses(s, n) == ~Fits(s, n) /\ (n > s.len \/ n > Quota - (s.offset + s.end))

(* writeAll: std.Io.Writer copies what fits; drain makes room first.       *)
WriteAll(s, bytes) ==
  IF Fits(s, Len(bytes)) THEN Appended(s, bytes)
  ELSE LET t == Appended(Flushed(s), bytes) IN IF t.end = t.len THEN Flushed(t) ELSE t

-----------------------------------------------------------------------------
(* The reader                                                              *)

(* The next n bytes of the tensor, put into the window.                    *)
Fill(n) ==
  /\ shard' = [shard EXCEPT ![active] = Put(@, end, [i \in 1 .. n |-> Position + i])]
  /\ end' = end + n

(* n bytes that fit are copied, or read straight into the window.          *)
Write(n) ==
  /\ pc = "idle"
  /\ Position + n <= Total
  /\ end + n <= len
  /\ Fill(n)
  /\ UNCHANGED <<plan, span_index, byte_cursor, active, window_start, len, pc, caller, asked, consumed>>

Call(op, n) ==
  /\ pc = "idle"
  /\ pc' = "commit"
  /\ caller' = op
  /\ asked' = n
  /\ UNCHANGED <<plan, span_index, byte_cursor, window, shard, consumed>>

(* drain: n bytes that do not fit.                                         *)
Drain(n) == Position + n <= Total /\ end + n > len /\ Call("drain", n)

(* rebase: the reader wants room in a full window. Nothing is preserved.   *)
Rebase == Position < Total /\ end = len /\ Call("rebase", 0)

(* flush: the reader has written the whole tensor.                         *)
Flush == Position = Total /\ Call("flush", 0)

(* drain goes on: as much as the new window takes, and commitWindow again. *)
DrainCopies ==
  /\ pc = "return" /\ caller = "drain"
  /\ IF len = end
     THEN pc' = "failed" /\ UNCHANGED <<shard, end, caller>>
     ELSE Fill(Smaller(len - end, asked)) /\ pc' = "commit" /\ caller' = "write"
  /\ asked' = 0
  /\ UNCHANGED <<plan, span_index, byte_cursor, active, window_start, len, consumed>>

DrainReturns ==
  /\ pc = "return" /\ caller = "write"
  /\ pc' = "idle"
  /\ caller' = "none"
  /\ UNCHANGED <<plan, span_index, byte_cursor, window, shard, asked, consumed>>

RebaseReturns ==
  /\ pc = "return" /\ caller = "rebase"
  /\ pc' = IF end < len THEN "idle" ELSE "failed"
  /\ caller' = "none"
  /\ UNCHANGED <<plan, span_index, byte_cursor, window, shard, asked, consumed>>

(* flush goes on: what the shard writers still hold is handed over, and    *)
(* the interface fails from now on.                                        *)
FlushReturns ==
  /\ pc = "return" /\ caller = "flush"
  /\ shard' = [w \in All |-> Flushed(shard[w])]
  /\ pc' = "closed"
  /\ len' = 0 /\ end' = 0
  /\ UNCHANGED <<plan, span_index, byte_cursor, active, window_start, caller, asked, consumed>>

-----------------------------------------------------------------------------
(* commitWindow                                                            *)

(* Nothing to scatter: no span is left, and neither is a window, or no     *)
(* byte is new.                                                            *)
Commit ==
  /\ pc = "commit"
  /\ IF SpansLeft
     THEN /\ pc' = IF end > window_start THEN "scatter" ELSE "return"
          /\ UNCHANGED <<len, end>>
     ELSE pc' = "return" /\ len' = 0 /\ end' = 0
  /\ consumed' = 0
  /\ UNCHANGED <<plan, span_index, byte_cursor, active, window_start, shard, caller, asked>>

Chunk(sh, from, n) == SubSeq(sh[active].block, from + 1, from + n)

(* Mutant: the second span of a window is taken to be in place already.    *)
DeliverInPlace(sh, w, from, n) ==
  [sh EXCEPT ![w] = IF w = active THEN [@ EXCEPT !.end = @ + n]
                    ELSE WriteAll(@, Chunk(sh, from, n))]

(* One writer of a span gets its bytes out of the window, by memmove when  *)
(* the window is its own block.                                            *)
Deliver(sh, w, from, n) ==
  [sh EXCEPT ![w] = IF w = active THEN Appended(@, Chunk(sh, from, n))
                    ELSE WriteAll(@, Chunk(sh, from, n))]

(* The primary's bytes are in place if they are the first and the window   *)
(* is its own; then the mirrors get theirs, one after the other.           *)
InPlace(span) == span.primary_writer = active /\ consumed = 0
Scattered(span, from, n) ==
  LET p == span.primary_writer
      after[k \in 0 .. Len(span.mirror_writers)] ==
        IF k = 0 THEN IF InPlace(span) THEN [shard EXCEPT ![p].end = @ + n] ELSE Deliver(shard, p, from, n)
        ELSE Deliver(after[k - 1], span.mirror_writers[k], from, n)
  IN after[Len(span.mirror_writers)]

(* The next piece of the window, as long as one span.                      *)
ScatterSpan ==
  /\ pc = "scatter"
  /\ consumed < end - window_start
  /\ LET span == spans[span_index]
         n == Smaller(end - window_start - consumed, span.end - byte_cursor)
         to == Range(span.mirror_writers) \cup (IF InPlace(span) THEN {} ELSE {span.primary_writer})
     IN IF \/ ~SpansLeft
           \/ byte_cursor \notin span.start .. span.end - 1
           \/ \E w \in to \ {active} : Refuses(shard[w], n)
        THEN pc' = "failed" /\ UNCHANGED <<span_index, byte_cursor, shard, consumed>>
        ELSE /\ shard' = Scattered(span, window_start + consumed, n)
             /\ byte_cursor' = byte_cursor + n
             /\ consumed' = consumed + n
             /\ span_index' = span_index + (IF byte_cursor' = span.end THEN 1 ELSE 0)
             /\ UNCHANGED pc
  /\ UNCHANGED <<plan, window, caller, asked>>

(* Full blocks are handed over, and all blocks when a whole number of      *)
(* chunks has gone by.                                                     *)
AfterFence ==
  [w \in All |-> IF shard[w].end = shard[w].len \/ byte_cursor % dma_chunk_size = 0
                 THEN Flushed(shard[w]) ELSE shard[w]]

(* The next window: in the block of the primary of the next span, behind   *)
(* its bytes, which begins at start and has room for so many.              *)
Publish(start, room) ==
  /\ pc = "scatter"
  /\ consumed = end - window_start
  /\ shard' = AfterFence
  /\ IF ~SpansLeft
     THEN len' = 0 /\ end' = 0 /\ pc' = "return" /\ UNCHANGED <<active, window_start>>
     ELSE /\ active' = spans[span_index].primary_writer
          /\ window_start' = start
          /\ IF room = 0 THEN pc' = "failed" /\ UNCHANGED <<len, end>>
             ELSE pc' = "return" /\ len' = start + room /\ end' = start
  /\ UNCHANGED <<plan, span_index, byte_cursor, caller, asked, consumed>>

NextWriter == AfterFence[spans[span_index].primary_writer]
ChunkOffset == byte_cursor % dma_chunk_size
BlockRoom == NextWriter.len - NextWriter.end

(* Mutant: the chunk does not bound the window.                            *)
RotateUnfenced == Publish(NextWriter.end, Smaller(BlockRoom, Total - byte_cursor))

(* Mutant: the bytes the next block already holds are forgotten.           *)
RotateForgets ==
  Publish(0, Smaller(NextWriter.len, Smaller(dma_chunk_size - ChunkOffset, Total - byte_cursor)))

(* The window reaches as far as the block, the chunk and the tensor do.    *)
Rotate ==
  Publish(NextWriter.end, Smaller(BlockRoom, Smaller(dma_chunk_size - ChunkOffset, Total - byte_cursor)))

-----------------------------------------------------------------------------
Stream == \E n \in 1 .. Total : Write(n) \/ Drain(n)
Step == Commit \/ ScatterSpan \/ Rotate \/ DrainCopies \/ DrainReturns \/ RebaseReturns \/ FlushReturns
Next == Stream \/ Rebase \/ Flush \/ Step

Spec == Init /\ [][Next]_vars

(* The thread runs, and the reader has all the bytes of the tensor.        *)
FairSpec == Spec /\ WF_vars(Stream \/ Rebase) /\ WF_vars(Flush) /\ WF_vars(Step)

-----------------------------------------------------------------------------
(* Properties                                                              *)

(* What the device of writer w must hold: the bytes it owns, in order.     *)
Expected(w) == Sorted({o + 1 : o \in Owned(layout, w)})

(* The routing table is what sharding means: every byte is in one span,    *)
(* whose primary and mirrors are all its owners, each of them once; and a  *)
(* writer owns as many bytes as its shard has.                             *)
PlanRoutes ==
  /\ \A o \in 0 .. Total - 1 :
       \E i \in DOMAIN spans :
         LET to == <<spans[i].primary_writer>> \o spans[i].mirror_writers
         IN /\ o \in spans[i].start .. spans[i].end - 1
            /\ \A j \in DOMAIN spans \ {i} : o \notin spans[j].start .. spans[j].end - 1
            /\ IsInjective(to)
            /\ Range(to) = {w \in All : Owns(layout, w, o)}
  /\ \A w \in All : Cardinality(Owned(layout, w)) = Quota

(* A byte of a shard that is on its device is the byte that belongs there, *)
(* and when flush has returned all of them are there: no copy read scratch *)
(* bytes that a memmove or a new block had already replaced.               *)
ScatteredRight ==
  \A w \in All :
    LET right == Expected(w) IN
    \A i \in 1 .. Quota : shard[w].dev[i] \in {right[i]} \cup (IF pc = "closed" THEN {} ELSE {0})

(* Between calls the window is the free part of the next primary's block,  *)
(* so that what the reader writes needs no copy.                           *)
WindowInPlace ==
  pc = "idle" /\ SpansLeft =>
    /\ active = spans[span_index].primary_writer
    /\ window_start = shard[active].end
    /\ len <= shard[active].len
    /\ window_start < len

(* No step carries the cursor across a chunk boundary, where the fence     *)
(* would be missed.                                                        *)
FenceNotSkipped ==
  [][byte_cursor' > byte_cursor =>
       (byte_cursor' - 1) \div dma_chunk_size = byte_cursor \div dma_chunk_size]_vars

-----------------------------------------------------------------------------
(* The inductive invariant behind FenceNotSkipped and WindowInPlace        *)

(* A block is clipped to what its shard still misses.                      *)
Shards == {s \in [block : [1 .. dma_chunk_size -> Nat], end : Nat, offset : 0 .. Quota,
                  len : Nat, dev : [1 .. Quota -> Nat]] :
             s.len = Smaller(dma_chunk_size, Quota - s.offset) /\ s.end <= s.len}

(* The cursor is in the span that is next.                                 *)
Cursor ==
  /\ span_index \in 1 .. Len(spans) + 1
  /\ byte_cursor \in Nat
  /\ IF SpansLeft THEN byte_cursor \in spans[span_index].start .. spans[span_index].end - 1
     ELSE byte_cursor = Total

(* Until the tensor is done there is a window, into which the reader has   *)
(* written end - window_start bytes since the cursor was at Opened.        *)
Opened == IF pc = "scatter" THEN byte_cursor - consumed ELSE byte_cursor
WindowOpen == pc = "scatter" \/ (pc \in {"idle", "commit", "return"} /\ SpansLeft)
Window ==
  /\ WindowOpen =>
       /\ active \in All /\ window_start \in Nat /\ len \in Nat /\ end \in window_start .. len
       /\ window_start < len /\ len <= shard[active].len /\ Opened \in Nat
       /\ len - window_start <= Smaller(dma_chunk_size - (Opened % dma_chunk_size), Total - Opened)
       /\ pc # "scatter" \/ consumed = 0 =>
            active = spans[span_index].primary_writer /\ window_start = shard[active].end
       /\ pc = "return" => end = window_start
       /\ pc # "idle" /\ caller = "flush" => Opened + (end - window_start) = Total
  /\ ~SpansLeft /\ pc \in {"idle", "commit", "return"} => len = 0 /\ end = 0

(* What commitWindow copies within the active block it copies down, and    *)
(* either not at all or by a whole span at least.                          *)
Gap == window_start + consumed - shard[active].end
Scratch ==
  pc = "scatter" =>
    /\ consumed \in 0 .. end - window_start
    /\ Gap >= 0
    /\ 0 < consumed /\ consumed < end - window_start =>
         /\ byte_cursor = spans[span_index].start
         /\ Gap = 0 \/ Gap >= SpanLen(layout)

ScatterInv ==
  /\ layout \in Layouts /\ dma_chunk_size \in ChunkSizes /\ spans = DispatchSpans(layout)
  /\ shard \in [All -> Shards]
  /\ asked \in Nat
  /\ pc # "failed" => Tiles(spans, Total) /\ Cursor /\ Window /\ Scratch

-----------------------------------------------------------------------------
(* The inductive invariant behind ScatteredRight                           *)

(* How many of its bytes writer w has been given: as many as it owns of    *)
(* the first n.                                                            *)
Got(w, n) == Cardinality({o \in Owned(layout, w) : o < n})

(* A shard writer that was given the first n: what its block holds follows *)
(* what its device holds.                                                  *)
Holds(s, w, n) ==
  /\ s.offset + s.end = Got(w, n)
  /\ \A i \in 1 .. s.end : s.block[i] = Expected(w)[s.offset + i]
  /\ \A i \in 1 .. Quota : s.dev[i] = IF i <= s.offset THEN Expected(w)[i] ELSE 0

Contents ==
  \A w \in All : Holds(shard[w], w, byte_cursor) /\ (pc = "closed" => shard[w].offset = Quota)

(* What the reader has written and commitWindow not yet scattered is in    *)
(* the window.                                                             *)
Unscattered ==
  WindowOpen =>
    \A i \in (IF pc = "scatter" THEN consumed + 1 ELSE 1) .. end - window_start :
      shard[active].block[window_start + i] = Opened + i

-----------------------------------------------------------------------------
(* A tensor whose bytes all come is delivered: no plan is refused, no      *)
(* window is empty before the tensor is, no shard writer refuses bytes,    *)
(* each of which would end in "failed".                                    *)
EventuallyClosed == <>(pc = "closed")
=============================================================================
