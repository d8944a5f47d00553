----------------------------- MODULE BufferPool -----------------------------
(***************************************************************************)
(* The pool of pinned host blocks of zml/mem.zig (DynamicBufferPool): at   *)
(* most MaxBlocks blocks are out at once, blocks that came back sit on a   *)
(* lock-free stack whose links are stored inside the blocks themselves,    *)
(* and a caller that finds the pool exhausted sleeps on a condition.       *)
(*                                                                         *)
(* Every access to a shared word is a step of its own: the load and the    *)
(* compare-and-swap of in_flight, the load of the stack's head, the read   *)
(* of the link inside the head block, the compare-and-swap of the head.    *)
(* Getters are the tasks that call get (the loads that LimitedGroup lets   *)
(* run), Putters the callback threads that return a block once PJRT is     *)
(* done with it, possibly while other tasks are inside get.                *)
(*                                                                         *)
(* The contents of a block are abstracted to what its first word says: a   *)
(* link written by put, or Junk, the bytes of whoever leased the block.    *)
(* Junk also stands for an address read from there.                        *)
(***************************************************************************)
EXTENDS Naturals, FiniteSets

CONSTANTS
  Getters,    \* the tasks that call get
  Putters,    \* the PJRT callback threads that call put
  Blocks,     \* the addresses the arena can return
  MaxBlocks,  \* max_blocks
  Gets,       \* bound: how many times each getter calls get
  MayFail,    \* whether the arena's allocator may run out of memory
  Null,       \* the null pointer
  Junk        \* bytes that are no link and no block

ASSUME PoolAssumption ==
  /\ IsFiniteSet(Getters)
  /\ IsFiniteSet(Putters)
  /\ IsFiniteSet(Blocks)
  /\ Getters \cap Putters = {}
  /\ Getters \cap Blocks = {}
  /\ Putters \cap Blocks = {}
  /\ MaxBlocks \in Nat \ {0}
  /\ Gets \in Nat
  /\ MayFail \in BOOLEAN
  /\ Null \notin Blocks \cup Getters \cup Putters \cup {Junk}
  /\ Junk \notin Blocks

Words == Blocks \cup {Null, Junk}
Addrs == Blocks \cup {Junk}

VARIABLES
  freeStack,  \* free_stack: the head of the stack of returned blocks
  next,       \* the first word of each block: Node.next, or user data
  inFlight,   \* in_flight
  mutex,      \* who holds the pool's mutex, or Null
  arena,      \* the blocks the arena has handed out so far
  leases,     \* for each address, the slices get returned and put not took back
  gpc,        \* where each getter is in get
  seen,       \* the local in_flight of get
  head,       \* the local head of pop
  nxt,        \* the value of h.next that pop read for its exchange
  calls,      \* calls of get made so far by each getter
  ppc,        \* where each putter is in put
  blk,        \* the block a putter is returning
  pHead       \* the local head of put

stackVars == <<freeStack, next>>
countVars == <<inFlight, mutex>>
leaseVars == <<arena, leases>>
getVars   == <<gpc, seen, head, nxt, calls>>
putVars   == <<ppc, blk, pHead>>
vars == <<freeStack, next, inFlight, mutex, arena, leases,
          gpc, seen, head, nxt, calls, ppc, blk, pHead>>

GetLabels == {"idle", "load", "reserve", "popHead", "popNext", "popCas",
              "allocLock", "alloc", "waitLock", "waitCheck", "asleep"}
PutLabels == {"idle", "link", "push", "lock", "release", "signal"}

TypeOK ==
  /\ freeStack \in Words
  /\ next \in [Blocks -> Words]
  /\ inFlight \in 0 .. MaxBlocks
  /\ mutex \in Getters \cup Putters \cup {Null}
  /\ arena \subseteq Blocks
  /\ leases \in [Addrs -> 0 .. MaxBlocks]
  /\ gpc \in [Getters -> GetLabels]
  /\ seen \in [Getters -> 0 .. MaxBlocks]
  /\ head \in [Getters -> Words]
  /\ nxt \in [Getters -> Words]
  /\ calls \in [Getters -> 0 .. Gets]
  /\ ppc \in [Putters -> PutLabels]
  /\ blk \in [Putters -> Words]
  /\ pHead \in [Putters -> Words]

Init ==
  /\ freeStack = Null
  /\ next = [b \in Blocks |-> Junk]
  /\ inFlight = 0
  /\ mutex = Null
  /\ arena = {}
  /\ leases = [a \in Addrs |-> 0]
  /\ gpc = [g \in Getters |-> "idle"]
  /\ seen = [g \in Getters |-> 0]
  /\ head = [g \in Getters |-> Null]
  /\ nxt = [g \in Getters |-> Null]
  /\ calls = [g \in Getters |-> 0]
  /\ ppc = [p \in Putters |-> "idle"]
  /\ blk = [p \in Putters |-> Null]
  /\ pHead = [p \in Putters |-> Null]

-----------------------------------------------------------------------------
(* get *)

Goto(g, l) == gpc' = [gpc EXCEPT ![g] = l]

(* get returns, with a slice or with an error: its locals are gone. *)
GetReturns(g) ==
  /\ Goto(g, "idle")
  /\ seen' = [seen EXCEPT ![g] = 0]
  /\ head' = [head EXCEPT ![g] = Null]
  /\ nxt' = [nxt EXCEPT ![g] = Null]
  /\ UNCHANGED calls

Lease(a) == leases' = [leases EXCEPT ![a] = @ + 1]

Get(g) ==
  /\ gpc[g] = "idle"
  /\ calls[g] < Gets
  /\ calls' = [calls EXCEPT ![g] = @ + 1]
  /\ Goto(g, "load")
  /\ UNCHANGED <<stackVars, countVars, leaseVars, seen, head, nxt, putVars>>

(* The outcome of looking at in_flight: reserve a slot, or go and wait. *)
Look(g) ==
  /\ seen' = [seen EXCEPT ![g] = inFlight]
  /\ Goto(g, IF inFlight < MaxBlocks THEN "reserve" ELSE "waitLock")
  /\ UNCHANGED <<stackVars, countVars, leaseVars, head, nxt, calls, putVars>>

LoadInFlight(g) == gpc[g] = "load" /\ Look(g)

(* Mutant: the counter is stored instead of exchanged. *)
ReserveBlind(g) ==
  /\ gpc[g] = "reserve"
  /\ inFlight' = seen[g] + 1
  /\ Goto(g, "popHead")
  /\ UNCHANGED <<stackVars, mutex, leaseVars, seen, head, nxt, calls, putVars>>

Reserve(g) ==
  /\ gpc[g] = "reserve"
  /\ inFlight = seen[g]
  /\ inFlight' = inFlight + 1
  /\ Goto(g, "popHead")
  /\ UNCHANGED <<stackVars, mutex, leaseVars, seen, head, nxt, calls, putVars>>

(* cmpxchgWeak may fail although the values agree. *)
ReserveFails(g) == gpc[g] = "reserve" /\ Look(g)

(* pop loads the head, on entry and after a failed exchange. *)
LoadHead(g) ==
  /\ head' = [head EXCEPT ![g] = freeStack]
  /\ Goto(g, "popNext")
  /\ UNCHANGED <<stackVars, countVars, leaseVars, seen, nxt, calls, putVars>>

PopHead(g) == gpc[g] = "popHead" /\ LoadHead(g)

(* h.next: whatever the first word of h holds by now. *)
PopNext(g) ==
  /\ gpc[g] = "popNext"
  /\ nxt' = [nxt EXCEPT ![g] =
               IF head[g] \in Blocks THEN next[head[g]] ELSE head[g]]
  /\ Goto(g, "popCas")
  /\ UNCHANGED <<stackVars, countVars, leaseVars, seen, head, calls, putVars>>

PopReturns(g) ==
  /\ gpc[g] = "popCas"
  /\ head[g] # Null
  /\ freeStack = head[g]
  /\ freeStack' = nxt[g]
  /\ Lease(head[g])
  /\ GetReturns(g)
  /\ UNCHANGED <<next, countVars, arena, putVars>>

PopEmpty(g) ==
  /\ gpc[g] = "popCas"
  /\ head[g] = Null
  /\ freeStack = Null
  /\ Goto(g, "allocLock")
  /\ UNCHANGED <<stackVars, countVars, leaseVars, seen, head, nxt, calls, putVars>>

PopFails(g) == gpc[g] = "popCas" /\ LoadHead(g)

Acquire(t) == mutex = Null /\ mutex' = t
Unlock == mutex' = Null

AllocLock(g) ==
  /\ gpc[g] = "allocLock"
  /\ Acquire(g)
  /\ Goto(g, "alloc")
  /\ UNCHANGED <<stackVars, inFlight, leaseVars, seen, head, nxt, calls, putVars>>

Alloc(g) ==
  /\ gpc[g] = "alloc"
  /\ \E b \in Blocks \ arena :
       /\ arena' = arena \cup {b}
       /\ Lease(b)
  /\ Unlock
  /\ GetReturns(g)
  /\ UNCHANGED <<stackVars, inFlight, putVars>>

(* errdefer gives the slot back, without a signal. *)
AllocFails(g) ==
  /\ MayFail
  /\ gpc[g] = "alloc"
  /\ inFlight' = inFlight - 1
  /\ Unlock
  /\ GetReturns(g)
  /\ UNCHANGED <<stackVars, leaseVars, putVars>>

WaitLock(g) ==
  /\ gpc[g] = "waitLock"
  /\ Acquire(g)
  /\ Goto(g, "waitCheck")
  /\ UNCHANGED <<stackVars, inFlight, leaseVars, seen, head, nxt, calls, putVars>>

(* Mutant: the wait is not in a loop that looks at in_flight first. *)
WaitCheckBlind(g) ==
  /\ gpc[g] = "waitCheck"
  /\ Unlock
  /\ Goto(g, "asleep")
  /\ UNCHANGED <<stackVars, inFlight, leaseVars, seen, head, nxt, calls, putVars>>

(* condition.wait sleeps and unlocks in one step. *)
WaitCheck(g) ==
  /\ gpc[g] = "waitCheck"
  /\ Unlock
  /\ Goto(g, IF inFlight >= MaxBlocks THEN "asleep" ELSE "load")
  /\ UNCHANGED <<stackVars, inFlight, leaseVars, seen, head, nxt, calls, putVars>>

(* try condition.wait: the one point where get can be cancelled. *)
Cancel(g) ==
  /\ gpc[g] = "asleep"
  /\ GetReturns(g)
  /\ UNCHANGED <<stackVars, countVars, leaseVars, putVars>>

GetStep(g) ==
  \/ LoadInFlight(g) \/ Reserve(g) \/ ReserveFails(g)
  \/ PopHead(g) \/ PopNext(g) \/ PopReturns(g) \/ PopEmpty(g) \/ PopFails(g)
  \/ AllocLock(g) \/ Alloc(g) \/ AllocFails(g)
  \/ WaitLock(g) \/ WaitCheck(g)

-----------------------------------------------------------------------------
(* put *)

(* The slices of address a that no put has begun to take back. *)
BeingPut(a) == {p \in Putters : ppc[p] \in {"link", "push"} /\ blk[p] = a}
Usable(a) == leases[a] > Cardinality(BeingPut(a))

Put(p, a) ==
  /\ ppc[p] = "idle"
  /\ Usable(a)
  /\ blk' = [blk EXCEPT ![p] = a]
  /\ pHead' = [pHead EXCEPT ![p] = freeStack]
  /\ ppc' = [ppc EXCEPT ![p] = "link"]
  /\ UNCHANGED <<stackVars, countVars, leaseVars, getVars>>

(* Mutant: node.next = head is forgotten. *)
LinkForgotten(p) ==
  /\ ppc[p] = "link"
  /\ ppc' = [ppc EXCEPT ![p] = "push"]
  /\ UNCHANGED <<stackVars, countVars, leaseVars, getVars, blk, pHead>>

Link(p) ==
  /\ ppc[p] = "link"
  /\ next' = IF blk[p] \in Blocks
             THEN [next EXCEPT ![blk[p]] = pHead[p]] ELSE next
  /\ ppc' = [ppc EXCEPT ![p] = "push"]
  /\ UNCHANGED <<freeStack, countVars, leaseVars, getVars, blk, pHead>>

Push(p) ==
  /\ ppc[p] = "push"
  /\ freeStack = pHead[p]
  /\ freeStack' = blk[p]
  /\ leases' = [leases EXCEPT ![blk[p]] = @ - 1]
  /\ ppc' = [ppc EXCEPT ![p] = "lock"]
  /\ blk' = [blk EXCEPT ![p] = Null]
  /\ pHead' = [pHead EXCEPT ![p] = Null]
  /\ UNCHANGED <<next, countVars, arena, getVars>>

(* Mutant: node.next = head stands before the loop. *)
PushFailsKeepsLink(p) ==
  /\ ppc[p] = "push"
  /\ pHead' = [pHead EXCEPT ![p] = freeStack]
  /\ UNCHANGED <<stackVars, countVars, leaseVars, getVars, ppc, blk>>

PushFails(p) ==
  /\ ppc[p] = "push"
  /\ pHead' = [pHead EXCEPT ![p] = freeStack]
  /\ ppc' = [ppc EXCEPT ![p] = "link"]
  /\ UNCHANGED <<stackVars, countVars, leaseVars, getVars, blk>>

PutLock(p) ==
  /\ ppc[p] = "lock"
  /\ Acquire(p)
  /\ ppc' = [ppc EXCEPT ![p] = "release"]
  /\ UNCHANGED <<stackVars, inFlight, leaseVars, getVars, blk, pHead>>

Release(p) ==
  /\ ppc[p] = "release"
  /\ inFlight' = inFlight - 1
  /\ ppc' = [ppc EXCEPT ![p] = "signal"]
  /\ UNCHANGED <<stackVars, mutex, leaseVars, getVars, blk, pHead>>

Asleep == {g \in Getters : gpc[g] = "asleep"}

(* Mutant: put does not signal. *)
SignalNone(p) ==
  /\ ppc[p] = "signal"
  /\ Unlock
  /\ ppc' = [ppc EXCEPT ![p] = "idle"]
  /\ UNCHANGED <<stackVars, inFlight, leaseVars, getVars, blk, pHead>>

(* condition.signal wakes one sleeper, if there is one. *)
Signal(p) ==
  /\ ppc[p] = "signal"
  /\ Unlock
  /\ ppc' = [ppc EXCEPT ![p] = "idle"]
  /\ \/ /\ Asleep = {}
        /\ UNCHANGED gpc
     \/ \E g \in Asleep : Goto(g, "waitLock")
  /\ UNCHANGED <<stackVars, inFlight, leaseVars, seen, head, nxt, calls, blk, pHead>>

PutStep(p) ==
  \/ Link(p) \/ Push(p) \/ PushFails(p) \/ PutLock(p) \/ Release(p) \/ Signal(p)

(* The holder of a slice writes into it, over the link that was there. *)
Fill(b) ==
  /\ Usable(b)
  /\ next' = [next EXCEPT ![b] = Junk]
  /\ UNCHANGED <<freeStack, countVars, leaseVars, getVars, putVars>>

-----------------------------------------------------------------------------
Next ==
  \/ \E g \in Getters : Get(g) \/ GetStep(g) \/ Cancel(g)
  \/ \E p \in Putters : PutStep(p) \/ \E a \in Addrs : Put(p, a)
  \/ \E b \in Blocks : Fill(b)

Spec == Init /\ [][Next]_vars

(* Threads keep running, a weak exchange does not fail forever, and PJRT   *)
(* completes every transfer, so that every leased block is put.            *)
Fairness ==
  /\ \A g \in Getters :
       /\ WF_vars(Get(g))
       /\ WF_vars(GetStep(g))
       /\ SF_vars(Reserve(g))
       /\ SF_vars(PopReturns(g) \/ PopEmpty(g))
  /\ \A p \in Putters :
       /\ WF_vars(PutStep(p))
       /\ SF_vars(Push(p))
       /\ WF_vars(\E a \in Addrs : Put(p, a))

FairSpec == Spec /\ Fairness

-----------------------------------------------------------------------------
(* Safety *)

Leased == {a \in Addrs : leases[a] > 0}
Pooled == arena \ Leased

(* Between its reservation and its return, a getter occupies one unit of   *)
(* in_flight; so does a putter between its push and its release.           *)
Reserved == {g \in Getters : gpc[g] \in {"popHead", "popNext", "popCas", "allocLock", "alloc"}}
Releasing == {p \in Putters : ppc[p] \in {"lock", "release"}}
Popping == {g \in Getters : gpc[g] \in {"popHead", "popNext", "popCas"}}

(* At most one getter is inside pop: what makes the stack safe.            *)
SinglePopper == \A g, h \in Popping : g = h

(* The sizes under which SinglePopper holds by itself.                     *)
SafeSizing == MaxBlocks = 1 \/ \A g, h \in Getters : g = h

(* No block is leased to two callers, no slice that get returns lies       *)
(* outside the arena, and the stack's head is never a block in use: pop    *)
(* must not let a block go out twice, nor follow bytes a caller wrote.     *)
LeaseExclusive ==
  /\ leases[Junk] = 0
  /\ \A b \in Blocks : leases[b] <= 1
  /\ Leased \subseteq arena
  /\ freeStack \in Pooled \cup {Null}

(* What free_stack's type, std.atomic.Value(?*Node), says of it: the head  *)
(* is null or a node, never bytes that a caller of get wrote into a block. *)
(* It is false once two getters can be inside pop.                         *)
HeadIsNode == freeStack \in Blocks \cup {Null}

(* However getters and putters interleave, the arena never makes a block   *)
(* more than max_blocks: get allocates only when every block is out.       *)
ArenaBounded == Cardinality(arena) <= MaxBlocks

(* in_flight counts exactly the blocks out and the calls under way, whether*)
(* they end by a return, a push or an allocation failure.                  *)
InFlightExact ==
  inFlight = Cardinality(Reserved) + Cardinality(Releasing)
             + Cardinality({l \in Addrs \X (1 .. MaxBlocks) : l[2] <= leases[l[1]]})

(* No wakeup is lost: while a getter sleeps, every free slot is matched by *)
(* a getter that is awake and will look, or a put that is about to signal. *)
Awake == {g \in Getters : gpc[g] \in {"load", "reserve", "waitLock", "waitCheck"}}
Signalling == {p \in Putters : ppc[p] = "signal"}
NoLostWakeup ==
  Asleep # {} =>
    MaxBlocks - inFlight <= Cardinality(Awake) + Cardinality(Signalling)

(* The pool implements the abstract lease: a lease begins when pop's       *)
(* exchange or the allocation succeeds and ends when put's exchange does.  *)
AbstractPool == INSTANCE BlockLease WITH made <- arena, leased <- Leased
ImplementsLease == AbstractPool!LeaseSpec

(* Liveness *)

(* Every call of get returns, with a block or an error, as long as blocks  *)
(* are put back.                                                           *)
EveryGetReturns == <>[](\A g \in Getters : gpc[g] = "idle" /\ calls[g] = Gets)

-----------------------------------------------------------------------------
(* The inductive invariant behind the properties above, as long as at most *)
(* one getter is inside pop.                                               *)

(* The types, one lease per address, and reservations below the limit.     *)
Typed ==
  /\ TypeOK
  /\ leases \in [Addrs -> {0, 1}]
  /\ leases[Junk] = 0
  /\ Leased \subseteq arena
  /\ \A g \in Getters : gpc[g] = "reserve" => seen[g] < MaxBlocks

(* A putter between its load and its push owns a leased block, alone, and  *)
(* the link it wrote is still in it.                                       *)
Returning(p) == ppc[p] \in {"link", "push"}
PutsOwn ==
  /\ \A p \in Putters : Returning(p) => blk[p] \in Leased
  /\ \A p, q \in Putters : Returning(p) /\ Returning(q) /\ blk[p] = blk[q] => p = q
  /\ \A p \in Putters : ppc[p] = "push" => next[blk[p]] = pHead[p]

(* The links nx lead from h through all of P and nothing else: no node has *)
(* two predecessors, the head has none, and every non-empty part of P is   *)
(* entered from outside it.                                                *)
Chained(h, nx, P) ==
  /\ h \in P \cup {Null}
  /\ \A b \in P : nx[b] \in P \cup {Null}
  /\ \A b, c \in P : nx[b] = nx[c] /\ nx[b] # Null => b = c
  /\ h # Null => \A b \in P : nx[b] # h
  /\ \A S \in SUBSET P : S # {} => h \in S \/ \E b \in P \ S : nx[b] \in S
StackIntact == Chained(freeStack, next, Pooled)

(* What the getter inside pop has read is still so: only it removes nodes. *)
PopsFresh ==
  \A g \in Getters :
    /\ gpc[g] \in {"popNext", "popCas"} => head[g] \in Pooled \cup {Null}
    /\ gpc[g] = "popCas" /\ head[g] # Null => nxt[g] = next[head[g]]

(* in_flight is the number of getters with a reservation, leased blocks    *)
(* and putters that have yet to release, and stays within max_blocks.      *)
Tokens == Reserved \cup Leased \cup Releasing
Counted == inFlight = Cardinality(Tokens)

(* A getter that found the stack empty owns the right to one more block.   *)
Allocating == {g \in Getters : gpc[g] \in {"allocLock", "alloc"}}
Bounded == Cardinality(arena \cup Allocating) <= MaxBlocks

(* What stays true however many getters are inside pop at once: a put that *)
(* is under way has a lease of its own to end, even when the same block is *)
(* out twice, and in_flight counts the leases, not the blocks.             *)
CountInv ==
  /\ TypeOK
  /\ \A g \in Getters : gpc[g] = "reserve" => seen[g] < MaxBlocks
  /\ \A p \in Putters : Returning(p) => blk[p] \in Addrs
  /\ \A a \in Addrs : Cardinality(BeingPut(a)) <= leases[a]
  /\ InFlightExact

PoolInv ==
  /\ Typed
  /\ PutsOwn
  /\ StackIntact
  /\ PopsFresh
  /\ Counted
  /\ Bounded

=============================================================================
