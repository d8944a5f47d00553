-------------------------- MODULE BufferPoolProofs --------------------------
(***************************************************************************)
(* Proofs about BufferPool, for every set of getters, putters and blocks   *)
(* and every limit. Whatever the schedule, in_flight counts what is out,   *)
(* and unless the allocator fails no getter sleeps beside a free place. As *)
(* long as one getter at a time is inside pop, leases are exclusive, the   *)
(* links of the stack stay intact and the arena within max_blocks.         *)
(***************************************************************************)
EXTENDS BufferPool, FiniteSetTheorems, TLAPS

-----------------------------------------------------------------------------
(* Lemmas on cardinalities                                                 *)

(* Exchanging one member of a finite set for a new one keeps its size.     *)
LEMMA SwapElement ==
  ASSUME NEW S, IsFiniteSet(S), NEW x \in S, NEW y, y \notin S
  PROVE  /\ IsFiniteSet((S \ {x}) \cup {y})
         /\ Cardinality((S \ {x}) \cup {y}) = Cardinality(S)
<1>1. /\ IsFiniteSet(S \ {x})
      /\ Cardinality(S \ {x}) = Cardinality(S) - 1
  BY FS_RemoveElement
<1>2. y \notin S \ {x}
  OBVIOUS
<1>3. /\ IsFiniteSet((S \ {x}) \cup {y})
      /\ Cardinality((S \ {x}) \cup {y}) = Cardinality(S \ {x}) + 1
  BY <1>1, <1>2, FS_AddElement
<1>4. Cardinality(S) \in Nat
  BY FS_CardinalityType
<1> QED
  BY <1>1, <1>3, <1>4

(* A subset of a finite set has a natural size, no larger.                 *)
LEMMA SubsetSize ==
  ASSUME NEW S, IsFiniteSet(S), NEW T, T \subseteq S
  PROVE  /\ IsFiniteSet(T)
         /\ Cardinality(T) \in Nat
         /\ Cardinality(S) \in Nat
         /\ Cardinality(T) <= Cardinality(S)
<1>1. IsFiniteSet(T) /\ Cardinality(T) <= Cardinality(S)
  BY FS_Subset
<1> QED
  BY <1>1, FS_CardinalityType

(* The threads and blocks together are finite.                             *)
LEMMA UniverseFinite ==
  IsFiniteSet(Getters \cup Putters \cup Blocks)
<1>1. IsFiniteSet(Getters \cup Putters)
  BY FS_Union, PoolAssumption
<1> QED
  BY <1>1, FS_Union, PoolAssumption

-----------------------------------------------------------------------------
(* Lemmas on chains: what pop's and put's exchanges do to the stack        *)

(* The links outside the chain do not matter.                              *)
LEMMA ChainFrame ==
  ASSUME NEW h, NEW nx, NEW ny, NEW P,
         Chained(h, nx, P), \A b \in P : ny[b] = nx[b]
  PROVE  Chained(h, ny, P)
BY SMTT(30) DEF Chained

(* Moving the head along its link removes exactly the head.                *)
LEMMA ChainPop ==
  ASSUME NEW h, NEW nx, NEW P, Chained(h, nx, P), h # Null, Null \notin P
  PROVE  Chained(nx[h], nx, P \ {h})
<1>1. h \in P /\ nx[h] \in P \cup {Null}
  BY DEF Chained
<1>2. nx[h] # h
  BY <1>1 DEF Chained
<1>3. \A b \in P \ {h} : nx[b] \in (P \ {h}) \cup {Null}
  BY DEF Chained
<1>4. nx[h] # Null => \A b \in P \ {h} : nx[b] # nx[h]
  BY <1>1 DEF Chained
<1>5. ASSUME NEW S \in SUBSET (P \ {h}), S # {}
      PROVE  nx[h] \in S \/ \E b \in (P \ {h}) \ S : nx[b] \in S
  <2>1. PICK b \in P \ S : nx[b] \in S
    BY <1>5 DEF Chained
  <2> QED
    BY <2>1
<1>6. \A b, c \in P \ {h} : nx[b] = nx[c] /\ nx[b] # Null => b = c
  BY DEF Chained
<1> QED
  BY <1>1, <1>2, <1>3, <1>4, <1>5, <1>6 DEF Chained

(* A new node linked to the head becomes the head of a longer chain.       *)
LEMMA ChainPush ==
  ASSUME NEW h, NEW nx, NEW P, NEW n, Chained(h, nx, P),
         n \notin P, n # Null, Null \notin P, nx[n] = h
  PROVE  Chained(n, nx, P \cup {n})
<1>1. \A b \in P \cup {n} : nx[b] \in (P \cup {n}) \cup {Null}
  BY DEF Chained
<1>2. \A b, c \in P \cup {n} : nx[b] = nx[c] /\ nx[b] # Null => b = c
  BY DEF Chained
<1>3. \A b \in P \cup {n} : nx[b] # n
  BY DEF Chained
<1>4. ASSUME NEW S \in SUBSET (P \cup {n}), S # {}
      PROVE  n \in S \/ \E b \in (P \cup {n}) \ S : nx[b] \in S
  <2>1. SUFFICES ASSUME n \notin S
                 PROVE  \E b \in (P \cup {n}) \ S : nx[b] \in S
    OBVIOUS
  <2>2. S \in SUBSET P
    BY <2>1
  <2>3. h \in S \/ \E b \in P \ S : nx[b] \in S
    BY <1>4, <2>2 DEF Chained
  <2>4. CASE h \in S
    BY <2>1, <2>4
  <2>5. CASE \E b \in P \ S : nx[b] \in S
    BY <2>5
  <2> QED
    BY <2>3, <2>4, <2>5
<1> QED
  BY <1>1, <1>2, <1>3, <1>4 DEF Chained

(* An empty stack has nothing pooled behind it.                            *)
LEMMA ChainEmpty ==
  ASSUME NEW nx, NEW P, Chained(Null, nx, P), Null \notin P
  PROVE  P = {}
BY DEF Chained

-----------------------------------------------------------------------------
(* The inductive invariant                                                 *)

(* Tokens is finite, so its size can be computed with.                     *)
LEMMA TokensFinite ==
  ASSUME Typed
  PROVE  IsFiniteSet(Tokens) /\ IsFiniteSet(arena \cup Allocating)
<1>1. Tokens \subseteq Getters \cup Putters \cup Blocks
  BY DEF Typed, TypeOK, Tokens, Reserved, Releasing
<1>2. arena \cup Allocating \subseteq Getters \cup Putters \cup Blocks
  BY DEF Typed, TypeOK, Allocating
<1> QED
  BY <1>1, <1>2, UniverseFinite, SubsetSize

LEMMA InvInit == Init => PoolInv
<1> SUFFICES ASSUME Init PROVE PoolInv
  OBVIOUS
<1>1. Leased = {} /\ Reserved = {} /\ Releasing = {} /\ Allocating = {} /\ arena = {}
  BY DEF Init, Leased, Reserved, Releasing, Allocating
<1>2. Typed
  BY <1>1, PoolAssumption
     DEF Init, Typed, TypeOK, Words, Addrs, GetLabels, PutLabels
<1>3. PutsOwn
  BY DEF Init, PutsOwn, Returning
<1>4. StackIntact
  BY <1>1 DEF Init, StackIntact, Chained, Pooled
<1>5. PopsFresh
  BY DEF Init, PopsFresh
<1>6. Cardinality({}) = 0 /\ MaxBlocks \in Nat
  BY FS_EmptySet, PoolAssumption
<1>7. Counted
  BY <1>1, <1>6 DEF Init, Counted, Tokens
<1>8. Bounded
  BY <1>1, <1>6 DEF Bounded
<1> QED
  BY <1>2, <1>3, <1>4, <1>5, <1>7, <1>8 DEF PoolInv

(* A step that only moves a getter between labels outside pop and outside  *)
(* its reservation disturbs nothing but the types.                         *)
LEMMA GetterFrame ==
  ASSUME PoolInv, Typed',
         UNCHANGED <<freeStack, next, inFlight, arena, leases, putVars>>,
         Reserved' = Reserved, Allocating' = Allocating,
         \A g \in Getters : gpc'[g] \in {"popNext", "popCas"} =>
           gpc'[g] = gpc[g] /\ head'[g] = head[g] /\ nxt'[g] = nxt[g]
  PROVE  PoolInv'
<1>1. Leased' = Leased /\ Pooled' = Pooled /\ Releasing' = Releasing
  BY DEF Leased, Pooled, Releasing, putVars
<1>2. PutsOwn'
  BY <1>1 DEF PoolInv, PutsOwn, Returning, putVars
<1>3. StackIntact'
  BY <1>1 DEF PoolInv, StackIntact
<1>4. PopsFresh'
  BY <1>1 DEF PoolInv, PopsFresh
<1>5. Counted' /\ Bounded'
  BY <1>1 DEF PoolInv, Counted, Tokens, Bounded
<1> QED
  BY <1>2, <1>3, <1>4, <1>5 DEF PoolInv

LEMMA QuietGetSteps ==
  ASSUME PoolInv, NEW g \in Getters,
         \/ Get(g) \/ LoadInFlight(g) \/ ReserveFails(g) \/ AllocLock(g)
         \/ WaitLock(g) \/ WaitCheck(g) \/ Cancel(g)
  PROVE  PoolInv'
<1> USE DEF Goto, GetReturns, Look, Acquire, Unlock,
            stackVars, countVars, leaseVars, putVars
<1>1. /\ UNCHANGED <<freeStack, next, inFlight, arena, leases, putVars>>
      /\ Leased' = Leased
  BY DEF Get, LoadInFlight, ReserveFails, AllocLock, WaitLock, WaitCheck, Cancel, Leased
<1>2. \E l \in GetLabels : gpc' = [gpc EXCEPT ![g] = l]
  BY DEF Get, LoadInFlight, ReserveFails, AllocLock, WaitLock, WaitCheck, Cancel, GetLabels
<1>3. Typed /\ TypeOK
  BY DEF PoolInv, Typed
<1>4. Typed'
  <2>1. mutex' \in Getters \cup Putters \cup {Null}
    BY <1>3 DEF TypeOK, Get, LoadInFlight, ReserveFails, AllocLock, WaitLock, WaitCheck, Cancel
  <2>2. seen' \in [Getters -> 0 .. MaxBlocks]
    BY <1>3, PoolAssumption
       DEF TypeOK, Get, LoadInFlight, ReserveFails, AllocLock, WaitLock, WaitCheck, Cancel
  <2>3. head' \in [Getters -> Words] /\ nxt' \in [Getters -> Words]
    BY <1>3 DEF TypeOK, Words, Get, LoadInFlight, ReserveFails, AllocLock, WaitLock, WaitCheck, Cancel
  <2>4. calls' \in [Getters -> 0 .. Gets]
    BY <1>3, PoolAssumption
       DEF TypeOK, Get, LoadInFlight, ReserveFails, AllocLock, WaitLock, WaitCheck, Cancel
  <2>5. ASSUME NEW k \in Getters, gpc'[k] = "reserve" PROVE seen'[k] < MaxBlocks
    BY <1>3, <2>5, PoolAssumption
       DEF Typed, TypeOK, Get, LoadInFlight, ReserveFails, AllocLock, WaitLock, WaitCheck, Cancel
  <2> QED
    BY <1>1, <1>2, <1>3, <2>1, <2>2, <2>3, <2>4, <2>5 DEF Typed, TypeOK
<1>5. Reserved' = Reserved /\ Allocating' = Allocating
  BY <1>3 DEF TypeOK, Reserved, Allocating,
     Get, LoadInFlight, ReserveFails, AllocLock, WaitLock, WaitCheck, Cancel
<1>6. ASSUME NEW k \in Getters, gpc'[k] \in {"popNext", "popCas"}
      PROVE  gpc'[k] = gpc[k] /\ head'[k] = head[k] /\ nxt'[k] = nxt[k]
  BY <1>3, <1>6 DEF TypeOK,
     Get, LoadInFlight, ReserveFails, AllocLock, WaitLock, WaitCheck, Cancel
<1> QED
  BY <1>1, <1>4, <1>5, <1>6, GetterFrame

(* Reserve adds one token, below the limit.                                *)
LEMMA ReserveStep ==
  ASSUME PoolInv, NEW g \in Getters, Reserve(g)
  PROVE  PoolInv'
<1> USE DEF Reserve, Goto, stackVars, leaseVars, putVars
<1>1. Typed /\ TypeOK
  BY DEF PoolInv, Typed
<1>2. /\ Leased' = Leased /\ Pooled' = Pooled /\ Releasing' = Releasing
      /\ Allocating' = Allocating
      /\ Reserved' = Reserved \cup {g} /\ g \notin Reserved
  BY <1>1 DEF TypeOK, Leased, Pooled, Releasing, Allocating, Reserved
<1>3. inFlight < MaxBlocks
  BY <1>1 DEF Typed
<1>4. Typed'
  <2>1. inFlight' \in 0 .. MaxBlocks
    BY <1>1, <1>3, PoolAssumption DEF TypeOK
  <2> QED
    BY <1>1, <1>2, <2>1 DEF Typed, TypeOK, GetLabels
<1>5. PutsOwn'
  BY <1>2 DEF PoolInv, PutsOwn, Returning
<1>6. StackIntact'
  BY <1>2 DEF PoolInv, StackIntact
<1>7. PopsFresh'
  BY <1>1, <1>2 DEF PoolInv, PopsFresh, TypeOK
<1>8. Counted'
  <2>1. g \notin Tokens
    BY <1>1, <1>2, PoolAssumption DEF Typed, TypeOK, Tokens, Releasing
  <2>2. Tokens' = Tokens \cup {g}
    BY <1>2 DEF Tokens
  <2>3. Cardinality(Tokens') = Cardinality(Tokens) + 1
    BY <1>1, <2>1, <2>2, TokensFinite, FS_AddElement
  <2> QED
    BY <2>3 DEF PoolInv, Counted
<1>9. Bounded'
  BY <1>2 DEF PoolInv, Bounded
<1> QED
  BY <1>4, <1>5, <1>6, <1>7, <1>8, <1>9 DEF PoolInv

(* The loads of pop read the head, then the link of the head it read.      *)
LEMMA PopLoads ==
  ASSUME PoolInv, NEW g \in Getters, PopHead(g) \/ PopFails(g) \/ PopNext(g)
  PROVE  PoolInv'
<1> USE DEF PopHead, PopFails, PopNext, LoadHead, Goto,
            stackVars, countVars, leaseVars, putVars
<1>1. Typed /\ TypeOK
  BY DEF PoolInv, Typed
<1>2. /\ Leased' = Leased /\ Pooled' = Pooled /\ Releasing' = Releasing
      /\ Reserved' = Reserved /\ Allocating' = Allocating
  BY <1>1 DEF TypeOK, Leased, Pooled, Releasing, Allocating, Reserved
<1>3. head' \in [Getters -> Words] /\ nxt' \in [Getters -> Words]
  BY <1>1 DEF TypeOK, Words
<1>4. Typed'
  BY <1>1, <1>2, <1>3 DEF Typed, TypeOK, GetLabels
<1>5. PutsOwn'
  BY <1>2 DEF PoolInv, PutsOwn, Returning
<1>6. StackIntact'
  BY <1>2 DEF PoolInv, StackIntact
<1>7. PopsFresh'
  <2>1. freeStack \in Pooled \cup {Null}
    BY DEF PoolInv, StackIntact, Chained
  <2>2. Pooled \subseteq Blocks
    BY <1>1 DEF TypeOK, Pooled
  <2>3. CASE PopHead(g) \/ PopFails(g)
    BY <1>1, <1>2, <2>1, <2>3 DEF PoolInv, PopsFresh, TypeOK
  <2>4. CASE PopNext(g)
    BY <1>1, <1>2, <2>2, <2>4 DEF PoolInv, PopsFresh, TypeOK
  <2> QED
    BY <2>3, <2>4
<1>8. Counted' /\ Bounded'
  BY <1>2 DEF PoolInv, Counted, Tokens, Bounded
<1> QED
  BY <1>4, <1>5, <1>6, <1>7, <1>8 DEF PoolInv

(* Nothing pooled is left when the stack is empty: every block that was    *)
(* made holds a token, and so does the getter that will make one more.     *)
LEMMA PopEmptyStep ==
  ASSUME PoolInv, NEW g \in Getters, PopEmpty(g)
  PROVE  PoolInv'
<1> USE DEF PopEmpty, Goto, stackVars, countVars, leaseVars, putVars
<1>1. Typed /\ TypeOK
  BY DEF PoolInv, Typed
<1>2. /\ Leased' = Leased /\ Pooled' = Pooled /\ Releasing' = Releasing
      /\ Reserved' = Reserved /\ Allocating' = Allocating \cup {g}
      /\ g \in Reserved
  BY <1>1 DEF TypeOK, Leased, Pooled, Releasing, Allocating, Reserved
<1>4. Typed'
  BY <1>1, <1>2 DEF Typed, TypeOK, GetLabels
<1>5. PutsOwn'
  BY <1>2 DEF PoolInv, PutsOwn, Returning
<1>6. StackIntact'
  BY <1>2 DEF PoolInv, StackIntact
<1>7. PopsFresh'
  BY <1>1, <1>2 DEF PoolInv, PopsFresh, TypeOK
<1>8. Counted'
  BY <1>2 DEF PoolInv, Counted, Tokens
<1>9. Bounded'
  <2>1. Pooled = {}
    <3>1. Chained(Null, next, Pooled)
      BY DEF PoolInv, StackIntact
    <3>2. Null \notin Pooled
      BY <1>1, PoolAssumption DEF TypeOK, Pooled
    <3> QED
      BY <3>1, <3>2, ChainEmpty
  <2>2. arena' \cup Allocating' \subseteq Tokens
    BY <1>2, <2>1 DEF Pooled, Tokens, Allocating, Reserved
  <2>3. Cardinality(arena' \cup Allocating') <= Cardinality(Tokens)
    BY <1>1, <2>2, TokensFinite, SubsetSize
  <2>4. Cardinality(arena' \cup Allocating') \in Nat /\ Cardinality(Tokens) \in Nat
    BY <1>1, <2>2, TokensFinite, SubsetSize
  <2>5. Cardinality(Tokens) <= MaxBlocks /\ MaxBlocks \in Nat
    BY <1>1, PoolAssumption DEF PoolInv, Counted, TypeOK
  <2> QED
    BY <2>3, <2>4, <2>5 DEF Bounded
<1> QED
  BY <1>4, <1>5, <1>6, <1>7, <1>8, <1>9 DEF PoolInv

(* pop's exchange: the head leaves the stack and becomes a lease. This is  *)
(* where a second getter inside pop would have stale knowledge of the head.*)
LEMMA PopReturnsStep ==
  ASSUME PoolInv, SinglePopper, NEW g \in Getters, PopReturns(g)
  PROVE  PoolInv'
<1> USE DEF PopReturns, GetReturns, Goto, Lease, countVars, putVars
<1> DEFINE h == head[g]
<1>1. Typed /\ TypeOK
  BY DEF PoolInv, Typed
<1>2. h \in Pooled /\ freeStack = h /\ freeStack' = next[h]
  BY DEF PoolInv, PopsFresh
<1>3. h \in Blocks /\ h \in Addrs /\ h \in arena /\ leases[h] = 0 /\ h # Junk
  BY <1>1, <1>2, PoolAssumption DEF Typed, TypeOK, Pooled, Leased, Addrs
<1>4. leases' = [leases EXCEPT ![h] = 1]
  BY <1>1, <1>3 DEF TypeOK
<1>5. /\ Leased' = Leased \cup {h} /\ h \notin Leased
      /\ Pooled' = Pooled \ {h}
      /\ Reserved' = Reserved \ {g} /\ g \in Reserved
      /\ Releasing' = Releasing /\ Allocating' = Allocating
  BY <1>1, <1>3, <1>4 DEF TypeOK, Leased, Pooled, Reserved, Releasing, Allocating
<1>6. Typed'
  <2>1. freeStack' \in Words
    BY <1>1, <1>2, <1>3 DEF TypeOK
  <2>2. leases' \in [Addrs -> {0, 1}] /\ leases'[Junk] = 0
    BY <1>1, <1>3, <1>4 DEF Typed, TypeOK, Addrs
  <2>3. leases' \in [Addrs -> 0 .. MaxBlocks]
    BY <2>2, PoolAssumption
  <2>4. seen' \in [Getters -> 0 .. MaxBlocks]
    BY <1>1, PoolAssumption DEF TypeOK
  <2>5. Leased' \subseteq arena'
    BY <1>1, <1>3, <1>5 DEF Typed
  <2>6. gpc' \in [Getters -> GetLabels] /\ head' \in [Getters -> Words] /\ nxt' \in [Getters -> Words]
    BY <1>1 DEF TypeOK, GetLabels, Words
  <2>7. \A k \in Getters : gpc'[k] = "reserve" => seen'[k] < MaxBlocks
    BY <1>1 DEF Typed, TypeOK
  <2> QED
    BY <1>1, <2>1, <2>2, <2>3, <2>4, <2>5, <2>6, <2>7 DEF Typed, TypeOK
<1>7. PutsOwn'
  BY <1>5 DEF PoolInv, PutsOwn, Returning
<1>8. StackIntact'
  <2>1. Chained(h, next, Pooled) /\ h # Null /\ Null \notin Pooled
    BY <1>1, <1>2, PoolAssumption DEF PoolInv, StackIntact, TypeOK, Pooled
  <2>2. Chained(next[h], next, Pooled \ {h})
    BY <2>1, ChainPop
  <2> QED
    BY <1>2, <1>5, <2>2 DEF StackIntact
<1>9. PopsFresh'
  <2>1. ASSUME NEW k \in Getters, gpc'[k] \in {"popNext", "popCas"} PROVE FALSE
    <3>1. k # g /\ gpc[k] \in {"popNext", "popCas"}
      BY <1>1, <2>1 DEF TypeOK
    <3> QED
      BY <3>1 DEF SinglePopper, Popping
  <2> QED
    BY <2>1 DEF PopsFresh
<1>10. Counted'
  <2>1. g \in Tokens /\ h \notin Tokens
    BY <1>1, <1>3, <1>5, PoolAssumption DEF Tokens, Reserved, Releasing
  <2>2. Tokens' = (Tokens \ {g}) \cup {h}
    BY <1>1, <1>5, PoolAssumption DEF Typed, TypeOK, Tokens, Releasing
  <2>3. Cardinality(Tokens') = Cardinality(Tokens)
    BY <1>1, <2>1, <2>2, TokensFinite, SwapElement
  <2> QED
    BY <2>3 DEF PoolInv, Counted
<1>11. Bounded'
  BY <1>5 DEF PoolInv, Bounded
<1> QED
  BY <1>6, <1>7, <1>8, <1>9, <1>10, <1>11 DEF PoolInv

(* The allocation turns the right to make a block into a leased block.     *)
LEMMA AllocStep ==
  ASSUME PoolInv, NEW g \in Getters, Alloc(g)
  PROVE  PoolInv'
<1> USE DEF GetReturns, Goto, Lease, Unlock, stackVars, putVars
<1>1. Typed /\ TypeOK
  BY DEF PoolInv, Typed
<1>0. /\ gpc[g] = "alloc" /\ Unlock /\ GetReturns(g)
      /\ UNCHANGED <<freeStack, next, inFlight, ppc, blk, pHead>>
  BY DEF Alloc
<1>2. PICK b \in Blocks \ arena : arena' = arena \cup {b} /\ Lease(b)
  BY DEF Alloc
<1>3. b \in Addrs /\ leases[b] = 0 /\ b # Junk
  BY <1>0, <1>1, <1>2, PoolAssumption DEF Typed, TypeOK, Leased, Addrs
<1>4. leases' = [leases EXCEPT ![b] = 1]
  BY <1>0, <1>1, <1>2, <1>3 DEF TypeOK
<1>5. /\ Leased' = Leased \cup {b} /\ b \notin Leased
      /\ Pooled' = Pooled
      /\ Reserved' = Reserved \ {g} /\ g \in Reserved
      /\ Releasing' = Releasing
      /\ Allocating' = Allocating \ {g} /\ g \in Allocating
  BY <1>0, <1>1, <1>2, <1>3, <1>4 DEF TypeOK, Leased, Pooled, Reserved, Releasing, Allocating
<1>6. Typed'
  <2>1. leases' \in [Addrs -> {0, 1}] /\ leases'[Junk] = 0
    BY <1>0, <1>1, <1>3, <1>4 DEF Typed, TypeOK, Addrs
  <2>2. leases' \in [Addrs -> 0 .. MaxBlocks] /\ seen' \in [Getters -> 0 .. MaxBlocks]
    BY <1>0, <1>1, <2>1, PoolAssumption DEF TypeOK
  <2>3. Leased' \subseteq arena' /\ arena' \subseteq Blocks
    BY <1>0, <1>1, <1>2, <1>5 DEF Typed, TypeOK
  <2>4. gpc' \in [Getters -> GetLabels] /\ head' \in [Getters -> Words] /\ nxt' \in [Getters -> Words]
    BY <1>0, <1>1 DEF TypeOK, GetLabels, Words
  <2>5. \A k \in Getters : gpc'[k] = "reserve" => seen'[k] < MaxBlocks
    BY <1>0, <1>1 DEF Typed, TypeOK
  <2> QED
    BY <1>0, <1>1, <2>1, <2>2, <2>3, <2>4, <2>5 DEF Typed, TypeOK
<1>7. PutsOwn'
  BY <1>0, <1>5 DEF PoolInv, PutsOwn, Returning
<1>8. StackIntact'
  BY <1>0, <1>5 DEF PoolInv, StackIntact
<1>9. PopsFresh'
  BY <1>0, <1>1, <1>5 DEF PoolInv, PopsFresh, TypeOK
<1>10. Counted'
  <2>1. g \in Tokens /\ b \notin Tokens
    BY <1>0, <1>1, <1>2, <1>5, PoolAssumption DEF Tokens, Reserved, Releasing
  <2>2. Tokens' = (Tokens \ {g}) \cup {b}
    BY <1>0, <1>1, <1>5, PoolAssumption DEF Typed, TypeOK, Tokens, Releasing
  <2>3. Cardinality(Tokens') = Cardinality(Tokens)
    BY <1>0, <1>1, <2>1, <2>2, TokensFinite, SwapElement
  <2> QED
    BY <1>0, <2>3 DEF PoolInv, Counted
<1>11. Bounded'
  <2> DEFINE A == arena \cup Allocating
  <2>1. g \in A /\ b \notin A
    BY <1>2, <1>5, PoolAssumption DEF Allocating
  <2>2. arena' \cup Allocating' = (A \ {g}) \cup {b}
    BY <1>0, <1>1, <1>2, <1>5, PoolAssumption DEF TypeOK
  <2>3. Cardinality(arena' \cup Allocating') = Cardinality(A)
    BY <1>0, <1>1, <2>1, <2>2, TokensFinite, SwapElement, SMTT(20)
  <2> QED
    BY <2>3 DEF PoolInv, Bounded
<1> QED
  BY <1>6, <1>7, <1>8, <1>9, <1>10, <1>11 DEF PoolInv

(* An allocation failure gives up one token.                               *)
LEMMA AllocFailsStep ==
  ASSUME PoolInv, NEW g \in Getters, AllocFails(g)
  PROVE  PoolInv'
<1> USE DEF AllocFails, GetReturns, Goto, Unlock, stackVars, leaseVars, putVars
<1>1. Typed /\ TypeOK
  BY DEF PoolInv, Typed
<1>2. /\ Leased' = Leased /\ Pooled' = Pooled /\ Releasing' = Releasing
      /\ Reserved' = Reserved \ {g} /\ g \in Reserved
      /\ Allocating' = Allocating \ {g}
  BY <1>1 DEF TypeOK, Leased, Pooled, Reserved, Releasing, Allocating
<1>3. g \in Tokens /\ Tokens' = Tokens \ {g}
  BY <1>1, <1>2, PoolAssumption DEF Typed, TypeOK, Tokens, Releasing
<1>4. /\ Cardinality(Tokens') = Cardinality(Tokens) - 1
      /\ Cardinality(Tokens') \in Nat /\ Cardinality(Tokens) \in Nat
  BY <1>1, <1>3, TokensFinite, FS_RemoveElement, FS_CardinalityType
<1>5. Counted'
  BY <1>4 DEF PoolInv, Counted
<1>6. Typed'
  <2>1. inFlight' \in 0 .. MaxBlocks
    BY <1>1, <1>4, <1>5, PoolAssumption DEF PoolInv, Counted, TypeOK
  <2>2. seen' \in [Getters -> 0 .. MaxBlocks]
    BY <1>1, PoolAssumption DEF TypeOK
  <2>3. gpc' \in [Getters -> GetLabels] /\ head' \in [Getters -> Words] /\ nxt' \in [Getters -> Words]
    BY <1>1 DEF TypeOK, GetLabels, Words
  <2>4. \A k \in Getters : gpc'[k] = "reserve" => seen'[k] < MaxBlocks
    BY <1>1 DEF Typed, TypeOK
  <2> QED
    BY <1>1, <1>2, <2>1, <2>2, <2>3, <2>4 DEF Typed, TypeOK
<1>7. PutsOwn'
  BY <1>2 DEF PoolInv, PutsOwn, Returning
<1>8. StackIntact'
  BY <1>2 DEF PoolInv, StackIntact
<1>9. PopsFresh'
  BY <1>1, <1>2 DEF PoolInv, PopsFresh, TypeOK
<1>10. Bounded'
  <2>1. arena' \cup Allocating' \subseteq arena \cup Allocating
    BY <1>2
  <2>2. /\ Cardinality(arena' \cup Allocating') <= Cardinality(arena \cup Allocating)
        /\ Cardinality(arena' \cup Allocating') \in Nat
        /\ Cardinality(arena \cup Allocating) \in Nat
    BY <1>1, <2>1, TokensFinite, SubsetSize
  <2> QED
    BY <2>2, PoolAssumption DEF PoolInv, Bounded
<1> QED
  BY <1>5, <1>6, <1>7, <1>8, <1>9, <1>10 DEF PoolInv

(* A slice may be used or returned only if nobody is returning its block.  *)
LEMMA UsableIsOwned ==
  ASSUME Typed, NEW a \in Addrs, Usable(a)
  PROVE  /\ a \in Leased
         /\ a \in Blocks
         /\ \A q \in Putters : Returning(q) => blk[q] # a
<1>1. BeingPut(a) \subseteq Putters /\ IsFiniteSet(Putters)
  BY PoolAssumption DEF BeingPut
<1>2. IsFiniteSet(BeingPut(a)) /\ Cardinality(BeingPut(a)) \in Nat
  BY <1>1, SubsetSize
<1>3. leases[a] \in {0, 1}
  BY DEF Typed
<1>4. leases[a] = 1 /\ Cardinality(BeingPut(a)) = 0
  BY <1>2, <1>3 DEF Usable
<1>5. BeingPut(a) = {}
  BY <1>2, <1>4, FS_EmptySet
<1>6. a \in Blocks
  BY <1>4 DEF Typed, Addrs
<1> QED
  BY <1>4, <1>5, <1>6 DEF Leased, BeingPut, Returning

(* put loads the head, or reloads it after a failed exchange; Fill and the *)
(* writing of the link touch a block nobody else can reach.                *)
LEMMA QuietPutSteps ==
  ASSUME PoolInv, NEW p \in Putters,
         \/ \E a \in Addrs : Put(p, a)
         \/ PushFails(p) \/ PutLock(p) \/ Signal(p)
  PROVE  PoolInv'
<1> USE DEF stackVars, countVars, leaseVars, getVars, Acquire, Unlock, Goto
<1>1. Typed /\ TypeOK
  BY DEF PoolInv, Typed
<1>2. /\ UNCHANGED <<freeStack, next, inFlight, arena, leases, seen, head, nxt, calls>>
      /\ Leased' = Leased /\ Pooled' = Pooled
  BY DEF Put, PushFails, PutLock, Signal, Leased, Pooled
<1>3. \/ gpc' = gpc
      \/ \E g \in Getters : gpc[g] = "asleep" /\ gpc' = [gpc EXCEPT ![g] = "waitLock"]
  BY DEF Put, PushFails, PutLock, Signal, Asleep
<1>4. Reserved' = Reserved /\ Allocating' = Allocating
  BY <1>1, <1>3 DEF TypeOK, Reserved, Allocating
<1>5. Releasing' = Releasing
  BY <1>1 DEF TypeOK, Releasing, Put, PushFails, PutLock, Signal
<1>6. Typed'
  <2>1. gpc' \in [Getters -> GetLabels]
    BY <1>1, <1>3 DEF TypeOK, GetLabels
  <2>2. mutex' \in Getters \cup Putters \cup {Null}
    BY <1>1 DEF TypeOK, Put, PushFails, PutLock, Signal
  <2>3. ppc' \in [Putters -> PutLabels]
    BY <1>1 DEF TypeOK, PutLabels, Put, PushFails, PutLock, Signal
  <2>4. blk' \in [Putters -> Words] /\ pHead' \in [Putters -> Words]
    BY <1>1 DEF TypeOK, Words, Addrs, Put, PushFails, PutLock, Signal
  <2>5. \A g \in Getters : gpc'[g] = "reserve" => seen'[g] < MaxBlocks
    BY <1>1, <1>2, <1>3 DEF Typed, TypeOK
  <2> QED
    BY <1>1, <1>2, <2>1, <2>2, <2>3, <2>4, <2>5 DEF Typed, TypeOK
<1>7. PutsOwn'
  <2>1. CASE \E a \in Addrs : Put(p, a)
    <3>1. PICK a \in Addrs : Put(p, a)
      BY <2>1
    <3>2. a \in Leased /\ \A q \in Putters : Returning(q) => blk[q] # a
      BY <1>1, <3>1, UsableIsOwned DEF Put
    <3>3. /\ ppc' = [ppc EXCEPT ![p] = "link"] /\ blk' = [blk EXCEPT ![p] = a]
          /\ pHead' = [pHead EXCEPT ![p] = freeStack] /\ ppc[p] = "idle"
      BY <3>1 DEF Put
    <3> QED
      BY <1>1, <1>2, <3>2, <3>3 DEF PoolInv, PutsOwn, Returning, TypeOK
  <2>2. CASE PushFails(p)
    BY <1>1, <1>2, <2>2 DEF PoolInv, PutsOwn, Returning, TypeOK, PushFails
  <2>3. CASE PutLock(p) \/ Signal(p)
    BY <1>1, <1>2, <2>3 DEF PoolInv, PutsOwn, Returning, TypeOK, PutLock, Signal
  <2> QED
    BY <2>1, <2>2, <2>3
<1>8. StackIntact'
  BY <1>2 DEF PoolInv, StackIntact
<1>9. PopsFresh'
  BY <1>1, <1>2, <1>3 DEF PoolInv, PopsFresh, TypeOK
<1>10. Counted' /\ Bounded'
  BY <1>2, <1>4, <1>5 DEF PoolInv, Counted, Tokens, Bounded
<1> QED
  BY <1>6, <1>7, <1>8, <1>9, <1>10 DEF PoolInv

(* Writing into a leased block, the link or data, cannot reach the stack.  *)
LEMMA WriteSteps ==
  ASSUME PoolInv,
         (\E p \in Putters : Link(p)) \/ (\E b \in Blocks : Fill(b))
  PROVE  PoolInv'
<1> USE DEF stackVars, countVars, leaseVars, getVars, putVars
<1>1. Typed /\ TypeOK
  BY DEF PoolInv, Typed
<1>2. /\ UNCHANGED <<freeStack, inFlight, mutex, arena, leases, gpc, seen, head, nxt, calls, blk, pHead>>
      /\ Leased' = Leased /\ Pooled' = Pooled /\ Reserved' = Reserved /\ Allocating' = Allocating
  BY DEF Link, Fill, Leased, Pooled, Reserved, Allocating
<1>3. Releasing' = Releasing /\ ppc' \in [Putters -> PutLabels]
  BY <1>1 DEF TypeOK, Releasing, Link, Fill, PutLabels
<1>4. \E b \in Leased, w \in Words : next' = [next EXCEPT ![b] = w]
  <2>1. CASE \E p \in Putters : Link(p)
    BY <1>1, <2>1 DEF PoolInv, PutsOwn, Returning, Typed, TypeOK, Link
  <2>2. CASE \E b \in Blocks : Fill(b)
    BY <1>1, <2>2, UsableIsOwned DEF Fill, Addrs, Words
  <2> QED
    BY <2>1, <2>2
<1>5. \A b \in Pooled : next'[b] = next[b]
  BY <1>1, <1>4 DEF TypeOK, Pooled
<1>6. Typed'
  <2>1. next' \in [Blocks -> Words]
    BY <1>1, <1>4 DEF TypeOK
  <2> QED
    BY <1>1, <1>2, <1>3, <2>1 DEF Typed, TypeOK
<1>7. PutsOwn'
  <2>1. CASE \E p \in Putters : Link(p)
    <3>1. PICK p \in Putters : Link(p)
      BY <2>1
    <3>2. ppc[p] = "link" /\ ppc' = [ppc EXCEPT ![p] = "push"] /\ blk[p] \in Blocks
      BY <1>1, <3>1 DEF PoolInv, PutsOwn, Returning, Typed, TypeOK, Link
    <3>3. next' = [next EXCEPT ![blk[p]] = pHead[p]]
      BY <3>1, <3>2 DEF Link
    <3>4. \A q \in Putters : ppc[q] = "push" => blk[q] # blk[p]
      BY <3>2 DEF PoolInv, PutsOwn, Returning
    <3>5. \A q \in Putters : Returning(q)' => Returning(q)
      BY <1>1, <3>2 DEF Returning, TypeOK
    <3>6. \A q \in Putters : ppc'[q] = "push" => next'[blk[q]] = pHead[q]
      BY <1>1, <3>2, <3>3, <3>4 DEF PoolInv, PutsOwn, TypeOK
    <3> QED
      BY <1>2, <3>5, <3>6 DEF PoolInv, PutsOwn
  <2>2. CASE \E b \in Blocks : Fill(b)
    <3>1. PICK b \in Blocks : Fill(b)
      BY <2>2
    <3>2. \A q \in Putters : Returning(q) => blk[q] # b
      BY <1>1, <3>1, UsableIsOwned DEF Fill, Addrs
    <3>3. ppc' = ppc /\ next' = [next EXCEPT ![b] = Junk]
      BY <3>1 DEF Fill
    <3> QED
      BY <1>1, <1>2, <3>2, <3>3 DEF PoolInv, PutsOwn, Returning, TypeOK
  <2> QED
    BY <2>1, <2>2
<1>8. StackIntact'
  BY <1>2, <1>5, ChainFrame DEF PoolInv, StackIntact
<1>9. PopsFresh'
  BY <1>2, <1>5 DEF PoolInv, PopsFresh
<1>10. Counted' /\ Bounded'
  BY <1>2, <1>3 DEF PoolInv, Counted, Tokens, Bounded
<1> QED
  BY <1>6, <1>7, <1>8, <1>9, <1>10 DEF PoolInv

(* put's exchange: the lease ends, the block becomes the head, the token   *)
(* passes to the putter until it releases.                                 *)
LEMMA PushStep ==
  ASSUME PoolInv, NEW p \in Putters, Push(p)
  PROVE  PoolInv'
<1> USE DEF countVars, getVars
<1> DEFINE b == blk[p]
<1>0. /\ ppc[p] = "push" /\ freeStack = pHead[p] /\ freeStack' = b
      /\ leases' = [leases EXCEPT ![b] = @ - 1]
      /\ ppc' = [ppc EXCEPT ![p] = "lock"] /\ blk' = [blk EXCEPT ![p] = Null]
      /\ pHead' = [pHead EXCEPT ![p] = Null]
      /\ UNCHANGED <<next, inFlight, mutex, arena, gpc, seen, head, nxt, calls>>
  BY DEF Push
<1>1. Typed /\ TypeOK
  BY DEF PoolInv, Typed
<1>2. b \in Leased /\ b \in Blocks /\ b \in arena /\ leases[b] = 1 /\ next[b] = freeStack
  BY <1>0, <1>1 DEF PoolInv, PutsOwn, Returning, Typed, TypeOK, Leased
<1>3. leases' = [leases EXCEPT ![b] = 0]
  BY <1>0, <1>2
<1>4. /\ Leased' = Leased \ {b}
      /\ Pooled' = Pooled \cup {b} /\ b \notin Pooled
      /\ Reserved' = Reserved /\ Allocating' = Allocating
      /\ Releasing' = Releasing \cup {p} /\ p \notin Releasing
  BY <1>0, <1>1, <1>2, <1>3 DEF TypeOK, Leased, Pooled, Reserved, Allocating, Releasing
<1>5. Typed'
  <2>1. leases' \in [Addrs -> {0, 1}] /\ leases'[Junk] = 0
    BY <1>1, <1>2, <1>3, PoolAssumption DEF Typed, TypeOK, Addrs
  <2>2. leases' \in [Addrs -> 0 .. MaxBlocks]
    BY <2>1, PoolAssumption
  <2>3. ppc' \in [Putters -> PutLabels] /\ blk' \in [Putters -> Words] /\ pHead' \in [Putters -> Words]
    BY <1>0, <1>1 DEF TypeOK, PutLabels, Words
  <2>4. Leased' \subseteq arena' /\ freeStack' \in Words
    BY <1>0, <1>1, <1>2, <1>4 DEF Typed, Words
  <2> QED
    BY <1>0, <1>1, <2>1, <2>2, <2>3, <2>4 DEF Typed, TypeOK
<1>6. PutsOwn'
  <2>1. \A q \in Putters : Returning(q)' => q # p /\ Returning(q) /\ blk'[q] = blk[q]
    BY <1>0, <1>1 DEF Returning, TypeOK
  <2>2. \A q \in Putters : Returning(q)' => blk[q] # b
    BY <1>0, <2>1 DEF PoolInv, PutsOwn, Returning
  <2>3. \A q \in Putters : ppc'[q] = "push" => ppc[q] = "push" /\ pHead'[q] = pHead[q] /\ blk'[q] = blk[q]
    BY <1>0, <1>1 DEF TypeOK
  <2> QED
    BY <1>0, <1>4, <2>1, <2>2, <2>3 DEF PoolInv, PutsOwn
<1>7. StackIntact'
  <2>1. Null \notin Pooled /\ b # Null
    BY <1>1, <1>2, PoolAssumption DEF TypeOK, Pooled
  <2>2. Chained(b, next, Pooled \cup {b})
    BY <1>2, <1>4, <2>1, ChainPush DEF PoolInv, StackIntact
  <2> QED
    BY <1>0, <1>4, <2>2 DEF StackIntact
<1>8. PopsFresh'
  BY <1>0, <1>4 DEF PoolInv, PopsFresh
<1>9. Counted'
  <2>1. b \in Tokens /\ p \notin Tokens
    BY <1>1, <1>2, <1>4, PoolAssumption DEF Typed, TypeOK, Tokens, Reserved
  <2>2. Tokens' = (Tokens \ {b}) \cup {p}
    BY <1>1, <1>2, <1>4, PoolAssumption DEF Tokens, Reserved, Releasing
  <2>3. Cardinality(Tokens') = Cardinality(Tokens)
    BY <1>1, <2>1, <2>2, TokensFinite, SwapElement
  <2> QED
    BY <1>0, <2>3 DEF PoolInv, Counted
<1>10. Bounded'
  BY <1>0, <1>4 DEF PoolInv, Bounded
<1> QED
  BY <1>5, <1>6, <1>7, <1>8, <1>9, <1>10 DEF PoolInv

(* The release gives the putter's token back.                              *)
LEMMA ReleaseStep ==
  ASSUME PoolInv, NEW p \in Putters, Release(p)
  PROVE  PoolInv'
<1> USE DEF Release, stackVars, leaseVars, getVars
<1>1. Typed /\ TypeOK
  BY DEF PoolInv, Typed
<1>2. /\ Leased' = Leased /\ Pooled' = Pooled
      /\ Reserved' = Reserved /\ Allocating' = Allocating
      /\ Releasing' = Releasing \ {p} /\ p \in Releasing
  BY <1>1 DEF TypeOK, Leased, Pooled, Reserved, Allocating, Releasing
<1>3. p \in Tokens /\ Tokens' = Tokens \ {p}
  BY <1>1, <1>2, PoolAssumption DEF Typed, TypeOK, Tokens, Reserved
<1>4. /\ Cardinality(Tokens') = Cardinality(Tokens) - 1
      /\ Cardinality(Tokens') \in Nat /\ Cardinality(Tokens) \in Nat
  BY <1>1, <1>3, TokensFinite, FS_RemoveElement, FS_CardinalityType
<1>5. Counted'
  BY <1>4 DEF PoolInv, Counted
<1>6. Typed'
  <2>1. inFlight' \in 0 .. MaxBlocks
    BY <1>1, <1>4, <1>5, PoolAssumption DEF PoolInv, Counted, TypeOK
  <2>2. ppc' \in [Putters -> PutLabels]
    BY <1>1 DEF TypeOK, PutLabels
  <2> QED
    BY <1>1, <1>2, <2>1, <2>2 DEF Typed, TypeOK
<1>7. PutsOwn'
  BY <1>1, <1>2 DEF PoolInv, PutsOwn, Returning, TypeOK
<1>8. StackIntact'
  BY <1>2 DEF PoolInv, StackIntact
<1>9. PopsFresh'
  BY <1>2 DEF PoolInv, PopsFresh
<1>10. Bounded'
  BY <1>2 DEF PoolInv, Bounded
<1> QED
  BY <1>5, <1>6, <1>7, <1>8, <1>9, <1>10 DEF PoolInv

(* Every step keeps the invariant while one getter at a time is in pop.    *)
LEMMA InvStep ==
  ASSUME PoolInv, SinglePopper, [Next]_vars
  PROVE  PoolInv'
<1>1. ASSUME NEW g \in Getters, Get(g) \/ GetStep(g) \/ Cancel(g)
      PROVE  PoolInv'
  <2>1. CASE \/ Get(g) \/ LoadInFlight(g) \/ ReserveFails(g) \/ AllocLock(g)
             \/ WaitLock(g) \/ WaitCheck(g) \/ Cancel(g)
    BY <2>1, QuietGetSteps
  <2>2. CASE Reserve(g)
    BY <2>2, ReserveStep
  <2>3. CASE PopHead(g) \/ PopFails(g) \/ PopNext(g)
    BY <2>3, PopLoads
  <2>4. CASE PopReturns(g)
    BY <2>4, PopReturnsStep
  <2>5. CASE PopEmpty(g)
    BY <2>5, PopEmptyStep
  <2>6. CASE Alloc(g)
    BY <2>6, AllocStep
  <2>7. CASE AllocFails(g)
    BY <2>7, AllocFailsStep
  <2> QED
    BY <1>1, <2>1, <2>2, <2>3, <2>4, <2>5, <2>6, <2>7 DEF GetStep
<1>2. ASSUME NEW p \in Putters, PutStep(p) \/ \E a \in Addrs : Put(p, a)
      PROVE  PoolInv'
  <2>1. CASE \/ \E a \in Addrs : Put(p, a)
             \/ PushFails(p) \/ PutLock(p) \/ Signal(p)
    BY <2>1, QuietPutSteps
  <2>2. CASE Link(p)
    BY <2>2, WriteSteps
  <2>3. CASE Push(p)
    BY <2>3, PushStep
  <2>4. CASE Release(p)
    BY <2>4, ReleaseStep
  <2> QED
    BY <1>2, <2>1, <2>2, <2>3, <2>4 DEF PutStep
<1>3. ASSUME NEW b \in Blocks, Fill(b)
      PROVE  PoolInv'
  BY <1>3, WriteSteps
<1>4. ASSUME UNCHANGED vars
      PROVE  PoolInv'
  BY <1>4 DEF vars, PoolInv, Typed, TypeOK, PutsOwn, Returning, StackIntact, PopsFresh,
     Counted, Bounded, Tokens, Reserved, Releasing, Allocating, Leased, Pooled
<1> QED
  BY <1>1, <1>2, <1>3, <1>4 DEF Next

-----------------------------------------------------------------------------
(* The theorems                                                            *)

(* While one task at a time is inside pop, the pool keeps its invariant:   *)
(* the stack of DynamicBufferPool links exactly the blocks that came back, *)
(* and in_flight counts exactly what is out.                               *)
THEOREM PoolInvariant == Spec /\ []SinglePopper => []PoolInv
<1>1. Init => PoolInv
  BY InvInit
<1>2. PoolInv /\ SinglePopper /\ [Next]_vars => PoolInv'
  BY InvStep
<1> QED
  BY <1>1, <1>2, PTL DEF Spec

(* With one getter, or one block, pop is never entered twice at once: a    *)
(* getter inside pop holds a unit of in_flight, and there is only one.     *)
LEMMA SizedSafely ==
  ASSUME SafeSizing, PoolInv
  PROVE  SinglePopper
<1>1. SUFFICES ASSUME NEW g \in Popping, NEW h \in Popping, g # h
               PROVE  FALSE
  BY DEF SinglePopper
<1>2. g \in Getters /\ h \in Getters
  BY DEF Popping
<1>3. MaxBlocks = 1
  BY <1>1, <1>2 DEF SafeSizing
<1>4. Typed /\ inFlight <= 1
  BY <1>3 DEF PoolInv, Typed, TypeOK
<1>5. IsFiniteSet(Tokens) /\ {g} \cup {h} \subseteq Tokens
  BY <1>4, TokensFinite DEF Tokens, Reserved, Popping
<1>6. IsFiniteSet({g}) /\ Cardinality({g}) = 1
  BY FS_Singleton
<1>7. Cardinality({g} \cup {h}) = 2
  BY <1>1, <1>6, FS_AddElement
<1>8. Cardinality({g} \cup {h}) <= Cardinality(Tokens) /\ Cardinality(Tokens) \in Nat
  BY <1>5, SubsetSize
<1> QED
  BY <1>4, <1>7, <1>8 DEF PoolInv, Counted

(* A pool with one getter (Loader.Opts.default, the README's loader) or    *)
(* with one block keeps the invariant with no further hypothesis.          *)
THEOREM SafePool == ASSUME SafeSizing PROVE Spec => []PoolInv
<1>1. Init => PoolInv
  BY InvInit
<1>2. PoolInv /\ [Next]_vars => PoolInv'
  BY InvStep, SizedSafely
<1> QED
  BY <1>1, <1>2, PTL DEF Spec

(* No block is ever leased twice, and get never follows user data.         *)
THEOREM LeasesAreExclusive == Spec /\ []SinglePopper => []LeaseExclusive
<1>1. PoolInv => LeaseExclusive
  <2> SUFFICES ASSUME PoolInv PROVE LeaseExclusive
    OBVIOUS
  <2>1. freeStack \in Pooled \cup {Null}
    BY DEF PoolInv, StackIntact, Chained
  <2>2. \A b \in Blocks : leases[b] <= 1
    BY DEF PoolInv, Typed, Addrs
  <2> QED
    BY <2>1, <2>2 DEF PoolInv, Typed, LeaseExclusive
<1> QED
  BY <1>1, PoolInvariant, PTL

(* The arena never makes a block more than max_blocks.                     *)
THEOREM ArenaIsBounded == Spec /\ []SinglePopper => []ArenaBounded
<1>1. PoolInv => ArenaBounded
  <2> SUFFICES ASSUME PoolInv PROVE ArenaBounded
    OBVIOUS
  <2>1. IsFiniteSet(arena \cup Allocating)
    BY TokensFinite DEF PoolInv
  <2>2. /\ Cardinality(arena) <= Cardinality(arena \cup Allocating)
        /\ Cardinality(arena) \in Nat /\ Cardinality(arena \cup Allocating) \in Nat
    BY <2>1, SubsetSize
  <2> QED
    BY <2>2, PoolAssumption DEF PoolInv, Bounded, ArenaBounded
<1> QED
  BY <1>1, PoolInvariant, PTL

(* The pool implements BlockLease: each step of the code is a Make, a      *)
(* Reuse, a Return or invisible.                                           *)
THEOREM PoolImplementsLease == Spec /\ []SinglePopper => ImplementsLease
<1> USE DEF AbstractPool!Make, AbstractPool!Reuse, AbstractPool!Return
<1>1. Init => AbstractPool!LeaseInit
  BY DEF Init, AbstractPool!LeaseInit, Leased
<1>2. ASSUME PoolInv, SinglePopper, [Next]_vars
      PROVE  [AbstractPool!LeaseNext]_AbstractPool!leaseVars
  <2> USE DEF AbstractPool!LeaseNext, AbstractPool!leaseVars
  <2>1. Typed /\ TypeOK
    BY <1>2 DEF PoolInv, Typed
  <2>2. ASSUME NEW g \in Getters, PopReturns(g)
        PROVE  \E b \in Blocks : AbstractPool!Reuse(b)
    <3>1. head[g] \in Pooled /\ head[g] \in Blocks /\ head[g] \in Addrs
      BY <1>2, <2>1, <2>2 DEF PoolInv, PopsFresh, PopReturns, TypeOK, Pooled, Addrs
    <3>2. leases[head[g]] = 0
      BY <2>1, <3>1 DEF Typed, Pooled, Leased
    <3>3. arena' = arena /\ leases' = [leases EXCEPT ![head[g]] = 1]
      BY <2>1, <2>2, <3>2 DEF PopReturns, Lease, TypeOK
    <3>4. Leased' = Leased \cup {head[g]}
      BY <2>1, <3>1, <3>3 DEF TypeOK, Leased
    <3> QED
      BY <3>1, <3>3, <3>4 DEF Pooled
  <2>3. ASSUME NEW g \in Getters, Alloc(g)
        PROVE  \E b \in Blocks : AbstractPool!Make(b)
    <3>1. PICK b \in Blocks \ arena : arena' = arena \cup {b} /\ Lease(b)
      BY <2>3 DEF Alloc
    <3>2. leases[b] = 0 /\ b \in Addrs
      BY <2>1, <3>1, PoolAssumption DEF Typed, TypeOK, Leased, Addrs
    <3>3. leases' = [leases EXCEPT ![b] = 1]
      BY <3>1, <3>2 DEF Lease
    <3>4. Leased' = Leased \cup {b}
      BY <2>1, <3>2, <3>3 DEF TypeOK, Leased
    <3>5. Cardinality(arena) < MaxBlocks
      <4>1. g \in Allocating /\ g \notin arena
        BY <2>1, <2>3, PoolAssumption DEF Alloc, Allocating, TypeOK
      <4>2. IsFiniteSet(arena \cup Allocating) /\ IsFiniteSet(arena)
        BY <2>1, TokensFinite, SubsetSize
      <4>3. Cardinality(arena \cup {g}) = Cardinality(arena) + 1
        BY <4>1, <4>2, FS_AddElement
      <4>4. arena \cup {g} \subseteq arena \cup Allocating
        BY <4>1
      <4>5. /\ Cardinality(arena \cup {g}) <= Cardinality(arena \cup Allocating)
            /\ Cardinality(arena) \in Nat /\ Cardinality(arena \cup Allocating) \in Nat
        BY <4>2, <4>4, SubsetSize, FS_CardinalityType
      <4> QED
        BY <1>2, <4>3, <4>5, PoolAssumption DEF PoolInv, Bounded
    <3>6. b \in Blocks /\ b \notin arena /\ arena' = arena \cup {b}
      BY <3>1
    <3>7. AbstractPool!Make(b)
      <4>1. AbstractPool!Cardinality(arena) = Cardinality(arena)
        BY Zenon DEF AbstractPool!Cardinality, Cardinality
      <4> QED
        BY <3>4, <3>5, <3>6, <4>1
    <3> QED
      BY <3>6, <3>7
  <2>4. ASSUME NEW p \in Putters, Push(p)
        PROVE  \E b \in Blocks : AbstractPool!Return(b)
    <3>1. blk[p] \in Leased /\ blk[p] \in Blocks /\ leases[blk[p]] = 1
      BY <1>2, <2>1, <2>4 DEF PoolInv, PutsOwn, Returning, Push, Typed, TypeOK, Leased
    <3>2. arena' = arena /\ leases' = [leases EXCEPT ![blk[p]] = 0]
      BY <3>1, <2>4 DEF Push
    <3>3. Leased' = Leased \ {blk[p]}
      BY <2>1, <3>1, <3>2 DEF TypeOK, Leased
    <3> QED
      BY <3>1, <3>2, <3>3
  <2>5. ASSUME NEW g \in Getters,
               \/ Get(g) \/ LoadInFlight(g) \/ Reserve(g) \/ ReserveFails(g)
               \/ PopHead(g) \/ PopNext(g) \/ PopEmpty(g) \/ PopFails(g)
               \/ AllocLock(g) \/ AllocFails(g) \/ WaitLock(g) \/ WaitCheck(g) \/ Cancel(g)
        PROVE  UNCHANGED <<arena, leases>>
    BY <2>5 DEF Get, LoadInFlight, Reserve, ReserveFails, Look, PopHead, PopNext, PopEmpty,
       PopFails, LoadHead, AllocLock, AllocFails, WaitLock, WaitCheck, Cancel, leaseVars
  <2>6. ASSUME NEW p \in Putters,
               \/ \E a \in Addrs : Put(p, a)
               \/ Link(p) \/ PushFails(p) \/ PutLock(p) \/ Release(p) \/ Signal(p)
        PROVE  UNCHANGED <<arena, leases>>
    BY <2>6 DEF Put, Link, PushFails, PutLock, Release, Signal, leaseVars
  <2>7. ASSUME NEW b \in Blocks, Fill(b)
        PROVE  UNCHANGED <<arena, leases>>
    BY <2>7 DEF Fill, leaseVars
  <2>8. UNCHANGED <<arena, leases>> => UNCHANGED <<arena, Leased>>
    BY DEF Leased
  <2> QED
    BY <1>2, <2>2, <2>3, <2>4, <2>5, <2>6, <2>7, <2>8
       DEF Next, GetStep, PutStep, vars
<1> QED
  BY <1>1, <1>2, PoolInvariant, PTL
     DEF Spec, ImplementsLease, AbstractPool!LeaseSpec

-----------------------------------------------------------------------------
(* Counting without any hypothesis on who is inside pop                    *)

(* The leases out, as pairs of an address and one of its leases.           *)
Slices(f) == {l \in Addrs \X (1 .. MaxBlocks) : l[2] <= f[l[1]]}

LEMMA SlicesFinite == ASSUME NEW f PROVE IsFiniteSet(Slices(f))
<1>1. IsFiniteSet(Blocks \cup {Junk})
  BY FS_AddElement, PoolAssumption
<1>2. IsFiniteSet(1 .. MaxBlocks)
  BY FS_Interval, PoolAssumption
<1>3. IsFiniteSet(Addrs \X (1 .. MaxBlocks))
  BY <1>1, <1>2, FS_Product DEF Addrs
<1> QED
  BY <1>3, FS_Subset DEF Slices

(* One more lease of an address is one more pair, one fewer is one less.   *)
LEMMA OneMoreSlice ==
  ASSUME NEW f \in [Addrs -> 0 .. MaxBlocks], NEW a \in Addrs, f[a] < MaxBlocks,
         NEW e, e = [f EXCEPT ![a] = @ + 1]
  PROVE  Cardinality(Slices(e)) = Cardinality(Slices(f)) + 1
<1>1. f[a] \in Nat /\ f[a] + 1 \in 1 .. MaxBlocks /\ MaxBlocks \in Nat
  BY PoolAssumption
<1>2. <<a, f[a] + 1>> \notin Slices(f)
  BY <1>1 DEF Slices
<1>3. Slices(e) = Slices(f) \cup {<<a, f[a] + 1>>}
  <2>1. ASSUME NEW x \in Addrs, NEW k \in 1 .. MaxBlocks
        PROVE  k <= e[x] <=> k <= f[x] \/ (x = a /\ k = f[a] + 1)
    BY <1>1
  <2> QED
    BY <1>1, <2>1 DEF Slices
<1> QED
  BY <1>2, <1>3, SlicesFinite, FS_AddElement

LEMMA OneLessSlice ==
  ASSUME NEW f \in [Addrs -> 0 .. MaxBlocks], NEW a \in Addrs, f[a] > 0,
         NEW e, e = [f EXCEPT ![a] = @ - 1]
  PROVE  Cardinality(Slices(e)) = Cardinality(Slices(f)) - 1
<1>1. f[a] \in 1 .. MaxBlocks /\ MaxBlocks \in Nat
  BY PoolAssumption
<1>2. e \in [Addrs -> 0 .. MaxBlocks] /\ e[a] < MaxBlocks /\ e[a] + 1 = f[a]
  BY <1>1
<1> DEFINE d == [e EXCEPT ![a] = @ + 1]
<1>3. d \in [Addrs -> 0 .. MaxBlocks] /\ \A x \in Addrs : d[x] = f[x]
  BY <1>1, <1>2
<1>4. f = [e EXCEPT ![a] = @ + 1]
  BY <1>3
<1>5. Cardinality(Slices(f)) = Cardinality(Slices(e)) + 1
  BY <1>2, <1>4, OneMoreSlice
<1>6. Cardinality(Slices(e)) \in Nat /\ Cardinality(Slices(f)) \in Nat
  BY SlicesFinite, FS_CardinalityType
<1> QED
  BY <1>5, <1>6

(* The leases of one address are among those out.                          *)
LEMMA SlicesOfOne ==
  ASSUME NEW f \in [Addrs -> 0 .. MaxBlocks], NEW a \in Addrs
  PROVE  f[a] <= Cardinality(Slices(f))
<1> DEFINE g == [k \in 1 .. f[a] |-> <<a, k>>]
<1>1. f[a] \in Nat /\ f[a] <= MaxBlocks /\ MaxBlocks \in Nat
  BY PoolAssumption
<1>2. IsFiniteSet(1 .. f[a]) /\ Cardinality(1 .. f[a]) = f[a]
  BY <1>1, FS_Interval
<1>3. \A k \in 1 .. f[a] : g[k] \in Slices(f)
  BY <1>1 DEF Slices
<1>4. \A j, k \in 1 .. f[a] : g[j] = g[k] => j = k
  OBVIOUS
<1>5. g \in Injection(1 .. f[a], Slices(f))
  BY <1>3, <1>4 DEF Injection, IsInjective
<1> QED
  BY <1>2, <1>5, SlicesFinite, FS_Injection

(* The three parts in_flight is made of are finite.                        *)
LEMMA PartsFinite ==
  /\ IsFiniteSet(Reserved) /\ Cardinality(Reserved) \in Nat
  /\ IsFiniteSet(Releasing) /\ Cardinality(Releasing) \in Nat
  /\ Cardinality(Slices(leases)) \in Nat
<1>1. Reserved \subseteq Getters /\ Releasing \subseteq Putters
  BY DEF Reserved, Releasing
<1> QED
  BY <1>1, SubsetSize, PoolAssumption, SlicesFinite, FS_CardinalityType

LEMMA BeingPutFinite ==
  ASSUME NEW a
  PROVE  IsFiniteSet(BeingPut(a)) /\ Cardinality(BeingPut(a)) \in Nat
BY SubsetSize, PoolAssumption DEF BeingPut

LEMMA CountInit == Init => CountInv
<1> SUFFICES ASSUME Init PROVE CountInv
  OBVIOUS
<1>1. TypeOK
  BY PoolAssumption DEF Init, TypeOK, Words, Addrs, GetLabels, PutLabels
<1>2. Reserved = {} /\ Releasing = {} /\ \A a \in Addrs : BeingPut(a) = {}
  BY DEF Init, Reserved, Releasing, BeingPut
<1>3. Slices(leases) = {}
  BY DEF Init, Slices
<1>4. Cardinality({}) = 0
  BY FS_EmptySet
<1>5. InFlightExact
  <2>1. InFlightExact <=>
          inFlight = Cardinality(Reserved) + Cardinality(Releasing) + Cardinality(Slices(leases))
    BY DEF InFlightExact, Slices
  <2> QED
    BY <1>2, <1>3, <1>4, <2>1 DEF Init
<1>6. \A a \in Addrs : Cardinality(BeingPut(a)) <= leases[a]
  BY <1>2, <1>4 DEF Init
<1>7. \A g \in Getters : gpc[g] # "reserve"
  BY DEF Init
<1>8. \A p \in Putters : ~Returning(p)
  BY DEF Init, Returning
<1> QED
  BY <1>1, <1>5, <1>6, <1>7, <1>8 DEF CountInv

(* A getter's step that changes neither the count nor a lease.             *)
LEMMA CountQuietGet ==
  ASSUME CountInv, NEW g \in Getters,
         \/ Get(g) \/ LoadInFlight(g) \/ ReserveFails(g)
         \/ PopHead(g) \/ PopFails(g) \/ PopNext(g) \/ PopEmpty(g)
         \/ AllocLock(g) \/ WaitLock(g) \/ WaitCheck(g) \/ Cancel(g)
  PROVE  CountInv'
<1> USE DEF Goto, GetReturns, Look, LoadHead, Acquire, Unlock,
            stackVars, countVars, leaseVars, putVars,
            Get, LoadInFlight, ReserveFails, PopHead, PopFails, PopNext, PopEmpty,
            AllocLock, WaitLock, WaitCheck, Cancel
<1>1. TypeOK
  BY DEF CountInv
<1>2. UNCHANGED <<freeStack, next, inFlight, arena, leases, ppc, blk, pHead>>
  OBVIOUS
<1>3. mutex' \in Getters \cup Putters \cup {Null}
  BY <1>1 DEF TypeOK
<1>4. gpc' \in [Getters -> GetLabels]
  BY <1>1 DEF TypeOK, GetLabels
<1>5. seen' \in [Getters -> 0 .. MaxBlocks]
  BY <1>1, PoolAssumption DEF TypeOK
<1>6. head' \in [Getters -> Words]
  BY <1>1 DEF TypeOK, Words
<1>7. nxt' \in [Getters -> Words]
  BY <1>1 DEF TypeOK, Words
<1>8. calls' \in [Getters -> 0 .. Gets]
  BY <1>1, PoolAssumption DEF TypeOK
<1>9. TypeOK'
  BY <1>1, <1>2, <1>3, <1>4, <1>5, <1>6, <1>7, <1>8 DEF TypeOK
<1>10. ASSUME NEW k \in Getters, gpc'[k] = "reserve" PROVE seen'[k] < MaxBlocks
  BY <1>1, <1>10, PoolAssumption DEF CountInv, TypeOK
<1>11. Reserved' = Reserved /\ Releasing' = Releasing
  BY <1>1, <1>2 DEF TypeOK, Reserved, Releasing
<1>12. InFlightExact'
  BY <1>2, <1>11 DEF CountInv, InFlightExact
<1>13. \A a \in Addrs : BeingPut(a)' = BeingPut(a)
  BY <1>2 DEF BeingPut
<1>14. \A p \in Putters : Returning(p)' => blk'[p] \in Addrs
  BY <1>2 DEF CountInv, Returning
<1> QED
  BY <1>2, <1>9, <1>10, <1>12, <1>13, <1>14 DEF CountInv

(* The reservation: one more unit of in_flight, one more reservation.      *)
LEMMA CountReserve ==
  ASSUME CountInv, NEW g \in Getters, Reserve(g)
  PROVE  CountInv'
<1> USE DEF Reserve, Goto, stackVars, leaseVars, putVars
<1>1. TypeOK /\ inFlight < MaxBlocks
  BY DEF CountInv
<1>2. UNCHANGED <<freeStack, next, mutex, arena, leases, seen, head, nxt, calls, ppc, blk, pHead>>
  OBVIOUS
<1>3. inFlight' \in 0 .. MaxBlocks /\ inFlight' = inFlight + 1 /\ inFlight \in Nat
  BY <1>1, PoolAssumption DEF TypeOK
<1>4. gpc' \in [Getters -> GetLabels]
  BY <1>1 DEF TypeOK, GetLabels
<1>5. TypeOK'
  BY <1>1, <1>2, <1>3, <1>4 DEF TypeOK
<1>6. Reserved' = Reserved \cup {g} /\ g \notin Reserved /\ Releasing' = Releasing
  BY <1>1 DEF TypeOK, Reserved, Releasing
<1>7. Cardinality(Reserved') = Cardinality(Reserved) + 1
  BY <1>6, PartsFinite, FS_AddElement
<1>8. InFlightExact'
  BY <1>2, <1>3, <1>6, <1>7, PartsFinite DEF CountInv, InFlightExact, Slices
<1>9. \A a \in Addrs : BeingPut(a)' = BeingPut(a)
  BY <1>2 DEF BeingPut
<1>10. \A k \in Getters : gpc'[k] = "reserve" => gpc[k] = "reserve"
  BY <1>1 DEF TypeOK
<1> QED
  BY <1>2, <1>5, <1>8, <1>9, <1>10 DEF CountInv, Returning

(* A block goes out, from the stack or from the arena: the reservation     *)
(* becomes a lease, of whatever address it is.                             *)
LEMMA CountLease ==
  ASSUME CountInv, NEW g \in Getters, PopReturns(g) \/ Alloc(g)
  PROVE  CountInv'
<1> USE DEF PopReturns, Alloc, GetReturns, Goto, Lease, Unlock, stackVars, countVars, putVars
<1>1. TypeOK
  BY DEF CountInv
<1>2. PICK a \in Addrs : leases' = [leases EXCEPT ![a] = @ + 1]
  <2>1. CASE PopReturns(g)
    BY <1>1, <2>1 DEF TypeOK, Words, Addrs
  <2>2. CASE Alloc(g)
    BY <2>2 DEF Addrs
  <2> QED
    BY <2>1, <2>2
<1>3. UNCHANGED <<next, inFlight, calls, ppc, blk, pHead>>
  OBVIOUS
<1>4. Reserved' = Reserved \ {g} /\ g \in Reserved /\ Releasing' = Releasing
  BY <1>1, <1>3 DEF TypeOK, Reserved, Releasing
<1>5. Cardinality(Reserved') = Cardinality(Reserved) - 1 /\ Cardinality(Reserved') \in Nat
  BY <1>4, PartsFinite, FS_RemoveElement, FS_CardinalityType
<1>6. leases \in [Addrs -> 0 .. MaxBlocks] /\ inFlight \in 0 .. MaxBlocks /\ MaxBlocks \in Nat
  BY <1>1, PoolAssumption DEF TypeOK
<1>7. inFlight = Cardinality(Reserved) + Cardinality(Releasing) + Cardinality(Slices(leases))
  BY DEF CountInv, InFlightExact, Slices
<1>8. leases[a] < MaxBlocks
  <2>1. leases[a] <= Cardinality(Slices(leases)) /\ leases[a] \in Nat
    BY <1>6, SlicesOfOne
  <2> QED
    BY <1>5, <1>6, <1>7, <2>1, PartsFinite
<1>9. Cardinality(Slices(leases')) = Cardinality(Slices(leases)) + 1
  BY <1>2, <1>6, <1>8, OneMoreSlice
<1>10. InFlightExact'
  BY <1>3, <1>4, <1>5, <1>6, <1>7, <1>9, PartsFinite DEF InFlightExact, Slices
<1>11. leases' \in [Addrs -> 0 .. MaxBlocks] /\ \A x \in Addrs : leases[x] <= leases'[x]
  BY <1>2, <1>6, <1>8
<1>12. freeStack' \in Words /\ mutex' \in Getters \cup Putters \cup {Null} /\ arena' \subseteq Blocks
  BY <1>1 DEF TypeOK
<1>13. gpc' \in [Getters -> GetLabels] /\ head' \in [Getters -> Words] /\ nxt' \in [Getters -> Words]
  BY <1>1 DEF TypeOK, GetLabels, Words
<1>14. seen' \in [Getters -> 0 .. MaxBlocks]
  BY <1>1, PoolAssumption DEF TypeOK
<1>15. TypeOK'
  BY <1>1, <1>3, <1>11, <1>12, <1>13, <1>14 DEF TypeOK
<1>16. \A x \in Addrs : BeingPut(x)' = BeingPut(x)
  BY <1>3 DEF BeingPut
<1>17. \A x \in Addrs : Cardinality(BeingPut(x)) <= leases'[x]
  <2> TAKE x \in Addrs
  <2>1. Cardinality(BeingPut(x)) <= leases[x] /\ leases[x] <= leases'[x]
    BY <1>11 DEF CountInv
  <2>2. Cardinality(BeingPut(x)) \in Nat /\ leases[x] \in Nat /\ leases'[x] \in Nat
    BY <1>6, <1>11, BeingPutFinite
  <2> QED
    BY <2>1, <2>2
<1>18. \A k \in Getters : gpc'[k] = "reserve" => gpc[k] = "reserve" /\ seen'[k] = seen[k]
  BY <1>1 DEF TypeOK
<1>19. \A p \in Putters : Returning(p)' => blk'[p] \in Addrs
  BY <1>3 DEF CountInv, Returning
<1>20. \A x \in Addrs : Cardinality(BeingPut(x)') <= leases'[x]
  BY <1>16, <1>17
<1> QED
  BY <1>10, <1>15, <1>18, <1>19, <1>20 DEF CountInv

(* A failed allocation gives its reservation back.                         *)
LEMMA CountAllocFails ==
  ASSUME CountInv, NEW g \in Getters, AllocFails(g)
  PROVE  CountInv'
<1> USE DEF AllocFails, GetReturns, Goto, Unlock, stackVars, leaseVars, putVars
<1>1. TypeOK
  BY DEF CountInv
<1>2. UNCHANGED <<freeStack, next, arena, leases, calls, ppc, blk, pHead>>
  OBVIOUS
<1>3. Reserved' = Reserved \ {g} /\ g \in Reserved /\ Releasing' = Releasing
  BY <1>1, <1>2 DEF TypeOK, Reserved, Releasing
<1>4. Cardinality(Reserved') = Cardinality(Reserved) - 1 /\ Cardinality(Reserved') \in Nat
  BY <1>3, PartsFinite, FS_RemoveElement, FS_CardinalityType
<1>5. inFlight = Cardinality(Reserved) + Cardinality(Releasing) + Cardinality(Slices(leases))
  BY DEF CountInv, InFlightExact, Slices
<1>6. inFlight' = inFlight - 1 /\ inFlight' \in 0 .. MaxBlocks
  BY <1>1, <1>4, <1>5, PartsFinite, PoolAssumption DEF TypeOK
<1>7. InFlightExact'
  BY <1>2, <1>3, <1>4, <1>5, <1>6, PartsFinite DEF InFlightExact, Slices
<1>8. gpc' \in [Getters -> GetLabels] /\ head' \in [Getters -> Words] /\ nxt' \in [Getters -> Words]
  BY <1>1 DEF TypeOK, GetLabels, Words
<1>9. seen' \in [Getters -> 0 .. MaxBlocks]
  BY <1>1, PoolAssumption DEF TypeOK
<1>10. TypeOK'
  BY <1>1, <1>2, <1>6, <1>8, <1>9 DEF TypeOK
<1>11. \A x \in Addrs : BeingPut(x)' = BeingPut(x)
  BY <1>2 DEF BeingPut
<1>12. \A k \in Getters : gpc'[k] = "reserve" => gpc[k] = "reserve" /\ seen'[k] = seen[k]
  BY <1>1 DEF TypeOK
<1> QED
  BY <1>2, <1>7, <1>10, <1>11, <1>12 DEF CountInv, Returning

(* put begins with a slice that no other put has begun to take back.       *)
LEMMA CountPut ==
  ASSUME CountInv, NEW p \in Putters, NEW a \in Addrs, Put(p, a)
  PROVE  CountInv'
<1> USE DEF Put, stackVars, countVars, leaseVars, getVars
<1>1. TypeOK
  BY DEF CountInv
<1>2. UNCHANGED <<freeStack, next, inFlight, mutex, arena, leases, gpc, seen, head, nxt, calls>>
  OBVIOUS
<1>3. /\ ppc' \in [Putters -> PutLabels] /\ blk' \in [Putters -> Words]
      /\ pHead' \in [Putters -> Words]
  BY <1>1 DEF TypeOK, PutLabels, Words, Addrs
<1>4. TypeOK'
  BY <1>1, <1>2, <1>3 DEF TypeOK
<1>5. Reserved' = Reserved /\ Releasing' = Releasing
  BY <1>1, <1>2 DEF TypeOK, Reserved, Releasing
<1>6. InFlightExact'
  BY <1>2, <1>5 DEF CountInv, InFlightExact
<1>7. \A q \in Putters : Returning(q)' => blk'[q] \in Addrs
  BY <1>1 DEF CountInv, Returning, TypeOK
<1>8. ASSUME NEW x \in Addrs PROVE Cardinality(BeingPut(x)') <= leases[x]
  <2>1. leases[x] \in Nat
    BY <1>1 DEF TypeOK
  <2>2. CASE x = a
    <3>1. BeingPut(x)' = BeingPut(x) \cup {p} /\ p \notin BeingPut(x)
      BY <1>1, <2>2 DEF TypeOK, BeingPut
    <3>2. Cardinality(BeingPut(x)') = Cardinality(BeingPut(x)) + 1
      BY <3>1, BeingPutFinite, FS_AddElement
    <3> QED
      BY <2>1, <2>2, <3>2, BeingPutFinite DEF Usable
  <2>3. CASE x # a
    <3>1. BeingPut(x)' = BeingPut(x)
      BY <1>1, <2>3 DEF TypeOK, BeingPut
    <3> QED
      BY <3>1 DEF CountInv
  <2> QED
    BY <2>2, <2>3
<1> QED
  BY <1>2, <1>4, <1>6, <1>7, <1>8 DEF CountInv

(* put's exchange: its lease ends and becomes a release to come.           *)
LEMMA CountPush ==
  ASSUME CountInv, NEW p \in Putters, Push(p)
  PROVE  CountInv'
<1> USE DEF countVars, getVars
<1>1. TypeOK
  BY DEF CountInv
<1>2. PICK b \in Addrs : b = blk[p]
  BY DEF CountInv, Returning, Push
<1>3. /\ ppc[p] = "push" /\ freeStack' = b
      /\ leases' = [leases EXCEPT ![b] = @ - 1]
      /\ ppc' = [ppc EXCEPT ![p] = "lock"] /\ blk' = [blk EXCEPT ![p] = Null]
      /\ pHead' = [pHead EXCEPT ![p] = Null]
      /\ UNCHANGED <<next, inFlight, mutex, arena, gpc, seen, head, nxt, calls>>
  BY <1>2 DEF Push
<1>4. leases \in [Addrs -> 0 .. MaxBlocks] /\ inFlight \in 0 .. MaxBlocks /\ MaxBlocks \in Nat
  BY <1>1, PoolAssumption DEF TypeOK
<1>5. BeingPut(b)' = BeingPut(b) \ {p} /\ p \in BeingPut(b)
  BY <1>1, <1>2, <1>3 DEF TypeOK, BeingPut
<1>6. /\ Cardinality(BeingPut(b)') = Cardinality(BeingPut(b)) - 1
      /\ Cardinality(BeingPut(b)') \in Nat
  BY <1>5, BeingPutFinite, FS_RemoveElement, FS_CardinalityType
<1>7. leases[b] > 0 /\ leases[b] \in Nat /\ Cardinality(BeingPut(b)) <= leases[b]
  BY <1>4, <1>6, BeingPutFinite DEF CountInv
<1>8. Cardinality(Slices(leases')) = Cardinality(Slices(leases)) - 1
  BY <1>3, <1>4, <1>7, OneLessSlice
<1>9. Reserved' = Reserved /\ Releasing' = Releasing \cup {p} /\ p \notin Releasing
  BY <1>1, <1>3 DEF TypeOK, Reserved, Releasing
<1>10. Cardinality(Releasing') = Cardinality(Releasing) + 1
  BY <1>9, PartsFinite, FS_AddElement
<1>11. InFlightExact'
  BY <1>3, <1>8, <1>9, <1>10, PartsFinite DEF CountInv, InFlightExact, Slices
<1>12. leases' \in [Addrs -> 0 .. MaxBlocks] /\ freeStack' \in Words
  BY <1>3, <1>4, <1>7 DEF Words, Addrs
<1>13. ppc' \in [Putters -> PutLabels] /\ blk' \in [Putters -> Words] /\ pHead' \in [Putters -> Words]
  BY <1>1, <1>3 DEF TypeOK, PutLabels, Words
<1>14. TypeOK'
  BY <1>1, <1>3, <1>12, <1>13 DEF TypeOK
<1>15. \A q \in Putters : Returning(q)' => blk'[q] \in Addrs
  BY <1>1, <1>3 DEF CountInv, Returning, TypeOK
<1>16. ASSUME NEW x \in Addrs PROVE Cardinality(BeingPut(x)') <= leases'[x]
  <2>1. CASE x = b
    BY <1>3, <1>4, <1>6, <1>7, <2>1, BeingPutFinite
  <2>2. CASE x # b
    <3>1. BeingPut(x)' = BeingPut(x)
      BY <1>1, <1>2, <1>3, <2>2 DEF TypeOK, BeingPut
    <3> QED
      BY <1>3, <1>4, <2>2, <3>1 DEF CountInv
  <2> QED
    BY <2>1, <2>2
<1> QED
  BY <1>3, <1>11, <1>14, <1>15, <1>16 DEF CountInv

(* The release gives back the unit of a put whose block is on the stack.   *)
LEMMA CountRelease ==
  ASSUME CountInv, NEW p \in Putters, Release(p)
  PROVE  CountInv'
<1> USE DEF Release, stackVars, leaseVars, getVars
<1>1. TypeOK
  BY DEF CountInv
<1>2. UNCHANGED <<freeStack, next, mutex, arena, leases, gpc, seen, head, nxt, calls, blk, pHead>>
  OBVIOUS
<1>3. Reserved' = Reserved /\ Releasing' = Releasing \ {p} /\ p \in Releasing
  BY <1>1, <1>2 DEF TypeOK, Reserved, Releasing
<1>4. Cardinality(Releasing') = Cardinality(Releasing) - 1 /\ Cardinality(Releasing') \in Nat
  BY <1>3, PartsFinite, FS_RemoveElement, FS_CardinalityType
<1>5. inFlight = Cardinality(Reserved) + Cardinality(Releasing) + Cardinality(Slices(leases))
  BY DEF CountInv, InFlightExact, Slices
<1>6. inFlight' = inFlight - 1 /\ inFlight' \in 0 .. MaxBlocks
  BY <1>1, <1>4, <1>5, PartsFinite, PoolAssumption DEF TypeOK
<1>7. InFlightExact'
  BY <1>2, <1>3, <1>4, <1>5, <1>6, PartsFinite DEF InFlightExact, Slices
<1>8. ppc' \in [Putters -> PutLabels]
  BY <1>1 DEF TypeOK, PutLabels
<1>9. TypeOK'
  BY <1>1, <1>2, <1>6, <1>8 DEF TypeOK
<1>10. \A x \in Addrs : BeingPut(x)' = BeingPut(x)
  BY <1>1 DEF TypeOK, BeingPut
<1>11. \A q \in Putters : Returning(q)' => Returning(q)
  BY <1>1 DEF TypeOK, Returning
<1> QED
  BY <1>2, <1>7, <1>9, <1>10, <1>11 DEF CountInv

(* The other steps of put, and of whoever fills a block.                   *)
LEMMA CountQuietPut ==
  ASSUME CountInv, NEW p \in Putters,
         Link(p) \/ PushFails(p) \/ PutLock(p) \/ Signal(p)
  PROVE  CountInv'
<1> USE DEF Link, PushFails, PutLock, Signal, Acquire, Unlock, Goto,
            stackVars, countVars, leaseVars, getVars
<1>1. TypeOK
  BY DEF CountInv
<1>2. UNCHANGED <<freeStack, inFlight, arena, leases, seen, head, nxt, calls, blk>>
  OBVIOUS
<1>3. next' \in [Blocks -> Words]
  BY <1>1 DEF TypeOK
<1>4. mutex' \in Getters \cup Putters \cup {Null}
  BY <1>1 DEF TypeOK
<1>5. gpc' \in [Getters -> GetLabels] /\ \A k \in Getters : gpc'[k] = "reserve" => gpc[k] = "reserve"
  BY <1>1 DEF TypeOK, GetLabels
<1>6. ppc' \in [Putters -> PutLabels] /\ pHead' \in [Putters -> Words]
  BY <1>1 DEF TypeOK, PutLabels
<1>7. TypeOK'
  BY <1>1, <1>2, <1>3, <1>4, <1>5, <1>6 DEF TypeOK
<1>8. Reserved' = Reserved
  BY <1>1 DEF TypeOK, Reserved, Asleep
<1>9. Releasing' = Releasing
  BY <1>1 DEF TypeOK, Releasing
<1>10. InFlightExact'
  BY <1>2, <1>8, <1>9 DEF CountInv, InFlightExact
<1>11. \A q \in Putters : Returning(q)' <=> Returning(q)
  BY <1>1 DEF TypeOK, Returning
<1>12. \A x \in Addrs : BeingPut(x)' = BeingPut(x)
  BY <1>2, <1>11 DEF BeingPut, Returning
<1> QED
  BY <1>2, <1>5, <1>7, <1>10, <1>11, <1>12 DEF CountInv

LEMMA CountStep == CountInv /\ [Next]_vars => CountInv'
<1> SUFFICES ASSUME CountInv, [Next]_vars PROVE CountInv'
  OBVIOUS
<1>1. ASSUME NEW g \in Getters, Get(g) \/ GetStep(g) \/ Cancel(g)
      PROVE  CountInv'
  BY <1>1, CountQuietGet, CountReserve, CountLease, CountAllocFails DEF GetStep
<1>2. ASSUME NEW p \in Putters, PutStep(p) \/ \E a \in Addrs : Put(p, a)
      PROVE  CountInv'
  BY <1>2, CountQuietPut, CountPut, CountPush, CountRelease DEF PutStep
<1>3. ASSUME NEW b \in Blocks, Fill(b)
      PROVE  CountInv'
  <2>1. TypeOK /\ next' = [next EXCEPT ![b] = Junk]
    BY <1>3 DEF CountInv, Fill
  <2>2. UNCHANGED <<freeStack, inFlight, mutex, arena, leases, gpc, seen, head, nxt, calls, ppc, blk, pHead>>
    BY <1>3 DEF Fill, countVars, leaseVars, getVars, putVars
  <2>3. TypeOK'
    BY <2>1, <2>2 DEF TypeOK, Words
  <2> QED
    BY <2>2, <2>3 DEF CountInv, InFlightExact, Reserved, Releasing, Returning, BeingPut
<1>4. ASSUME UNCHANGED vars
      PROVE  CountInv'
  BY <1>4 DEF vars, CountInv, TypeOK, InFlightExact, Reserved, Releasing, Returning, BeingPut
<1> QED
  BY <1>1, <1>2, <1>3, <1>4 DEF Next

(* However many getters are inside pop at once, the counting of the pool   *)
(* stands: even a block that is leased twice is counted twice and given    *)
(* back twice.                                                             *)
THEOREM CountInvariant == Spec => []CountInv
BY CountInit, CountStep, PTL DEF Spec

(* in_flight is exactly the reservations, the leases and the returns under *)
(* way, at every step of every interleaving of get and put.                *)
THEOREM InFlightIsExact == Spec => []InFlightExact
<1>1. CountInv => InFlightExact
  BY DEF CountInv
<1> QED
  BY <1>1, CountInvariant, PTL

(* Type correctness, for any number of getters and blocks: in_flight stays *)
(* within 0 .. max_blocks, so the counter never wraps.                     *)
THEOREM TypeCorrect == Spec => []TypeOK
<1>1. CountInv => TypeOK
  BY DEF CountInv
<1> QED
  BY <1>1, CountInvariant, PTL

-----------------------------------------------------------------------------
(* No wakeup is lost                                                       *)

(* What the wakeups are counted with.                                      *)
LEMMA WakersFinite ==
  /\ IsFiniteSet(Awake) /\ Cardinality(Awake) \in Nat
  /\ IsFiniteSet(Signalling) /\ Cardinality(Signalling) \in Nat
<1>1. Awake \subseteq Getters /\ Signalling \subseteq Putters
  BY DEF Awake, Signalling
<1> QED
  BY <1>1, SubsetSize, PoolAssumption

(* A step that frees no slot, puts nobody to sleep and takes nobody out of *)
(* those who will look or signal leaves nothing to do.                     *)
LEMMA WakeupFrame ==
  ASSUME NoLostWakeup, inFlight' = inFlight,
         Asleep' \subseteq Asleep, Awake \subseteq Awake', IsFiniteSet(Awake'),
         Signalling' = Signalling, inFlight \in Nat
  PROVE  NoLostWakeup'
<1>1. Cardinality(Awake) <= Cardinality(Awake') /\ Cardinality(Awake') \in Nat
  BY SubsetSize
<1>2. Cardinality(Signalling) \in Nat /\ Cardinality(Awake) \in Nat /\ MaxBlocks \in Nat
  BY WakersFinite, PoolAssumption
<1> QED
  BY <1>1, <1>2 DEF NoLostWakeup

(* A getter that looks, reserves or waits: one that goes to sleep has seen *)
(* under the mutex that no slot is free, and one that reserves takes a slot*)
(* for itself.                                                             *)
LEMMA WakeupGet ==
  ASSUME CountInv, CountInv', NoLostWakeup, NEW g \in Getters,
         Get(g) \/ GetStep(g) \/ Cancel(g), ~AllocFails(g)
  PROVE  NoLostWakeup'
<1> USE DEF Goto, GetReturns, Look, LoadHead, stackVars, countVars, leaseVars, putVars
<1>1. TypeOK /\ inFlight \in Nat /\ MaxBlocks \in Nat
  BY PoolAssumption DEF CountInv, TypeOK
<1>2. IsFiniteSet(Awake') /\ IsFiniteSet(Awake)
  <2>1. Awake' \subseteq Getters /\ Awake \subseteq Getters
    BY DEF Awake
  <2> QED
    BY <2>1, SubsetSize, PoolAssumption
<1>3. CASE Reserve(g)
  <2>1. inFlight' = inFlight + 1 /\ Asleep' = Asleep /\ Signalling' = Signalling
    BY <1>1, <1>3 DEF Reserve, TypeOK, Asleep, Signalling
  <2>2. Awake' = Awake \ {g} /\ g \in Awake
    BY <1>1, <1>3 DEF Reserve, TypeOK, Awake
  <2>3. Cardinality(Awake') = Cardinality(Awake) - 1
    BY <2>2, WakersFinite, FS_RemoveElement
  <2> QED
    BY <1>1, <2>1, <2>3, WakersFinite DEF NoLostWakeup
<1>4. CASE WaitCheck(g) /\ inFlight >= MaxBlocks
  <2>1. inFlight' = inFlight
    BY <1>4 DEF WaitCheck
  <2>2. Cardinality(Awake') \in Nat /\ Cardinality(Signalling') \in Nat
    <3>1. Signalling' = Signalling
      BY <1>4 DEF WaitCheck, Signalling
    <3> QED
      BY <1>2, <3>1, FS_CardinalityType, WakersFinite
  <2> QED
    BY <1>1, <1>4, <2>1, <2>2 DEF NoLostWakeup
<1>5. CASE \/ Get(g) \/ LoadInFlight(g) \/ ReserveFails(g) \/ WaitLock(g)
           \/ WaitCheck(g) /\ ~(inFlight >= MaxBlocks)
  <2> USE DEF Get, LoadInFlight, ReserveFails, WaitLock, WaitCheck
  <2>1. inFlight' = inFlight /\ Signalling' = Signalling
    BY <1>5 DEF Signalling
  <2>2. Asleep' \subseteq Asleep
    BY <1>1, <1>5 DEF TypeOK, Asleep
  <2>3. Awake \subseteq Awake'
    BY <1>1, <1>5 DEF TypeOK, Awake
  <2> QED
    BY <1>1, <1>2, <2>1, <2>2, <2>3, WakeupFrame
<1>6. CASE \/ PopHead(g) \/ PopNext(g) \/ PopReturns(g) \/ PopEmpty(g) \/ PopFails(g)
           \/ AllocLock(g) \/ Alloc(g) \/ Cancel(g)
  <2> USE DEF PopHead, PopNext, PopReturns, PopEmpty, PopFails, AllocLock, Alloc, Cancel
  <2>1. inFlight' = inFlight /\ Signalling' = Signalling
    BY <1>6 DEF Signalling
  <2>2. Asleep' \subseteq Asleep
    BY <1>1, <1>6 DEF TypeOK, Asleep
  <2>3. Awake \subseteq Awake'
    BY <1>1, <1>6 DEF TypeOK, Awake
  <2> QED
    BY <1>1, <1>2, <2>1, <2>2, <2>3, WakeupFrame
<1> QED
  BY <1>3, <1>4, <1>5, <1>6 DEF GetStep

(* A put that releases a slot is itself the signal to come; its signal     *)
(* makes a sleeper look, or finds none.                                    *)
LEMMA WakeupPut ==
  ASSUME CountInv, NoLostWakeup, NEW p \in Putters,
         PutStep(p) \/ \E a \in Addrs : Put(p, a)
  PROVE  NoLostWakeup'
<1> USE DEF stackVars, countVars, leaseVars, getVars
<1>1. TypeOK /\ inFlight \in Nat /\ MaxBlocks \in Nat
  BY PoolAssumption DEF CountInv, TypeOK
<1>2. CASE Release(p)
  <2>1. inFlight' = inFlight - 1 /\ Asleep' = Asleep /\ Awake' = Awake
    BY <1>2 DEF Release, Asleep, Awake
  <2>2. Signalling' = Signalling \cup {p} /\ p \notin Signalling
    BY <1>1, <1>2 DEF Release, TypeOK, Signalling
  <2>3. Cardinality(Signalling') = Cardinality(Signalling) + 1
    BY <2>2, WakersFinite, FS_AddElement
  <2> QED
    BY <1>1, <2>1, <2>3, WakersFinite DEF NoLostWakeup
<1>3. CASE Signal(p)
  <2>1. inFlight' = inFlight
    BY <1>3 DEF Signal
  <2>2. Signalling' = Signalling \ {p} /\ p \in Signalling
    BY <1>1, <1>3 DEF Signal, TypeOK, Signalling
  <2>3. Cardinality(Signalling') = Cardinality(Signalling) - 1
    BY <2>2, WakersFinite, FS_RemoveElement
  <2>4. CASE Asleep = {} /\ UNCHANGED gpc
    BY <2>4 DEF NoLostWakeup, Asleep
  <2>5. CASE \E g \in Asleep : Goto(g, "waitLock")
    <3>1. PICK g \in Asleep : gpc' = [gpc EXCEPT ![g] = "waitLock"]
      BY <2>5 DEF Goto
    <3>2. Awake' = Awake \cup {g} /\ g \notin Awake
      BY <1>1, <3>1 DEF TypeOK, Asleep, Awake
    <3>3. Cardinality(Awake') = Cardinality(Awake) + 1
      BY <3>2, WakersFinite, FS_AddElement
    <3> QED
      BY <1>1, <2>1, <2>3, <3>1, <3>3, WakersFinite DEF NoLostWakeup
  <2> QED
    BY <1>3, <2>4, <2>5 DEF Signal
<1>4. CASE \/ \E a \in Addrs : Put(p, a)
           \/ Link(p) \/ Push(p) \/ PushFails(p) \/ PutLock(p)
  <2>1. UNCHANGED <<inFlight, gpc>>
    BY <1>4 DEF Put, Link, Push, PushFails, PutLock
  <2>2. Signalling' = Signalling
    BY <1>1, <1>4 DEF Put, Link, Push, PushFails, PutLock, TypeOK, Signalling
  <2>3. Asleep' = Asleep /\ Awake' = Awake
    BY <2>1 DEF Asleep, Awake
  <2> QED
    BY <1>1, <2>1, <2>2, <2>3, WakersFinite, WakeupFrame
<1> QED
  BY <1>2, <1>3, <1>4 DEF PutStep

(* While a getter sleeps every free slot has somebody who will look at it  *)
(* or is about to signal, for any number of getters and blocks, as long as *)
(* no allocation fails: a failed one gives its slot back without a signal. *)
THEOREM NoWakeupIsLost ==
  Spec /\ [][\A g \in Getters : ~AllocFails(g)]_vars => []NoLostWakeup
<1>1. Init => NoLostWakeup
  BY DEF Init, NoLostWakeup, Asleep
<1>2. ASSUME CountInv, CountInv', NoLostWakeup, [Next]_vars,
             [\A g \in Getters : ~AllocFails(g)]_vars
      PROVE  NoLostWakeup'
  <2>1. CASE UNCHANGED vars
    BY <1>2, <2>1 DEF vars, NoLostWakeup, Asleep, Awake, Signalling
  <2>2. ASSUME Next, \A g \in Getters : ~AllocFails(g)
        PROVE  NoLostWakeup'
    <3>1. ASSUME NEW b \in Blocks, Fill(b) PROVE NoLostWakeup'
      BY <1>2, <3>1
         DEF Fill, countVars, getVars, putVars, NoLostWakeup, Asleep, Awake, Signalling
    <3> QED
      BY <1>2, <2>2, <3>1, WakeupGet, WakeupPut DEF Next
  <2> QED
    BY <1>2, <2>1, <2>2
<1> QED
  BY <1>1, <1>2, CountInvariant, PTL DEF Spec

=============================================================================
