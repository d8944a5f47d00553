------------------------- MODULE ShardWriterProofs --------------------------
(***************************************************************************)
(* DirectShardWriter is right for every shard, block size and pool: its    *)
(* contexts and blocks are never used again too early, device memory is    *)
(* the stream, and it implements DeviceStream. One lemma per action says   *)
(* that it keeps LiveInv.                                                 *)
(***************************************************************************)
EXTENDS ShardWriter, TLAPS

USE DEF Orphaned, Due

LEMMA InitInv == Init => LiveInv
<1> SUFFICES ASSUME Init PROVE LiveInv
  OBVIOUS
<1> USE ShardAssumption
<1>1. TypeOK
  BY DEF Init, TypeOK, Labels, Slots, Contexts, NoContext, Smaller, Transfers
<1>2. Fits
  BY DEF Init, Fits, Smaller, Over
<1>3. OneHolder /\ Turns /\ Contents /\ NothingTwice
  BY DEF Init, OneHolder, Flying, Turns, Contents, NothingTwice, NoContext, Slots
<1>4. DeviceFaithful /\ NothingBehind
  BY DEF Init, DeviceFaithful, NothingBehind, Sent, Flushing
<1> QED
  BY <1>1, <1>2, <1>3, <1>4 DEF LiveInv, Init

-----------------------------------------------------------------------------
(* The steps of the writer                                                 *)

LEMMA AppendStep ==
  ASSUME LiveInv, NEW c \in 1 .. BlockSize, Append(c)
  PROVE  LiveInv'
<1> USE ShardAssumption DEF LiveInv
<1>1. /\ pc = "idle" /\ buffer \in Blocks /\ end + c <= len /\ end' = end + c
      /\ offset + end + c <= Total /\ mem' = Copied(c)
      /\ UNCHANGED <<pc, buffer, len, offset, flip, ctx, rest, flight, free, rival, dev>>
  BY DEF Append, Fits, TypeOK, Over, poolVars
<1>2. /\ \A i \in 0 .. BlockSize - 1 :
           mem'[buffer][i] = IF end <= i /\ i < end + c THEN offset + i + 1 ELSE mem[buffer][i]
      /\ \A b \in Blocks \ {buffer} : mem'[b] = mem[b]
      /\ mem' \in [Blocks -> [0 .. BlockSize - 1 -> Nat]]
  BY <1>1 DEF Copied, TypeOK
<1>3. TypeOK'
  BY <1>1, <1>2, SMTT(20) DEF TypeOK
<1>4. Fits' /\ Sent' = Sent /\ Over' = Over /\ ~Orphaned'
  BY <1>1 DEF Fits, TypeOK, Over, Sent, Flushing
<1>5. OneHolder' /\ Turns' /\ DeviceFaithful'
  BY <1>1, <1>4 DEF OneHolder, Flying, Turns, DeviceFaithful
<1>6. Contents'
  <2>1. \A f \in flight : f.res = "moving" => f.blk # buffer /\ f.blk \in Blocks
    BY <1>1 DEF OneHolder, Flying, Turns, TypeOK, Transfers
  <2>2. ASSUME NEW i \in 0 .. end' - 1 PROVE mem'[buffer][i] = offset + i + 1
    <3>1. i \in 0 .. BlockSize - 1 /\ i < end + c
      BY <1>1 DEF Fits, TypeOK
    <3>2. CASE end <= i
      BY <1>2, <3>1, <3>2
    <3>3. CASE i < end
      <4>1. i \in 0 .. end - 1
        BY <3>3, <1>1 DEF TypeOK
      <4>2. mem[buffer][i] = offset + i + 1
        BY <1>1, <4>1 DEF Contents
      <4> QED
        BY <1>2, <3>1, <3>3, <4>2 DEF TypeOK
    <3> QED
      BY <3>1, <3>2, <3>3 DEF TypeOK
  <2>3. Accepted' = Accepted + c /\ Accepted \in Nat
    BY <1>1 DEF Accepted, TypeOK, Fits
  <2>4. ASSUME NEW f \in flight
        PROVE  /\ f.len > 0 /\ f.len <= BlockSize
               /\ f.off + f.len <= Accepted' /\ f.off + f.len <= Total
               /\ f.res = "moving" => \A i \in 0 .. f.len - 1 : mem'[f.blk][i] = f.off + i + 1
    <3>1. f.off + f.len \in Nat
      BY DEF TypeOK, Transfers
    <3>2. f.len > 0 /\ f.len <= BlockSize /\ f.off + f.len <= Accepted /\ f.off + f.len <= Total
      BY DEF Contents
    <3>3. f.res = "moving" => \A i \in 0 .. f.len - 1 : mem'[f.blk][i] = f.off + i + 1
      BY <1>2, <2>1, ZenonT(30) DEF Contents
    <3> QED
      BY <2>3, <3>1, <3>2, <3>3
  <2> QED
    BY <1>1, <2>2, <2>4 DEF Contents
<1>7. NothingTwice' /\ NothingBehind'
  BY <1>1, <1>4 DEF NothingTwice, NothingBehind, ErrorPending, Span
<1> QED
  BY <1>3, <1>4, <1>5, <1>6, <1>7

(* transferData and the filling in of the context: the block is the        *)
(* transfer's, and what is in it is sent.                                  *)
LEMMA SubmitStep ==
  ASSUME LiveInv, pc \in {"idle", "full"}, end > 0, offset < Total,
         rest' \in Nat, rest' <= BlockSize, offset + end + rest' <= Total, Submit
  PROVE  LiveInv'
<1> USE ShardAssumption DEF LiveInv
<1> DEFINE t == [slot |-> flip, blk |-> buffer, off |-> offset, len |-> end,
                 res |-> "moving", cb |-> "none"]
<1>1. /\ pc' = "register" /\ flight' = flight \cup {t}
      /\ ctx' = [ctx EXCEPT ![flip] = [live |-> TRUE, blk |-> buffer, set |-> FALSE, err |-> FALSE]]
      /\ UNCHANGED <<buffer, len, end, offset, flip, free, rival, mem, dev>>
  BY DEF Submit, poolVars
<1>2. buffer \in Blocks /\ buffer # Null /\ ~Over /\ ~Over' /\ Sent = offset /\ Sent' = offset + end
  BY <1>1 DEF Fits, TypeOK, Over, Sent, Flushing
<1>3. t \in Transfers /\ t.slot = flip /\ t.blk = buffer /\ t.off = offset /\ t.len = end
      /\ t.res = "moving" /\ t.cb = "none"
  BY <1>2 DEF Transfers, TypeOK, Fits
<1>4. /\ ctx' \in [Slots -> Contexts]
      /\ ctx'[flip].live /\ ~ctx'[flip].set /\ ctx'[flip].blk = buffer
      /\ \A s \in Slots \ {flip} : ctx'[s] = ctx[s]
      /\ \A f \in flight : f.slot \in Slots \ {flip}
  BY <1>1, <1>2 DEF TypeOK, Contexts, Turns, Transfers
<1>5. TypeOK'
  BY <1>1, <1>3, <1>4 DEF TypeOK, Labels
<1>6. Fits'
  BY <1>1, <1>2 DEF Fits, TypeOK, Over
<1>7. OneHolder'
  <2>1. Flying' = Flying \cup {t} /\ \A f \in Flying : f.blk # buffer
    BY <1>1, <1>2, <1>3 DEF Flying, OneHolder
  <2> QED
    BY <1>1, <1>2, <1>3, <2>1 DEF OneHolder
<1>8. Turns'
  BY <1>1, <1>2, <1>3, <1>4 DEF Turns
<1>9. Contents'
  <2>1. end <= BlockSize /\ offset + end <= Total /\ Accepted' = offset + end + rest'
        /\ Accepted = offset + end
    BY <1>1, <1>2 DEF Fits, TypeOK, Accepted
  <2>2. \A i \in 0 .. t.len - 1 : mem'[t.blk][i] = t.off + i + 1
    BY <1>1, <1>2, <1>3 DEF Contents
  <2>3. ASSUME NEW f \in flight PROVE f.off + f.len <= Accepted'
    BY <2>1 DEF Contents, TypeOK, Transfers
  <2>4. \A f \in flight' : f.off + f.len <= Accepted' /\ f.off + f.len <= Total /\ f.len > 0 /\ f.len <= BlockSize
    BY <1>1, <1>3, <2>1, <2>3 DEF Contents, TypeOK
  <2>5. \A f \in flight : f.res = "moving" => \A i \in 0 .. f.len - 1 : mem'[f.blk][i] = f.off + i + 1
    BY <1>1 DEF Contents
  <2> QED
    BY <1>1, <1>3, <2>2, <2>4, <2>5 DEF Contents
<1>10. DeviceFaithful'
  BY <1>1 DEF DeviceFaithful
<1>11. NothingTwice'
  <2>1. \A o \in Span(t) : o > offset /\ o <= offset + end /\ o \in 1 .. Total
    BY <1>2, <1>3 DEF Span, TypeOK, Fits
  <2>2. \A f \in flight : f.off + f.len <= offset /\ f.off \in Nat /\ f.len \in Nat
    BY <1>2 DEF NothingTwice, TypeOK, Transfers
  <2>3. \A f \in flight : Span(f) \cap Span(t) = {}
    BY <2>1, <2>2, SMTT(20) DEF Span, TypeOK
  <2>4. \A f, g \in flight' : f # g => Span(f) \cap Span(g) = {}
    BY <1>1, <2>3 DEF NothingTwice
  <2>5. \A f \in flight' : f.res = "moving" => \A o \in Span(f) : dev'[o] = 0
    BY <1>1, <1>2, <1>3, <2>1 DEF NothingTwice
  <2>6. \A f \in flight' : f.off + f.len <= Sent'
    BY <1>1, <1>2, <1>3, <2>2 DEF TypeOK
  <2>7. \A o \in 1 .. Total : o > Sent' => dev'[o] = 0
    BY <1>1, <1>2 DEF NothingTwice, TypeOK
  <2> QED
    BY <2>4, <2>5, <2>6, <2>7, <1>2 DEF NothingTwice, Span
<1>12. NothingBehind'
  <2>1. ~ErrorPending' => ~ErrorPending
    BY <1>2, <1>4 DEF ErrorPending, Turns, TypeOK
  <2>2. \A o \in 1 .. Total : o > offset /\ o <= offset + end => o \in Span(t)
    BY <1>3 DEF Span, TypeOK
  <2>3. \A o \in 1 .. Total : o <= Sent' => o <= Sent \/ o \in Span(t)
    BY <1>2, <2>2 DEF TypeOK
  <2> QED
    BY <1>1, <1>2, <1>3, <2>1, <2>3 DEF NothingBehind, Span
<1> QED
  BY <1>1, <1>5, <1>6, <1>7, <1>8, <1>9, <1>10, <1>11, <1>12

(* What failed and what is left behind is only told apart by pc.           *)
LEMMA OverStep ==
  ASSUME LiveInv, pc \notin {"waitPrev", "waitLast", "freed"}, offset < Total, pc' = "failed",
         UNCHANGED <<buffer, len, end, rest, offset, flip, ctx, flight, free, rival, mem, dev>>
  PROVE  LiveInv'
<1> USE ShardAssumption DEF LiveInv
<1>1. Over' /\ ~Orphaned'
  BY DEF Over
<1>2. TypeOK' /\ Fits' /\ OneHolder'
  BY <1>1 DEF TypeOK, Labels, Fits, OneHolder, Flying
<1>3. Turns' /\ DeviceFaithful'
  BY <1>1 DEF Turns, DeviceFaithful
<1>4. Contents'
  BY DEF Contents, Accepted
<1>5. NothingTwice' /\ NothingBehind'
  BY <1>1 DEF NothingTwice, NothingBehind, Span
<1> QED
  BY <1>1, <1>2, <1>3, <1>4, <1>5

(* What a transfer keeps while PJRT and its callback deal with it.         *)
Same(f, g) == f.slot = g.slot /\ f.blk = g.blk /\ f.off = g.off /\ f.len = g.len

LEMMA RegisterStep == LiveInv /\ Register => LiveInv'
<1> SUFFICES ASSUME LiveInv, Register PROVE LiveInv'
  OBVIOUS
<1> USE ShardAssumption DEF LiveInv
<1> DEFINE R(f) == IF f.cb = "none" THEN [f EXCEPT !.cb = "wait"] ELSE f
<1>1. /\ pc = "register" /\ pc' = "waitPrev" /\ flight' = {R(f) : f \in flight}
      /\ UNCHANGED <<buffer, len, end, rest, offset, flip, ctx, free, rival, mem, dev>>
  BY DEF Register, bufVars, poolVars
<1>2. ~Over /\ ~Over' /\ Sent' = Sent /\ Accepted' = Accepted
  BY <1>1 DEF Over, Sent, Flushing, Accepted
<1>3. \A f \in flight : /\ R(f) \in Transfers /\ Same(R(f), f) /\ R(f).res = f.res
                        /\ R(f).cb # "none" /\ (R(f).cb = "put" <=> f.cb = "put")
  <2> SUFFICES ASSUME NEW f \in flight
               PROVE  /\ R(f) \in Transfers /\ Same(R(f), f) /\ R(f).res = f.res
                      /\ R(f).cb # "none" /\ (R(f).cb = "put" <=> f.cb = "put")
    OBVIOUS
  <2>1. f \in Transfers
    BY DEF TypeOK
  <2>2. CASE f.cb = "none"
    <3>1. R(f) = [f EXCEPT !.cb = "wait"]
      BY <2>2
    <3> QED
      BY <2>1, <2>2, <3>1 DEF Transfers, Same
  <2>3. CASE f.cb # "none"
    <3>1. R(f) = f
      BY <2>3
    <3> QED
      BY <2>1, <2>3, <3>1 DEF Same
  <2> QED
    BY <2>2, <2>3
<1> HIDE DEF R
<1>4. TypeOK' /\ Fits'
  BY <1>1, <1>2, <1>3 DEF TypeOK, Labels, Fits
<1>5. OneHolder'
  BY <1>1, <1>3 DEF OneHolder, Flying, Same
<1>6. Turns'
  BY <1>1, <1>2, <1>3 DEF Turns, Same
<1>7. Contents'
  BY <1>1, <1>2, <1>3 DEF Contents, Same
<1>8. DeviceFaithful' /\ NothingTwice'
  BY <1>1, <1>2, <1>3 DEF DeviceFaithful, NothingTwice, Same, Span
<1>9. NothingBehind'
  BY <1>1, <1>2, <1>3 DEF NothingBehind, ErrorPending, Same, Span
<1> QED
  BY <1>1, <1>4, <1>5, <1>6, <1>7, <1>8, <1>9

(* A context whose event is set has no transfer left.                      *)
LEMMA SetIsOver ==
  ASSUME LiveInv, ~Over, NEW s \in Slots, ctx[s].set \/ ~ctx[s].live
  PROVE  \A f \in flight : f.slot # s
BY DEF LiveInv, Turns, Over

LEMMA WaitPrevStep == LiveInv /\ WaitPrev => LiveInv'
<1> SUFFICES ASSUME LiveInv, WaitPrev PROVE LiveInv'
  OBVIOUS
<1> USE ShardAssumption DEF LiveInv
<1> DEFINE o == Other(flip)
<1>1. /\ pc = "waitPrev" /\ o \in Slots /\ flip \in Slots /\ o # flip /\ Slots = {o, flip}
      /\ ctx[o].live => ctx[o].set
      /\ ctx' = [ctx EXCEPT ![o].live = FALSE]
      /\ pc' = IF ctx[o].live /\ ctx[o].err THEN "failed" ELSE AfterPrev
      /\ UNCHANGED <<buffer, len, end, rest, offset, flip, flight, free, rival, mem, dev>>
  BY DEF WaitPrev, bufVars, poolVars, Other, Slots, TypeOK
<1>2. /\ ctx' \in [Slots -> Contexts] /\ ~ctx'[o].live /\ ctx'[flip] = ctx[flip]
      /\ \A s \in Slots : ctx'[s].blk = ctx[s].blk /\ ctx'[s].set = ctx[s].set /\ ctx'[s].err = ctx[s].err
  BY <1>1 DEF TypeOK, Contexts
<1>3. ~Over /\ pc' \in {"failed", "waitLast", "getBuf"} /\ Accepted' = Accepted
      /\ (~Over' => Sent' = Sent) /\ (pc' = "failed" <=> Over')
  BY <1>1 DEF Over, AfterPrev, Sent, Flushing, Accepted
<1>4. \A f \in flight : f.slot = flip /\ f.cb # "none"
  BY <1>1, <1>3, SetIsOver DEF TypeOK, Transfers, Turns
<1>5. TypeOK'
  BY <1>1, <1>2, <1>3 DEF TypeOK, Labels
<1>6. Fits'
  <2>1. offset < Total /\ buffer # Null /\ offset + end <= Total
    BY <1>1, <1>3 DEF Fits, TypeOK
  <2>2. /\ pc' = "waitLast" => offset + end = Total
        /\ pc' = "getBuf" => offset + end < Total
    BY <1>1, <2>1 DEF AfterPrev, IsLast, TypeOK
  <2> QED
    BY <1>1, <1>3, <2>1, <2>2 DEF Fits
<1>7. OneHolder' /\ DeviceFaithful'
  BY <1>1, <1>3 DEF OneHolder, Flying, DeviceFaithful
<1>8. Turns'
  BY <1>1, <1>2, <1>3, <1>4 DEF Turns
<1>9. Contents'
  BY <1>1, <1>3 DEF Contents
<1>10. NothingTwice'
  BY <1>1, <1>3 DEF NothingTwice, Span
<1>11. NothingBehind'
  <2>1. ~Over' /\ ~ErrorPending' => ~ErrorPending
    BY <1>1, <1>2, <1>3 DEF ErrorPending, AfterPrev
  <2> QED
    BY <1>1, <1>3, <2>1 DEF NothingBehind, Span
<1> QED
  BY <1>3, <1>5, <1>6, <1>7, <1>8, <1>9, <1>10, <1>11

(* The last event is set: no transfer is left.                             *)
LEMMA WaitLastFacts ==
  ASSUME LiveInv, WaitLast
  PROVE  /\ flight = {} /\ offset < Total /\ offset + end = Total /\ rest = 0
         /\ ~ctx[flip].err => \A o \in 1 .. Total : dev[o] = o
<1> USE ShardAssumption DEF LiveInv
<1>1. /\ pc = "waitLast" /\ ctx[flip].set /\ flip \in Slots /\ Other(flip) \in Slots
      /\ ~ctx[Other(flip)].live /\ Slots = {flip, Other(flip)} /\ ~Over
  BY DEF WaitLast, TypeOK, Turns, Slots, Other, Over
<1>2. \A f \in flight : f.slot # flip /\ f.slot # Other(flip)
  BY <1>1, SetIsOver
<1>3. flight = {}
  BY <1>1, <1>2 DEF TypeOK, Transfers
<1>4. offset < Total /\ offset + end = Total /\ rest = 0 /\ Sent = Total
  BY <1>1 DEF Fits, TypeOK, Over, Sent, Flushing
<1>5. ASSUME ~ctx[flip].err PROVE \A o \in 1 .. Total : dev[o] = o
  <2>1. ~ErrorPending
    BY <1>1, <1>5 DEF ErrorPending
  <2> QED
    BY <1>1, <1>3, <1>4, <2>1 DEF NothingBehind
<1> QED
  BY <1>3, <1>4, <1>5

LEMMA WaitLastStep == LiveInv /\ WaitLast => LiveInv'
<1> SUFFICES ASSUME LiveInv, WaitLast PROVE LiveInv'
  OBVIOUS
<1> USE ShardAssumption DEF LiveInv
<1>1. /\ flight = {} /\ offset < Total /\ offset + end = Total /\ rest = 0
      /\ ~ctx[flip].err => \A o \in 1 .. Total : dev[o] = o
  BY WaitLastFacts
<1>2. /\ pc = "waitLast" /\ buffer' = Null /\ len' = 0 /\ end' = 0
      /\ ctx' = [ctx EXCEPT ![flip].live = FALSE]
      /\ UNCHANGED <<rest, flight, free, rival, mem, dev>>
  BY DEF WaitLast, Failing, poolVars
<1>3. \/ ctx[flip].err /\ pc' = "failed" /\ offset' = offset /\ flip' = flip
      \/ ~ctx[flip].err /\ pc' = "idle" /\ offset' = Total /\ flip' = Other(flip)
  BY <1>1 DEF WaitLast
<1>4. flip' \in Slots /\ ctx' \in [Slots -> Contexts] /\ (pc' = "idle" => ~ctx'[flip'].live)
  <2>1. flip \in Slots /\ Other(flip) \in Slots /\ Other(flip) # flip
    BY DEF TypeOK, Slots, Other
  <2>2. ~ctx[Other(flip)].live
    BY <1>2 DEF Turns
  <2>3. ctx' \in [Slots -> Contexts] /\ ctx'[Other(flip)] = ctx[Other(flip)]
    BY <1>2, <2>1 DEF TypeOK, Contexts
  <2> QED
    BY <1>3, <2>1, <2>2, <2>3
<1>5. TypeOK'
  BY <1>2, <1>3, <1>4 DEF TypeOK, Labels
<1>6. Fits' /\ OneHolder'
  BY <1>1, <1>2, <1>3 DEF Fits, TypeOK, Over, OneHolder, Flying
<1>7. Turns' /\ Contents' /\ DeviceFaithful'
  BY <1>1, <1>2, <1>3, <1>4 DEF Turns, Contents, DeviceFaithful
<1>8. NothingTwice' /\ NothingBehind'
  <2>1. pc' = "failed" => Over'
    BY DEF Over
  <2>2. pc' = "idle" => Sent' = Total
    BY <1>3 DEF Sent, Flushing
  <2> QED
    BY <1>1, <1>2, <1>3, <2>1, <2>2 DEF NothingTwice, NothingBehind
<1> QED
  BY <1>3, <1>5, <1>6, <1>7, <1>8

(* Another block of the pool: it is nobody else's, and what drain had left *)
(* to copy goes into it.                                                   *)
LEMMA GetBufferStep == LiveInv /\ GetBuffer => LiveInv'
<1> SUFFICES ASSUME LiveInv, GetBuffer PROVE LiveInv'
  OBVIOUS
<1> USE ShardAssumption DEF LiveInv
<1>1. PICK b \in free :
        /\ buffer' = b /\ free' = free \ {b}
        /\ mem' = [mem EXCEPT ![b] =
                     [i \in 0 .. BlockSize - 1 |-> IF i < rest THEN offset + end + i + 1 ELSE @[i]]]
  BY DEF GetBuffer
<1>2. /\ pc = "getBuf" /\ len' = Smaller(BlockSize, Total - (offset + end))
      /\ end' = rest /\ rest' = 0 /\ flip' = Other(flip) /\ offset' = offset + end
      /\ pc' \in {"full", "idle"}
      /\ UNCHANGED <<ctx, flight, rival, dev>>
  BY DEF GetBuffer
<1>3. /\ buffer # Null /\ b \in Blocks /\ b # Null /\ ~Over /\ ~Over'
      /\ offset' < Total /\ offset' + rest <= Total /\ rest <= BlockSize
      /\ offset' \in Nat /\ Sent' = Sent /\ Sent = offset' /\ Accepted' = Accepted
  BY <1>1, <1>2 DEF Fits, TypeOK, Over, Sent, Flushing, Accepted
<1>4. len' \in Nat /\ len' <= BlockSize /\ rest <= len'
  BY <1>2, <1>3 DEF Smaller, TypeOK
<1>5. /\ mem' \in [Blocks -> [0 .. BlockSize - 1 -> Nat]]
      /\ \A c \in Blocks \ {b} : mem'[c] = mem[c]
      /\ \A i \in 0 .. BlockSize - 1 : i < rest => mem'[b][i] = offset' + i + 1
  BY <1>1, <1>2, <1>3, SMTT(20) DEF TypeOK
<1>6. flip' \in Slots /\ ~ctx[flip'].live
  BY <1>2 DEF TypeOK, Slots, Other, Turns
<1>7. TypeOK'
  BY <1>1, <1>2, <1>3, <1>4, <1>5, <1>6 DEF TypeOK, Labels
<1>8. Fits'
  BY <1>1, <1>2, <1>3, <1>4 DEF Fits, TypeOK
<1>9. OneHolder' /\ DeviceFaithful'
  BY <1>1, <1>2 DEF OneHolder, Flying, DeviceFaithful
<1>10. Turns'
  BY <1>2, <1>3, <1>6 DEF Turns
<1>11. Contents'
  <2>1. \A f \in flight : f.res = "moving" => f.blk # b /\ f.blk \in Blocks
    BY <1>1 DEF OneHolder, Flying, Turns, TypeOK, Transfers
  <2>2. \A i \in 0 .. end' - 1 : mem'[buffer'][i] = offset' + i + 1
    BY <1>1, <1>2, <1>3, <1>5 DEF TypeOK
  <2>3. ASSUME NEW f \in flight, f.res = "moving", NEW i \in 0 .. f.len - 1
        PROVE  mem'[f.blk][i] = f.off + i + 1
    BY <1>5, <2>1, <2>3 DEF Contents
  <2>4. \A f \in flight : f.len > 0 /\ f.len <= BlockSize /\ f.off + f.len <= Accepted' /\ f.off + f.len <= Total
    BY <1>3 DEF Contents
  <2> QED
    BY <1>2, <2>2, <2>3, <2>4 DEF Contents
<1>12. NothingTwice' /\ NothingBehind'
  BY <1>2, <1>3 DEF NothingTwice, NothingBehind, ErrorPending, Span
<1> QED
  BY <1>2, <1>7, <1>8, <1>9, <1>10, <1>11, <1>12

(* Freed with no callback due, the writer is as it was but for contexts    *)
(* nobody looks at; with one due it is orphaned.                           *)
LEMMA DeinitStep == LiveInv /\ Deinit => ShardInv'
<1> SUFFICES ASSUME LiveInv, Deinit PROVE ShardInv'
  OBVIOUS
<1> USE ShardAssumption DEF LiveInv
<1>1. /\ pc' = IF Due = {} THEN "freed" ELSE "orphaned"
      /\ ctx' = [s \in Slots |-> NoContext]
      /\ UNCHANGED <<buffer, len, end, rest, offset, flip, flight, free, rival, mem, dev>>
  BY DEF Deinit, bufVars, poolVars
<1>2. TypeOK'
  <2>1. ctx' \in [Slots -> Contexts]
    BY <1>1 DEF NoContext, Contexts
  <2> QED
    BY <1>1, <2>1 DEF TypeOK, Labels
<1>3. CASE Due = {}
  <2>1. pc' = "freed" /\ Over' /\ Due' = {}
    BY <1>1, <1>3 DEF Over, Due
  <2>2. Fits' /\ OneHolder'
    BY <1>1, <2>1 DEF Fits, OneHolder, Flying
  <2>3. Turns' /\ Contents' /\ DeviceFaithful'
    BY <1>1, <2>1 DEF Turns, Contents, Accepted, DeviceFaithful
  <2>4. NothingTwice' /\ NothingBehind'
    BY <1>1, <2>1 DEF NothingTwice, NothingBehind, Span
  <2> QED
    BY <1>2, <2>1, <2>2, <2>3, <2>4 DEF ShardInv
<1>4. CASE Due # {}
  BY <1>1, <1>2, <1>4 DEF ShardInv
<1> QED
  BY <1>3, <1>4

-----------------------------------------------------------------------------
(* PJRT and the callback                                                   *)

(* What does not depend on a transfer is kept when one of them goes on.    *)
StillWriter == UNCHANGED <<pc, buffer, len, end, rest, offset, flip>>
LEMMA WriterStill ==
  ASSUME LiveInv, StillWriter
  PROVE  /\ Over' = Over /\ Sent' = Sent /\ Accepted' = Accepted /\ ~Orphaned'
         /\ flight # {} /\ flight' # {} => Fits'
         /\ flight = {} /\ flight' = {} => Fits'
BY DEF LiveInv, Orphaned, StillWriter, Over, Sent, Flushing, Accepted, Fits

LEMMA SpanFacts ==
  ASSUME LiveInv, NEW f \in flight, NEW o \in Span(f)
  PROVE  o \in 1 .. Total /\ o <= f.off + f.len /\ (~Over => o <= Sent)
<1>1. f.off \in Nat /\ f.len \in Nat /\ f.off + f.len <= Total /\ (~Over => f.off + f.len <= Sent)
  BY DEF LiveInv, TypeOK, Transfers, Contents, NothingTwice
<1>2. Sent \in Nat /\ Total \in Nat
  BY ShardAssumption DEF LiveInv, TypeOK, Sent
<1> QED
  BY <1>1, <1>2 DEF Span

(* A transfer goes on to g: PJRT has moved it or not, or its callback has  *)
(* put the block.                                                          *)
LEMMA GoesOn ==
  ASSUME LiveInv, NEW f \in flight, NEW g \in Transfers, Same(f, g), g # f,
         flight' = (flight \ {f}) \cup {g}
  PROVE  /\ \A h \in flight' : h = g \/ (h \in flight /\ h # f /\ h.slot # g.slot)
         /\ \A h \in flight : h # f => h \in flight' /\ h.slot # g.slot
         /\ g \notin flight
BY DEF LiveInv, Turns, Same

LEMMA HolderKept ==
  ASSUME LiveInv, NEW f \in flight, NEW g \in Transfers, Same(f, g), g # f, g.cb = f.cb,
         flight' = (flight \ {f}) \cup {g}, UNCHANGED <<free, rival, buffer, pc>>
  PROVE  OneHolder'
<1>1. \A h \in flight' : h = g \/ (h \in flight /\ h # f)
  BY GoesOn
<1>2. \A h \in Flying' : \E k \in Flying : h.blk = k.blk /\ (IF h = g THEN k = f ELSE k = h /\ h # f)
  BY <1>1 DEF Flying, Same
<1>3. OneHolder /\ ~Orphaned
  BY DEF LiveInv
<1>4. \A h \in Flying' : h.blk \notin free \cup rival
  BY <1>2, <1>3 DEF OneHolder
<1>5. \A h, k \in Flying' : h.blk = k.blk => h = k
  BY <1>2, <1>3 DEF OneHolder
<1>6. pc \in {"idle", "full"} /\ buffer # Null => buffer \notin free \cup rival \cup {h.blk : h \in Flying'}
  BY <1>2, <1>3 DEF OneHolder
<1> QED
  BY <1>3, <1>4, <1>5, <1>6 DEF OneHolder

LEMMA MoveStep ==
  ASSUME LiveInv, NEW f \in flight, Move(f)
  PROVE  LiveInv'
<1> USE ShardAssumption DEF LiveInv
<1> DEFINE g == [f EXCEPT !.res = "ok"]
<1>1. /\ f.res = "moving" /\ flight' = (flight \ {f}) \cup {g} /\ StillWriter
      /\ dev' = [o \in 1 .. Total |->
                   IF f.off < o /\ o <= f.off + f.len THEN mem[f.blk][o - f.off - 1] ELSE dev[o]]
      /\ UNCHANGED <<ctx, free, rival, mem>>
  BY DEF Move, StillWriter, bufVars, poolVars
<1>2. g \in Transfers /\ Same(f, g) /\ g # f /\ g.res = "ok" /\ g.cb = f.cb /\ f \in Transfers
  BY <1>1 DEF TypeOK, Transfers, Same
<1> HIDE DEF g
<1>3. /\ \A h \in flight' : h = g \/ (h \in flight /\ h # f /\ h.slot # g.slot)
      /\ \A h \in flight : h # f => h \in flight' /\ h.slot # g.slot
      /\ g \notin flight
  BY <1>1, <1>2, GoesOn
<1>4. Over' = Over /\ Sent' = Sent /\ Accepted' = Accepted /\ Fits' /\ ~Orphaned'
  BY <1>1, WriterStill
<1>5. \A o \in 1 .. Total : dev'[o] = IF o \in Span(f) THEN o ELSE dev[o]
  <2>1. ASSUME NEW o \in 1 .. Total, o \in Span(f) PROVE mem[f.blk][o - f.off - 1] = o
    <3>1. o - f.off - 1 \in 0 .. f.len - 1 /\ o = f.off + (o - f.off - 1) + 1
      BY <1>2, <2>1 DEF Span, Transfers
    <3> QED
      BY <1>1, <3>1 DEF Contents
  <2> QED
    BY <1>1, <1>2, <2>1 DEF Span, Transfers
<1>6. TypeOK'
  <2>1. dev' \in [1 .. Total -> Nat]
    BY <1>1, <1>5 DEF TypeOK
  <2>2. flight' \subseteq Transfers
    BY <1>1, <1>2 DEF TypeOK
  <2> QED
    BY <1>1, <2>1, <2>2 DEF TypeOK, StillWriter
<1>7. OneHolder' /\ Turns'
  <2>1. OneHolder'
    BY <1>1, <1>2, HolderKept DEF StillWriter
  <2> QED
    BY <1>1, <1>2, <1>3, <1>4, <2>1, SMTT(30) DEF Turns, Same, StillWriter
<1>8. Contents'
  BY <1>1, <1>2, <1>3, <1>4 DEF Contents, Same, StillWriter
<1>9. DeviceFaithful'
  BY <1>5 DEF DeviceFaithful
<1>10. NothingTwice'
  <2>1. Span(g) = Span(f)
    BY <1>2 DEF Span, Same
  <2>2. \A h \in flight : h # f => Span(h) \cap Span(f) = {}
    BY DEF NothingTwice
  <2>3. \A h \in flight : \A o \in Span(h) : o \in 1 .. Total /\ (~Over => o <= Sent)
    BY SpanFacts
  <2>5. \A h, k \in flight' : h # k => Span(h) \cap Span(k) = {}
    BY <1>3, <2>1, <2>2 DEF NothingTwice
  <2>6. \A h \in flight' : h.res = "moving" => \A o \in Span(h) : dev'[o] = 0
    <3>1. ASSUME NEW h \in flight', h.res = "moving", NEW o \in Span(h) PROVE dev'[o] = 0
      <4>1. h \in flight /\ h # f
        BY <1>2, <1>3, <3>1
      <4>2. o \in 1 .. Total /\ o \notin Span(f) /\ dev[o] = 0
        BY <2>2, <2>3, <3>1, <4>1 DEF NothingTwice
      <4> QED
        BY <1>5, <4>2
    <3> QED
      BY <3>1
  <2>7. ~Over => /\ \A h \in flight' : h.off + h.len <= Sent'
                 /\ \A o \in 1 .. Total : o > Sent' => dev'[o] = 0
    <3>1. ~Over => \A h \in flight' : h.off + h.len <= Sent'
      BY <1>2, <1>3, <1>4 DEF NothingTwice, Same
    <3>2. ASSUME ~Over, NEW o \in 1 .. Total, o > Sent' PROVE dev'[o] = 0
      <4>1. o \notin Span(f)
        BY <1>4, <2>3, <3>2 DEF TypeOK, Sent
      <4> QED
        BY <1>4, <1>5, <3>2, <4>1 DEF NothingTwice
    <3> QED
      BY <3>1, <3>2
  <2> QED
    BY <1>4, <2>5, <2>6, <2>7 DEF NothingTwice, Span
<1>11. NothingBehind'
  <2>1. ErrorPending' <=> ErrorPending
    BY <1>1 DEF ErrorPending
  <2> QED
    BY <1>3, <1>4, <1>5, <2>1 DEF NothingBehind, Span
<1> QED
  BY <1>4, <1>6, <1>7, <1>8, <1>9, <1>10, <1>11

LEMMA MoveFailsStep ==
  ASSUME LiveInv, NEW f \in flight, MoveFails(f)
  PROVE  LiveInv'
<1> USE ShardAssumption DEF LiveInv
<1> DEFINE g == [f EXCEPT !.res = "error"]
<1>1. /\ f.res = "moving" /\ flight' = (flight \ {f}) \cup {g} /\ StillWriter
      /\ UNCHANGED <<ctx, free, rival, mem, dev>>
  BY DEF MoveFails, StillWriter, bufVars, poolVars
<1>2. g \in Transfers /\ Same(f, g) /\ g # f /\ g.res = "error" /\ g.cb = f.cb /\ f \in Transfers
  BY <1>1 DEF TypeOK, Transfers, Same
<1> HIDE DEF g
<1>3. /\ \A h \in flight' : h = g \/ (h \in flight /\ h # f /\ h.slot # g.slot)
      /\ \A h \in flight : h # f => h \in flight' /\ h.slot # g.slot
      /\ g \notin flight
  BY <1>1, <1>2, GoesOn
<1>4. Over' = Over /\ Sent' = Sent /\ Accepted' = Accepted /\ Fits' /\ ~Orphaned'
  BY <1>1, WriterStill
<1>5. TypeOK' /\ OneHolder' /\ DeviceFaithful'
  BY <1>1, <1>2, HolderKept DEF TypeOK, StillWriter, DeviceFaithful
<1>6. Turns' /\ Contents'
  BY <1>1, <1>2, <1>3, <1>4 DEF Turns, Contents, Same, StillWriter
<1>7. Span(g) = Span(f)
  BY <1>2 DEF Span, Same
<1>8. NothingTwice'
  <2>1. \A h, k \in flight' : h # k => Span(h) \cap Span(k) = {}
    BY <1>3, <1>7 DEF NothingTwice
  <2>2. \A h \in flight' : h.res = "moving" => \A o \in Span(h) : dev'[o] = 0
    BY <1>1, <1>2, <1>3 DEF NothingTwice
  <2>3. ~Over => \A h \in flight' : h.off + h.len <= Sent'
    BY <1>2, <1>3, <1>4 DEF NothingTwice, Same
  <2> QED
    BY <1>1, <1>4, <2>1, <2>2, <2>3 DEF NothingTwice, Span
<1>9. NothingBehind'
  <2>1. ErrorPending' <=> ErrorPending
    BY <1>1 DEF ErrorPending
  <2>2. g \in flight' /\ g.res # "ok"
    BY <1>1, <1>2
  <2> QED
    BY <1>1, <1>2, <1>3, <1>4, <2>1, <2>2 DEF NothingBehind, Span, Same
<1> QED
  BY <1>4, <1>5, <1>6, <1>8, <1>9

(* The callback puts the block the transfer had, and nobody else.          *)
LEMMA CallbackPutStep ==
  ASSUME LiveInv, NEW f \in flight, CallbackPut(f)
  PROVE  LiveInv'
<1> USE ShardAssumption DEF LiveInv
<1> DEFINE g == [f EXCEPT !.cb = "put"]
<1>1. /\ f.cb = "wait" /\ f.res # "moving" /\ flight' = (flight \ {f}) \cup {g} /\ StillWriter
      /\ free' = free \cup {f.blk}
      /\ UNCHANGED <<ctx, rival, mem, dev>>
  BY DEF CallbackPut, Found, StillWriter, bufVars, Turns, TypeOK, Transfers
<1>2. g \in Transfers /\ Same(f, g) /\ g # f /\ g.res = f.res /\ g.cb = "put" /\ f \in Transfers
  BY <1>1 DEF TypeOK, Transfers, Same
<1> HIDE DEF g
<1>3. /\ \A h \in flight' : h = g \/ (h \in flight /\ h # f /\ h.slot # g.slot)
      /\ \A h \in flight : h # f => h \in flight' /\ h.slot # g.slot
      /\ g \notin flight
  BY <1>1, <1>2, GoesOn
<1>4. Over' = Over /\ Sent' = Sent /\ Accepted' = Accepted /\ Fits' /\ ~Orphaned'
  BY <1>1, WriterStill
<1>5. TypeOK' /\ DeviceFaithful'
  BY <1>1, <1>2 DEF TypeOK, StillWriter, DeviceFaithful, Transfers
<1>6. OneHolder'
  <2>1. f \in Flying /\ \A h \in Flying' : h \in Flying /\ h # f
    BY <1>1, <1>2, <1>3 DEF Flying
  <2>2. \A h \in Flying' : h.blk # f.blk
    BY <2>1 DEF OneHolder
  <2>3. f.blk \notin free \cup rival /\ (pc \in {"idle", "full"} /\ buffer # Null => buffer # f.blk)
    BY <2>1 DEF OneHolder
  <2>4. \A h \in Flying' : h.blk \notin free' \cup rival'
    BY <1>1, <2>1, <2>2 DEF OneHolder
  <2>5. pc \in {"idle", "full"} /\ buffer # Null => buffer \notin free' \cup rival \cup {h.blk : h \in Flying'}
    BY <1>1, <2>1, <2>3 DEF OneHolder
  <2> QED
    BY <1>1, <2>1, <2>3, <2>4, <2>5 DEF OneHolder, StillWriter
<1>7. Turns' /\ Contents'
  BY <1>1, <1>2, <1>3, <1>4 DEF Turns, Contents, Same, StillWriter
<1>8. Span(g) = Span(f)
  BY <1>2 DEF Span, Same
<1>9. NothingTwice'
  <2>1. \A h, k \in flight' : h # k => Span(h) \cap Span(k) = {}
    BY <1>3, <1>8 DEF NothingTwice
  <2>2. \A h \in flight' : h.res = "moving" => \A o \in Span(h) : dev'[o] = 0
    BY <1>1, <1>2, <1>3 DEF NothingTwice
  <2>3. ~Over => \A h \in flight' : h.off + h.len <= Sent'
    BY <1>2, <1>3, <1>4 DEF NothingTwice, Same
  <2> QED
    BY <1>1, <1>4, <2>1, <2>2, <2>3 DEF NothingTwice, Span
<1>10. NothingBehind'
  <2>1. (ErrorPending' <=> ErrorPending) /\ g \in flight'
    BY <1>1 DEF ErrorPending
  <2> QED
    BY <1>1, <1>2, <1>3, <1>4, <2>1 DEF NothingBehind, Span, Same
<1> QED
  BY <1>4, <1>5, <1>6, <1>7, <1>9, <1>10

(* The event is set and the transfer over; if it failed, the error is there*)
(* for the writer to see.                                                  *)
LEMMA CallbackSetStep ==
  ASSUME LiveInv, NEW f \in flight, CallbackSet(f)
  PROVE  LiveInv'
<1> USE ShardAssumption DEF LiveInv
<1> DEFINE s == f.slot
<1>1. /\ f.cb = "put" /\ f.res # "moving" /\ flight' = flight \ {f} /\ StillWriter
      /\ ctx' = [ctx EXCEPT ![s].err = (f.res = "error"), ![s].set = TRUE]
      /\ UNCHANGED <<free, rival, mem, dev>>
  BY DEF CallbackSet, StillWriter, bufVars, poolVars
<1>2. s \in Slots /\ \A h \in flight' : h \in flight /\ h.slot \in Slots \ {s}
  BY <1>1 DEF TypeOK, Transfers, Turns
<1>3. /\ ctx' \in [Slots -> Contexts]
      /\ \A r \in Slots \ {s} : ctx'[r] = ctx[r]
      /\ ctx'[s].live = ctx[s].live /\ ctx'[s].blk = ctx[s].blk
      /\ ctx'[s].set /\ (ctx'[s].err <=> f.res = "error")
  <2> DEFINE c == [ctx[s] EXCEPT !.err = (f.res = "error"), !.set = TRUE]
  <2>1. ctx \in [Slots -> Contexts] /\ ctx[s] \in Contexts
    BY <1>2 DEF TypeOK
  <2>2. (f.res = "error") \in BOOLEAN
    OBVIOUS
  <2>3. c \in Contexts /\ c.live = ctx[s].live /\ c.blk = ctx[s].blk /\ c.set = TRUE /\ c.err = (f.res = "error")
    BY <2>1, <2>2 DEF Contexts
  <2>4. ctx' = [ctx EXCEPT ![s] = c]
    BY <1>1
  <2> HIDE DEF c
  <2> QED
    BY <1>2, <2>1, <2>3, <2>4
<1>4. Over' = Over /\ Sent' = Sent /\ Accepted' = Accepted /\ flight # {} /\ ~Orphaned'
  BY <1>1, WriterStill
<1>5. Fits' /\ TypeOK'
  BY <1>1, <1>3, <1>4 DEF Fits, TypeOK, StillWriter
<1>6. OneHolder' /\ DeviceFaithful'
  BY <1>1, <1>2 DEF OneHolder, Flying, DeviceFaithful, StillWriter
<1>7. Turns'
  <2>1. \A r \in Slots : ctx'[r].live = ctx[r].live
    BY <1>3
  <2>2. flip \in Slots /\ Other(flip) \in Slots
    BY DEF TypeOK, Slots, Other
  <2> QED
    BY <1>1, <1>2, <1>3, <1>4, <2>1, <2>2 DEF Turns, StillWriter
<1>8. Contents' /\ NothingTwice'
  BY <1>1, <1>2, <1>4 DEF Contents, NothingTwice, Span, StillWriter
<1>9. NothingBehind'
  <2>1. ASSUME ~Over, ~ErrorPending' PROVE f.res = "ok" /\ ~ErrorPending
    <3>1. ctx[s].live /\ ~ctx[s].set
      BY <2>1 DEF Turns
    <3>2. f.res # "error"
      BY <1>2, <1>3, <2>1, <3>1 DEF ErrorPending
    <3> QED
      BY <1>1, <1>2, <1>3, <2>1, <3>1, <3>2 DEF ErrorPending, TypeOK, Transfers
  <2> QED
    BY <1>1, <1>4, <2>1 DEF NothingBehind, Span
<1> QED
  BY <1>4, <1>5, <1>6, <1>7, <1>8, <1>9

-----------------------------------------------------------------------------
(* The other loads                                                         *)

LEMMA RivalGetStep ==
  ASSUME LiveInv, NEW b \in Blocks, RivalGet(b)
  PROVE  LiveInv'
<1> USE ShardAssumption DEF LiveInv
<1>1. /\ b \in free /\ free' = free \ {b} /\ rival' = rival \cup {b} /\ StillWriter
      /\ mem' = [mem EXCEPT ![b] = [i \in 0 .. BlockSize - 1 |-> 0]]
      /\ UNCHANGED <<ctx, flight, dev>>
  BY DEF RivalGet, StillWriter, bufVars
<1>2. Over' = Over /\ Sent' = Sent /\ Accepted' = Accepted /\ Fits' /\ ~Orphaned'
  BY <1>1, WriterStill
<1>3. /\ mem' \in [Blocks -> [0 .. BlockSize - 1 -> Nat]]
      /\ \A c \in Blocks \ {b} : mem'[c] = mem[c]
  BY <1>1 DEF TypeOK
<1>4. TypeOK' /\ DeviceFaithful'
  BY <1>1, <1>3 DEF TypeOK, StillWriter, DeviceFaithful
<1>5. OneHolder' /\ Turns'
  BY <1>1, <1>2 DEF OneHolder, Flying, Turns, StillWriter
<1>6. Contents'
  <2>1. \A f \in flight : f.res = "moving" => f.blk \in Blocks \ {b}
    BY <1>1 DEF OneHolder, Flying, Turns, TypeOK, Transfers
  <2>2. pc \in {"idle", "full"} /\ buffer # Null => buffer \in Blocks \ {b}
    BY <1>1 DEF OneHolder, TypeOK
  <2> QED
    BY <1>1, <1>2, <1>3, <2>1, <2>2 DEF Contents, StillWriter
<1>7. NothingTwice' /\ NothingBehind'
  BY <1>1, <1>2 DEF NothingTwice, NothingBehind, ErrorPending, Span
<1> QED
  BY <1>2, <1>4, <1>5, <1>6, <1>7

LEMMA RivalPutStep ==
  ASSUME LiveInv, NEW b \in Blocks, RivalPut(b)
  PROVE  LiveInv'
<1> USE ShardAssumption DEF LiveInv
<1>1. /\ b \in rival /\ free' = free \cup {b} /\ rival' = rival \ {b} /\ StillWriter
      /\ UNCHANGED <<ctx, flight, mem, dev>>
  BY DEF RivalPut, StillWriter, bufVars
<1>2. Over' = Over /\ Sent' = Sent /\ Accepted' = Accepted /\ Fits' /\ ~Orphaned'
  BY <1>1, WriterStill
<1>3. TypeOK' /\ OneHolder' /\ DeviceFaithful'
  BY <1>1 DEF TypeOK, StillWriter, OneHolder, Flying, DeviceFaithful
<1>4. Turns' /\ Contents' /\ NothingTwice' /\ NothingBehind'
  BY <1>1, <1>2 DEF Turns, Contents, NothingTwice, NothingBehind, ErrorPending, Span, StillWriter
<1> QED
  BY <1>2, <1>3, <1>4

-----------------------------------------------------------------------------
(* The invariant                                                           *)

LEMMA StutterStep == LiveInv /\ UNCHANGED vars => LiveInv'
<1> SUFFICES ASSUME LiveInv, UNCHANGED vars PROVE LiveInv'
  OBVIOUS
<1>1. StillWriter /\ UNCHANGED <<ctx, flight, free, rival, mem, dev>>
  BY DEF vars, StillWriter
<1>2. Over' = Over /\ Sent' = Sent /\ Accepted' = Accepted /\ Fits' /\ ~Orphaned'
  BY <1>1, WriterStill
<1>3. TypeOK' /\ OneHolder' /\ DeviceFaithful' /\ Turns' /\ Contents'
  BY <1>1, <1>2 DEF LiveInv, TypeOK, StillWriter, OneHolder, Flying, DeviceFaithful, Turns, Contents
<1>4. NothingTwice' /\ NothingBehind'
  BY <1>1, <1>2 DEF LiveInv, NothingTwice, NothingBehind, ErrorPending, Span
<1> QED
  BY <1>2, <1>3, <1>4 DEF LiveInv

(* What drain and flush submit fits: the rest of a drained chunk will fit  *)
(* the next block.                                                         *)
LEMMA DrainFacts ==
  ASSUME LiveInv, NEW c \in 1 .. BlockSize, Drain(c)
  PROVE  /\ pc = "idle" /\ offset < Total /\ buffer # Null
         /\ \/ /\ rest' = c /\ Submit /\ end > 0 /\ offset + end + c <= Total
            \/ WriteFails
BY ShardAssumption DEF LiveInv, Drain, Fits, TypeOK, Over

LEMMA WriteStep == LiveInv /\ Write => LiveInv'
<1> SUFFICES ASSUME LiveInv, NEW c \in 1 .. BlockSize, Append(c) \/ Drain(c) PROVE LiveInv'
  BY DEF Write
<1>1. CASE Append(c)
  BY <1>1, AppendStep
<1>2. CASE Drain(c)
  <2>1. CASE rest' = c /\ Submit /\ end > 0 /\ offset + end + c <= Total
    <3>1. pc \in {"idle", "full"} /\ offset < Total /\ rest' \in Nat /\ rest' <= BlockSize
      BY <1>2, <2>1, DrainFacts, ShardAssumption
    <3> QED
      BY <2>1, <3>1, SubmitStep
  <2>2. CASE WriteFails
    BY <1>2, <2>2, DrainFacts, OverStep DEF WriteFails, bufVars, poolVars
  <2> QED
    BY <1>2, <2>1, <2>2, DrainFacts
<1> QED
  BY <1>1, <1>2

LEMMA FlushStep == LiveInv /\ Flush => LiveInv'
<1> SUFFICES ASSUME LiveInv, Flush PROVE LiveInv'
  OBVIOUS
<1>1. pc \in {"idle", "full"} /\ end > 0 /\ offset < Total /\ rest' = 0 /\ Submit
  BY DEF Flush
<1>2. offset + end + rest' <= Total /\ rest' <= BlockSize /\ rest' \in Nat
  BY <1>1, ShardAssumption DEF LiveInv, Fits, TypeOK, Over
<1> QED
  BY <1>1, <1>2, SubmitStep

LEMMA LiveStep == LiveInv /\ [Next]_vars => ShardInv'
<1> SUFFICES ASSUME LiveInv, [Next]_vars PROVE ShardInv'
  OBVIOUS
<1>1. CASE Write
  BY <1>1, WriteStep DEF ShardInv
<1>2. CASE Flush
  BY <1>2, FlushStep DEF ShardInv
<1>3. CASE WriterStep
  BY <1>3, RegisterStep, WaitPrevStep, WaitLastStep, GetBufferStep DEF WriterStep, ShardInv
<1>4. CASE StepFails
  BY <1>4, OverStep DEF StepFails, bufVars, poolVars, ShardInv
<1>5. CASE Deinit
  BY <1>5, DeinitStep
<1>6. ASSUME NEW f \in flight, TransferStep(f) \/ MoveFails(f) PROVE ShardInv'
  BY <1>6, MoveStep, MoveFailsStep, CallbackPutStep, CallbackSetStep DEF TransferStep, ShardInv
<1>7. ASSUME NEW b \in Blocks, RivalGet(b) \/ RivalPut(b) PROVE ShardInv'
  BY <1>7, RivalGetStep, RivalPutStep DEF ShardInv
<1>8. CASE UNCHANGED vars
  BY <1>8, StutterStep DEF ShardInv
<1> QED
  BY <1>1, <1>2, <1>3, <1>4, <1>5, <1>6, <1>7, <1>8 DEF Next

(* Nobody is left to write; the transfers, the callbacks and the other     *)
(* loads go on, with whatever blocks the callbacks put.                    *)
LEMMA OrphanStill == Orphaned /\ [Next]_vars => StillWriter
<1> SUFFICES ASSUME Orphaned, [Next]_vars PROVE StillWriter
  OBVIOUS
<1>1. ~(Write \/ Flush \/ WriterStep \/ StepFails \/ Deinit)
  BY DEF Orphaned, Write, Append, Drain, Flush, WriterStep, Register, WaitPrev, WaitLast,
         GetBuffer, StepFails, Deinit
<1>2. ASSUME NEW f \in flight, TransferStep(f) \/ MoveFails(f) PROVE StillWriter
  BY <1>2 DEF TransferStep, Move, MoveFails, CallbackPut, CallbackSet, StillWriter, bufVars
<1>3. ASSUME NEW b \in Blocks, RivalGet(b) \/ RivalPut(b) PROVE StillWriter
  BY <1>3 DEF RivalGet, RivalPut, StillWriter, bufVars
<1>4. CASE UNCHANGED vars
  BY <1>4 DEF vars, StillWriter, bufVars
<1> QED
  BY <1>1, <1>2, <1>3, <1>4 DEF Next

LEMMA OrphanStep == Orphaned /\ TypeOK /\ [Next]_vars => Orphaned' /\ TypeOK'
<1> SUFFICES ASSUME Orphaned, TypeOK, [Next]_vars PROVE Orphaned' /\ TypeOK'
  OBVIOUS
<1> USE ShardAssumption
<1>1. StillWriter /\ Orphaned'
  BY OrphanStill DEF Orphaned, StillWriter
<1>2. ASSUME NEW f \in flight, TransferStep(f) \/ MoveFails(f) PROVE TypeOK'
  <2>1. /\ f \in Transfers /\ [f EXCEPT !.res = "ok"] \in Transfers
        /\ [f EXCEPT !.res = "error"] \in Transfers /\ [f EXCEPT !.cb = "put"] \in Transfers
    BY DEF TypeOK, Transfers
  <2>2. CASE Move(f)
    <3>1. flight' \subseteq Transfers /\ UNCHANGED <<ctx, free, rival, mem>>
      BY <2>1, <2>2 DEF Move, TypeOK, poolVars
    <3>2. \A o \in 1 .. Total : f.off < o /\ o <= f.off + f.len =>
            mem[f.blk][o - f.off - 1] \in Nat
      <4>1. \A o \in 1 .. Total : f.off < o /\ o <= f.off + f.len => o - f.off - 1 \in 0 .. BlockSize - 1
        BY <2>1 DEF Transfers
      <4>2. mem[f.blk] \in [0 .. BlockSize - 1 -> Nat]
        BY <2>1 DEF Transfers, TypeOK
      <4> QED
        BY <4>1, <4>2
    <3>3. dev' \in [1 .. Total -> Nat]
      BY <2>2, <3>2 DEF Move, TypeOK
    <3> QED
      BY <1>1, <3>1, <3>3 DEF TypeOK, StillWriter
  <2>3. CASE MoveFails(f)
    BY <1>1, <2>1, <2>3 DEF MoveFails, TypeOK, StillWriter, poolVars
  <2>4. CASE CallbackPut(f)
    <3>1. flight' \subseteq Transfers /\ UNCHANGED <<ctx, rival, mem, dev>>
      BY <2>1, <2>4 DEF CallbackPut, TypeOK
    <3>2. free' \subseteq Blocks
      BY <2>4 DEF CallbackPut, Found, Orphaned, TypeOK
    <3> QED
      BY <1>1, <3>1, <3>2 DEF TypeOK, StillWriter
  <2>5. CASE CallbackSet(f)
    BY <1>1, <2>5 DEF CallbackSet, Orphaned, TypeOK, StillWriter, poolVars
  <2> QED
    BY <1>2, <2>2, <2>3, <2>4, <2>5 DEF TransferStep
<1>3. ASSUME NEW b \in Blocks, RivalGet(b) \/ RivalPut(b) PROVE TypeOK'
  <2>1. [i \in 0 .. BlockSize - 1 |-> 0] \in [0 .. BlockSize - 1 -> Nat]
    OBVIOUS
  <2>2. mem' \in [Blocks -> [0 .. BlockSize - 1 -> Nat]] /\ UNCHANGED <<ctx, flight, dev>>
    <3>1. CASE RivalGet(b)
      BY <2>1, <3>1 DEF RivalGet, TypeOK
    <3>2. CASE RivalPut(b)
      BY <3>2 DEF RivalPut, TypeOK
    <3> QED
      BY <1>3, <3>1, <3>2
  <2>3. free' \subseteq Blocks /\ rival' \subseteq Blocks
    BY <1>3 DEF RivalGet, RivalPut, TypeOK
  <2> QED
    BY <1>1, <2>2, <2>3 DEF TypeOK, StillWriter
<1>4. CASE UNCHANGED vars
  BY <1>1, <1>4 DEF vars, poolVars, TypeOK, StillWriter
<1>5. ~(Write \/ Flush \/ WriterStep \/ StepFails \/ Deinit)
  BY DEF Orphaned, Write, Append, Drain, Flush, WriterStep, Register, WaitPrev, WaitLast,
         GetBuffer, StepFails, Deinit
<1> QED
  BY <1>1, <1>2, <1>3, <1>4, <1>5 DEF Next

(* What the properties of a live writer rest on, and the types of any.     *)
THEOREM ShardInvariant == Spec => []ShardInv
<1>1. Init => ShardInv
  BY InitInv DEF ShardInv
<1>2. ShardInv /\ [Next]_vars => ShardInv'
  BY LiveStep, OrphanStep DEF ShardInv
<1> QED
  BY <1>1, <1>2, PTL DEF Spec

(* flushBuffered never submits a block or fills in a context that PJRT or  *)
(* a callback may still read, whatever the sizes and however many blocks,  *)
(* as long as the writer is not freed under the callback.                  *)
THEOREM ContextsAreKept == Spec => []ContextKept
<1>1. ShardInv => ContextKept
  BY DEF ShardInv, LiveInv, Turns, ContextKept, Over, Due
<1> QED
  BY <1>1, ShardInvariant, PTL

(* A block has one holder at a time: the pool, another load, the writer or *)
(* a transfer whose callback is still to come, until the writer is freed   *)
(* under a callback.                                                       *)
THEOREM BlocksHaveOneHolder == Spec => []OneHolder
<1>1. ShardInv => OneHolder
  BY DEF ShardInv, LiveInv, OneHolder
<1> QED
  BY <1>1, ShardInvariant, PTL

(* What PJRT copies to the device is the stream, each byte in its place,   *)
(* until the writer is freed under a callback.                             *)
THEOREM DeviceIsFaithful == Spec => []DeviceFaithful
<1>1. ShardInv => DeviceFaithful
  BY DEF ShardInv, LiveInv, DeviceFaithful
<1> QED
  BY <1>1, ShardInvariant, PTL

-----------------------------------------------------------------------------
(* The refinement                                                          *)

SameStream == UNCHANGED <<Accepted, Landed, Status>>
StreamStep == Stream!StreamNext \/ SameStream

LEMMA InitStream == Init => Stream!StreamInit
<1> SUFFICES ASSUME Init PROVE Stream!StreamInit
  OBVIOUS
<1>1. Accepted = 0
  BY ShardAssumption DEF Init, Accepted
<1>2. Landed = {}
  BY DEF Init, Landed
<1>3. Status = "open"
  BY ShardAssumption DEF Init, Status
<1> QED
  BY <1>1, <1>2, <1>3 DEF Stream!StreamInit

(* A writer that is at work is an open stream.                             *)
LEMMA AtWork ==
  ASSUME LiveInv, pc \notin {"idle", "failed", "freed"} \/ (pc = "idle" /\ offset < Total)
  PROVE  Status = "open" /\ buffer # Null /\ offset < Total
BY ShardAssumption DEF LiveInv, Orphaned, Fits, TypeOK, Status, Over

LEMMA AppendStreams ==
  ASSUME LiveInv, NEW c \in 1 .. BlockSize, Append(c)
  PROVE  StreamStep
<1> USE ShardAssumption
<1>1. pc = "idle" /\ offset < Total /\ offset + end + c <= Total /\ end' = end + c /\ rest = 0
      /\ UNCHANGED <<pc, buffer, offset, rest, dev>>
  BY DEF Append, poolVars, LiveInv, TypeOK, Fits
<1>2. Accepted' = Accepted + c /\ Accepted \in Nat /\ Accepted' <= Total
  BY <1>1, AtWork, SMTT(20) DEF Accepted, LiveInv, TypeOK
<1>3. Status = "open" /\ Status' = Status /\ Landed' = Landed
  BY <1>1, AtWork DEF Status, Landed, LiveInv
<1>4. Accepted' \in Accepted + 1 .. Total
  BY <1>2
<1> QED
  BY <1>3, <1>4 DEF StreamStep, Stream!StreamNext, Stream!Accept

LEMMA DrainStreams ==
  ASSUME LiveInv, NEW c \in 1 .. BlockSize, Drain(c)
  PROVE  StreamStep
<1> USE ShardAssumption
<1>1. pc = "idle" /\ offset < Total /\ rest = 0
  BY DrainFacts DEF LiveInv, Fits
<1>2. Status = "open" /\ buffer # Null
  BY <1>1, AtWork
<1>3. CASE rest' = c /\ Submit /\ offset + end + c <= Total
  <2>1. pc' = "register" /\ UNCHANGED <<buffer, end, offset, dev>>
    BY <1>3 DEF Submit, poolVars
  <2>2. Accepted' = Accepted + c /\ Accepted \in Nat /\ Accepted' <= Total
    BY <1>1, <1>2, <1>3, <2>1 DEF Accepted, LiveInv, TypeOK
  <2>3. Status' = "open" /\ Landed' = Landed
    BY <1>1, <2>1 DEF Status, Landed, LiveInv, TypeOK
  <2>4. Accepted' \in Accepted + 1 .. Total
    BY <2>2
  <2> QED
    BY <1>2, <2>3, <2>4 DEF StreamStep, Stream!StreamNext, Stream!Accept
<1>4. CASE WriteFails
  <2>1. Status' = "failed" /\ Landed' = Landed /\ Accepted' = Accepted
    BY <1>4 DEF WriteFails, bufVars, Status, Landed, Accepted
  <2> QED
    BY <1>2, <2>1 DEF StreamStep, Stream!StreamNext, Stream!Fail
<1> QED
  BY <1>3, <1>4, DrainFacts

(* Giving up is the stream's failure.                                      *)
LEMMA FailStreams ==
  ASSUME Status = "open", pc' = "failed", Accepted' = Accepted, dev' = dev
  PROVE  StreamStep
<1>1. Status' = "failed" /\ Landed' = Landed
  BY DEF Status, Landed
<1> QED
  BY <1>1 DEF StreamStep, Stream!StreamNext, Stream!Fail

LEMMA QuietStreams ==
  ASSUME Status' = Status, Accepted' = Accepted, dev' = dev
  PROVE  StreamStep
BY DEF StreamStep, SameStream, Landed

LEMMA WriterStreams ==
  ASSUME LiveInv, Flush \/ WriterStep \/ StepFails \/ Deinit
  PROVE  StreamStep
<1> USE ShardAssumption
<1>1. CASE Flush
  <2>1. pc \in {"idle", "full"} /\ offset < Total /\ rest = 0 /\ rest' = 0 /\ pc' = "register"
        /\ UNCHANGED <<buffer, end, offset, dev>>
    BY <1>1 DEF Flush, Submit, poolVars, LiveInv, Fits
  <2>2. Status' = Status /\ Accepted' = Accepted
    BY <2>1, AtWork DEF Status, Accepted, LiveInv, TypeOK
  <2> QED
    BY <2>1, <2>2, QuietStreams
<1>2. CASE Register
  <2>1. pc = "register" /\ pc' = "waitPrev" /\ UNCHANGED <<buffer, end, rest, offset, dev>>
    BY <1>2 DEF Register, bufVars
  <2> QED
    BY <2>1, QuietStreams DEF Status, Accepted
<1>3. CASE WaitPrev
  <2>1. /\ pc = "waitPrev" /\ pc' \in {"failed", "waitLast", "getBuf"}
        /\ UNCHANGED <<buffer, end, rest, offset, dev>>
    BY <1>3 DEF WaitPrev, AfterPrev, bufVars
  <2>2. Status = "open" /\ Accepted' = Accepted /\ (pc' # "failed" => Status' = Status)
    BY <2>1, AtWork DEF Status, Accepted
  <2> QED
    BY <2>1, <2>2, FailStreams, QuietStreams
<1>4. CASE WaitLast
  <2>1. /\ pc = "waitLast" /\ buffer' = Null /\ dev' = dev
        /\ \/ ctx[flip].err /\ pc' = "failed" /\ offset' = offset
           \/ ~ctx[flip].err /\ pc' = "idle" /\ offset' = offset + end
    BY <1>4 DEF WaitLast, Failing
  <2>2. Status = "open" /\ Accepted = Total /\ Accepted' = Total /\ offset + end = Total
    <3>1. Status = "open" /\ buffer # Null
      BY <2>1, AtWork
    <3>2. offset + end = Total /\ rest = 0
      BY <1>4, WaitLastFacts
    <3> QED
      BY <2>1, <3>1, <3>2 DEF Accepted
  <2>3. CASE ~ctx[flip].err
    <3>1. Status' = "done"
      BY <2>1, <2>2, <2>3 DEF Status
    <3>2. Landed = 1 .. Total /\ Landed' = Landed
      BY <1>4, <2>1, <2>3, WaitLastFacts DEF Landed
    <3> QED
      BY <2>2, <3>1, <3>2 DEF StreamStep, Stream!StreamNext, Stream!Finish
  <2> QED
    BY <2>1, <2>2, <2>3, FailStreams
<1>5. CASE GetBuffer
  <2>1. /\ pc = "getBuf" /\ buffer' \in Blocks /\ end' = rest /\ rest' = 0
        /\ offset' = offset + end /\ pc' \in {"full", "idle"} /\ dev' = dev
    BY <1>5 DEF GetBuffer, LiveInv, TypeOK
  <2>2. Status = "open" /\ buffer # Null /\ offset + end < Total
    BY <2>1, AtWork DEF LiveInv, Fits
  <2>3. Status' = "open" /\ Accepted' = Accepted
    BY <2>1, <2>2 DEF Status, Accepted, LiveInv, TypeOK
  <2> QED
    BY <2>1, <2>2, <2>3, QuietStreams
<1>6. CASE StepFails
  BY <1>6, AtWork, FailStreams DEF StepFails, bufVars, Accepted
<1>7. CASE Deinit
  <2>1. /\ pc' \in {"freed", "orphaned"} /\ UNCHANGED <<buffer, end, rest, offset, dev>>
        /\ (pc = "idle" /\ offset = Total) \/ (pc = "failed" /\ offset < Total)
        /\ pc = "idle" => pc' = "freed"
    BY <1>7 DEF Deinit, Due, bufVars, LiveInv, Fits
  <2>2. Accepted' = Accepted /\ Landed' = Landed
    BY <2>1 DEF Accepted, Landed
  <2>3. CASE pc' = "freed"
    BY <2>1, <2>3, QuietStreams DEF Status, Accepted, Orphaned, LiveInv
  <2>4. CASE pc' = "orphaned"
    <3>1. Status = "failed" /\ Status' = "lost"
      BY <2>1, <2>4 DEF Status, Orphaned
    <3> QED
      BY <2>2, <3>1 DEF StreamStep, Stream!StreamNext, Stream!Lose
  <2> QED
    BY <2>1, <2>3, <2>4
<1> QED
  BY <1>1, <1>2, <1>3, <1>4, <1>5, <1>6, <1>7 DEF WriterStep

(* A transfer lands its span, all of it and only it.                       *)
LEMMA MoveStreams ==
  ASSUME LiveInv, NEW f \in flight, Move(f)
  PROVE  StreamStep
<1> USE ShardAssumption
<1>1. /\ f.res = "moving" /\ StillWriter
      /\ dev' = [o \in 1 .. Total |->
                   IF f.off < o /\ o <= f.off + f.len THEN mem[f.blk][o - f.off - 1] ELSE dev[o]]
  BY DEF Move, StillWriter, bufVars
<1>2. f.off \in Nat /\ f.len \in Nat /\ f.len > 0 /\ f.off + f.len <= Accepted /\ f.off + f.len <= Total
  BY DEF LiveInv, TypeOK, Transfers, Contents
<1>3. \A o \in Span(f) : o \in 1 .. Total /\ dev[o] = 0 /\ dev'[o] = o
  <2>1. ASSUME NEW o \in Span(f) PROVE o \in 1 .. Total /\ dev[o] = 0 /\ dev'[o] = o
    <3>1. o \in 1 .. Total /\ o - f.off - 1 \in 0 .. f.len - 1 /\ f.off < o /\ o <= f.off + f.len
      BY <1>2, <2>1 DEF Span
    <3>2. mem[f.blk][o - f.off - 1] = f.off + (o - f.off - 1) + 1
      BY <1>1, <3>1 DEF LiveInv, Contents
    <3>3. dev[o] = 0
      BY <1>1, <2>1 DEF LiveInv, NothingTwice
    <3> QED
      BY <1>1, <1>2, <3>1, <3>2, <3>3
  <2> QED
    BY <2>1
<1>4. \A o \in 1 .. Total : o \notin Span(f) => dev'[o] = dev[o]
  BY <1>1, <1>2 DEF Span
<1>5. Span(f) \cap Landed = {} /\ Landed' = Landed \cup Span(f)
  BY <1>3, <1>4 DEF Landed
<1>6. Status \in {"open", "failed"} /\ Status' = Status /\ Accepted' = Accepted
  BY <1>1 DEF LiveInv, Fits, Status, Accepted, StillWriter
<1>7. f.off + 1 \in 1 .. Accepted /\ f.off + f.len \in 1 .. Accepted
  BY <1>2, SMTT(20) DEF Accepted, LiveInv, TypeOK
<1> QED
  BY <1>5, <1>6, <1>7 DEF StreamStep, Stream!StreamNext, Stream!Land, Span

LEMMA StepStreams ==
  ASSUME ShardInv, [Next]_vars
  PROVE  StreamStep
<1>1. ASSUME StillWriter, dev' = dev PROVE StreamStep
  BY <1>1, QuietStreams DEF StillWriter, Status, Accepted, Orphaned
<1>7. CASE Orphaned
  <2>1. StillWriter
    BY <1>7, OrphanStill
  <2>2. Status = "lost" /\ Status' = "lost" /\ Accepted' = Accepted /\ Landed' \in SUBSET (1 .. Total)
    BY <1>7, <2>1 DEF StillWriter, Status, Orphaned, Accepted, Landed
  <2> QED
    BY <2>2 DEF StreamStep, Stream!StreamNext, Stream!Stray
<1> SUFFICES ASSUME LiveInv PROVE StreamStep
  BY <1>7 DEF ShardInv
<1>2. CASE Write
  BY <1>2, AppendStreams, DrainStreams DEF Write
<1>3. CASE Flush \/ WriterStep \/ StepFails \/ Deinit
  BY <1>3, WriterStreams
<1>4. ASSUME NEW f \in flight, TransferStep(f) \/ MoveFails(f) PROVE StreamStep
  BY <1>1, <1>4, MoveStreams DEF TransferStep, MoveFails, CallbackPut, CallbackSet, StillWriter, bufVars
<1>5. ASSUME NEW b \in Blocks, RivalGet(b) \/ RivalPut(b) PROVE StreamStep
  BY <1>1, <1>5 DEF RivalGet, RivalPut, StillWriter, bufVars
<1>6. CASE UNCHANGED vars
  BY <1>1, <1>6 DEF vars, StillWriter
<1> QED
  BY <1>2, <1>3, <1>4, <1>5, <1>6 DEF Next

(* DirectShardWriter implements DeviceStream: bytes are accepted in order, *)
(* land once, and a shard that is complete is on the device; a writer      *)
(* freed under a callback is a lost stream.                                *)
THEOREM WriterImplementsStream == Spec => ImplementsStream
<1>1. ShardInv /\ [Next]_vars => [Stream!StreamNext]_(Stream!streamVars)
  BY StepStreams DEF StreamStep, SameStream, Stream!streamVars
<1> QED
  BY <1>1, InitStream, ShardInvariant, PTL DEF Spec, ImplementsStream, Stream!StreamSpec

=============================================================================
