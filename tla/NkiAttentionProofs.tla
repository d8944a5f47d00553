------------------------- MODULE NkiAttentionProofs -------------------------
(***************************************************************************)
(* The attention kernels are right for every tile size, sequence length,   *)
(* number of heads and score.  The inductive invariant says of a row       *)
(* whose tiles are partly done what StoresAttention says at the end: the   *)
(* weights are those of a softmax over the keys of the tiles done so far,  *)
(* whichever those are.                                                    *)
(***************************************************************************)
EXTENDS NkiAttention, TLAPS

(***************************************************************************)
(* Arithmetic of the tiles.                                                *)
(***************************************************************************)
\* A quotient bounded from above, and from below.
LEMMA QuotientLow ==
  ASSUME NEW a \in Nat, NEW d \in Nat \ {0}, NEW t \in Nat, t <= a \div d
  PROVE  t * d <= a
<1>1. (a \div d) * d <= a  BY Z3
<1>2. t * d <= (a \div d) * d  BY Z3
<1> QED BY <1>1, <1>2

LEMMA QuotientHigh ==
  ASSUME NEW a \in Nat, NEW d \in Nat \ {0}, NEW t \in Nat, a < t * d
  PROVE  a \div d < t
<1>1. (a \div d) * d <= a  BY Z3
<1>2. a \div d \in Nat  BY Z3
<1>3. SUFFICES ASSUME t <= a \div d PROVE FALSE  BY <1>2
<1>4. t * d <= (a \div d) * d  BY <1>2, <1>3, Z3
<1> QED BY <1>1, <1>4, <1>2

\* Products grow with their factors.
LEMMA Grows ==
  ASSUME NEW a \in Nat, NEW b \in Nat, NEW c \in Nat, a <= b
  PROVE  a * c <= b * c /\ a * c \in Nat /\ b * c \in Nat
<1>1. PICK x \in Nat : b = a + x  BY Z3
<1>2. b * c = a * c + x * c  BY <1>1, Z3
<1>3. a * c \in Nat /\ x * c \in Nat  BY <1>1, Z3
<1> QED BY <1>2, <1>3

LEMMA Cancels ==
  ASSUME NEW a \in Nat, NEW b \in Nat, NEW c \in Nat \ {0}, a * c = b * c
  PROVE  a = b
BY Z3

LEMMA Associates ==
  ASSUME NEW a \in Nat, NEW b \in Nat, NEW c \in Nat
  PROVE  (a * b) * c = a * (b * c)
BY Z3

\* What divides is a factor.
LEMMA Factor ==
  ASSUME NEW a \in Nat, NEW d \in Nat \ {0}, a % d = 0
  PROVE  /\ a \div d \in Nat
         /\ a = (a \div d) * d
BY Z3

LEMMA InQuotient ==
  ASSUME NEW a \in Nat, NEW d \in Nat \ {0}
  PROVE  /\ a \div d \in Nat
         /\ (a \div d) * d <= a
         /\ a <= (a \div d) * d + d - 1
BY Z3

\* Two tiles have no key in common.
LEMMA TilesApart ==
  ASSUME block_k \in Nat \ {0}, NEW t \in Nat, NEW u \in Nat, t # u
  PROVE  Tile(t) \cap Tile(u) = {}
<1>1. \A i, j \in Nat : i < j => i * block_k + block_k <= j * block_k
  <2> SUFFICES ASSUME NEW i \in Nat, NEW j \in Nat, i < j PROVE i * block_k + block_k <= j * block_k  OBVIOUS
  <2>1. (i + 1) * block_k <= j * block_k  BY Z3
  <2> QED BY <2>1
<1>2. t * block_k \in Nat /\ u * block_k \in Nat  OBVIOUS
<1>3. CASE t < u  BY <1>1, <1>2, <1>3 DEF Tile, KStart
<1>4. CASE u < t  BY <1>1, <1>2, <1>4 DEF Tile, KStart
<1> QED BY <1>3, <1>4

(***************************************************************************)
(* The inductive invariant.                                                *)
(***************************************************************************)
Seen == Active(block) \ tiles
Done == {k \in Attended : \E t \in Seen : k \in Tile(t)}

\* The weight of a key over the keys of S, relative to m
Weight(S, m) == [k \in Keys |-> IF k \in S THEN [n |-> 1, e |-> score[k] - m] ELSE Zero]

\* What the assertions of the kernel leave
Tiled ==
  stage \in {"heads", "first", "tiles"} =>
    /\ block_k \in Nat \ {0} /\ Divides(PMax, seq_len)
    /\ Divides(block_k, seq_len) /\ Divides(PMax, block_k)

\* The weights so far, relative to the maximum so far
PartSoftmax ==
  stage = "tiles" =>
    /\ sum_row = Weight(Done, row_max) /\ running_out = Weight(Done, row_max)
    /\ \A k \in Done : score[k] <= row_max
    /\ IF Done = {} THEN Seen = {} /\ row_max = NegInf
       ELSE \E k \in Done : row_max = score[k]

Stages ==
  /\ stage = "first" => mode = "decode"
  /\ stage = "tiles" /\ mode = "decode" => 0 \notin tiles

IInv == TypeOK /\ Tiled /\ PartSoftmax /\ Stages

(***************************************************************************)
(* What the tiles of a block are.                                          *)
(***************************************************************************)
LEMMA LaunchFacts ==
  ASSUME TypeOK
  PROVE  /\ seq_len \in Nat \ {0} /\ token \in Nat /\ token < seq_len
         /\ PMax \in Nat \ {0} /\ KvHeads \in Nat \ {0} /\ HeadsPerKv \in Nat \ {0}
         /\ Keys \subseteq Nat /\ 0 \in Keys
         /\ Range \in Nat /\ NegInf \in Int /\ NegInf < -3 * Range
         /\ \A s \in Scores : s \in Int /\ -Range <= s /\ s <= Range
BY TileAssumption, SeqLenAssumption, HeadAssumption, ScoreAssumption, DepthAssumption DEF TypeOK, Keys, NegInf

\* Every tile that is done is a tile of keys, it starts with a key the row of a
\* prefill attends to, and no key it attends to is in a later tile.
LEMMA ActiveTiles ==
  ASSUME TypeOK, Tiled, Stages, stage \in {"first", "tiles"}
  PROVE  /\ Active(block) \subseteq Nat
         /\ \A t \in Active(block) : Tile(t) \subseteq Keys
         /\ \A t \in Active(block) : KStart(t) \in Nat /\ KStart(t) \in Tile(t)
         /\ mode = "prefill" => \A t \in Active(block) : KStart(t) \in Attended
         /\ \A k \in Attended : \E t \in Active(block) : k \in Tile(t)
<1> DEFINE B == block_k
           N == seq_len \div B
           R == B \div PMax
<1>1. /\ B \in Nat \ {0} /\ seq_len \in Nat \ {0} /\ PMax \in Nat \ {0}
      /\ seq_len % B = 0 /\ B % PMax = 0 /\ seq_len % PMax = 0
  BY LaunchFacts DEF Tiled, Divides
<1>2. N \in Nat /\ seq_len = N * B
  BY <1>1, Factor
<1>3. R \in Nat /\ B = R * PMax
  BY <1>1, Factor
<1>4. R \in Nat \ {0}
  BY <1>1, <1>3
<1>5. N # 0
  BY <1>1, <1>2
<1>6. \A t \in Nat : t < N => t * B \in Nat /\ t * B + B <= seq_len
  <2> SUFFICES ASSUME NEW t \in Nat, t < N PROVE t * B \in Nat /\ t * B + B <= seq_len  OBVIOUS
  <2>1. (t + 1) * B <= N * B  BY <1>1, <1>2, Grows
  <2>2. (t + 1) * B = t * B + B  BY <1>1, Z3
  <2>3. t * B \in Nat  BY <1>1, Grows
  <2> QED BY <2>1, <2>2, <2>3, <1>2
<1>7. /\ Active(block) \subseteq Nat
      /\ \A t \in Active(block) : t < N
  <2>1. CASE mode = "decode"
    BY <2>1, <1>2 DEF Active, NumKvBlocks
  <2>2. CASE mode = "prefill"
    <3> DEFINE q == block.q_block
               P == seq_len \div PMax
    <3>1. q \in Nat /\ q <= P - 1 /\ P \in Nat /\ seq_len = P * PMax
      <4>1. P \in Nat /\ seq_len = P * PMax  BY <1>1, Factor
      <4> QED BY <4>1, <2>2 DEF TypeOK, Blocks
    <3>2. P = N * R
      <4> HIDE DEF N, R, P
      <4>1. (N * R) * PMax = N * B  BY <1>1, <1>2, <1>3, Associates
      <4>2. N * R \in Nat  BY <1>2, <1>3, Grows
      <4> QED BY <4>1, <4>2, <3>1, <1>1, <1>2, Cancels
    <3>3. q \div R < N
      BY <3>1, <3>2, <1>2, <1>4, QuotientHigh
    <3>4. Active(block) = 0 .. q \div R
      BY <2>2 DEF Active
    <3>5. q \div R \in Nat
      BY <3>1, <1>4, InQuotient
    <3> QED BY <3>3, <3>4, <3>5, <1>2
  <2> QED BY <2>1, <2>2 DEF TypeOK
<1>8. ASSUME NEW t \in Active(block)
      PROVE  Tile(t) \subseteq Keys /\ KStart(t) \in Nat /\ KStart(t) \in Tile(t)
  <2>1. t \in Nat /\ t * B \in Nat /\ t * B + B <= seq_len
    BY <1>6, <1>7
  <2> QED BY <2>1, <1>1 DEF Tile, KStart, Keys
<1>9. ASSUME mode = "prefill", NEW t \in Active(block)
      PROVE  KStart(t) \in Attended
  <2> DEFINE q == block.q_block
  <2>1. q \in Nat /\ t \in Nat /\ t <= q \div R
    <3>1. q \in Nat  BY <1>9, <1>1 DEF TypeOK, Blocks
    <3>2. q \div R \in Nat  BY <3>1, <1>4, InQuotient
    <3> QED BY <3>1, <3>2, <1>9 DEF Active
  <2>2. t * R <= q
    BY <2>1, <1>4, QuotientLow
  <2>3. (t * R) * PMax <= q * PMax
    <3>1. t * R \in Nat  BY <2>1, <1>4, Grows
    <3> HIDE DEF R
    <3> QED BY <2>2, <3>1, <2>1, <1>1, Grows
  <2>4. t * B <= q * PMax
    <3>1. (t * R) * PMax = t * B  BY <2>1, <1>1, <1>3, Z3
    <3> QED BY <2>3, <3>1
  <2>5. KStart(t) \in Keys
    BY <1>8
  <2>6. q * PMax \in Nat /\ row \in Nat
    BY <2>1, <1>1, Z3 DEF TypeOK
  <2> QED BY <2>4, <2>5, <2>6, <1>9 DEF Attended, QStart, KStart, Keys
<1>10. ASSUME NEW k \in Attended
       PROVE  \E t \in Active(block) : k \in Tile(t)
  <2> DEFINE t == k \div B
  <2>1. k \in Nat /\ k < seq_len
    BY LaunchFacts DEF Attended, Keys
  <2>2. t \in Nat /\ k \in Tile(t)
    <3>1. t \in Nat /\ t * B <= k /\ k <= t * B + B - 1  BY <2>1, <1>1, InQuotient
    <3>2. t * B \in Nat  BY <3>1, <1>1, Grows
    <3> HIDE DEF t
    <3> QED BY <3>1, <3>2, <2>1, <1>1 DEF Tile, KStart
  <2>3. CASE mode = "decode"
    <3>1. t < N  BY <2>1, <1>1, <1>2, QuotientHigh
    <3> QED BY <3>1, <2>2, <2>3, <1>2 DEF Active, NumKvBlocks
  <2>4. CASE mode = "prefill"
    <3> DEFINE q == block.q_block
    <3>1. q \in Nat /\ row \in Nat /\ row < PMax /\ k <= q * PMax + row
      BY <2>4, <1>1 DEF TypeOK, Blocks, Rows, Attended, QStart
    <3> DEFINE T == q \div R
    <3>2. T \in Nat /\ q <= T * R + R - 1
      BY <3>1, <1>4, InQuotient
    <3>3. (q + 1) * PMax <= (T * R + R) * PMax
      <4>1. T * R \in Nat  BY <3>2, <1>4, Grows
      <4> HIDE DEF R, T
      <4>2. q + 1 <= T * R + R  BY <3>1, <3>2, <4>1, <1>4
      <4>3. q + 1 \in Nat /\ T * R + R \in Nat  BY <3>1, <4>1, <1>4
      <4> QED BY <4>2, <4>3, <1>1, Grows
    <3>4. (T * R + R) * PMax = (T + 1) * B
      BY <3>2, <1>1, <1>3, Z3
    <3>5. k < (q + 1) * PMax
      <4>1. (q + 1) * PMax = q * PMax + PMax  BY <3>1, <1>1, Z3
      <4>2. q * PMax \in Nat  BY <3>1, <1>1, Z3
      <4> QED BY <4>1, <4>2, <3>1, <2>1, <1>1
    <3>6. k < (T + 1) * B
      <4>1. (q + 1) * PMax \in Nat /\ (T + 1) * B \in Nat  BY <3>1, <3>2, <1>1, Z3
      <4> QED BY <3>3, <3>4, <3>5, <4>1, <2>1
    <3>7. t < T + 1
      <4> DEFINE U == T + 1
      <4>1. U \in Nat /\ k < U * B  BY <3>6, <3>2
      <4> HIDE DEF U
      <4>2. k \div B < U  BY <4>1, <2>1, <1>1, QuotientHigh
      <4> QED BY <4>2 DEF U
    <3>8. Active(block) = 0 .. T
      BY <2>4 DEF Active
    <3> QED BY <3>7, <3>8, <3>2, <2>2
  <2> QED BY <2>3, <2>4 DEF TypeOK
<1> QED BY <1>7, <1>8, <1>9, <1>10

\* Decode has a first tile.
LEMMA FirstIsActive ==
  ASSUME TypeOK, Tiled, stage \in {"first", "tiles"}, mode = "decode", NEW t \in Nat, t \in Active(block)
  PROVE  0 \in Active(block)
<1>1. t \in 0 .. NumKvBlocks - 1  BY DEF Active
<1>2. NumKvBlocks \in Int  BY LaunchFacts, Factor DEF NumKvBlocks, Tiled, Divides
<1>3. 0 \in 0 .. NumKvBlocks - 1  BY <1>1, <1>2
<1> QED BY <1>3 DEF Active

\* In a tile a row sees exactly the keys it attends to.
LEMMA MaskIsAttended ==
  ASSUME TypeOK, Tiled, Stages, stage \in {"first", "tiles"},
         NEW t \in Active(block), NEW k \in Tile(t)
  PROVE  /\ Masked(t, k) = IF k \in Attended THEN score[k] ELSE NegInf
         /\ k \in Keys
<1>1. k \in Keys /\ KStart(t) \in Nat
  BY ActiveTiles
<1>2. CASE mode = "decode"
  BY <1>1, <1>2 DEF Masked, Valid, Attended
<1>3. CASE mode = "prefill"
  <2>1. block.q_block \in Nat /\ PMax \in Nat /\ row \in Nat /\ k \in Nat
    BY <1>1, <1>3, LaunchFacts DEF TypeOK, Blocks
  <2>2. QStart \in Nat
    BY <2>1, <1>3, Grows DEF QStart
  <2>3. Valid(t, k) <=> k <= QStart + row
    BY <2>1, <2>2, <1>1, <1>3 DEF Valid
  <2> QED BY <2>3, <1>1, <1>3 DEF Masked, Attended
<1> QED BY <1>2, <1>3 DEF TypeOK

\* The columns that are multiplied into the output are all the columns of the tile.
LEMMA AllValueTiles ==
  ASSUME TypeOK, Tiled, stage \in {"first", "tiles"}
  PROVE  \A t : ValueTile(t) = Tile(t)
<1>1. (block_k \div PMax) * PMax = block_k
  BY LaunchFacts, Factor DEF Tiled, Divides
<1> QED BY <1>1 DEF ValueTile, Tile

\* The exponential of a difference of scores is there, that of a masked key is not.
LEMMA Exponentials ==
  ASSUME TypeOK, NEW s \in Scores
  PROVE  /\ \A x \in Scores : Exp(x - s) = [n |-> 1, e |-> x - s]
         /\ Exp(NegInf - s) = Zero
<1>1. s \in Int /\ -Range <= s /\ s <= Range /\ Range \in Nat /\ NegInf \in Int /\ NegInf < -3 * Range
  BY LaunchFacts
<1>2. ASSUME NEW x \in Scores PROVE Exp(x - s) = [n |-> 1, e |-> x - s]
  <2>1. x \in Int /\ -Range <= x /\ x <= Range  BY LaunchFacts
  <2> QED BY <2>1, <1>1 DEF Exp
<1>3. Exp(NegInf - s) = Zero
  BY <1>1 DEF Exp
<1> QED BY <1>2, <1>3

(***************************************************************************)
(* One more tile.                                                          *)
(***************************************************************************)
\* Adding a tile to the weights of the keys before it gives the weights of both.
LEMMA AddTile ==
  ASSUME TypeOK, Tiled, Stages, stage \in {"first", "tiles"},
         NEW t \in Active(block), NEW S \in SUBSET Attended, S \cap Tile(t) = {},
         NEW old \in Int, NEW m \in Scores, S # {} => old \in Scores
  PROVE  Plus(Scaled(Weight(S, old), old - m), Terms(Tile(t), t, m))
           = Weight(S \cup (Tile(t) \cap Attended), m)
<1> DEFINE a == Scaled(Weight(S, old), old - m)
           b == Terms(Tile(t), t, m)
           w == Weight(S \cup (Tile(t) \cap Attended), m)
<1>1. \A s \in Scores : s \in Int
  BY LaunchFacts
<1>2. score \in [Keys -> Scores] /\ S \subseteq Keys
  BY DEF TypeOK, Attended
<1>3. ASSUME NEW k \in Keys
      PROVE  Plus(a, b)[k] = w[k]
  <2>0. Plus(a, b)[k] = [n |-> a[k].n + b[k].n, e |-> IF a[k].n > 0 THEN a[k].e ELSE b[k].e]
    BY DEF Plus
  <2>1. score[k] \in Scores /\ score[k] \in Int /\ m \in Int
    BY <1>1, <1>2
  <2>2. CASE k \in Tile(t)
    <3>1. a[k] = Zero
      BY <2>2 DEF Scaled, Weight, Zero
    <3>2. b[k] = IF k \in Attended THEN [n |-> 1, e |-> score[k] - m] ELSE Zero
      <4>1. b[k] = Exp(Masked(t, k) - m)  BY <2>2 DEF Terms
      <4> QED BY <4>1, <2>2, <2>1, MaskIsAttended, Exponentials
    <3>3. w[k] = b[k]
      BY <3>2, <2>2 DEF Weight
    <3> QED BY <2>0, <3>1, <3>2, <3>3, <2>1 DEF Zero
  <2>3. CASE k \notin Tile(t) /\ k \in S
    <3>1. b[k] = Zero
      BY <2>3 DEF Terms
    <3>2. Weight(S, old)[k] = [n |-> 1, e |-> score[k] - old]
      BY <2>3 DEF Weight
    <3>3. Exp(old - m) # Zero
      <4>1. Exp(old - m) = [n |-> 1, e |-> old - m]  BY <2>3, Exponentials
      <4> QED BY <4>1 DEF Zero
    <3>4. a[k] = [n |-> 1, e |-> score[k] - m]
      <4>1. a[k] = [Weight(S, old)[k] EXCEPT !.e = @ + (old - m)]  BY <3>2, <3>3 DEF Scaled
      <4>2. (score[k] - old) + (old - m) = score[k] - m  BY <2>1
      <4> QED BY <4>1, <4>2, <3>2
    <3> QED BY <2>0, <3>1, <3>4, <2>3 DEF Zero, Weight
  <2>4. CASE k \notin Tile(t) /\ k \notin S
    <3>1. a[k] = Zero /\ b[k] = Zero /\ w[k] = Zero
      BY <2>4 DEF Scaled, Weight, Terms, Zero
    <3> QED BY <2>0, <3>1 DEF Zero
  <2> QED BY <2>2, <2>3, <2>4
<1>4. /\ Plus(a, b) = [k \in Keys |-> Plus(a, b)[k]]
      /\ w = [k \in Keys |-> w[k]]
  BY DEF Plus, Weight
<1> QED BY <1>3, <1>4

LEMMA FirstTerms ==
  ASSUME TypeOK, Tiled, Stages, stage \in {"first", "tiles"},
         NEW t \in Active(block), NEW m \in Scores
  PROVE  Terms(Tile(t), t, m) = Weight(Tile(t) \cap Attended, m)
<1>1. ASSUME NEW k \in Keys
      PROVE  (IF k \in Tile(t) THEN Exp(Masked(t, k) - m) ELSE Zero)
               = IF k \in Tile(t) \cap Attended THEN [n |-> 1, e |-> score[k] - m] ELSE Zero
  <2>1. score[k] \in Scores
    BY DEF TypeOK
  <2> QED BY <2>1, MaskIsAttended, Exponentials
<1> QED BY <1>1 DEF Terms, Weight

\* The maximum over a tile in which the row attends to a key is the largest score
\* of such a key.
LEMMA TileMax ==
  ASSUME TypeOK, Tiled, Stages, stage \in {"first", "tiles"},
         NEW t \in Active(block), NEW m \in Scores \cup {NegInf}, IsTileMax(m, t)
  PROVE  /\ \A k \in Tile(t) \cap Attended : score[k] <= m
         /\ m \in Scores => \E k \in Tile(t) \cap Attended : score[k] = m
         /\ Tile(t) \cap Attended # {} => m \in Scores
<1>1. \A s \in Scores : s \in Int /\ -Range <= s
  BY LaunchFacts
<1>2. Range \in Nat /\ NegInf \in Int /\ NegInf < -3 * Range
  BY LaunchFacts
<1>3. \A k \in Tile(t) \cap Attended : score[k] \in Scores /\ score[k] <= m
  BY MaskIsAttended DEF IsTileMax, TypeOK
<1>4. m \in Scores => m # NegInf
  BY <1>1, <1>2
<1>5. m \in Scores => \E k \in Tile(t) \cap Attended : score[k] = m
  BY <1>4, MaskIsAttended DEF IsTileMax
<1>6. Tile(t) \cap Attended # {} => m \in Scores
  BY <1>1, <1>2, <1>3
<1> QED BY <1>3, <1>5, <1>6

LEMMA WeightType ==
  ASSUME TypeOK, score \in [Keys -> Scores], NEW S, NEW m \in Int
  PROVE  Weight(S, m) \in [Keys -> Term]
<1>1. \A k \in Keys : score[k] \in Int
  BY LaunchFacts
<1> QED BY <1>1 DEF Weight, Term, Zero

(***************************************************************************)
(* The steps.                                                              *)
(***************************************************************************)
LEMMA InitInv == Init => IInv
<1> SUFFICES ASSUME Init PROVE IInv  OBVIOUS
<1>1. seq_len \in Nat \ {0}
  BY SeqLenAssumption DEF Init
<1>2. TypeOK
  BY <1>1 DEF Init, TypeOK, Keys
<1> QED BY <1>2 DEF Init, IInv, Tiled, PartSoftmax, Stages

LEMMA LaunchStep == IInv /\ Launch => IInv'
<1> SUFFICES ASSUME IInv, Launch PROVE IInv'  OBVIOUS
<1>1. TypeOK /\ seq_len \in Nat \ {0}
  BY LaunchFacts DEF IInv
<1>2. stage' \in {"heads", "refused"} /\ block_k' \in Nat \ {0}
  BY <1>1 DEF Launch
<1>3. Keys' = Keys
  BY DEF Launch, Keys
<1>4. stage' = "heads" => left' = Blocks(mode, seq_len)
  BY <1>2 DEF Launch
<1>5. TypeOK'
  BY <1>1, <1>2, <1>3, <1>4 DEF Launch, TypeOK, query, buffers, Blocks
<1>6. Tiled'
  BY <1>1, <1>2 DEF Launch, Tiled
<1> QED BY <1>2, <1>5, <1>6 DEF IInv, PartSoftmax, Stages

LEMMA LoadQueriesStep == IInv /\ LoadQueries => IInv'
<1> SUFFICES ASSUME IInv, LoadQueries PROVE IInv'  OBVIOUS
<1>0. TypeOK /\ Tiled
  BY DEF IInv
<1>1. /\ mode' = mode /\ seq_len' = seq_len /\ block_k' = block_k /\ token' = token
      /\ left' = left /\ stage = "heads" /\ block' \in left
  BY DEF LoadQueries, launch
<1>2. Keys' = Keys /\ Rows' = Rows /\ Active(block)' = Active(block')
  BY <1>1 DEF Keys, Rows, Active, NumKvBlocks
<1>3. Tiled'
  BY <1>0, <1>1 DEF Tiled
<1>4. row' \in Rows /\ row' \in Nat
  BY <1>0, LaunchFacts DEF LoadQueries, Rows
<1>5. block' \in left' /\ left' \subseteq Blocks(mode', seq_len') /\ score' \in [Keys -> Scores]
  BY <1>0, <1>1 DEF TypeOK, LoadQueries
<1>6. CASE mode = "decode"
  <2>1. stage' = "first" /\ tiles' = {} /\ UNCHANGED <<row_max, sum_row, running_out>>
    BY <1>6 DEF LoadQueries, buffers
  <2>2. TypeOK'
    BY <2>1, <1>0, <1>1, <1>2, <1>4, <1>5 DEF TypeOK, Blocks
  <2> QED BY <2>1, <2>2, <1>1, <1>3, <1>6 DEF IInv, PartSoftmax, Stages
<1>7. CASE mode = "prefill"
  <2>1. /\ stage' = "tiles" /\ tiles' = Active(block') /\ row_max' = NegInf
        /\ sum_row' = [k \in Keys |-> Zero] /\ running_out' = [k \in Keys |-> Zero]
    BY <1>7 DEF LoadQueries
  <2>2. TypeOK'
    <3>1. NegInf \in Int  BY <1>0, LaunchFacts
    <3>2. [k \in Keys |-> Zero] \in [Keys -> Term]  BY DEF Zero, Term
    <3> QED BY <3>1, <3>2, <2>1, <1>0, <1>1, <1>2, <1>4, <1>5 DEF TypeOK, Blocks
  <2>3. Seen' = {} /\ Done' = {}
    BY <2>1, <1>2 DEF Seen, Done
  <2>4. Weight({}, NegInf)' = [k \in Keys |-> Zero]
    BY <1>2 DEF Weight, Zero
  <2>5. PartSoftmax'
    BY <2>1, <2>3, <2>4, <1>2 DEF PartSoftmax, Weight, Zero
  <2> QED BY <2>1, <2>2, <2>5, <1>1, <1>3, <1>7 DEF IInv, Stages
<1> QED BY <1>0, <1>6, <1>7 DEF TypeOK

\* What a pass over tiles leaves alone.
LEMMA SameRow ==
  ASSUME UNCHANGED <<launch, query>>
  PROVE  /\ Keys' = Keys /\ Rows' = Rows /\ Attended' = Attended /\ score' = score
         /\ Active(block)' = Active(block)
         /\ \A t : Tile(t)' = Tile(t)
         /\ \A S, m : Weight(S, m)' = Weight(S, m)
BY DEF launch, query, Keys, Rows, Attended, QStart, Active, NumKvBlocks, Tile, KStart, Weight, Zero

LEMMA FirstTileStep == IInv /\ FirstTile => IInv'
<1> SUFFICES ASSUME IInv, FirstTile PROVE IInv'  OBVIOUS
<1>0. TypeOK /\ Tiled /\ Stages /\ stage = "first" /\ mode = "decode"
  BY DEF IInv, Stages, FirstTile
<1>1. UNCHANGED <<launch, query>> /\ left' = left /\ stage' = "tiles" /\ tiles' = Active(block) \ {0}
  BY DEF FirstTile
<1>2. PICK m \in Scores \cup {NegInf} :
        /\ IsTileMax(m, 0) /\ row_max' = m
        /\ sum_row' = Terms(Tile(0), 0, m) /\ running_out' = Terms(ValueTile(0), 0, m)
  BY DEF FirstTile
<1> DEFINE S == Tile(0) \cap Attended
<1>3. 0 \in Active(block) /\ 0 \in S
  <2>1. 0 \in Attended  BY <1>0, LaunchFacts DEF Attended
  <2>2. PICK t \in Active(block) : 0 \in Tile(t)  BY <1>0, <2>1, ActiveTiles
  <2>3. 0 \in Active(block)
    <3>1. t \in Nat  BY <1>0, <2>2, ActiveTiles
    <3> QED BY <3>1, <1>0, <2>2, FirstIsActive
  <2>4. block_k \in Nat \ {0}  BY <1>0 DEF Tiled
  <2> QED BY <2>1, <2>3, <2>4 DEF Tile, KStart
<1>4. /\ m \in Scores /\ \A k \in S : score[k] <= m
      /\ \E k \in S : score[k] = m
  BY <1>0, <1>2, <1>3, TileMax
<1>5. sum_row' = Weight(S, m) /\ running_out' = Weight(S, m)
  BY <1>0, <1>2, <1>3, <1>4, FirstTerms, AllValueTiles
<1>6. Seen' = {0} /\ Done' = S
  BY <1>1, <1>3, SameRow DEF Seen, Done
<1>7. Weight(S, m)' = Weight(S, m)
  BY <1>1, SameRow
<1>8. PartSoftmax'
  <2>1. sum_row' = Weight(Done, row_max)' /\ running_out' = Weight(Done, row_max)'
    BY <1>2, <1>5, <1>6, <1>1 DEF Weight, launch, query, Keys, Zero
  <2> QED BY <2>1, <1>1, <1>2, <1>4, <1>6, <1>3, SameRow DEF PartSoftmax
<1>9. TypeOK'
  <2>1. m \in Int /\ score \in [Keys -> Scores]  BY <1>0, <1>4, LaunchFacts DEF TypeOK
  <2>2. Weight(S, m) \in [Keys -> Term]  BY <1>0, <2>1, WeightType
  <2> QED BY <2>1, <2>2, <1>0, <1>1, <1>2, <1>5, SameRow DEF TypeOK, launch, query
<1>10. Tiled' /\ Stages'
  BY <1>0, <1>1 DEF Tiled, Stages, launch
<1> QED BY <1>8, <1>9, <1>10 DEF IInv

LEMMA PassStep == IInv /\ Pass => IInv'
<1> SUFFICES ASSUME IInv, Pass PROVE IInv'  OBVIOUS
<1>0. TypeOK /\ Tiled /\ Stages /\ PartSoftmax /\ stage = "tiles"
  BY DEF IInv, Pass
<1>1. UNCHANGED <<launch, query>> /\ left' = left /\ stage' = "tiles"
  BY <1>0 DEF Pass
<1>2. PICK t \in tiles, tile_max \in Scores \cup {NegInf} :
        LET m == NewMax(tile_max) IN
        /\ IsTileMax(tile_max, t) /\ tiles' = tiles \ {t} /\ row_max' = m
        /\ sum_row' = Plus(Scaled(sum_row, row_max - m), Terms(Tile(t), t, m))
        /\ running_out' = Plus(Scaled(running_out, row_max - m), Terms(ValueTile(t), t, m))
  BY DEF Pass
<1> DEFINE m == NewMax(tile_max)
           new == Tile(t) \cap Attended
<1>3. t \in Active(block) /\ t \notin Seen /\ Seen \subseteq Active(block) /\ Active(block) \subseteq Nat
  BY <1>0, <1>2, ActiveTiles DEF TypeOK, Seen
<1>4. Done \subseteq Attended /\ Done \cap Tile(t) = {}
  <2>1. block_k \in Nat \ {0}  BY <1>0 DEF Tiled
  <2>2. \A u \in Seen : Tile(u) \cap Tile(t) = {}  BY <1>3, <2>1, TilesApart
  <2> QED BY <2>2 DEF Done
<1>5. \A s \in Scores : s \in Int /\ NegInf \in Int /\ NegInf < s
  BY <1>0, LaunchFacts
<1>6. score \in [Keys -> Scores] /\ Attended \subseteq Keys
  BY <1>0 DEF TypeOK, Attended
<1>7. /\ \A k \in new : score[k] <= tile_max
      /\ tile_max \in Scores => \E k \in new : score[k] = tile_max
      /\ new # {} => tile_max \in Scores
  BY <1>0, <1>2, <1>3, TileMax
<1>8. Done # {} => row_max \in Scores
  <2>1. \A k \in Done : score[k] \in Scores  BY <1>4, <1>6
  <2> QED BY <2>1, <1>0 DEF PartSoftmax
<1>9. Done = {} => tile_max \in Scores /\ row_max = NegInf
  <2> SUFFICES ASSUME Done = {} PROVE tile_max \in Scores /\ row_max = NegInf  OBVIOUS
  <2>1. Seen = {} /\ row_max = NegInf
    BY <1>0 DEF PartSoftmax
  <2>2. mode = "prefill"
    <3>1. mode = "decode" => 0 \notin tiles  BY <1>0 DEF Stages
    <3>2. mode = "decode" => 0 \in Active(block)
      BY <1>0, <1>3, FirstIsActive
    <3> QED BY <3>1, <3>2, <2>1, <1>0 DEF Seen, TypeOK
  <2>3. KStart(t) \in new
    BY <2>2, <1>0, <1>3, ActiveTiles
  <2> QED BY <2>1, <2>3, <1>7
<1>10. m \in Scores /\ row_max \in Int /\ row_max <= m /\ tile_max <= m /\ (m = row_max \/ m = tile_max)
  <2>1. row_max \in Int /\ tile_max \in Int
    BY <1>0, <1>2, <1>5, LaunchFacts DEF TypeOK
  <2> QED BY <2>1, <1>5, <1>8, <1>9 DEF NewMax, Greater
<1>11. Done' = Done \cup new
  <2>1. Seen' = Seen \cup {t}  BY <1>1, <1>2, <1>3, SameRow DEF Seen
  <2> QED BY <2>1, <1>1, SameRow DEF Done
<1>12. /\ sum_row' = Weight(Done \cup new, m)
       /\ running_out' = Weight(Done \cup new, m)
  <2>1. Plus(Scaled(Weight(Done, row_max), row_max - m), Terms(Tile(t), t, m)) = Weight(Done \cup new, m)
    <3> HIDE DEF m
    <3> QED BY <1>0, <1>3, <1>4, <1>8, <1>10, AddTile
  <2>2. ValueTile(t) = Tile(t)
    BY <1>0, AllValueTiles
  <2>3. sum_row = Weight(Done, row_max) /\ running_out = Weight(Done, row_max)
    BY <1>0 DEF PartSoftmax
  <2> QED BY <2>1, <2>2, <2>3, <1>2
<1>13. /\ \A k \in Done \cup new : score[k] <= m
       /\ \E k \in Done \cup new : m = score[k]
  <2>1. \A k \in Done \cup new : score[k] \in Int
    BY <1>4, <1>5, <1>6
  <2>2. tile_max \in Int
    BY <1>2, <1>5, <1>0, LaunchFacts
  <2>3. \A k \in Done : score[k] <= row_max
    BY <1>0 DEF PartSoftmax
  <2>4. \A k \in Done \cup new : score[k] <= m
    <3>1. m \in Int  BY <1>5, <1>10
    <3> HIDE DEF m
    <3> QED BY <2>1, <2>2, <2>3, <1>7, <1>10, <3>1
  <2>5. CASE Done = {}
    <3>1. m = tile_max  BY <2>5, <1>9, <1>10, <1>5
    <3> QED BY <3>1, <1>7, <2>4, <2>5, <1>9
  <2>6. CASE Done # {}
    <3>1. \E k \in Done : row_max = score[k]  BY <2>6, <1>0 DEF PartSoftmax
    <3>2. m = tile_max => tile_max \in Scores  BY <1>10
    <3> QED BY <3>1, <3>2, <2>4, <1>7, <1>10
  <2> QED BY <2>4, <2>5, <2>6
<1>14. PartSoftmax'
  <2>1. sum_row' = Weight(Done, row_max)' /\ running_out' = Weight(Done, row_max)'
    BY <1>2, <1>12, <1>11, <1>1 DEF Weight, launch, query, Keys, Zero
  <2>2. row_max' = m  BY <1>2
  <2> QED BY <2>1, <2>2, <1>1, <1>11, <1>13, SameRow DEF PartSoftmax
<1>15. TypeOK'
  <2>1. m \in Int  BY <1>5, <1>10
  <2>2. Weight(Done \cup new, m) \in [Keys -> Term]
    <3> HIDE DEF m
    <3> QED BY <1>0, <1>6, <2>1, WeightType
  <2> QED BY <2>1, <2>2, <1>0, <1>1, <1>2, <1>12, SameRow DEF TypeOK, launch, query
<1>16. Tiled' /\ Stages'
  BY <1>0, <1>1, <1>2 DEF Tiled, Stages, launch
<1> QED BY <1>14, <1>15, <1>16 DEF IInv

LEMMA StoreStep == IInv /\ Store => IInv'
<1> SUFFICES ASSUME IInv, Store PROVE IInv'  OBVIOUS
<1>1. /\ UNCHANGED launch /\ left' \subseteq left /\ stage = "tiles" /\ stage' \in {"heads", "done"}
      /\ row' = 0 /\ (row_max' = 0 \/ row_max' = row_max)
  BY DEF Store, buffers
<1>2. TypeOK'
  BY <1>1 DEF IInv, TypeOK, launch, Keys, Blocks
<1>3. Tiled' /\ Stages' /\ PartSoftmax'
  BY <1>1 DEF IInv, Tiled, Stages, PartSoftmax, launch
<1> QED BY <1>2, <1>3 DEF IInv

LEMMA StutterStep == IInv /\ UNCHANGED vars => IInv'
<1> SUFFICES ASSUME IInv, UNCHANGED vars PROVE IInv'  OBVIOUS
<1>1. UNCHANGED <<stage, launch, left, query, tiles, row_max, sum_row, running_out>>
  BY DEF vars, buffers
<1>2. TypeOK' /\ Tiled' /\ Stages'
  BY <1>1, SameRow DEF IInv, TypeOK, Tiled, Stages, launch, query
<1>3. Seen' = Seen /\ Done' = Done
  BY <1>1, SameRow DEF Seen, Done
<1>4. Weight(Done, row_max)' = Weight(Done, row_max)
  BY <1>1, <1>3 DEF Weight, launch, query, Keys, Zero
<1>5. PartSoftmax'
  BY <1>1, <1>3, <1>4, SameRow DEF IInv, PartSoftmax
<1> QED BY <1>2, <1>5 DEF IInv

(***************************************************************************)
(* The output.                                                             *)
(***************************************************************************)
\* Digits in a mixed radix: what a head and a query of out are numbered by.
LEMMA Digits ==
  ASSUME NEW d \in Nat \ {0}, NEW i \in Nat, NEW j \in Nat,
         NEW r \in 0 .. d - 1, NEW s \in 0 .. d - 1, i * d + r = j * d + s
  PROVE  i = j /\ r = s
<1>1. \A a, b \in Nat : a < b => a * d + d <= b * d
  <2> SUFFICES ASSUME NEW a \in Nat, NEW b \in Nat, a < b PROVE a * d + d <= b * d  OBVIOUS
  <2>1. (a + 1) * d <= b * d  BY Grows
  <2>2. (a + 1) * d = a * d + d  BY Z3
  <2> QED BY <2>1, <2>2
<1>2. i * d \in Nat /\ j * d \in Nat  BY Grows
<1>3. ~(i < j)  BY <1>1, <1>2
<1>4. ~(j < i)  BY <1>1, <1>2
<1>5. i = j  BY <1>3, <1>4
<1> QED BY <1>2, <1>5

LEMMA DigitsBelow ==
  ASSUME NEW d \in Nat \ {0}, NEW n \in Nat, NEW i \in 0 .. n - 1, NEW r \in 0 .. d - 1
  PROVE  i * d + r \in 0 .. n * d - 1
<1>1. (i + 1) * d <= n * d /\ n * d \in Nat  BY Grows
<1>2. (i + 1) * d = i * d + d /\ i * d \in Nat  BY Z3
<1> QED BY <1>1, <1>2

LEMMA HasDigits ==
  ASSUME NEW d \in Nat \ {0}, NEW n \in Nat, NEW x \in 0 .. n * d - 1
  PROVE  \E i \in 0 .. n - 1, r \in 0 .. d - 1 : x = i * d + r
<1>1. n * d \in Nat  BY Grows
<1>2. x \in Nat /\ x < n * d  BY <1>1
<1>3. x \div d < n  BY <1>2, QuotientHigh
<1>4. x \div d \in Nat /\ (x \div d) * d <= x /\ x <= (x \div d) * d + d - 1
  BY <1>2, InQuotient
<1> DEFINE i == x \div d
<1>5. i \in 0 .. n - 1 /\ i * d \in Nat  BY <1>3, <1>4, Grows
<1>6. x - i * d \in 0 .. d - 1 /\ x = i * d + (x - i * d)  BY <1>2, <1>4, <1>5
<1> QED BY <1>5, <1>6

\* The cells of out: every head, and in prefill every query of it.
Grid == (0 .. KvHeads * HeadsPerKv - 1) \X (IF mode = "decode" THEN {0} ELSE Keys)

\* No two blocks store the same cell.
LEMMA CellsApart ==
  ASSUME TypeOK, NEW b \in Blocks(mode, seq_len), NEW c \in Blocks(mode, seq_len), b # c
  PROVE  Cells(b) \cap Cells(c) = {}
<1>0. HeadsPerKv \in Nat \ {0} /\ KvHeads \in Nat \ {0} /\ PMax \in Nat \ {0} /\ seq_len \in Nat \ {0}
  BY LaunchFacts
<1>1. CASE mode = "decode"
  <2>1. /\ b.kv_head \in Nat /\ c.kv_head \in Nat /\ b.kv_head # c.kv_head
    BY <1>0, <1>1 DEF Blocks
  <2>2. \A i, j \in 0 .. HeadsPerKv - 1 : b.kv_head * HeadsPerKv + i # c.kv_head * HeadsPerKv + j
    BY <1>0, <2>1, Digits
  <2> QED BY <1>1, <2>2 DEF Cells
<1>2. CASE mode = "prefill"
  <2>1. /\ b.kv_head \in Nat /\ c.kv_head \in Nat /\ b.q_block \in Nat /\ c.q_block \in Nat
        /\ b.q_idx \in 0 .. HeadsPerKv - 1 /\ c.q_idx \in 0 .. HeadsPerKv - 1
        /\ b.kv_head # c.kv_head \/ b.q_idx # c.q_idx \/ b.q_block # c.q_block
    BY <1>0, <1>2 DEF Blocks
  <2>2. b.kv_head * HeadsPerKv + b.q_idx = c.kv_head * HeadsPerKv + c.q_idx
          => b.kv_head = c.kv_head /\ b.q_idx = c.q_idx
    BY <1>0, <2>1, Digits
  <2>3. \A i, j \in 0 .. PMax - 1 : b.q_block * PMax + i = c.q_block * PMax + j => b.q_block = c.q_block
    BY <1>0, <2>1, Digits
  <2> QED BY <1>2, <2>1, <2>2, <2>3 DEF Cells
<1> QED BY <1>1, <1>2 DEF TypeOK

\* All the blocks together store every cell, and nothing else.
LEMMA CellsCover ==
  ASSUME TypeOK, Divides(PMax, seq_len)
  PROVE  UNION {Cells(b) : b \in Blocks(mode, seq_len)} = Grid
<1> DEFINE P == seq_len \div PMax
<1>0. /\ HeadsPerKv \in Nat \ {0} /\ KvHeads \in Nat \ {0} /\ PMax \in Nat \ {0}
      /\ P \in Nat /\ seq_len = P * PMax
  BY LaunchFacts, Factor DEF Divides
<1>1. CASE mode = "decode"
  <2>1. ASSUME NEW b \in Blocks(mode, seq_len) PROVE Cells(b) \subseteq Grid
    <3>1. b.kv_head \in 0 .. KvHeads - 1  BY <1>1 DEF Blocks
    <3>2. \A i \in 0 .. HeadsPerKv - 1 : b.kv_head * HeadsPerKv + i \in 0 .. KvHeads * HeadsPerKv - 1
      BY <1>0, <3>1, DigitsBelow
    <3> QED BY <1>1, <3>2 DEF Cells, Grid
  <2>2. ASSUME NEW x \in 0 .. KvHeads * HeadsPerKv - 1
        PROVE  \E b \in Blocks(mode, seq_len) : <<x, 0>> \in Cells(b)
    <3>1. PICK h \in 0 .. KvHeads - 1, i \in 0 .. HeadsPerKv - 1 : x = h * HeadsPerKv + i
      BY <1>0, HasDigits
    <3>2. [kv_head |-> h] \in Blocks(mode, seq_len)  BY <1>1 DEF Blocks
    <3>3. <<x, 0>> \in Cells([kv_head |-> h])  BY <1>1, <3>1 DEF Cells
    <3> QED BY <3>2, <3>3
  <2> QED BY <1>1, <2>1, <2>2 DEF Grid
<1>2. CASE mode = "prefill"
  <2>1. ASSUME NEW b \in Blocks(mode, seq_len) PROVE Cells(b) \subseteq Grid
    <3>1. b.kv_head \in 0 .. KvHeads - 1 /\ b.q_idx \in 0 .. HeadsPerKv - 1 /\ b.q_block \in 0 .. P - 1
      BY <1>2 DEF Blocks
    <3>2. b.kv_head * HeadsPerKv + b.q_idx \in 0 .. KvHeads * HeadsPerKv - 1
      BY <1>0, <3>1, DigitsBelow
    <3>3. \A i \in 0 .. PMax - 1 : b.q_block * PMax + i \in 0 .. seq_len - 1
      <4> HIDE DEF P
      <4> QED BY <1>0, <3>1, DigitsBelow
    <3> QED BY <1>2, <3>2, <3>3 DEF Cells, Grid, Keys
  <2>2. ASSUME NEW x \in 0 .. KvHeads * HeadsPerKv - 1, NEW q \in Keys
        PROVE  \E b \in Blocks(mode, seq_len) : <<x, q>> \in Cells(b)
    <3>1. PICK h \in 0 .. KvHeads - 1, i \in 0 .. HeadsPerKv - 1 : x = h * HeadsPerKv + i
      BY <1>0, HasDigits
    <3>2. PICK n \in 0 .. P - 1, j \in 0 .. PMax - 1 : q = n * PMax + j
      <4> HIDE DEF P
      <4>1. q \in 0 .. P * PMax - 1  BY <1>0 DEF Keys
      <4> QED BY <1>0, <4>1, HasDigits
    <3> DEFINE b == [kv_head |-> h, q_idx |-> i, q_block |-> n]
    <3>3. b \in Blocks(mode, seq_len)  BY <1>2 DEF Blocks
    <3>4. <<x, q>> \in Cells(b)  BY <1>2, <3>1, <3>2 DEF Cells
    <3> QED BY <3>3, <3>4
  <2> QED BY <1>2, <2>1, <2>2 DEF Grid
<1> QED BY <1>1, <1>2 DEF TypeOK

\* What is written is the cells of the blocks that are no longer left.
Stored ==
  /\ stage \in {"launch", "refused"} => written = {}
  /\ stage \in {"heads", "first", "tiles"} =>
       written = UNION {Cells(b) : b \in Blocks(mode, seq_len) \ left}
  /\ stage = "done" => written = Grid

LEMMA StoredStep ==
  ASSUME IInv, Stored, [Next]_vars
  PROVE  Stored'
<1>0. TypeOK /\ Tiled
  BY DEF IInv
<1>1. ASSUME UNCHANGED <<mode, seq_len>>
      PROVE  Grid' = Grid /\ \A b : Cells(b)' = Cells(b)
  BY <1>1 DEF Grid, Keys, Cells
<1>2. CASE Launch
  <2>1. UNCHANGED <<mode, seq_len>> /\ written' = {} /\ stage' \in {"heads", "refused"}
    BY <1>2 DEF Launch, Stored
  <2>2. stage' = "heads" => left' = Blocks(mode, seq_len)
    BY <1>2 DEF Launch
  <2>3. stage' = "heads" => Blocks(mode', seq_len') \ left' = {}
    BY <2>1, <2>2
  <2> QED BY <2>1, <2>3 DEF Stored
<1>3. CASE LoadQueries \/ FirstTile \/ DecodeTile \/ PrefillTile
  <2>1. /\ UNCHANGED <<mode, seq_len, left, written>>
        /\ stage \in {"heads", "first", "tiles"} /\ stage' \in {"first", "tiles"}
    BY <1>0, <1>3 DEF LoadQueries, FirstTile, DecodeTile, PrefillTile, Pass, launch, TypeOK
  <2> QED BY <1>1, <2>1 DEF Stored
<1>4. CASE Store
  <2>1. /\ UNCHANGED <<mode, seq_len>> /\ stage = "tiles"
        /\ written' = written \cup Cells(block) /\ left' = left \ {block}
        /\ stage' = IF left' = {} THEN "done" ELSE "heads"
    BY <1>4 DEF Store, launch
  <2>2. block \in left /\ left \subseteq Blocks(mode, seq_len)
    BY <1>0, <2>1 DEF TypeOK
  <2>3. written = UNION {Cells(b) : b \in Blocks(mode, seq_len) \ left}
    BY <2>1 DEF Stored
  <2>4. PICK c \in Blocks(mode, seq_len) : c = block
    BY <2>2
  <2>5. Blocks(mode, seq_len) \ left' = (Blocks(mode, seq_len) \ left) \cup {c}
    BY <2>1, <2>2, <2>4
  <2>6. written' = UNION {Cells(b) : b \in Blocks(mode, seq_len) \ left'}
    BY <2>1, <2>3, <2>4, <2>5
  <2>7. CASE left' = {}
    <3>1. written' = Grid
      BY <1>0, <2>1, <2>6, <2>7, CellsCover DEF Tiled
    <3> QED BY <1>1, <2>1, <2>7, <3>1 DEF Stored
  <2>8. CASE left' # {}
    BY <1>1, <2>1, <2>6, <2>8 DEF Stored
  <2> QED BY <2>7, <2>8
<1>5. CASE UNCHANGED vars
  <2>1. UNCHANGED <<mode, seq_len, left, written, stage>>
    BY <1>5 DEF vars, launch
  <2> QED BY <1>1, <2>1 DEF Stored
<1> QED BY <1>2, <1>3, <1>4, <1>5 DEF Next

(***************************************************************************)
(* Theorems.                                                               *)
(***************************************************************************)
\* The invariant holds in every state of the kernels.
THEOREM Inductive == Spec => []IInv
<1>1. IInv /\ [Next]_vars => IInv'
  BY LaunchStep, LoadQueriesStep, FirstTileStep, PassStep, StoreStep, StutterStep DEF Next, DecodeTile, PrefillTile
<1> QED BY InitInv, <1>1, PTL DEF Spec

\* The buffers hold what they are declared to hold (TypeOK of NkiAttention).
THEOREM TypeCorrect == Spec => []TypeOK
<1>1. IInv => TypeOK  BY DEF IInv
<1> QED BY Inductive, <1>1, PTL

\* What decode and prefill store for a row is its attention, for every tile size,
\* length and score: the keys it attends to, each once, relative to one maximum.
THEOREM AttentionCorrect == Spec => []StoresAttention
<1>1. IInv => StoresAttention
  <2> SUFFICES ASSUME IInv, stage = "tiles", tiles = {}, NEW k \in Keys
               PROVE  LET weight == IF k \in Attended THEN [n |-> 1, e |-> score[k] - row_max] ELSE Zero
                      IN sum_row[k] = weight /\ running_out[k] = weight
    BY DEF StoresAttention
  <2>1. Seen = Active(block)
    BY DEF Seen
  <2>2. Done = Attended
    BY <2>1, ActiveTiles DEF Done, IInv
  <2> QED BY <2>2 DEF IInv, PartSoftmax, Weight
<1> QED BY Inductive, <1>1, PTL

\* No exponential of a row overflows, and no row is divided by zero (Stable).
THEOREM NumericallyStable == Spec => []Stable
<1>1. IInv => Stable
  <2> SUFFICES ASSUME IInv, stage = "tiles" PROVE Stable
    BY DEF Stable
  <2>0. TypeOK /\ Tiled /\ Stages /\ PartSoftmax
    BY DEF IInv
  <2>1. \A k \in Keys : score[k] \in Int /\ row_max \in Int
    BY <2>0, LaunchFacts DEF TypeOK
  <2>2. Done \subseteq Keys
    BY DEF Done, Attended
  <2>3. \A k \in Keys : sum_row[k].e <= 0 /\ running_out[k].e <= 0
    BY <2>0, <2>1, <2>2 DEF PartSoftmax, Weight, Zero
  <2>4. ASSUME tiles # Active(block) PROVE \E k \in Keys : sum_row[k] = [n |-> 1, e |-> 0]
    <3>1. Seen # {}
      BY <2>4, <2>0 DEF Seen, TypeOK
    <3>2. PICK k \in Done : row_max = score[k]
      BY <3>1, <2>0 DEF PartSoftmax
    <3>3. score[k] - row_max = 0
      BY <3>2, <2>1, <2>2
    <3> QED BY <3>2, <3>3, <2>0, <2>2 DEF PartSoftmax, Weight
  <2> QED BY <2>3, <2>4 DEF Stable
<1> QED BY Inductive, <1>1, PTL

\* A kernel that ends has stored every head of every query, and no cell twice, for
\* every tile size, length and number of heads (OutputComplete).
THEOREM EveryCellOnce == Spec => []OutputComplete
<1>1. Init => Stored
  BY DEF Init, Stored
<1>2. IInv /\ Stored /\ [Next]_vars => Stored'
  BY StoredStep
<1>3. ASSUME IInv, Stored PROVE OutputComplete
  <2>1. ASSUME stage = "tiles" PROVE Cells(block) \cap written = {}
    <3>1. TypeOK /\ block \in left /\ left \subseteq Blocks(mode, seq_len)
      BY <1>3, <2>1 DEF IInv, TypeOK
    <3>2. \A b \in Blocks(mode, seq_len) \ left : Cells(block) \cap Cells(b) = {}
      BY <3>1, CellsApart
    <3> QED BY <1>3, <2>1, <3>2 DEF Stored
  <2> QED BY <1>3, <2>1 DEF OutputComplete, Stored, Grid
<1> QED BY Inductive, <1>1, <1>2, <1>3, PTL DEF Spec
=============================================================================
