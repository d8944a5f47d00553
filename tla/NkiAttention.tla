---------------------------- MODULE NkiAttention ----------------------------
(***************************************************************************)
(* The attention kernels of the Neuron platform, decode and prefill of     *)
(* attention.py: a softmax over the keys that is computed tile by tile,    *)
(* with a running maximum, and rescaled whenever the maximum grows.        *)
(*                                                                         *)
(* The rows of a block (the partitions of the engine) share no arithmetic, *)
(* so one row of every block is followed, any one.  A score is an integer, *)
(* and a sum of exponentials is kept as its terms: what each key adds to   *)
(* it is exp(e), added n times.  exp vanishes below the differences two    *)
(* scores can have: what a masked score is there for.                      *)
(***************************************************************************)
EXTENDS Integers, FiniteSets, TLC

CONSTANTS PMax,             \* nl.tile_size.pmax
          GemmMovingFmax,   \* nl.tile_size.gemm_moving_fmax
          SeqLens,          \* the lengths the kernels are compiled for
          KvHeads, HeadsPerKv,
          Range,            \* a score is within -Range..Range
          Scores,           \* the scores a key may have
          Depth             \* how far below 0 NEG_INF is

ASSUME TileAssumption == PMax \in Nat \ {0} /\ GemmMovingFmax \in Nat \ {0}
ASSUME SeqLenAssumption == SeqLens \subseteq Nat \ {0}
ASSUME HeadAssumption == KvHeads \in Nat \ {0} /\ HeadsPerKv \in Nat \ {0}
ASSUME ScoreAssumption == Range \in Nat /\ Scores \subseteq (-Range)..Range /\ Scores # {}
ASSUME DepthAssumption == Depth \in Nat /\ Depth > 3 * Range

NegInf == -Depth

VARIABLES stage,     \* "launch", "refused", "heads", "first", "tiles" or "done"
          mode, seq_len, block_k, token,           \* the launch
          left,      \* the blocks of queries that are still to be done
          block, row, score,                       \* the block, its row and the row's scores
          tiles,     \* the tiles of keys that are still to be done
          row_max, sum_row, running_out,           \* the buffers of the row
          written    \* the cells <<head, query>> of out that have been stored
launch == <<mode, seq_len, block_k, token>>
query == <<block, row, score>>
buffers == <<row_max, sum_row, running_out>>
vars == <<stage, launch, left, query, tiles, buffers, written>>

(***************************************************************************)
(* Tiles, rows and masks.                                                  *)
(***************************************************************************)
Divides(d, n) == n % d = 0
IsGcd(d, m, n) == /\ Divides(d, m) /\ Divides(d, n)
                  /\ \A e \in 1..m : Divides(e, m) /\ Divides(e, n) => e <= d

Keys == 0 .. seq_len - 1
KStart(t) == t * block_k
Tile(t) == KStart(t) .. KStart(t) + block_k - 1
\* the keys whose values are multiplied in, value tile by value tile
ValueTile(t) == KStart(t) .. KStart(t) + (block_k \div PMax) * PMax - 1
NumKvBlocks == seq_len \div block_k

\* A block is one query of all the heads of a group in decode, and PMax queries
\* of one head in prefill.
Blocks(m, len) ==
  IF m = "decode" THEN [kv_head : 0 .. KvHeads - 1]
  ELSE [kv_head : 0 .. KvHeads - 1, q_idx : 0 .. HeadsPerKv - 1, q_block : 0 .. (len \div PMax) - 1]
Rows == IF mode = "decode" THEN 0 .. HeadsPerKv - 1 ELSE 0 .. PMax - 1
QStart == IF mode = "decode" THEN 0 ELSE block.q_block * PMax
\* active_k_tiles
Active(b) == IF mode = "decode" THEN 0 .. NumKvBlocks - 1
             ELSE 0 .. b.q_block \div (block_k \div PMax)
\* The keys the row may see, as a tile sees them: its column against the positions
\* (decode) or the select pattern (prefill)
Valid(t, k) == IF mode = "decode" THEN k <= token
               ELSE (QStart - KStart(t)) + row - (k - KStart(t)) >= 0
Masked(t, k) == IF Valid(t, k) THEN score[k] ELSE NegInf
\* bug: the heads of a group are counted by the number of groups
CellsByGroups(b) ==
  IF mode = "decode" THEN {<<b.kv_head * KvHeads + i, 0>> : i \in 0 .. HeadsPerKv - 1}
  ELSE {<<b.kv_head * KvHeads + b.q_idx, b.q_block * PMax + i>> : i \in 0 .. PMax - 1}
Cells(b) ==
  IF mode = "decode" THEN {<<b.kv_head * HeadsPerKv + i, 0>> : i \in 0 .. HeadsPerKv - 1}
  ELSE {<<b.kv_head * HeadsPerKv + b.q_idx, b.q_block * PMax + i>> : i \in 0 .. PMax - 1}

(***************************************************************************)
(* Sums of exponentials.                                                   *)
(***************************************************************************)
Term == [n : Nat, e : Int]
Zero == [n |-> 0, e |-> 0]
Exp(x) == IF x < -2 * Range THEN Zero ELSE [n |-> 1, e |-> x]
\* bug: an accumulator that is not rescaled when the maximum grows
ScaledNot(acc, x) == acc
Scaled(acc, x) ==
  [k \in Keys |-> IF acc[k].n = 0 \/ Exp(x) = Zero THEN Zero ELSE [acc[k] EXCEPT !.e = @ + x]]
Plus(a, b) == [k \in Keys |-> [n |-> a[k].n + b[k].n, e |-> IF a[k].n > 0 THEN a[k].e ELSE b[k].e]]
\* what the columns of exp_tile add: to the sum, and through the values to the output
Terms(cols, t, m) == [k \in Keys |-> IF k \in cols THEN Exp(Masked(t, k) - m) ELSE Zero]

Greater(a, b) == IF a >= b THEN a ELSE b
IsTileMax(m, t) == /\ \E k \in Tile(t) : m = Masked(t, k)
                   /\ \A k \in Tile(t) : Masked(t, k) <= m

(***************************************************************************)
(* The kernel.                                                             *)
(***************************************************************************)
Init ==
  /\ stage = "launch" /\ mode \in {"decode", "prefill"} /\ seq_len \in SeqLens
  /\ block_k = 0 /\ token \in IF mode = "decode" THEN 0 .. seq_len - 1 ELSE {0}
  /\ left = {} /\ block = <<>> /\ row = 0 /\ score = <<>> /\ tiles = {}
  /\ row_max = 0 /\ sum_row = <<>> /\ running_out = <<>> /\ written = {}

\* math.gcd and the assertions on what it leaves
Launch ==
  /\ stage = "launch"
  /\ \E d \in 1..seq_len :
       /\ IsGcd(d, seq_len, GemmMovingFmax)
       /\ block_k' = d
       /\ IF Divides(PMax, seq_len) /\ Divides(d, seq_len) /\ Divides(PMax, d)
          THEN stage' = "heads" /\ left' = Blocks(mode, seq_len)
          ELSE stage' = "refused" /\ left' = {}
  /\ UNCHANGED <<mode, seq_len, token, query, tiles, buffers, written>>

\* bug: the sums of a block of prefill start from what the memory holds
LoadQueriesNoMemset ==
  /\ stage = "heads" /\ left # {}
  /\ block' = CHOOSE b \in left : TRUE
  /\ row' \in Rows
  /\ score' \in [Keys -> Scores]
  /\ IF mode = "decode" THEN stage' = "first" /\ tiles' = {} /\ UNCHANGED buffers
     ELSE /\ stage' = "tiles" /\ tiles' = Active(block')
          /\ row_max' = NegInf
          /\ UNCHANGED <<sum_row, running_out>>
  /\ UNCHANGED <<launch, left, written>>
\* The buffers of decode are made once and keep what the last group left in them,
\* until the first tile of keys overwrites it.
LoadQueries ==
  /\ stage = "heads" /\ left # {}
  /\ block' = CHOOSE b \in left : TRUE
  /\ row' \in Rows
  /\ score' \in [Keys -> Scores]
  /\ IF mode = "decode" THEN stage' = "first" /\ tiles' = {} /\ UNCHANGED buffers
     ELSE /\ stage' = "tiles" /\ tiles' = Active(block')
          /\ row_max' = NegInf
          /\ sum_row' = [k \in Keys |-> Zero] /\ running_out' = [k \in Keys |-> Zero]
  /\ UNCHANGED <<launch, left, written>>

FirstTile ==
  /\ stage = "first"
  /\ \E m \in Scores \cup {NegInf} :
       /\ IsTileMax(m, 0)
       /\ row_max' = m
       /\ sum_row' = Terms(Tile(0), 0, m)
       /\ running_out' = Terms(ValueTile(0), 0, m)
  /\ tiles' = Active(block) \ {0}
  /\ stage' = "tiles"
  /\ UNCHANGED <<launch, left, query, written>>

\* bug: the maximum of the tile alone
NewMaxOfTile(tile_max) == tile_max
NewMax(tile_max) == Greater(row_max, tile_max)

\* One pass of the affine_range over the tiles, in any order
Pass ==
  /\ stage = "tiles"
  /\ \E t \in tiles :
       \E tile_max \in Scores \cup {NegInf} :
         LET m == NewMax(tile_max) IN
         /\ IsTileMax(tile_max, t)
         /\ tiles' = tiles \ {t}
         /\ row_max' = m
         /\ sum_row' = Plus(Scaled(sum_row, row_max - m), Terms(Tile(t), t, m))
         /\ running_out' = Plus(Scaled(running_out, row_max - m), Terms(ValueTile(t), t, m))
  /\ UNCHANGED <<stage, launch, left, query, written>>

DecodeTile == mode = "decode" /\ Pass
PrefillTile == mode = "prefill" /\ Pass

\* Divide by the sum and copy the block to out.  The buffers of prefill are the
\* block's own and end with it.
Store ==
  /\ stage = "tiles" /\ tiles = {}
  /\ written' = written \cup Cells(block)
  /\ left' = left \ {block}
  /\ stage' = IF left' = {} THEN "done" ELSE "heads"
  /\ block' = <<>> /\ row' = 0 /\ score' = <<>>
  /\ IF mode = "decode" THEN UNCHANGED buffers
     ELSE row_max' = 0 /\ sum_row' = <<>> /\ running_out' = <<>>
  /\ UNCHANGED <<launch, tiles>>

Next == Launch \/ LoadQueries \/ FirstTile \/ DecodeTile \/ PrefillTile \/ Store
Spec == Init /\ [][Next]_vars

(***************************************************************************)
(* Properties.                                                             *)
(***************************************************************************)
TypeOK ==
  /\ stage \in {"launch", "refused", "heads", "first", "tiles", "done"}
  /\ mode \in {"decode", "prefill"} /\ seq_len \in SeqLens /\ block_k \in Nat /\ token \in Keys
  /\ row \in Nat /\ row_max \in Int
  /\ stage \in {"heads", "first", "tiles"} =>
       left \subseteq Blocks(mode, seq_len) /\ block_k \in Nat \ {0}
  /\ stage \in {"first", "tiles"} =>
       block \in left /\ row \in Rows /\ score \in [Keys -> Scores] /\ tiles \subseteq Active(block)
  /\ stage = "tiles" => sum_row \in [Keys -> Term] /\ running_out \in [Keys -> Term]

\* The keys the row attends to: up to the token in decode, up to itself in prefill
Attended == {k \in Keys : k <= IF mode = "decode" THEN token ELSE QStart + row}

\* When a row is stored, its weights are those of softmax(scores) over the keys it
\* attends to: every such key once, exp(score - m) of it in the sum and in the output
\* for one and the same m, and nothing of a masked key or of the row done before.
StoresAttention ==
  stage = "tiles" /\ tiles = {} =>
    \A k \in Keys :
      LET weight == IF k \in Attended THEN [n |-> 1, e |-> score[k] - row_max] ELSE Zero
      IN sum_row[k] = weight /\ running_out[k] = weight

\* No exponential of a row ever exceeds 1, so none overflows, and the sum always has
\* a term that is 1, so it is never 0 when the row is divided by it.
Stable ==
  stage = "tiles" =>
    /\ \A k \in Keys : sum_row[k].e <= 0 /\ running_out[k].e <= 0
    /\ tiles # Active(block) => \E k \in Keys : sum_row[k] = [n |-> 1, e |-> 0]

\* A kernel that ends has written every head of every query, and no block twice.
OutputComplete ==
  /\ stage = "done" =>
       written = (0 .. KvHeads * HeadsPerKv - 1) \X (IF mode = "decode" THEN {0} ELSE Keys)
  /\ stage = "tiles" => Cells(block) \cap written = {}
=============================================================================
