----------------------------- MODULE CopyTraits -----------------------------
(* copyTraitsOf of CuteInference.cpp: for a copy atom, which bit of the    *)
(* copied block each thread's values are, on the source and on the         *)
(* destination side, and where in tensor memory the block's bits lie. A    *)
(* layout is a pair of modes (threads, values) of leaves <<extent, stride>>.*)
EXTENDS Integers, Sequences, SequencesExt, FiniteSetsExt

NoAddress == <<>>
LaneBits == 2 ^ 21
Traits(src, dst, valId) == [src |-> src, dst |-> dst, valId |-> valId]

Simt(copyBits) == LET l == <<<<<<1, 0>>>>, <<<<copyBits, 1>>>>>> IN Traits(l, l, NoAddress)

(* Mutant of Stsm: the second matrix of a transposed pair starts half a    *)
(* matrix early.                                                           *)
StsmOverlaps(matrices, transposed) ==
  LET rows == CASE matrices = 1 -> <<<<8, 128>>, <<4, 0>>>>
                [] matrices = 2 -> <<<<16, 128>>, <<2, 0>>>>
                [] matrices = 4 -> <<<<32, 128>>>>
      more == IF matrices = 1 THEN <<>> ELSE <<<<matrices, 512>>>>
      regs == IF transposed
              THEN <<<<<<4, 256>>, <<8, 16>>>>, <<<<16, 1>>, <<2, 128>>>> \o more>>
              ELSE <<<<<<32, 32>>>>, <<<<32, 1>>>> \o more>>
  IN Traits(regs, <<rows, <<<<128, 1>>>>>>, NoAddress)

(* stmatrix: the rows of 128 bits that the threads address, 8 a matrix,    *)
(* and the 32 bits a matrix that each thread holds.                        *)
Stsm(matrices, transposed) ==
  LET rows == CASE matrices = 1 -> <<<<8, 128>>, <<4, 0>>>>
                [] matrices = 2 -> <<<<16, 128>>, <<2, 0>>>>
                [] matrices = 4 -> <<<<32, 128>>>>
      held(near, far) ==
        CASE matrices = 1 -> near
          [] OTHER -> near \o <<<<matrices, far>>>>
      regs == IF transposed
              THEN <<<<<<4, 256>>, <<8, 16>>>>, held(<<<<16, 1>>, <<2, 128>>>>, 1024)>>
              ELSE IF matrices = 1 THEN <<<<<<32, 32>>>>, <<<<32, 1>>>>>>
              ELSE <<<<<<32, 32>>>>, held(<<<<32, 1>>>>, 1024)>>
  IN Traits(regs, <<rows, <<<<128, 1>>>>>>, NoAddress)

(* Tensor memory loads and stores: 32 lanes of 32 bits, or 16 of 256, x    *)
(* times; a store is a load with its sides exchanged.                      *)
Tmem(shape, x, load) ==
  LET mem(bits) == <<<<<<32, 0>>>>, <<<<bits, 1>>>>>>
      t == CASE shape = "32x32" ->
                  [mem |-> mem(1024 * x), valId |-> <<<<32 * x, 1>>, <<32, LaneBits>>>>,
                   reg |-> <<<<<<32, 32 * x>>>>, <<<<32 * x, 1>>>>>>]
             [] shape = "16x256" ->
                  [mem |-> mem(4096 * x), valId |-> <<<<256 * x, 1>>, <<16, LaneBits>>>>,
                   reg |-> <<<<<<4, 64>>, <<8, 256 * x>>>>,
                             <<<<64, 1>>, <<2, 2048 * x>>>> \o (IF x = 1 THEN <<>> ELSE <<<<x, 256>>>>)>>]
  IN IF load THEN Traits(t.mem, t.reg, t.valId) ELSE Traits(t.reg, t.mem, t.valId)

(* Scale factors to tensor memory, one thread a CTA, four times over.      *)
S2T(ctas) ==
  Traits(<<<<<<ctas, 0>>>>, <<<<32, 1>>, <<128, 32>>, <<4, 0>>>>>>,
         <<<<<<ctas, 0>>>>, <<<<16384, 1>>>>>>,
         <<<<32, LaneBits>>, <<128, 1>>, <<4, 32 * LaneBits>>>>)

-----------------------------------------------------------------------------
Bits(leaves) == FoldLeft(LAMBDA n, f : n * f[1], 1, leaves)
Stepping(leaves) == SelectSeq(leaves, LAMBDA f : f[2] # 0)
ByStride(leaves) == SortSeq(leaves, LAMBDA f, g : f[2] < g[2])

(* The leaves count the numbers from 0, each once: a broadcast aside, a    *)
(* leaf steps by the product of those below it.                            *)
CountsUp(leaves) ==
  LET s == ByStride(Stepping(leaves))
  IN \A k \in DOMAIN s : s[k][2] = Bits(SubSeq(s, 1, k - 1))
(* No two of their places coincide.                                        *)
NeverMeet(leaves) ==
  LET s == ByStride(Stepping(leaves))
  IN \A k \in 2..Len(s) : s[k][2] >= s[k - 1][1] * s[k - 1][2]
=============================================================================
