-------------------------- MODULE TensorAtomText --------------------------
(***************************************************************************)
(* The text of the tensor-memory, matrix and TMA copy atoms of the         *)
(* cute_nvgpu dialect, in the form CopyAtomText describes.                 *)
(***************************************************************************)
EXTENDS CopyAtomText

(*************************** tensor memory ********************************)
TmemHead == <<Lit("<"), Val("valType", "type"), Lit(",")>> \o CountOf("DP", "numDp") \o <<Lit(",")>>
            \o CountOf("bit", "numBit") \o <<Lit(","), Val("numRep", "xR")>>
PrintTmemHead(v) == <<Lt, v.valType, Comma, v.numDp, Kw("DP"), Comma, v.numBit, Kw("bit"),
                      Comma, <<"x", v.numRep[2]>>>>
\* bug: without the bound of the 256-bit copy
VerifyTmemCopyLoose(v) ==
  LET dp == v.numDp[2]  bit == v.numBit[2]  rep == v.numRep[2] IN
  /\ dp \in {16, 32} /\ bit \in {32, 64, 128, 256} /\ rep \in 1..128 /\ IsPow2(rep)
  /\ ~(dp = 32 /\ bit # 32)
  /\ ~(dp = 16 /\ bit = 128 /\ rep = 128)
VerifyTmemCopy(v) ==
  LET dp == v.numDp[2]  bit == v.numBit[2]  rep == v.numRep[2] IN
  /\ dp \in {16, 32}
  /\ bit \in {32, 64, 128, 256}
  /\ rep \in 1..128 /\ IsPow2(rep)
  /\ ~(dp = 32 /\ bit # 32)
  /\ ~(dp = 16 /\ bit = 256 /\ rep >= 64)
  /\ ~(dp = 16 /\ bit = 128 /\ rep = 128)

SigTmemLoad == <<<<"valType", "type">>, <<"numDp", "int">>, <<"numBit", "int">>, <<"numRep", "int">>,
                 <<"pack16b", "flag">>>>
SigTmemStore == <<<<"valType", "type">>, <<"numDp", "int">>, <<"numBit", "int">>, <<"numRep", "int">>,
                  <<"expand16b", "flag">>>>
FromTmemLoad == [pack16b |-> Absent]
FromTmemStore == [expand16b |-> Absent]
ReadTmemLoad == TmemHead \o <<OptFlag("pack16b", "pack16b"), Lit(">")>>
ReadTmemStore == TmemHead \o <<OptFlag("expand16b", "expand16b"), Lit(">")>>
PrintTmemLoad(v) == PrintTmemHead(v) \o PrintFlag("pack16b", v.pack16b) \o <<Gt>>
PrintTmemStore(v) == PrintTmemHead(v) \o PrintFlag("expand16b", v.expand16b) \o <<Gt>>

SigTmemLoadRed == <<<<"valType", "type">>, <<"numDp", "int">>, <<"numBit", "int">>, <<"numRep", "int">>,
                    <<"redOp", "TmemLoadRedOp">>, <<"nan", "flag">>, <<"halfSplitOff", "attr?">>>>
FromTmemLoadRed == [nan |-> Absent, halfSplitOff |-> Absent]
\* nan is read once and only before a half_split_off, of which the last counts
ReadTmemLoadRed ==
  LET SplitOff == <<Lit("="), Val("halfSplitOff", "attr")>> IN TmemHead \o
  <<Lit(","), Val("redOp", "TmemLoadRedOp"),
    Opt(",", <<Either("nan", <<Put("nan", True)>>, <<Lit("half_split_off")>> \o SplitOff),
               Each(<<Word("half_split_off", SplitOff)>>)>>), Lit(">")>>
PrintTmemLoadRed(v) == PrintTmemHead(v) \o <<Comma, v.redOp>> \o PrintFlag("nan", v.nan)
  \o PrintAttrField("half_split_off", v.halfSplitOff) \o <<Gt>>
VerifyTmemLoadRed(v) ==
  LET t == v.valType[2] IN
  /\ t \in {"f32", "i32"}
  /\ v.nan = True => t = "f32"
  /\ v.redOp \in {Kw("minabs"), Kw("maxabs")} => t = "f32"
  /\ v.numBit[2] = 32
  /\ v.numRep[2] \in 2..128 /\ IsPow2(v.numRep[2])
  /\ v.halfSplitOff # Absent => v.numDp[2] = 16

SigTmemLoadSPCompress == <<<<"valType", "type">>, <<"numDp", "int">>, <<"numBit", "int">>,
   <<"numRep", "int">>, <<"redOp", "TmemLoadRedOp">>, <<"red", "flag">>, <<"nan", "flag">>>>
FromTmemLoadSPCompress == [red |-> Absent, nan |-> Absent]
ReadTmemLoadSPCompress == TmemHead \o
  <<Lit(","), Val("redOp", "TmemLoadRedOp"),
    Opt(",", <<Lit("red"), Put("red", True), OptFlag("nan", "nan")>>), Lit(">")>>
PrintTmemLoadSPCompress(v) == PrintTmemHead(v) \o <<Comma, v.redOp>> \o PrintFlag("red", v.red)
  \o PrintFlag("nan", v.nan) \o <<Gt>>
VerifyTmemLoadSPCompress(v) ==
  /\ v.numDp[2] = 32 /\ v.numBit[2] = 32
  /\ v.valType = Elem("f32")
  /\ v.numRep[2] \in 4..128 /\ IsPow2(v.numRep[2])
  /\ v.nan = True => v.red = True

IsUtccp(v) ==
  LET dp == v.numDp[2]  bit == v.numBit[2]  b == v.broadcast[2] IN
  \/ b = "none" /\ dp \in {4, 128} /\ bit \in {128, 256}
  \/ b = "x4" /\ dp = 32 /\ bit = 128
  \/ b \in {"lw_0213", "lw_0123"} /\ dp = 64 /\ bit = 128
VerifyS2T(v) == v.numCta[2] \in {1, 2} /\ IsUtccp(v)

SigCopyS2T == <<<<"valType", "type">>, <<"numDp", "int">>, <<"numBit", "int">>, <<"numCta", "int">>,
                <<"broadcast", "CopyS2TBroadcast">>>>
FromCopyS2T == [broadcast |-> Kw("none")]
ReadCopyS2T == <<Lit("<"), Val("valType", "type"), Lit(",")>> \o CountOf("DP", "numDp") \o <<Lit(",")>>
  \o CountOf("bit", "numBit") \o <<Lit(",")>> \o CountOf("cta", "numCta")
  \o <<Opt(",", <<Val("broadcast", "CopyS2TBroadcast")>>), Lit(">")>>
PrintCopyS2T(v) == <<Lt, v.valType, Comma, v.numDp, Kw("DP"), Comma, v.numBit, Kw("bit"), Comma,
    v.numCta, Kw("cta")>>
  \o (IF v.broadcast = Kw("none") THEN <<>> ELSE <<Comma, v.broadcast>>) \o <<Gt>>

SigS2TCopyV2 == <<<<"valType", "type">>, <<"numDp", "int">>, <<"numBit", "int">>, <<"numCta", "int">>,
                  <<"smemMajor", "MajorMode">>, <<"broadcast", "CopyS2TBroadcast">>>>
ReadS2TCopyV2 == <<Lit("<"), Val("valType", "type")>> \o NextKeyField("num_dp", "numDp", "int")
  \o NextKeyField("num_bit", "numBit", "int") \o NextKeyField("num_cta", "numCta", "int")
  \o NextKeyField("smem_major", "smemMajor", "MajorMode")
  \o <<Opt(",", KeyField("broadcast", "broadcast", "CopyS2TBroadcast")), Lit(">")>>
PrintS2TCopyV2(v) == <<Lt, v.valType>> \o PrintNextKey("num_dp", v.numDp) \o PrintNextKey("num_bit", v.numBit)
  \o PrintNextKey("num_cta", v.numCta) \o PrintNextKey("smem_major", v.smemMajor)
  \o (IF v.broadcast = Kw("none") THEN <<>> ELSE PrintNextKey("broadcast", v.broadcast)) \o <<Gt>>

(************************* ldmatrix, stmatrix *****************************)
SigLdsm == <<<<"valType", "type">>, <<"mode", "shape">>, <<"szPattern", "LdsmSzPattern">>,
             <<"numMatrices", "int">>, <<"transpose", "flag">>>>
SigStsm == <<<<"valType", "type">>, <<"mode", "shape">>, <<"numMatrices", "int">>, <<"transpose", "flag">>>>
ReadLdsm == <<Lit("<")>> \o KeyField("val_type", "valType", "type") \o NextKeyField("mode", "mode", "shape")
  \o NextKeyField("sz_pattern", "szPattern", "LdsmSzPattern")
  \o NextKeyField("num_matrices", "numMatrices", "int") \o <<Lit(","), Val("transpose", "t or n"), Lit(">")>>
ReadStsm == <<Lit("<"), Val("valType", "type")>> \o NextKeyField("mode", "mode", "shape")
  \o NextKeyField("num_matrices", "numMatrices", "int") \o <<Lit(","), Val("transpose", "t or n"), Lit(">")>>
PrintTranspose(v) == <<Comma, Kw(IF v.transpose = True THEN "t" ELSE "n"), Gt>>
PrintLdsm(v) == <<Lt>> \o PrintKey("val_type", v.valType) \o PrintNextKey("mode", v.mode)
  \o PrintNextKey("sz_pattern", v.szPattern) \o PrintNextKey("num_matrices", v.numMatrices) \o PrintTranspose(v)
PrintStsm(v) == <<Lt, v.valType>> \o PrintNextKey("mode", v.mode)
  \o PrintNextKey("num_matrices", v.numMatrices) \o PrintTranspose(v)

(******************************** TMA *************************************)
VerifySparsity(v) == v.sparsity[2] \in {1, 2, 4, 8, 16}
TmaHead(sparse) == <<Lit("<"), Val("valType", "type"), Lit(",")>>
  \o (IF sparse THEN <<Opt("sparsity", <<Lit("="), Val("sparsity", "int"), Lit(",")>>)>> ELSE <<>>)
  \o KeyField("copy_bits", "copyBits", "int")
PrintTmaHead(v, sparsity) == <<Lt, v.valType>>
  \o (IF sparsity = Int_(1) THEN <<>> ELSE PrintNextKey("sparsity", sparsity))
  \o PrintNextKey("copy_bits", v.copyBits)
PrintGbasis(v) == IF v.tmaGbasis = Absent THEN <<>> ELSE PrintKey("tma_gbasis", v.tmaGbasis)
PrintTmaTail(v) == PrintNextKey("g_stride", v.gStride) \o PrintGbasis(v)
Gbasis == OptKeyField("tma_gbasis", "tmaGbasis", "attr")
Oob == OptKeyField("override", "override", "bool") \o OptKeyField("no_fully_oob_tile", "noFullyOobTile", "bool")
PrintOob(v) == PrintTrue("override", v.override) \o PrintTrue("no_fully_oob_tile", v.noFullyOobTile)
FromOob == [sparsity |-> Int_(1), tmaGbasis |-> Absent, override |-> False, noFullyOobTile |-> False]

SigTmaLoad == <<<<"valType", "type">>, <<"sparsity", "int">>, <<"copyBits", "int">>, <<"mode", "TmaLoadMode">>,
  <<"numCta", "int">>, <<"gStride", "attr">>, <<"mcast", "bool">>, <<"tmaGbasis", "attr?">>,
  <<"override", "bool">>, <<"noFullyOobTile", "bool">>>>
FromTmaLoad == [mcast |-> False] @@ FromOob
ReadTmaLoad == TmaHead(TRUE) \o NextKeyField("mode", "mode", "TmaLoadMode")
  \o NextKeyField("num_cta", "numCta", "int") \o NextKeyField("g_stride", "gStride", "attr")
  \o OptKeyField("mcast", "mcast", "bool") \o Gbasis \o Oob \o <<Lit(">")>>
PrintTmaLoad(v) == PrintTmaHead(v, v.sparsity) \o PrintNextKey("mode", v.mode)
  \o PrintNextKey("num_cta", v.numCta) \o PrintNextKey("g_stride", v.gStride)
  \o PrintTrue("mcast", v.mcast) \o PrintGbasis(v) \o PrintOob(v) \o <<Gt>>

SigTmaStore == <<<<"valType", "type">>, <<"sparsity", "int">>, <<"copyBits", "int">>,
  <<"mode", "TmaStoreMode">>, <<"gStride", "attr">>, <<"tmaGbasis", "attr?">>,
  <<"override", "bool">>, <<"noFullyOobTile", "bool">>>>
ReadTmaStore == TmaHead(TRUE) \o NextKeyField("mode", "mode", "TmaStoreMode")
  \o NextKeyField("g_stride", "gStride", "attr") \o Gbasis \o Oob \o <<Lit(">")>>
PrintTmaStore(v) == PrintTmaHead(v, v.sparsity) \o PrintNextKey("mode", v.mode) \o PrintTmaTail(v)
  \o PrintOob(v) \o <<Gt>>

SigTmaReduce == <<<<"valType", "type">>, <<"copyBits", "int">>, <<"mode", "TmaStoreMode">>,
  <<"kind", "ReductionKind">>, <<"gStride", "attr">>, <<"tmaGbasis", "attr?">>>>
FromTmaReduce == [tmaGbasis |-> Absent]
ReadTmaReduce == TmaHead(FALSE) \o NextKeyField("mode", "mode", "TmaStoreMode")
  \o NextKeyField("kind", "kind", "ReductionKind") \o NextKeyField("g_stride", "gStride", "attr")
  \o Gbasis \o <<Lit(">")>>
PrintTmaReduce(v) == PrintTmaHead(v, Int_(1)) \o PrintNextKey("mode", v.mode) \o PrintNextKey("kind", v.kind)
  \o PrintTmaTail(v) \o <<Gt>>

SigIm2ColLoad == <<<<"valType", "type">>, <<"copyBits", "int">>, <<"numCta", "int">>, <<"gStride", "attr">>,
  <<"mcast", "bool">>, <<"tmaGbasis", "attr?">>>>
FromIm2ColLoad == [mcast |-> False, tmaGbasis |-> Absent]
ReadIm2ColLoad == TmaHead(FALSE) \o NextKeyField("num_cta", "numCta", "int")
  \o NextKeyField("g_stride", "gStride", "attr") \o OptKeyField("mcast", "mcast", "bool") \o Gbasis \o <<Lit(">")>>
PrintIm2ColLoad(v) == PrintTmaHead(v, Int_(1)) \o PrintNextKey("num_cta", v.numCta)
  \o PrintNextKey("g_stride", v.gStride) \o PrintTrue("mcast", v.mcast) \o PrintGbasis(v) \o <<Gt>>

SigIm2ColStore == <<<<"valType", "type">>, <<"copyBits", "int">>, <<"gStride", "attr">>, <<"tmaGbasis", "attr?">>>>
ReadIm2ColStore == TmaHead(FALSE) \o NextKeyField("g_stride", "gStride", "attr") \o Gbasis \o <<Lit(">")>>
PrintIm2ColStore(v) == PrintTmaHead(v, Int_(1)) \o PrintTmaTail(v) \o <<Gt>>

(******************** TMA atoms that are not executable *******************)
SigNonExec == <<<<"valType", "type">>, <<"copyBits", "int">>, <<"tmaGbasis", "attr">>,
                <<"tmaFormat", "TmaDataFormat?">>>>
SigTiledLoad == <<<<"kind", "TiledTmaLoad">>>> \o SigNonExec
SigTiledReduce == <<<<"kind", "ReductionKind">>>> \o SigNonExec
SigIm2ColNonExec == <<<<"kind", "TiledTmaLoad">>>> \o SigNonExec
SigGather4 == <<<<"kind", "GatherScatterTmaLoad">>>> \o SigNonExec
SigTiledStore == SigNonExec
SigIm2ColStoreNonExec == SigNonExec
SigScatter4 == SigNonExec
\* parseNonExecTma: the format is the element's unless one is given, which may be empty
ReadNonExecTma(kind) == <<Lit("<")>>
  \o (IF kind = "" THEN <<>> ELSE <<Val("kind", kind), Lit(",")>>)
  \o <<Val("valType", "type")>> \o NextKeyField("copy_bits", "copyBits", "int")
  \o NextKeyField("tma_gbasis", "tmaGbasis", "attr")
  \o <<Either(",", <<Lit("tma_format"), Lit("="),
                     Either(">", <<Put("tmaFormat", Absent)>>, <<Val("tmaFormat", "TmaDataFormat"), Lit(">")>>)>>,
              <<Put("tmaFormat", Kw("default")), Lit(">")>>)>>
PrintNonExecTma(v) ==
  <<Lt>> \o (IF "kind" \in DOMAIN v THEN <<v.kind, Comma>> ELSE <<>>) \o <<v.valType>>
  \o PrintNextKey("copy_bits", v.copyBits) \o PrintNextKey("tma_gbasis", v.tmaGbasis)
  \o <<Comma, Kw("tma_format"), Kw("=")>>
  \o (IF v.tmaFormat = Absent THEN <<>> ELSE <<v.tmaFormat>>) \o <<Gt>>
VerifyNonExecTma(v) == v.copyBits # Int_(0)
NonExecFormat(v) == IF v.tmaFormat = Kw("default") THEN DefaultTmaDataFormat(v.valType) ELSE v.tmaFormat
=============================================================================
