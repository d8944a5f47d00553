------------------------------ MODULE TypeText ------------------------------
(***************************************************************************)
(* The life of a cute or cute_nvgpu type across the C boundary: a caller builds it *)
(* from raw arguments, the IR that holds it is printed, another process    *)
(* parses the text, and the type it gets is taken apart by the getters and *)
(* printed again.  zml does all of this: kernels are built through the C   *)
(* API, handed over as text and rebuilt (cute_ir.zig).                     *)
(***************************************************************************)
EXTENDS PtrText

CONSTANTS Rounds     \* how often a type is printed and read again

VARIABLES kind,      \* the class of the type
          atom,      \* its parameters: what the storage of the type holds
          text,      \* what it was printed as
          back,      \* what that text was read as
          stage, round
vars == <<kind, atom, text, back, stage, round>>

(***************************************************************************)
(* The classes.                                                            *)
(***************************************************************************)
Ummas == [SM100UMMA |-> SM100UMMA, SM100UMMASparse |-> SM100UMMASparse,
  SM100UMMABlockScaled |-> SM100UMMABlockScaled, SM100UMMABlockScaledSparse |-> SM100UMMABlockScaledSparse,
  SM107UMMA |-> SM107UMMA, SM107UMMASparse |-> SM107UMMASparse,
  SM107UMMABlockScaled |-> SM107UMMABlockScaled, SM107UMMABlockScaledSparse |-> SM107UMMABlockScaledSparse]
NonExec == [NonExecTiledLoad |-> "TiledTmaLoad", NonExecTiledReduce |-> "ReductionKind",
  NonExecIm2ColLoad |-> "TiledTmaLoad", NonExecGather4 |-> "GatherScatterTmaLoad",
  NonExecTiledStore |-> "", NonExecIm2ColStore |-> "", NonExecScatter4 |-> ""]
SigBare == <<>>

Sigs ==
  [SIMTSyncCopy |-> SigSIMTSyncCopy, SIMTAsyncCopy |-> SigSIMTAsyncCopy, DsmemStore |-> SigDsmemStore,
   BulkCopyG2S |-> SigBulkCopyG2S, BulkCopyS2G |-> SigBulkCopyS2G, BulkCopyS2S |-> SigBulkCopyS2S,
   G2R |-> SigG2R, R2G |-> SigR2G, R2S |-> SigR2S, S2R |-> SigS2R,
   MultimemSt |-> SigMultimemSt, MultimemRed |-> SigMultimemRed, MultimemLdReduce |-> SigMultimemLdReduce,
   TmemLoad |-> SigTmemLoad, TmemStore |-> SigTmemStore, TmemLoadRed |-> SigTmemLoadRed,
   TmemLoadSPCompress |-> SigTmemLoadSPCompress, CopyS2T |-> SigCopyS2T, S2TCopyV2 |-> SigS2TCopyV2,
   Ldsm |-> SigLdsm, Stsm |-> SigStsm, TmaLoad |-> SigTmaLoad, TmaStore |-> SigTmaStore,
   TmaReduce |-> SigTmaReduce, Im2ColLoad |-> SigIm2ColLoad, Im2ColStore |-> SigIm2ColStore,
   NonExecTiledLoad |-> SigTiledLoad, NonExecTiledReduce |-> SigTiledReduce,
   NonExecIm2ColLoad |-> SigIm2ColNonExec, NonExecGather4 |-> SigGather4, NonExecTiledStore |-> SigTiledStore,
   NonExecIm2ColStore |-> SigIm2ColStoreNonExec, NonExecScatter4 |-> SigScatter4,
   UniversalFma |-> SigUniversalFma, SM80 |-> SigSM80, SM80Sparse |-> SigSM80Sparse, SM89 |-> SigSM89,
   SM90 |-> SigSM90, SM120 |-> SigSM120,
   SmemDescCircular |-> SigSmemDescCircular, SmemDescView |-> SigSmemDescView,
   SmemDesc |-> SigBare, WorkIdResponse |-> SigBare]
  @@ [SM100UMMA |-> SigSM100UMMA, SM100UMMASparse |-> SigSM100UMMASparse,
   SM100UMMABlockScaled |-> SigSM100UMMABlockScaled,
   SM100UMMABlockScaledSparse |-> SigSM100UMMABlockScaledSparse,
   SM107UMMA |-> SigSM107UMMA, SM107UMMASparse |-> SigSM107UMMASparse,
   SM107UMMABlockScaled |-> SigSM107UMMABlockScaled,
   SM107UMMABlockScaledSparse |-> SigSM107UMMABlockScaledSparse]
  @@ [IntTuple |-> SigIntTuple, Coord |-> SigCoord, Shape |-> SigShapeType, Stride |-> SigStride, Tile |-> SigTile,
   Layout |-> SigLayout, Swizzle |-> SigSwizzle, ComposedLayout |-> SigComposedLayout,
   Ptr |-> SigPtr, MemRef |-> SigMemRef, ArithTupleIterator |-> SigArithTupleIterator,
   CoordTensor |-> SigCoordTensor, ConstrainedInt |-> SigConstrainedInt,
   FastDivmodDivisor |-> SigFastDivmodDivisor, SparseElem |-> SigSparseElem, TiledCopy |-> SigTiledCopy,
   TiledCopyV2 |-> SigTiledCopyV2, TiledMma |-> SigTiledMma, Tuple |-> SigTuple]

From ==
  [SIMTSyncCopy |-> FromSIMTSyncCopy, SIMTAsyncCopy |-> FromSIMTAsyncCopy, DsmemStore |-> FromDsmemStore,
   BulkCopyG2S |-> FromBulkCopyG2S, BulkCopyS2G |-> FromBulkCopyS2G, BulkCopyS2S |-> FromBulkCopyS2S,
   G2R |-> FromG2R, R2G |-> FromR2G, R2S |-> FromOrdered, S2R |-> FromOrdered,
   MultimemSt |-> FromMultimemSt, MultimemRed |-> FromMultimemRed, MultimemLdReduce |-> FromMultimemLdReduce,
   TmemLoad |-> FromTmemLoad, TmemStore |-> FromTmemStore, TmemLoadRed |-> FromTmemLoadRed,
   TmemLoadSPCompress |-> FromTmemLoadSPCompress, CopyS2T |-> FromCopyS2T, S2TCopyV2 |-> FromCopyS2T,
   TmaLoad |-> FromTmaLoad, TmaStore |-> FromOob, TmaReduce |-> FromTmaReduce,
   Im2ColLoad |-> FromIm2ColLoad, Im2ColStore |-> FromTmaReduce,
   SM80 |-> FromSM80, SM80Sparse |-> FromOverflow, SM90 |-> FromSM90]
  @@ [k \in DOMAIN Ummas |-> FromUmma(Ummas[k])]   @@ [Ptr |-> FromPtr, MemRef |-> FromMemRef, ConstrainedInt |-> FromConstrainedInt,
      FastDivmodDivisor |-> FromFastDivmodDivisor, TiledMma |-> FromTiledMma]
  @@ [k \in DOMAIN Sigs |-> <<>>]

Readers ==
  [SIMTSyncCopy |-> ReadSIMTSyncCopy, SIMTAsyncCopy |-> ReadSIMTAsyncCopy, DsmemStore |-> ReadDsmemStore,
   BulkCopyG2S |-> ReadBulkCopyG2S, BulkCopyS2G |-> ReadBulkCopyS2G, BulkCopyS2S |-> ReadBulkCopyS2S,
   G2R |-> ReadG2R, R2G |-> ReadR2G, R2S |-> ReadSharedCopy, S2R |-> ReadSharedCopy,
   MultimemSt |-> ReadMultimem(FALSE, FALSE), MultimemRed |-> ReadMultimem(TRUE, FALSE),
   MultimemLdReduce |-> ReadMultimem(TRUE, TRUE),
   TmemLoad |-> ReadTmemLoad, TmemStore |-> ReadTmemStore, TmemLoadRed |-> ReadTmemLoadRed,
   TmemLoadSPCompress |-> ReadTmemLoadSPCompress, CopyS2T |-> ReadCopyS2T, S2TCopyV2 |-> ReadS2TCopyV2,
   Ldsm |-> ReadLdsm, Stsm |-> ReadStsm, TmaLoad |-> ReadTmaLoad, TmaStore |-> ReadTmaStore,
   TmaReduce |-> ReadTmaReduce, Im2ColLoad |-> ReadIm2ColLoad, Im2ColStore |-> ReadIm2ColStore,
   UniversalFma |-> ReadUniversalFma, SM80 |-> ReadSM80, SM80Sparse |-> ReadSM80Sparse, SM89 |-> ReadSM89,
   SM90 |-> ReadSM90, SM120 |-> ReadSM120,
   SmemDescCircular |-> ReadSmemDescCircular, SmemDescView |-> ReadSmemDescView,
   SmemDesc |-> <<>>, WorkIdResponse |-> <<>>]
  @@ [k \in DOMAIN Ummas |-> ReadUmma(Ummas[k])] @@ [k \in DOMAIN NonExec |-> ReadNonExecTma(NonExec[k])]
  @@ [IntTuple |-> ReadIntTuple, Coord |-> ReadCoord, Shape |-> ReadShapeType, Stride |-> ReadStride,
      Tile |-> ReadTile, Layout |-> ReadLayout, Swizzle |-> ReadSwizzle, ArithTupleIterator |-> ReadArithTupleIterator,
      ComposedLayout |-> ReadComposedLayout, Ptr |-> ReadPtr, MemRef |-> ReadMemRef,
      CoordTensor |-> ReadCoordTensor, ConstrainedInt |-> ReadConstrainedInt,
      FastDivmodDivisor |-> ReadFastDivmodDivisor, SparseElem |-> ReadSparseElem, TiledCopy |-> ReadTiledCopy,
      TiledCopyV2 |-> ReadTiledCopy, TiledMma |-> ReadTiledMma, Tuple |-> ReadTuple]

Printed(k, v) ==
  CASE k = "SIMTSyncCopy" -> PrintSIMTSyncCopy(v) [] k = "SIMTAsyncCopy" -> PrintSIMTAsyncCopy(v)
    [] k = "DsmemStore" -> PrintDsmemStore(v) [] k = "BulkCopyG2S" -> PrintBulkCopyG2S(v)
    [] k = "BulkCopyS2G" -> PrintBulkCopyS2G(v) [] k = "BulkCopyS2S" -> PrintBulkCopyS2S(v)
    [] k = "G2R" -> PrintG2R(v) [] k = "R2G" -> PrintR2G(v) [] k \in {"R2S", "S2R"} -> PrintSharedCopy(v)
    [] k = "MultimemSt" -> PrintMultimemSt(v) [] k = "MultimemRed" -> PrintMultimemRed(v)
    [] k = "MultimemLdReduce" -> PrintMultimemLdReduce(v)
    [] k = "TmemLoad" -> PrintTmemLoad(v) [] k = "TmemStore" -> PrintTmemStore(v)
    [] k = "TmemLoadRed" -> PrintTmemLoadRed(v) [] k = "TmemLoadSPCompress" -> PrintTmemLoadSPCompress(v)
    [] k = "CopyS2T" -> PrintCopyS2T(v) [] k = "S2TCopyV2" -> PrintS2TCopyV2(v)
    [] k = "Ldsm" -> PrintLdsm(v) [] k = "Stsm" -> PrintStsm(v)
    [] k = "TmaLoad" -> PrintTmaLoad(v) [] k = "TmaStore" -> PrintTmaStore(v)
    [] k = "TmaReduce" -> PrintTmaReduce(v) [] k = "Im2ColLoad" -> PrintIm2ColLoad(v)
    [] k = "Im2ColStore" -> PrintIm2ColStore(v) [] k \in DOMAIN NonExec -> PrintNonExecTma(v)
    [] k = "UniversalFma" -> PrintUniversalFma(v) [] k = "SM80" -> PrintSM80(v)
    [] k = "SM80Sparse" -> PrintSM80Sparse(v) [] k = "SM89" -> PrintSM89(v) [] k = "SM90" -> PrintSM90(v)
    [] k = "SM120" -> PrintSM120(v) [] k \in DOMAIN Ummas -> PrintUmma(Ummas[k], v)
    [] k = "SmemDescCircular" -> PrintSmemDescCircular(v) [] k = "SmemDescView" -> PrintSmemDescView(v)
    [] k \in {"SmemDesc", "WorkIdResponse"} -> <<>>
    [] DOMAIN v = {"attr"} -> PrintAlgebra(v)
    [] k = "Ptr" -> PrintPtr(v) [] k = "MemRef" -> PrintMemRef(v) [] k = "CoordTensor" -> PrintCoordTensor(v)
    [] k = "ConstrainedInt" -> PrintConstrainedInt(v) [] k = "FastDivmodDivisor" -> PrintFastDivmodDivisor(v)
    [] k = "SparseElem" -> PrintSparseElem(v) [] k \in {"TiledCopy", "TiledCopyV2"} -> PrintTiledCopy(v)
    [] k = "TiledMma" -> PrintTiledMma(v) [] k = "Tuple" -> PrintTuple(v)

\* The verifier of a class; a class without one (get, not getChecked) takes anything
Verified(k, v) ==
  CASE k = "SIMTSyncCopy" -> VerifySIMTSyncCopy(v) [] k = "DsmemStore" -> VerifyDsmemStore(v)
    [] k = "G2R" -> VerifyG2R(v) [] k = "R2G" -> VerifyR2G(v) [] k \in {"R2S", "S2R"} -> VerifyCopyBits(v)
    [] k \in {"TmemLoad", "TmemStore"} -> VerifyTmemCopy(v)
    [] k = "TmemLoadRed" -> VerifyTmemLoadRed(v)
    [] k = "TmemLoadSPCompress" -> VerifyTmemLoadSPCompress(v)
    [] k \in {"CopyS2T", "S2TCopyV2"} -> VerifyS2T(v)
    [] k \in {"TmaLoad", "TmaStore"} -> VerifySparsity(v)
    [] k \in DOMAIN NonExec -> VerifyNonExecTma(v)
    [] k \in {"UniversalFma", "SM80", "SM80Sparse", "SM89", "SM90", "SM120"} -> VerifyShapeMNK(v)
    [] k \in DOMAIN Ummas -> VerifyUmma(Ummas[k], v)
    [] k = "SmemDescCircular" -> VerifyCircular(v) [] k = "SmemDescView" -> VerifySmemDescView(v)
    [] k = "Layout" -> VerifyLayout(v) [] k = "ComposedLayout" -> VerifyComposedLayout(v)
    [] k = "Swizzle" -> VerifySwizzle(v) [] k = "Ptr" -> VerifyPtr(v) [] k = "MemRef" -> VerifyMemRef(v)
    [] k = "CoordTensor" -> VerifyCoordTensor(v) [] k = "SparseElem" -> VerifySparseElem(v)
    [] k = "TiledMma" -> VerifyTiledMma(v)
    [] OTHER -> TRUE

\* What a parser does with the width or the format it may have found missing
Completed(k, v) ==
  CASE k \in {"SIMTAsyncCopy", "DsmemStore", "G2R", "R2G", "R2S", "S2R"} ->
         [v EXCEPT !.copyBits = OrElementBits(v.copyBits, v.valType)]
    [] k = "MultimemRed" -> [v EXCEPT !.copyBits = MultimemRedBits(v)]
    [] k \in DOMAIN NonExec -> [v EXCEPT !.tmaFormat = NonExecFormat(v)]
    [] k = "Ptr" -> BuildPtr(v) [] k = "MemRef" -> BuildMemRef(v)
    [] OTHER -> v
Read(k, toks) ==
  LET got == Parse(Readers[k], toks, From[k]) IN
  IF got = Failure THEN Failure
  ELSE LET v == Completed(k, got) IN IF v # Failure /\ Verified(k, v) THEN v ELSE Failure

(***************************************************************************)
(* The C constructors and getters.  Bad stands for an argument that is not *)
(* of the context, not of the class or not a value of the enum; a null     *)
(* handle is Absent, and a std::optional enum is negative when there is    *)
(* none.                                                                   *)
(***************************************************************************)
Bad == <<"bad">>
None == Int_(-1)
NullHandles == {"attr?", "type?", "swizzle?", "bits?", "tile?", "MMAIntOverflow?", "BinaryOp?", "LdReduceAccPrecisionKind?"}
Unwraps(sort, raw) == raw # Bad /\ (raw = Absent => sort \in NullHandles)
Unwrapped(sort, raw) ==
  CASE sort = "flag" -> IF raw = True THEN True ELSE Absent
    [] sort = "TmaDataFormat?" -> IF raw = None THEN Absent ELSE raw
    [] OTHER -> raw
\* bug: an empty format is handed out as the first one
GottenZero(sort, value) ==
  CASE sort = "flag" -> IF value = Absent THEN False ELSE True
    [] sort = "TmaDataFormat?" -> IF value = Absent THEN Kw("U8") ELSE value
    [] OTHER -> value
Gotten(sort, value) ==
  CASE sort = "flag" -> IF value = Absent THEN False ELSE True
    [] sort = "TmaDataFormat?" -> IF value = Absent THEN None ELSE value
    [] OTHER -> value

SortOf(k) == [n \in {s[1] : s \in Pairs(Sigs[k])} |-> CHOOSE t \in {s[2] : s \in Pairs(Sigs[k])} : <<n, t>> \in Pairs(Sigs[k])]
Sorts == [k \in DOMAIN Sigs |-> SortOf(k)]
Construct(k, args) ==
  LET sorts == Sorts[k]
      v == [n \in DOMAIN sorts |-> Unwrapped(sorts[n], args[n])]
  IN IF (\A n \in DOMAIN sorts : Unwraps(sorts[n], args[n])) /\ Verified(k, v) THEN v ELSE Failure
Getters(k, v) == [n \in DOMAIN Sorts[k] |-> Gotten(Sorts[k][n], v[n])]

(***************************************************************************)
(* The arguments a caller tries: an ordinary call with up to two of its    *)
(* arguments changed.                                                      *)
(***************************************************************************)
Layouts == {Layout_(<<<<4, 2>>, <<2, 1>>>>), Layout_(<<<<4, 4>>, <<2, 1>>, <<3, 8>>>>), Layout_(<<<<3, 1>>, <<2, 3>>>>),
  Layout_(<<<<8, Dyn>>>>), Layout_(<<<<4, Basis>>>>)}
Composed == {Composed_(Identity, <<0>>, Layout_(<<<<8, 1>>>>)), Composed_(Identity, <<3>>, Layout_(<<<<8, 1>>>>)),
  Composed_(Swizzle_(3, 4, 3), <<0>>, Layout_(<<<<8, 1>>>>)), Composed_(Swizzle_(3, 0, 3), <<0>>, Layout_(<<<<8, 1>>>>)),
  Composed_(Layout_(<<<<4, 1>>, <<4, 8>>>>), <<0>>, Layout_(<<<<8, 2>>>>))}
PtrFields ==
  [valueType : {Elem("f16"), Elem("f4"), Sparse, Elem("vec"), Absent}, addressSpace : {Kw("gmem"), Kw("tmem")},
   alignment : {Int_(a) : a \in {0, 1, 2, 16}}, swizzle : {Absent, Identity, Swizzle_(3, 4, 3)},
   bitlayout : {Absent, Bits_(16, <<<<1, 16>>>>), Bits_(16, <<<<2, 16>>>>), Bits_(4, <<<<8, 4>>>>)}]
OfType == {Elem("f32"), Elem("f16"), Bad}
Raws(n, sort) ==
  CASE n = "valType" -> {Elem("f32"), Elem("f16"), Elem("i32"), Elem("vec"), Bad}
    [] n = "valueType" -> {Elem(t) : t \in {"f16", "i32", "f4", "i1", "i8x2sparse", "vec"}}
                          \cup {Ptr_([BuildPtr(FromPtr) EXCEPT !.addressSpace = Kw("gmem")]), Absent, Bad}
    [] n = "alignment" -> {Int_(b) : b \in {0, 1, 2, 4, 16}}
    [] n = "width" -> {Int_(b) : b \in {32, 8}}
    [] n = "divisibility" -> {Int_(b) : b \in {1, 8, 0, -4}}
    [] n = "physicalType" -> {Elem("i32"), Elem("vec"), Sparse, Bad}
    [] n = "desc" -> {Elem("smem_desc"), Elem("smem_desc_circular"), Elem("f32"), Bad}
    [] n = "copyBits" -> {Int_(b) : b \in {32, 0, 4, 24, 128}}
    [] n = "numDp" -> {Int_(b) : b \in {32, 4, 16, 64, 128}}
    [] n = "numBit" -> {Int_(b) : b \in {32, 64, 128, 256}}
    [] n = "numRep" -> {Int_(b) : b \in {4, 1, 2, 24, 32, 64, 128, 256}}
    [] n = "numCta" -> {Int_(b) : b \in {1, 2, 0, 3}}
    [] n = "sparsity" -> {Int_(b) : b \in {1, 2, 3}}
    [] n = "cScaleExp" -> {Int_(b) : b \in {0, -1, 15, 16}}
    [] sort = "int" -> {Int_(b) : b \in {16, 0, -1}}
    [] sort = "swizzle?" -> {Identity, Swizzle_(3, 4, 3), Swizzle_(0, 3, 3), Absent, Bad}
    [] sort = "bits?" -> {Bits_(16, <<<<1, 16>>>>), Bits_(16, <<<<2, 16>>>>), Bits_(4, <<<<1, 4>>>>),
                          Bits_(4, <<<<2, 4>>>>), Bits_(8, <<<<2, 0>>, <<1, 8>>>>), Bits_(32, <<<<3, 32>>>>), Absent, Bad}
    [] sort = "ptr" -> {Ptr_(p) : p \in {p \in PtrFields : VerifyPtr(p)}} \cup {Bad}
    [] sort = "any layout" -> Layouts \cup Composed \cup {Elem("f32"), Bad}
    [] sort = "LayoutAttr" -> Layouts \cup {Layout_(<<<<0, 1>>>>), Layout_(<<<<4, 1>>, <<2, NoStride>>>>), Bad}
    [] sort = "SwizzleAttr" -> {Swizzle_(3, 4, 3), Swizzle_(2, 4, -3), Identity, Bad}
    [] sort = "ComposedLayoutAttr" -> (Composed \ {Composed_(Identity, <<0>>, Layout_(<<<<8, 1>>>>))})
         \cup {Composed_(Layout_(<<<<4, 1>>, <<4, 8>>>>), <<1, 2>>, Layout_(<<<<8, Basis>>>>)),
               Composed_(Swizzle_(3, 4, 3), <<1, 2>>, Layout_(<<<<8, Basis>>>>)),
               Composed_(Swizzle_(3, 4, 3), <<1, 2>>, Layout_(<<<<8, 1>>>>)),
               Composed_(Swizzle_(3, 4, 3), <<0>>, Layout_(<<<<0, 1>>>>)), Bad}
    [] sort = "tile?" -> {<<"tile", 3>>, <<"tile", 2>>, Absent, Bad}
    [] sort = "types" -> {Types_(<<>>), Types_(<<Elem("f32")>>), Types_(<<Elem("i32"), Elem("f32")>>), Bad}
    [] sort = "type" -> OfType
    [] sort = "shape" -> {Shape_(<<16, 8, 16>>), Shape_(<<8, 8>>), Shape_(<<>>), Bad}
    [] sort = "layout" ->
         {Layout_(<<<<8, 128>>, <<128, 1>>, <<n3, 1024>>>>) : n3 \in {2, 1, Dyn}}
         \cup {Layout_(<<<<4, 128>>, <<128, 1>>, <<2, 1024>>>>), Layout_(<<<<8, 1>>>>), Bad}
    [] sort = "attr" -> {Payload("x"), Payload("y"), Bad}
    [] sort = "attr?" -> {Payload("x"), Payload("y"), Absent, Bad}
    [] sort \in {"bool", "flag"} -> {True, False}
    [] sort = "TmaDataFormat?" -> {Kw("F32_RN"), Kw("U8"), None, Bad}
    [] sort \in NullHandles -> {Absent, Bad} \cup
         {Kw(e) : e \in Enum[CASE sort = "MMAIntOverflow?" -> "MMAIntOverflow" [] sort = "BinaryOp?" -> "BinaryOp"
                               [] OTHER -> "LdReduceAccPrecisionKind"]}
    [] OTHER -> {Kw(e) : e \in Enum[sort]} \cup {Bad}

Usual == {"f32", "x", "weak", "cta", "none", "evict_normal", "always", "write_back", "generic", "k", "ADD", "max",
          "u16", "tiled", "sm_90", "sm_100", "F32_RN", "tid", "discard", "smem_desc", "relaxed"}
Ordinary(n, sort) ==
  LET s == Raws(n, sort)
      named == {c \in s : c[1] \in {"kw", "type", "attr"} /\ c[2] \in Usual} IN
  CASE n = "copyBits" -> Int_(32) [] n = "numDp" -> Int_(32) [] n = "numBit" -> Int_(32)
    [] n = "numRep" -> Int_(4) [] n \in {"numCta", "sparsity"} -> Int_(1) [] n = "cScaleExp" -> Int_(0)
    [] n = "valueType" -> Elem("f16") [] n = "alignment" -> Int_(2) [] n = "width" -> Int_(32)
    [] n = "divisibility" -> Int_(8) [] n = "physicalType" -> Elem("i32")
    [] sort = "ptr" -> Ptr_([BuildPtr(FromPtr) EXCEPT !.valueType = Elem("f16"), !.alignment = Int_(16)])
    [] sort = "any layout" -> Layout_(<<<<4, 2>>, <<2, 1>>>>) [] sort = "LayoutAttr" -> Layout_(<<<<4, 2>>, <<2, 1>>>>)
    [] sort = "SwizzleAttr" -> Swizzle_(3, 4, 3)
    [] sort = "ComposedLayoutAttr" -> Composed_(Swizzle_(3, 4, 3), <<0>>, Layout_(<<<<8, 1>>>>))
    [] sort = "types" -> Types_(<<Elem("f32")>>)
    [] sort = "int" -> Int_(16) [] sort = "shape" -> Shape_(<<16, 8, 16>>)
    [] sort = "layout" -> Layout_(<<<<8, 128>>, <<128, 1>>, <<2, 1024>>>>)
    [] sort \in {"bool", "flag"} -> False [] Absent \in s -> Absent
    [] OTHER -> CHOOSE c \in named : TRUE
Base == [k \in DOMAIN Sigs |->
  (CASE k \in {"CopyS2T", "S2TCopyV2"} -> [numDp |-> Int_(128), numBit |-> Int_(128)]
     [] k \in {"TmemLoad", "TmemStore"} -> [numDp |-> Int_(16)]
     [] OTHER -> <<>>)
  @@ [n \in DOMAIN Sorts[k] |-> Ordinary(n, Sorts[k][n])]]

(***************************************************************************)
(* The life of one type.                                                   *)
(***************************************************************************)
Init == /\ kind \in DOMAIN Sigs
        /\ atom = Failure /\ text = <<>> /\ back = Failure
        /\ stage = "start" /\ round = 1

Build(args) ==
  /\ stage = "start"
  /\ atom' = Construct(kind, args)
  /\ stage' = IF atom' = Failure THEN "refused" ELSE "built"
  /\ UNCHANGED <<kind, text, back, round>>
TryArgs ==
  \/ Build(Base[kind])
  \/ \E m, n \in DOMAIN Sorts[kind] :
       \E x \in Raws(m, Sorts[kind][m]), y \in Raws(n, Sorts[kind][n]) :
         Build([Base[kind] EXCEPT ![m] = x, ![n] = y])

WriteText ==
  /\ stage = "built"
  /\ text' = Printed(kind, atom)
  /\ stage' = "printed"
  /\ UNCHANGED <<kind, atom, back, round>>

ReadText ==
  /\ stage = "printed"
  /\ back' = Read(kind, text)
  /\ stage' = "read"
  /\ UNCHANGED <<kind, atom, text, round>>

\* The reader goes on with the type it got, rebuilt from its getters
Rebuild ==
  /\ stage = "read" /\ back # Failure /\ round < Rounds
  /\ atom' = Construct(kind, Getters(kind, back))
  /\ stage' = IF atom' = Failure THEN "refused" ELSE "built"
  /\ round' = round + 1
  /\ UNCHANGED <<kind, text, back>>

Next == TryArgs \/ WriteText \/ ReadText \/ Rebuild
Spec == Init /\ [][Next]_vars

(***************************************************************************)
(* Properties.                                                             *)
(***************************************************************************)

\* What a reader makes another type of, or no type: a width of 0 where the parser
\* puts the element's, a binary_op without the int_overflow it is read after, a
\* fragment kind the grammar of the atom has no word for.
ElementWidth(k, v) ==
  k \in {"SIMTAsyncCopy", "DsmemStore", "MultimemRed"} /\ v.copyBits = Int_(0)
  /\ (k = "MultimemRed" \/ ElementBits[v.valType[2]] # 0)
NoGrammar(k, v) ==
  \/ k = "SM80" /\ v.binaryOp # Absent /\ v.intOverflow = Absent
  \/ k = "Tuple" /\ v.types = Types_(<<>>)
  \/ k = "SM90" /\ v.aFragKind \notin {Kw("smem_desc"), Kw("rmem")}
  \/ k \in DOMAIN Ummas /\ v.aFragKind \notin {Kw("smem_desc"), Kw("tmem")}

\* A swizzle or a bit layout spelled out though it is the default one, and a
\* composed layout that only wraps a plain one: the reader makes the shorter type.
SpelledDefault(v) == v.swizzle = Identity \/ (v.bitlayout # Absent /\ v.bitlayout = DefaultBitLayout(v.valueType, v.addressSpace))
LongWay(k, v) ==
  \/ k = "Ptr" /\ SpelledDefault(v)
  \/ k = "MemRef" /\ SpelledDefault(v.ptr[2])
  \/ k \in {"MemRef", "CoordTensor"} /\ Plain(v.layout) # v.layout

\* Printing loses nothing: the text of a type is read as that type, the kinds of
\* value above excepted, and each of those really is lost.  A field that
\* is left out as the default of the printer has to be the default of the parser.
ReadsBack == stage = "read" => 
  (back = atom <=> ~ElementWidth(kind, atom) /\ ~NoGrammar(kind, atom) /\ ~LongWay(kind, atom))

\* A type that came from text is stable: printed and read again it is itself, so
\* no number of hand-overs changes a kernel further.
TextSettles == stage = "read" /\ round > 1 => back = atom

\* A type taken apart by its getters and built again is the same type, none of
\* its optional parts excepted, though each constructor and its getters are
\* written apart and pass enums and missing values as numbers.
RebuildsFromGetters == stage = "read" /\ back # Failure => Construct(kind, Getters(kind, back)) = back

\* The tensor-memory copies that are accepted are those whose fragment fits the
\* 128 registers of 32 bits a lane of a warp can give to it, whatever of data
\* paths, bits and repetitions makes it large.
TmemFitsRegisters ==
  kind \in {"TmemLoad", "TmemStore"} /\ stage \notin {"start", "refused"} =>
    atom.numDp[2] * atom.numBit[2] * atom.numRep[2] <= 32 * 128 * 32

=============================================================================
