---------------------------- MODULE MmaAtomText ----------------------------
(***************************************************************************)
(* The text of the MMA atoms and of the shared-memory descriptors of the   *)
(* cute_nvgpu dialect, in the form CopyAtomText describes.                 *)
(***************************************************************************)
EXTENDS TensorAtomText

VerifyShapeMNK(v) == Len(v.shapeMnk[2]) = 3

SigAbc == <<<<"aType", "type">>, <<"bType", "type">>, <<"cType", "type">>>>
SigShape == <<<<"shapeMnk", "shape">>>>
SigOverflow == <<<<"intOverflow", "MMAIntOverflow?">>>>
SigMajors == <<<<"aMajor", "MajorMode">>, <<"bMajor", "MajorMode">>>>
ReadShape == <<Lit("<"), Val("shapeMnk", "MNK")>>
ReadOverflow == KeyField("int_overflow", "intOverflow", "MMAIntOverflow")
PrintShape(v) == <<Lt, v.shapeMnk>>
PrintOverflow(v) == PrintAttrField("int_overflow", v.intOverflow)

(************************* warp and thread MMAs ***************************)
SigUniversalFma == SigShape \o SigAbc
ReadUniversalFma == ReadShape \o <<Lit(",")>> \o PairOf("aType", "bType", "type")
                    \o <<Lit("->"), Val("cType", "type"), Lit(">")>>
PrintUniversalFma(v) == PrintShape(v) \o <<Comma>> \o PrintPair(v.aType, v.bType)
                        \o <<Kw("->"), v.cType, Gt>>

SigSM80 == SigShape \o SigAbc \o SigOverflow \o <<<<"binaryOp", "BinaryOp?">>>>
FromSM80 == [intOverflow |-> Absent, binaryOp |-> Absent]
ReadTyped == ReadShape \o <<Lit(",")>> \o ElemTypes
PrintTyped(v) == PrintShape(v) \o <<Comma>> \o PrintElemTypes(v)
\* a binary_op is read only after an int_overflow
ReadSM80 == ReadTyped \o
  <<Opt(",", ReadOverflow \o <<Opt(",", KeyField("binary_op", "binaryOp", "BinaryOp"))>>), Lit(">")>>
PrintSM80(v) == PrintTyped(v) \o PrintOverflow(v) \o PrintAttrField("binary_op", v.binaryOp) \o <<Gt>>

SigSM80Sparse == SigShape \o SigAbc \o <<<<"sparseMetadataFormat", "SparseMetadataFormat">>>> \o SigOverflow
FromOverflow == [intOverflow |-> Absent]
ReadSM80Sparse == ReadTyped \o NextKeyField("md_format", "sparseMetadataFormat", "SparseMetadataFormat")
                  \o <<Opt(",", ReadOverflow), Lit(">")>>
PrintSM80Sparse(v) == PrintTyped(v) \o PrintNextKey("md_format", v.sparseMetadataFormat) \o PrintOverflow(v) \o <<Gt>>

SigSM89 == SigShape \o SigAbc
ReadSM89 == ReadTyped \o <<Lit(">")>>
PrintSM89(v) == PrintTyped(v) \o <<Gt>>

SigSM120 == SigShape \o <<<<"vecSize", "int">>>> \o SigAbc
            \o <<<<"sfType", "type">>, <<"useSfLayoutTV", "bool">>>>
ReadSM120 == ReadShape \o NextKeyField("vec_size", "vecSize", "int") \o <<Lit(",")>> \o ElemTypes
  \o NextKeyField("sf_type", "sfType", "type") \o NextKeyField("use_sf_layout_TV", "useSfLayoutTV", "bool")
  \o <<Lit(">")>>
PrintSM120(v) == PrintShape(v) \o PrintNextKey("vec_size", v.vecSize) \o <<Comma>> \o PrintElemTypes(v)
  \o PrintNextKey("sf_type", v.sfType) \o PrintNextKey("use_sf_layout_TV", v.useSfLayoutTV) \o <<Gt>>

(************************ warpgroup MMAs (SM90) ***************************)
ReadMajors == <<Lit("ab_major"), Lit("=")>> \o PairOf("aMajor", "bMajor", "MajorMode")
PrintMajors(v) == <<Comma, Kw("ab_major"), Kw("=")>> \o PrintPair(v.aMajor, v.bMajor)
ReadFragKind(others) == <<Lit("frag_kind"), Lit("="), Val("aFragKind", others)>>
PrintFragKind(v) == PrintNextKey("frag_kind", FragKindText(v.aFragKind))

SigSM90 == SigShape \o SigMajors \o SigAbc \o <<<<"aFragKind", "MmaFragKind">>>> \o SigOverflow
           \o <<<<"aNeg", "flag">>, <<"bNeg", "flag">>>>
FromSM90 == [intOverflow |-> Absent, aNeg |-> Absent, bNeg |-> Absent]
ReadSM90 == ReadShape \o <<Lit(",")>> \o ReadMajors \o <<Lit(",")>> \o ElemTypes \o <<Lit(",")>>
  \o ReadFragKind("rs or ss")
  \o <<Each(<<Word("a_neg", <<Put("aNeg", True)>>), Word("b_neg", <<Put("bNeg", True)>>),
              Word("int_overflow", <<Lit("="), Val("intOverflow", "MMAIntOverflow")>>)>>), Lit(">")>>
PrintSM90(v) == PrintShape(v) \o PrintMajors(v) \o <<Comma>> \o PrintElemTypes(v) \o PrintFragKind(v)
  \o PrintOverflow(v) \o PrintFlag("a_neg", v.aNeg) \o PrintFlag("b_neg", v.bNeg) \o <<Gt>>

(***************************************************************************)
(* The UMMA atoms: one grammar, fields present by kind.  u is the set of   *)
(* the kind's flags: "sf" a scale factor type, "sp" sparse, "bs" block     *)
(* scaled, "sm107" collector operations.                                   *)
(***************************************************************************)
If(c, s) == IF c THEN s ELSE <<>>
ScaleOrVec(u) == IF "bs" \in u THEN "vecSize" ELSE "cScaleExp"
Etyped(u) == "sp" \in u /\ "sf" \notin u
Promotes(u) == "bs" \in u /\ "sm107" \notin u

SigUmma(u) == SigShape \o <<<<"numCta", "int">>>> \o SigMajors \o SigAbc
  \o If("sf" \in u, <<<<"sfType", "type">>>>) \o If(Etyped(u), <<<<"eType", "type">>>>)
  \o If("sp" \in u, <<<<"sparseMetadataFormat", "SparseMetadataFormat">>>>)
  \o <<<<"aFragKind", "MmaFragKind">>, <<ScaleOrVec(u), "int">>>>
  \o If(Promotes(u), <<<<"archPromote", "Arch">>>>)
  \o If("sm107" \in u, <<<<"aCollectorOp", "MmaCollectorOp">>, <<"bCollectorOp", "MmaCollectorOp">>>>)
  \o SigOverflow
FromUmma(u) == FromOverflow @@ (IF Promotes(u) THEN [archPromote |-> Kw("sm_100")] ELSE <<>>)
ReadUmma(u) ==
  LET Ends == <<Opt(",", ReadOverflow), Lit(">")>> IN
  ReadShape \o NextKeyField("num_cta", "numCta", "int") \o <<Lit(",")>> \o ReadMajors \o <<Lit(",")>> \o ElemTypes
  \o If("sf" \in u, NextKeyField("sf_type", "sfType", "type"))
  \o If(Etyped(u), NextKeyField("e_type", "eType", "type"))
  \o If("sp" \in u, NextKeyField("sparse_metadata_format", "sparseMetadataFormat", "SparseMetadataFormat"))
  \o <<Lit(",")>> \o ReadFragKind("ts or ss")
  \o NextKeyField(IF "bs" \in u THEN "vec_size" ELSE "c_scale_exp", ScaleOrVec(u), "int")
  \o (IF Promotes(u)
      THEN <<Either(",", <<Either("arch_promote", <<Lit("="), Val("archPromote", "Arch")>> \o Ends,
                                  ReadOverflow \o <<Lit(">")>>)>>, <<Lit(">")>>)>>
      ELSE If("sm107" \in u, <<Lit(","), Lit("ab_collector_op"), Lit("=")>>
                             \o PairOf("aCollectorOp", "bCollectorOp", "MmaCollectorOp")) \o Ends)
\* bug: the collector operations written in the order b, a
PrintUmmaSwapped(u, v) ==
  PrintShape(v) \o PrintNextKey("num_cta", v.numCta) \o PrintMajors(v) \o <<Comma>> \o PrintElemTypes(v)
  \o If("sf" \in u, PrintNextKey("sf_type", v.sfType)) \o If(Etyped(u), PrintNextKey("e_type", v.eType))
  \o If("sp" \in u, PrintNextKey("sparse_metadata_format", v.sparseMetadataFormat)) \o PrintFragKind(v)
  \o (IF "bs" \in u THEN PrintNextKey("vec_size", v.vecSize) ELSE PrintNextKey("c_scale_exp", v.cScaleExp))
  \o If("sm107" \in u, <<Comma, Kw("ab_collector_op"), Kw("=")>> \o PrintPair(v.bCollectorOp, v.aCollectorOp))
  \o PrintOverflow(v) \o <<Gt>>
PrintUmma(u, v) ==
  PrintShape(v) \o PrintNextKey("num_cta", v.numCta) \o PrintMajors(v) \o <<Comma>> \o PrintElemTypes(v)
  \o If("sf" \in u, PrintNextKey("sf_type", v.sfType)) \o If(Etyped(u), PrintNextKey("e_type", v.eType))
  \o If("sp" \in u, PrintNextKey("sparse_metadata_format", v.sparseMetadataFormat)) \o PrintFragKind(v)
  \o (IF "bs" \in u THEN PrintNextKey("vec_size", v.vecSize) ELSE PrintNextKey("c_scale_exp", v.cScaleExp))
  \o If(Promotes(u) /\ (v.archPromote # Kw("sm_100") \/ v.intOverflow # Absent),
        PrintNextKey("arch_promote", v.archPromote))
  \o If("sm107" \in u, <<Comma, Kw("ab_collector_op"), Kw("=")>> \o PrintPair(v.aCollectorOp, v.bCollectorOp))
  \o PrintOverflow(v) \o <<Gt>>
VerifyUmma(u, v) ==
  /\ VerifyShapeMNK(v)
  /\ v.numCta[2] \in {1, 2}
  /\ "bs" \notin u => v.cScaleExp[2] <= 15
  /\ v.aFragKind = Kw("tmem") => v.aMajor = Kw("k")

SM100UMMA == {}
SM100UMMASparse == {"sp"}
SM100UMMABlockScaled == {"sf", "bs"}
SM100UMMABlockScaledSparse == {"sf", "sp", "bs"}
SM107UMMA == {"sm107"}
SM107UMMASparse == {"sp", "sm107"}
SM107UMMABlockScaled == {"sf", "bs", "sm107"}
SM107UMMABlockScaledSparse == {"sf", "sp", "bs", "sm107"}

SigSM100UMMA == SigUmma(SM100UMMA)
SigSM100UMMASparse == SigUmma(SM100UMMASparse)
SigSM100UMMABlockScaled == SigUmma(SM100UMMABlockScaled)
SigSM100UMMABlockScaledSparse == SigUmma(SM100UMMABlockScaledSparse)
SigSM107UMMA == SigUmma(SM107UMMA)
SigSM107UMMASparse == SigUmma(SM107UMMASparse)
SigSM107UMMABlockScaled == SigUmma(SM107UMMABlockScaled)
SigSM107UMMABlockScaledSparse == SigUmma(SM107UMMABlockScaledSparse)

(***************************** descriptors ********************************)
\* verifyCircular: a static (B,128,N):(128,1,128*B) with N >= 2
VerifyCircular(v) ==
  LET l == v.layout[2] IN
  /\ \A i \in DOMAIN l : l[i][1] # Dyn /\ l[i][2] # Dyn
  /\ Len(l) = 3
  /\ l[2][1] = 128
  /\ l[2][2] = 1 /\ l[1][2] = 128 /\ l[3][2] = 128 * l[1][1]
  /\ l[3][1] >= 2
SigSmemDescCircular == <<<<"layout", "layout">>>>
ReadSmemDescCircular == <<Lit("<"), Val("layout", "layout"), Lit(">")>>
PrintSmemDescCircular(v) == <<Lt, v.layout, Gt>>

SigSmemDescView == <<<<"desc", "type">>, <<"layout", "layout">>>>
ReadSmemDescView == <<Lit("<"), Val("desc", "type"), Lit(","), Val("layout", "layout"), Lit(">")>>
PrintSmemDescView(v) == <<Lt, v.desc, Comma, v.layout, Gt>>
VerifySmemDescView(v) == v.desc[2] \in {"smem_desc", "smem_desc_circular", "smem_desc_sm107"}
=============================================================================
