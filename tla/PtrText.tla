------------------------------ MODULE PtrText ------------------------------
(***************************************************************************)
(* The text of the types of the cute dialect (CuteTypes.cpp): the algebra  *)
(* types, pointers and memrefs, and the types the compiler adds to them.   *)
(* The algebra itself (cutegen) is external: its values are tokens, its    *)
(* from_string and to_string are inverse to each other.                    *)
(***************************************************************************)
EXTENDS MmaAtomText

Basis == -2        \* a stride that is a scaled basis
NoStride == -3     \* a mode of the shape the stride has no part for
Swizzle_(b, m, s) == <<"swizzle", <<b, m, s>>>>
Identity == Swizzle_(0, 4, 3)
\* (bits, elements):(1, strides), the elements flattened to <<extent, stride>>: static, of two
\* modes and of an element at least, as BitLayoutAttr::verify has it
Bits_(bits, elements) == <<"bits", bits, elements>>
\* a o off o b: inner is a Swizzle_ or a Layout_, off a sequence, one number when scalar
Composed_(inner, off, b) == <<"composed", inner, off, b>>
Ptr_(v) == <<"ptr", v>>
Types_(ts) == <<"types", ts>>

(***************************** algebra types ******************************)
\* parseLenientPayload: what is missing or unreadable is the default value
ReadLenient(sort, default) ==
  <<Put("attr", default),
    Opt("<", <<OptVal("attr", sort, <<Either(">", <<>>, <<Put("attr", default)>>)>>, <<>>)>>)>>
PrintAlgebra(v) == <<Lt, v.attr, Gt>>
SigIntTuple == <<<<"attr", "attr">>>>
SigCoord == SigIntTuple
SigShapeType == SigIntTuple
SigStride == SigIntTuple
SigTile == SigIntTuple
SigLayout == <<<<"attr", "LayoutAttr">>>>
SigSwizzle == <<<<"attr", "SwizzleAttr">>>>
SigComposedLayout == <<<<"attr", "ComposedLayoutAttr">>>>
ReadIntTuple == ReadLenient("attr", Payload("()"))
ReadCoord == ReadLenient("attr", Payload("()"))
ReadShapeType == ReadLenient("attr", Payload("()"))
ReadStride == ReadLenient("attr", Payload("()"))
ReadTile == ReadLenient("attr", Payload("[]"))
ReadLayout == ReadLenient("layout", Layout_(<<>>))
ReadSwizzle == ReadLenient("swizzle", Identity)
ReadArithTupleIterator == ReadIntTuple
ReadComposedLayout == <<Lit("<"), Val("attr", "composed"), Lit(">")>>

PositiveShape(modes) == \A i \in DOMAIN modes : modes[i][1] > 0 \/ modes[i][1] = Dyn
VerifyLayout(v) ==
  /\ PositiveShape(v.attr[2])
  /\ \A i \in DOMAIN v.attr[2] : v.attr[2][i][2] # NoStride

Scaled(modes) == \E i \in DOMAIN modes : modes[i][2] = Basis
\* layout_eval(0, b) has as many parts as b has bases; the instance has two
CodomainRank(modes) == IF Scaled(modes) THEN 2 ELSE 1
VerifyComposedLayout(v) ==
  LET inner == v.attr[2]
      off == v.attr[3]
      b == v.attr[4][2] IN
  /\ PositiveShape(b) /\ (inner[1] = "layout" => PositiveShape(inner[2]))
  /\ Len(off) = CodomainRank(b)
  /\ Len(off) = 1 \/ (inner[1] = "layout" /\ Len(off) = Len(inner[2]))

VerifySwizzle(v) ==
  LET bits == v.attr[2][1]
      base == v.attr[2][2]
      shift == IF v.attr[2][3] < 0 THEN -v.attr[2][3] ELSE v.attr[2][3]
  IN shift + bits + base <= 32 /\ shift >= bits

(******************************* pointers *********************************)
SigPtr == <<<<"valueType", "type?">>, <<"addressSpace", "AddressSpace">>, <<"alignment", "int">>,
            <<"swizzle", "swizzle?">>, <<"bitlayout", "bits?">>>>

Sparse == Elem("i8x2sparse")       \* sparse_elem<2, i8>
\* storageBits of the integers, the floats and the physical type of a sparse element
PointedBits(t) ==
  IF t[1] # "type" THEN 0
  ELSE [f16 |-> 16, f32 |-> 32, tf32 |-> 32, i32 |-> 32, f4 |-> 4, i1 |-> 1, i8x2sparse |-> 8, vec |-> 0][t[2]]
NaturalAlignment(t) ==
  LET bits == PointedBits(t) IN
  IF bits <= 1 THEN 1 ELSE IF bits % 8 # 0 THEN 0 ELSE bits \div 8
IsIdentity(s) == s \in {Absent, Identity}

GcdOf(a, b) == Max({d \in 1..b : a % d = 0 /\ b % d = 0})
DefaultBitLayout(t, space) ==
  LET chunk == IF space = Kw("tmem") THEN 32 ELSE 8
      bits == PointedBits(t)
      stride == IF bits = 1 THEN 8 ELSE bits
  IN IF bits = 0 THEN Absent
     ELSE IF t = Sparse THEN Bits_(bits, <<<<2, 0>>, <<chunk \div GcdOf(bits, chunk), bits>>>>)
     ELSE Bits_(bits, <<<<chunk \div GcdOf(stride, chunk), stride>>>>)
ChunkBits(l) == Max({l[3][i][1] * l[3][i][2] : i \in DOMAIN l[3]})

VerifyPtr(v) ==
  LET tmem == v.addressSpace = Kw("tmem")
      default == DefaultBitLayout(v.valueType, v.addressSpace)
      effective == IF v.bitlayout = Absent THEN default ELSE v.bitlayout IN
  /\ v.alignment = Int_(0) => NaturalAlignment(v.valueType) = 0
  /\ tmem /\ v.swizzle # Absent => v.swizzle[2][1] = 0
  /\ effective # Absent =>
       /\ ChunkBits(effective) % 8 = 0
       /\ tmem => ChunkBits(effective) >= 32 /\ IsPow2(ChunkBits(effective))
       /\ v.valueType = Sparse => effective = default

FromPtr == [valueType |-> Absent, addressSpace |-> Kw("generic"), alignment |-> Absent,
            swizzle |-> Absent, bitlayout |-> Absent]
Space == Sort("AddressSpace", <<Val("addressSpace", "AddressSpace")>>)
Align == Word("align", <<Lit("<"), Val("alignment", "int"), Lit(">")>>)
InlineSwizzle == Word("S", <<Lit("<"), Val("swizzle", "swizzle"), Lit(">")>>)
BitLayout == Word("bitlayout", <<Lit("<"), Val("bitlayout", "bits"), Lit(">")>>)
ReadPtr ==
  LET fields == <<Space, Align, InlineSwizzle, BitLayout>> IN
  <<Lit("<"), OptVal("valueType", "type", <<InOrder(fields)>>, <<FirstOf(fields)>>), Lit(">")>>

\* What is the default is left out of the type itself
BuildPtr(f) ==
  [f EXCEPT !.alignment = IF @ = Absent THEN Int_(NaturalAlignment(f.valueType)) ELSE @,
            !.swizzle = IF IsIdentity(@) THEN Absent ELSE @,
            !.bitlayout = IF @ = DefaultBitLayout(f.valueType, f.addressSpace) THEN Absent ELSE @]
PrintPtrFields(v) ==
  (IF v.valueType = Absent THEN <<>> ELSE <<v.valueType, Comma>>) \o <<v.addressSpace>>
  \o (IF v.alignment = Int_(NaturalAlignment(v.valueType)) THEN <<>>
      ELSE <<Comma, Kw("align"), Lt, v.alignment, Gt>>)
  \o (IF IsIdentity(v.swizzle) THEN <<>> ELSE <<Comma, Kw("S"), Lt, v.swizzle, Gt>>)
PrintBitLayout(v) ==
  IF v.bitlayout \in {Absent, DefaultBitLayout(v.valueType, v.addressSpace)} THEN <<>>
  ELSE <<Comma, Kw("bitlayout"), Lt, v.bitlayout, Gt>>
PrintPtr(v) == <<Lt>> \o PrintPtrFields(v) \o PrintBitLayout(v) \o <<Gt>>

(******************************** memrefs *********************************)
SigMemRef == <<<<"ptr", "ptr">>, <<"layout", "any layout">>>>
\* the layout takes the place of a field after the swizzle; the bit layout follows it
ReadMemRef ==
  <<Lit("<"), Val("valueType", "type"),
    InOrder(<<Space, Align, InlineSwizzle, Sort("any layout", <<Val("layout", "any layout")>>), BitLayout>>),
    Lit(">")>>
FromMemRef == [layout |-> Absent] @@ FromPtr
\* A composed layout that is a plain one is written, and read, as that layout
Plain(l) == IF l[1] = "composed" /\ l[2] = Identity /\ l[3] = <<0>> THEN l[4] ELSE l
BuildMemRef(f) ==
  LET ptr == BuildPtr([n \in DOMAIN FromPtr |-> f[n]]) IN
  IF f.layout = Absent \/ ~VerifyPtr(ptr) THEN Failure
  ELSE [ptr |-> Ptr_(ptr), layout |-> f.layout]
PrintMemRef(v) ==
  <<Lt>> \o PrintPtrFields(v.ptr[2]) \o <<Comma, Plain(v.layout)>> \o PrintBitLayout(v.ptr[2]) \o <<Gt>>

\* isDenseForSparsity: the run from offset 0 and every other stride are whole blocks
DenseFor(modes, sparsity) ==
  LET moving == SelectSeq(modes, LAMBDA m : m[1] # 1 /\ m[2] # 0)
      byStride == SortSeq(moving, LAMBDA a, b : a[2] < b[2])
      \* the stride-1 mode, then each mode whose stride is the run so far
      after == FoldLeft(LAMBDA s, m :
                 IF s.contiguous /\ m[2] = s.run THEN [s EXCEPT !.run = @ * m[1]]
                 ELSE [s EXCEPT !.contiguous = FALSE, !.whole = @ /\ m[2] % sparsity = 0],
                 [run |-> 1, contiguous |-> TRUE, whole |-> TRUE], byStride)
  IN /\ \A i \in DOMAIN modes : Dyn \notin {modes[i][1], modes[i][2]}
     /\ after.whole /\ after.run % sparsity = 0
DenseLayout(l, sparsity) ==
  IF l[1] = "layout" THEN DenseFor(l[2], sparsity)
  ELSE /\ l[2][1] = "swizzle" /\ 2^l[2][2][2] % sparsity = 0
       /\ Len(l[3]) = 1 /\ l[3][1] % sparsity = 0 /\ DenseFor(l[4][2], sparsity)
VerifyMemRef(v) ==
  LET ptr == v.ptr[2]
      l == v.layout IN
  /\ l[1] \in {"layout", "composed"}
  /\ ptr.valueType # Absent /\ ptr.valueType # Elem("vec")
  /\ ptr.valueType = Sparse => DenseLayout(l, 2)
  /\ l[1] = "composed" => IsIdentity(ptr.swizzle) \/ l[2][1] # "swizzle" \/ l[2][2][1] = 0
  /\ l[1] = "layout" => ~Scaled(l[2])

(*********************** the compiler's other types ***********************)
SigArithTupleIterator == <<<<"attr", "attr">>>>
SigCoordTensor == <<<<"arithTuple", "attr">>, <<"layout", "any layout">>>>
ReadCoordTensor == <<Lit("<"), Val("arithTuple", "attr"), Lit(","), Val("layout", "any layout"), Lit(">")>>
PrintCoordTensor(v) == <<Lt, v.arithTuple, Comma, Plain(v.layout), Gt>>
VerifyCoordTensor(v) == v.layout[1] \in {"layout", "composed"}

SigConstrainedInt == <<<<"divisibility", "int">>, <<"width", "int">>, <<"isPow2", "bool">>>>
FromConstrainedInt == [divisibility |-> Int_(1), isPow2 |-> False]
DivBy == <<Lit("divby"), Val("divisibility", "int")>>
ReadConstrainedInt ==
  <<Val("width", "iN"),
    Opt("<", <<Either("pow2", <<Put("isPow2", True), Opt(",", DivBy)>>, DivBy), Lit(">")>>)>>
PrintConstrainedInt(v) ==
  LET one == v.divisibility = Int_(1)
      pow2 == v.isPow2 = True IN
  <<<<"i", v.width[2]>>>> \o
  (IF one /\ ~pow2 THEN <<>>
   ELSE <<Lt>> \o (IF pow2 THEN <<Kw("pow2")>> ELSE <<>>) \o (IF pow2 /\ ~one THEN <<Comma>> ELSE <<>>)
        \o (IF one THEN <<>> ELSE <<Kw("divby"), v.divisibility>>) \o <<Gt>>)

SigFastDivmodDivisor == <<<<"width", "int">>, <<"isPow2", "bool">>>>
FromFastDivmodDivisor == [isPow2 |-> False]
ReadFastDivmodDivisor == <<Lit("<"), Val("width", "int"), Opt(",", <<Lit("is_pow_2"), Put("isPow2", True)>>), Lit(">")>>
PrintFastDivmodDivisor(v) == <<Lt, v.width>> \o PrintFlag("is_pow_2", v.isPow2) \o <<Gt>>

SigSparseElem == <<<<"numLogical", "int">>, <<"physicalType", "type">>>>
ReadSparseElem == <<Lit("<"), Val("numLogical", "int"), Lit(","), Val("physicalType", "type"), Lit(">")>>
PrintSparseElem(v) == <<Lt, v.numLogical, Comma, v.physicalType, Gt>>
VerifySparseElem(v) == v.numLogical[2] > 0 /\ v.physicalType[1] = "type" /\ v.physicalType # Sparse

SigTiledCopy == <<<<"copyAtom", "type">>, <<"layoutCopyTv", "layout">>, <<"tilerMn", "attr">>>>
ReadTiledCopy == <<Lit("<"), Val("copyAtom", "type")>> \o NextKeyField("layout_copy_tv", "layoutCopyTv", "layout")
                 \o NextKeyField("tiler_mn", "tilerMn", "attr") \o <<Lit(">")>>
PrintTiledCopy(v) == <<Lt, v.copyAtom>> \o PrintNextKey("layout_copy_tv", v.layoutCopyTv)
                     \o PrintNextKey("tiler_mn", v.tilerMn) \o <<Gt>>
SigTiledCopyV2 == SigTiledCopy
SigTiledMma == <<<<"mmaAtom", "type">>, <<"atomLayoutMNK", "layout">>, <<"permutationMNK", "tile?">>>>
FromTiledMma == [permutationMNK |-> Absent]
ReadTiledMma == <<Lit("<"), Val("mmaAtom", "type")>> \o NextKeyField("atom_layout_MNK", "atomLayoutMNK", "layout")
                \o <<Opt(",", KeyField("permutation_MNK", "permutationMNK", "tile")), Lit(">")>>
PrintTiledMma(v) == <<Lt, v.mmaAtom>> \o PrintNextKey("atom_layout_MNK", v.atomLayoutMNK)
                    \o PrintAttrField("permutation_MNK", v.permutationMNK) \o <<Gt>>
\* a tile is <<"tile", its rank>>
VerifyTiledMma(v) == /\ Len(v.atomLayoutMNK[2]) = 3
                     /\ v.permutationMNK # Absent => v.permutationMNK[2] = 3

SigTuple == <<<<"types", "types">>>>
ReadTuple == <<Lit("<"), Val("types", "types"), Lit(">")>>
PrintTuple(v) == <<Lt, v.types, Gt>>
=============================================================================
