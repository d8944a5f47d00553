---------------------------- MODULE TypeTokens ----------------------------
(***************************************************************************)
(* The pieces the parsers and printers of the cute and cute_nvgpu types    *)
(* are put together from: the helpers at the top of CuteNVGPUDialect.cpp   *)
(* (field, keyField, nextKeyField, optKeyField, countOf, pairOf, ...).     *)
(*                                                                         *)
(* A spelling is a sequence of tokens and a parameter of a type is the     *)
(* token it is spelled with.  A parser is a sequence of items, run over    *)
(* the tokens from the left as the || chains of the code are: the first    *)
(* item that fails ends the parse.                                         *)
(***************************************************************************)
EXTENDS Integers, Sequences, SequencesExt, TLC

Kw(w) == <<"kw", w>>
Int_(n) == <<"int", n>>
Elem(t) == <<"type", t>>
Payload(a) == <<"attr", a>>
Layout_(modes) == <<"layout", modes>>   \* each mode <<extent, stride>>
Dyn == -1                               \* an extent or a stride that is dynamic
Shape_(dims) == <<"shape", dims>>
True == Kw("true")
False == Kw("false")
Absent == <<"absent">>            \* a null optional parameter, an unset flag
Lt == Kw("<")
Gt == Kw(">")
Comma == Kw(",")
Failure == [no |-> "type"]        \* what a failed parse or verifier returns

\* The spellings of the enums the types below have, as the .td files list them
Enum == [
  MemOrderKind |-> {"weak", "relaxed", "acquire", "release", "acq_rel", "sc", "mmio", "constant", "volatile"},
  MemScopeKind |-> {"cta", "cluster", "gpu", "sys"},
  L2PrefetchSize |-> {"none", "reserved", "size_64b", "size_128b", "size_256b"},
  CacheEvictionPriority |-> {"evict_normal", "evict_first", "evict_last", "evict_unchanged", "no_allocate"},
  LoadCacheMode |-> {"always", "global", "streaming", "last_use", "none"},
  StoreCacheMode |-> {"write_back", "global", "streaming", "write_through", "none"},
  SharedSpace |-> {"cta", "cluster"},
  AddressSpace |-> {"generic", "gmem", "smem", "rmem", "tmem", "dsmem", "cmem"},
  MajorMode |-> {"k", "mn"},
  ReductionKind |-> {"ADD", "MIN", "MAX", "INC", "DEC", "AND", "OR", "XOR"},
  CopyS2TBroadcast |-> {"none", "lw_0213", "lw_0123", "x4"},
  TmemLoadRedOp |-> {"max", "maxabs", "min", "minabs"},
  LdsmSzPattern |-> {"u16", "u4to8", "s4to8", "u2to4", "s2to4", "u4x16p64to8", "u6x16p32to8", "u8"},
  TmaLoadMode |-> {"tiled", "im2col", "w128", "w", "gather4"},
  TmaStoreMode |-> {"tiled", "im2col", "scatter4"},
  TiledTmaLoad |-> {"sm_90", "sm_90_multicast", "sm_100_2sm", "sm_100_2sm_multicast"},
  GatherScatterTmaLoad |-> {"sm_100", "sm_100_multicast", "sm_100_2sm", "sm_100_2sm_multicast"},
  TmaDataFormat |-> {"U8", "U16", "U32", "S32", "U64", "S64", "F16_RN", "F32_RN", "F32_FTZ_RN", "F64_RN",
                     "BF16_RN", "U4", "U4_UNPACK_U8", "U6_UNPACK_U8", "TF32_RN", "TF32_FTZ_RN"},
  SparseMetadataFormat |-> {"tid"},
  Arch |-> {"sm_52", "sm_70", "sm_75", "sm_80", "sm_86", "sm_90", "sm_100", "sm_103", "sm_107"},
  MmaCollectorOp |-> {"discard", "lastuse", "fill", "use"},
  MmaFragKind |-> {"smem_desc", "sparse_smem_desc", "tmem", "tmem_ws", "tmem_e", "tmem_sf", "rmem"},
  MMAIntOverflow |-> {"satfinite", "wrapped"},
  BinaryOp |-> {"none", "xor_popc", "and_popc"},
  LdReduceAccPrecisionKind |-> {"F16", "F32"}]

\* fragKindText: a kind without an abbreviation is spelled by its name
FragKindText(k) ==
  CASE k = Kw("smem_desc") -> Kw("ss") [] k = Kw("rmem") -> Kw("rs")
    [] k = Kw("tmem") -> Kw("ts") [] OTHER -> k

(***************************************************************************)
(* The items of a parser.                                                  *)
(***************************************************************************)
Lit(w) == [does |-> "lit", tok |-> Kw(w)]
Val(n, sort) == [does |-> "val", name |-> n, sort |-> sort]
Opt(w, then) == [does |-> "opt", tok |-> Kw(w), then |-> then, orelse |-> <<>>]
Either(w, then, orelse) == [does |-> "opt", tok |-> Kw(w), then |-> then, orelse |-> orelse]
OptVal(n, sort, then, orelse) == [does |-> "optval", name |-> n, sort |-> sort, then |-> then, orelse |-> orelse]
OptInt(n, then, orelse) == OptVal(n, "int", then, orelse)
Put(n, v) == [does |-> "put", name |-> n, value |-> v]
\* while (succeeded(p.parseOptionalComma())): the alternative the next token is of
Each(alts) == [does |-> "each", alts |-> alts]
\* the same, each alternative behind the last one read; FirstOf reads no comma before its first
InOrder(alts) == [does |-> "order", first |-> FALSE, alts |-> alts]
FirstOf(alts) == [does |-> "order", first |-> TRUE, alts |-> alts]

KeyField(key, n, sort) == <<Lit(key), Lit("="), Val(n, sort)>>
NextKeyField(key, n, sort) == <<Lit(",")>> \o KeyField(key, n, sort)
OptKeyField(key, n, sort) == <<Opt(key, <<Lit("="), Val(n, sort)>>)>>
CountOf(word, n) == <<Val(n, "int"), Lit(word)>>
PairOf(a, b, sort) == <<Lit("("), Val(a, sort), Lit(","), Val(b, sort), Lit(")")>>
ElemTypes == <<Lit("elem_type"), Lit("="), Lit("("), Val("aType", "type"), Lit(","),
               Val("bType", "type"), Lit(","), Val("cType", "type"), Lit(")")>>
OptFlag(word, n) == Opt(",", <<Lit(word), Put(n, True)>>)

\* Whether a token is a value of a sort, and the value it stands for
Reads(sort, tok) ==
  CASE sort = "type" -> tok[1] \in {"type", "ptr"}
    [] sort = "int" -> tok[1] = "int"
    [] sort \in {"attr", "layout"} -> tok[1] = sort
    [] sort = "bool" -> tok \in {True, False}
    [] sort = "xR" -> tok[1] = "x" /\ tok[2] >= 0
    [] sort = "MNK" -> tok[1] = "shape" /\ \A i \in DOMAIN tok[2] : tok[2][i] >= 0
    [] sort \in {"shape", "swizzle", "composed", "bits", "tile"} -> tok[1] = sort
    [] sort = "any layout" -> tok[1] \in {"layout", "composed"}
    [] sort = "iN" -> tok[1] = "i"
    [] sort = "types" -> tok[1] = "types" /\ tok[2] # <<>>
    [] sort = "t or n" -> tok \in {Kw("t"), Kw("n")}
    [] sort = "rs or ss" -> tok \in {Kw("rs"), Kw("ss")}
    [] sort = "ts or ss" -> tok \in {Kw("ts"), Kw("ss")}
    [] OTHER -> tok[1] = "kw" /\ tok[2] \in Enum[sort]

Meaning(sort, tok) ==
  CASE sort \in {"xR", "iN"} -> Int_(tok[2])
    [] sort = "t or n" -> IF tok = Kw("t") THEN True ELSE Absent
    [] sort = "rs or ss" -> IF tok = Kw("ss") THEN Kw("smem_desc") ELSE Kw("rmem")
    [] sort = "ts or ss" -> IF tok = Kw("ss") THEN Kw("smem_desc") ELSE Kw("tmem")
    [] OTHER -> tok

\* Runs items over toks; the fields read so far are in got.  The result has the
\* fields of got, or is Failure when an item fails or tokens are left over.
RECURSIVE Parse(_, _, _)
Parse(items, toks, got) ==
  LET next == IF toks = <<>> THEN <<"end">> ELSE Head(toks)
      at(w) == next = w
      fits(a, after) == after # <<>> /\ CASE a.by = "word" -> Head(after) = Kw(a.is)
                                          [] a.by = "sort" -> Reads(a.is, Head(after)) IN
  IF items = <<>> THEN IF toks = <<>> THEN got ELSE Failure
  ELSE LET item == Head(items)
           rest == Tail(items) IN
    CASE item.does = "lit" ->
           IF at(item.tok) THEN Parse(rest, Tail(toks), got) ELSE Failure
      [] item.does = "val" ->
           IF toks # <<>> /\ Reads(item.sort, next)
           THEN Parse(rest, Tail(toks), (item.name :> Meaning(item.sort, next)) @@ got)
           ELSE Failure
      [] item.does = "opt" ->
           IF at(item.tok) THEN Parse(item.then \o rest, Tail(toks), got)
           ELSE Parse(item.orelse \o rest, toks, got)
      [] item.does = "optval" ->
           IF toks # <<>> /\ Reads(item.sort, next)
           THEN Parse(item.then \o rest, Tail(toks), (item.name :> next) @@ got)
           ELSE Parse(item.orelse \o rest, toks, got)
      [] item.does = "put" -> Parse(rest, toks, (item.name :> item.value) @@ got)
      [] item.does = "each" ->
           IF ~at(Comma) THEN Parse(rest, toks, got)
           ELSE LET after == Tail(toks)
                    fitting == SelectSeq(item.alts, LAMBDA a : fits(a, after))
                IN IF fitting = <<>> THEN Failure
                   ELSE Parse(Head(fitting).items \o items, after, got)
      [] item.does = "order" ->
           IF ~item.first /\ ~at(Comma) THEN Parse(rest, toks, got)
           ELSE LET after == IF item.first THEN toks ELSE Tail(toks)
                    fitting == {i \in DOMAIN item.alts : fits(item.alts[i], after)}
                IN IF fitting = {} THEN IF item.first THEN Parse(rest, toks, got) ELSE Failure
                   ELSE LET i == Min(fitting) IN
                     Parse(item.alts[i].items \o <<InOrder(SubSeq(item.alts, i + 1, Len(item.alts)))>> \o rest,
                           after, got)

Word(w, items) == [by |-> "word", is |-> w, items |-> <<Lit(w)>> \o items]
Sort(s, items) == [by |-> "sort", is |-> s, items |-> items]

(***************************************************************************)
(* The pieces of a printer.                                                *)
(***************************************************************************)
PrintKey(key, tok) == <<Kw(key), Kw("="), tok>>
PrintNextKey(key, tok) == <<Comma>> \o PrintKey(key, tok)
PrintIfNot(key, tok, dflt) == IF tok = dflt THEN <<>> ELSE PrintKey(key, tok)
PrintTrue(key, tok) == IF tok = True THEN PrintKey(key, tok) ELSE <<>>
PrintAttrField(key, tok) == IF tok = Absent THEN <<>> ELSE PrintNextKey(key, tok)
PrintFlag(word, tok) == IF tok = True THEN <<Comma, Kw(word)>> ELSE <<>>
PrintElemTypes(v) == PrintKey("elem_type", Kw("(")) \o
                     <<v.aType, Comma, v.bType, Comma, v.cType, Kw(")")>>
PrintPair(a, b) == <<Kw("("), a, Comma, b, Kw(")")>>

(***************************************************************************)
(* Element types, as far as the types tell them apart.                     *)
(***************************************************************************)
ElementBits ==
  [f16 |-> 16, f32 |-> 32, tf32 |-> 32, i32 |-> 32, f4 |-> 4, i8x2sparse |-> 4, vec |-> 0]
OrElementBits(bits, t) == IF bits = Int_(0) THEN Int_(ElementBits[t[2]]) ELSE bits
DefaultTmaDataFormat(t) ==
  LET f == [f16 |-> "F16_RN", f32 |-> "F32_RN", tf32 |-> "TF32_RN", i32 |-> "U32",
            f4 |-> "U4", i8x2sparse |-> "U8", vec |-> ""][t[2]]
  IN IF f = "" THEN Absent ELSE Kw(f)

IsPow2(n) == n \in {2^k : k \in 0..12}
IsPow2AtLeast8(n) == n >= 8 /\ IsPow2(n)
=============================================================================
