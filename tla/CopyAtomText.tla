--------------------------- MODULE CopyAtomText ---------------------------
(***************************************************************************)
(* The text of the copy atoms of the cute_nvgpu dialect                    *)
(* (CuteNVGPUDialect.cpp): for each atom the parameters its C constructor  *)
(* takes (CuteNVGPUTypes.cpp), what its parser reads, what its printer     *)
(* writes and what its verifier accepts.  Parser, printer and constructor  *)
(* are written apart in the code, and each is translated apart here.       *)
(*                                                                         *)
(* A Sig lists the parameters with the sort the constructor takes: a sort  *)
(* ending in ? may be null.  Read.. is the item list of the parser, From.. *)
(* the values its locals start with, Print.. the tokens of the printer.    *)
(***************************************************************************)
EXTENDS TypeTokens

Pairs(sig) == {sig[i] : i \in DOMAIN sig}

(***************************** SIMT copies ********************************)
SigSIMTSyncCopy == <<<<"valType", "type">>, <<"copyBits", "int">>,
                     <<"srcSpace", "AddressSpace">>, <<"dstSpace", "AddressSpace">>>>
FromSIMTSyncCopy == [copyBits |-> Int_(0), srcSpace |-> Kw("generic"), dstSpace |-> Kw("generic")]
\* the lambda `spaces`: a dst_space alone, or a src_space with an optional dst_space
Spaces == <<Either("dst_space", <<Lit("="), Val("dstSpace", "AddressSpace")>>,
              KeyField("src_space", "srcSpace", "AddressSpace") \o
              <<Opt(",", KeyField("dst_space", "dstSpace", "AddressSpace"))>>)>>
ReadSIMTSyncCopy ==
  <<Lit("<"), Val("valType", "type"),
    Opt(",", <<OptInt("copyBits", <<Lit("b"), Opt(",", Spaces)>>, Spaces)>>), Lit(">")>>
PrintSIMTSyncCopy(v) ==
  LET g == Kw("generic")
      spaces == v.srcSpace # g \/ v.dstSpace # g
  IN <<Lt, v.valType>>
     \o (IF v.copyBits # Int_(0) \/ spaces THEN <<Comma, v.copyBits, Kw("b")>> ELSE <<>>)
     \o (IF spaces THEN PrintNextKey("src_space", v.srcSpace) ELSE <<>>)
     \o (IF v.dstSpace # g THEN PrintNextKey("dst_space", v.dstSpace) ELSE <<>>) \o <<Gt>>
VerifySIMTSyncCopy(v) == v.copyBits = Int_(0) \/ IsPow2AtLeast8(v.copyBits[2])

SigSIMTAsyncCopy == <<<<"valType", "type">>, <<"cache", "LoadCacheMode">>, <<"copyBits", "int">>>>
FromSIMTAsyncCopy == [copyBits |-> Int_(0)]
ReadSIMTAsyncCopy == <<Lit("<"), Val("valType", "type")>> \o NextKeyField("cache", "cache", "LoadCacheMode")
                     \o <<Opt(",", CountOf("b", "copyBits")), Lit(">")>>
PrintSIMTAsyncCopy(v) == <<Lt, v.valType>> \o PrintNextKey("cache", v.cache) \o <<Comma, v.copyBits, Kw("b"), Gt>>

SigDsmemStore == <<<<"valType", "type">>, <<"copyBits", "int">>>>
FromDsmemStore == [copyBits |-> Int_(0)]
ReadDsmemStore == <<Lit("<"), Val("valType", "type"), Opt(",", CountOf("b", "copyBits")), Lit(">")>>
PrintDsmemStore(v) == <<Lt, v.valType, Comma, v.copyBits, Kw("b"), Gt>>
VerifyDsmemStore(v) == v.copyBits[2] \in {0, 32, 64, 128}

(***************************** bulk copies ********************************)
SigBulkCopyG2S == <<<<"valType", "type">>, <<"copyBits", "int">>, <<"mcast", "bool">>>>
SigBulkCopyS2G == <<<<"valType", "type">>, <<"copyBits", "int">>, <<"mask", "bool">>>>
SigBulkCopyS2S == <<<<"valType", "type">>, <<"copyBits", "int">>>>
FromBulkCopyG2S == [copyBits |-> Int_(0), mcast |-> False]
FromBulkCopyS2G == [copyBits |-> Int_(0), mask |-> False]
FromBulkCopyS2S == [copyBits |-> Int_(0)]
BulkHead == <<Lit("<"), Val("valType", "type")>> \o OptKeyField("copy_bits", "copyBits", "int")
ReadBulkCopyG2S == BulkHead \o OptKeyField("mcast", "mcast", "bool") \o <<Lit(">")>>
ReadBulkCopyS2G == BulkHead \o OptKeyField("mask", "mask", "bool") \o <<Lit(">")>>
ReadBulkCopyS2S == BulkHead \o <<Lit(">")>>
PrintBulkHead(v) == <<Lt, v.valType>> \o PrintIfNot("copy_bits", v.copyBits, Int_(0))
PrintBulkCopyG2S(v) == PrintBulkHead(v) \o PrintTrue("mcast", v.mcast) \o <<Gt>>
PrintBulkCopyS2G(v) == PrintBulkHead(v) \o PrintTrue("mask", v.mask) \o <<Gt>>
PrintBulkCopyS2S(v) == PrintBulkHead(v) \o <<Gt>>

(********************* g2r, r2g, r2s, s2r *********************************)
VerifyCopyBits(v) == IsPow2AtLeast8(v.copyBits[2])
Weak == Kw("weak")
Cta == Kw("cta")
FromOrdered == [copyBits |-> Int_(0), memOrder |-> Weak, memScope |-> Cta, sharedSpace |-> Cta]
OrderedHead == BulkHead \o OptKeyField("mem_order", "memOrder", "MemOrderKind")
               \o OptKeyField("mem_scope", "memScope", "MemScopeKind")
SharedTail == OptKeyField("shared_space", "sharedSpace", "SharedSpace")
PrintOrderedHead(v) == <<Lt, v.valType>> \o PrintKey("copy_bits", v.copyBits)
  \o PrintIfNot("mem_order", v.memOrder, Weak) \o PrintIfNot("mem_scope", v.memScope, Cta)
PrintShared(v) == PrintIfNot("shared_space", v.sharedSpace, Cta)

SigG2R == <<<<"valType", "type">>, <<"copyBits", "int">>, <<"memOrder", "MemOrderKind">>,
            <<"memScope", "MemScopeKind">>, <<"l2PrefetchSize", "L2PrefetchSize">>,
            <<"l1CacheEvictPriority", "CacheEvictionPriority">>, <<"loadCacheMode", "LoadCacheMode">>,
            <<"sharedSpace", "SharedSpace">>, <<"invariant", "bool">>>>
FromG2R == [l2PrefetchSize |-> Kw("none"), l1CacheEvictPriority |-> Kw("evict_normal"),
            loadCacheMode |-> Kw("always"), invariant |-> False] @@ FromOrdered
ReadG2R == OrderedHead \o OptKeyField("l2_prefetch_size", "l2PrefetchSize", "L2PrefetchSize")
  \o OptKeyField("l1_cache_evict_priority", "l1CacheEvictPriority", "CacheEvictionPriority")
  \o OptKeyField("load_cache_mode", "loadCacheMode", "LoadCacheMode") \o SharedTail
  \o OptKeyField("invariant", "invariant", "bool") \o <<Lit(">")>>
\* bug: the cache mode an ordered load leaves out is another than the one the parser puts
PrintG2RGlobal(v) == PrintOrderedHead(v) \o PrintIfNot("l2_prefetch_size", v.l2PrefetchSize, Kw("none"))
  \o PrintIfNot("l1_cache_evict_priority", v.l1CacheEvictPriority, Kw("evict_normal"))
  \o PrintIfNot("load_cache_mode", v.loadCacheMode, Kw("global")) \o PrintShared(v)
  \o PrintTrue("invariant", v.invariant) \o <<Gt>>
PrintG2R(v) == PrintOrderedHead(v) \o PrintIfNot("l2_prefetch_size", v.l2PrefetchSize, Kw("none"))
  \o PrintIfNot("l1_cache_evict_priority", v.l1CacheEvictPriority, Kw("evict_normal"))
  \o PrintIfNot("load_cache_mode", v.loadCacheMode, Kw("always")) \o PrintShared(v)
  \o PrintTrue("invariant", v.invariant) \o <<Gt>>
VerifyG2R(v) ==
  /\ VerifyCopyBits(v)
  /\ v.invariant = True => /\ v.memOrder = Weak /\ v.memScope = Cta
                           /\ v.l2PrefetchSize = Kw("none")
                           /\ v.l1CacheEvictPriority = Kw("evict_normal")
                           /\ v.loadCacheMode = Kw("always")
  /\ v.memOrder # Weak => v.loadCacheMode = Kw("always")

SigR2G == <<<<"valType", "type">>, <<"copyBits", "int">>, <<"memOrder", "MemOrderKind">>,
            <<"memScope", "MemScopeKind">>, <<"l1CacheEvictPriority", "CacheEvictionPriority">>,
            <<"storeCacheMode", "StoreCacheMode">>, <<"sharedSpace", "SharedSpace">>>>
FromR2G == [l1CacheEvictPriority |-> Kw("evict_normal"), storeCacheMode |-> Kw("write_back")] @@ FromOrdered
ReadR2G == OrderedHead \o OptKeyField("l1_cache_evict_priority", "l1CacheEvictPriority", "CacheEvictionPriority")
  \o OptKeyField("store_cache_mode", "storeCacheMode", "StoreCacheMode") \o SharedTail \o <<Lit(">")>>
PrintR2G(v) == PrintOrderedHead(v) \o PrintIfNot("l1_cache_evict_priority", v.l1CacheEvictPriority, Kw("evict_normal"))
  \o PrintIfNot("store_cache_mode", v.storeCacheMode, Kw("write_back")) \o PrintShared(v) \o <<Gt>>
VerifyR2G(v) == VerifyCopyBits(v) /\ (v.memOrder # Weak => v.storeCacheMode = Kw("write_back"))

SigR2S == <<<<"valType", "type">>, <<"copyBits", "int">>, <<"memOrder", "MemOrderKind">>,
            <<"memScope", "MemScopeKind">>, <<"sharedSpace", "SharedSpace">>>>
SigS2R == <<<<"valType", "type">>, <<"copyBits", "int">>, <<"memOrder", "MemOrderKind">>,
            <<"memScope", "MemScopeKind">>, <<"sharedSpace", "SharedSpace">>>>
ReadSharedCopy == OrderedHead \o SharedTail \o <<Lit(">")>>
PrintSharedCopy(v) == PrintOrderedHead(v) \o PrintShared(v) \o <<Gt>>

(**************** multimem: fields read by what they are ******************)
SigMultimemSt == <<<<"valType", "type">>, <<"copyBits", "int">>, <<"memOrder", "MemOrderKind">>,
                   <<"memScope", "MemScopeKind">>>>
SigMultimemRed == <<<<"valType", "type">>, <<"copyBits", "int">>, <<"reduction", "ReductionKind">>,
                    <<"memOrder", "MemOrderKind">>, <<"memScope", "MemScopeKind">>>>
SigMultimemLdReduce == <<<<"valType", "type">>, <<"copyBits", "int">>, <<"reduction", "ReductionKind">>,
                         <<"ldReduceAccPrecision", "LdReduceAccPrecisionKind?">>, <<"memOrder", "MemOrderKind">>,
                         <<"memScope", "MemScopeKind">>>>
FromMultimemSt == [copyBits |-> Int_(0), memOrder |-> Kw("relaxed"), memScope |-> Kw("sys")]
FromMultimemRed == [reduction |-> Kw("ADD")] @@ FromMultimemSt
FromMultimemLdReduce == [ldReduceAccPrecision |-> Absent] @@ FromMultimemRed
ReadMultimem(hasRed, hasAcc) ==
  <<Lit("<"), Val("valType", "type"),
    Each(<<Sort("int", CountOf("b", "copyBits"))>>
         \o (IF hasAcc THEN <<Word("<", <<Val("ldReduceAccPrecision", "LdReduceAccPrecisionKind"), Lit(">")>>)>> ELSE <<>>)
         \o (IF hasRed THEN <<Sort("ReductionKind", <<Val("reduction", "ReductionKind")>>)>> ELSE <<>>)
         \o <<Sort("MemOrderKind", <<Val("memOrder", "MemOrderKind")>>),
              Sort("MemScopeKind", <<Val("memScope", "MemScopeKind")>>)>>),
    Lit(">")>>
PrintMultimem(v, bitsSet, hasRed, hasAcc) ==
  LET last == CASE v.memScope # Kw("sys") -> 4
                [] v.memScope = Kw("sys") /\ v.memOrder # Kw("relaxed") -> 3
                [] v.memScope = Kw("sys") /\ v.memOrder = Kw("relaxed") ->
                     IF hasAcc /\ v.ldReduceAccPrecision # Absent THEN 2
                     ELSE IF hasRed /\ v.reduction # Kw("ADD") THEN 1
                     ELSE IF bitsSet THEN 0 ELSE -1
  IN <<Lt, v.valType>> \o (IF last >= 0 THEN <<Comma, v.copyBits, Kw("b")>> ELSE <<>>)
     \o (IF hasRed /\ last >= 1 THEN <<Comma, v.reduction>> ELSE <<>>)
     \o (IF hasAcc /\ last >= 2 /\ v.ldReduceAccPrecision # Absent THEN <<Comma, Lt, v.ldReduceAccPrecision, Gt>> ELSE <<>>)
     \o (IF last >= 3 THEN <<Comma, v.memOrder>> ELSE <<>>)
     \o (IF last >= 4 THEN <<Comma, v.memScope>> ELSE <<>>) \o <<Gt>>
PrintMultimemSt(v) == PrintMultimem(v, v.copyBits # Int_(0), FALSE, FALSE)
PrintMultimemRed(v) == PrintMultimem(v, TRUE, TRUE, FALSE)
PrintMultimemLdReduce(v) == PrintMultimem(v, v.copyBits # Int_(0), TRUE, TRUE)
\* CopyAtomSIMTMultimemRedType::parse: an unset width is the element's, at least 32 bits
MultimemRedBits(v) == IF v.copyBits # Int_(0) THEN v.copyBits
                      ELSE Int_(Max({ElementBits[v.valType[2]], 32}))
=============================================================================
