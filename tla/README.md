# Formal models of ZML

ZML is an inference stack written in Zig: model code builds MLIR, PJRT compiles
and runs it on an accelerator, and a loader brings the weights of a model from
local disk or a remote store into device memory. Three parts of it carry logic of
their own that tests hardly reach, and these modules model them, check them with
TLC and prove what matters most of them with TLAPS:

- *the path the weights take*: several loads at once, a pool of pinned memory with
  a lock-free stack, asynchronous transfers with callbacks on PJRT's threads, a
  writer that scatters one stream over the shards of many devices without a staging
  buffer, and remote reads split over workers that write through pointers to another
  task's stack;
- *the types of the cute dialects*, by which kernels are built: their text, which is
  how a kernel reaches the compiler, and the inference of one type from another,
  which later passes choose instructions by;
- *the attention kernels of the Neuron platform*: a softmax over tiles of keys in an
  order the compiler picks.

All paths below are relative to the source tree (`zml/io.zig` is
`src/zml/io.zig`).

## 1. The system

### The loading path

```
  Loader.load ---- one task per tensor ----> LimitedGroup (stdx/Io.zig)
                                               |  at most `parallelism` run
                                               v
  parallel_read (vfs) --bytes in order--> DirectMemoryWriter (zml/io.zig)
     workers, queue, batches                   |  one span after the other
                                               v
                                     DirectShardWriter, one per device
                                        |  get              |  transferData
                                        v                   v
                              DynamicBufferPool  <--put-- PJRT callback
                              (zml/mem.zig), one per device
```

| component | state it keeps | operations | what makes it correct |
|---|---|---|---|
| `DynamicBufferPool`, zml/mem.zig:226-316 | `in_flight`, the `free_stack` whose links lie inside the free blocks, the arena, a mutex and a condition | `get`, `put`, `pop` | no block leased twice, none lost, never more than `max_blocks`, no getter asleep next to a free slot |
| `LimitedGroup`, stdx/Io.zig:25-81 | `limit`, `in_flight`, mutex, condition, the wrapped `std.Io.Group` | `concurrent`, `await`, `cancel`, the task wrapper | never more than `limit` functions at once; await returns when all are done; every spawned function runs |
| `DirectShardWriter`, zml/io.zig:764-935 | the block behind the writer interface, `offset`, `flip_flop`, two `EventContext`s | `init`, `drain`, `flush`, `flushBuffered`, `deinit`, the transfer callback | device memory is the stream; a context or a block is never reused under a transfer; complete means landed |
| `DirectMemoryWriter`, `DispatchSpans`, zml/io.zig:963-1447 | the span table, the cursor, the window into the active shard's block | `init`, `drain`, `rebase`, `flush`, `commitWindow` | every shard gets its bytes, in order, and the reader never gets stuck |
| `Loader`, zml/io.zig:312-553 | the group, one pool per device, the loaded flags | `init`, `load`, `loadSingle`, `await`, `loadExecute`, `deinit` | no deadlock over the pools of several devices; nothing in flight when the pools are freed |
| vfs parallel read, vfs/parallel_read.zig and its users hf.zig, s3.zig, gcs.zig | a job queue, workers, a batch per read on the reader's stack | `performRead`, `workerLoop`, `performJob`, `completeOne`, `waitUncancelable` | no worker touches a batch whose reader has left; what is read is the file; every read returns |

How they meet. A load (one task of the group) owns a `DirectMemoryWriter`, which
owns one `DirectShardWriter` per device. Each shard writer leases blocks from
its device's pool, which it shares with all other loads. A full block is handed to
PJRT; when PJRT has copied it, a callback on a thread of PJRT puts the block
back and sets the event of the context the writer left for it. The reader that
feeds the stream may be a remote file, whose reads are cut into chunks for the
workers of `parallel_read`. The hard behaviours are: interleavings on atomics
(`mem.zig`, `Io.zig`), callbacks against the writer (`io.zig`), hold-and-wait
across pools, scratch bytes overwritten in the window, a futex wake that comes
after the last touch of the batch, retries half-way through a chunk, and the
failure of any one step of these.

### The cute dialects

`mlir/dialects/cute_ir` carries the CuTe dialects of nvidia-cutlass-dsl, with the
types that compiler has beyond its release. A kernel builder in Zig calls the C
interface (`lib/CAPI`): constructors from raw arguments, getters that take a type
apart. The module it builds is printed, and the compiler parses the text
(`CuteNVGPUDialect.cpp`, `CuteTypes.cpp`). The result type of each operation is
inferred from the types of its operands (`CuteInference.cpp`), with the layout
algebra of an external library, cutegen.

| component | state it keeps | operations | what makes it correct |
|---|---|---|---|
| cute and cute_nvgpu types: text and C interface | a type is a value: class and parameters | constructor, verifier, printer, parser, getters, per class | the text of a type is read as that type; getters and constructor are inverse; what is accepted exists in hardware |
| cute type inference | what a type states of a value: a constant or a divisor, an alignment, a layout | arithmetic, coordinates, slices, divides, tiles, partitions, fragments, copy traits | whatever the type states is true when the kernel runs; no element is handed out twice or not at all |
| NKI attention kernels, zml/attention/nki/attention.py | running maximum, running sum and running output of a row | launch, load of queries, first tile, one pass per tile, store | the stored row is the softmax over the keys it attends to, whatever the order of the tiles; nothing overflows, nothing is divided by 0 |

Nothing here runs concurrently. What is hard to test is the number of
combinations: some seventy classes of types, each with its constructor, parser, printer
and getters written apart; chains of operations, each of which passes on what the one before
stated; tiles in any order.

### The rest

| part | state and operations | modelled |
|---|---|---|
| `Loader.load`, `loadExecute` | loaded flags, donation of loaded sources to an executable | the loads, yes; the flags and the hand-over, no |
| `TensorStore`, safetensors registry | parsing at start-up | no |
| vfs dispatch and handle tables (vfs.zig, base.zig, hf.zig, s3.zig, gcs.zig) | tables with free lists | no, see 6 |
| HF tree cache (hf.zig), GCS token refresh (gcs.zig) | a map, a header rewritten in place | no, see 6 |
| `Exe`, runners, donation (exe.zig), `HostAccessible` | ownership of buffer handles over calls | no, see 6 |
| zml-smi, `stdx` MPSC queue | a tool of its own; a container without a user in the modelled parts | no |
| HTTP, S3 signing, credentials | formatting and parsing | no: no state but the connection |
| `AllocatingLimitedConcurrentGroup`, `FixedBufferPool` | a bounded queue as a semaphore | no: no user in the repository |
| `BufferedMemoryWriter`, `ProgressWriter`, `sendShards` | one buffer, one task | no: sequential forwarding |
| Platform, mesh, sharding | built once at start-up | only what placement needs, in DispatchPlan |
| Tensor, Shape, ops, nn, MoE, quantization, compiler, MLIR bindings | builders without state or concurrency | no: numerical algebra and code generation |
| profiler, tokenizer, examples, build files, third party | | no |

`PROJECT.json` lists each of these under "components" with its reason, and under
"hazards" each place in the code that is hard to test, with the properties that
cover it or the reason why none does.

## 2. The modules

| module | models | how |
|---|---|---|
| `BlockLease` | what any pool promises | abstract: `Make`, `Reuse`, `Return` |
| `BufferPool` | `DynamicBufferPool` | one action per access to a shared word |
| `LimitedGroup` | `LimitedGroup` and its wrapper | one action per access to a shared word |
| `DeviceStream` | what a shard writer promises | abstract: `Accept`, `Land`, `Finish`, `Fail`, and `Lose`, `Stray` for a stream whose writer was freed too early |
| `ShardWriter` | `DirectShardWriter`, its contexts and its callback | one action per call that another thread can see between |
| `LoadPipeline` | `Loader`: tasks x devices x pools | composes the promises of the pool, the group and the shard writer |
| `DispatchPlan` | `DispatchSpans`, sharding's slices | operators, with an independent definition of who owns a byte |
| `StreamScatter` | `DirectMemoryWriter` | one action per call of the reader and per piece of `commitWindow` |
| `ParallelRead` | `parallel_read.zig` with `performRead` and `Job.perform` | one action per access to the batch, the queue or the buffers |
| `NkiAttention` | decode and prefill of attention.py | one action per pass over a tile, for one row of a block |
| `TypeTokens` | the parser's and printer's helpers | a text is a sequence of tokens, a parser a sequence of items |
| `CopyAtomText`, `TensorAtomText`, `MmaAtomText`, `PtrText` | the classes: copies, tensor memory and TMA copies, MMAs and descriptors, the types of the cute dialect | per class its parameters, its parser, its printer and its verifier |
| `TypeText` | the C interface and the life of a type | build, print, read, take apart and build again |
| `ViewNumbers`, `ViewLayouts` | the integers and the layouts of the types | a number with what the type states of it and what it will be |
| `CopyTraits` | `copyTraitsOf` | tables of layouts |
| `ViewTypes` | type inference | one action per operation of a kernel |
| `*Proofs` | | theorems of BufferPool, LimitedGroup, ShardWriter, LoadPipeline, StreamScatter, ParallelRead, NkiAttention and ViewTypes; those about routing tables, the lemmas about `DispatchPlan`, are in `StreamScatterProofs` |
| `MC*` | | the instances TLC runs, with their symmetries and inputs |

Each lower component is checked in full detail once and then stands in the next
as the promise it was shown to keep: `ShardWriter` takes a pool as
`BlockLease` describes it (a free block, or wait), `LoadPipeline` takes a pool as
a count, the group as a limit and a shard writer as its sequence of transfers, and
`StreamScatter` takes a shard writer as a block that is on the device once it
was handed over. What is lost on the way is said in 4.

Definitions whose comment begins with *Mutant* or *bug* are wrong versions of the
definition after them, each with a bug the code could plausibly have had. No
specification uses them. They show that the property named in "mutants" of `PROJECT.json`
tells the two apart.

### BufferPool

`get` (mem.zig:250-280) first takes a slot of `in_flight` with a weak
compare-exchange (`LoadInFlight`, `Reserve`, `ReserveFails`: the exchange may
fail spuriously, so `ReserveFails` is always possible), then tries `pop`
(`PopHead` loads the head, `PopNext` reads the link inside it, `PopReturns`,
`PopEmpty` and `PopFails` are the exchange), and, with the stack empty, makes a
block under the lock (`AllocLock`, `Alloc`, `AllocFails`). With no slot left it
waits on the condition (`WaitLock`, `WaitCheck`, `Cancel`; a woken getter takes
the lock and looks again). `put` is `Put`, `Link` (the store of the head into the
block's first word), `Push`/`PushFails`, then `PutLock`, `Release` (the
decrement) and `Signal`.

`next[b]` is the first word of block b: a link when `put` wrote it, `Junk` as soon as the
holder of the block fills it (`Fill`), which is what makes the race of 5
visible. `leases` counts leases per address so that a double lease is a state,
not an impossibility. The allocation writes the whole arena bookkeeping under
the lock and is one step; the blocks are interchangeable addresses.

### LimitedGroup

`Spawn` is `concurrent`, `Await`/`AwaitReturns` the owner, `RequestCancel` a
cancel of the group, and each task walks the wrapper (Io.zig:34-58): look at
`in_flight`, exchange, run, lock, decrement, signal. `CancelTask` is the two
cancelable points, `mutex.lock` and `cond.wait` before a signal. A wrapper that
is cancelled ends without its function, which is why `AwaitMeansDone` says what it
says of cancelled groups.

### ShardWriter

The writer is idle, or inside `flushBuffered` (io.zig:861-935) between two calls:
`Submit` (transferData and the filling in of the context), `Register` (onReady),
`WaitPrev` (the transfer before), then `WaitLast` or `GetBuffer`. A transfer is a
record of `flight`: PJRT reads the block at any moment (`Move`), the callback
first puts the block its *context* names (`CallbackPut`) and later sets the event
(`CallbackSet`). `ctx` is the memory of the two contexts, so that a context
filled in too early makes the callback put a block that is not its own. `Rival*` are
other loads, which take blocks of the same pool and overwrite them.
`StepFails` and `MoveFails` are errors of PJRT, the pool and the source.

`Deinit` frees the writer with its contexts, whose words may hold anything afterwards.
A writer that completed has no callback left then. One that failed may
have (`Due`), and is *orphaned*: a callback in a freed context puts back the block it finds there,
any or none, and sets nothing that anyone waits for. Nothing the code promises survives that, so the properties are about
what comes before (`~Orphaned`); 5 says how the code comes there.

`Accepted`, `landed` and `status` map the writer to `DeviceStream`: done
means every byte is on the device, not that every block was submitted. A stream whose
writer was orphaned is lost: `Lose`, and after it `Stray` for whatever becomes of the device.

### LoadPipeline

A task is queued, gets a slot of the group, leases a block per device in
order (`InitGet`, DirectMemoryWriter.init), then submits full blocks of any device
(`Submit`; which one is up to the layout), waits for the transfer before, and gets
the next block of that device (`Get`) while it keeps a block of every other
one. That is the hold-and-wait. `Fail` leaves the slot and keeps the blocks, since
`deinit` does not put them. `Finished` is the system after `await` when every load
ended well, and `DeinitSafe` is about it: after a failed load a transfer can still be pending when
the pools are freed, as it can when one writer is (5).

### DispatchPlan and StreamScatter

`DispatchPlan` computes the spans of a layout: dimensions, element size,
mesh, and for each tensor axis the mesh axes that split it. `LinearIndex`,
`SliceStart`, `ContiguousAxis`, `SpanLen`, `SpanStarts` translate the code;
`Owns` is the independent definition: coordinates of a byte against
the slice of a device. `SplitAxes` takes the mesh axes a dimension names that no dimension
before it and no place before in its own list has used (`Unused`). The merging of the devices' ranges is stated by its result
(each start once, with the first device as primary and the others as mirrors), and
the checks of `DispatchSpans.init` as `Tiles`, whose failure is a refusal. Products,
sums and digits are recursive functions, so that they can be proved about. `PlanRoutes`
compares the table with `Owns` byte by byte, and the size of a shard with the number of
bytes its writer owns.

In `StreamScatter` the reader writes what it likes into the window (`Write`),
calls `drain` with more than fits, `rebase` when the window is full, and `flush` at
the end. All of them run `commitWindow` (io.zig:1338-1446): `ScatterSpan` takes one piece
after the other out of the window, in place for the primary or by a copy
(memmove within the active block, `WriteAll` to another), and `Rotate` hands over
full blocks, all blocks at a multiple of `dma_chunk_size`, and publishes
the next window inside the next primary's block. The bytes are numbered, so the
model tells a right copy from a wrong one.

### ParallelRead

A reader (`performRead`) computes its chunks, puts its jobs (`Put`, one at a
time as the queue has room), and waits on the count as on a futex: `Load`,
`FutexWait`, again. A worker takes a job (`GetOne`), looks whether the
batch failed already (`Check`), fetches the chunk (`Perform`), or is refused, or is
broken off after n bytes and tries again (`PerformRefused`, `PerformBroken`),
counts down (`Complete`) and, if it was the last, wakes the address (`Wake`).
What a worker does to a batch it does to *whatever is on that reader's stack by
then*: the batch is a place, reused for the reader's next read, and `round` only
lets `BatchAlive` tell the two apart. `Held` is the sum of the lengths of the first
buffers and `Requested` that of all; `Scan` is `readChunk`'s walk over the buffers, which
skips those that end before the chunk, and `Placement` says where in the chunk a place of a
buffer gets its byte from.

### NkiAttention

One row of every block is followed, since the partitions of the engine share no
arithmetic. `Launch` is the gcd and the assertions, `LoadQueries` starts a block,
`FirstTile` is the tile decode does before its loop, `DecodeTile` and `PrefillTile`
are one pass of the loop over the tiles, in any order, since `nl.affine_range`
promises none, `Store` divides and copies out. A score is an integer. A sum of
exponentials is kept as a function from keys to terms, `n` times `exp(e)`, so that a
key counted twice, a missed rescaling or a rest of the row before differs from the
right sum. A masked score is so low that its exponential is nothing, which is the
assumption `Depth > 3 * Range`.

### The text of the types

A text is a sequence of tokens. A parser is a sequence of items (`Lit`, `Val`, `Opt`,
`Either`, `KeyField`, ...), run from the left as the `||` chains of the code are. Per
class there is a signature (the C constructor's parameters and their sorts), the
items of the parser and the values its locals start with, the tokens of the printer,
the verifier, and what the parser does with what it found missing. Each is translated
from its own place in the code, so the four can disagree. `TypeText` walks one type
through `TryArgs` (`Construct`), `WriteText`, `ReadText` and `Rebuild` (`Getters`,
then `Construct` again). Layouts, shapes and bases are values that the text keeps: their
own spelling is cutegen's.

### The inference of types

A number is a pair: what its type states (a constant, or a divisor) and what it
will be when the kernel runs. `ViewTypes` holds a tensor (memory or coordinates) and an
integer, coordinate or index, and every operation of `Next` computes the result's
type from the types alone, as `CuteInference.cpp` does, and the result's value
from the values. A type that states too much shows as a pair that does not fit. The
layouts, indices, constants, tiles and atoms a kernel may use are constants of the
module, of which it assumes that they are what a program can start from: layouts and indices of
`TrueNumbers`, whose types are right, extents above 0, CTAs that divide their atom.
`MCViewTypes` gives the small sets TLC runs with. `Taken` says how many numbers of a coordinate
go to the modes before each; the order in which a fragment lays out its leaves is a relation
(`Earlier`: by stride where strides are plain integers, in the order of the source where they are basis
vectors), and a leaf's stride the product of what comes before it.

## 3. What TLC checks

State counts are distinct states.

| run | instance | question and answer | states |
|---|---|---|---|
| `pool_single` | 1 getter, 2 putters, 4 addresses, MaxBlocks 3, 5 gets, failing allocator | with one task inside `pop`, every interleaving of get, put and the callbacks keeps leases exclusive (`LeaseExclusive`), and the pool implements `BlockLease`; `PoolInv`, the invariant of the proof, holds | 11 k |
| `pool_one_block` | 3 getters, 2 putters, MaxBlocks 1 | with one block `in_flight` keeps the other getters out of `pop`: the count is exact, no free slot is left to sleepers, and with fair threads every `get` returns | 53 k |
| `pool_race` | 2 getters, 2 putters, MaxBlocks 2 | the first finding of 5 | until found |
| `group_limit` | 4 tasks, limit 2, cancel at any time | the limit, await, the wakeups, and await returns | 86 k |
| `shard_faults` | 5 bytes, blocks of 2, 3 blocks, a rival, a failure of any step | until a failed writer is freed under a callback, device memory is the stream (`DeviceFaithful`), each block has one holder and contexts are kept; a writer that is done has all its bytes on the device (`ImplementsStream`) | 170 k |
| `load_devices` | 3 tensors, 2 devices, 2 at once, 2 chunks, any load failing at any point | no load waits for a pool that cannot refill itself, nothing is in flight after await, what each load keeps (`PipelineInv`), and unless a load fails everything is loaded | 759 k |
| `scatter_layouts` | 12 layouts x 6 chunk sizes, any reader | the plan routes every byte to its owners, every shard gets its bytes, the window is inside the active shard's block, no rotation skips the fence, and the tensor is delivered, so no writer ever refuses | 21 k |
| `read_batches` | 2 readers, 2 workers, queue of 1, 3 kinds of request, 2 reads, 2 faults, 1 retry | no job outlives its batch, the bytes are right, nobody sleeps forever, every read returns | 344 k |
| `ir_text` | 70 classes, an ordinary call with up to two arguments changed, 2 rounds | the text of a type is read as that type but for the named kinds of value (`ReadsBack`), stable from the first reading on, getters and constructor are inverse, and the tensor-memory copies accepted fit the registers | 35 k |
| `nki_attention` | tiles of 2, products of 4, 2, 3, 6 and 8 keys, 2 groups of 3 heads, every token, 2 scores | every stored row is its softmax over the keys it attends to, no exponential exceeds 1, no sum is 0, every cell of the output is written once; a length the tiles do not divide is refused | 506 k |
| `view_types` | chains of 2 operations, 6 layouts, elements of 1 and 16 bits | what the result types state is true, tiles and partitions hand out every element once, registers of a fragment do not alias, nor those of an accumulator, but for those with several modes of several stages (5), copy atoms move every bit | 131 k |
| `view_subbyte` | elements of 4 bits | the second finding of 5 | until found |

Why these bounds are enough to be interesting:

- *Pool.* Three blocks make a stack with a middle; five gets make every block go out, come
  back and go out again; two putters push against each other and against `pop`. A fourth address,
  which the allocator could return, would show an arena grown too far.
  Three getters for one block make two sleep at once, so that one signal serves one of them
  and a newcomer may take the slot before it.
- *Group.* Four tasks on two slots: two run, two wait, one leaving may wake one
  while a newcomer takes the slot.
- *Shard.* Five bytes in blocks of two are three transfers, so a context is used
  again, and the last block is short. Three blocks allow the block of one transfer
  to go to the rival while another is in flight. With failures a writer is freed with no, one or
  two callbacks due.
- *Loads.* Two devices and two loads are the smallest hold-and-wait; the third
  tensor waits for a slot. Two blocks per shard make each writer ask again
  while it holds a block of the other device.
- *Scatter.* Scalar, replicated, split by rows, by columns, with mirrors, by both
  axes, folded (two mesh axes on one dimension, in both orders), one mesh axis named by
  two dimensions, and one named twice by the same, a middle axis. Chunk sizes below, at, beyond and not dividing the
  span length and the shard size.
- *Reads.* A read that spans two chunks and three buffers, one of them empty and one never
  reached; one that is cut by the end of the file; one behind it. A queue of one
  makes a reader block in putAll while a worker holds a job of the other. Two reads allow one
  reader's second batch to lie where its first one was. With two faults and one
  retry a chunk fails for good, or two chunks break once each.
- *Text.* A disagreement of a constructor, a printer and a parser is about one
  parameter, or about one that is read or completed in the light of another: two
  changed arguments reach each pair. Values are at and beyond the limits of the verifiers,
  absent, of another context, or not values of the enum. A second round is where a
  text that drifts would differ.
- *Attention.* Six keys on tiles of 2 with products of at most 4 make three tiles of keys,
  eight make two of two value tiles each, three is refused. Two scores are enough for
  the maximum to grow, stay, or come late, in every order of tiles.
- *Views.* Layouts with an unknown stride of a known divisor, with a stride of 0, with an
  extent of 1, with an unknown extent, with a nested mode; indices that are constants or
  known by a divisor of 1, 2 or 4. Two operations are an index computed and then used,
  or a view tiled and then sliced, which is where a fact is passed on. Accumulators have one, two or three
  modes behind the atom's, among them two of several stages. Boxes of the TMA copies have
  extents below, at and above 256.

Bounds that only keep the model finite: `Gets`, `RivalGets`, `Reads`, `Faults`,
`Rounds`, and the `Depth` of `ViewTypes`. Each is a guard on how often the *environment* acts.

The models stop for good when their bounded work is done, and some do when a load
failed and kept its blocks, so every configuration says `CHECK_DEADLOCK FALSE`. A
deadlock before that is what the liveness properties would find.
With `Parallelism = 2`, `DmaChunks = 1` and two devices `LoadPipeline` does
deadlock: each load keeps the only block of one device and waits for the
other's. The sizes the examples run with have
a chunk per load (16 loads with 32 chunks, 8 with 16, 1 with 1), so the condition
is an assumption, `EnoughChunks`, of the theorem rather than a finding; but nothing in
`Loader.init` asks for it, and `Model.loadBuffers` of examples/llm/models/lfm2/model.zig:181-185
(not called by anything, and written for an older signature of `load`) has 16 loads with 8 chunks.

### Fairness

- *Pool and group.* A thread that can take a step takes it; a weak
  compare-exchange may fail, but not forever (strong fairness of the exchange);
  every leased block is eventually put, since PJRT completes transfers.
  `EveryGetReturns` is for an allocator that does not fail: after a failed
  allocation the slot goes back without a signal (mem.zig:269), which a
  sleeping getter does not notice. In the group the owner awaits, functions
  return, and a requested cancel reaches every waiting task.
- *Loads.* Tasks run and PJRT completes. Weak fairness per task is enough:
  there are finitely many tensors, so a waiting load is overtaken finitely often.
- *Scatter.* One thread, which runs, and a reader that has all the bytes.
- *Reads.* Readers and workers run, and a request ends in one way or another. The
  subscripts are the program counters, which each of those steps changes. No
  strong fairness of putAll is needed for the bounded number of reads.

The other runs check safety only and assume none: the types and the kernels are
sequential, and that a
shard completes when the pool and PJRT go on is part of `AllLoaded`, where a writer is
its sequence of transfers.

## 4. What TLAPS proves

For every value of the constants the modules' assumptions allow:

| theorem | statement | hypothesis |
|---|---|---|
| `PoolInvariant` | `PoolInv` always | one task at a time inside `pop` (`[]SinglePopper`) |
| `SafePool` | `PoolInv` always | one getter, or `max_blocks = 1` (`SafeSizing`) |
| `CountInvariant`, `InFlightIsExact`, `TypeCorrect` (pool) | `in_flight` counts what it should, in pools of any size | none |
| `NoWakeupIsLost` | while getters sleep, every free slot has someone who will look at it or is about to signal | no allocation fails |
| `LeasesAreExclusive`, `ArenaIsBounded` | the safety of the pool | `[]SinglePopper` |
| `PoolImplementsLease` | `BufferPool` implements `BlockLease` | `[]SinglePopper` |
| `GroupInvariant`, `LimitHolds`, `AwaitIsDone`, `NoWakeupLost` | the safety of the group | none |
| `ShardInvariant`, `ContextsAreKept`, `BlocksHaveOneHolder`, `DeviceIsFaithful` | the safety of the shard writer, failing or not, until it is freed under a callback | none |
| `WriterImplementsStream` | `ShardWriter` implements `DeviceStream`, in which a writer freed under a callback is a lost stream | none |
| `PipelineInvariant`, `DeinitIsSafe` | the safety of the loads; of the freeing of the pools, when no load failed | none |
| `NoStarvation` | no load waits for a pool that only waiting loads could refill | `Parallelism <= DmaChunks` |
| `CountsAreExact`, `BatchesOutliveJobs`, `SleepersAreWoken` | the safety of remote reads, retries and failures included | none |
| `SettledIsFilled`, `ReadsReturnTheBytes` | a read without an error has the file's bytes in order across its buffers | none |
| `WindowsHold`, `ReaderWritesInPlace`, `NoFenceIsSkipped` | the window, the cursor and the fence of the scatter, for every layout of equal parts and every chunk size | none |
| `TableRoutes` | the routing table sends every byte to exactly the devices that own it (`PlanRoutes`) | none |
| `EveryByteInOrder`, `ScatterDelivers` | every shard has its bytes, in order, and all of them after flush | none |
| `NothingRefused` | no shard writer meets a byte it has no room for: the scatter never fails | none |
| `AttentionCorrect`, `NumericallyStable`, `TypeCorrect` (attention) | the kernels store the softmax, stably | none |
| `EveryCellOnce` | every row of the output is stored, and under its own head and position | none |
| `FactsAlwaysTrue` | values and divisors that inferred types state are true, in kernels of any length (`FactsTrue`) | none |
| `AlignmentAlwaysTrue` | pointers are aligned as their types state (`AlignmentTrue`) | elements are bits or whole bytes |

*Pool.* `LeaseExclusive` is not inductive: that a popped block is not leased
already rests on the links in memory. `PoolInv` adds, in named parts: what a
putter is returning is its own (`PutsOwn`); the links form one chain from
the head through exactly the blocks that came back (`StackIntact`); what the task inside
`pop` has read is still so (`PopsFresh`), which is false for two tasks and the reason
for the hypothesis; `in_flight` is the number of slots, leases and releases under way
(`Counted`); and whoever found the stack empty has the right to one more block
(`Bounded`). `Chained` says acyclicity without recursion: every non-empty set of
stacked blocks is entered from the head or from outside it. Four lemmas say what
moving the head, pushing and writing elsewhere do to a chain; one lemma per
group of actions does the rest. The count and the bound are cardinalities of
unions of disjoint kinds of token, so that most steps exchange one token for another.
`PopEmpty` is the step that needs them together: an empty stack means every block is leased, and a
free slot then means that the arena has room. That `SafeSizing` implies
`SinglePopper` is a consequence of `Counted`: with one slot there is one
token.

That the count is exact does not need the stack to be right. `CountInv` is the part that survives
two tasks in `pop`: `in_flight` is the sum of the leases over all *words* a getter can be
handed, the reservations and the releases under way (`InFlightExact`), and an address that is being put
by several callbacks is leased at least as often. It is proved without a hypothesis, so the finding of
5 corrupts blocks but never the count. `NoWakeupIsLost` is an induction over it: a slot becomes free
in a step that leaves someone awake or about to signal, since every decrement is
followed by a signal except the one after a failed allocation (mem.zig:269), which is the
hypothesis.

*Group.* `GroupInv` makes `in_flight` the number of tasks between their
exchange and their decrement. `NoWakeupLost` is a separate induction over it:
a free slot comes from a task that is about to signal, or is watched by one that
will look again, cancels included.

*Shard.* That the device is the stream needs the blocks not to change while PJRT may
read them (`Contents`), which needs each block to have one holder (`OneHolder`). A
block changes hands when the callback puts the block *its context* names, so `OneHolder`
needs the contexts to be as they were filled in (`Turns`): a slot has at most one
transfer, and the slot that is used next is free because `WaitPrev` waited for it one
transfer ago. `Fits` says where in the shard the writer is, and that a writer past its
shard has no transfer left. For the refinement, complete must mean landed: `NothingTwice` keeps the
spans of different transfers apart, so that a landed byte stays landed, and
`NothingBehind` accounts for every byte that was sent: it is on the device, or a
transfer has it, or an error is pending that the writer has yet to see. Without the
pending error the last part is false, and with it a success leaves nothing out. Each
action then maps to `Accept`, `Land`, `Finish`, `Fail` or to nothing.

All of this is `LiveInv`, and `ShardInv` is `LiveInv` or an orphaned writer, of which only the types are
known. `LiveStep` is one step per action; `DeinitStep` is where the two parts meet: a writer that is done has
waited for its last transfer, so no callback is due and `LiveInv` is kept, and one that failed may have one
left. `OrphanStep` says that an orphaned writer stays one. Its steps map to `Stray`, or to nothing, and `Deinit` to `Lose`.

*Loads.* `PipelineInv` says which blocks a load keeps at each point
(`Honest`), and which transfers can be pending (`Recent`). A load that waits for
a device keeps no block of it, and only active loads keep any, so at most
`Parallelism - 1` others keep one, which is below `DmaChunks`.

*Reads.* `BatchAlive` is not inductive: that no job is left when the reader sees 0
rests on the count. `ReadInv` says that a batch counts its `Outstanding` chunks,
those that are yet to be put, queued or in a worker's hand (`Counted`), that no
chunk is in two places (`Apart`), that a job is of the batch that lies on the stack
now (`Alive`), and that a reader waits only when all its jobs are put (`Paced`). A
step of putAll, of the queue or of a worker then moves one chunk from place to place, and
only `completeOne` takes one out, by as much as it takes from the count.

`ReadsReturnTheBytes` rests on the arithmetic of the chunks: they do not overlap, they
cover what is read (`JobsCover`), and the walk over the buffers puts byte o of a chunk where the
sum of the lengths before it says (`PlacementRight`). `DataInv` adds that a chunk
that is settled, neither to be put nor queued nor worked on, has all its bytes unless the batch has an error,
and that nothing behind what is read is ever written. A request that breaks and is tried again writes
the same bytes to the same places, so what it did before it broke needs no record. When the count is 0 every chunk is settled.

*Scatter.* The theorems are about whatever `DispatchSpans` computes, so the first lemmas are
about its recursive functions: the table is a sequence of spans of one length, each with
writers of the mesh, none twice (`PlanType`). `ScatterInv` says that the cursor is in
the span that is next (`Cursor`); that what is left of the window, the chunk and the tensor
bounds the window, measured from where the cursor was when it was opened (`Window`); and,
within `commitWindow`, that what the active block's writer has taken ends where the bytes still to be
read begin, or at least a whole span before them (`Scratch`). The last is what makes the
memmove of a later span a copy downwards that spares the bytes it has not read: a piece that goes to
the active writer leaves the gap between them as it is, and any other piece but the last widens it by a
whole span.
`NoFenceIsSkipped` follows from the bound by the chunk: two cursors within one step have the
same quotient.

For `ScatterDelivers`, `Contents` says of each shard writer that its device and its block together hold
the first `Got` bytes it owns, and `Unscattered` that the window holds the bytes from the
cursor on. A piece of a span goes to the primary and its mirrors by a loop, which is a recursive
function of the shards; `ScatteredIs` says what it computes, by induction along the mirrors, since
no writer is met twice. `PlanRoutes` (below) then says that these writers are exactly the owners of the piece,
so `Got` grows by its length for them and for no other, and the next numbers of the
increasing sequence `Expected` are those of the piece (`SortedRight`). After the last byte
`Got` is the whole shard, and `flush` hands over what is left. `NothingRefused` is the same count read
the other way: the writer of the next span owns the byte at the cursor, so its shard is not full, and
its block is not, since a full block was handed over (`RoomLeft`); the window that `Rotate`
publishes is therefore never empty before the tensor is done, and a piece is within what is
left of each shard it goes to.

*Routing.* `PlanRoutes` is a statement about one layout that no step changes; `TableRoutes`
proves it for every rank, every mesh and every binding of mesh axes to dimensions that cuts them
into equal parts. A byte is a number written in the dimensions of the tensor and the size of an
element, a device one written in the dimensions of the mesh (`IsRadix`). Numbers in such a
system have one sequence of digits, so a byte belongs to a device when each of its indices lies in the
device's part of that dimension, and the part is a number again, written in the mesh axes
that split the dimension (`LinearIndex`). Digit `i` of the slice's start, the contiguous
axis below which nothing is cut, and the starts of the spans then agree with the owner's definition: the span
that holds a byte starts at one of a device's starts exactly when the device owns the byte. That every
device's shard is one part of each dimension, and that no mesh axis splits two dimensions, gives the
sizes of the shards (`SharesEqual`) and the tiling of the tensor (`PlanTiles`), without which
`DispatchSpans.init` would refuse the layout.

*Attention.* `IInv` says that between two tiles the sum and the output hold the
weights of a softmax over the keys of the tiles done so far, relative to the largest
score among those the row attends to (`PartSoftmax`), and that no tile starts behind
the row. `AddTile` is the step: adding the terms of a tile to rescaled weights gives the
weights of both sets of keys, whichever order they come in. The rest is arithmetic of
tiles: they do not overlap, they cover the keys up to the row's, and the value tiles
cover a tile of keys. `EveryCellOnce` is an induction over `Stored`: what is written are the
cells of the blocks that are done, and those of different blocks are apart.

*Inference.* `FactsTrue` names the numbers a reader can see; the invariant, `TrueState`, has all of them:
every number of the view, the coordinate and the fragment is in `TrueNumbers`, that is, its type states
its value or a divisor of it that is not 0, and extents are above 0. Numbers of that set are closed under the
arithmetic of the types. That is Euclid's algorithm (`GcdRight`: the recursive `Gcd` divides both, and
whatever divides both divides it) for sums, and one lemma each for products, quotients,
remainders and the splitting of an index. Sums and products over sequences, flattening, slicing,
dividing, grouping and the fragments' strides then keep layouts in `TrueLayouts`, and one lemma per action says
that what it builds follows. For pointers, `Aligned` joins the invariant: the alignment in bytes,
times 8, divides the address, *and is not 0*. The second half is what fails for other elements of
less than a byte (5). A move takes the alignment to a gcd of it and a divisor of the
move, so it divides the sum; when less than a byte is left, which only happens to elements of one
bit, the natural alignment of 1 takes its place, and a bit's stride is a byte.

Induction over data does without the induction theorems of the library: a set of
numbers has a least element (`LeastNumber`), so a set that holds 0 and with each number the next
holds all up to N (`InductionUpTo`). The set is `{n \in 0 .. N : ...}`, and a recursive function is
the function its definition says because a partial solution exists up to every n (`IsRun`,
`StepsExist`).

Only model-checked: all liveness (fairness and ENABLED are beyond the prover), `EventuallyClosed`
among it, of which `NothingRefused` is the half that is a safety property.
`TilesPartition` counts the elements of unions of sets that folds over leaves build, and
`RegistersApart` the registers; `EveryBitMoved` is a statement about finite tables, which TLC goes through
completely but for the widths. The four properties of `TypeText` enumerate tables of classes and
rest on parsers that are RECURSIVE operators.
Of the pool, leases are exclusive and `BlockLease` is implemented only under the hypotheses above:
without them both are false, as 5 shows.

What the models leave out, besides the parts of 1: the memory model beyond
interleaving (the exchanges of the pool and the group are acquire or release where it
matters); types of less than a byte, dimensions of 0 and the 8 bits of
an axis split in `DispatchPlan` (enough for 256 parts of a dimension, Sharding.zig:2185-2190);
shards of zero bytes in `ShardWriter`; cancelling a reader, closing the worker
pool under its readers, and servers that ignore the range in
`ParallelRead`; progress bars and logging. In the kernels: rounding, and the
underflow of terms that are small but not masked. In the types: the spelling of layouts, the
data-layout queries of a type, alias names; of the inference, products and
compositions, tiled copies, TMA tensors, descriptor views, sparse elements, the widths
of integers, `_` inside tilers, and modes nested deeper than one level.

## 5. Findings

`DynamicBufferPool.pop` (mem.zig:300-310) reads `h.next` before it exchanges the
head for it. With two tasks in `get` and two blocks: A loads head b1 and is
about to read its link; B pops b1, its holder writes bytes into it, A reads those
bytes as the link, b1 is put back, and A's exchange succeeds, since the head is b1
again. The head is now an address made of user data. `pool_race` is the shortest
such behaviour: `HeadIsNode` says of `free_stack` what its type says
(mem.zig:234, a node or null), in the sizes the loader's own test uses
(io.zig:572, `.parallelism = 2, .dma_chunks = 2`). With one getter, or with one
block, it cannot happen: that is `SafePool`. The default of one load at a time
(io.zig:324) is on the safe side, as is the README's example with one chunk; other
examples run 8 and 16 loads.

`movedAlignment` (CuteInference.cpp:103-122) computes the alignment a pointer keeps as a gcd
with what is known of the offset. Where nothing is known of the pointer, its alignment being 0, it starts from
the natural alignment of the element, which for an element of less than a
byte is 0 too (CuteTypes.cpp:1069), and gcd(0, x) is x: the pointer is typed as aligned to
whatever it was moved by, wherever it was before. `view_subbyte` takes one operation: a pointer of
alignment 0 at bit 24 is moved by 3 elements of 4 bits, and the type then states
gcd(0, 12) / 8, 1 byte, of an address at bit 36, in the middle of one. With elements of 16 bits, and of 1 bit,
whose natural alignment is a byte, the stated alignment is true (`view_types`).

Three more observations are part of passing runs, whose properties name the cases that they leave out.

A shard writer can be freed under its callback when a load fails (`shard_faults`). `flushBuffered` submits a block
and can then return an error: a call fails (io.zig:875, 893, 928), the transfer before failed
(io.zig:906), or the source of the bytes does (io.zig:495, 499). In each case
`loadSingleInner` returns, its `defer writer.deinit` (io.zig:485) frees the shard writers
(io.zig:1258), and the callback of a block under way comes later, with a pointer into what was freed:
it takes the pool and the block from there and writes the error and the event there (io.zig:887-889).
`loadSingle` catches the error (io.zig:454) and the program goes on, with the pools the load shared with
others. The shortest such behaviour submits one full block and finds no second one in the pool
(io.zig:928). The writer's `deinit` first destroys the transfer manager (pjrt.zig:1529). Nothing in the
repository says that this waits for callbacks, and the model does not assume it; under a
PJRT plugin whose destroy waits, `Orphaned` is not reached. What is shown is that this takes a failure: a
writer that is done has no callback left (`ImplementsStream`, where only a failed stream is lost), and up to
there the other properties hold.

`mma_make_fragment` gives every mode of an accumulator behind the atom's the stride of one stage, unless its extent is
1 (CuteInference.cpp:1176-1181). With two modes of several stages both get the
same: the shape ((128,8),2,2) has the strides ((65536,1),8,8), and the second stage of one mode is in the
columns of the second stage of the other. The comment wants "one lane per row and one column
per element" (CuteInference.cpp:1140-1141), and nothing refuses such a shape. The kernels of the repository have at
most one such mode. `RegistersApart`, in `view_types`, says that the values of an accumulator are apart for these
and meet for the others.

Some values a constructor accepts have
no text their parser reads as the same type: an MMA whose fragment kind the grammar of
its atom has no word for, a `binary_op` without the `int_overflow` it is read
after, an empty tuple, and a copy width of 0 where the parser puts the element's. They are
named in `NoGrammar` and `ElementWidth` of `TypeText`, and `ReadsBack` says that these, and
the long spellings of `LongWay`, are all there are.

## 6. Not modelled

The plan of the loading path is done: BlockLease and BufferPool first, because every
load rests on the pool; LimitedGroup; ShardWriter over the abstract pool; LoadPipeline
over all three; then the two data paths, StreamScatter and ParallelRead, and the
proofs. After it came the kernels and the types. What is left out, and why:

- *Handle tables of the vfs* (hf.zig:402-408 and their like): a handle closed twice, or used after
  another task closed it, goes wrong. Whether callers may do that is a contract the
  repository does not state, and the safety under it is one lock around one table.
- *HF tree cache* (hf.zig:439) and *GCS token* (gcs.zig:525): a standard-library map that is read while it
  grows, a buffer of a header rewritten under its readers. What can go wrong lies below the
  steps a model of this code could take.
- *Answers of a server* (hf.zig:100, hf.zig:645) and *canceled readers* (hf.zig:914): they need servers and a
  cancelation of std.Io as part of the model; `ParallelRead` says so at its head.
- *What a load does with a failure of its own or of its source* (io.zig:449, 499, 540): the process ends, a
  stream that ends early counts as done, a set of sources of which one failed is
  refused; single decisions at the end of one task, after everything `LoadPipeline` says.
- *Executables and donation* (exe.zig): one task, whose calls PJRT checks.
- *Sub-byte layouts of tensors* (shape.zig:391): the byte algebra of `DispatchPlan` has no
  fractions of a byte.
- *zml-smi*: a monitoring tool of its own.
- *Operations of the cute dialects beyond those in* `ViewTypes`: each is a rule of cutegen, which
  is not in the repository.

Worth doing next: `TilesPartition` for every layout, by the argument on digits that `TableRoutes`
uses, since the elements of a layout without broadcast are numbers written in its extents; the
products and compositions of layouts, of which the repository says what cutegen has to
return.

## 7. Running

`tlc -config pool_single.cfg MCBufferPool.tla`, and so on; `PROJECT.json` names the
module of each run. `tlapm BufferPoolProofs.tla` and the other proof modules.
The longest runs, `read_batches`, `load_devices` and `view_types`, take one to two minutes
on two workers.
