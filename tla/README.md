# MobilityNebula: specifications in TLA+

MobilityNebula is a stream processing system built on NebulaStream, with
spatio-temporal functions of the MEOS library. A client turns an SQL query into
a plan and sends it to a worker node, which compiles it and runs it on a pool of
threads. This directory holds TLA+ modules for both halves, the way of a query
from its text to pipelines and the concurrent core of the worker, the TLC
configurations that check them on small instances, and proofs that TLAPS
checks. Paths below are relative to the repository's `src/`.

- [1. The system](#1-the-system)
- [2. The modules and the code](#2-the-modules-and-the-code)
- [3. What is checked](#3-what-is-checked)
- [4. What is proved](#4-what-is-proved)
- [5. Where code and comments disagree](#5-where-code-and-comments-disagree)
- [6. What is not modelled](#6-what-is-not-modelled)
- [7. Plan](#7-plan)

To run: `tlc -workers 2 -config MCSequencer.cfg MCSequencer` (and likewise for
every configuration; `MonotonicSeqQueue.cfg` goes with `MonotonicSeqQueue`), and
`tlapm M.tla` for the modules with proofs: `SequencerProofs` (under a minute),
`MonotonicSeqQueueProofs`, `MeosExecutionProofs`, `ChunkCollectorInvariant`,
`ChunkCollectorProofs`, `ChunkPipelineProofs` (one to three minutes each),
`BufferPoolsInvariant` and `BufferPoolsProofs` (six and nine minutes).

## 1. The system

### How a query travels

The *SQL listener* builds a logical plan while ANTLR walks the parse tree. The
client's *legacy optimizer* looks sources up in the catalog, replaces each by
its physical sources, puts a Sequence operator below aggregations that depend
on order, infers types, gives every source and every windowed operator an
origin id and infers types again. The plan crosses the wire in a protobuf
message; the worker's registrars rebuild each operator and infer once more.
*Lowering* replaces logical by physical operators and turns the tree around;
*pipelining* cuts it into pipelines, and the compiler wires a stage for each.

### How a buffer travels

A *source thread* fills buffers and puts a task for each into the *admission
queue* of the *query engine*; the write blocks while the queue is full. *Worker
threads* take tasks from an internal queue, or from the admission queue when
the internal one is empty. A work task runs a pipeline on a buffer. Pipelines
form a graph: what one emits becomes a task for its successors, and sinks are
its leaves. The first pipeline behind a source is a *formatter*, which finds
tuples in raw bytes although they span buffers that are processed in any order.
Nothing orders the buffers of a stream after the source, so every operator with
state has to put order back by the numbers a buffer carries: its origin, its
sequence number, and, since a pipeline may turn one buffer into several, a chunk
number and a last-chunk flag.

### Inventory

| Part | State | Operations | What makes it hard |
|---|---|---|---|
| SQL parser (`nes-sql-parser`) | a stack of helpers with builders, flags and counters | 36 handlers of the tree walk | handlers of different clauses share what they leave behind |
| Logical plans, functions, types (`nes-logical-operators`, `nes-data-types`) | immutable trees | inference, replacement, serialization | every class repeats the same protocol by hand; names are resolved by suffix |
| Optimizer and client (`nes-nebuli`) | a plan | six phases | each relies on what the ones before left |
| Lowering and compiler (`nes-query-optimizer`, `nes-query-compiler`) | wrappers, pipelines, stages | rewrite rules, flip, cutting, wiring | one walk with side effects over shared nodes |
| Query engine (`nes-query-engine`) | catalog with an atomic state per query; running plan; reference-counted nodes; callbacks; two task queues | start, stop, eight kinds of task, deleters and callbacks | the last reference decides when a pipeline stops; callbacks run on whichever thread drops it; locks are held while a thread is joined |
| Source threads (`nes-sources`) | thread, stop token, termination promise | fill and emit, end of stream, error, tryStop, destructor | blocked on a full queue while it is being joined |
| Query log, node engine (`nes-runtime`) | status entries; registered queries | log, summary; register, start, stop, unregister | reports overtake each other |
| Buffers and pools (`nes-memory`) | queues of segments, reference counts, unpooled chunks | get, recycle, retain, release, destroy a pool | recycling against destruction; waiting for buffers |
| Input formatters (`nes-input-formatters`) | sequence shredder: a ring of bitmaps | process a buffer with or without a delimiter, flush | snapshots; a ring that moves and grows |
| Sequencer and sequence operator | next number, queue of early buffers, current buffer | isNext, advanceAndGetNext | the current buffer is outside the lock |
| Emit operator | two maps under two locks | number a buffer, detect the last one, clean up | a decision in two critical sections |
| Chunk collector | list of nodes with slots of atomics | collect | slots are used without the list's lock; an unsigned counter wraps |
| Monotonic sequence queue | list of blocks, head, currentSeq | emplace, shift, getCurrentValue | lock-free |
| Slice store and windowed operators | slices, windows, active origins | find or create a slice, trigger, terminate, probe, garbage-collect | two locks, skipped when taken; plain pointers to slices |
| Window state (`nes-nautilus`, aggregation functions) | paged vectors, hash maps | append, combine, look up; reset, lift, combine, lower | a slice is combined once for every window it is in |
| MEOS functions (`nes-plugins/MEOS`, `Functions/Meos`) | flag, exit handlers, MEOS itself, a shared struct tm | more than a hundred spatio-temporal functions | nothing is locked |
| Sinks, plugins, configurations, utilities | I/O and options | | see section 6 |

`PROJECT.json` lists all components with their files, and the forty most
important hazards with the line at which each one bites.

### What correctness means for each part

- **Compilation**: a query that is right is compiled, a wrong one is refused by
  the client, and no assertion decides; the plan means what the text says; the
  worker gets the plan the client sent; fields, types and origins are consistent
  throughout; the pipelines do what the plan says.
- **Engine**: every way to end a query ends in one final state that the log
  agrees with; stages are started before they execute, are stopped once, after
  all that feeds them and with nobody inside; at the end of a stream all work
  is drained first; nothing leaks; nobody waits for ever.
- **Formatter**: every tuple is formatted once, however the bytes are cut.
- **Buffers**: the count is the number of references, a segment is in one place,
  nothing is used after it was given back.
- **Sequencer, chunks, sequence queue**: buffers are processed one at a time
  and in order; a sequence number is complete exactly when all its chunks have
  been counted; the current number never runs over a gap and gets to the end.
- **Windows**: a window is given out once, in the order of event time, with all
  of its records; its slices live until it has been probed; its result is what
  the records say; every window that has a record is probed.
- **MEOS**: it is entered between its initialization and its finalization only,
  and finalized once; what the planner accepts, the worker can evaluate.

## 2. The modules and the code

A definition has the name of the function it models where TLA+ allows it, and
`PROJECT.json` maps each one to its lines. Definitions whose comment begins
with *Mutant* are deliberately wrong variants: with one of them in place of the
definition below it, some property fails.

| Module | Models | Composed with |
|---|---|---|
| `WrittenQueries`, `SqlListener` | `AntlrSQL.g4`, `AntlrSQLQueryPlanCreator`, `AntlrSQLHelper` | below |
| `Schemas` | `DataType`, `Schema`, their serialization | |
| `MeosLogicalFunctions`, `LogicalFunctions` | the logical function classes and aggregations | |
| `LogicalPlans`, `PlanSerialization` | the logical operators, `LogicalPlan`, `LogicalPlanBuilder`, all serialization | |
| `LegacyOptimizer` | the phases of `nes-nebuli`, the source catalog | |
| `PhysicalLowering`, `Pipelining` | `LowerToPhysical*`, `FunctionProvider`, `PhysicalPlanBuilder`; `PipeliningPhase`, `LowerToCompiledQueryPlanPhase` | |
| `QueryCompilation` | `LegacyOptimizer::optimize`, `GRPCClient`, `GrpcService`, `SingleNodeWorker::registerQuery` | extends all of the above |
| `MeosPhysicalFunctions`, `MeosExecution` | `Functions/Meos/*`, `MEOSWrapper.cpp` | with `MeosLogicalFunctions`: what the planner accepts |
| `QueryLog`, `QueryEngine` | `QueryLog.cpp`; `QueryEngine.cpp`, `RunningQueryPlan`, `RunningSource`, `SourceThread` | `QueryEngine` extends `QueryLog` |
| `BufferPools` | `BufferManager`, `FixedSizeBufferPool`, `TupleBufferImpl`, `TupleBuffer`, `UnpooledChunksManager`, and how sources and workers use them | |
| `SequenceShredder`, `InputFormatterTask` | `SequenceShredder.cpp`; `CSVInputFormatter.cpp`, `InputFormatterTask.cpp` | the second extends the first |
| `OrderedStream`, `Sequencer` | what a sequencer promises; `Sequencer.hpp`, `SequenceOperatorHandler`, `SequencePhysicalOperator` | the second refines the first |
| `ChunkCollector`, `EmitOperator`, `ChunkPipeline` | `ChunkCollector.hpp`; `EmitPhysicalOperator`, `EmitOperatorHandler`; two pipelines in a row | `ChunkPipeline` extends the second and instantiates the first |
| `GaplessPrefix`, `MonotonicSeqQueue` | what a sequence queue promises; `NonBlockingMonotonicSeqQueue.hpp` | the second refines the first; takes from `ChunkCollector` that a number is put in once |
| `SliceAssigner`, `Containers`, `WindowState`, `WindowOperator` | slice boundaries; paged vectors and hash maps; the aggregation functions and what slices hold; slice store, handlers, build and probe operators, watermarks | `WindowOperator` extends the others; takes from `QueryEngine` that work is drained before a stop |
| `...Invariant`, `...Proofs` | inductive invariants, lemmas and theorems (section 4) | extend the module they are named after |

`MC...` modules only give values to constants.

**QueryCompilation.** A query is a syntax tree; `Walk` lists the calls that the
tree walker makes for it, and every handler of the listener is an action on the
top of `helpers`. Every later phase is one step, so that a phase that cannot go
on is seen where it stops: `Rejected` for an exception, `Terminated` for a
failed assertion, `WorkerFailed` for a refusal on the worker. A name is the
sequence of its parts and of the separators between them, so that resolution by
suffix and by separator is the code's. A function class is a record (children it
accepts, type rule, checks, key in the registry, name on the wire, how it is
compared and written), because the classes differ in nothing else; inference,
equality and serialization are written once over these records. `QueryMeaning`
is the reference for the parser: the plan a query denotes, by recursion on its
syntax and without builders or flags.

**MeosExecution.** A call record has the casts, the objects made (from a text, a
box or two coordinates and seconds), what happens if one cannot be made, the
MEOS function and the result type of one `execute` variant. Reading and setting
the flag, `meos_initialize`, registering the exit handler, filling and copying
the shared struct tm are separate steps. MEOS itself is external.

**BufferPools.** A read or a write of a queue, an access to a counter or flag,
and each step of `release` are steps of their own. `held` and `tasks` are the
references that exist; `referenceCounter` is what the code believes. An
unpooled chunk is allocated, reserved from, entered and given back in the steps
of the code, under its lock where there is one. `InvariantsHold` collects the
assertions of `prepare`, `release` and the three ways of recycling. The pool of a
source is made by the source here, and by the worker that starts it in the code;
the run leaves both workers free to give buffers back meanwhile, so its absence
of deadlock is about starting the sources of one query beside other workers, not
about workers that all create pools.

**SequenceShredder, InputFormatterTask.** A bitmap is the set of its one-bits.
Each operator is what happens under one acquisition of the lock, or on the
snapshot taken under it; a worker goes through them in separate steps. A byte is
a delimiter or not; a tuple is the sequence of its bytes, each named by its
buffer and place, so that a lost, doubled or wrongly joined byte shows.

**QueryEngine.** The life of one query. Reference counts are not variables:
`HeldBySource`, `HeldByPredecessor`, `HeldByTask` and `HeldByWorker` say who
holds a pipeline's node, and a node nobody holds has expired. A worker that
gives up references goes to `drop`, where `dropNode`, `fireSetup`,
`fireTermination` and `joinSource` do the work of deleters, callbacks and
destructors before it goes on. Locks that are held across steps are variables.
Where the program would use freed memory or fail an assertion, `crash` is set
and the model stops. A status takes its place in the log by its timestamp
(`Stamp`) before it is reported (`Reports`).

**WindowOperator.** `slices` and `windows` are the two locked maps, keyed by
the end as in the code. Looking up a slice, creating it under both locks, and
writing to it are three steps. A buffer is entered into the watermark processor
in one step, the watermark is read in another and used in a third. `WindowsContended` and `SlicesContended` let `tryWLock` fail only when
another worker is at a step that takes that lock. A slice holds a hash map per
worker (one for a sequential aggregation) or, for a join, a paged vector per
worker and side; the probe combines them as the code does. Records of one origin
arrive in the order of their timestamps, which
`docs/technical/watermarking_progress_window_triggering.md` assumes of sources
("NebulaStream assumes that the data arrives in-order at the source");
`WindowOperatorAssumption` states it.

**Sequencer, ChunkCollector, EmitOperator, MonotonicSeqQueue.** One critical
section or one atomic access per step. `storeCurrentBuffer` is separate from
`isNext` because the code assigns after the lock is released. `Wrap` keeps the
unsigned arithmetic of the collector's counter. A slot's `seq` and `value` are
separate stores with no order between them for another thread.
`ChunkPipeline` hands each emitted buffer to collectors in any order, and
remembers in `overlapped` which sequence numbers two workers held at once. A
number that is returned early is taken off its node, which may then be erased
under other numbers; `CollectedWhole` is about nodes without such a number.

## 3. What is checked

| Run | Instance | What it shows |
|---|---|---|
| `query_compilation` | 717 queries, 14 malformed ones; 28,217 states | all are answered as they should; text, plan, message, schemas, origins and pipelines agree |
| `meos_calls` | 2 workers; any function beside one of each kind | ready when used, finalized once, every accepted call fits the worker's function |
| `query_engine` | 2 sources, pipeline, sink, 2 workers, admission queue of 1, end of stream | stages execute only when started, work is drained, no crash, no deadlock, termination with every started stage stopped |
| `query_engine_interrupted` | 1 source, pipeline, sink, 2 workers; a stop at any time, any stage or source may throw, one repeated task | exact task counts, exclusive stops, an end that is final, leaks nothing and agrees with the log |
| `buffer_pools` | 2 sources with pools, 2 workers, 3 segments, 2 unpooled chunks, a child per output; 484,385 states | counts equal references, segments in one place, the assertions on preparing, releasing and recycling hold, no deadlock |
| `sequence_shredder` | 3 workers; 6 buffers in bitmaps of 2 bits, ring of 2 that grows to 4 | every tuple once, output numbers distinct, buffers returned, everything formatted |
| `windows` | 2 workers; 5 inputs, 4 window shapes, aggregation and join | windows complete, once and in order; slices outlive their use; results exact; every window probed |
| `sequencer` | 3 workers, 3 sequence numbers with 6 chunks | implements `OrderedStream`: one at a time and in order; all processed |
| `chunk_collector` | 3 threads, 6 chunks, nodes of 2, counter of 2 bits | numbers returned once, when complete, with the right watermark, their last chunk seen once; nodes outlive their users and are freed |
| `chunk_pipeline` | 3 workers, 2 collectors, 3 chunks, up to 2 outputs each; 1.2 million states | chunk numbers and last flag, clean-up last; the collector's count is right for numbers of nodes with no number that two workers held at once |
| `chunk_pipeline_concurrent` | 2 workers, 1 collector | *violation*, section 5 |
| `seq_queue` | 2 threads, 4 numbers, blocks of 2 | implements `GaplessPrefix`: never over a gap; walks along the list find their block, the end is reached |

**Which queries.** Every function token of the grammar in a select item and in
a condition, with each layout of arguments its class accepts; all arithmetic,
comparisons and logic, nested two deep; implicit and explicit names; every
aggregation and window; joins, unions and nested queries in combinations; raw
and formatted sources, and a source with two physical ones. Malformed queries
use unknown names, wrong types, a sign that is no sign and missing clauses. Forms for which the code is
known to do something else are left out and listed in section 5: the run says
that the forms in it are right, not that all are. `ArithmeticFollowsCpp`, an
assumption that TLC evaluates, says that the planner's type of an arithmetic
function is the one C++ gives to its value.

**Why the bounds are enough for the questions asked.** Two threads exhaust the
pairwise races on a slot, a segment, a node or a window; the sequencer, the
collector, the emit operator and the formatter have three, because a third can
act between the two halves of another's operation. Nodes and blocks of two make
threads cross a boundary in the middle of a stream; four numbers over three
blocks let one thread cross two boundaries while another is on the first. A
counter of two bits wraps below zero and comes back as the 64-bit one does,
because fewer than 2^2 chunks are ever outstanding. An admission queue of one
slot is full as soon as one buffer waits. Two sources into one pipeline let one
end while the other still emits. Three segments for two pools of one and two
workers make threads wait for each other's buffers. Six buffers in bitmaps of
two bits wrap around the ring, do not fit at first and make it grow; tuples
span up to four buffers and two bitmaps. The window shapes are tumbling,
sliding with slices of equal and of unequal length, and hopping with gaps; the
inputs have an empty buffer, whose watermark is 0, buffers that cross windows,
two origins at different speeds and an origin without any buffer; pages of two
records, one bucket and values of three bits make vectors grow, keys share a
chain and sums wrap. Bounds on loops are constants: `MaxFull`, `MaxBuffers`,
`MaxRepeats`, `MaxFills`, `MaxChildren`, `MaxChunks`, `Length`; `MaxAttempts` caps a counter
that the code only compares with small values. Symmetry is used only where
invariants and one action property are checked.

**Fairness.** Weak fairness per worker and per source thread: these are
operating system threads in loops, and blocking calls are guards. It is
asserted for a thread and not for each of its alternatives, so a worker may
prefer one kind of task for ever where the code leaves it open; in
`QueryEngine` and `InputFormatterTask` the queues are first-in first-out as in
the code. `InputFormatterTask` writes weak fairness out (infinitely often not
able to, or infinitely often a step), with the guards in place of ENABLED, which
is the same formula and cheaper for TLC. In `MonotonicSeqQueue` a call in
progress is not abandoned (weak), and a buffer that is due is put in by some
thread although threads may also keep reading (strong, per number). A client
need never stop its query.

**Deadlock** is checked except in `query_engine_interrupted`: when a client
stops a query, the code has a deadlock (section 5). A state in which everything
has come to rest is a self-loop, so a deadlock means a thread is stuck.

## 4. What is proved

Each theorem holds for every value of the constants that the named assumption
admits; TLC evaluates these assumptions in the runs, and checks every inductive
invariant's consequences on a small instance. A proof has one lemma per action
(or per group of actions that touch the same state) for the preservation of the
inductive invariant, and a theorem for each consequence.

| Module | Theorem | Statement |
|---|---|---|
| `SequencerProofs` | `Refinement` | `Spec => ImplementsOrderedStream` |
| | `TypeCorrect`, `MutualExclusion`, `AdvanceIsLegal`, `InOrder`, `NoStranding` | `Spec => []TypeOK`, `[]SingleOwner`, `[]AdvancePrecondition`, `[]ProcessedInOrder`, `[]ExpectedNotStranded` |
| `MonotonicSeqQueueProofs` | `Refinement` | `Spec => ImplementsGaplessPrefix` |
| | `Gapless`, `BlocksFound` | `Spec => []NoGap`, `[]WalksFindBlock` |
| `ChunkCollectorProofs` | `Completion`, `NodesOutliveUse` | `Spec => []CompletedCorrectly`, `[]NodeInUse` |
| `ChunkPipelineProofs` | `EmittedComplete`, `CleanupSafe` | `PipelineSpec => []ChunksComplete`, `[]CleanupIsLast` |
| `BufferPoolsProofs` | `Sound`, `Counted`, `Placed`, `ChunksExact` | `Spec => []InvariantsHold`, `[]ReferencesExact`, `[]OnePlace`, `[]ChunksCounted` |
| `MeosExecutionProofs` | `ReadyWhenUsed`, `OneFinalization` | `Spec => []MeosReady`, `[]FinalizedOnce` |

`Invariance` (`EmitInvariance`, `BufferInvariance`) in these modules states that
the inductive invariant holds. None of the properties is inductive by itself:

**Sequencer** (`SequencerAssumption`: a non-empty set of threads, at least one
chunk per sequence number). `SingleOwner` depends on there being only one
expected buffer and on its having left `incoming` once somebody is busy with it;
that in turn depends on the queue holding only buffers that are further ahead.
`IInv` adds these facts: `WaitingAhead` (queued buffers lie ahead; those still
to come lie ahead or are the expected one, and then nobody is busy),
`OwnerHasExpected` (the busy worker has the expected buffer, in hand or in
`currentBuffer`) and `ScannedBehind` (what was scanned lies behind). The hard
case is `advanceAndGetNext`: no buffer of the stream lies strictly between the
old and the new expected position, so a queued buffer is either the new expected
one, which is taken out, or still ahead. The refinement also needs the converse
of `ScannedBehind`, `BehindScanned`: whatever lies behind the expected position,
and the buffer about to be advanced over, was scanned. `isNext` is the arrival
of a buffer and `scan` its processing; the other steps stutter.

**Sequence queue** (`MonotonicSeqQueueAssumption`: some threads, blocks that are
not empty). A thread acts on a block and a number that it read some steps ago.
`InHand` says how old they may be, for each place in the code: the block in hand
is never behind the list or ahead of the number looked for, and a number that
was read is at most `currentSeq`. With `head <= BlockOf(currentSeq)` and
`SlotsOwn` (a slot holds its own number or none) a walk can only arrive at its
block, and an exchange that succeeds moves to a number that is in.

**Chunk collector** (`ChunkCollectorAssumption`: at least one chunk per number,
and fewer than the counter's range). `CounterExact` gives the unsigned counter
its meaning: once the last chunk was counted it is how many are outstanding,
before that it is minus how many were counted, modulo the range. It is zero
exactly when nothing or everything was counted, so exactly one thread completes
a number (`OneCompleter`). `ValueExact` keeps the slot's watermark between what
was merged and what there is to merge, also while a thread is inside its loop of
exchanges. `LastToCome`, which is inductive given the rest, says that the slot of
a last chunk that has yet to be marked is unmarked: a number has one last chunk,
and it has one holder. `NodesExact` relates the count of a node to the numbers taken off it;
a node that is not in the list has all its chunks before it or behind it, so
that no thread uses an erased node. All but the slot arithmetic is about
cardinalities; the lemmas on them come first.

**Emit operator** (`EmitOperatorAssumption`: some workers, at least one chunk per
number). `CountsExact` says what the two maps hold until they are erased,
`NumbersExact` that the numbers given out so far are 1..n, each once, and
`OneCleaner` that all chunks of a number were counted exactly if its last buffer
was emitted or one worker is on the way to do so. The theorems are about
`PipelineSpec`: they hold with collectors downstream taking buffers at any time.

**Buffers** (`BufferPoolsAssumption`: names of different things differ, a chunk
has room). `BufferInv` ties what threads have in their variables (`ThreadsFit`)
and still have to do (`StepsFit`) to the state of each buffer. `HandlesFit` is
`ReferencesExact` in a form that can be added to: the set of TupleBuffers of a
buffer is finite and its size is the counter. With `RecyclersFit` (only a buffer
that is in use or about to be recycled has a recycler) and `OnePlace` it follows
that whoever drops the last reference is alone with the buffer; `ChunksFit` (a
chunk gave out what lies below its used size, a worker goes on with a chunk that
is allocated) carries `ChunksCounted`. `BufferPoolsInvariant` has the
invariant, lemmas on what a step does to the handles and places of a buffer,
and the steps of sources, queues and stacks; `BufferPoolsProofs` the steps of
workers, `release`, and the theorems. The four properties are proved together,
since each one's preservation uses the others.

**MEOS** (no assumptions). Several workers may initialise MEOS and register as
many exit handlers, so neither property follows from the flag alone. `IInv` says
that the flag tells the truth and so does having passed `meos_initialize`
(`FlagIsTrue`), that finalization happens at exit only and not twice
(`FinalizedAtExit`), and that while MEOS is initialised and not finalized
somebody has set, or is about to set, the flag, and has registered, or is about
to register, a handler (`HandlerPending`). The steps of evaluation that touch
none of this are dealt with at once (`QuietActions`, `QuietInv`).

**Only model-checked:**

- every liveness property (`AllProcessed`, `NodesReleased`, `ReachesEnd`,
  `Terminates`, `EveryWindowProbed`, `AllFormatted`): the prover deals neither with fairness nor
  with ENABLED;
- `query_compilation` (six invariants) and `ArithmeticFollowsCpp`: recursion over
  trees, for which the prover has no induction; `CallsFitPlan`: a comparison of
  two tables of constants, which is evaluation and not proof;
- `CollectedWhole`: it relates the invariants of both pipelines through the
  instance of the collector, whose stream is computed by the emit operator; the
  theorems for each of the two are there, the link is not;
- `sequence_shredder` and `windows`: their results are computed by recursive
  definitions over bitmaps, pages and hash maps;
- `query_engine`, `query_engine_interrupted`: within reach, and next (section 7).

## 5. Where code and comments disagree

One run ends in a counterexample to what a comment says.

- **`chunk_pipeline_concurrent`, `CompleteMeansAll`.** `emitRecordBuffer` takes
  the chunk number and then, in another critical section, asks whether it is the
  last. Two workers that do so in opposite orders put the last flag on a smaller
  number; the collector, whose comment says that the last chunk has "the maximum
  chunk number for this sequence", returns the number early.

The other behaviours of this kind that came up have no run. Those of the running
worker can be seen in the models by checking the formula or by the given change;
those of the compiler are why section 3 leaves some forms of queries out.

**Engine** (`MCQueryEngineInterrupt.cfg`)

| Formula | Code and comment |
|---|---|
| `NoCrash` | a stop that takes the state's lock after the termination callback was triggered and before `onDestruction` gets it fails the INVARIANT in `RunningQueryPlan::stop` (`RunningQueryPlan.cpp:380`); `:314` disarms the setup callback, which may already be running and uses the plan (`:311`); a source held by a task outlives the plan it unregisters from (`RunningQueryPlan.hpp:195`) |
| deadlock | stopping a query joins a source thread that may wait for room in the admission queue while the joining worker holds the query's locks (`RunningSource.cpp:115`); `RunningSource.hpp` says that stopping is asynchronous, and `docs/technical/QueryEngine_TaskQueue.md` that the design "makes sure that no deadlock occurs" |
| `ExecutesOnlyStarted` | a stop during the start emits into a successor that was not started (`QueryEngine.cpp:580`; `ExecutablePipelineStage.hpp:35`) |
| `EndOfStreamDrains` | a client's stop drops queued work (`RunningQueryPlan.cpp:383-384`) |
| `qstate = "Failed" => \A w \in Workers : ~(pc[w] = "exec" /\ task[w].kind = "StopPipeline")` | a failed query may still stop a stage (`RunningQueryPlan.cpp:420`; `.hpp:189`) |

**Sequence queue.** `seq` is stored before `value` (`NonBlockingMonotonicSeqQueue.hpp:171`);
a thread that shifted on `seq` may return the initial value, a watermark that is
too low, which delays windows and never emits one early. `head` may stay a block
behind for good (`:207`): `<>[](head = BlockOf(currentSeq))` fails.

**Buffers.** `FixedSizeBufferPool::recyclePooledBuffer` looks at `isDestroyed` before
it writes to the pool (`FixedSizeBufferPool.cpp:118`); a pool that is destroyed in
between keeps the segment, contrary to the comment at `:71`. The statistic
`numOfAvailableBuffers` is changed after the queue and can wrap below zero.

**Formatter.** `if (spanningTupleStart or HasTupleDelimiter)` (`SequenceShredder.cpp:272`,
`:290`) tests a number, and the first tuple of a stream starts at 0: if it reaches
past the first bitmap (64 buffers) and its last buffer to arrive has no delimiter,
it is not found; drop `FirstTupleIsShort` to see it. A tuple longer than the ring
(4032 buffers) is repeated for ever; drop `SpansFit`. A repeated task that finds the
internal queue full for a second is dropped, because `parseTupleBufferRaw` ignores
what `emitBuffer` returns (`QueryEngine.cpp:262-271`, `CSVInputFormatter.cpp:463`). A raw
buffer that completes no tuple leaves a gap in the sequence numbers. A comment says
that a buffer with a delimiter has two uses; the code sets three.

**MEOS.** `convertSecondsToTimestamp` copies `*std::localtime` without a lock
(`MEOSWrapper.cpp:74`): an object can carry the time of another worker's record.
An object made from the first text is not freed when the second is unreadable.
`AboveStboxTspatial` does not check its first parameter, `TemporalIntersects` none.

**Compiler**

- Parser: a comparison inside a comparison overwrites its operator; a call takes
  all operands on the builder, also those of an enclosing expression; literals
  before fields in `TEMPORAL_ECONTAINS_GEOMETRY` are reordered;
  `SELECT SUM(c) AS s, a AS b` renames the sum; `SELECT *, e AS b` keeps only `b`;
  two arguments of a registered function in a plain select reach
  `windowAggs.back()` of an empty vector; unary minus multiplies by an unsigned
  `-1`; a join's window keeps the timestamp of an earlier one.
- Wire: a window over ingestion time arrives as one over event time;
  `TEMPORAL_SEQUENCE` cannot be created again; an intersection arrives as a
  conjunction with three children.
- Origins: a window above a union, or above several physical sources, knows the
  origins of the first child only; ids start at 2, the comment says "from 1 to n".
- Plans: a watermark assigner, map or projection above a source with two physical
  ones fails an assertion of the client (`ProjectionLogicalOperator.cpp:204`); a union
  of a source with itself loses a child.
- Types: `Avg` widens by the type its field had before inference; the field of
  `Count` is never looked up; an aggregation over the result of `ARRAY_AGG` fails
  an assertion; a join whose window field is missing on one side fails on the
  worker.
- Pipelines: the second branch of a union of two filtered sources reaches the
  sink's pipeline without an emit (`PipeliningPhase.cpp:114-118`).
- Schemas: `getFieldByName` takes the first field with the suffix; `Schema.hpp:86`
  says that it "does not return a field with an ambiguous field name".

## 6. What is not modelled

- **Buffers**: `BufferManager::destroy`, whose assertion that all segments have
  come back (`BufferManager.cpp:94`) fails after the segment of a dead pool is
  lost (section 5), and an allocation of a chunk that returns null
  (`UnpooledChunksManager.cpp:112-116`): the allocator of the worker fails an
  assertion instead (`NesDefaultMemoryAllocator.cpp:26`).
- **Engine**: several queries at a time (they share only queues and workers),
  a full internal queue, in which case a worker runs another task in place,
  shutdown of the engine, and statistics events.
- **Node engine and requests** other than registration: planned, below.
- **Windows**: ingestion time, copies of the store, variable sized fields, and
  `TEMPORAL_SEQUENCE`. The slices of a window are a set, combined in the order of
  their ends; the code keeps them in the order in which they were created
  (`DefaultTimeBasedSliceStore.cpp:132`). No result in the run depends on it.
- **Compiler**: `INFER_MODEL` and the model rule, which needs external tools;
  grammar rules without a handler; the code generated for a pipeline. Of what is
  modelled, these paths no plan of the parser and the lowering rules takes: a
  custom emit directly behind a source, where `buildPipelineRecursively` reads a
  null wrapper (`PipeliningPhase.cpp:146`); a union with fewer than two inputs
  (`UnionLogicalOperator.cpp:64`) or of two memory layouts (`:102`). And one that
  queries can take but none of the run does: the loop of `addJoin` over the join
  function reads a second operand below a left operand that has only one
  (`LogicalPlanBuilder.cpp:144-169`).
- **MEOS** itself: what its functions compute; the time zone that
  `ensureMeosInitialized` sets for the process (`MEOSWrapper.cpp:45-48`).
- **Memory model**: atomics are sequentially consistent, except for the two
  stores in a slot of the sequence queue. Spurious failures of its
  weak exchanges are left out; those of the collector are modelled.
- **Memory layouts, records, stateless operators**: offset arithmetic and single
  fields in traced code; no states to explore.
- **Sources, sinks, plugins, inference, configurations, YAML front end, system
  tests**: I/O, external libraries, options and test drivers.

## 7. Plan

Next, the model:

1. `NodeEngine` with `QueryTracker`, composed with `QueryLog`: register, start,
   stop and unregister from concurrent requests; status never regresses.
2. `QueryEngine`: in-place execution under a full internal queue, engine
   shutdown, two queries.
3. Abstract specifications to refine: a set of free and a set of used segments,
   for `BufferPools`; the gapless prefix, for the watermark of `WindowOperator`.

Next, proofs:

1. `CollectedWhole`, from the invariants of the emit operator and the collector.
2. `QueryEngine`: type correctness, then `StopIsExclusive` and
   `PendingTasksExact` from the definition of who holds a node.
3. `WindowOperator`: `SlicesOutliveUse`, which needs none of the recursive
   definitions.
