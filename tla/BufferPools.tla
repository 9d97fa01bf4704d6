----------------------------- MODULE BufferPools -----------------------------
(***************************************************************************)
(* nes-memory with its users: source threads that fill buffers of a pool   *)
(* of their own (SourceThread, FixedSizeBufferPool), and workers that take *)
(* output buffers from the BufferManager and space for variable sized data *)
(* from their unpooled chunks (UnpooledChunksManager).  A buffer is        *)
(* reference counted (BufferControlBlock); whoever releases the last       *)
(* reference gives it back to where it came from.                          *)
(* The queues are lock free (folly::MPMCQueue): a read, a write and an     *)
(* access to a counter or flag are steps of their own.                     *)
(***************************************************************************)
EXTENDS Integers, Sequences, FiniteSets

CONSTANTS
  Segments,       \* the memory segments of the BufferManager
  Sources, Workers,
  LocalBuffers,   \* numOfLocalBuffers: the size of the pool of a source
  Successors,     \* how many pipelines a source feeds
  ChunkSize,      \* how many child buffers fit into an unpooled chunk, plus one
  MaxFills,       \* bound: how many buffers a source fills
  MaxChildren,    \* bound: how many child buffers an output buffer gets
  MaxChunks       \* bound: how many unpooled chunks are allocated

Threads == Sources \cup Workers
Chunks == 1..MaxChunks
Unpooled == Chunks \X (1..ChunkSize)
Buffers == Segments \cup Unpooled
Global == "BufferManager"
Null == "nullptr"
NoSpace == <<0, 0>>

ASSUME BufferPoolsAssumption ==
  /\ Sources \cap Workers = {} /\ Sources \cap {Global, Null} = {} /\ Segments \cap (Unpooled \cup {NoSpace}) = {}
  /\ LocalBuffers \in Nat /\ Successors \in Nat /\ ChunkSize \in Nat \ {0}
  /\ MaxFills \in Nat /\ MaxChildren \in Nat /\ MaxChunks \in Nat

VARIABLES
  availableBuffers, numOfAvailableBuffers, availableBuffersMutex,
  exclusiveBuffers,       \* of the pool of each source
  isDestroyed,
  referenceCounter, owningBufferRecycler, children,
  chunks,                 \* the unpooled chunks: [thread, usedSize, activeMemorySegments]
  lastAllocateChunkKey,   \* of each worker; 0 is the null pointer
  space,                  \* the segment of a chunk a worker is getting: <<chunk, place>>
  pc,
  held,                   \* the TupleBuffers in the variables of a thread: buffer -> how many
  tasks,                  \* the TupleBuffers in tasks: buffer -> how many
  todo,                   \* what a thread still has to do to release buffers: a stack, its top at the end
  filled, stopRequested,
  failed                  \* an INVARIANT of the code does not hold

counting == <<referenceCounter, owningBufferRecycler, children>>
pooled == <<availableBuffers, numOfAvailableBuffers, availableBuffersMutex, exclusiveBuffers, isDestroyed>>
unpooled == <<chunks, lastAllocateChunkKey, space>>
running == <<pc, held, tasks, todo, filled, stopRequested>>
vars == <<counting, pooled, unpooled, running, failed>>

Nothing == [b \in Buffers |-> 0]

Init ==
  /\ availableBuffers = Segments
  /\ numOfAvailableBuffers = Cardinality(Segments)
  /\ availableBuffersMutex = Null
  /\ exclusiveBuffers = [s \in Sources |-> {}]
  /\ isDestroyed = [s \in Sources |-> FALSE]
  /\ referenceCounter = Nothing
  /\ owningBufferRecycler = [b \in Buffers |-> Null]
  /\ children = [b \in Buffers |-> <<>>]
  /\ chunks = <<>>
  /\ lastAllocateChunkKey = [w \in Workers |-> 0]
  /\ space = [w \in Workers |-> NoSpace]
  /\ pc = [t \in Threads |-> IF t \in Sources THEN "start" ELSE "idle"]
  /\ held = [t \in Threads |-> Nothing]
  /\ tasks = Nothing
  /\ todo = [t \in Threads |-> <<>>]
  /\ filled = [s \in Sources |-> 0]
  /\ stopRequested = [s \in Sources |-> FALSE]
  /\ failed = FALSE

Goto(t, label) == pc' = [pc EXCEPT ![t] = label]
At(t, label) == pc[t] = label /\ todo[t] = <<>>
Holds(t) == {b \in Buffers : held[t][b] > 0}
Step(what, b) == [what |-> what, buffer |-> b, pool |-> Null]
Releases(b, n) == [i \in 1..n |-> Step("release", b)]

----------------------------------------------------------------------------
(* BufferControlBlock.                                                      *)

(* prepare, and further references of the thread to the buffer.             *)
Prepare(b, recycler, references) ==
  /\ failed' = (failed \/ referenceCounter[b] # 0 \/ owningBufferRecycler[b] # Null)
  /\ referenceCounter' = [referenceCounter EXCEPT ![b] = references]
  /\ owningBufferRecycler' = [owningBufferRecycler EXCEPT ![b] = recycler]

Top(t) == todo[t][Len(todo[t])]
Doing(t, what) == todo[t] # <<>> /\ Top(t).what = what
Then(t, steps) == todo' = [todo EXCEPT ![t] = SubSeq(@, 1, Len(@) - 1) \o steps]

(* Mutant: the children are released but stay listed.                       *)
KeepChildren(b) == children
ClearChildren(b) == [children EXCEPT ![b] = <<>>]

(* From the first child to the last one, and then the buffer itself.        *)
ReleaseChildren(b) ==
  LET n == Len(children[b])
  IN  <<Step("recycle", b)>> \o [i \in 1..n |-> Step("release", children[b][n + 1 - i])]

(* release: the last one releases the children and recycles the buffer.     *)
Release(t) ==
  /\ Doing(t, "release")
  /\ LET b == Top(t).buffer
         last == referenceCounter[b] = 1
     IN  /\ referenceCounter' = [referenceCounter EXCEPT ![b] = IF @ = 0 THEN 0 ELSE @ - 1]
         /\ failed' = (failed \/ referenceCounter[b] = 0)
         /\ children' = IF last THEN ClearChildren(b) ELSE children
         /\ Then(t, IF last THEN ReleaseChildren(b) ELSE <<>>)
  /\ UNCHANGED <<owningBufferRecycler, pooled, unpooled, pc, held, tasks, filled, stopRequested>>

(* Mutant: the buffer keeps its recycler while not in use.                  *)
CopyRecycler(b) == owningBufferRecycler
MoveRecycler(b) == [owningBufferRecycler EXCEPT ![b] = Null]

(* Mutant: without the else a live pool returns the buffer to both.         *)
RecycleToBoth(b) ==
  LET owner == owningBufferRecycler[b]
  IN  CASE b \in Unpooled -> <<Step("chunk", b)>>
        [] b \in Segments /\ owner \in Sources /\ ~ isDestroyed[owner] -> <<Step("global", b), [Step("local", b) EXCEPT !.pool = owner]>>
        [] OTHER -> <<Step("global", b)>>

(* The recycler is asked; a pool looks whether it was destroyed.            *)
recyclePooledBuffer(b) ==
  LET owner == owningBufferRecycler[b]
  IN  CASE b \in Unpooled -> <<Step("chunk", b)>>
        [] b \in Segments /\ owner \in Sources /\ ~ isDestroyed[owner] -> <<[Step("local", b) EXCEPT !.pool = owner]>>
        [] OTHER -> <<Step("global", b)>>

Recycle(t) ==
  /\ Doing(t, "recycle")
  /\ LET b == Top(t).buffer
     IN  /\ Then(t, recyclePooledBuffer(b))
         /\ owningBufferRecycler' = MoveRecycler(b)
  /\ UNCHANGED <<referenceCounter, children, pooled, unpooled, pc, held, tasks, filled, stopRequested, failed>>

----------------------------------------------------------------------------
(* FixedSizeBufferPool::recyclePooledBuffer, BufferManager::recyclePooledBuffer. *)
RecycleLocal(t) ==
  /\ Doing(t, "local")
  /\ LET b == Top(t).buffer
         s == Top(t).pool
     IN  /\ exclusiveBuffers' = [exclusiveBuffers EXCEPT ![s] = @ \cup {b}]
         /\ failed' = (failed \/ referenceCounter[b] # 0)
  /\ Then(t, <<>>)
  /\ UNCHANGED <<counting, availableBuffers, numOfAvailableBuffers, availableBuffersMutex, isDestroyed, unpooled,
                 pc, held, tasks, filled, stopRequested>>

RecycleGlobal(t) ==
  \/ /\ Doing(t, "global")
     /\ LET b == Top(t).buffer
        IN  /\ availableBuffers' = availableBuffers \cup {b}
            /\ failed' = (failed \/ referenceCounter[b] # 0 \/ owningBufferRecycler[b] # Null)
     /\ Then(t, <<Step("count", Top(t).buffer)>>)
     /\ UNCHANGED <<counting, numOfAvailableBuffers, availableBuffersMutex, exclusiveBuffers, isDestroyed, unpooled,
                    pc, held, tasks, filled, stopRequested>>
  \/ /\ Doing(t, "count")
     /\ numOfAvailableBuffers' = numOfAvailableBuffers + 1
     /\ Then(t, <<>>)
     /\ UNCHANGED <<counting, availableBuffers, availableBuffersMutex, exclusiveBuffers, isDestroyed, unpooled,
                    pc, held, tasks, filled, stopRequested, failed>>

(* The callback of an unpooled buffer: with its last segment the chunk goes.*)
RecycleUnpooled(t) ==
  /\ Doing(t, "chunk")
  /\ LET key == Top(t).buffer[1]
         chunk == chunks[key]
     IN  IF chunk.activeMemorySegments > 1
         THEN /\ chunks' = [chunks EXCEPT ![key].activeMemorySegments = @ - 1]
              /\ UNCHANGED <<lastAllocateChunkKey, failed>>
         ELSE /\ chunks' = [chunks EXCEPT ![key] = [@ EXCEPT !.activeMemorySegments = 0, !.allocated = FALSE]]
              /\ lastAllocateChunkKey' = [lastAllocateChunkKey EXCEPT ![chunk.thread] = 0]
              /\ failed' = (failed \/ chunk.activeMemorySegments = 0
                                   \/ \E i \in 1..ChunkSize : referenceCounter[<<key, i>>] # 0)
  /\ Then(t, <<>>)
  /\ UNCHANGED <<counting, pooled, space, pc, held, tasks, filled, stopRequested>>

----------------------------------------------------------------------------
(* SourceThread.  createFixedSizeBufferPool compares the size of the queue  *)
(* under the lock that those who take single buffers do not hold, and then  *)
(* takes buffer after buffer, waiting where there is none.  In the code the *)
(* worker that starts the source does this (SourceThread::start); the model *)
(* leaves the workers free meanwhile, as the other workers of an engine     *)
(* are: that nobody waits for ever is checked for the start of one query.   *)
CreatePool(s) ==
  /\ At(s, "start") /\ availableBuffersMutex = Null
  /\ IF Cardinality(availableBuffers) < LocalBuffers
     THEN Goto(s, "ended") /\ UNCHANGED availableBuffersMutex
     ELSE Goto(s, "reserve") /\ availableBuffersMutex' = s
  /\ UNCHANGED <<counting, availableBuffers, numOfAvailableBuffers, exclusiveBuffers, isDestroyed, unpooled,
                 held, tasks, todo, filled, stopRequested, failed>>

Reserved == numOfAvailableBuffers - 1

ReserveBuffer(s) ==
  /\ At(s, "reserve")
  /\ \E b \in availableBuffers :
       /\ availableBuffers' = availableBuffers \ {b}
       /\ exclusiveBuffers' = [exclusiveBuffers EXCEPT ![s] = @ \cup {b}]
  /\ numOfAvailableBuffers' = Reserved
  /\ IF Cardinality(exclusiveBuffers'[s]) = LocalBuffers
     THEN Goto(s, "loop") /\ availableBuffersMutex' = Null
     ELSE UNCHANGED <<pc, availableBuffersMutex>>
  /\ UNCHANGED <<counting, isDestroyed, unpooled, held, tasks, todo, filled, stopRequested, failed>>

(* A buffer of the pool: the optional and the copy of its value.  (After 25 *)
(* milliseconds without one the loop starts over.)                          *)
GetLocalBuffer(s) ==
  /\ At(s, "loop") /\ ~ stopRequested[s]
  /\ \E b \in exclusiveBuffers[s] :
       /\ exclusiveBuffers' = [exclusiveBuffers EXCEPT ![s] = @ \ {b}]
       /\ Prepare(b, s, 2)
       /\ held' = [held EXCEPT ![s][b] = 2]
  /\ Goto(s, "fill")
  /\ UNCHANGED <<children, availableBuffers, numOfAvailableBuffers, availableBuffersMutex, isDestroyed, unpooled,
                 tasks, todo, filled, stopRequested>>

(* fillTupleBuffer read something, and a task for every successor gets the  *)
(* buffer; or nothing: the stream ended, or the source threw.               *)
Emit(s) ==
  /\ At(s, "fill") /\ filled[s] < MaxFills
  /\ \E b \in Holds(s) :
       /\ tasks' = [tasks EXCEPT ![b] = @ + Successors]
       /\ referenceCounter' = [referenceCounter EXCEPT ![b] = @ + Successors]
       /\ todo' = [todo EXCEPT ![s] = Releases(b, 2)]
  /\ held' = [held EXCEPT ![s] = Nothing]
  /\ filled' = [filled EXCEPT ![s] = @ + 1]
  /\ Goto(s, IF stopRequested[s] THEN "exit" ELSE "loop")
  /\ UNCHANGED <<owningBufferRecycler, children, pooled, unpooled, stopRequested, failed>>

FillNothing(s) ==
  /\ At(s, "fill")
  /\ \E b \in Holds(s) : todo' = [todo EXCEPT ![s] = Releases(b, 2)]
  /\ held' = [held EXCEPT ![s] = Nothing]
  /\ Goto(s, "exit")
  /\ UNCHANGED <<counting, pooled, unpooled, tasks, filled, stopRequested, failed>>

RequestStop(s) ==
  /\ pc[s] \in {"loop", "fill"} /\ ~ stopRequested[s]
  /\ stopRequested' = [stopRequested EXCEPT ![s] = TRUE]
  /\ UNCHANGED <<counting, pooled, unpooled, pc, held, tasks, todo, filled, failed>>

LeaveLoop(s) ==
  /\ At(s, "loop") /\ stopRequested[s] /\ Goto(s, "exit")
  /\ UNCHANGED <<counting, pooled, unpooled, held, tasks, todo, filled, stopRequested, failed>>

(* FixedSizeBufferPool::destroy, by DestroyOnExit: the flag, then the       *)
(* resident buffers.                                                        *)
DestroyPool(s) ==
  /\ At(s, "exit") /\ Goto(s, "drain")
  /\ isDestroyed' = [isDestroyed EXCEPT ![s] = TRUE]
  /\ UNCHANGED <<counting, availableBuffers, numOfAvailableBuffers, availableBuffersMutex, exclusiveBuffers, unpooled,
                 held, tasks, todo, filled, stopRequested, failed>>

DrainPool(s) ==
  /\ At(s, "drain")
  /\ \/ \E b \in exclusiveBuffers[s] :
          /\ exclusiveBuffers' = [exclusiveBuffers EXCEPT ![s] = @ \ {b}]
          /\ todo' = [todo EXCEPT ![s] = <<Step("global", b)>>]
          /\ UNCHANGED pc
     \/ exclusiveBuffers[s] = {} /\ Goto(s, "ended") /\ UNCHANGED <<exclusiveBuffers, todo>>
  /\ UNCHANGED <<counting, availableBuffers, numOfAvailableBuffers, availableBuffersMutex, isDestroyed, unpooled,
                 held, tasks, filled, stopRequested, failed>>

----------------------------------------------------------------------------
(* Workers.  A task on a buffer of a source may produce an output buffer,   *)
(* with or without variable sized data; a task on an output ends in a sink. *)
TakeTask(w) ==
  /\ At(w, "idle")
  /\ \E b \in {c \in Buffers : tasks[c] > 0} :
       /\ tasks' = [tasks EXCEPT ![b] = @ - 1]
       /\ held' = [held EXCEPT ![w][b] = 1]
       /\ Goto(w, IF owningBufferRecycler[b] = Global THEN "finish" ELSE "work")
  /\ UNCHANGED <<counting, pooled, unpooled, todo, filled, stopRequested, failed>>

(* The task ends: its variables are destroyed.                              *)
FinishTask(w) ==
  /\ At(w, "work") \/ At(w, "finish")
  /\ \E b \in Holds(w) : todo' = [todo EXCEPT ![w] = Releases(b, 1)]
  /\ held' = [held EXCEPT ![w] = Nothing]
  /\ Goto(w, "idle")
  /\ UNCHANGED <<counting, pooled, unpooled, tasks, filled, stopRequested, failed>>

(* BufferManager::getBufferWithTimeout: read and prepare; the count the     *)
(* code makes in between is the next step, and touches no buffer.           *)
GetBuffer(w) ==
  /\ At(w, "work")
  /\ \E b \in availableBuffers :
       /\ availableBuffers' = availableBuffers \ {b}
       /\ Prepare(b, Global, 1)
       /\ held' = [held EXCEPT ![w][b] = 1]
  /\ Goto(w, "took")
  /\ UNCHANGED <<children, numOfAvailableBuffers, availableBuffersMutex, exclusiveBuffers, isDestroyed, unpooled,
                 tasks, todo, filled, stopRequested>>

CountTaken(w) ==
  /\ At(w, "took") /\ Goto(w, "output")
  /\ numOfAvailableBuffers' = numOfAvailableBuffers - 1
  /\ UNCHANGED <<counting, availableBuffers, availableBuffersMutex, exclusiveBuffers, isDestroyed, unpooled,
                 held, tasks, todo, filled, stopRequested, failed>>

Output(w) == CHOOSE b \in Holds(w) : owningBufferRecycler[b] = Global

(* UnpooledChunksManager::allocateSpace: behind the last segment of the     *)
(* thread's chunk, or at the start of a new one.  The memory resource gives *)
(* out MaxChunks chunks; it never answers with null.                        *)
HasSpace(w) ==
  lastAllocateChunkKey[w] # 0 /\ chunks[lastAllocateChunkKey[w]].usedSize + 1 < ChunkSize

(* Mutant: the segment is counted only when it is entered into the chunk.   *)
AllocateUncounted(w) ==
  IF HasSpace(w)
  THEN /\ chunks' = [chunks EXCEPT ![lastAllocateChunkKey[w]].usedSize = @ + 1]
       /\ UNCHANGED lastAllocateChunkKey
  ELSE /\ Len(chunks) < MaxChunks
       /\ chunks' = Append(chunks, [thread |-> w, usedSize |-> 1, activeMemorySegments |-> 1, allocated |-> TRUE])
       /\ lastAllocateChunkKey' = [lastAllocateChunkKey EXCEPT ![w] = Len(chunks')]

allocateSpace(w) ==
  IF HasSpace(w)
  THEN /\ chunks' = [chunks EXCEPT ![lastAllocateChunkKey[w]].usedSize = @ + 1,
                                   ![lastAllocateChunkKey[w]].activeMemorySegments = @ + 1]
       /\ UNCHANGED lastAllocateChunkKey
  ELSE /\ Len(chunks) < MaxChunks
       /\ chunks' = Append(chunks, [thread |-> w, usedSize |-> 1, activeMemorySegments |-> 1, allocated |-> TRUE])
       /\ lastAllocateChunkKey' = [lastAllocateChunkKey EXCEPT ![w] = Len(chunks')]

AllocateChild(w) ==
  /\ At(w, "output") /\ Len(children[Output(w)]) < MaxChildren
  /\ allocateSpace(w)
  /\ LET key == lastAllocateChunkKey'[w]
     IN  space' = [space EXCEPT ![w] = <<key, chunks'[key].usedSize>>]
  /\ Goto(w, "emplace")
  /\ UNCHANGED <<counting, pooled, held, tasks, todo, filled, stopRequested, failed>>

(* The segment is entered into its chunk, prepared, and stored as a child.  *)
StoreChild(w) ==
  /\ At(w, "emplace") /\ Goto(w, "output")
  /\ Prepare(space[w], Global, 1)
  /\ children' = [children EXCEPT ![Output(w)] = Append(@, space[w])]
  /\ space' = [space EXCEPT ![w] = NoSpace]
  /\ UNCHANGED <<pooled, chunks, lastAllocateChunkKey, held, tasks, todo, filled, stopRequested>>

EmitOutput(w) ==
  /\ At(w, "output")
  /\ LET b == Output(w)
     IN  /\ tasks' = [tasks EXCEPT ![b] = @ + 1]
         /\ held' = [held EXCEPT ![w][b] = 0]
  /\ Goto(w, "finish")
  /\ UNCHANGED <<counting, pooled, unpooled, todo, filled, stopRequested, failed>>

----------------------------------------------------------------------------
Quiet ==
  /\ \A s \in Sources : At(s, "ended")
  /\ \A w \in Workers : At(w, "idle")
  /\ tasks = Nothing

Next ==
  \/ \E t \in Threads : Release(t) \/ Recycle(t) \/ RecycleLocal(t) \/ RecycleGlobal(t) \/ RecycleUnpooled(t)
  \/ \E s \in Sources :
       \/ CreatePool(s) \/ ReserveBuffer(s) \/ GetLocalBuffer(s) \/ Emit(s) \/ FillNothing(s)
       \/ RequestStop(s) \/ LeaveLoop(s) \/ DestroyPool(s) \/ DrainPool(s)
  \/ \E w \in Workers :
       \/ TakeTask(w) \/ FinishTask(w) \/ GetBuffer(w) \/ CountTaken(w)
       \/ AllocateChild(w) \/ StoreChild(w) \/ EmitOutput(w)
  \/ Quiet /\ UNCHANGED vars

Spec == Init /\ [][Next]_vars

----------------------------------------------------------------------------
(* What the threads still have to do to a buffer, as places in their stacks.*)
Pending(kinds, b) ==
  UNION {{<<"todo", t, i>> : i \in {j \in DOMAIN todo[t] : todo[t][j].what \in kinds /\ todo[t][j].buffer = b}} :
            t \in Threads}

(* The TupleBuffers of a buffer: of threads, tasks and parents, and those   *)
(* whose destructor has yet to run.                                         *)
HeldBy(b) == UNION {{<<"held", t, k>> : k \in 1..held[t][b]} : t \in Threads}
InTasks(b) == {<<"task", b, k>> : k \in 1..tasks[b]}
InParents(b) == UNION {{<<"child", p, i>> : i \in {j \in DOMAIN children[p] : children[p][j] = b}} : p \in Buffers}
Handles(b) == HeldBy(b) \cup InTasks(b) \cup InParents(b) \cup Pending({"release"}, b)

(* Where a buffer is, and who uses it.                                      *)
Places(b) ==
  (IF b \in availableBuffers THEN {<<"available", Global, 0>>} ELSE {})
    \cup {<<"pool", s, 0>> : s \in {r \in Sources : b \in exclusiveBuffers[r]}}
    \cup (IF referenceCounter[b] > 0 THEN {<<"use", b, 0>>} ELSE {})
    \cup {<<"space", w, 0>> : w \in {v \in Workers : space[v] = b}}
    \cup Pending({"recycle", "local", "global", "chunk"}, b)

(* The INVARIANTs of BufferControlBlock::prepare and release, of the two    *)
(* recyclePooledBuffer and of the recycling of unpooled segments hold:      *)
(* nobody is handed a buffer that is still referenced or still has a        *)
(* recycler, no buffer is released twice or recycled while in use, no chunk *)
(* is deallocated below a segment.  The one of BufferManager::destroy, that *)
(* every buffer has come back, is not among them: the manager is not        *)
(* destroyed here.                                                          *)
InvariantsHold == ~ failed

(* Whatever order sources, workers and parents drop their handles in, the   *)
(* reference counter of a buffer is the number of its TupleBuffers.         *)
ReferencesExact == \A b \in Buffers : referenceCounter[b] = Cardinality(Handles(b))

(* A segment is in one place: in the queue of the BufferManager, in the     *)
(* queue of one pool, in use, or on its way back with one thread.  So no    *)
(* queue overflows and no segment serves two users.  A segment of a chunk   *)
(* is in one place or unused.                                               *)
OnePlace ==
  /\ \A b \in Segments : \E x \in Places(b) : Places(b) = {x}
  /\ \A b \in Unpooled : \A x, y \in Places(b) : x = y

(* A chunk counts the segments that somebody uses, enters or gives back;    *)
(* it is allocated as long as there is one, whichever threads release them. *)
ChunksCounted ==
  \A key \in DOMAIN chunks :
    /\ chunks[key].activeMemorySegments = Cardinality({i \in 1..ChunkSize : Places(<<key, i>>) # {}})
    /\ chunks[key].allocated <=> chunks[key].activeMemorySegments > 0

==============================================================================
