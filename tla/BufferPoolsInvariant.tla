------------------------- MODULE BufferPoolsInvariant ------------------------
(***************************************************************************)
(* Proofs about BufferPools, for any number of segments, sources, workers, *)
(* successors, children and unpooled chunks, and pools and chunks of any   *)
(* size.                                                                   *)
(***************************************************************************)
EXTENDS BufferPools, FiniteSetTheorems, TLAPS

Recyclers == Sources \cup {Global, Null}
Steps == [what : {"release", "recycle", "local", "global", "count", "chunk"},
          buffer : Buffers, pool : Sources \cup {Null}]
ChunkRecords == [thread : Workers, usedSize : 1..ChunkSize, activeMemorySegments : Nat, allocated : BOOLEAN]

Labels == {"start", "reserve", "loop", "fill", "exit", "drain", "ended",
           "idle", "work", "finish", "took", "output", "emplace"}

TypeOK ==
  /\ availableBuffers \subseteq Segments
  /\ exclusiveBuffers \in [Sources -> SUBSET Segments]
  /\ referenceCounter \in [Buffers -> Nat]
  /\ owningBufferRecycler \in [Buffers -> Recyclers]
  /\ children \in [Buffers -> Seq(Buffers)]
  /\ chunks \in Seq(ChunkRecords) /\ Len(chunks) <= MaxChunks
  /\ lastAllocateChunkKey \in [Workers -> Nat]
  /\ space \in [Workers -> Unpooled \cup {NoSpace}]
  /\ pc \in [Threads -> Labels]
  /\ held \in [Threads -> [Buffers -> Nat]]
  /\ tasks \in [Buffers -> Nat]
  /\ todo \in [Threads -> Seq(Steps)]

(* Every step is for a buffer of the kind it is for.                        *)
StepsFit ==
  \A t \in Threads : \A i \in DOMAIN todo[t] :
    LET x == todo[t][i]
    IN  /\ x.what = "local" => x.buffer \in Segments /\ x.pool \in Sources
        /\ x.what = "global" => x.buffer \in Segments
        /\ x.what = "chunk" => x.buffer \in Unpooled

(* What a thread has in its variables.                                      *)
Holding(t, b, n) == held[t] = [Nothing EXCEPT ![b] = n]
HoldingTwo(t, a, b) == a # b /\ held[t] = [Nothing EXCEPT ![a] = 1, ![b] = 1]

SourceFits(s) ==
  IF pc[s] = "fill" THEN todo[s] = <<>> /\ \E b \in Buffers : Holding(s, b, 2)
                    ELSE held[s] = Nothing

WorkerFits(w) ==
  /\ pc[w] \in {"idle", "work", "finish", "took", "output", "emplace"}
  /\ pc[w] # "idle" => todo[w] = <<>>
  /\ pc[w] = "idle" => held[w] = Nothing
  /\ pc[w] = "work" => \E b \in Buffers : Holding(w, b, 1) /\ owningBufferRecycler[b] # Global
  /\ pc[w] = "finish" => \E b \in Buffers : Holding(w, b, 1)
  /\ pc[w] \in {"took", "output", "emplace"} => \E a, b \in Buffers :
       HoldingTwo(w, a, b) /\ owningBufferRecycler[a] # Global /\ owningBufferRecycler[b] = Global
  /\ pc[w] = "emplace" <=> space[w] # NoSpace

ThreadsFit == (\A s \in Sources : SourceFits(s)) /\ (\A w \in Workers : WorkerFits(w))

(* Only a buffer that is in use, or about to be recycled, has a recycler.   *)
RecyclersFit ==
  \A b \in Buffers : owningBufferRecycler[b] # Null => referenceCounter[b] > 0 \/ Pending({"recycle"}, b) # {}

HandlesFit == \A b \in Buffers : IsFiniteSet(Handles(b)) /\ referenceCounter[b] = Cardinality(Handles(b))

(* A chunk has given out the segments up to its used size; a worker goes on *)
(* with a chunk of its own that is still allocated.                         *)
ChunksFit ==
  /\ \A b \in Unpooled : Places(b) # {} => b[1] \in DOMAIN chunks /\ b[2] <= chunks[b[1]].usedSize
  /\ \A w \in Workers : lastAllocateChunkKey[w] # 0 =>
       LET key == lastAllocateChunkKey[w]
       IN  key \in DOMAIN chunks /\ chunks[key].thread = w /\ chunks[key].activeMemorySegments > 0

BufferInv ==
  /\ TypeOK /\ StepsFit /\ ThreadsFit /\ RecyclersFit /\ HandlesFit
  /\ OnePlace /\ ChunksFit /\ ChunksCounted /\ InvariantsHold

----------------------------------------------------------------------------
(* Sets, stacks and tokens.                                                 *)

LEMMA Exchange ==
  ASSUME NEW S, IsFiniteSet(S), NEW A \in SUBSET S, NEW B, IsFiniteSet(B), B \cap S = {}
  PROVE  /\ IsFiniteSet((S \ A) \cup B)
         /\ Cardinality((S \ A) \cup B) = Cardinality(S) - Cardinality(A) + Cardinality(B)
         /\ Cardinality(S) \in Nat /\ Cardinality(A) \in Nat /\ Cardinality(B) \in Nat
<1>1. IsFiniteSet(A) /\ IsFiniteSet(S \ A)
  BY FS_Subset, Zenon
<1>2. (S \ A) \cup A = S /\ (S \ A) \cap A = {} /\ (S \ A) \cap B = {}
  BY Zenon
<1>3. Cardinality(S) = Cardinality(S \ A) + Cardinality(A) - Cardinality({})
  BY <1>1, <1>2, FS_Union
<1>4. /\ IsFiniteSet((S \ A) \cup B)
      /\ Cardinality((S \ A) \cup B) = Cardinality(S \ A) + Cardinality(B) - Cardinality({})
  BY <1>1, <1>2, FS_Union
<1>5. Cardinality(S) \in Nat /\ Cardinality(A) \in Nat /\ Cardinality(B) \in Nat /\ Cardinality(S \ A) \in Nat
  BY <1>1, FS_CardinalityType, Zenon
<1> QED
  BY <1>3, <1>4, <1>5, FS_EmptySet

Tokens(kind, x, m, n) == {<<kind, x, m + i>> : i \in 1..n}

LEMMA Numbered ==
  ASSUME NEW kind, NEW x, NEW m \in Nat, NEW n \in Nat
  PROVE  IsFiniteSet(Tokens(kind, x, m, n)) /\ Cardinality(Tokens(kind, x, m, n)) = n
<1> DEFINE f == [i \in 1..n |-> <<kind, x, m + i>>]
<1>1. IsFiniteSet(1..n) /\ Cardinality(1..n) = n
  BY FS_Interval
<1>2. f \in Bijection(1..n, Tokens(kind, x, m, n))
  <2>1. f \in [1..n -> Tokens(kind, x, m, n)] /\ \A y \in Tokens(kind, x, m, n) : \E i \in 1..n : f[i] = y
    BY Zenon DEF Tokens
  <2>2. \A i, j \in 1..n : f[i] = f[j] => i = j
    OBVIOUS
  <2> QED
    BY <2>1, <2>2, Zenon DEF Bijection, Injection, Surjection, IsInjective
<1>3. ExistsBijection(1..n, Tokens(kind, x, m, n))
  BY <1>2, Zenon DEF ExistsBijection
<1> QED
  BY <1>1, <1>3, FS_Bijection, Zenon

(* A thread replaces what is on its stack above the first m steps, which is *)
(* at most one step, by others.                                             *)
Replaced(t, m, steps) ==
  /\ todo' \in [Threads -> Seq(Steps)]
  /\ \A u \in Threads : u # t => todo'[u] = todo[u]
  /\ m \in Nat /\ Len(todo[t]) \in {m, m + 1}
  /\ Len(todo'[t]) = m + Len(steps)
  /\ \A i \in 1..m : todo'[t][i] = todo[t][i]
  /\ \A j \in 1..Len(steps) : todo'[t][m + j] = steps[j]

LEMMA PushSteps ==
  ASSUME TypeOK, NEW t \in Threads, todo[t] = <<>>, NEW steps \in Seq(Steps), todo' = [todo EXCEPT ![t] = steps]
  PROVE  Replaced(t, 0, steps)
<1>1. todo'[t] = steps /\ Len(steps) \in Nat /\ \A u \in Threads : u # t => todo'[u] = todo[u]
  BY DEF TypeOK
<1>2. todo' \in [Threads -> Seq(Steps)]
  BY Zenon DEF TypeOK
<1> QED
  BY <1>1, <1>2 DEF Replaced

LEMMA TopFacts ==
  ASSUME TypeOK, NEW t \in Threads, NEW what, Doing(t, what)
  PROVE  /\ Len(todo[t]) \in Nat \ {0} /\ Len(todo[t]) \in DOMAIN todo[t]
         /\ Top(t) \in Steps /\ Top(t).what = what /\ Top(t).buffer \in Buffers
         /\ \A K, b : <<"todo", t, Len(todo[t])>> \in Pending(K, b) <=> what \in K /\ b = Top(t).buffer
<1>1. todo[t] \in Seq(Steps) /\ todo[t] # <<>>
  BY Zenon DEF TypeOK, Doing
<1>2. Len(todo[t]) \in Nat \ {0} /\ Len(todo[t]) \in DOMAIN todo[t]
  BY <1>1
<1>3. Top(t) \in Steps /\ Top(t).what = what
  BY <1>1, <1>2 DEF Top, Doing
<1>4. Top(t).buffer \in Buffers
  BY <1>3, Zenon DEF Steps
<1>5. \A K, b : <<"todo", t, Len(todo[t])>> \in Pending(K, b) <=> what \in K /\ b = Top(t).buffer
  BY <1>2, <1>3 DEF Pending, Top
<1> QED
  BY <1>2, <1>3, <1>4, <1>5, Zenon

LEMMA PopSteps ==
  ASSUME TypeOK, NEW t \in Threads, todo[t] # <<>>, NEW steps \in Seq(Steps), Then(t, steps)
  PROVE  Replaced(t, Len(todo[t]) - 1, steps)
<1>1. todo[t] \in Seq(Steps) /\ Len(todo[t]) \in Nat \ {0}
  BY DEF TypeOK
<1>2. PICK old : old = SubSeq(todo[t], 1, Len(todo[t]) - 1)
  BY Zenon
<1>3. todo'[t] = old \o steps /\ \A u \in Threads : u # t => todo'[u] = todo[u]
  BY <1>2, Zenon DEF TypeOK, Then
<1>4. old \in Seq(Steps) /\ Len(old) = Len(todo[t]) - 1 /\ \A i \in 1..Len(todo[t]) - 1 : old[i] = todo[t][i]
  BY <1>1, <1>2
<1>5. /\ todo'[t] \in Seq(Steps) /\ Len(todo'[t]) = Len(old) + Len(steps)
      /\ \A i \in 1..Len(old) : todo'[t][i] = old[i]
      /\ \A j \in 1..Len(steps) : todo'[t][Len(old) + j] = steps[j]
  <2>1. old \in Seq(Steps)
    BY <1>4, Zenon
  <2>2. PICK all : all = old \o steps
    BY Zenon
  <2>3. all \in Seq(Steps) /\ Len(all) = Len(old) + Len(steps)
    BY <2>1, <2>2
  <2>4. \A i \in 1..Len(old) : all[i] = old[i]
    BY <2>1, <2>2
  <2>5. \A j \in 1..Len(steps) : all[Len(old) + j] = steps[j]
    BY <2>1, <2>2
  <2> QED
    BY <1>3, <2>2, <2>3, <2>4, <2>5, Zenon
<1>6. todo' \in [Threads -> Seq(Steps)]
  BY <1>3, <1>5, Zenon DEF TypeOK, Then
<1> QED
  BY <1>1, <1>3, <1>4, <1>5, <1>6, SMTT(30) DEF Replaced

LEMMA PendingAfter ==
  ASSUME TypeOK, NEW t \in Threads, NEW m, NEW steps \in Seq(Steps), Replaced(t, m, steps)
  PROVE  \A K, b : Pending(K, b)' =
           (Pending(K, b) \ {<<"todo", t, m + 1>>}) \cup
             {<<"todo", t, m + j>> : j \in {i \in 1..Len(steps) : steps[i].what \in K /\ steps[i].buffer = b}}
<1> SUFFICES ASSUME NEW K, NEW b
             PROVE  Pending(K, b)' =
                      (Pending(K, b) \ {<<"todo", t, m + 1>>}) \cup
                        {<<"todo", t, m + j>> : j \in {i \in 1..Len(steps) : steps[i].what \in K /\ steps[i].buffer = b}}
  BY Zenon
<1>1. \A u \in Threads : todo[u] \in Seq(Steps) /\ todo'[u] \in Seq(Steps) /\ Len(todo[u]) \in Nat /\ Len(todo'[u]) \in Nat
  BY DEF TypeOK, Replaced
<1>2. m \in Nat /\ Len(steps) \in Nat /\ Len(todo[t]) \in {m, m + 1} /\ Len(todo'[t]) = m + Len(steps)
  BY DEF Replaced
<1>3. ASSUME NEW u \in Threads, NEW i \in DOMAIN todo'[u], todo'[u][i].what \in K, todo'[u][i].buffer = b
      PROVE  \/ <<"todo", u, i>> \in Pending(K, b) /\ <<"todo", u, i>> # <<"todo", t, m + 1>>
             \/ u = t /\ \E j \in 1..Len(steps) : i = m + j /\ steps[j].what \in K /\ steps[j].buffer = b
  <2>1. CASE u # t
    BY <1>3, <2>1 DEF Replaced, Pending
  <2>2. CASE u = t /\ i <= m
    <3>1. i \in 1..m /\ i \in DOMAIN todo[t] /\ todo'[t][i] = todo[t][i]
      BY <1>1, <1>2, <2>2 DEF Replaced
    <3>2. i # m + 1
      BY <1>2, <3>1
    <3> QED
      BY <1>3, <2>2, <3>1, <3>2 DEF Pending
  <2>3. CASE u = t /\ ~ i <= m
    <3>1. i - m \in 1..Len(steps) /\ i = m + (i - m)
      BY <1>1, <1>2, <2>3
    <3>2. todo'[t][i] = steps[i - m]
      BY <3>1, Zenon DEF Replaced
    <3> QED
      BY <1>3, <2>3, <3>1, <3>2, Zenon
  <2> QED
    BY <2>1, <2>2, <2>3, Zenon
<1>4. ASSUME NEW u \in Threads, NEW i \in DOMAIN todo[u], todo[u][i].what \in K, todo[u][i].buffer = b,
             <<"todo", u, i>> # <<"todo", t, m + 1>>
      PROVE  <<"todo", u, i>> \in Pending(K, b)'
  <2>1. CASE u # t
    BY <1>4, <2>1 DEF Replaced, Pending
  <2>2. CASE u = t
    <3>1. i \in 1..m /\ i \in DOMAIN todo'[t] /\ todo'[t][i] = todo[t][i]
      BY <1>1, <1>2, <1>4, <2>2 DEF Replaced
    <3> QED
      BY <1>4, <2>2, <3>1 DEF Pending
  <2> QED
    BY <2>1, <2>2, Zenon
<1>5. ASSUME NEW j \in 1..Len(steps), steps[j].what \in K, steps[j].buffer = b
      PROVE  <<"todo", t, m + j>> \in Pending(K, b)'
  <2>1. m + j \in DOMAIN todo'[t] /\ todo'[t][m + j] = steps[j]
    BY <1>1, <1>2 DEF Replaced
  <2> QED
    BY <1>5, <2>1 DEF Pending
<1>6. \A x \in Pending(K, b)' : \E u \in Threads : \E i \in DOMAIN todo'[u] :
        x = <<"todo", u, i>> /\ todo'[u][i].what \in K /\ todo'[u][i].buffer = b
  BY Zenon DEF Pending
<1>7. \A x \in Pending(K, b) : \E u \in Threads : \E i \in DOMAIN todo[u] :
        x = <<"todo", u, i>> /\ todo[u][i].what \in K /\ todo[u][i].buffer = b
  BY Zenon DEF Pending
<1> QED
  BY <1>3, <1>4, <1>5, <1>6, <1>7

(* The tokens of a set are of its kind.                                     *)
LEMMA Kinds ==
  ASSUME NEW b
  PROVE  /\ \A x \in HeldBy(b) : x[1] = "held"
         /\ \A x \in InTasks(b) : x[1] = "task"
         /\ \A x \in InParents(b) : x[1] = "child"
         /\ \A K : \A x \in Pending(K, b) : x[1] = "todo"
  BY DEF HeldBy, InTasks, InParents, Pending

LEMMA HeldAfter ==
  ASSUME TypeOK, held' \in [Threads -> [Buffers -> Nat]], NEW t \in Threads,
         \A u \in Threads : u # t => held'[u] = held[u], NEW b \in Buffers
  PROVE  HeldBy(b)' = (HeldBy(b) \ Tokens("held", t, 0, held[t][b])) \cup Tokens("held", t, 0, held'[t][b])
<1>1. \A n \in Nat : Tokens("held", t, 0, n) = {<<"held", t, k>> : k \in 1..n}
  BY DEF Tokens
<1>2. held[t][b] \in Nat /\ held'[t][b] \in Nat
  BY Zenon DEF TypeOK
<1> QED
  BY <1>1, <1>2, SMTT(30) DEF HeldBy

LEMMA CountHandles ==
  ASSUME HandlesFit, NEW b \in Buffers, NEW A \in SUBSET Handles(b), NEW B, IsFiniteSet(B), B \cap Handles(b) = {},
         Handles(b)' = (Handles(b) \ A) \cup B,
         referenceCounter'[b] = referenceCounter[b] - Cardinality(A) + Cardinality(B)
  PROVE  IsFiniteSet(Handles(b))' /\ referenceCounter'[b] = Cardinality(Handles(b))'
<1>1. IsFiniteSet(Handles(b)) /\ referenceCounter[b] = Cardinality(Handles(b))
  BY Zenon DEF HandlesFit
<1>2. ASSUME NEW S, S = Handles(b)
      PROVE  /\ IsFiniteSet((S \ A) \cup B)
             /\ Cardinality((S \ A) \cup B) = Cardinality(S) - Cardinality(A) + Cardinality(B)
  BY <1>1, <1>2, Exchange
<1>3. IsFiniteSet(Handles(b)')
  BY <1>2, Zenon
<1>4. Cardinality(Handles(b)') = referenceCounter'[b]
  BY <1>1, <1>2, Zenon
<1> QED
  BY <1>3, <1>4, Zenon

(* A buffer with a TupleBuffer is in use.                                   *)
LEMMA Referenced ==
  ASSUME TypeOK, HandlesFit, NEW b \in Buffers, Handles(b) # {}
  PROVE  referenceCounter[b] > 0
<1>1. Cardinality(Handles(b)) # 0 /\ Cardinality(Handles(b)) \in Nat
  BY FS_EmptySet, FS_CardinalityType, Zenon DEF HandlesFit
<1> QED
  BY <1>1 DEF HandlesFit

----------------------------------------------------------------------------
(* What keeps the parts of the invariant.                                   *)

LEMMA StepsFitAfter ==
  ASSUME TypeOK, StepsFit, NEW t \in Threads, NEW m, NEW steps \in Seq(Steps), Replaced(t, m, steps),
         \A j \in 1..Len(steps) :
           /\ steps[j].what = "local" => steps[j].buffer \in Segments /\ steps[j].pool \in Sources
           /\ steps[j].what = "global" => steps[j].buffer \in Segments
           /\ steps[j].what = "chunk" => steps[j].buffer \in Unpooled
  PROVE  StepsFit'
<1> SUFFICES ASSUME NEW u \in Threads, NEW i \in DOMAIN todo'[u]
             PROVE  LET x == todo'[u][i]
                    IN  /\ x.what = "local" => x.buffer \in Segments /\ x.pool \in Sources
                        /\ x.what = "global" => x.buffer \in Segments
                        /\ x.what = "chunk" => x.buffer \in Unpooled
  BY Zenon DEF StepsFit
<1>1. m \in Nat /\ Len(steps) \in Nat /\ Len(todo[t]) \in {m, m + 1} /\ Len(todo'[t]) = m + Len(steps)
  BY DEF Replaced
<1>2. todo[u] \in Seq(Steps) /\ todo'[u] \in Seq(Steps)
  BY Zenon DEF TypeOK, Replaced
<1>3. CASE u # t
  BY <1>3, Zenon DEF StepsFit, Replaced
<1>4. CASE u = t /\ i <= m
  <2>1. i \in 1..m /\ i \in DOMAIN todo[t] /\ todo'[t][i] = todo[t][i]
    BY <1>1, <1>2, <1>4 DEF Replaced
  <2> QED
    BY <1>4, <2>1, Zenon DEF StepsFit
<1>5. CASE u = t /\ ~ i <= m
  <2>1. i - m \in 1..Len(steps) /\ i = m + (i - m)
    BY <1>1, <1>2, <1>5
  <2>2. todo'[t][i] = steps[i - m]
    BY <2>1, Zenon DEF Replaced
  <2> QED
    BY <1>5, <2>1, <2>2, Zenon
<1> QED
  BY <1>3, <1>4, <1>5, Zenon

LEMMA FitsKept ==
  ASSUME TypeOK, ThreadsFit, NEW u \in Threads, pc'[u] = pc[u], held'[u] = held[u],
         todo'[u] = todo[u] \/ todo[u] # <<>>, u \in Workers => space'[u] = space[u],
         \A b \in Buffers : held[u][b] > 0 => owningBufferRecycler'[b] = owningBufferRecycler[b]
  PROVE  (u \in Sources => SourceFits(u)') /\ (u \in Workers => WorkerFits(u)')
<1>1. ASSUME u \in Sources
      PROVE  SourceFits(u)'
  <2>1. SourceFits(u)
    BY <1>1, Zenon DEF ThreadsFit
  <2> QED
    BY <2>1, Zenon DEF SourceFits, Holding, Nothing
<1>2. ASSUME u \in Workers
      PROVE  WorkerFits(u)'
  <2>1. WorkerFits(u) /\ space'[u] = space[u]
    BY <1>2, Zenon DEF ThreadsFit
  <2>2. \A a, b \in Buffers : HoldingTwo(u, a, b)' <=> HoldingTwo(u, a, b)
    BY Zenon DEF HoldingTwo, Nothing
  <2>3. \A b \in Buffers : Holding(u, b, 1)' <=> Holding(u, b, 1)
    BY Zenon DEF Holding, Nothing
  <2>4. \A a, b \in Buffers : HoldingTwo(u, a, b) => held[u][a] > 0 /\ held[u][b] > 0
    BY DEF HoldingTwo, Nothing
  <2>5. \A b \in Buffers : Holding(u, b, 1) => held[u][b] > 0
    BY DEF Holding, Nothing
  <2>6. pc'[u] \in {"idle", "work", "finish", "took", "output", "emplace"} /\ (pc'[u] # "idle" => todo'[u] = <<>>)
    BY <2>1, Zenon DEF WorkerFits
  <2>7. (pc'[u] = "idle" => held'[u] = Nothing) /\ (pc'[u] = "emplace" <=> space'[u] # NoSpace)
    BY <2>1, Zenon DEF WorkerFits
  <2>8. /\ pc'[u] = "work" => \E b \in Buffers : Holding(u, b, 1)' /\ owningBufferRecycler'[b] # Global
        /\ pc'[u] = "finish" => \E b \in Buffers : Holding(u, b, 1)'
    BY <2>1, <2>3, <2>5, Zenon DEF WorkerFits
  <2>9. pc'[u] \in {"took", "output", "emplace"} => \E a, b \in Buffers :
          HoldingTwo(u, a, b)' /\ owningBufferRecycler'[a] # Global /\ owningBufferRecycler'[b] = Global
    BY <2>1, <2>2, <2>4, Zenon DEF WorkerFits
  <2> QED
    BY <2>6, <2>7, <2>8, <2>9, Zenon DEF WorkerFits, Nothing
<1> QED
  BY <1>1, <1>2, Zenon

LEMMA PlacesMoved ==
  ASSUME TypeOK, OnePlace, ChunksFit, ChunksCounted, UNCHANGED <<chunks, lastAllocateChunkKey>>,
         \A b \in Buffers : Places(b)' # Places(b) => Places(b) # {} /\ \E y : Places(b)' = {y}
  PROVE  OnePlace' /\ ChunksFit' /\ ChunksCounted'
<1>1. OnePlace'
  BY DEF OnePlace, Buffers
<1>2. \A b \in Buffers : Places(b)' # {} <=> Places(b) # {}
  BY Zenon
<1>3. ChunksFit'
  BY <1>2, Zenon DEF ChunksFit, Buffers
<1>4. ASSUME NEW key \in DOMAIN chunks
      PROVE  {i \in 1..ChunkSize : Places(<<key, i>>)' # {}} = {i \in 1..ChunkSize : Places(<<key, i>>) # {}}
  <2>1. \A i \in 1..ChunkSize : <<key, i>> \in Buffers
    <3>1. key \in Chunks
      BY BufferPoolsAssumption DEF Chunks, TypeOK
    <3> QED
      BY <3>1, Zenon DEF Buffers, Unpooled
  <2> QED
    BY <1>2, <2>1, Zenon
<1>5. ChunksCounted'
  BY <1>4, Zenon DEF ChunksCounted
<1> QED
  BY <1>1, <1>3, <1>5, Zenon

LEMMA PlacesStay ==
  ASSUME TypeOK, OnePlace, ChunksFit, ChunksCounted, chunks' = chunks, lastAllocateChunkKey' = lastAllocateChunkKey,
         \A b \in Buffers : Places(b)' = Places(b)
  PROVE  OnePlace' /\ ChunksFit' /\ ChunksCounted'
  BY PlacesMoved, Zenon

LEMMA HandlesKept ==
  ASSUME HandlesFit, UNCHANGED <<held, tasks, children, referenceCounter>>,
         \A b \in Buffers : Pending({"release"}, b)' = Pending({"release"}, b)
  PROVE  HandlesFit'
<1>1. ASSUME NEW b \in Buffers
      PROVE  Handles(b)' = Handles(b)
  BY DEF Handles, HeldBy, InTasks, InParents
<1> QED
  BY <1>1, Zenon DEF HandlesFit

Moving == {"recycle", "local", "global", "chunk"}

LEMMA PlacesSame ==
  ASSUME UNCHANGED <<availableBuffers, exclusiveBuffers, referenceCounter, space>>, NEW b,
         Pending(Moving, b)' = Pending(Moving, b)
  PROVE  Places(b)' = Places(b)
  BY Zenon DEF Places, Moving

LEMMA Alone ==
  ASSUME TypeOK, NEW b \in Buffers, NEW x, Places(b) = {x}
  PROVE  /\ x # <<"available", Global, 0>> => b \notin availableBuffers
         /\ \A s \in Sources : x # <<"pool", s, 0>> => b \notin exclusiveBuffers[s]
         /\ x # <<"use", b, 0>> => referenceCounter[b] = 0
         /\ \A w \in Workers : x # <<"space", w, 0>> => space[w] # b
         /\ Pending(Moving, b) \subseteq {x}
         /\ x[1] # "todo" => Pending(Moving, b) = {}
<1>1. referenceCounter[b] \in Nat
  BY Zenon DEF TypeOK
<1>2. Pending(Moving, b) \subseteq Places(b)
  BY Zenon DEF Places, Moving
<1>3. x[1] # "todo" => Pending(Moving, b) = {}
  BY <1>2, Kinds, Zenon
<1>4. x # <<"available", Global, 0>> => b \notin availableBuffers
  BY Zenon DEF Places
<1>5. \A s \in Sources : x # <<"pool", s, 0>> => b \notin exclusiveBuffers[s]
  BY Zenon DEF Places
<1>6. referenceCounter[b] > 0 => <<"use", b, 0>> \in Places(b)
  BY Zenon DEF Places
<1>7. \A w \in Workers : x # <<"space", w, 0>> => space[w] # b
  BY Zenon DEF Places
<1> QED
  BY <1>1, <1>2, <1>3, <1>4, <1>5, <1>6, <1>7

LEMMA HeldInUse ==
  ASSUME TypeOK, HandlesFit, NEW u \in Threads, NEW b \in Buffers, held[u][b] > 0
  PROVE  referenceCounter[b] > 0
<1>1. held[u][b] \in Nat
  BY Zenon DEF TypeOK
<1>2. <<"held", u, 1>> \in Handles(b)
  BY <1>1 DEF Handles, HeldBy
<1> QED
  BY <1>2, Referenced, Zenon

(* A buffer somewhere else than in use.                                     *)
LEMMA Free ==
  ASSUME BufferInv, NEW b \in Buffers, NEW x \in Places(b), x[1] # "use"
  PROVE  /\ referenceCounter[b] = 0 /\ Handles(b) = {} /\ Places(b) = {x}
         /\ \A u \in Threads : held[u][b] = 0
         /\ x \notin Pending({"recycle"}, b) => owningBufferRecycler[b] = Null
<1>1. Places(b) = {x}
  BY DEF BufferInv, OnePlace, Buffers
<1>2. referenceCounter[b] \in Nat
  BY Zenon DEF BufferInv, TypeOK
<1>3. referenceCounter[b] = 0
  <2>1. referenceCounter[b] > 0 => <<"use", b, 0>> \in Places(b)
    BY Zenon DEF Places
  <2> QED
    BY <1>1, <1>2, <2>1
<1>4. Handles(b) = {}
  BY <1>3, Referenced DEF BufferInv
<1>5. \A u \in Threads : held[u][b] = 0
  <2>1. \A u \in Threads : held[u][b] \in Nat
    BY Zenon DEF BufferInv, TypeOK
  <2>2. \A u \in Threads : held[u][b] > 0 => FALSE
    BY <1>3, HeldInUse DEF BufferInv
  <2> QED
    BY <2>1, <2>2
<1>6. Pending({"recycle"}, b) \subseteq Places(b)
  BY DEF Places, Pending
<1>7. x \notin Pending({"recycle"}, b) => owningBufferRecycler[b] = Null
  BY <1>1, <1>3, <1>6 DEF BufferInv, RecyclersFit
<1> QED
  BY <1>1, <1>3, <1>4, <1>5, <1>7, Zenon

----------------------------------------------------------------------------
(* The actions.                                                             *)

LEMMA InitInv ==
  ASSUME Init
  PROVE  BufferInv
<1>1. TypeOK
  <2>1. chunks \in Seq(ChunkRecords) /\ Len(chunks) <= MaxChunks
    BY BufferPoolsAssumption DEF Init
  <2>2. space \in [Workers -> Unpooled \cup {NoSpace}] /\ todo \in [Threads -> Seq(Steps)]
    BY DEF Init
  <2>3. children \in [Buffers -> Seq(Buffers)] /\ owningBufferRecycler \in [Buffers -> Recyclers]
    BY DEF Init, Recyclers
  <2>4. pc \in [Threads -> Labels] /\ lastAllocateChunkKey \in [Workers -> Nat]
    BY Zenon DEF Init, Labels
  <2>5. /\ referenceCounter \in [Buffers -> Nat] /\ tasks \in [Buffers -> Nat]
        /\ held \in [Threads -> [Buffers -> Nat]]
    BY Zenon DEF Init, Nothing
  <2>6. availableBuffers \subseteq Segments /\ exclusiveBuffers \in [Sources -> SUBSET Segments]
    BY Zenon DEF Init
  <2> QED
    BY <2>1, <2>2, <2>3, <2>4, <2>5, <2>6, Zenon DEF TypeOK
<1>2. \A K, b : Pending(K, b) = {}
  BY DEF Init, Pending
<1>3. StepsFit
  BY DEF Init, StepsFit
<1>4. ThreadsFit
  <2>1. \A t \in Threads : held[t] = Nothing /\ todo[t] = <<>>
    BY Zenon DEF Init
  <2>2. \A s \in Sources : SourceFits(s)
    BY <2>1, Zenon DEF Init, SourceFits, Threads
  <2>3. \A w \in Workers : pc[w] = "idle" /\ space[w] = NoSpace
    BY BufferPoolsAssumption, Zenon DEF Init, Threads
  <2>4. \A w \in Workers : WorkerFits(w)
    BY <2>1, <2>3, Zenon DEF WorkerFits, Threads
  <2> QED
    BY <2>2, <2>4, Zenon DEF ThreadsFit
<1>5. RecyclersFit
  BY Zenon DEF Init, RecyclersFit
<1>6. HandlesFit
  <2>1. ASSUME NEW b \in Buffers
        PROVE  Handles(b) = {}
    BY <1>2 DEF Init, Handles, HeldBy, InTasks, InParents, Nothing
  <2> QED
    BY <2>1, FS_EmptySet, Zenon DEF HandlesFit, Init, Nothing
<1>7. \A b \in Unpooled : Places(b) = {}
  <2>1. \A b \in Unpooled : b # NoSpace
    BY DEF Unpooled, Chunks, NoSpace
  <2> QED
    BY <1>2, <2>1, BufferPoolsAssumption DEF Places, Init, Nothing, Buffers
<1>8. \A b \in Segments : Places(b) = {<<"available", Global, 0>>}
  <2>1. \A b \in Segments : \A w \in Workers : space[w] # b
    BY BufferPoolsAssumption, Zenon DEF Init
  <2> QED
    BY <1>2, <2>1 DEF Places, Init, Nothing, Buffers
<1>9. OnePlace
  BY <1>7, <1>8, Zenon DEF OnePlace
<1>10. ChunksFit /\ ChunksCounted /\ InvariantsHold
  BY <1>7 DEF Init, ChunksFit, ChunksCounted, InvariantsHold
<1> QED
  BY <1>1, <1>3, <1>4, <1>5, <1>6, <1>9, <1>10, Zenon DEF BufferInv

(* Steps that neither touch a buffer nor a chunk.                           *)
LEMMA QuietInv ==
  ASSUME BufferInv, pc' \in [Threads -> Labels], ThreadsFit',
         UNCHANGED <<availableBuffers, exclusiveBuffers, counting, unpooled, held, tasks, todo, failed>>
  PROVE  BufferInv'
<1>1. \A K, b : Pending(K, b)' = Pending(K, b)
  BY DEF Pending
<1>2. TypeOK' /\ StepsFit'
  BY Zenon DEF BufferInv, TypeOK, StepsFit, counting, unpooled
<1>3. RecyclersFit'
  BY <1>1, Zenon DEF BufferInv, RecyclersFit, counting
<1>4. HandlesFit'
  BY <1>1, HandlesKept, Zenon DEF BufferInv, counting
<1>5. \A b \in Buffers : Places(b)' = Places(b)
  BY <1>1, PlacesSame, Zenon DEF counting, unpooled
<1>6. OnePlace' /\ ChunksFit' /\ ChunksCounted'
  BY <1>5, PlacesStay, Zenon DEF BufferInv, unpooled
<1> QED
  BY <1>2, <1>3, <1>4, <1>6, Zenon DEF BufferInv, InvariantsHold

LEMMA SourceSteps ==
  ASSUME BufferInv, NEW s \in Sources,
         \/ CreatePool(s) \/ RequestStop(s) \/ LeaveLoop(s) \/ DestroyPool(s)
         \/ At(s, "drain") /\ Goto(s, "ended")
               /\ UNCHANGED <<counting, availableBuffers, exclusiveBuffers, unpooled, held, tasks, todo, failed>>
  PROVE  BufferInv'
<1>1. /\ UNCHANGED <<availableBuffers, exclusiveBuffers, counting, unpooled, held, tasks, todo, failed>>
      /\ pc' # pc => pc[s] # "fill" /\ \E l \in {"ended", "reserve", "exit", "drain"} : Goto(s, l)
  <2>1. CASE CreatePool(s)
    BY <2>1, Zenon DEF CreatePool, At
  <2>2. CASE RequestStop(s)
    BY <2>2, Zenon DEF RequestStop, pooled
  <2>3. CASE LeaveLoop(s) \/ DestroyPool(s)
    BY <2>3, Zenon DEF LeaveLoop, DestroyPool, At, pooled
  <2>4. CASE At(s, "drain") /\ Goto(s, "ended")
               /\ UNCHANGED <<counting, availableBuffers, exclusiveBuffers, unpooled, held, tasks, todo, failed>>
    BY <2>4, Zenon DEF At
  <2> QED
    BY <2>1, <2>2, <2>3, <2>4, Zenon
<1>2. /\ pc' \in [Threads -> Labels] /\ (pc' # pc => pc[s] # "fill" /\ pc'[s] # "fill")
      /\ \A u \in Threads : u # s => pc'[u] = pc[u]
  BY <1>1, Zenon DEF Goto, BufferInv, TypeOK, Threads, Labels
<1>3. ThreadsFit'
  <2>1. \A u \in Threads : u # s => (u \in Sources => SourceFits(u)') /\ (u \in Workers => WorkerFits(u)')
    BY <1>1, <1>2, FitsKept, Zenon DEF BufferInv, counting, unpooled
  <2>2. SourceFits(s)'
    BY <1>1, <1>2, Zenon DEF BufferInv, ThreadsFit, SourceFits, Holding, Nothing
  <2> QED
    BY <2>1, <2>2, BufferPoolsAssumption, Zenon DEF ThreadsFit, Threads
<1> QED
  BY <1>1, <1>2, <1>3, QuietInv, Zenon

LEMMA CountTakenInv ==
  ASSUME BufferInv, NEW w \in Workers, CountTaken(w)
  PROVE  BufferInv'
<1>1. UNCHANGED <<availableBuffers, exclusiveBuffers, counting, unpooled, held, tasks, todo, failed>>
  BY Zenon DEF CountTaken
<1>2. /\ pc[w] = "took" /\ pc'[w] = "output" /\ pc' \in [Threads -> Labels]
      /\ \A u \in Threads : u # w => pc'[u] = pc[u]
  BY Zenon DEF CountTaken, At, Goto, BufferInv, TypeOK, Threads, Labels
<1>3. ThreadsFit'
  <2>1. \A u \in Threads : u # w => (u \in Sources => SourceFits(u)') /\ (u \in Workers => WorkerFits(u)')
    BY <1>1, <1>2, FitsKept, Zenon DEF BufferInv, counting, unpooled
  <2>2. WorkerFits(w)'
    <3>1. WorkerFits(w)
      BY Zenon DEF BufferInv, ThreadsFit
    <3>2. \A a, b \in Buffers : HoldingTwo(w, a, b)' <=> HoldingTwo(w, a, b)
      BY <1>1, Zenon DEF HoldingTwo, Nothing
    <3> QED
      BY <1>1, <1>2, <3>1, <3>2, Zenon DEF WorkerFits, counting, unpooled
  <2> QED
    BY <2>1, <2>2, BufferPoolsAssumption, Zenon DEF ThreadsFit, Threads
<1> QED
  BY <1>1, <1>2, <1>3, QuietInv, Zenon

LEMMA ReserveBufferInv ==
  ASSUME BufferInv, NEW s \in Sources, ReserveBuffer(s)
  PROVE  BufferInv'
<1>1. PICK b \in availableBuffers : availableBuffers' = availableBuffers \ {b}
        /\ exclusiveBuffers' = [exclusiveBuffers EXCEPT ![s] = @ \cup {b}]
  BY Zenon DEF ReserveBuffer
<1>2. UNCHANGED <<counting, unpooled, held, tasks, todo, failed>> /\ pc[s] = "reserve"
      /\ (pc' = pc \/ pc' = [pc EXCEPT ![s] = "loop"])
  BY Zenon DEF ReserveBuffer, At, Goto
<1>3. b \in Segments /\ b \in Buffers
  BY <1>1, Zenon DEF BufferInv, TypeOK, Buffers
<1>4. \A K, c : Pending(K, c)' = Pending(K, c)
  BY <1>2 DEF Pending
<1>5. TypeOK' /\ StepsFit'
  <2>1. exclusiveBuffers' \in [Sources -> SUBSET Segments] /\ availableBuffers' \subseteq Segments
    BY <1>1, <1>3, Zenon DEF BufferInv, TypeOK
  <2>2. pc' \in [Threads -> Labels]
    BY <1>2, Zenon DEF BufferInv, TypeOK, Labels
  <2> QED
    BY <1>2, <2>1, <2>2, Zenon DEF BufferInv, TypeOK, StepsFit, counting, unpooled
<1>6. ThreadsFit'
  <2>1. \A u \in Threads : u # s => (u \in Sources => SourceFits(u)') /\ (u \in Workers => WorkerFits(u)')
    <3>1. \A u \in Threads : u # s => pc'[u] = pc[u]
      BY <1>2, Zenon DEF BufferInv, TypeOK
    <3> QED
      BY <1>2, <3>1, FitsKept, Zenon DEF BufferInv, counting, unpooled
  <2>2. SourceFits(s)'
    <3>1. pc'[s] # "fill"
      BY <1>2, Zenon DEF BufferInv, TypeOK, Threads
    <3> QED
      BY <1>2, <3>1, Zenon DEF BufferInv, ThreadsFit, SourceFits, Nothing
  <2> QED
    BY <2>1, <2>2, BufferPoolsAssumption, Zenon DEF ThreadsFit, Threads
<1>7. RecyclersFit'
  BY <1>2, <1>4, Zenon DEF BufferInv, RecyclersFit, counting
<1>8. HandlesFit'
  BY <1>2, <1>4, HandlesKept, Zenon DEF BufferInv, counting
<1>9. Places(b) = {<<"available", Global, 0>>}
  <2>1. <<"available", Global, 0>> \in Places(b)
    BY <1>1, Zenon DEF Places
  <2> QED
    BY <1>3, <2>1, Free, Zenon
<1>10. Places(b)' = {<<"pool", s, 0>>}
  <2>1. /\ referenceCounter[b] = 0 /\ Pending(Moving, b) = {}
        /\ \A r \in Sources : b \notin exclusiveBuffers[r]
        /\ \A w \in Workers : space[w] # b
    <3>1. PICK x : x = <<"available", Global, 0>>
      BY Zenon
    <3>2. Places(b) = {x} /\ x # <<"use", b, 0>> /\ x[1] # "todo" /\ \A r : x # <<"pool", r, 0>> /\ x # <<"space", r, 0>>
      BY <1>9, <3>1, Zenon
    <3> QED
      BY <1>3, <3>2, Alone, Zenon DEF BufferInv
  <2>2. b \notin availableBuffers' /\ \A r \in Sources : b \in exclusiveBuffers'[r] <=> r = s
    BY <1>1, <2>1, Zenon DEF BufferInv, TypeOK
  <2> QED
    BY <1>2, <1>4, <2>1, <2>2 DEF Places, Moving, counting, unpooled
<1>11. ASSUME NEW c \in Buffers, c # b
       PROVE  Places(c)' = Places(c)
  <2>1. c \in availableBuffers' <=> c \in availableBuffers
    BY <1>1, <1>11, Zenon
  <2>2. \A r \in Sources : c \in exclusiveBuffers'[r] <=> c \in exclusiveBuffers[r]
    BY <1>1, <1>11, Zenon DEF BufferInv, TypeOK
  <2> QED
    BY <1>2, <1>4, <2>1, <2>2, Zenon DEF Places, counting, unpooled
<1>12. OnePlace' /\ ChunksFit' /\ ChunksCounted'
  BY <1>2, <1>9, <1>10, <1>11, PlacesMoved, Zenon DEF BufferInv, unpooled
<1> QED
  BY <1>2, <1>5, <1>6, <1>7, <1>8, <1>12, Zenon DEF BufferInv, InvariantsHold

LEMMA TakeHandles ==
  ASSUME TypeOK, HandlesFit, NEW t \in Threads, NEW b \in Buffers, NEW n \in {1, 2}, Handles(b) = {},
         held' \in [Threads -> [Buffers -> Nat]], \A u \in Threads : u # t => held'[u] = held[u],
         held'[t][b] = n, \A c \in Buffers : c # b => held'[t][c] = held[t][c],
         referenceCounter'[b] = n, \A c \in Buffers : c # b => referenceCounter'[c] = referenceCounter[c],
         UNCHANGED <<children, tasks>>, \A K, c : Pending(K, c)' = Pending(K, c)
  PROVE  HandlesFit'
<1>1. \A c \in Buffers : InTasks(c)' = InTasks(c) /\ InParents(c)' = InParents(c)
  BY DEF InTasks, InParents
<1>2. ASSUME NEW c \in Buffers, c # b
      PROVE  Handles(c)' = Handles(c)
  <2>1. HeldBy(c)' = HeldBy(c)
    BY <1>2 DEF HeldBy
  <2> QED
    BY <1>1, <1>2, <2>1, Zenon DEF Handles
<1>3. Handles(b)' = Tokens("held", t, 0, n)
  <2>1. HeldBy(b) = {} /\ InTasks(b) = {} /\ InParents(b) = {} /\ Pending({"release"}, b) = {}
    BY Zenon DEF Handles
  <2>2. HeldBy(b)' = Tokens("held", t, 0, n)
    <3>1. HeldBy(b)' = (HeldBy(b) \ Tokens("held", t, 0, held[t][b])) \cup Tokens("held", t, 0, held'[t][b])
      BY HeldAfter, Zenon
    <3> QED
      BY <2>1, <3>1, Zenon
  <2> QED
    BY <1>1, <2>1, <2>2, ZenonT(30) DEF Handles
<1>4. IsFiniteSet(Handles(b)') /\ Cardinality(Handles(b)') = n
  BY <1>3, Numbered
<1> QED
  BY <1>2, <1>4, Zenon DEF HandlesFit

(* A thread takes the buffer b from a queue, with n TupleBuffers for it.    *)
LEMMA TakeBuffer ==
  ASSUME BufferInv, NEW t \in Threads, NEW b \in Segments, NEW r \in Recyclers, NEW n \in {1, 2},
         NEW x \in Places(b), x[1] \in {"available", "pool"},
         Prepare(b, r, n), held' = [held EXCEPT ![t][b] = n], UNCHANGED <<children, tasks, todo, unpooled>>,
         availableBuffers' = IF x[1] = "available" THEN availableBuffers \ {b} ELSE availableBuffers,
         \A s \in Sources : exclusiveBuffers'[s] = IF x = <<"pool", s, 0>> THEN exclusiveBuffers[s] \ {b}
                                                                         ELSE exclusiveBuffers[s],
         ThreadsFit', pc' \in [Threads -> Labels], exclusiveBuffers' \in [Sources -> SUBSET Segments]
  PROVE  BufferInv'
<1>1. b \in Buffers /\ x \in {<<"available", Global, 0>>} \cup {<<"pool", s, 0>> : s \in Sources} /\ x[1] # "use" /\ x[1] # "todo"
  <2>1. x \notin Pending(Moving, b)
    BY Kinds, Zenon
  <2> QED
    BY <2>1 DEF Places, Moving, Buffers
<1>2. /\ referenceCounter[b] = 0 /\ Handles(b) = {} /\ Places(b) = {x} /\ owningBufferRecycler[b] = Null
      /\ \A u \in Threads : held[u][b] = 0
  <2>1. x \notin Pending({"recycle"}, b)
    BY <1>1, Kinds, Zenon
  <2> QED
    BY <1>1, <2>1, Free, Zenon
<1>3. \A K, c : Pending(K, c)' = Pending(K, c)
  BY DEF Pending
<1>4. /\ referenceCounter' = [referenceCounter EXCEPT ![b] = n]
      /\ owningBufferRecycler' = [owningBufferRecycler EXCEPT ![b] = r]
      /\ ~ failed'
  BY <1>2, Zenon DEF Prepare, BufferInv, InvariantsHold
<1>5. TypeOK' /\ StepsFit'
  <2>1. referenceCounter' \in [Buffers -> Nat] /\ owningBufferRecycler' \in [Buffers -> Recyclers]
    BY <1>1, <1>4 DEF BufferInv, TypeOK
  <2>2. held' \in [Threads -> [Buffers -> Nat]] /\ availableBuffers' \subseteq Segments
    BY <1>1 DEF BufferInv, TypeOK
  <2> QED
    BY <2>1, <2>2, Zenon DEF BufferInv, TypeOK, StepsFit, unpooled
<1>6. RecyclersFit'
  <2>1. \A c \in Buffers : c # b => owningBufferRecycler'[c] = owningBufferRecycler[c] /\ referenceCounter'[c] = referenceCounter[c]
    BY <1>4, Zenon DEF BufferInv, TypeOK
  <2>2. referenceCounter'[b] > 0
    BY <1>1, <1>4, SMTT(30) DEF BufferInv, TypeOK
  <2> QED
    BY <1>3, <2>1, <2>2, Zenon DEF BufferInv, RecyclersFit
<1>7. HandlesFit'
  <2>1. held' \in [Threads -> [Buffers -> Nat]] /\ \A u \in Threads : u # t => held'[u] = held[u]
    BY <1>5, Zenon DEF BufferInv, TypeOK
  <2>2. held'[t][b] = n /\ \A c \in Buffers : c # b => held'[t][c] = held[t][c]
    BY <1>1, Zenon DEF BufferInv, TypeOK
  <2>3. referenceCounter'[b] = n /\ \A c \in Buffers : c # b => referenceCounter'[c] = referenceCounter[c]
    BY <1>1, <1>4, Zenon DEF BufferInv, TypeOK
  <2> QED
    BY <1>1, <1>2, <1>3, <2>1, <2>2, <2>3, TakeHandles DEF BufferInv
<1>8. Places(b)' = {<<"use", b, 0>>}
  <2>1. /\ Pending(Moving, b) = {} /\ \A w \in Workers : space[w] # b
        /\ x # <<"available", Global, 0>> => b \notin availableBuffers
        /\ \A s \in Sources : x # <<"pool", s, 0>> => b \notin exclusiveBuffers[s]
    BY <1>1, <1>2, Alone DEF BufferInv
  <2>2. b \notin availableBuffers' /\ \A s \in Sources : b \notin exclusiveBuffers'[s]
    BY <1>1, <2>1, SMTT(30)
  <2>3. referenceCounter'[b] > 0 /\ \A w \in Workers : space'[w] # b
    BY <1>1, <1>4, <2>1 DEF BufferInv, TypeOK, unpooled
  <2> QED
    BY <1>3, <2>1, <2>2, <2>3, ZenonT(30) DEF Places, Moving
<1>9. ASSUME NEW c \in Buffers, c # b
      PROVE  Places(c)' = Places(c)
  <2>1. c \in availableBuffers' <=> c \in availableBuffers
    BY <1>9, Zenon
  <2>2. \A s \in Sources : c \in exclusiveBuffers'[s] <=> c \in exclusiveBuffers[s]
    BY <1>9, Zenon
  <2>3. referenceCounter'[c] = referenceCounter[c] /\ space' = space
    BY <1>4, <1>9, Zenon DEF BufferInv, TypeOK, unpooled
  <2> QED
    BY <1>3, <2>1, <2>2, <2>3, Zenon DEF Places
<1>10. OnePlace' /\ ChunksFit' /\ ChunksCounted'
  BY <1>2, <1>8, <1>9, PlacesMoved, Zenon DEF BufferInv, unpooled
<1> QED
  BY <1>4, <1>5, <1>6, <1>7, <1>10, Zenon DEF BufferInv, InvariantsHold

LEMMA GetLocalBufferInv ==
  ASSUME BufferInv, NEW s \in Sources, GetLocalBuffer(s)
  PROVE  BufferInv'
<1>1. PICK b \in exclusiveBuffers[s] :
        /\ exclusiveBuffers' = [exclusiveBuffers EXCEPT ![s] = @ \ {b}]
        /\ Prepare(b, s, 2) /\ held' = [held EXCEPT ![s][b] = 2]
  BY Zenon DEF GetLocalBuffer
<1>2. /\ UNCHANGED <<children, tasks, todo, unpooled, availableBuffers>> /\ pc' = [pc EXCEPT ![s] = "fill"]
      /\ pc[s] = "loop" /\ todo[s] = <<>>
  BY Zenon DEF GetLocalBuffer, At, Goto
<1>3. b \in Segments /\ b \in Buffers /\ s \in Threads /\ s \in Recyclers
  BY <1>1, Zenon DEF BufferInv, TypeOK, Buffers, Threads, Recyclers
<1>4. PICK x : x = <<"pool", s, 0>>
  BY Zenon
<1>5. x \in Places(b) /\ x[1] = "pool" /\ x[1] # "use"
  BY <1>1, <1>4, Zenon DEF Places
<1>6. \A u \in Threads : held[u][b] = 0
  BY <1>3, <1>5, Free, Zenon
<1>7. pc' \in [Threads -> Labels] /\ pc'[s] = "fill" /\ \A u \in Threads : u # s => pc'[u] = pc[u]
  BY <1>2, <1>3, Zenon DEF BufferInv, TypeOK, Labels
<1>8. \A r \in Sources : exclusiveBuffers'[r] = IF x = <<"pool", r, 0>> THEN exclusiveBuffers[r] \ {b}
                                                                      ELSE exclusiveBuffers[r]
  BY <1>1, <1>4, Zenon DEF BufferInv, TypeOK
<1>9. exclusiveBuffers' \in [Sources -> SUBSET Segments]
  BY <1>1, Zenon DEF BufferInv, TypeOK
<1>10. ThreadsFit'
  <2>1. \A c \in Buffers : c # b => owningBufferRecycler'[c] = owningBufferRecycler[c]
    BY <1>1, Zenon DEF Prepare, BufferInv, TypeOK
  <2>2. ASSUME NEW u \in Threads, u # s
        PROVE  (u \in Sources => SourceFits(u)') /\ (u \in Workers => WorkerFits(u)')
    <3>1. held'[u] = held[u] /\ todo'[u] = todo[u] /\ space' = space
      BY <1>1, <1>2, <2>2, Zenon DEF BufferInv, TypeOK, unpooled
    <3>2. \A c \in Buffers : held[u][c] > 0 => owningBufferRecycler'[c] = owningBufferRecycler[c]
      BY <1>6, <2>1
    <3> QED
      BY <1>7, <2>2, <3>1, <3>2, FitsKept, Zenon DEF BufferInv
  <2>3. SourceFits(s)'
    <3>1. held[s] = Nothing
      BY <1>2, Zenon DEF BufferInv, ThreadsFit, SourceFits
    <3>2. held'[s] = [Nothing EXCEPT ![b] = 2]
      BY <1>1, <1>3, <3>1, Zenon DEF BufferInv, TypeOK
    <3> QED
      BY <1>2, <1>3, <1>7, <3>2, Zenon DEF SourceFits, Holding, Nothing
  <2> QED
    BY <2>2, <2>3, BufferPoolsAssumption, Zenon DEF ThreadsFit, Threads
<1>11. availableBuffers' = IF x[1] = "available" THEN availableBuffers \ {b} ELSE availableBuffers
  BY <1>2, <1>5, Zenon
<1>12. x[1] \in {"available", "pool"} /\ 2 \in {1, 2} /\ UNCHANGED <<children, tasks, todo, unpooled>>
  BY <1>2, <1>5, Zenon
<1> QED
  BY <1>1, <1>3, <1>5, <1>7, <1>8, <1>9, <1>10, <1>11, <1>12, TakeBuffer, ZenonT(60)

LEMMA GetBufferInv ==
  ASSUME BufferInv, NEW w \in Workers, GetBuffer(w)
  PROVE  BufferInv'
<1>1. PICK b \in availableBuffers :
        availableBuffers' = availableBuffers \ {b} /\ Prepare(b, Global, 1) /\ held' = [held EXCEPT ![w][b] = 1]
  BY Zenon DEF GetBuffer
<1>2. /\ UNCHANGED <<children, tasks, todo, unpooled, exclusiveBuffers>> /\ pc' = [pc EXCEPT ![w] = "took"]
      /\ pc[w] = "work" /\ todo[w] = <<>>
  BY Zenon DEF GetBuffer, At, Goto
<1>3. b \in Segments /\ b \in Buffers /\ w \in Threads /\ Global \in Recyclers
  BY <1>1, Zenon DEF BufferInv, TypeOK, Buffers, Threads, Recyclers
<1>4. PICK x : x = <<"available", Global, 0>>
  BY Zenon
<1>5. x \in Places(b) /\ x[1] = "available" /\ x[1] # "use"
  BY <1>1, <1>4, Zenon DEF Places
<1>6. \A u \in Threads : held[u][b] = 0
  BY <1>3, <1>5, Free, Zenon
<1>7. pc' \in [Threads -> Labels] /\ pc'[w] = "took" /\ \A u \in Threads : u # w => pc'[u] = pc[u]
  BY <1>2, <1>3, Zenon DEF BufferInv, TypeOK, Labels
<1>8. \A r \in Sources : exclusiveBuffers'[r] = IF x = <<"pool", r, 0>> THEN exclusiveBuffers[r] \ {b}
                                                                      ELSE exclusiveBuffers[r]
  BY <1>2, <1>4, Zenon
<1>9. exclusiveBuffers' \in [Sources -> SUBSET Segments]
  BY <1>2, Zenon DEF BufferInv, TypeOK
<1>10. ThreadsFit'
  <2>1. owningBufferRecycler'[b] = Global
        /\ \A c \in Buffers : c # b => owningBufferRecycler'[c] = owningBufferRecycler[c]
    BY <1>1, <1>3, Zenon DEF Prepare, BufferInv, TypeOK
  <2>2. ASSUME NEW u \in Threads, u # w
        PROVE  (u \in Sources => SourceFits(u)') /\ (u \in Workers => WorkerFits(u)')
    <3>1. held'[u] = held[u] /\ todo'[u] = todo[u] /\ space' = space
      BY <1>1, <1>2, <2>2, Zenon DEF BufferInv, TypeOK, unpooled
    <3>2. \A c \in Buffers : held[u][c] > 0 => owningBufferRecycler'[c] = owningBufferRecycler[c]
      BY <1>6, <2>1
    <3> QED
      BY <1>7, <2>2, <3>1, <3>2, FitsKept, ZenonT(30) DEF BufferInv
  <2>3. WorkerFits(w)'
    <3>1. PICK a \in Buffers : Holding(w, a, 1) /\ owningBufferRecycler[a] # Global
      BY <1>2, Zenon DEF BufferInv, ThreadsFit, WorkerFits
    <3>2. a # b
      BY <1>3, <1>6, <3>1 DEF Holding, Nothing
    <3>3. HoldingTwo(w, a, b)'
      BY <1>1, <1>3, <3>1, <3>2, Zenon DEF BufferInv, TypeOK, Holding, HoldingTwo, Nothing
    <3>4. owningBufferRecycler'[a] # Global
      BY <2>1, <3>1, <3>2, Zenon
    <3>5. space'[w] = NoSpace
      BY <1>2, Zenon DEF BufferInv, ThreadsFit, WorkerFits, unpooled
    <3> QED
      BY <1>2, <1>3, <1>7, <2>1, <3>3, <3>4, <3>5, ZenonT(30) DEF WorkerFits
  <2> QED
    BY <2>2, <2>3, BufferPoolsAssumption, Zenon DEF ThreadsFit, Threads
<1>11. availableBuffers' = IF x[1] = "available" THEN availableBuffers \ {b} ELSE availableBuffers
  BY <1>1, <1>5, Zenon
<1>12. x[1] \in {"available", "pool"} /\ 1 \in {1, 2} /\ UNCHANGED <<children, tasks, todo, unpooled>>
  BY <1>2, <1>5, Zenon
<1> QED
  BY <1>1, <1>3, <1>5, <1>7, <1>8, <1>9, <1>10, <1>11, <1>12, TakeBuffer, Zenon

----------------------------------------------------------------------------
(* The steps of a stack.                                                    *)

TopToken(t) == <<"todo", t, Len(todo[t])>>

(* What is the same whichever step a thread takes from its stack.           *)
LEMMA StackFrame ==
  ASSUME BufferInv, NEW t \in Threads, todo[t] # <<>>, NEW steps \in Seq(Steps), Then(t, steps),
         \A j \in 1..Len(steps) :
           /\ steps[j].what = "local" => steps[j].buffer \in Segments /\ steps[j].pool \in Sources
           /\ steps[j].what = "global" => steps[j].buffer \in Segments
           /\ steps[j].what = "chunk" => steps[j].buffer \in Unpooled,
         UNCHANGED <<pc, held, space>>,
         \A u \in Threads : \A b \in Buffers :
           held[u][b] > 0 => owningBufferRecycler'[b] = owningBufferRecycler[b]
  PROVE  /\ todo' \in [Threads -> Seq(Steps)] /\ StepsFit' /\ ThreadsFit'
         /\ \A K, b : Pending(K, b)' =
              (Pending(K, b) \ {TopToken(t)}) \cup
                {<<"todo", t, Len(todo[t]) - 1 + j>> :
                   j \in {i \in 1..Len(steps) : steps[i].what \in K /\ steps[i].buffer = b}}
<1>1. TypeOK /\ StepsFit /\ ThreadsFit /\ Len(todo[t]) \in Nat \ {0}
  BY DEF BufferInv, TypeOK
<1>2. PICK m \in Nat : m = Len(todo[t]) - 1
  BY <1>1
<1>3. Replaced(t, m, steps)
  BY <1>1, <1>2, PopSteps, Zenon
<1>4. TopToken(t) = <<"todo", t, m + 1>>
  BY <1>1, <1>2, SMTT(30) DEF TopToken
<1>5. \A K, b : Pending(K, b)' =
        (Pending(K, b) \ {TopToken(t)}) \cup
          {<<"todo", t, m + j>> : j \in {i \in 1..Len(steps) : steps[i].what \in K /\ steps[i].buffer = b}}
  BY <1>1, <1>3, <1>4, PendingAfter
<1>6. StepsFit'
  BY <1>1, <1>3, StepsFitAfter, Zenon
<1>7. ASSUME NEW u \in Threads
      PROVE  (u \in Sources => SourceFits(u)') /\ (u \in Workers => WorkerFits(u)')
  <2>1. todo'[u] = todo[u] \/ todo[u] # <<>>
    BY <1>3, Zenon DEF Replaced
  <2> QED
    BY <1>1, <2>1, FitsKept, Zenon
<1>8. ThreadsFit'
  BY <1>7, Zenon DEF ThreadsFit, Threads
<1> QED
  BY <1>2, <1>3, <1>5, <1>6, <1>8, SMTT(90) DEF Replaced

LEMMA StackEmpty ==
  ASSUME BufferInv, NEW t \in Threads, todo[t] # <<>>, Then(t, <<>>), UNCHANGED <<pc, held, space, owningBufferRecycler>>
  PROVE  /\ todo' \in [Threads -> Seq(Steps)] /\ StepsFit' /\ ThreadsFit'
         /\ \A K, b : Pending(K, b)' = Pending(K, b) \ {TopToken(t)}
<1>1. PICK steps : steps = <<>>
  BY Zenon
<1>2. steps \in Seq(Steps) /\ 1..Len(steps) = {} /\ Then(t, steps)
  BY <1>1
<1>3. /\ todo' \in [Threads -> Seq(Steps)] /\ StepsFit' /\ ThreadsFit'
      /\ \A K, b : Pending(K, b)' =
           (Pending(K, b) \ {TopToken(t)}) \cup
             {<<"todo", t, Len(todo[t]) - 1 + j>> :
                j \in {i \in 1..Len(steps) : steps[i].what \in K /\ steps[i].buffer = b}}
  BY <1>2, StackFrame, Zenon
<1> QED
  BY <1>2, <1>3, Zenon

LEMMA StackOne ==
  ASSUME BufferInv, NEW t \in Threads, todo[t] # <<>>, NEW x \in Steps, Then(t, <<x>>), UNCHANGED <<pc, held, space>>,
         x.what = "local" => x.buffer \in Segments /\ x.pool \in Sources,
         x.what = "global" => x.buffer \in Segments,
         x.what = "chunk" => x.buffer \in Unpooled,
         \A u \in Threads : \A b \in Buffers :
           held[u][b] > 0 => owningBufferRecycler'[b] = owningBufferRecycler[b]
  PROVE  /\ todo' \in [Threads -> Seq(Steps)] /\ StepsFit' /\ ThreadsFit'
         /\ \A K, b : Pending(K, b)' = (Pending(K, b) \ {TopToken(t)})
              \cup (IF x.what \in K /\ x.buffer = b THEN {TopToken(t)} ELSE {})
<1>1. PICK steps : steps = <<x>>
  BY Zenon
<1>2. steps \in Seq(Steps) /\ 1..Len(steps) = {1} /\ steps[1] = x /\ Then(t, steps)
  BY <1>1
<1>3. /\ todo' \in [Threads -> Seq(Steps)] /\ StepsFit' /\ ThreadsFit'
      /\ \A K, b : Pending(K, b)' =
           (Pending(K, b) \ {TopToken(t)}) \cup
             {<<"todo", t, Len(todo[t]) - 1 + j>> :
                j \in {i \in 1..Len(steps) : steps[i].what \in K /\ steps[i].buffer = b}}
  BY <1>2, StackFrame, Zenon
<1>4. Len(todo[t]) - 1 + 1 = Len(todo[t])
  BY DEF BufferInv, TypeOK
<1>5. ASSUME NEW K, NEW b
      PROVE  {<<"todo", t, Len(todo[t]) - 1 + j>> :
                j \in {i \in 1..Len(steps) : steps[i].what \in K /\ steps[i].buffer = b}}
               = IF x.what \in K /\ x.buffer = b THEN {TopToken(t)} ELSE {}
  BY <1>2, <1>4, Zenon DEF TopToken
<1> QED
  BY <1>3, <1>5, ZenonT(30)

(* The buffer a step on a stack is about to return.                         *)
LEMMA OnTheWay ==
  ASSUME BufferInv, NEW t \in Threads, NEW what \in Moving, Doing(t, what), NEW b, b = Top(t).buffer
  PROVE  /\ b \in Buffers /\ Places(b) = {TopToken(t)} /\ referenceCounter[b] = 0
         /\ \A u \in Threads : held[u][b] = 0
         /\ what # "recycle" => owningBufferRecycler[b] = Null
         /\ \A K, c : TopToken(t) \in Pending(K, c) <=> what \in K /\ c = b
         /\ b \notin availableBuffers /\ Pending(Moving, b) = {TopToken(t)}
         /\ \A s \in Sources : b \notin exclusiveBuffers[s]
         /\ \A w \in Workers : space[w] # b
<1>1. b \in Buffers /\ \A K, c : TopToken(t) \in Pending(K, c) <=> what \in K /\ c = b
  BY TopFacts, Zenon DEF BufferInv, TopToken
<1>2. PICK x : x = TopToken(t)
  BY Zenon
<1>3. /\ x[1] = "todo" /\ x[1] # "use" /\ x # <<"available", Global, 0>>
      /\ \A s : x # <<"pool", s, 0>> /\ x # <<"space", s, 0>>
  BY <1>2, Zenon DEF TopToken
<1>4. x \in Pending(Moving, b) /\ x \in Places(b)
  BY <1>1, <1>2, Zenon DEF Places, Moving
<1>5. Places(b) = {x} /\ referenceCounter[b] = 0 /\ (\A u \in Threads : held[u][b] = 0)
      /\ (x \notin Pending({"recycle"}, b) => owningBufferRecycler[b] = Null)
  BY <1>1, <1>3, <1>4, Free, Zenon
<1>6. /\ b \notin availableBuffers /\ (\A s \in Sources : b \notin exclusiveBuffers[s])
      /\ (\A w \in Workers : space[w] # b) /\ Pending(Moving, b) \subseteq {x}
  BY <1>1, <1>3, <1>5, Alone DEF BufferInv
<1> QED
  BY <1>1, <1>2, <1>4, <1>5, <1>6

LEMMA RecycleInv ==
  ASSUME BufferInv, NEW t \in Threads, Recycle(t)
  PROVE  BufferInv'
<1>1. PICK b : b = Top(t).buffer
  BY Zenon
<1>2. /\ Doing(t, "recycle") /\ todo[t] # <<>> /\ Then(t, recyclePooledBuffer(b)) /\ owningBufferRecycler' = [owningBufferRecycler EXCEPT ![b] = Null]
      /\ UNCHANGED <<referenceCounter, children, pooled, unpooled, pc, held, tasks, failed>>
  BY <1>1, Zenon DEF Recycle, MoveRecycler, Doing
<1>3. /\ b \in Buffers /\ (\A u \in Threads : held[u][b] = 0)
      /\ (\A K, c : TopToken(t) \in Pending(K, c) <=> "recycle" \in K /\ c = b)
  BY <1>1, <1>2, OnTheWay DEF Moving
<1>4. PICK x \in Steps :
        /\ recyclePooledBuffer(b) = <<x>> /\ x.buffer = b /\ x.what \in {"local", "global", "chunk"}
        /\ x.what = "local" => x.buffer \in Segments /\ x.pool \in Sources
        /\ x.what = "global" => x.buffer \in Segments
        /\ x.what = "chunk" => x.buffer \in Unpooled
  <2>1. CASE b \in Unpooled
    <3>1. PICK x : x = Step("chunk", b)
      BY Zenon
    <3>2. x = [what |-> "chunk", buffer |-> b, pool |-> Null]
      BY <3>1, Zenon DEF Step
    <3>3. x \in Steps
      BY <1>3, <3>2, Zenon DEF Steps
    <3>4. recyclePooledBuffer(b) = <<x>>
      BY <2>1, <3>1, BufferPoolsAssumption, Zenon DEF recyclePooledBuffer
    <3> QED
      BY <2>1, <3>2, <3>3, <3>4, Zenon
  <2>2. PICK owner : owner = owningBufferRecycler[b]
    BY Zenon
  <2>3. CASE b \notin Unpooled /\ owner \in Sources /\ ~ isDestroyed[owner]
    <3>1. PICK x : x = [Step("local", b) EXCEPT !.pool = owner]
      BY Zenon
    <3>2. x = [what |-> "local", buffer |-> b, pool |-> owner]
      BY <3>1, Zenon DEF Step
    <3>3. recyclePooledBuffer(b) = <<x>>
      BY <1>3, <2>2, <2>3, <3>1, Zenon DEF recyclePooledBuffer, Buffers
    <3>4. x \in Steps /\ b \in Segments
      BY <1>3, <2>3, <3>2, Zenon DEF Steps, Buffers
    <3> QED
      BY <2>3, <3>2, <3>3, <3>4, Zenon
  <2>4. CASE b \notin Unpooled /\ ~ (owner \in Sources /\ ~ isDestroyed[owner])
    BY <1>3, <2>2, <2>4 DEF recyclePooledBuffer, Step, Steps, Buffers
  <2> QED
    BY <2>1, <2>3, <2>4, Zenon
<1>5. \A c \in Buffers : c # b => owningBufferRecycler'[c] = owningBufferRecycler[c]
  BY <1>2, Zenon DEF BufferInv, TypeOK
<1>6. \A u \in Threads : \A c \in Buffers : held[u][c] > 0 => owningBufferRecycler'[c] = owningBufferRecycler[c]
  BY <1>3, <1>5, SMTT(30)
<1>7. /\ todo' \in [Threads -> Seq(Steps)] /\ StepsFit' /\ ThreadsFit'
      /\ \A K, c : Pending(K, c)' = (Pending(K, c) \ {TopToken(t)})
           \cup (IF x.what \in K /\ x.buffer = c THEN {TopToken(t)} ELSE {})
  BY <1>2, <1>4, <1>6, StackOne DEF unpooled
<1>8. TypeOK'
  <2>1. owningBufferRecycler' \in [Buffers -> Recyclers]
    BY <1>2, Zenon DEF BufferInv, TypeOK, Recyclers
  <2> QED
    BY <1>2, <1>7, <2>1, Zenon DEF BufferInv, TypeOK, pooled, unpooled
<1>9. ASSUME NEW K, NEW c, ("recycle" \in K <=> x.what \in K) \/ c # b
      PROVE  Pending(K, c)' = Pending(K, c)
  <2>1. Pending(K, c)' = (Pending(K, c) \ {TopToken(t)}) \cup (IF x.what \in K /\ x.buffer = c THEN {TopToken(t)} ELSE {})
    BY <1>7, Zenon
  <2>2. CASE c = b /\ "recycle" \in K
    BY <1>3, <1>4, <1>9, <2>1, <2>2, SMTT(30)
  <2>3. CASE ~ (c = b /\ "recycle" \in K)
    BY <1>3, <1>4, <1>9, <2>1, <2>3
  <2> QED
    BY <2>2, <2>3, Zenon
<1>10. HandlesFit'
  <2>1. \A c : Pending({"release"}, c)' = Pending({"release"}, c)
    BY <1>4, <1>9, Zenon
  <2> QED
    BY <1>2, <2>1, HandlesKept, Zenon DEF BufferInv
<1>11. RecyclersFit'
  <2>1. \A c \in Buffers : c # b => Pending({"recycle"}, c)' = Pending({"recycle"}, c)
    BY <1>9, Zenon
  <2>2. owningBufferRecycler'[b] = Null
    BY <1>2, <1>3, Zenon DEF BufferInv, TypeOK
  <2> QED
    BY <1>2, <1>5, <2>1, <2>2, Zenon DEF BufferInv, RecyclersFit
<1>12. \A c \in Buffers : Places(c)' = Places(c)
  <2>1. \A c : Pending(Moving, c)' = Pending(Moving, c)
    BY <1>4, <1>9, Zenon DEF Moving
  <2> QED
    BY <1>2, <2>1, PlacesSame, Zenon DEF pooled, unpooled
<1>13. OnePlace' /\ ChunksFit' /\ ChunksCounted'
  BY <1>2, <1>12, PlacesStay, Zenon DEF BufferInv, unpooled
<1> QED
  BY <1>2, <1>7, <1>8, <1>10, <1>11, <1>13, Zenon DEF BufferInv, InvariantsHold

LEMMA RecycleLocalInv ==
  ASSUME BufferInv, NEW t \in Threads, RecycleLocal(t)
  PROVE  BufferInv'
<1>1. PICK b, s : b = Top(t).buffer /\ s = Top(t).pool
  BY Zenon
<1>2. /\ Doing(t, "local") /\ todo[t] # <<>> /\ Then(t, <<>>)
      /\ exclusiveBuffers' = [exclusiveBuffers EXCEPT ![s] = @ \cup {b}]
      /\ failed' = (failed \/ referenceCounter[b] # 0)
      /\ UNCHANGED <<counting, availableBuffers, unpooled, pc, held, tasks>>
  BY <1>1, Zenon DEF RecycleLocal, Doing
<1>3. b \in Segments /\ s \in Sources
  BY <1>1, <1>2, TopFacts, Zenon DEF BufferInv, StepsFit, Top
<1>4. /\ b \in Buffers /\ referenceCounter[b] = 0 /\ Places(b) = {TopToken(t)}
      /\ (\A K, c : TopToken(t) \in Pending(K, c) <=> "local" \in K /\ c = b)
      /\ b \notin availableBuffers /\ (\A r \in Sources : b \notin exclusiveBuffers[r]) /\ (\A w \in Workers : space[w] # b)
      /\ Pending(Moving, b) = {TopToken(t)}
  BY <1>1, <1>2, OnTheWay DEF Moving
<1>5. /\ todo' \in [Threads -> Seq(Steps)] /\ StepsFit' /\ ThreadsFit'
      /\ \A K, c : Pending(K, c)' = Pending(K, c) \ {TopToken(t)}
  BY <1>2, StackEmpty, Zenon DEF unpooled, counting
<1>6. TypeOK' /\ ~ failed'
  <2>1. exclusiveBuffers' \in [Sources -> SUBSET Segments]
    BY <1>2, <1>3, Zenon DEF BufferInv, TypeOK
  <2>2. ~ failed'
    BY <1>2, <1>4, Zenon DEF BufferInv, InvariantsHold
  <2> QED
    BY <1>2, <1>5, <2>1, <2>2, Zenon DEF BufferInv, TypeOK, counting, unpooled
<1>7. \A K, c : "local" \notin K \/ c # b => Pending(K, c)' = Pending(K, c)
  BY <1>4, <1>5, ZenonT(30)
<1>8. HandlesFit'
  BY <1>2, <1>7, HandlesKept, Zenon DEF BufferInv, counting
<1>9. RecyclersFit'
  BY <1>2, <1>7, Zenon DEF BufferInv, RecyclersFit, counting
<1>10. Places(b)' = {<<"pool", s, 0>>}
  <2>1. Pending(Moving, b)' = {}
    BY <1>4, <1>5, Zenon
  <2>2. \A r \in Sources : b \in exclusiveBuffers'[r] <=> r = s
    BY <1>2, <1>3, <1>4, Zenon DEF BufferInv, TypeOK
  <2> QED
    BY <1>2, <1>3, <1>4, <2>1, <2>2 DEF Places, Moving, counting, unpooled
<1>11. ASSUME NEW c \in Buffers, c # b
       PROVE  Places(c)' = Places(c)
  <2>1. \A r \in Sources : c \in exclusiveBuffers'[r] <=> c \in exclusiveBuffers[r]
    BY <1>2, <1>11, Zenon DEF BufferInv, TypeOK
  <2> QED
    BY <1>2, <1>7, <1>11, <2>1, Zenon DEF Places, Moving, counting, unpooled
<1>12. OnePlace' /\ ChunksFit' /\ ChunksCounted'
  BY <1>2, <1>4, <1>10, <1>11, PlacesMoved, Zenon DEF BufferInv, unpooled
<1> QED
  BY <1>5, <1>6, <1>8, <1>9, <1>12, Zenon DEF BufferInv, InvariantsHold

LEMMA RecycleGlobalInv ==
  ASSUME BufferInv, NEW t \in Threads, RecycleGlobal(t)
  PROVE  BufferInv'
<1>1. CASE Doing(t, "global")
  <2>1. PICK b : b = Top(t).buffer
    BY Zenon
  <2>2. /\ todo[t] # <<>> /\ Then(t, <<Step("count", b)>>)
        /\ availableBuffers' = availableBuffers \cup {b}
        /\ failed' = (failed \/ referenceCounter[b] # 0 \/ owningBufferRecycler[b] # Null)
        /\ UNCHANGED <<counting, exclusiveBuffers, unpooled, pc, held, tasks>>
    BY <1>1, <2>1, Zenon DEF RecycleGlobal, Doing
  <2>3. b \in Segments
    BY <1>1, <2>1, TopFacts, ZenonT(30) DEF BufferInv, StepsFit, Top
  <2>4. /\ b \in Buffers /\ referenceCounter[b] = 0 /\ Places(b) = {TopToken(t)} /\ owningBufferRecycler[b] = Null
        /\ (\A K, c : TopToken(t) \in Pending(K, c) <=> "global" \in K /\ c = b)
        /\ b \notin availableBuffers /\ (\A r \in Sources : b \notin exclusiveBuffers[r]) /\ (\A w \in Workers : space[w] # b)
        /\ Pending(Moving, b) = {TopToken(t)}
    BY <1>1, <2>1, OnTheWay DEF Moving
  <2>5. PICK x \in Steps : x = Step("count", b)
    BY <2>4, Zenon DEF Step, Steps
  <2>6. x.what = "count" /\ x.buffer = b /\ Then(t, <<x>>)
    BY <2>2, <2>5, Zenon DEF Step
  <2>7. /\ todo' \in [Threads -> Seq(Steps)] /\ StepsFit' /\ ThreadsFit'
        /\ \A K, c : Pending(K, c)' = (Pending(K, c) \ {TopToken(t)})
             \cup (IF x.what \in K /\ x.buffer = c THEN {TopToken(t)} ELSE {})
    BY <2>2, <2>6, StackOne, Zenon DEF unpooled, counting
  <2>8. TypeOK' /\ ~ failed'
    BY <2>2, <2>3, <2>4, <2>7, Zenon DEF BufferInv, TypeOK, InvariantsHold, counting, unpooled
  <2>9. ASSUME NEW K, NEW c, ("global" \notin K /\ "count" \notin K) \/ c # b
        PROVE  Pending(K, c)' = Pending(K, c)
    <3>1. Pending(K, c)' = (Pending(K, c) \ {TopToken(t)}) \cup (IF x.what \in K /\ x.buffer = c THEN {TopToken(t)} ELSE {})
      BY <2>7, Zenon
    <3> QED
      BY <2>4, <2>6, <2>9, <3>1
  <2>10. HandlesFit'
    BY <2>2, <2>9, HandlesKept, Zenon DEF BufferInv, counting
  <2>11. RecyclersFit'
    BY <2>2, <2>9, Zenon DEF BufferInv, RecyclersFit, counting
  <2>12. Places(b)' = {<<"available", Global, 0>>}
    <3>1. Pending(Moving, b)' = {}
      BY <2>4, <2>6, <2>7, Zenon DEF Moving
    <3> QED
      BY <2>2, <2>4, <3>1, SMTT(30) DEF Places, Moving, counting, unpooled
  <2>13. ASSUME NEW c \in Buffers, c # b
         PROVE  Places(c)' = Places(c)
    BY <2>2, <2>9, <2>13, Zenon DEF Places, Moving, counting, unpooled
  <2>14. OnePlace' /\ ChunksFit' /\ ChunksCounted'
    BY <2>2, <2>4, <2>12, <2>13, PlacesMoved, Zenon DEF BufferInv, unpooled
  <2> QED
    BY <2>7, <2>8, <2>10, <2>11, <2>14, Zenon DEF BufferInv, InvariantsHold
<1>2. CASE Doing(t, "count") /\ ~ Doing(t, "global")
  <2>1. /\ todo[t] # <<>> /\ Then(t, <<>>)
        /\ UNCHANGED <<counting, availableBuffers, exclusiveBuffers, unpooled, pc, held, tasks, failed>>
    BY <1>2, Zenon DEF RecycleGlobal, Doing
  <2>2. \A K, c : TopToken(t) \in Pending(K, c) => "count" \in K
    BY <1>2, TopFacts, Zenon DEF BufferInv, TopToken
  <2>3. /\ todo' \in [Threads -> Seq(Steps)] /\ StepsFit' /\ ThreadsFit'
        /\ \A K, c : Pending(K, c)' = Pending(K, c) \ {TopToken(t)}
    BY <2>1, StackEmpty, Zenon DEF unpooled, counting
  <2>4. \A K, c : "count" \notin K => Pending(K, c)' = Pending(K, c)
    BY <2>2, <2>3, Zenon
  <2>5. TypeOK'
    BY <2>1, <2>3, Zenon DEF BufferInv, TypeOK, counting, unpooled
  <2>6. HandlesFit'
    BY <2>1, <2>4, HandlesKept, Zenon DEF BufferInv, counting
  <2>7. RecyclersFit'
    BY <2>1, <2>4, Zenon DEF BufferInv, RecyclersFit, counting
  <2>8. \A c \in Buffers : Places(c)' = Places(c)
    BY <2>1, <2>4, PlacesSame, Zenon DEF Moving, counting, unpooled
  <2>9. OnePlace' /\ ChunksFit' /\ ChunksCounted'
    BY <2>1, <2>8, PlacesStay, Zenon DEF BufferInv, unpooled
  <2> QED
    BY <2>1, <2>3, <2>5, <2>6, <2>7, <2>9, Zenon DEF BufferInv, InvariantsHold
<1> QED
  BY <1>1, <1>2, Zenon DEF RecycleGlobal

LEMMA DrainPoolInv ==
  ASSUME BufferInv, NEW s \in Sources, DrainPool(s)
  PROVE  BufferInv'
<1>1. CASE exclusiveBuffers[s] = {} /\ Goto(s, "ended") /\ UNCHANGED <<exclusiveBuffers, todo>>
  BY <1>1, SourceSteps, Zenon DEF DrainPool
<1>2. CASE \E b \in exclusiveBuffers[s] :
             /\ exclusiveBuffers' = [exclusiveBuffers EXCEPT ![s] = @ \ {b}]
             /\ todo' = [todo EXCEPT ![s] = <<Step("global", b)>>]
             /\ UNCHANGED pc
  <2>1. PICK b \in exclusiveBuffers[s] :
          /\ exclusiveBuffers' = [exclusiveBuffers EXCEPT ![s] = @ \ {b}]
          /\ todo' = [todo EXCEPT ![s] = <<Step("global", b)>>]
    BY <1>2, Zenon
  <2>2. /\ UNCHANGED <<counting, availableBuffers, unpooled, pc, held, tasks, failed>>
        /\ todo[s] = <<>> /\ pc[s] = "drain"
    BY <1>2, Zenon DEF DrainPool, At
  <2>3. b \in Segments /\ b \in Buffers /\ s \in Threads
    BY <2>1, Zenon DEF BufferInv, TypeOK, Buffers, Threads
  <2>4. PICK x, steps, y : x = Step("global", b) /\ steps = <<x>> /\ y = <<"pool", s, 0>>
    BY Zenon
  <2>5. x \in Steps /\ x.what = "global" /\ x.buffer = b
    BY <2>3, <2>4, Zenon DEF Step, Steps
  <2>6. steps \in Seq(Steps) /\ 1..Len(steps) = {1} /\ steps[1] = x /\ todo' = [todo EXCEPT ![s] = steps]
    BY <2>1, <2>4, <2>5
  <2>7. Replaced(s, 0, steps)
    BY <2>2, <2>3, <2>6, PushSteps, Zenon DEF BufferInv
  <2>8. todo' \in [Threads -> Seq(Steps)] /\ \A u \in Threads : u # s => todo'[u] = todo[u]
    BY <2>7, Zenon DEF Replaced
  <2>9. StepsFit'
    BY <2>3, <2>5, <2>6, <2>7, StepsFitAfter, ZenonT(30) DEF BufferInv
  <2>10. /\ y[1] # "use" /\ y[1] # "todo" /\ y # <<"available", Global, 0>> /\ y # <<"use", b, 0>>
         /\ (\A r : r # s => y # <<"pool", r, 0>>) /\ (\A w : y # <<"space", w, 0>>)
         /\ y \in Places(b)
    BY <2>1, <2>4, Zenon DEF Places
  <2>11. Places(b) = {y} /\ referenceCounter[b] = 0
    BY <2>3, <2>10, Free, Zenon
  <2>12. /\ b \notin availableBuffers /\ (\A r \in Sources : r # s => b \notin exclusiveBuffers[r])
         /\ (\A w \in Workers : space[w] # b) /\ Pending(Moving, b) = {}
    BY <2>3, <2>10, <2>11, Alone, SMTT(30) DEF BufferInv
  <2>13. ASSUME NEW K, NEW c
         PROVE  Pending(K, c)' = Pending(K, c) \cup (IF "global" \in K /\ c = b THEN {<<"todo", s, 1>>} ELSE {})
    <3>1. Pending(K, c)' = (Pending(K, c) \ {<<"todo", s, 0 + 1>>}) \cup
            {<<"todo", s, 0 + j>> : j \in {i \in 1..Len(steps) : steps[i].what \in K /\ steps[i].buffer = c}}
      BY <2>3, <2>6, <2>7, PendingAfter DEF BufferInv
    <3>2. <<"todo", s, 1>> \notin Pending(K, c)
      BY <2>2 DEF Pending
    <3> QED
      BY <2>5, <2>6, <3>1, <3>2, SMTT(30)
  <2>14. TypeOK'
    <3>1. exclusiveBuffers' \in [Sources -> SUBSET Segments]
      BY <2>1, Zenon DEF BufferInv, TypeOK
    <3> QED
      BY <2>2, <2>8, <3>1, Zenon DEF BufferInv, TypeOK, counting, unpooled
  <2>15. ThreadsFit'
    <3>1. \A u \in Threads : u # s => (u \in Sources => SourceFits(u)') /\ (u \in Workers => WorkerFits(u)')
      BY <2>2, <2>8, FitsKept, Zenon DEF BufferInv, counting, unpooled
    <3>2. SourceFits(s)'
      BY <2>2, Zenon DEF BufferInv, ThreadsFit, SourceFits, Nothing
    <3> QED
      BY <3>1, <3>2, BufferPoolsAssumption, Zenon DEF ThreadsFit, Threads
  <2>16. HandlesFit'
    <3>1. \A c : Pending({"release"}, c)' = Pending({"release"}, c)
      BY <2>13, Zenon
    <3> QED
      BY <2>2, <3>1, HandlesKept, Zenon DEF BufferInv, counting
  <2>17. RecyclersFit'
    <3>1. \A c : Pending({"recycle"}, c)' = Pending({"recycle"}, c)
      BY <2>13, Zenon
    <3> QED
      BY <2>2, <3>1, Zenon DEF BufferInv, RecyclersFit, counting
  <2>18. Places(b)' = {<<"todo", s, 1>>}
    <3>1. Pending(Moving, b)' = {<<"todo", s, 1>>}
      BY <2>12, <2>13, Zenon DEF Moving
    <3>2. \A r \in Sources : b \notin exclusiveBuffers'[r]
      BY <2>1, <2>12, Zenon DEF BufferInv, TypeOK
    <3> QED
      BY <2>2, <2>11, <2>12, <3>1, <3>2 DEF Places, Moving, counting, unpooled
  <2>19. ASSUME NEW c \in Buffers, c # b
         PROVE  Places(c)' = Places(c)
    <3>1. Pending(Moving, c)' = Pending(Moving, c)
      BY <2>13, <2>19, Zenon
    <3>2. \A r \in Sources : c \in exclusiveBuffers'[r] <=> c \in exclusiveBuffers[r]
      BY <2>1, <2>19, Zenon DEF BufferInv, TypeOK
    <3> QED
      BY <2>2, <3>1, <3>2, Zenon DEF Places, Moving, counting, unpooled
  <2>20. OnePlace' /\ ChunksFit' /\ ChunksCounted'
    BY <2>2, <2>11, <2>18, <2>19, PlacesMoved, Zenon DEF BufferInv, unpooled
  <2> QED
    BY <2>2, <2>9, <2>14, <2>15, <2>16, <2>17, <2>20, Zenon DEF BufferInv, InvariantsHold
<1> QED
  BY <1>1, <1>2, Zenon DEF DrainPool

----------------------------------------------------------------------------
(* TupleBuffers that move between threads, tasks and stacks.                *)

LEMMA TasksAfter ==
  ASSUME TypeOK, NEW b \in Buffers, NEW k \in Nat, tasks' = [tasks EXCEPT ![b] = @ + k]
  PROVE  /\ InTasks(b)' = InTasks(b) \cup Tokens("task", b, tasks[b], k)
         /\ InTasks(b) \cap Tokens("task", b, tasks[b], k) = {}
         /\ \A c \in Buffers : c # b => InTasks(c)' = InTasks(c)
         /\ tasks' \in [Buffers -> Nat]
<1>1. tasks[b] \in Nat /\ tasks'[b] = tasks[b] + k /\ \A c \in Buffers : c # b => tasks'[c] = tasks[c]
  BY Zenon DEF TypeOK
<1>2. ASSUME NEW i \in 1..tasks[b] + k
      PROVE  i \in 1..tasks[b] \/ \E j \in 1..k : i = tasks[b] + j
  <2>1. CASE i > tasks[b]
    <3>1. i - tasks[b] \in 1..k /\ i = tasks[b] + (i - tasks[b])
      BY <1>1, <2>1
    <3> QED
      BY <3>1, Zenon
  <2> QED
    BY <1>1, <2>1
<1>3. InTasks(b)' = InTasks(b) \cup Tokens("task", b, tasks[b], k)
  BY <1>1, <1>2 DEF InTasks, Tokens
<1>4. InTasks(b) \cap Tokens("task", b, tasks[b], k) = {}
  BY <1>1 DEF InTasks, Tokens
<1>5. \A c \in Buffers : c # b => InTasks(c)' = InTasks(c)
  BY <1>1, Zenon DEF InTasks
<1>6. tasks' \in [Buffers -> Nat]
  BY <1>1 DEF TypeOK
<1> QED
  BY <1>3, <1>4, <1>5, <1>6, Zenon

LEMMA TokenKind ==
  ASSUME NEW kind, NEW y, NEW m, NEW n
  PROVE  /\ \A x \in Tokens(kind, y, m, n) : x[1] = kind
         /\ n = 0 => Tokens(kind, y, m, n) = {}
  BY DEF Tokens

(* A thread drops its n TupleBuffers of b, after a copy into k tasks.       *)
LEMMA DropHandles ==
  ASSUME TypeOK, HandlesFit, NEW t \in Threads, NEW b \in Buffers, NEW n \in Nat, NEW k \in Nat,
         held[t][b] = n, \A c \in Buffers : c # b => held[t][c] = 0, \A c \in Buffers : held'[t][c] = 0,
         held' \in [Threads -> [Buffers -> Nat]], \A u \in Threads : u # t => held'[u] = held[u],
         \A c \in Buffers : c # b => InTasks(c)' = InTasks(c) /\ Pending({"release"}, c)' = Pending({"release"}, c),
         InTasks(b)' = InTasks(b) \cup Tokens("task", b, tasks[b], k),
         InTasks(b) \cap Tokens("task", b, tasks[b], k) = {},
         Pending({"release"}, b)' = Pending({"release"}, b) \cup Tokens("todo", t, 0, n),
         Pending({"release"}, b) \cap Tokens("todo", t, 0, n) = {},
         children' = children,
         referenceCounter'[b] = referenceCounter[b] + k, \A c \in Buffers : c # b => referenceCounter'[c] = referenceCounter[c]
  PROVE  HandlesFit'
<1>1. \A c \in Buffers : InParents(c)' = InParents(c)
  BY DEF InParents
<1>2. ASSUME NEW c \in Buffers
      PROVE  HeldBy(c)' = HeldBy(c) \ Tokens("held", t, 0, held[t][c])
  <2>1. HeldBy(c)' = (HeldBy(c) \ Tokens("held", t, 0, held[t][c])) \cup Tokens("held", t, 0, held'[t][c])
    BY HeldAfter, Zenon
  <2> QED
    BY <2>1, TokenKind, Zenon
<1>3. ASSUME NEW c \in Buffers, c # b
      PROVE  Handles(c)' = Handles(c)
  <2>1. HeldBy(c)' = HeldBy(c)
    BY <1>2, <1>3, TokenKind, ZenonT(30)
  <2> QED
    BY <1>1, <1>3, <2>1, Zenon DEF Handles
<1>4. PICK A : A = Tokens("held", t, 0, n)
  BY Zenon
<1>5. PICK B1, B2 : B1 = Tokens("todo", t, 0, n) /\ B2 = Tokens("task", b, tasks[b], k)
  BY Zenon
<1>6. tasks[b] \in Nat /\ referenceCounter[b] \in Nat
  BY Zenon DEF TypeOK
<1>7. /\ IsFiniteSet(A) /\ Cardinality(A) = n /\ IsFiniteSet(B1) /\ Cardinality(B1) = n
      /\ IsFiniteSet(B2) /\ Cardinality(B2) = k
  BY <1>4, <1>5, <1>6, Numbered
<1>8. (\A x \in A : x[1] = "held") /\ (\A x \in B1 : x[1] = "todo") /\ (\A x \in B2 : x[1] = "task")
  BY <1>4, <1>5, TokenKind, Zenon
<1>9. IsFiniteSet(B1 \cup B2) /\ Cardinality(B1 \cup B2) = n + k
  <2>1. B1 \cap B2 = {}
    BY <1>8, Zenon
  <2>2. IsFiniteSet(B1 \cup B2) /\ Cardinality(B1 \cup B2) = Cardinality(B1) + Cardinality(B2) - Cardinality(B1 \cap B2)
    BY <1>7, FS_Union, Zenon
  <2>3. Cardinality(B1 \cap B2) = 0
    BY <2>1, FS_EmptySet, Zenon
  <2> QED
    BY <1>7, <2>2, <2>3
<1>10. A \subseteq HeldBy(b)
  BY <1>4 DEF HeldBy, Tokens
<1>11. A \in SUBSET Handles(b)
  BY <1>10, Zenon DEF Handles
<1>12. (B1 \cup B2) \cap Handles(b) = {}
  BY <1>5, <1>8, Kinds, Zenon DEF Handles
<1>13. Handles(b)' = (Handles(b) \ A) \cup (B1 \cup B2)
  <2>1. HeldBy(b)' = HeldBy(b) \ A /\ InTasks(b)' = InTasks(b) \cup B2 /\ Pending({"release"}, b)' = Pending({"release"}, b) \cup B1
    BY <1>2, <1>4, <1>5, Zenon
  <2>2. InTasks(b) \cap A = {} /\ InParents(b) \cap A = {} /\ Pending({"release"}, b) \cap A = {}
    BY <1>8, Kinds, ZenonT(30)
  <2> QED
    BY <1>1, <2>1, <2>2, ZenonT(30) DEF Handles
<1>14. referenceCounter'[b] = referenceCounter[b] - Cardinality(A) + Cardinality(B1 \cup B2)
  BY <1>6, <1>7, <1>9
<1>15. IsFiniteSet(Handles(b))' /\ referenceCounter'[b] = Cardinality(Handles(b))'
  BY <1>9, <1>11, <1>12, <1>13, <1>14, CountHandles, Zenon
<1> QED
  BY <1>3, <1>15, ZenonT(30) DEF HandlesFit

LEMMA DropInv ==
  ASSUME BufferInv, NEW t \in Threads, NEW b \in Buffers, NEW n \in {1, 2}, NEW k \in Nat,
         Holding(t, b, n), todo[t] = <<>>, todo' = [todo EXCEPT ![t] = Releases(b, n)],
         held' = [held EXCEPT ![t] = Nothing], tasks' = [tasks EXCEPT ![b] = @ + k],
         referenceCounter' = [referenceCounter EXCEPT ![b] = @ + k],
         UNCHANGED <<owningBufferRecycler, children, availableBuffers, exclusiveBuffers, unpooled, failed>>,
         pc' \in [Threads -> Labels], \A u \in Threads : u # t => pc'[u] = pc[u],
         (t \in Sources => SourceFits(t)') /\ (t \in Workers => WorkerFits(t)')
  PROVE  BufferInv'
<1>1. TypeOK /\ HandlesFit /\ tasks[b] \in Nat /\ referenceCounter[b] \in Nat
  BY Zenon DEF BufferInv, TypeOK
<1>2. held[t][b] = n /\ (\A c \in Buffers : c # b => held[t][c] = 0)
  BY Zenon DEF Holding, Nothing
<1>3. PICK steps : steps = Releases(b, n)
  BY Zenon
<1>4. steps \in Seq(Steps) /\ Len(steps) = n /\ \A i \in 1..n : steps[i].what = "release" /\ steps[i].buffer = b
  <2>1. Step("release", b) \in Steps /\ Step("release", b).what = "release" /\ Step("release", b).buffer = b
    BY Zenon DEF Step, Steps
  <2> QED
    BY <1>3, <2>1 DEF Releases
<1>5. Replaced(t, 0, steps)
  BY <1>1, <1>3, <1>4, PushSteps, Zenon
<1>6. todo' \in [Threads -> Seq(Steps)] /\ \A u \in Threads : u # t => todo'[u] = todo[u]
  BY <1>5, Zenon DEF Replaced
<1>7. StepsFit'
  BY <1>1, <1>4, <1>5, StepsFitAfter, Zenon DEF BufferInv
<1>8. ASSUME NEW K, NEW c
      PROVE  /\ "release" \notin K \/ c # b => Pending(K, c)' = Pending(K, c)
             /\ "release" \in K => /\ Pending(K, b)' = Pending(K, b) \cup Tokens("todo", t, 0, n)
                                   /\ Pending(K, b) \cap Tokens("todo", t, 0, n) = {}
  <2>1. \A d : Pending(K, d)' = (Pending(K, d) \ {<<"todo", t, 0 + 1>>}) \cup
          {<<"todo", t, 0 + j>> : j \in {i \in 1..Len(steps) : steps[i].what \in K /\ steps[i].buffer = d}}
    <3>1. steps \in Seq(Steps) /\ Replaced(t, 0, steps)
      BY <1>4, <1>5, Zenon
    <3>2. TAKE d
    <3> QED
      BY <1>1, <3>1, PendingAfter, SMTT(90)
  <2>2. \A d, i : <<"todo", t, i>> \notin Pending(K, d)
    BY DEF Pending
  <2>3. ASSUME "release" \notin K \/ c # b
        PROVE  Pending(K, c)' = Pending(K, c)
    <3>1. {i \in 1..Len(steps) : steps[i].what \in K /\ steps[i].buffer = c} = {}
      BY <1>4, <2>3, Zenon
    <3>2. Pending(K, c)' = (Pending(K, c) \ {<<"todo", t, 0 + 1>>}) \cup
            {<<"todo", t, 0 + j>> : j \in {i \in 1..Len(steps) : steps[i].what \in K /\ steps[i].buffer = c}}
      BY <2>1, Zenon
    <3>3. <<"todo", t, 0 + 1>> \notin Pending(K, c)
      BY <2>2, Zenon
    <3> QED
      BY <3>1, <3>2, <3>3, Zenon
  <2>4. ASSUME "release" \in K
        PROVE  Pending(K, b)' = Pending(K, b) \cup Tokens("todo", t, 0, n)
    <3>1. {i \in 1..Len(steps) : steps[i].what \in K /\ steps[i].buffer = b} = 1..n
      BY <1>4, <2>4, Zenon
    <3> QED
      BY <2>1, <2>2, <3>1, SMTT(90) DEF Tokens
  <2>5. Pending(K, b) \cap Tokens("todo", t, 0, n) = {}
    BY <2>2, Zenon DEF Tokens
  <2> QED
    BY <2>3, <2>4, <2>5, Zenon
<1>9. /\ held' \in [Threads -> [Buffers -> Nat]] /\ (\A u \in Threads : u # t => held'[u] = held[u])
      /\ \A c \in Buffers : held'[t][c] = 0
  BY <1>1, Zenon DEF TypeOK, Nothing
<1>10. /\ referenceCounter' \in [Buffers -> Nat] /\ referenceCounter'[b] = referenceCounter[b] + k
       /\ \A c \in Buffers : c # b => referenceCounter'[c] = referenceCounter[c]
  BY <1>1 DEF TypeOK
<1>11. /\ InTasks(b)' = InTasks(b) \cup Tokens("task", b, tasks[b], k)
       /\ InTasks(b) \cap Tokens("task", b, tasks[b], k) = {}
       /\ \A c \in Buffers : c # b => InTasks(c)' = InTasks(c)
       /\ tasks' \in [Buffers -> Nat]
  BY <1>1, TasksAfter, Zenon
<1>12. TypeOK'
  BY <1>1, <1>6, <1>9, <1>10, <1>11, Zenon DEF TypeOK, unpooled
<1>13. HandlesFit'
  <2>1. \A c \in Buffers : c # b => Pending({"release"}, c)' = Pending({"release"}, c)
    BY <1>8, Zenon
  <2>2. /\ Pending({"release"}, b)' = Pending({"release"}, b) \cup Tokens("todo", t, 0, n)
        /\ Pending({"release"}, b) \cap Tokens("todo", t, 0, n) = {}
    BY <1>8, Zenon
  <2> QED
    BY <1>1, <1>2, <1>9, <1>10, <1>11, <2>1, <2>2, DropHandles, SMTT(90)
<1>14. ThreadsFit'
  <2>1. \A u \in Threads : u # t => (u \in Sources => SourceFits(u)') /\ (u \in Workers => WorkerFits(u)')
    BY <1>6, <1>9, FitsKept, Zenon DEF BufferInv, unpooled
  <2> QED
    BY <2>1, Zenon DEF ThreadsFit, Threads
<1>15. RecyclersFit'
  <2>1. \A c : Pending({"recycle"}, c)' = Pending({"recycle"}, c)
    BY <1>8, Zenon
  <2> QED
    BY <1>1, <1>10, <2>1 DEF BufferInv, RecyclersFit
<1>16. ASSUME NEW c \in Buffers
       PROVE  Places(c)' = Places(c)
  <2>1. Pending(Moving, c)' = Pending(Moving, c)
    BY <1>8, Zenon DEF Moving
  <2>2. referenceCounter'[c] > 0 <=> referenceCounter[c] > 0
    <3>1. referenceCounter[b] > 0
      BY <1>1, <1>2, HeldInUse
    <3> QED
      BY <1>1, <1>10, <3>1
  <2> QED
    BY <2>1, <2>2, Zenon DEF Places, Moving, unpooled
<1>17. OnePlace' /\ ChunksFit' /\ ChunksCounted'
  BY <1>16, PlacesStay, Zenon DEF BufferInv, unpooled
<1> QED
  BY <1>7, <1>12, <1>13, <1>14, <1>15, <1>17, Zenon DEF BufferInv, InvariantsHold

LEMMA EmitInv ==
  ASSUME BufferInv, NEW s \in Sources, Emit(s) \/ FillNothing(s)
  PROVE  BufferInv'
<1>1. /\ pc[s] = "fill" /\ todo[s] = <<>> /\ s \in Threads /\ held' = [held EXCEPT ![s] = Nothing]
      /\ UNCHANGED <<owningBufferRecycler, children, availableBuffers, exclusiveBuffers, unpooled, failed>>
      /\ \E l \in {"exit", "loop"} : Goto(s, l)
  BY Zenon DEF Emit, FillNothing, At, Threads, pooled, counting
<1>2. PICK a \in Buffers : Holding(s, a, 2)
  BY <1>1, Zenon DEF BufferInv, ThreadsFit, SourceFits
<1>3. Holds(s) = {a}
  BY <1>2 DEF Holds, Holding, Nothing
<1>4. PICK k \in Nat :
        /\ tasks' = [tasks EXCEPT ![a] = @ + k] /\ referenceCounter' = [referenceCounter EXCEPT ![a] = @ + k]
        /\ todo' = [todo EXCEPT ![s] = Releases(a, 2)]
  <2>1. CASE Emit(s)
    BY <1>3, <2>1, BufferPoolsAssumption, Zenon DEF Emit
  <2>2. CASE FillNothing(s)
    <3>1. /\ tasks' = [tasks EXCEPT ![a] = @ + 0] /\ referenceCounter' = [referenceCounter EXCEPT ![a] = @ + 0]
      BY <2>2 DEF FillNothing, counting, BufferInv, TypeOK
    <3> QED
      BY <1>3, <2>2, <3>1, Zenon DEF FillNothing
  <2> QED
    BY <2>1, <2>2, Zenon
<1>5. /\ pc' \in [Threads -> Labels] /\ (\A u \in Threads : u # s => pc'[u] = pc[u]) /\ pc'[s] # "fill"
      /\ held'[s] = Nothing
  BY <1>1, Zenon DEF BufferInv, TypeOK, Goto, Labels
<1>6. (s \in Sources => SourceFits(s)') /\ (s \in Workers => WorkerFits(s)')
  BY <1>5, BufferPoolsAssumption, Zenon DEF SourceFits, Nothing
<1>7. 2 \in {1, 2}
  BY Zenon
<1> QED
  BY <1>1, <1>2, <1>4, <1>5, <1>6, <1>7, DropInv, Zenon

LEMMA FinishTaskInv ==
  ASSUME BufferInv, NEW w \in Workers, FinishTask(w)
  PROVE  BufferInv'
<1>1. /\ pc[w] \in {"work", "finish"} /\ todo[w] = <<>> /\ w \in Threads /\ held' = [held EXCEPT ![w] = Nothing]
      /\ UNCHANGED <<owningBufferRecycler, children, availableBuffers, exclusiveBuffers, unpooled, failed>>
      /\ Goto(w, "idle")
  BY Zenon DEF FinishTask, At, Threads, pooled, counting
<1>2. PICK a \in Buffers : Holding(w, a, 1)
  BY <1>1, Zenon DEF BufferInv, ThreadsFit, WorkerFits
<1>3. Holds(w) = {a}
  BY <1>2 DEF Holds, Holding, Nothing
<1>4. todo' = [todo EXCEPT ![w] = Releases(a, 1)]
  BY <1>3, Zenon DEF FinishTask
<1>5. tasks' = [tasks EXCEPT ![a] = @ + 0] /\ referenceCounter' = [referenceCounter EXCEPT ![a] = @ + 0]
  BY DEF FinishTask, counting, BufferInv, TypeOK
<1>6. /\ pc' \in [Threads -> Labels] /\ (\A u \in Threads : u # w => pc'[u] = pc[u]) /\ pc'[w] = "idle"
      /\ held'[w] = Nothing
  BY <1>1, Zenon DEF BufferInv, TypeOK, Goto, Labels
<1>7. (w \in Sources => SourceFits(w)') /\ (w \in Workers => WorkerFits(w)')
  <2>1. space'[w] = NoSpace
    BY <1>1, Zenon DEF BufferInv, ThreadsFit, WorkerFits, unpooled
  <2> QED
    BY <1>6, <2>1, BufferPoolsAssumption, Zenon DEF WorkerFits, Nothing
<1>8. 1 \in {1, 2} /\ 0 \in Nat
  BY Zenon
<1> QED
  BY <1>1, <1>2, <1>4, <1>5, <1>6, <1>7, <1>8, DropInv, Zenon

==============================================================================
