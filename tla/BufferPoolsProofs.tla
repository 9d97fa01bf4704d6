-------------------------- MODULE BufferPoolsProofs --------------------------
(***************************************************************************)
(* The actions of BufferPools keep the invariant of BufferPoolsInvariant,  *)
(* and what follows from it.                                               *)
(***************************************************************************)
EXTENDS BufferPoolsInvariant

(* One TupleBuffer of b moves.                                              *)
LEMMA SwapInv ==
  ASSUME BufferInv, NEW b \in Buffers, NEW x \in Handles(b), NEW y, y \notin Handles(b),
         Handles(b)' = (Handles(b) \ {x}) \cup {y}, \A c \in Buffers : c # b => Handles(c)' = Handles(c),
         held' \in [Threads -> [Buffers -> Nat]], tasks' \in [Buffers -> Nat], pc' \in [Threads -> Labels], ThreadsFit',
         UNCHANGED <<availableBuffers, exclusiveBuffers, counting, unpooled, todo, failed>>
  PROVE  BufferInv'
<1>1. \A K, c : Pending(K, c)' = Pending(K, c)
  BY DEF Pending
<1>2. TypeOK' /\ StepsFit'
  BY Zenon DEF BufferInv, TypeOK, StepsFit, counting, unpooled
<1>3. RecyclersFit'
  BY <1>1, Zenon DEF BufferInv, RecyclersFit, counting
<1>4. HandlesFit'
  <2>1. IsFiniteSet({x}) /\ Cardinality({x}) = 1 /\ IsFiniteSet({y}) /\ Cardinality({y}) = 1
    BY FS_Singleton, Zenon
  <2>2. {x} \in SUBSET Handles(b) /\ {y} \cap Handles(b) = {}
    BY Zenon
  <2>3. referenceCounter'[b] = referenceCounter[b] - Cardinality({x}) + Cardinality({y})
    BY <2>1 DEF BufferInv, TypeOK, counting
  <2>4. IsFiniteSet(Handles(b))' /\ referenceCounter'[b] = Cardinality(Handles(b))'
    BY <2>1, <2>2, <2>3, CountHandles, Zenon DEF BufferInv
  <2> QED
    BY <2>4, Zenon DEF BufferInv, HandlesFit, counting
<1>5. \A c \in Buffers : Places(c)' = Places(c)
  BY <1>1, PlacesSame, Zenon DEF counting, unpooled
<1>6. OnePlace' /\ ChunksFit' /\ ChunksCounted'
  BY <1>5, PlacesStay, Zenon DEF BufferInv, unpooled
<1> QED
  BY <1>2, <1>3, <1>4, <1>6, Zenon DEF BufferInv, InvariantsHold

LEMMA TakeTaskInv ==
  ASSUME BufferInv, NEW w \in Workers, TakeTask(w)
  PROVE  BufferInv'
<1>1. PICK b \in Buffers : /\ tasks[b] > 0 /\ tasks' = [tasks EXCEPT ![b] = @ - 1] /\ held' = [held EXCEPT ![w][b] = 1]
                          /\ pc' = [pc EXCEPT ![w] = IF owningBufferRecycler[b] = Global THEN "finish" ELSE "work"]
  BY Zenon DEF TakeTask, Goto
<1>2. /\ UNCHANGED <<availableBuffers, exclusiveBuffers, counting, unpooled, todo, failed>>
      /\ pc[w] = "idle" /\ todo[w] = <<>> /\ w \in Threads
  BY Zenon DEF TakeTask, At, pooled, Threads
<1>3. TypeOK /\ held[w] = Nothing /\ space[w] = NoSpace
  BY <1>2, Zenon DEF BufferInv, ThreadsFit, WorkerFits
<1>4. /\ tasks[b] \in Nat \ {0} /\ tasks' \in [Buffers -> Nat] /\ tasks'[b] = tasks[b] - 1
      /\ \A c \in Buffers : c # b => tasks'[c] = tasks[c]
  BY <1>1, <1>3 DEF TypeOK
<1>5. /\ held' \in [Threads -> [Buffers -> Nat]] /\ (\A u \in Threads : u # w => held'[u] = held[u])
      /\ held'[w] = [Nothing EXCEPT ![b] = 1]
  BY <1>1, <1>2, <1>3, Zenon DEF TypeOK, Nothing
<1>6. pc' \in [Threads -> Labels] /\ (\A u \in Threads : u # w => pc'[u] = pc[u])
      /\ pc'[w] = IF owningBufferRecycler[b] = Global THEN "finish" ELSE "work"
  BY <1>1, <1>2, <1>3, Zenon DEF TypeOK, Labels
<1>7. ThreadsFit'
  <2>1. \A u \in Threads : u # w => (u \in Sources => SourceFits(u)') /\ (u \in Workers => WorkerFits(u)')
    BY <1>2, <1>5, <1>6, FitsKept, Zenon DEF BufferInv, counting, unpooled
  <2>2. Holding(w, b, 1)' /\ owningBufferRecycler' = owningBufferRecycler /\ space'[w] = NoSpace /\ todo'[w] = <<>>
    BY <1>2, <1>3, <1>5, Zenon DEF Holding, Nothing, counting, unpooled
  <2>3. WorkerFits(w)'
    BY <1>6, <2>2, Zenon DEF WorkerFits
  <2> QED
    BY <2>1, <2>3, BufferPoolsAssumption, Zenon DEF ThreadsFit, Threads
<1>8. ASSUME NEW c \in Buffers
      PROVE  /\ HeldBy(c)' = HeldBy(c) \cup (IF c = b THEN {<<"held", w, 1>>} ELSE {}) /\ <<"held", w, 1>> \notin HeldBy(c)
             /\ InTasks(c)' = InTasks(c) \ (IF c = b THEN {<<"task", b, tasks[b]>>} ELSE {})
             /\ InParents(c)' = InParents(c) /\ Pending({"release"}, c)' = Pending({"release"}, c)
  <2>1. held[w][c] = 0 /\ held'[w][c] = (IF c = b THEN 1 ELSE 0)
    BY <1>3, <1>5, Zenon DEF Nothing
  <2>2. HeldBy(c)' = HeldBy(c) \cup (IF c = b THEN {<<"held", w, 1>>} ELSE {}) /\ <<"held", w, 1>> \notin HeldBy(c)
    BY <1>2, <1>5, <2>1 DEF HeldBy
  <2>3. InTasks(c)' = InTasks(c) \ (IF c = b THEN {<<"task", b, tasks[b]>>} ELSE {})
    BY <1>4 DEF InTasks
  <2>4. InParents(c)' = InParents(c) /\ Pending({"release"}, c)' = Pending({"release"}, c)
    BY <1>2 DEF InParents, Pending, counting
  <2> QED
    BY <2>2, <2>3, <2>4, Zenon
<1>9. PICK x, y : x = <<"task", b, tasks[b]>> /\ y = <<"held", w, 1>>
  BY Zenon
<1>10. x \in InTasks(b) /\ x[1] = "task" /\ y[1] = "held"
  BY <1>4, <1>9 DEF InTasks
<1>11. x \in Handles(b) /\ y \notin Handles(b) /\ Handles(b)' = (Handles(b) \ {x}) \cup {y}
  <2>1. x \notin HeldBy(b) /\ x \notin InParents(b) /\ x \notin Pending({"release"}, b)
    BY <1>10, Kinds, Zenon
  <2>2. y \notin InTasks(b) /\ y \notin InParents(b) /\ y \notin Pending({"release"}, b)
    BY <1>10, Kinds, Zenon
  <2> QED
    BY <1>8, <1>9, <1>10, <2>1, <2>2, ZenonT(30) DEF Handles
<1>12. \A c \in Buffers : c # b => Handles(c)' = Handles(c)
  BY <1>8, Zenon DEF Handles
<1> QED
  BY <1>2, <1>4, <1>5, <1>6, <1>7, <1>11, <1>12, SwapInv, Zenon

LEMMA OutputFacts ==
  ASSUME BufferInv, NEW w \in Workers, pc[w] \in {"output", "emplace"}
  PROVE  /\ Output(w) \in Buffers /\ owningBufferRecycler[Output(w)] = Global
         /\ \E a \in Buffers : HoldingTwo(w, a, Output(w)) /\ owningBufferRecycler[a] # Global
<1>1. PICK a, b \in Buffers : HoldingTwo(w, a, b) /\ owningBufferRecycler[a] # Global /\ owningBufferRecycler[b] = Global
  BY Zenon DEF BufferInv, ThreadsFit, WorkerFits
<1>2. Holds(w) = {a, b}
  BY <1>1 DEF Holds, HoldingTwo, Nothing
<1>3. Output(w) = b
  BY <1>1, <1>2, Zenon DEF Output
<1> QED
  BY <1>1, <1>3, Zenon

LEMMA EmitOutputInv ==
  ASSUME BufferInv, NEW w \in Workers, EmitOutput(w)
  PROVE  BufferInv'
<1>1. PICK b : b = Output(w)
  BY Zenon
<1>2. /\ tasks' = [tasks EXCEPT ![b] = @ + 1] /\ held' = [held EXCEPT ![w][b] = 0] /\ pc' = [pc EXCEPT ![w] = "finish"]
      /\ UNCHANGED <<availableBuffers, exclusiveBuffers, counting, unpooled, todo, failed>>
      /\ pc[w] = "output" /\ todo[w] = <<>> /\ w \in Threads
  BY <1>1, Zenon DEF EmitOutput, At, Goto, pooled, Threads
<1>3. b \in Buffers /\ \E a \in Buffers : HoldingTwo(w, a, b)
  BY <1>1, <1>2, OutputFacts, Zenon
<1>4. PICK a \in Buffers : HoldingTwo(w, a, b)
  BY <1>3, Zenon
<1>5. TypeOK /\ space[w] = NoSpace
  BY <1>2, Zenon DEF BufferInv, ThreadsFit, WorkerFits
<1>6. /\ tasks[b] \in Nat /\ tasks' \in [Buffers -> Nat] /\ tasks'[b] = tasks[b] + 1
      /\ \A c \in Buffers : c # b => tasks'[c] = tasks[c]
  BY <1>2, <1>3, <1>5, SMTT(30) DEF TypeOK
<1>7. /\ held' \in [Threads -> [Buffers -> Nat]] /\ (\A u \in Threads : u # w => held'[u] = held[u])
      /\ \A c \in Buffers : c # b => held'[w][c] = held[w][c]
      /\ held[w][b] = 1 /\ held'[w][b] = 0
  BY <1>2, <1>3, <1>4, <1>5, Zenon DEF TypeOK, Nothing, HoldingTwo
<1>8. pc' \in [Threads -> Labels] /\ (\A u \in Threads : u # w => pc'[u] = pc[u]) /\ pc'[w] = "finish"
  BY <1>2, <1>5, Zenon DEF TypeOK, Labels
<1>9. ThreadsFit'
  <2>1. \A u \in Threads : u # w => (u \in Sources => SourceFits(u)') /\ (u \in Workers => WorkerFits(u)')
    BY <1>2, <1>7, <1>8, FitsKept, Zenon DEF BufferInv, counting, unpooled
  <2>2. Holding(w, a, 1)'
    <3>1. held'[w] = [held[w] EXCEPT ![b] = 0]
      BY <1>2, <1>5, Zenon DEF TypeOK
    <3> QED
      BY <1>3, <1>4, <3>1, Zenon DEF Holding, HoldingTwo, Nothing
  <2>3. WorkerFits(w)'
    BY <1>2, <1>5, <1>8, <2>2, Zenon DEF WorkerFits, unpooled
  <2> QED
    BY <2>1, <2>3, BufferPoolsAssumption, Zenon DEF ThreadsFit, Threads
<1>10. ASSUME NEW c \in Buffers
       PROVE  /\ HeldBy(c)' = HeldBy(c) \ (IF c = b THEN {<<"held", w, 1>>} ELSE {})
              /\ InTasks(c)' = InTasks(c) \cup (IF c = b THEN {<<"task", b, tasks[b] + 1>>} ELSE {})
              /\ InParents(c)' = InParents(c) /\ Pending({"release"}, c)' = Pending({"release"}, c)
  <2>1. HeldBy(c)' = HeldBy(c) \ (IF c = b THEN {<<"held", w, 1>>} ELSE {})
    BY <1>2, <1>7 DEF HeldBy
  <2>2. InTasks(c)' = InTasks(c) \cup (IF c = b THEN {<<"task", b, tasks[b] + 1>>} ELSE {})
    BY <1>6 DEF InTasks
  <2>3. InParents(c)' = InParents(c) /\ Pending({"release"}, c)' = Pending({"release"}, c)
    BY <1>2 DEF InParents, Pending, counting
  <2> QED
    BY <2>1, <2>2, <2>3, Zenon
<1>11. PICK x, y : x = <<"held", w, 1>> /\ y = <<"task", b, tasks[b] + 1>>
  BY Zenon
<1>12. x \in HeldBy(b) /\ x[1] = "held" /\ y[1] = "task" /\ y \notin InTasks(b)
  BY <1>2, <1>6, <1>7, <1>11 DEF HeldBy, InTasks
<1>13. x \in Handles(b) /\ y \notin Handles(b) /\ Handles(b)' = (Handles(b) \ {x}) \cup {y}
  <2>1. x \notin InTasks(b) /\ x \notin InParents(b) /\ x \notin Pending({"release"}, b)
    BY <1>12, Kinds, Zenon
  <2>2. y \notin HeldBy(b) /\ y \notin InParents(b) /\ y \notin Pending({"release"}, b)
    BY <1>12, Kinds, Zenon
  <2> QED
    BY <1>3, <1>10, <1>11, <1>12, <2>1, <2>2 DEF Handles
<1>14. \A c \in Buffers : c # b => Handles(c)' = Handles(c)
  BY <1>10, Zenon DEF Handles
<1> QED
  BY <1>2, <1>3, <1>6, <1>7, <1>8, <1>9, <1>13, <1>14, SwapInv, SMTT(30)

----------------------------------------------------------------------------
(* Children and unpooled chunks.                                            *)

LEMMA SpaceFacts ==
  ASSUME BufferInv, NEW w \in Workers, pc[w] = "emplace", NEW c, c = space[w]
  PROVE  /\ c \in Unpooled /\ c \in Buffers /\ referenceCounter[c] = 0 /\ Handles(c) = {} /\ owningBufferRecycler[c] = Null
         /\ Places(c) = {<<"space", w, 0>>} /\ (\A u \in Threads : held[u][c] = 0)
         /\ c \notin availableBuffers /\ (\A s \in Sources : c \notin exclusiveBuffers[s])
         /\ (\A v \in Workers : v # w => space[v] # c) /\ Pending(Moving, c) = {}
<1>1. c \in Unpooled /\ c \in Buffers
  BY Zenon DEF BufferInv, TypeOK, ThreadsFit, WorkerFits, Buffers
<1>2. PICK x : x = <<"space", w, 0>>
  BY Zenon
<1>3. /\ x[1] = "space" /\ x[1] # "use" /\ x[1] # "todo" /\ x # <<"available", Global, 0>>
      /\ (\A s : x # <<"pool", s, 0>>) /\ (\A v : v # w => x # <<"space", v, 0>>)
  BY <1>2, Zenon
<1>4. x \in Places(c)
  BY <1>2, Zenon DEF Places
<1>5. x \notin Pending({"recycle"}, c)
  BY <1>3, Kinds, Zenon
<1>6. /\ referenceCounter[c] = 0 /\ Handles(c) = {} /\ Places(c) = {x} /\ (\A u \in Threads : held[u][c] = 0)
      /\ owningBufferRecycler[c] = Null
  BY <1>1, <1>3, <1>4, <1>5, Free, ZenonT(30)
<1>7. /\ c \notin availableBuffers /\ (\A s \in Sources : c \notin exclusiveBuffers[s])
      /\ (\A v \in Workers : v # w => space[v] # c) /\ Pending(Moving, c) = {}
  BY <1>1, <1>3, <1>6, Alone DEF BufferInv
<1> QED
  BY <1>1, <1>2, <1>6, <1>7, ZenonT(30)

LEMMA AppendChild ==
  ASSUME TypeOK, HandlesFit, NEW p \in Buffers, NEW c \in Buffers, Handles(c) = {},
         children' = [children EXCEPT ![p] = Append(@, c)], UNCHANGED <<held, tasks, todo>>,
         referenceCounter'[c] = 1, \A d \in Buffers : d # c => referenceCounter'[d] = referenceCounter[d]
  PROVE  HandlesFit' /\ children' \in [Buffers -> Seq(Buffers)]
<1>1. PICK n \in Nat : n = Len(children[p])
  BY DEF TypeOK
<1>2. /\ children[p] \in Seq(Buffers) /\ children'[p] \in Seq(Buffers) /\ Len(children'[p]) = n + 1
      /\ DOMAIN children[p] = 1..n /\ DOMAIN children'[p] = 1..n + 1
      /\ children'[p][n + 1] = c /\ \A i \in 1..n : children'[p][i] = children[p][i]
  BY <1>1 DEF TypeOK
<1>3. \A q \in Buffers : q # p => children'[q] = children[q]
  BY Zenon DEF TypeOK
<1>4. children' \in [Buffers -> Seq(Buffers)]
  BY <1>2, <1>3, Zenon DEF TypeOK
<1>5. \A d \in Buffers : HeldBy(d)' = HeldBy(d) /\ InTasks(d)' = InTasks(d) /\ Pending({"release"}, d)' = Pending({"release"}, d)
  BY DEF HeldBy, InTasks, Pending
<1>6. ASSUME NEW d \in Buffers
      PROVE  {i \in DOMAIN children'[p] : children'[p][i] = d}
               = {i \in DOMAIN children[p] : children[p][i] = d} \cup (IF d = c THEN {n + 1} ELSE {})
  <2>1. \A i : i \in 1..n + 1 <=> i \in 1..n \/ i = n + 1
    BY <1>1
  <2> QED
    BY <1>2, <2>1, Zenon
<1>7. ASSUME NEW d \in Buffers
      PROVE  InParents(d)' = InParents(d) \cup (IF d = c THEN {<<"child", p, n + 1>>} ELSE {})
  BY <1>3, <1>6 DEF InParents
<1>8. \A d \in Buffers : d # c => Handles(d)' = Handles(d)
  BY <1>5, <1>7, Zenon DEF Handles
<1>9. Handles(c)' = {<<"child", p, n + 1>>}
  BY <1>5, <1>7 DEF Handles
<1>10. IsFiniteSet(Handles(c)') /\ Cardinality(Handles(c)') = 1
  BY <1>9, FS_Singleton, Zenon
<1> QED
  BY <1>4, <1>8, <1>10, Zenon DEF HandlesFit

LEMMA StoreChildInv ==
  ASSUME BufferInv, NEW w \in Workers, StoreChild(w)
  PROVE  BufferInv'
<1>1. PICK c, p : c = space[w] /\ p = Output(w)
  BY Zenon
<1>2. /\ pc[w] = "emplace" /\ todo[w] = <<>> /\ w \in Threads /\ pc' = [pc EXCEPT ![w] = "output"]
      /\ Prepare(c, Global, 1) /\ children' = [children EXCEPT ![p] = Append(@, c)]
      /\ space' = [space EXCEPT ![w] = NoSpace]
      /\ UNCHANGED <<availableBuffers, exclusiveBuffers, chunks, lastAllocateChunkKey, held, tasks, todo>>
  BY <1>1, Zenon DEF StoreChild, At, Goto, Threads, pooled
<1>3. /\ c \in Unpooled /\ c \in Buffers /\ referenceCounter[c] = 0 /\ Handles(c) = {} /\ owningBufferRecycler[c] = Null
      /\ Places(c) = {<<"space", w, 0>>} /\ (\A u \in Threads : held[u][c] = 0)
      /\ c \notin availableBuffers /\ (\A s \in Sources : c \notin exclusiveBuffers[s])
      /\ (\A v \in Workers : v # w => space[v] # c) /\ Pending(Moving, c) = {}
  BY <1>1, <1>2, SpaceFacts, ZenonT(30)
<1>4. p \in Buffers /\ owningBufferRecycler[p] = Global /\ \E a \in Buffers : HoldingTwo(w, a, p) /\ owningBufferRecycler[a] # Global
  BY <1>1, <1>2, OutputFacts, Zenon
<1>5. /\ referenceCounter' = [referenceCounter EXCEPT ![c] = 1]
      /\ owningBufferRecycler' = [owningBufferRecycler EXCEPT ![c] = Global] /\ ~ failed'
  BY <1>2, <1>3, Zenon DEF Prepare, BufferInv, InvariantsHold
<1>6. /\ referenceCounter' \in [Buffers -> Nat] /\ referenceCounter'[c] = 1
      /\ \A d \in Buffers : d # c => referenceCounter'[d] = referenceCounter[d]
  BY <1>3, <1>5, Zenon DEF BufferInv, TypeOK
<1>7. /\ owningBufferRecycler' \in [Buffers -> Recyclers]
      /\ \A d \in Buffers : d # c => owningBufferRecycler'[d] = owningBufferRecycler[d]
  BY <1>3, <1>5, Zenon DEF BufferInv, TypeOK, Recyclers
<1>8. HandlesFit' /\ children' \in [Buffers -> Seq(Buffers)]
  BY <1>2, <1>3, <1>4, <1>6, AppendChild, ZenonT(30) DEF BufferInv
<1>9. space' \in [Workers -> Unpooled \cup {NoSpace}] /\ space'[w] = NoSpace /\ \A v \in Workers : v # w => space'[v] = space[v]
  BY <1>2, Zenon DEF BufferInv, TypeOK
<1>10. pc' \in [Threads -> Labels] /\ pc'[w] = "output" /\ \A u \in Threads : u # w => pc'[u] = pc[u]
  BY <1>2, Zenon DEF BufferInv, TypeOK, Labels
<1>11. TypeOK' /\ StepsFit'
  BY <1>2, <1>6, <1>7, <1>8, <1>9, <1>10, ZenonT(30) DEF BufferInv, TypeOK, StepsFit
<1>12. \A K, d : Pending(K, d)' = Pending(K, d)
  BY <1>2 DEF Pending
<1>13. ThreadsFit'
  <2>1. ASSUME NEW u \in Threads, u # w
        PROVE  (u \in Sources => SourceFits(u)') /\ (u \in Workers => WorkerFits(u)')
    <3>1. \A d \in Buffers : held[u][d] > 0 => owningBufferRecycler'[d] = owningBufferRecycler[d]
      BY <1>3, <1>7
    <3> QED
      BY <1>2, <1>9, <1>10, <2>1, <3>1, FitsKept, Zenon DEF BufferInv
  <2>2. WorkerFits(w)'
    <3>1. PICK a \in Buffers : HoldingTwo(w, a, p) /\ owningBufferRecycler[a] # Global
      BY <1>4, Zenon
    <3>2. held[w][a] = 1 /\ held[w][p] = 1
      BY <1>4, <3>1, Zenon DEF HoldingTwo, Nothing
    <3>3. a # c /\ p # c
      BY <1>2, <1>3, <3>2
    <3>4. HoldingTwo(w, a, p)'
      BY <1>2, <3>1, Zenon DEF HoldingTwo, Nothing
    <3> QED
      BY <1>2, <1>4, <1>7, <1>9, <1>10, <3>1, <3>3, <3>4, ZenonT(30) DEF WorkerFits
  <2> QED
    BY <2>1, <2>2, BufferPoolsAssumption, Zenon DEF ThreadsFit, Threads
<1>14. RecyclersFit'
  BY <1>6, <1>7, <1>12 DEF BufferInv, RecyclersFit
<1>15. \A d \in Buffers : d # NoSpace
  BY BufferPoolsAssumption, SMTT(30) DEF Buffers, Unpooled, Chunks, NoSpace
<1>16. Places(c)' = {<<"use", c, 0>>}
  <2>1. \A v \in Workers : space'[v] # c
    BY <1>3, <1>9, <1>15, Zenon
  <2> QED
    BY <1>2, <1>3, <1>6, <1>12, <2>1 DEF Places, Moving
<1>17. ASSUME NEW d \in Buffers, d # c
       PROVE  Places(d)' = Places(d)
  <2>1. \A v \in Workers : space'[v] = d <=> space[v] = d
    BY <1>1, <1>9, <1>15, <1>17, Zenon
  <2> QED
    BY <1>2, <1>6, <1>12, <1>17, <2>1, ZenonT(30) DEF Places
<1>18. OnePlace' /\ ChunksFit' /\ ChunksCounted'
  BY <1>2, <1>3, <1>16, <1>17, PlacesMoved, Zenon DEF BufferInv
<1> QED
  BY <1>5, <1>8, <1>11, <1>13, <1>14, <1>18, Zenon DEF BufferInv, InvariantsHold

Used(key) == {i \in 1..ChunkSize : Places(<<key, i>>) # {}}
Active(key) == IF key \in DOMAIN chunks THEN chunks[key].activeMemorySegments ELSE 0

LEMMA UsedCounted ==
  ASSUME BufferInv, NEW key \in Chunks
  PROVE  IsFiniteSet(Used(key)) /\ Cardinality(Used(key)) = Active(key)
<1>1. IsFiniteSet(1..ChunkSize) /\ Used(key) \in SUBSET (1..ChunkSize)
  BY BufferPoolsAssumption, FS_Interval DEF Used
<1>2. IsFiniteSet(Used(key))
  BY <1>1, FS_Subset, Zenon
<1>3. CASE key \in DOMAIN chunks
  BY <1>2, <1>3, Zenon DEF BufferInv, ChunksCounted, Used, Active
<1>4. CASE key \notin DOMAIN chunks
  <2>1. ASSUME NEW i \in 1..ChunkSize
        PROVE  Places(<<key, i>>) = {}
    <3>1. <<key, i>> \in Unpooled /\ <<key, i>>[1] = key
      BY Zenon DEF Unpooled
    <3> QED
      BY <1>4, <3>1, Zenon DEF BufferInv, ChunksFit
  <2>2. Used(key) = {}
    BY <2>1, Zenon DEF Used
  <2> QED
    BY <1>2, <1>4, <2>2, FS_EmptySet, Zenon DEF Active
<1> QED
  BY <1>3, <1>4, Zenon

LEMMA ChunkTypes ==
  ASSUME TypeOK, NEW k \in DOMAIN chunks
  PROVE  /\ k \in Chunks /\ chunks[k] \in ChunkRecords /\ chunks[k].activeMemorySegments \in Nat
         /\ chunks[k].usedSize \in 1..ChunkSize /\ chunks[k].thread \in Workers /\ chunks[k].allocated \in BOOLEAN
<1>1. k \in Chunks
  BY BufferPoolsAssumption DEF TypeOK, Chunks
<1>2. chunks[k] \in ChunkRecords
  BY DEF TypeOK
<1> QED
  BY <1>1, <1>2, Zenon DEF ChunkRecords

LEMMA ActiveType ==
  ASSUME TypeOK, NEW k
  PROVE  Active(k) \in Nat
  BY ChunkTypes, Zenon DEF Active

Allocated(w, key, i) ==
  /\ chunks' \in Seq(ChunkRecords) /\ Len(chunks') <= MaxChunks /\ DOMAIN chunks' = DOMAIN chunks \cup {key}
  /\ key \in Chunks /\ i \in 1..ChunkSize /\ (key \in DOMAIN chunks => chunks[key].thread = w)
  /\ chunks'[key].thread = w /\ chunks'[key].activeMemorySegments = Active(key) + 1 /\ chunks'[key].allocated
  /\ \A k \in DOMAIN chunks : k # key => chunks'[k] = chunks[k]
  /\ \A j \in 1..ChunkSize : Places(<<key, j>>) # {} => j < i
  /\ lastAllocateChunkKey' \in [Workers -> Nat]
  /\ \A v \in Workers : v # w => lastAllocateChunkKey'[v] = lastAllocateChunkKey[v]

(* The segment a worker gets is one that nobody uses.                       *)
LEMMA SpaceAllocated ==
  ASSUME BufferInv, NEW w \in Workers, allocateSpace(w), NEW key, key = lastAllocateChunkKey'[w],
         NEW i, i = chunks'[key].usedSize
  PROVE  Allocated(w, key, i)
<1>1. /\ chunks \in Seq(ChunkRecords) /\ Len(chunks) <= MaxChunks /\ Len(chunks) \in Nat /\ MaxChunks \in Nat
      /\ lastAllocateChunkKey \in [Workers -> Nat] /\ ChunkSize \in Nat
  BY BufferPoolsAssumption DEF BufferInv, TypeOK
<1>2. CASE HasSpace(w)
  <2>1. /\ chunks' = [chunks EXCEPT ![key].usedSize = @ + 1, ![key].activeMemorySegments = @ + 1]
        /\ lastAllocateChunkKey' = lastAllocateChunkKey /\ key = lastAllocateChunkKey[w] /\ key # 0
    BY <1>2, Zenon DEF allocateSpace, HasSpace
  <2>2. key \in DOMAIN chunks /\ chunks[key].thread = w /\ chunks[key].activeMemorySegments > 0
    BY <2>1, Zenon DEF BufferInv, ChunksFit
  <2>3. chunks[key].allocated
    BY <2>2, Zenon DEF BufferInv, ChunksCounted
  <2>4. PICK old : old = chunks[key]
    BY Zenon
  <2>5. /\ old \in ChunkRecords /\ old.usedSize \in 1..ChunkSize /\ old.activeMemorySegments \in Nat /\ key \in Chunks
        /\ old.usedSize + 1 < ChunkSize
    <3>1. old.usedSize + 1 < ChunkSize
      BY <1>2, <2>1, <2>4, Zenon DEF HasSpace
    <3> QED
      BY <2>2, <2>4, <3>1, ChunkTypes, Zenon DEF BufferInv
  <2>6. PICK new : new = [old EXCEPT !.usedSize = @ + 1, !.activeMemorySegments = @ + 1]
    BY Zenon
  <2>7. /\ new \in ChunkRecords /\ new.thread = old.thread /\ new.usedSize = old.usedSize + 1
        /\ new.activeMemorySegments = old.activeMemorySegments + 1 /\ new.allocated = old.allocated
    <3>1. new = [thread |-> old.thread, usedSize |-> old.usedSize + 1,
                 activeMemorySegments |-> old.activeMemorySegments + 1, allocated |-> old.allocated]
      BY <2>5, <2>6, Zenon DEF ChunkRecords
    <3>2. old.usedSize + 1 \in 1..ChunkSize /\ old.activeMemorySegments + 1 \in Nat /\ old.thread \in Workers /\ old.allocated \in BOOLEAN
      BY <1>1, <2>5 DEF ChunkRecords
    <3> QED
      BY <3>1, <3>2, Zenon DEF ChunkRecords
  <2>8. chunks' = [chunks EXCEPT ![key] = new]
    BY <2>1, <2>4, <2>6, Zenon
  <2>9. chunks' \in Seq(ChunkRecords) /\ Len(chunks') = Len(chunks) /\ chunks'[key] = new
        /\ \A k \in DOMAIN chunks : k # key => chunks'[k] = chunks[k]
    BY <1>1, <2>2, <2>7, <2>8
  <2>10. DOMAIN chunks' = DOMAIN chunks \cup {key} /\ key \in Chunks
    <3>1. DOMAIN chunks' = DOMAIN chunks
      BY <2>8, Zenon
    <3> QED
      BY <2>2, <2>5, <3>1, Zenon
  <2>11. ASSUME NEW j \in 1..ChunkSize, Places(<<key, j>>) # {}
         PROVE  j < i
    <3>1. <<key, j>> \in Unpooled /\ <<key, j>>[1] = key /\ <<key, j>>[2] = j
      BY <2>10, Zenon DEF Unpooled
    <3>2. j <= old.usedSize
      BY <2>4, <2>11, <3>1, Zenon DEF BufferInv, ChunksFit
    <3> QED
      BY <2>5, <2>7, <2>9, <3>2
  <2>12. i \in 1..ChunkSize /\ chunks'[key].activeMemorySegments = Active(key) + 1
    BY <1>1, <2>2, <2>4, <2>5, <2>7, <2>9, SMTT(30) DEF Active
  <2> QED
    BY <1>1, <2>1, <2>2, <2>3, <2>4, <2>7, <2>9, <2>10, <2>11, <2>12, Zenon DEF Allocated
<1>3. CASE ~ HasSpace(w)
  <2>1. PICK new : new = [thread |-> w, usedSize |-> 1, activeMemorySegments |-> 1, allocated |-> TRUE]
    BY Zenon
  <2>2. /\ Len(chunks) < MaxChunks /\ chunks' = Append(chunks, new)
        /\ lastAllocateChunkKey' = [lastAllocateChunkKey EXCEPT ![w] = Len(chunks')]
    BY <1>3, <2>1, Zenon DEF allocateSpace
  <2>3. new \in ChunkRecords
    BY <2>1, BufferPoolsAssumption DEF ChunkRecords
  <2>4. /\ chunks' \in Seq(ChunkRecords) /\ Len(chunks') = Len(chunks) + 1 /\ chunks'[Len(chunks) + 1] = new
        /\ \A k \in 1..Len(chunks) : chunks'[k] = chunks[k]
    BY <1>1, <2>2, <2>3
  <2>5. key = Len(chunks) + 1 /\ lastAllocateChunkKey' \in [Workers -> Nat]
        /\ \A v \in Workers : v # w => lastAllocateChunkKey'[v] = lastAllocateChunkKey[v]
    BY <1>1, <2>2, <2>4
  <2>6. DOMAIN chunks = 1..Len(chunks) /\ DOMAIN chunks' = 1..Len(chunks) + 1
    BY <1>1, <2>4
  <2>7. DOMAIN chunks' = DOMAIN chunks \cup {key} /\ key \in Chunks /\ key \notin DOMAIN chunks
    BY <1>1, <2>2, <2>5, <2>6 DEF Chunks
  <2>8. ASSUME NEW j \in 1..ChunkSize
        PROVE  Places(<<key, j>>) = {}
    <3>1. <<key, j>> \in Unpooled /\ <<key, j>>[1] = key
      BY <2>7, Zenon DEF Unpooled
    <3> QED
      BY <2>7, <3>1, Zenon DEF BufferInv, ChunksFit
  <2>9. i \in 1..ChunkSize /\ chunks'[key].activeMemorySegments = Active(key) + 1 /\ chunks'[key].thread = w /\ chunks'[key].allocated
    BY <2>1, <2>4, <2>5, <2>7, BufferPoolsAssumption DEF Active
  <2> QED
    BY <1>1, <2>2, <2>4, <2>5, <2>6, <2>7, <2>8, <2>9, SMTT(30) DEF Allocated
<1> QED
  BY <1>2, <1>3, Zenon

LEMMA AllocateChildInv ==
  ASSUME BufferInv, NEW w \in Workers, AllocateChild(w)
  PROVE  BufferInv'
<1>1. PICK key, i, c : key = lastAllocateChunkKey'[w] /\ i = chunks'[key].usedSize /\ c = <<key, i>>
  BY Zenon
<1>2. /\ pc[w] = "output" /\ todo[w] = <<>> /\ w \in Threads /\ pc' = [pc EXCEPT ![w] = "emplace"]
      /\ allocateSpace(w) /\ space' = [space EXCEPT ![w] = c]
      /\ UNCHANGED <<counting, availableBuffers, exclusiveBuffers, held, tasks, todo, failed>>
  BY <1>1, Zenon DEF AllocateChild, At, Goto, Threads, pooled
<1>3. /\ chunks' \in Seq(ChunkRecords) /\ Len(chunks') <= MaxChunks /\ DOMAIN chunks' = DOMAIN chunks \cup {key}
      /\ key \in Chunks /\ i \in 1..ChunkSize /\ (key \in DOMAIN chunks => chunks[key].thread = w)
      /\ chunks'[key].thread = w /\ chunks'[key].activeMemorySegments = Active(key) + 1 /\ chunks'[key].allocated
      /\ \A k \in DOMAIN chunks : k # key => chunks'[k] = chunks[k]
      /\ \A j \in 1..ChunkSize : Places(<<key, j>>) # {} => j < i
      /\ lastAllocateChunkKey' \in [Workers -> Nat]
      /\ \A v \in Workers : v # w => lastAllocateChunkKey'[v] = lastAllocateChunkKey[v]
  <2>1. Allocated(w, key, i)
    BY <1>1, <1>2, SpaceAllocated, Zenon
  <2> QED
    BY <2>1, Zenon DEF Allocated
<1>4. c \in Unpooled /\ c \in Buffers /\ c # NoSpace /\ c[1] = key /\ c[2] = i
  BY <1>1, <1>3 DEF Unpooled, Buffers, Chunks, NoSpace
<1>5. space[w] = NoSpace /\ space' \in [Workers -> Unpooled \cup {NoSpace}] /\ space'[w] = c
      /\ \A v \in Workers : v # w => space'[v] = space[v]
  BY <1>2, <1>4, Zenon DEF BufferInv, TypeOK, ThreadsFit, WorkerFits
<1>6. pc' \in [Threads -> Labels] /\ pc'[w] = "emplace" /\ \A u \in Threads : u # w => pc'[u] = pc[u]
  BY <1>2, Zenon DEF BufferInv, TypeOK, Labels
<1>7. TypeOK' /\ StepsFit'
  BY <1>2, <1>3, <1>5, <1>6, Zenon DEF BufferInv, TypeOK, StepsFit, counting
<1>8. \A K, d : Pending(K, d)' = Pending(K, d)
  BY <1>2 DEF Pending
<1>9. ThreadsFit'
  <2>1. \A u \in Threads : u # w => (u \in Sources => SourceFits(u)') /\ (u \in Workers => WorkerFits(u)')
    BY <1>2, <1>5, <1>6, FitsKept, Zenon DEF BufferInv, counting
  <2>2. WorkerFits(w)'
    <3>1. PICK a, b \in Buffers : HoldingTwo(w, a, b) /\ owningBufferRecycler[a] # Global /\ owningBufferRecycler[b] = Global
      BY <1>2, Zenon DEF BufferInv, ThreadsFit, WorkerFits
    <3>2. HoldingTwo(w, a, b)'
      BY <1>2, <3>1, Zenon DEF HoldingTwo, Nothing
    <3> QED
      BY <1>2, <1>4, <1>5, <1>6, <3>1, <3>2, Zenon DEF WorkerFits, counting
  <2> QED
    BY <2>1, <2>2, BufferPoolsAssumption, Zenon DEF ThreadsFit, Threads
<1>10. HandlesFit' /\ RecyclersFit'
  BY <1>2, <1>8, HandlesKept, Zenon DEF BufferInv, counting, RecyclersFit
<1>11. i \notin Used(key) /\ Places(c) = {}
  BY <1>1, <1>3, SMTT(30) DEF Used, Chunks
<1>12. Places(c)' = {<<"space", w, 0>>}
  <2>1. /\ c \notin availableBuffers /\ (\A s \in Sources : c \notin exclusiveBuffers[s]) /\ ~ referenceCounter[c] > 0
        /\ (\A v \in Workers : space[v] # c) /\ Pending(Moving, c) = {}
    BY <1>11, Zenon DEF Places, Moving
  <2> QED
    BY <1>2, <1>5, <1>8, <2>1, ZenonT(30) DEF Places, Moving, counting
<1>13. ASSUME NEW d \in Buffers, d # c
       PROVE  Places(d)' = Places(d)
  <2>1. \A v \in Workers : space'[v] = d <=> space[v] = d
    BY <1>5, <1>13, BufferPoolsAssumption DEF Buffers, Unpooled, Chunks, NoSpace
  <2> QED
    BY <1>2, <1>8, <2>1, Zenon DEF Places, counting
<1>14. OnePlace'
  BY <1>4, <1>12, <1>13, BufferPoolsAssumption DEF BufferInv, OnePlace, Buffers
<1>15. ChunksFit'
  <2>1. ASSUME NEW b \in Unpooled, Places(b)' # {}
        PROVE  b[1] \in DOMAIN chunks' /\ b[2] <= chunks'[b[1]].usedSize
    <3>1. CASE b = c
      BY <1>1, <1>3, <1>4, <3>1
    <3>2. CASE b # c
      <4>1. Places(b) # {} /\ b[1] \in DOMAIN chunks /\ b[2] <= chunks[b[1]].usedSize
        BY <1>13, <2>1, <3>2, Zenon DEF BufferInv, ChunksFit, Buffers
      <4>2. CASE b[1] = key
        <5>1. b = <<key, b[2]>> /\ b[2] \in 1..ChunkSize
          BY <4>2 DEF Unpooled
        <5>2. b[2] < i
          BY <1>3, <4>1, <5>1, Zenon
        <5> QED
          BY <1>1, <1>3, <4>2, <5>1, <5>2, SMTT(30)
      <4>3. CASE b[1] # key
        BY <1>3, <4>1, <4>3, Zenon
      <4> QED
        BY <4>2, <4>3, Zenon
    <3> QED
      BY <3>1, <3>2, Zenon
  <2>2. ASSUME NEW v \in Workers, lastAllocateChunkKey'[v] # 0, NEW k, k = lastAllocateChunkKey'[v]
        PROVE  k \in DOMAIN chunks' /\ chunks'[k].thread = v /\ chunks'[k].activeMemorySegments > 0
    <3>1. CASE v = w
      <4>1. Active(key) \in Nat
        BY ActiveType, Zenon DEF BufferInv
      <4> QED
        BY <1>1, <1>3, <2>2, <3>1, <4>1
    <3>2. CASE v # w
      <4>1. k = lastAllocateChunkKey[v] /\ k \in DOMAIN chunks /\ chunks[k].thread = v /\ chunks[k].activeMemorySegments > 0
        BY <1>3, <2>2, <3>2, Zenon DEF BufferInv, ChunksFit
      <4> QED
        BY <1>3, <3>2, <4>1, Zenon
    <3> QED
      BY <3>1, <3>2, Zenon
  <2> QED
    BY <2>1, <2>2, Zenon DEF ChunksFit
<1>16. ChunksCounted'
  <2>1. ASSUME NEW k \in Chunks, k # key
        PROVE  Used(k)' = Used(k)
    <3>1. \A j \in 1..ChunkSize : <<k, j>> \in Buffers /\ <<k, j>> # c
      BY <1>1, <2>1, Zenon DEF Buffers, Unpooled
    <3> QED
      BY <1>13, <3>1, Zenon DEF Used
  <2>2. Used(key)' = Used(key) \cup {i}
    <3>1. \A j \in 1..ChunkSize : <<key, j>> \in Buffers /\ (<<key, j>> = c <=> j = i)
      BY <1>1, <1>3, Zenon DEF Buffers, Unpooled
    <3>2. \A j \in 1..ChunkSize : Places(<<key, j>>)' # {} <=> Places(<<key, j>>) # {} \/ j = i
      BY <1>12, <1>13, <3>1, Zenon
    <3> QED
      BY <1>3, <3>2, Zenon DEF Used
  <2>3. IsFiniteSet(Used(key)) /\ Cardinality(Used(key)) = Active(key)
    BY <1>3, UsedCounted, Zenon
  <2>4. Cardinality(Used(key) \cup {i}) = Active(key) + 1
    BY <1>11, <2>3, FS_AddElement, ZenonT(30)
  <2>5. Cardinality(Used(key)') = chunks'[key].activeMemorySegments
    BY <1>3, <2>2, <2>4, ZenonT(30)
  <2>6. ASSUME NEW k \in DOMAIN chunks'
        PROVE  /\ chunks'[k].activeMemorySegments = Cardinality(Used(k)')
               /\ chunks'[k].allocated <=> chunks'[k].activeMemorySegments > 0
    <3>1. CASE k = key
      <4>1. Active(key) \in Nat
        BY ActiveType, Zenon DEF BufferInv
      <4> QED
        BY <1>3, <2>5, <3>1, <4>1, SMTT(30)
    <3>2. CASE k # key
      <4>1. k \in DOMAIN chunks /\ k \in Chunks /\ chunks'[k] = chunks[k]
        BY <1>3, <3>2, ChunkTypes, Zenon DEF BufferInv
      <4>2. /\ chunks[k].activeMemorySegments = Cardinality(Used(k))
            /\ chunks[k].allocated <=> chunks[k].activeMemorySegments > 0
        BY <4>1, Zenon DEF BufferInv, ChunksCounted, Used
      <4> QED
        BY <2>1, <3>2, <4>1, <4>2, Zenon
    <3> QED
      BY <3>1, <3>2, Zenon
  <2> QED
    BY <2>6, Zenon DEF ChunksCounted, Used
<1> QED
  BY <1>2, <1>7, <1>9, <1>10, <1>14, <1>15, <1>16, Zenon DEF BufferInv, InvariantsHold

LEMMA RecycleUnpooledInv ==
  ASSUME BufferInv, NEW t \in Threads, RecycleUnpooled(t)
  PROVE  BufferInv'
<1>0. PICK b : b = Top(t).buffer
  BY Zenon
<1>1. PICK key, i, chunk : key = b[1] /\ i = b[2] /\ chunk = chunks[key]
  BY Zenon
<1>2. /\ Doing(t, "chunk") /\ todo[t] # <<>> /\ Then(t, <<>>)
      /\ UNCHANGED <<counting, availableBuffers, exclusiveBuffers, space, pc, held, tasks>>
  BY Zenon DEF RecycleUnpooled, Doing, pooled
<1>3. /\ b \in Buffers /\ referenceCounter[b] = 0 /\ Places(b) = {TopToken(t)}
      /\ (\A K, c : TopToken(t) \in Pending(K, c) <=> "chunk" \in K /\ c = b)
      /\ b \notin availableBuffers /\ (\A r \in Sources : b \notin exclusiveBuffers[r]) /\ (\A w \in Workers : space[w] # b)
      /\ Pending(Moving, b) = {TopToken(t)}
  BY <1>0, <1>2, OnTheWay, SMTT(30) DEF Moving
<1>4. b \in Unpooled
  BY <1>0, <1>2, TopFacts, ZenonT(30) DEF BufferInv, StepsFit, Top
<1>5. key \in DOMAIN chunks /\ key \in Chunks /\ i \in 1..ChunkSize /\ b = <<key, i>>
  BY <1>1, <1>3, <1>4 DEF BufferInv, ChunksFit, Unpooled
<1>6. /\ todo' \in [Threads -> Seq(Steps)] /\ StepsFit' /\ ThreadsFit'
      /\ \A K, c : Pending(K, c)' = Pending(K, c) \ {TopToken(t)}
  BY <1>2, StackEmpty, Zenon DEF counting
<1>7. \A K, c : "chunk" \notin K \/ c # b => Pending(K, c)' = Pending(K, c)
  BY <1>3, <1>6, ZenonT(30)
<1>8. HandlesFit' /\ RecyclersFit'
  BY <1>2, <1>7, HandlesKept, Zenon DEF BufferInv, counting, RecyclersFit
<1>9. Places(b)' = {}
  <2>1. Pending(Moving, b)' = {}
    BY <1>3, <1>6, Zenon
  <2> QED
    BY <1>2, <1>3, <2>1 DEF Places, Moving, counting
<1>10. ASSUME NEW d \in Buffers, d # b
       PROVE  Places(d)' = Places(d)
  BY <1>2, <1>7, <1>10, Zenon DEF Places, Moving, counting
<1>11. OnePlace'
  BY <1>4, <1>9, <1>10, BufferPoolsAssumption DEF BufferInv, OnePlace, Buffers
<1>12. IsFiniteSet(Used(key)) /\ Cardinality(Used(key)) = chunk.activeMemorySegments /\ i \in Used(key)
  <2>1. i \in Used(key)
    BY <1>3, <1>5, Zenon DEF Used
  <2> QED
    BY <1>1, <1>5, <2>1, UsedCounted, Zenon DEF Active
<1>13. chunk \in ChunkRecords /\ chunk.activeMemorySegments \in Nat \ {0} /\ chunk.usedSize \in 1..ChunkSize /\ chunk.thread \in Workers
       /\ chunk.allocated
  <2>1. Cardinality(Used(key)) # 0
    BY <1>12, FS_EmptySet, Zenon
  <2>2. chunk.activeMemorySegments \in Nat \ {0}
    BY <1>1, <1>5, <1>12, <2>1, ChunkTypes, ZenonT(30) DEF BufferInv
  <2>3. chunk.allocated
    <3>1. chunks[key].allocated <=> chunks[key].activeMemorySegments > 0
      BY <1>5, Zenon DEF BufferInv, ChunksCounted
    <3>2. chunks[key].activeMemorySegments > 0
      BY <1>1, <2>2
    <3> QED
      BY <1>1, <3>1, <3>2, ZenonT(30)
  <2> QED
    BY <1>1, <1>5, <2>2, <2>3, ChunkTypes, Zenon DEF BufferInv
<1>14. ASSUME chunk.activeMemorySegments = 1
       PROVE  \A j \in 1..ChunkSize : referenceCounter[<<key, j>>] = 0
  <2>1. Used(key) = {i}
    BY <1>12, <1>14, FS_Singleton
  <2>2. ASSUME NEW j \in 1..ChunkSize
        PROVE  referenceCounter[<<key, j>>] = 0
    <3>1. <<key, j>> \in Buffers /\ referenceCounter[<<key, j>>] \in Nat
      BY <1>5, Zenon DEF Buffers, Unpooled, BufferInv, TypeOK
    <3>2. CASE j = i
      BY <1>3, <1>5, <3>2, Zenon
    <3>3. CASE j # i
      <4>1. Places(<<key, j>>) = {}
        BY <2>1, <3>3, Zenon DEF Used
      <4>2. ~ referenceCounter[<<key, j>>] > 0
        BY <4>1, Zenon DEF Places
      <4> QED
        BY <3>1, <4>2
    <3> QED
      BY <3>2, <3>3, Zenon
  <2> QED
    BY <2>2, Zenon
<1>15. PICK n \in Nat : n = chunk.activeMemorySegments - 1
  BY <1>13
<1>16. /\ chunks' \in Seq(ChunkRecords) /\ DOMAIN chunks' = DOMAIN chunks /\ Len(chunks') = Len(chunks)
       /\ \A k \in DOMAIN chunks : k # key => chunks'[k] = chunks[k]
       /\ chunks'[key].thread = chunk.thread /\ chunks'[key].usedSize = chunk.usedSize
       /\ chunks'[key].activeMemorySegments = n /\ (chunks'[key].allocated <=> n > 0)
       /\ lastAllocateChunkKey' = IF n > 0 THEN lastAllocateChunkKey ELSE [lastAllocateChunkKey EXCEPT ![chunk.thread] = 0]
       /\ ~ failed'
  <2>1. chunks \in Seq(ChunkRecords) /\ ~ failed
    BY Zenon DEF BufferInv, TypeOK, InvariantsHold
  <2>2. PICK new : new = IF n > 0 THEN [chunk EXCEPT !.activeMemorySegments = @ - 1]
                                  ELSE [chunk EXCEPT !.activeMemorySegments = 0, !.allocated = FALSE]
    BY Zenon
  <2>3. /\ new \in ChunkRecords /\ new.thread = chunk.thread /\ new.usedSize = chunk.usedSize
        /\ new.activeMemorySegments = n /\ (new.allocated <=> n > 0)
    <3>1. CASE n > 0
      <4>1. new = [chunk EXCEPT !.activeMemorySegments = @ - 1]
        BY <2>2, <3>1, Zenon
      <4>2. /\ new \in ChunkRecords /\ new.thread = chunk.thread /\ new.usedSize = chunk.usedSize
            /\ new.activeMemorySegments = n
        BY <1>13, <1>15, <4>1, Zenon DEF ChunkRecords
      <4>3. new.allocated = chunk.allocated
        BY <1>13, <4>1, Zenon DEF ChunkRecords
      <4> QED
        BY <1>13, <3>1, <4>2, <4>3, Zenon
    <3>2. CASE ~ n > 0
      <4>1. new = [chunk EXCEPT !.activeMemorySegments = 0, !.allocated = FALSE] /\ n = 0
        BY <2>2, <3>2
      <4>2. new \in ChunkRecords /\ new.thread = chunk.thread /\ new.usedSize = chunk.usedSize
        BY <1>13, <4>1, Zenon DEF ChunkRecords
      <4>3. new.activeMemorySegments = 0
        BY <1>13, <4>1, Zenon DEF ChunkRecords
      <4>4. ~ new.allocated
        BY <1>13, <4>1, Zenon DEF ChunkRecords
      <4> QED
        BY <4>1, <4>2, <4>3, <4>4
    <3> QED
      BY <3>1, <3>2, Zenon
  <2>4. /\ chunks' = [chunks EXCEPT ![key] = new] /\ ~ failed'
        /\ lastAllocateChunkKey' = IF n > 0 THEN lastAllocateChunkKey ELSE [lastAllocateChunkKey EXCEPT ![chunk.thread] = 0]
    <3>1. CASE n > 0
      <4>1. chunk.activeMemorySegments > 1
        BY <1>13, <1>15, <3>1
      <4>2. /\ chunks' = [chunks EXCEPT ![key].activeMemorySegments = @ - 1]
            /\ lastAllocateChunkKey' = lastAllocateChunkKey /\ failed' = failed
        BY <1>0, <1>1, <4>1, Zenon DEF RecycleUnpooled
      <4>3. chunks' = [chunks EXCEPT ![key] = new]
        BY <1>1, <2>2, <3>1, <4>2, Zenon
      <4> QED
        BY <2>1, <3>1, <4>2, <4>3, ZenonT(30)
    <3>2. CASE ~ n > 0
      <4>1. chunk.activeMemorySegments = 1 /\ ~ chunk.activeMemorySegments > 1
        BY <1>13, <1>15, <3>2
      <4>2. /\ chunks' = [chunks EXCEPT ![key] = [@ EXCEPT !.activeMemorySegments = 0, !.allocated = FALSE]]
            /\ lastAllocateChunkKey' = [lastAllocateChunkKey EXCEPT ![chunk.thread] = 0]
            /\ failed' => failed \/ chunk.activeMemorySegments = 0
                                 \/ \E j \in 1..ChunkSize : referenceCounter[<<key, j>>] # 0
        BY <1>0, <1>1, <4>1, ZenonT(30) DEF RecycleUnpooled
      <4>3. chunks' = [chunks EXCEPT ![key] = new]
        BY <1>1, <2>2, <3>2, <4>2, ZenonT(30)
      <4>4. ~ failed'
        <5>1. chunk.activeMemorySegments # 0
          BY <4>1
        <5>2. \A j \in 1..ChunkSize : referenceCounter[<<key, j>>] = 0
          BY <1>14, <4>1, Zenon
        <5> QED
          BY <2>1, <4>2, <5>1, <5>2, Zenon
      <4> QED
        BY <3>2, <4>2, <4>3, <4>4, ZenonT(30)
    <3> QED
      BY <3>1, <3>2, Zenon
  <2>5. /\ chunks' \in Seq(ChunkRecords) /\ DOMAIN chunks' = DOMAIN chunks /\ Len(chunks') = Len(chunks)
        /\ (\A k \in DOMAIN chunks : k # key => chunks'[k] = chunks[k]) /\ chunks'[key] = new
    BY <1>5, <2>1, <2>3, <2>4
  <2> QED
    BY <2>3, <2>4, <2>5, Zenon
<1>17. lastAllocateChunkKey' \in [Workers -> Nat]
  BY <1>13, <1>16, ZenonT(30) DEF BufferInv, TypeOK
<1>18. TypeOK'
  BY <1>2, <1>6, <1>16, <1>17, ZenonT(30) DEF BufferInv, TypeOK, counting
<1>19. ChunksFit'
  <2>1. ASSUME NEW c \in Unpooled, Places(c)' # {}
        PROVE  c[1] \in DOMAIN chunks' /\ c[2] <= chunks'[c[1]].usedSize
    <3>1. c # b /\ Places(c) # {}
      BY <1>9, <1>10, <2>1, ZenonT(30) DEF Buffers
    <3>2. c[1] \in DOMAIN chunks /\ c[2] <= chunks[c[1]].usedSize
      BY <3>1, Zenon DEF BufferInv, ChunksFit
    <3> QED
      BY <1>1, <1>16, <3>2, ZenonT(30)
  <2>2. ASSUME NEW v \in Workers, lastAllocateChunkKey'[v] # 0, NEW k, k = lastAllocateChunkKey'[v]
        PROVE  k \in DOMAIN chunks' /\ chunks'[k].thread = v /\ chunks'[k].activeMemorySegments > 0
    <3>1. k = lastAllocateChunkKey[v] /\ (n > 0 \/ v # chunk.thread)
      BY <1>16, <2>2, Zenon DEF BufferInv, TypeOK
    <3>2. k \in DOMAIN chunks /\ chunks[k].thread = v /\ chunks[k].activeMemorySegments > 0
      BY <2>2, <3>1, Zenon DEF BufferInv, ChunksFit
    <3> QED
      BY <1>1, <1>16, <3>1, <3>2, ZenonT(30)
  <2> QED
    BY <2>1, <2>2, Zenon DEF ChunksFit
<1>20. ChunksCounted'
  <2>1. ASSUME NEW k \in Chunks, k # key
        PROVE  Used(k)' = Used(k)
    <3>1. \A j \in 1..ChunkSize : <<k, j>> \in Buffers /\ <<k, j>> # b
      BY <1>5, <2>1, Zenon DEF Buffers, Unpooled
    <3> QED
      BY <1>10, <3>1, Zenon DEF Used
  <2>2. Used(key)' = Used(key) \ {i}
    <3>1. \A j \in 1..ChunkSize : <<key, j>> \in Buffers /\ (<<key, j>> = b <=> j = i)
      BY <1>5, Zenon DEF Buffers, Unpooled
    <3>2. \A j \in 1..ChunkSize : Places(<<key, j>>)' # {} <=> Places(<<key, j>>) # {} /\ j # i
      BY <1>9, <1>10, <3>1, Zenon
    <3> QED
      BY <3>2, Zenon DEF Used
  <2>3. Cardinality(Used(key) \ {i}) = n
    BY <1>12, <1>13, <1>15, FS_RemoveElement, ZenonT(90)
  <2>4. Cardinality(Used(key)') = n
    BY <2>2, <2>3, Zenon
  <2>5. ASSUME NEW k \in DOMAIN chunks'
        PROVE  /\ chunks'[k].activeMemorySegments = Cardinality(Used(k)')
               /\ chunks'[k].allocated <=> chunks'[k].activeMemorySegments > 0
    <3>1. CASE k = key
      BY <1>16, <2>4, <3>1, Zenon
    <3>2. CASE k # key
      <4>1. k \in DOMAIN chunks /\ k \in Chunks /\ chunks'[k] = chunks[k]
        BY <1>16, <3>2, ChunkTypes, Zenon DEF BufferInv
      <4>2. /\ chunks[k].activeMemorySegments = Cardinality(Used(k))
            /\ chunks[k].allocated <=> chunks[k].activeMemorySegments > 0
        BY <4>1, Zenon DEF BufferInv, ChunksCounted, Used
      <4> QED
        BY <2>1, <3>2, <4>1, <4>2, Zenon
    <3> QED
      BY <3>1, <3>2, Zenon
  <2> QED
    BY <2>5, Zenon DEF ChunksCounted, Used
<1> QED
  BY <1>6, <1>8, <1>11, <1>16, <1>18, <1>19, <1>20, Zenon DEF BufferInv, InvariantsHold

(* The TupleBuffers of c among the children of b, and the releases of them  *)
(* that the last release of b puts on the stack of t.                       *)
Listed(b, c) == {<<"child", b, i>> : i \in {j \in 1..Len(children[b]) : children[b][j] = c}}
Freed(t, b, c) ==
  {<<"todo", t, Len(todo[t]) + i>> : i \in {j \in 1..Len(children[b]) : children[b][Len(children[b]) + 1 - j] = c}}

LEMMA Reversed ==
  ASSUME TypeOK, NEW t \in Threads, NEW b \in Buffers, NEW c \in Buffers, IsFiniteSet(Listed(b, c))
  PROVE  IsFiniteSet(Freed(t, b, c)) /\ Cardinality(Freed(t, b, c)) = Cardinality(Listed(b, c))
<1>1. PICK n, m : n = Len(children[b]) /\ m = Len(todo[t])
  BY Zenon
<1>2. n \in Nat /\ m \in Nat
  BY <1>1 DEF TypeOK
<1>3. PICK A, B : A = Listed(b, c) /\ B = Freed(t, b, c)
  BY Zenon
<1>4. PICK f : f = [x \in A |-> <<"todo", t, m + (n + 1 - x[3])>>]
  BY Zenon
<1>5. \A x \in A : x[3] \in 1..n /\ children[b][x[3]] = c /\ x = <<"child", b, x[3]>>
  BY <1>1, <1>3 DEF Listed
<1>6. f \in [A -> B]
  <2>1. ASSUME NEW x \in A
        PROVE  f[x] \in B
    <3>1. PICK i : i = n + 1 - x[3]
      BY Zenon
    <3>2. i \in 1..n /\ n + 1 - i = x[3]
      BY <1>2, <1>5, <3>1
    <3>3. f[x] = <<"todo", t, m + i>>
      BY <1>4, <3>1, Zenon
    <3> QED
      BY <1>1, <1>3, <1>5, <3>2, <3>3, Zenon DEF Freed
  <2> QED
    BY <1>4, <2>1, Zenon
<1>7. ASSUME NEW x \in A, NEW y \in A, f[x] = f[y]
      PROVE  x = y
  <2>1. m + (n + 1 - x[3]) = m + (n + 1 - y[3])
    BY <1>4, <1>7, Zenon
  <2>2. x[3] = y[3]
    BY <1>2, <1>5, <2>1
  <2> QED
    BY <1>5, <2>2, Zenon
<1>8. ASSUME NEW y \in B
      PROVE  \E x \in A : f[x] = y
  <2>1. PICK i \in 1..n : children[b][n + 1 - i] = c /\ y = <<"todo", t, m + i>>
    BY <1>1, <1>3, Zenon DEF Freed
  <2>2. PICK k : k = n + 1 - i
    BY Zenon
  <2>3. k \in 1..n /\ n + 1 - k = i
    BY <1>2, <2>2
  <2>4. PICK x : x = <<"child", b, k>>
    BY Zenon
  <2>5. x \in A /\ x[3] = k
    BY <1>1, <1>3, <2>1, <2>2, <2>3, <2>4, Zenon DEF Listed
  <2> QED
    BY <1>4, <2>1, <2>3, <2>5, Zenon
<1>9. f \in Bijection(A, B)
  BY <1>6, <1>7, <1>8, Zenon DEF Bijection, Injection, Surjection, IsInjective
<1>10. ExistsBijection(A, B)
  BY <1>9, Zenon DEF ExistsBijection
<1> QED
  BY <1>3, <1>10, FS_Bijection, Zenon

(* The last release of b: its children's TupleBuffers move to the stack.    *)
LEMMA LastHandles ==
  ASSUME TypeOK, HandlesFit, NEW t \in Threads, NEW b \in Buffers, NEW top, Handles(b) = {top}, top[1] = "todo",
         children' = [children EXCEPT ![b] = <<>>], UNCHANGED <<held, tasks>>,
         \A c : top \in Pending({"release"}, c) <=> c = b,
         \A c : Pending({"release"}, c)' = (Pending({"release"}, c) \ {top}) \cup Freed(t, b, c),
         referenceCounter'[b] = 0, \A c \in Buffers : c # b => referenceCounter'[c] = referenceCounter[c]
  PROVE  HandlesFit'
<1>1. ASSUME NEW c \in Buffers
      PROVE  /\ HeldBy(c)' = HeldBy(c) /\ InTasks(c)' = InTasks(c)
             /\ InParents(c)' = InParents(c) \ Listed(b, c) /\ Listed(b, c) \subseteq InParents(c)
  <2>1. \A p \in Buffers : DOMAIN children[p] = 1..Len(children[p]) /\ (p # b => children'[p] = children[p])
    BY DEF TypeOK
  <2>2. children'[b] = <<>> /\ DOMAIN children'[b] = {}
    BY DEF TypeOK
  <2>3. HeldBy(c)' = HeldBy(c) /\ InTasks(c)' = InTasks(c)
    BY DEF HeldBy, InTasks
  <2>4. Listed(b, c) \subseteq InParents(c)
    BY <2>1 DEF Listed, InParents
  <2>5. ASSUME NEW x \in InParents(c)'
        PROVE  x \in InParents(c) /\ x \notin Listed(b, c)
    <3>1. PICK p \in Buffers : \E i \in DOMAIN children'[p] : children'[p][i] = c /\ x = <<"child", p, i>>
      BY <2>5 DEF InParents
    <3>2. p # b
      BY <2>2, <3>1, Zenon
    <3> QED
      BY <2>1, <3>1, <3>2, SMTT(30) DEF InParents, Listed
  <2>6. ASSUME NEW x \in InParents(c), x \notin Listed(b, c)
        PROVE  x \in InParents(c)'
    <3>1. PICK p \in Buffers : \E i \in DOMAIN children[p] : children[p][i] = c /\ x = <<"child", p, i>>
      BY <2>6, Zenon DEF InParents
    <3>2. p # b
      BY <2>1, <2>6, <3>1, Zenon DEF Listed
    <3> QED
      BY <2>1, <3>1, <3>2 DEF InParents
  <2> QED
    BY <2>3, <2>4, <2>5, <2>6, ZenonT(30)
<1>2. ASSUME NEW c \in Buffers, c # b
      PROVE  IsFiniteSet(Handles(c))' /\ referenceCounter'[c] = Cardinality(Handles(c))'
  <2>1. PICK A, B : A = Listed(b, c) /\ B = Freed(t, b, c)
    BY Zenon
  <2>2. A \in SUBSET Handles(c)
    BY <1>1, <2>1, Zenon DEF Handles
  <2>3. IsFiniteSet(A) /\ IsFiniteSet(Handles(c))
    BY <2>2, FS_Subset, Zenon DEF HandlesFit
  <2>4. IsFiniteSet(B) /\ Cardinality(B) = Cardinality(A) /\ Cardinality(A) \in Nat
    BY <2>1, <2>3, Reversed, FS_CardinalityType, ZenonT(30)
  <2>5. (\A x \in A : x[1] = "child") /\ (\A x \in B : x[1] = "todo")
    BY <2>1 DEF Listed, Freed
  <2>6. Pending({"release"}, c)' = Pending({"release"}, c) \cup B
    BY <1>2, <2>1, Zenon
  <2>7. Pending({"release"}, c) \cap B = {}
    <3>1. Len(todo[t]) \in Nat /\ DOMAIN todo[t] = 1..Len(todo[t]) /\ Len(children[b]) \in Nat
      BY DEF TypeOK
    <3>2. ASSUME NEW x \in Pending({"release"}, c), x \in B
          PROVE  FALSE
      <4>1. PICK i \in 1..Len(children[b]) : x = <<"todo", t, Len(todo[t]) + i>>
        BY <2>1, <3>2, Zenon DEF Freed
      <4>2. PICK u \in Threads : \E k \in DOMAIN todo[u] : x = <<"todo", u, k>>
        BY <3>2 DEF Pending
      <4>3. PICK j \in DOMAIN todo[u] : x = <<"todo", u, j>>
        BY <4>2, Zenon
      <4>4. u = t /\ j = Len(todo[t]) + i
        BY <4>1, <4>3
      <4> QED
        BY <3>1, <4>4
    <3> QED
      BY <3>2, Zenon
  <2>8. B \cap Handles(c) = {}
    BY <2>5, <2>7, Kinds, ZenonT(30) DEF Handles
  <2>9. Handles(c)' = (Handles(c) \ A) \cup B
    <3>1. HeldBy(c) \cap A = {} /\ InTasks(c) \cap A = {} /\ Pending({"release"}, c) \cap A = {}
      BY <2>5, Kinds, ZenonT(30)
    <3>2. InParents(c)' = InParents(c) \ A
      BY <1>1, <2>1, Zenon
    <3> QED
      BY <1>1, <2>6, <3>1, <3>2, ZenonT(30) DEF Handles
  <2>10. referenceCounter'[c] = referenceCounter[c] - Cardinality(A) + Cardinality(B)
    BY <1>2, <2>4 DEF TypeOK
  <2> QED
    BY <2>2, <2>4, <2>8, <2>9, <2>10, CountHandles, ZenonT(30)
<1>3. IsFiniteSet(Handles(b))' /\ referenceCounter'[b] = Cardinality(Handles(b))'
  <2>1. HeldBy(b) = {} /\ InTasks(b) = {} /\ InParents(b) = {} /\ Pending({"release"}, b) \subseteq {top}
    <3>1. HeldBy(b) \subseteq {top} /\ InTasks(b) \subseteq {top} /\ InParents(b) \subseteq {top} /\ Pending({"release"}, b) \subseteq {top}
      BY Zenon DEF Handles
    <3> QED
      BY <3>1, Kinds, ZenonT(30)
  <2>2. Freed(t, b, b) = {}
    <3>1. ASSUME NEW i \in 1..Len(children[b]), children[b][Len(children[b]) + 1 - i] = b
          PROVE  FALSE
      <4>1. PICK k : k = Len(children[b]) + 1 - i
        BY Zenon
      <4>2. k \in 1..Len(children[b])
        <5>1. children[b] \in Seq(Buffers)
          BY Zenon DEF TypeOK
        <5>2. Len(children[b]) \in Nat
          BY <5>1
        <5> QED
          BY <4>1, <5>2
      <4>3. <<"child", b, k>> \in Listed(b, b)
        BY <3>1, <4>1, <4>2, Zenon DEF Listed
      <4> QED
        BY <1>1, <2>1, <4>3, Zenon
    <3> QED
      BY <3>1, Zenon DEF Freed
  <2>3. Handles(b)' = {}
    <3>1. Pending({"release"}, b)' = {}
      BY <2>1, <2>2, Zenon
    <3> QED
      BY <1>1, <2>1, <3>1 DEF Handles
  <2> QED
    BY <2>3, FS_EmptySet, Zenon
<1> QED
  BY <1>2, <1>3, Zenon DEF HandlesFit

(* A buffer in use.                                                         *)
LEMMA InUse ==
  ASSUME BufferInv, NEW b \in Buffers, referenceCounter[b] > 0
  PROVE  /\ Places(b) = {<<"use", b, 0>>} /\ b \notin availableBuffers /\ Pending(Moving, b) = {}
         /\ \A s \in Sources : b \notin exclusiveBuffers[s]
         /\ \A w \in Workers : space[w] # b
<1>1. PICK x : x = <<"use", b, 0>>
  BY Zenon
<1>2. x \in Places(b)
  BY <1>1, Zenon DEF Places
<1>3. Places(b) = {x}
  BY <1>2 DEF BufferInv, OnePlace, Buffers
<1>4. /\ x[1] # "todo" /\ x # <<"available", Global, 0>>
      /\ \A s : x # <<"pool", s, 0>> /\ x # <<"space", s, 0>>
  BY <1>1, Zenon
<1> QED
  BY <1>1, <1>3, <1>4, Alone DEF BufferInv

LEMMA ReleaseInv ==
  ASSUME BufferInv, NEW t \in Threads, Release(t)
  PROVE  BufferInv'
<1>1. PICK b, top : b = Top(t).buffer /\ top = TopToken(t)
  BY Zenon
<1>2. /\ Doing(t, "release") /\ todo[t] # <<>>
      /\ referenceCounter' = [referenceCounter EXCEPT ![b] = IF @ = 0 THEN 0 ELSE @ - 1]
      /\ failed' => failed \/ referenceCounter[b] = 0
      /\ UNCHANGED <<owningBufferRecycler, availableBuffers, exclusiveBuffers, unpooled, pc, held, tasks>>
  BY <1>1, Zenon DEF Release, Doing, pooled
<1>3. b \in Buffers /\ Len(todo[t]) \in Nat \ {0} /\ \A K, c : top \in Pending(K, c) <=> "release" \in K /\ c = b
  BY <1>1, <1>2, TopFacts, ZenonT(30) DEF BufferInv, TopToken
<1>4. top \in Handles(b) /\ top[1] = "todo"
  BY <1>1, <1>3, Zenon DEF Handles, TopToken
<1>5. referenceCounter[b] \in Nat /\ referenceCounter[b] > 0
  BY <1>3, <1>4, Referenced, ZenonT(30) DEF BufferInv, TypeOK
<1>6. ~ failed'
  BY <1>2, <1>5, SMTT(30) DEF BufferInv, InvariantsHold
<1>7. /\ referenceCounter'[b] = referenceCounter[b] - 1 /\ referenceCounter' \in [Buffers -> Nat]
      /\ \A c \in Buffers : c # b => referenceCounter'[c] = referenceCounter[c]
  <2>1. referenceCounter \in [Buffers -> Nat]
    BY Zenon DEF BufferInv, TypeOK
  <2> QED
    BY <1>2, <1>3, <1>5, <2>1, SMTT(30)
<1>8. /\ Places(b) = {<<"use", b, 0>>} /\ b \notin availableBuffers /\ Pending(Moving, b) = {}
      /\ (\A s \in Sources : b \notin exclusiveBuffers[s]) /\ (\A w \in Workers : space[w] # b)
  BY <1>3, <1>5, InUse, Zenon
<1>9. CASE referenceCounter[b] # 1
  <2>1. children' = children /\ Then(t, <<>>)
    BY <1>1, <1>9, Zenon DEF Release
  <2>2. /\ todo' \in [Threads -> Seq(Steps)] /\ StepsFit' /\ ThreadsFit'
        /\ \A K, c : Pending(K, c)' = Pending(K, c) \ {top}
    BY <1>1, <1>2, <2>1, StackEmpty, ZenonT(30) DEF unpooled
  <2>3. ASSUME NEW K, NEW c, "release" \notin K \/ c # b
        PROVE  Pending(K, c)' = Pending(K, c)
    <3>1. top \notin Pending(K, c) /\ Pending(K, c)' = Pending(K, c) \ {top}
      BY <1>3, <2>2, <2>3, ZenonT(30)
    <3> QED
      BY <3>1, Zenon
  <2>4. TypeOK'
    BY <1>2, <1>7, <2>1, <2>2, Zenon DEF BufferInv, TypeOK, unpooled
  <2>5. \A c \in Buffers : HeldBy(c)' = HeldBy(c) /\ InTasks(c)' = InTasks(c) /\ InParents(c)' = InParents(c)
    BY <1>2, <2>1 DEF HeldBy, InTasks, InParents
  <2>6. HandlesFit'
    <3>1. ASSUME NEW c \in Buffers, c # b
          PROVE  Handles(c)' = Handles(c)
      <4>1. Pending({"release"}, c)' = Pending({"release"}, c)
        BY <2>3, <3>1, Zenon
      <4> QED
        BY <2>5, <4>1, Zenon DEF Handles
    <3>2. IsFiniteSet(Handles(b))' /\ referenceCounter'[b] = Cardinality(Handles(b))'
      <4>1. PICK A, B : A = {top} /\ B = {}
        BY Zenon
      <4>2. IsFiniteSet(B) /\ Cardinality(A) = 1 /\ Cardinality(B) = 0 /\ A \in SUBSET Handles(b) /\ B \cap Handles(b) = {}
        BY <1>4, <4>1, FS_Singleton, FS_EmptySet, Zenon
      <4>3. HeldBy(b) \cap A = {} /\ InTasks(b) \cap A = {} /\ InParents(b) \cap A = {}
        BY <1>4, <4>1, Kinds, Zenon
      <4>4. Pending({"release"}, b)' = Pending({"release"}, b) \ A
        BY <2>2, <4>1, Zenon
      <4>5. Handles(b)' = (Handles(b) \ A) \cup B
        BY <1>3, <2>5, <4>1, <4>3, <4>4, SMTT(30) DEF Handles
      <4>6. referenceCounter'[b] = referenceCounter[b] - Cardinality(A) + Cardinality(B)
        BY <1>5, <1>7, <4>2
      <4> QED
        BY <1>3, <4>2, <4>5, <4>6, CountHandles, Zenon DEF BufferInv
    <3> QED
      BY <1>7, <3>1, <3>2, Zenon DEF BufferInv, HandlesFit
  <2>7. \A c \in Buffers : referenceCounter'[c] > 0 <=> referenceCounter[c] > 0
    BY <1>5, <1>7, <1>9
  <2>8. RecyclersFit'
    <3>1. \A c : Pending({"recycle"}, c)' = Pending({"recycle"}, c)
      BY <2>3, Zenon
    <3> QED
      BY <1>2, <2>7, <3>1, Zenon DEF BufferInv, RecyclersFit
  <2>9. \A c \in Buffers : Places(c)' = Places(c)
    <3>1. \A c : Pending(Moving, c)' = Pending(Moving, c)
      BY <2>3, Zenon DEF Moving
    <3> QED
      BY <1>2, <2>7, <3>1, ZenonT(30) DEF Places, Moving, unpooled
  <2>10. OnePlace' /\ ChunksFit' /\ ChunksCounted'
    BY <1>2, <2>9, PlacesStay, ZenonT(30) DEF BufferInv, unpooled
  <2> QED
    BY <1>6, <2>2, <2>4, <2>6, <2>8, <2>10, ZenonT(30) DEF BufferInv, InvariantsHold
<1>10. CASE referenceCounter[b] = 1
  <2>1. PICK steps, n : steps = ReleaseChildren(b) /\ n = Len(children[b])
    BY Zenon
  <2>2. children' = [children EXCEPT ![b] = <<>>] /\ Then(t, steps)
    BY <1>1, <1>10, <2>1, ZenonT(30) DEF Release, ClearChildren
  <2>3. n \in Nat /\ \A i \in 1..n : children[b][i] \in Buffers
    BY <1>3, <2>1 DEF BufferInv, TypeOK
  <2>4. /\ steps \in Seq(Steps) /\ Len(steps) = n + 1
        /\ steps[1].what = "recycle" /\ steps[1].buffer = b
        /\ \A i \in 1..n : steps[1 + i].what = "release" /\ steps[1 + i].buffer = children[b][n + 1 - i]
    <3>1. PICK x, y : x = <<Step("recycle", b)>> /\ y = [i \in 1..n |-> Step("release", children[b][n + 1 - i])]
      BY Zenon
    <3>2. Step("recycle", b) \in Steps /\ Step("recycle", b).what = "recycle" /\ Step("recycle", b).buffer = b
      BY <1>3, Zenon DEF Step, Steps
    <3>3. \A c \in Buffers : Step("release", c) \in Steps /\ Step("release", c).what = "release" /\ Step("release", c).buffer = c
      BY Zenon DEF Step, Steps
    <3>4. \A i \in 1..n : n + 1 - i \in 1..n
      BY <2>3
    <3>5. y \in Seq(Steps) /\ Len(y) = n /\ \A i \in 1..n : y[i] = Step("release", children[b][n + 1 - i])
      BY <2>3, <3>1, <3>3, <3>4, SMTT(30)
    <3>6. x \in Seq(Steps) /\ Len(x) = 1 /\ x[1] = Step("recycle", b)
      BY <3>1, <3>2
    <3>7. steps = x \o y
      BY <2>1, <3>1, Zenon DEF ReleaseChildren
    <3>8. steps \in Seq(Steps) /\ Len(steps) = n + 1 /\ steps[1] = x[1] /\ \A i \in 1..n : steps[1 + i] = y[i]
      <4>1. /\ steps \in Seq(Steps) /\ Len(steps) = Len(x) + Len(y)
            /\ \A i \in 1..Len(x) : steps[i] = x[i]
            /\ \A i \in 1..Len(y) : steps[Len(x) + i] = y[i]
        <5>1. x \in Seq(Steps) /\ y \in Seq(Steps)
          BY <3>5, <3>6, Zenon
        <5>2. /\ x \o y \in Seq(Steps) /\ Len(x \o y) = Len(x) + Len(y)
              /\ \A i \in 1..Len(x) : (x \o y)[i] = x[i]
              /\ \A i \in 1..Len(y) : (x \o y)[Len(x) + i] = y[i]
          BY <5>1
        <5> QED
          BY <3>7, <5>2, Zenon
      <4> QED
        BY <2>3, <3>5, <3>6, <4>1
    <3>9. steps[1].what = "recycle" /\ steps[1].buffer = b
      BY <3>2, <3>6, <3>8, Zenon
    <3>10. ASSUME NEW i \in 1..n
           PROVE  steps[1 + i].what = "release" /\ steps[1 + i].buffer = children[b][n + 1 - i]
      <4>1. children[b][n + 1 - i] \in Buffers
        BY <2>3, <3>4, Zenon
      <4>2. steps[1 + i] = Step("release", children[b][n + 1 - i])
        BY <3>5, <3>8, Zenon
      <4> QED
        BY <3>3, <4>1, <4>2, Zenon
    <3> QED
      BY <3>8, <3>9, <3>10, Zenon
  <2>5. \A j \in 1..Len(steps) : steps[j].what \in {"recycle", "release"}
    <3>1. ASSUME NEW j \in 1..Len(steps), j # 1
          PROVE  j - 1 \in 1..n /\ j = 1 + (j - 1)
      BY <2>3, <2>4, <3>1
    <3> QED
      BY <2>4, <3>1, ZenonT(30)
  <2>6. /\ todo' \in [Threads -> Seq(Steps)] /\ StepsFit' /\ ThreadsFit'
        /\ \A K, c : Pending(K, c)' =
             (Pending(K, c) \ {TopToken(t)}) \cup
               {<<"todo", t, Len(todo[t]) - 1 + j>> :
                  j \in {i \in 1..Len(steps) : steps[i].what \in K /\ steps[i].buffer = c}}
    <3>1. \A j \in 1..Len(steps) : steps[j].what # "local" /\ steps[j].what # "global" /\ steps[j].what # "chunk"
      BY <2>5, Zenon
    <3> QED
      BY <1>2, <2>2, <2>4, <3>1, StackFrame, ZenonT(30) DEF unpooled
  <2>7. ASSUME NEW K, NEW c, "recycle" \in K, "release" \notin K
        PROVE  Pending(K, c)' = Pending(K, c) \cup (IF c = b THEN {top} ELSE {})
    <3>1. {i \in 1..Len(steps) : steps[i].what \in K /\ steps[i].buffer = c} = IF c = b THEN {1} ELSE {}
      <4>1. ASSUME NEW j \in 1..Len(steps), j # 1
            PROVE  steps[j].what = "release"
        <5>1. j - 1 \in 1..n /\ j = 1 + (j - 1)
          BY <2>3, <2>4, <4>1
        <5> QED
          BY <2>4, <5>1, Zenon
      <4> QED
        BY <2>3, <2>4, <2>7, <4>1
    <3>2. top \notin Pending(K, c)
      BY <1>3, <2>7, Zenon
    <3>3. top = <<"todo", t, Len(todo[t]) - 1 + 1>>
      BY <1>1, <1>3 DEF TopToken
    <3>4. Pending(K, c)' =
             (Pending(K, c) \ {TopToken(t)}) \cup
               {<<"todo", t, Len(todo[t]) - 1 + j>> :
                  j \in {i \in 1..Len(steps) : steps[i].what \in K /\ steps[i].buffer = c}}
      BY <2>6, Zenon
    <3> QED
      BY <1>1, <3>1, <3>2, <3>3, <3>4, Zenon
  <2>8. ASSUME NEW c
        PROVE  Pending({"release"}, c)' = (Pending({"release"}, c) \ {top}) \cup Freed(t, b, c)
    <3>1. ASSUME NEW j \in 1..Len(steps), steps[j].what = "release", steps[j].buffer = c
          PROVE  <<"todo", t, Len(todo[t]) - 1 + j>> \in Freed(t, b, c)
      <4>1. j # 1
        BY <2>4, <3>1, Zenon
      <4>2. PICK i : i = j - 1
        BY Zenon
      <4>3. i \in 1..n /\ j = 1 + i /\ Len(todo[t]) - 1 + j = Len(todo[t]) + i
        BY <1>3, <2>3, <2>4, <4>1, <4>2, SMTT(30)
      <4>4. children[b][n + 1 - i] = c
        BY <2>4, <3>1, <4>3, Zenon
      <4> QED
        BY <2>1, <4>3, <4>4, Zenon DEF Freed
    <3>2. ASSUME NEW x \in Freed(t, b, c)
          PROVE  \E j \in 1..Len(steps) : steps[j].what = "release" /\ steps[j].buffer = c /\ x = <<"todo", t, Len(todo[t]) - 1 + j>>
      <4>1. PICK i \in 1..n : children[b][n + 1 - i] = c /\ x = <<"todo", t, Len(todo[t]) + i>>
        BY <2>1, <3>2, Zenon DEF Freed
      <4>2. PICK j : j = 1 + i
        BY Zenon
      <4>3. j \in 1..Len(steps) /\ Len(todo[t]) - 1 + j = Len(todo[t]) + i
        <5>1. Len(steps) = n + 1 /\ n \in Nat /\ Len(todo[t]) \in Nat /\ i \in 1..n
          BY <1>3, <2>3, <2>4, Zenon
        <5>2. j \in 1..n + 1
          BY <4>2, <5>1
        <5>3. ASSUME NEW l \in Nat
              PROVE  l - 1 + j = l + i
          BY <4>2, <5>1
        <5> QED
          BY <5>1, <5>2, <5>3, Zenon
      <4>4. steps[j].what = "release" /\ steps[j].buffer = c
        BY <2>4, <4>1, <4>2, Zenon
      <4> QED
        BY <4>1, <4>3, <4>4, Zenon
    <3>3. {<<"todo", t, Len(todo[t]) - 1 + j>> : j \in {i \in 1..Len(steps) : steps[i].what \in {"release"} /\ steps[i].buffer = c}}
            = Freed(t, b, c)
      BY <3>1, <3>2, Zenon
    <3> QED
      BY <1>1, <2>6, <3>3, Zenon
  <2>9. TypeOK'
    <3>1. children' \in [Buffers -> Seq(Buffers)]
      <4>1. children \in [Buffers -> Seq(Buffers)] /\ <<>> \in Seq(Buffers)
        BY DEF BufferInv, TypeOK
      <4> QED
        BY <1>3, <2>2, <4>1, Zenon
    <3> QED
      BY <1>2, <1>7, <2>6, <3>1, Zenon DEF BufferInv, TypeOK, unpooled
  <2>10. referenceCounter'[b] = 0
    BY <1>7, <1>10
  <2>11. HandlesFit'
    <3>1. Handles(b) = {top}
      <4>1. IsFiniteSet(Handles(b)) /\ Cardinality(Handles(b)) = 1
        BY <1>3, <1>10, Zenon DEF BufferInv, HandlesFit
      <4> QED
        BY <1>4, <4>1, FS_Singleton
    <3>2. \A c : top \in Pending({"release"}, c) <=> c = b
      BY <1>3
    <3> QED
      BY <1>2, <1>3, <1>4, <1>7, <2>2, <2>8, <2>10, <3>1, <3>2, LastHandles, Zenon DEF BufferInv
  <2>12. RecyclersFit'
    <3>1. \A c : Pending({"recycle"}, c)' = Pending({"recycle"}, c) \cup (IF c = b THEN {top} ELSE {})
      BY <2>7
    <3>2. Pending({"recycle"}, b)' # {} /\ \A c : Pending({"recycle"}, c) \subseteq Pending({"recycle"}, c)'
      BY <3>1, Zenon
    <3> QED
      BY <1>2, <1>7, <3>2, Zenon DEF BufferInv, RecyclersFit
  <2>13. Places(b)' = {top}
    <3>1. Pending(Moving, b)' = {top}
      BY <1>8, <2>7 DEF Moving
    <3> QED
      BY <1>2, <1>8, <2>10, <3>1, SMTT(30) DEF Places, Moving, unpooled
  <2>14. ASSUME NEW c \in Buffers, c # b
         PROVE  Places(c)' = Places(c)
    <3>1. Pending(Moving, c)' = Pending(Moving, c)
      BY <2>7, <2>14 DEF Moving
    <3>2. referenceCounter'[c] = referenceCounter[c]
      BY <1>7, <2>14, Zenon
    <3> QED
      BY <1>2, <3>1, <3>2, Zenon DEF Places, Moving, unpooled
  <2>15. OnePlace' /\ ChunksFit' /\ ChunksCounted'
    BY <1>2, <1>8, <2>13, <2>14, PlacesMoved, Zenon DEF BufferInv, unpooled
  <2> QED
    BY <1>6, <2>6, <2>9, <2>11, <2>12, <2>15, ZenonT(30) DEF BufferInv, InvariantsHold
<1> QED
  BY <1>9, <1>10, Zenon

LEMMA NextInv ==
  ASSUME BufferInv, [Next]_vars
  PROVE  BufferInv'
<1>1. ASSUME NEW t \in Threads,
             Release(t) \/ Recycle(t) \/ RecycleLocal(t) \/ RecycleGlobal(t) \/ RecycleUnpooled(t)
      PROVE  BufferInv'
  BY <1>1, ReleaseInv, RecycleInv, RecycleLocalInv, RecycleGlobalInv, RecycleUnpooledInv, ZenonT(30)
<1>2. ASSUME NEW s \in Sources,
             \/ CreatePool(s) \/ ReserveBuffer(s) \/ GetLocalBuffer(s) \/ Emit(s) \/ FillNothing(s)
             \/ RequestStop(s) \/ LeaveLoop(s) \/ DestroyPool(s) \/ DrainPool(s)
      PROVE  BufferInv'
  BY <1>2, SourceSteps, ReserveBufferInv, GetLocalBufferInv, EmitInv, DrainPoolInv, ZenonT(30)
<1>3. ASSUME NEW w \in Workers,
             \/ TakeTask(w) \/ FinishTask(w) \/ GetBuffer(w) \/ CountTaken(w)
             \/ AllocateChild(w) \/ StoreChild(w) \/ EmitOutput(w)
      PROVE  BufferInv'
  BY <1>3, TakeTaskInv, FinishTaskInv, GetBufferInv, CountTakenInv, AllocateChildInv, StoreChildInv, EmitOutputInv, ZenonT(30)
<1>4. CASE UNCHANGED vars
  <2>1. UNCHANGED <<availableBuffers, exclusiveBuffers, counting, unpooled, held, tasks, todo, failed, pc>>
    BY <1>4, Zenon DEF vars, counting, pooled, unpooled, running
  <2>2. pc' \in [Threads -> Labels]
    BY <2>1, Zenon DEF BufferInv, TypeOK
  <2>3. ThreadsFit'
    BY <2>1, FitsKept, Zenon DEF BufferInv, ThreadsFit, Threads, counting, unpooled
  <2> QED
    BY <2>1, <2>2, <2>3, QuietInv, ZenonT(30)
<1> QED
  BY <1>1, <1>2, <1>3, <1>4, ZenonT(30) DEF Next

----------------------------------------------------------------------------
(* BufferInv is an invariant of the buffers, whatever the threads do.       *)
THEOREM BufferInvariance == Spec => []BufferInv
  BY InitInv, NextInv, PTL DEF Spec

(* No INVARIANT of BufferControlBlock::prepare and release, of the two      *)
(* recyclePooledBuffer or of the recycling of unpooled segments fails: none *)
(* of them is reached with a buffer that is referenced where it must be     *)
(* free, or free where it is released.                                      *)
THEOREM Sound == Spec => []InvariantsHold
<1>1. BufferInv => InvariantsHold
  BY Zenon DEF BufferInv
<1> QED
  BY <1>1, BufferInvariance, PTL

(* The counter that retain and release change one by one is the number of   *)
(* TupleBuffers of the buffer, so the last destructor recycles it.          *)
THEOREM Counted == Spec => []ReferencesExact
<1>1. BufferInv => ReferencesExact
  BY Zenon DEF BufferInv, HandlesFit, ReferencesExact
<1> QED
  BY <1>1, BufferInvariance, PTL

(* No segment is lost and none is twice in a queue, handed to two users or  *)
(* recycled by two threads.                                                 *)
THEOREM Placed == Spec => []OnePlace
<1>1. BufferInv => OnePlace
  BY Zenon DEF BufferInv
<1> QED
  BY <1>1, BufferInvariance, PTL

(* activeMemorySegments counts the segments in use, and a chunk goes with   *)
(* the last of them.                                                        *)
THEOREM ChunksExact == Spec => []ChunksCounted
<1>1. BufferInv => ChunksCounted
  BY Zenon DEF BufferInv
<1> QED
  BY <1>1, BufferInvariance, PTL

==============================================================================
