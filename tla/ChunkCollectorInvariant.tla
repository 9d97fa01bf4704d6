---------------------- MODULE ChunkCollectorInvariant ----------------------
(***************************************************************************)
(* The inductive invariant of ChunkCollector, the facts about its          *)
(* operators, and the steps in which a thread collects a chunk: the first  *)
(* half of the proofs, for any number of threads, any stream, nodes of any *)
(* size and a counter of any range that is larger than the number of       *)
(* chunks of a sequence number.  ChunkCollectorProofs has the second half. *)
(***************************************************************************)
EXTENDS ChunkCollector, FiniteSetTheorems, TLAPS

(* Threads that have yet to count their chunk, and threads that were told   *)
(* that a sequence number is complete.                                      *)
Collecting == {"load", "merge", "last", "count"}
Completing == {"read", "missing", "erase"}

TypeOK ==
    /\ nodes \subseteq NodeStarts
    /\ missing \in [NodeStarts -> Int]
    /\ counter \in [SequenceNumbers -> Int]
    /\ value \in [SequenceNumbers -> Nat]
    /\ pc \in [Threads -> {"idle"} \cup Collecting \cup Completing]
    /\ chunk \in [Threads -> Items \cup {NoChunk}]
    /\ current \in [Threads -> Nat]
    /\ final \in [Threads -> Nat]
    /\ incoming \subseteq Items
    /\ counted \subseteq Items
    /\ completed \in Seq([seq : SequenceNumbers, wm : Nat])

(* A chunk is on its way, in the hands of one thread, or counted.           *)
OneHolder ==
    /\ incoming \cap counted = {}
    /\ \A t \in Threads : pc[t] # "idle" =>
          /\ chunk[t] \in Items \ incoming
          /\ NodeOf(chunk[t].seq) \in nodes
          /\ pc[t] \in Collecting => chunk[t] \notin counted
    /\ \A t, u \in Threads :
          pc[t] \in Collecting /\ pc[u] \in Collecting /\ chunk[t] = chunk[u] => t = u

ChunkAt(s, c) == [seq |-> s, chunk |-> c, last |-> (c = NumChunks(s)), wm |-> Stream[s][c]]

(* The numbers of the chunks of s that are in C, and that were counted.     *)
ChunkNumbers(s, C) == {c \in 1..NumChunks(s) : ChunkAt(s, c) \in C}
Counted(s) == ChunkNumbers(s, counted)

(* What the unsigned counter holds: once the last chunk was counted, how    *)
(* many are outstanding; until then, minus how many were counted.           *)
Outstanding(s) ==
    IF NumChunks(s) \in Counted(s) THEN NumChunks(s) - Cardinality(Counted(s))
    ELSE IF Counted(s) = {} THEN 0
    ELSE CounterRange - Cardinality(Counted(s))

CounterExact == \A s \in SequenceNumbers : counter[s] = Outstanding(s)

(* The value of a slot is the largest watermark merged so far.              *)
ValueExact ==
    /\ \A s \in SequenceNumbers : value[s] = 0 \/ \E i \in ChunksOf(s) : i.wm = value[s]
    /\ \A i \in counted : i.wm <= value[i.seq]
    /\ \A t \in Threads :
          /\ pc[t] = "merge" => current[t] <= value[chunk[t].seq]
          /\ pc[t] \in {"last", "count"} => chunk[t].wm <= value[chunk[t].seq]

(* One thread completes a sequence number, and it was complete.             *)
OneCompleter ==
    /\ \A t \in Threads : pc[t] \in Completing => ChunksOf(chunk[t].seq) \subseteq counted
    /\ \A t \in Threads : pc[t] \in {"missing", "erase"} => IsMaxWatermark(chunk[t].seq, final[t])
    /\ \A t, u \in Threads :
          pc[t] \in Completing /\ pc[u] \in Completing /\ chunk[t].seq = chunk[u].seq => t = u
    /\ \A t \in Threads, k \in 1..Len(completed) :
          pc[t] \in Completing => chunk[t].seq # completed[k].seq

NumbersOf(n) == {s \in SequenceNumbers : NodeOf(s) = n}

(* The sequence numbers of node n that were taken off its count.            *)
Decremented(n) ==
    {s \in NumbersOf(n) :
        /\ ChunksOf(s) \subseteq counted
        /\ \A t \in Threads : pc[t] \in {"read", "missing"} => chunk[t].seq # s}

(* A node counts the numbers that are not complete; the thread that erases  *)
(* it is alone; a node that is not in the list was not there yet, or all    *)
(* its chunks have come.                                                    *)
NodesExact ==
    /\ \A n \in nodes : missing[n] = NodeSize - Cardinality(Decremented(n))
    /\ \A t \in Threads : pc[t] = "erase" =>
          NumbersOf(NodeOf(chunk[t].seq)) \subseteq Decremented(NodeOf(chunk[t].seq))
    /\ \A t, u \in Threads :
          pc[t] = "erase" /\ pc[u] = "erase" /\ NodeOf(chunk[t].seq) = NodeOf(chunk[u].seq) => t = u
    /\ \A n \in NodeStarts \ nodes :
          \/ \A i \in Items : NodeOf(i.seq) = n => i \in incoming
          \/ \A i \in Items : NodeOf(i.seq) = n => i \notin incoming

IInv ==
    /\ TypeOK
    /\ OneHolder
    /\ CounterExact
    /\ ValueExact
    /\ OneCompleter
    /\ NodesExact
    /\ ReturnedWhole

-----------------------------------------------------------------------------
(* Division with remainder.                                                 *)
LEMMA Division ==
    ASSUME NEW d \in Nat \ {0}, NEW a \in Nat
    PROVE  /\ a \div d \in Nat
           /\ a % d \in 0..(d - 1)
           /\ a = (a \div d) * d + (a % d)
  OBVIOUS

(* A product of natural numbers is one.                                     *)
LEMMA Product == ASSUME NEW a \in Nat, NEW b \in Nat PROVE a * b \in Nat
  OBVIOUS

(* What is known of a stream.                                               *)
LEMMA StreamFacts ==
    /\ CounterRange \in Nat /\ NodeSize \in Nat \ {0} /\ SequenceNumbers \subseteq Nat \ {0}
    /\ \A s \in SequenceNumbers :
          /\ NumChunks(s) \in Nat \ {0}
          /\ NumChunks(s) < CounterRange
          /\ \A c \in 1..NumChunks(s) : Stream[s][c] \in Nat
  BY ChunkCollectorAssumption DEF SequenceNumbers, NumChunks

(* A chunk is identified by its sequence number and chunk number.           *)
LEMMA ItemFacts ==
    /\ \A i \in Items : /\ i.seq \in SequenceNumbers /\ i.chunk \in 1..NumChunks(i.seq)
                        /\ i = ChunkAt(i.seq, i.chunk)
                        /\ i.wm \in Nat
                        /\ i.last <=> (i.chunk = NumChunks(i.seq))
    /\ \A s \in SequenceNumbers : \A c \in 1..NumChunks(s) :
          ChunkAt(s, c) \in Items /\ ChunkAt(s, c).seq = s /\ ChunkAt(s, c).chunk = c
    /\ \A s \in SequenceNumbers : ChunksOf(s) = {i \in Items : i.seq = s}
  <1>1. \A s \in SequenceNumbers : ChunksOf(s) = {ChunkAt(s, c) : c \in 1..NumChunks(s)}
    BY DEF ChunksOf, ChunkAt
  <1>2. \A s \in SequenceNumbers : \A c \in 1..NumChunks(s) :
          /\ ChunkAt(s, c) \in Items
          /\ ChunkAt(s, c).seq = s /\ ChunkAt(s, c).chunk = c /\ ChunkAt(s, c).wm = Stream[s][c]
          /\ ChunkAt(s, c).last <=> (c = NumChunks(s))
    BY <1>1, ZenonT(30) DEF Items, ChunkAt
  <1>3. \A i \in Items : \E s \in SequenceNumbers : \E c \in 1..NumChunks(s) : i = ChunkAt(s, c)
    BY <1>1 DEF Items
  <1>4. ASSUME NEW i \in Items
        PROVE  /\ i.seq \in SequenceNumbers /\ i.chunk \in 1..NumChunks(i.seq)
               /\ i = ChunkAt(i.seq, i.chunk)
               /\ i.wm \in Nat
               /\ i.last <=> (i.chunk = NumChunks(i.seq))
    <2>1. PICK s \in SequenceNumbers : \E c \in 1..NumChunks(s) : i = ChunkAt(s, c)
      BY <1>3
    <2>2. PICK c \in 1..NumChunks(s) : i = ChunkAt(s, c)
      BY <2>1
    <2>3. QED
      BY <1>2, <2>2, StreamFacts
  <1>5. ASSUME NEW s \in SequenceNumbers PROVE ChunksOf(s) = {i \in Items : i.seq = s}
    <2>1. \A i \in ChunksOf(s) : i \in Items /\ i.seq = s
      BY <1>1, <1>2
    <2>2. \A i \in Items : i.seq = s => i \in ChunksOf(s)
      BY <1>1, <1>4
    <2>3. QED
      BY <2>1, <2>2
  <1>6. QED
    BY <1>2, <1>4, <1>5

(* Unsigned arithmetic, for the results that occur.                         *)
LEMMA WrapFacts ==
    ASSUME NEW x \in Int
    PROVE  /\ x \in 0..(CounterRange - 1) => Wrap(x) = x
           /\ x \in CounterRange..(2 * CounterRange - 1) => Wrap(x) = x - CounterRange
           /\ x = -1 /\ CounterRange > 0 => Wrap(x) = CounterRange - 1
  BY StreamFacts DEF Wrap

(* How many chunks of a sequence number are in a set.                       *)
LEMMA CountFacts ==
    ASSUME NEW s \in SequenceNumbers, NEW C
    PROVE  /\ IsFiniteSet(ChunkNumbers(s, C)) /\ Cardinality(ChunkNumbers(s, C)) \in Nat
           /\ Cardinality(ChunkNumbers(s, C)) <= NumChunks(s)
           /\ Cardinality(ChunkNumbers(s, C)) = 0 <=> ChunkNumbers(s, C) = {}
           /\ Cardinality(ChunkNumbers(s, C)) = NumChunks(s) <=> ChunksOf(s) \subseteq C
           /\ NumChunks(s) \notin ChunkNumbers(s, C) => Cardinality(ChunkNumbers(s, C)) <= NumChunks(s) - 1
  <1> DEFINE D == ChunkNumbers(s, C)
  <1>1. NumChunks(s) \in Nat \ {0}
    BY StreamFacts
  <1>2. IsFiniteSet(1..NumChunks(s)) /\ Cardinality(1..NumChunks(s)) = NumChunks(s)
    BY <1>1, FS_Interval
  <1>3. D \in SUBSET (1..NumChunks(s))
    BY DEF ChunkNumbers
  <1>4. /\ IsFiniteSet(D) /\ Cardinality(D) <= NumChunks(s)
        /\ Cardinality(D) = NumChunks(s) => D = 1..NumChunks(s)
    BY <1>2, <1>3, FS_Subset, ZenonT(30)
  <1>5. Cardinality(D) \in Nat /\ (Cardinality(D) = 0 <=> D = {})
    BY <1>4, FS_CardinalityType, FS_EmptySet
  <1>6. D = 1..NumChunks(s) <=> ChunksOf(s) \subseteq C
    BY ItemFacts DEF ChunkNumbers
  <1>7. Cardinality(D) = NumChunks(s) <=> ChunksOf(s) \subseteq C
    BY <1>2, <1>4, <1>6
  <1>8. ASSUME NumChunks(s) \notin D PROVE Cardinality(D) <= NumChunks(s) - 1
    BY <1>1, <1>2, <1>4, <1>5, <1>8
  <1>9. QED
    BY <1>4, <1>5, <1>7, <1>8

(* The counter is zero exactly when every chunk was counted, or none.       *)
LEMMA OutstandingFacts ==
    ASSUME NEW s \in SequenceNumbers
    PROVE  /\ Outstanding(s) \in 0..(CounterRange - 1)
           /\ Counted(s) # {} => (Outstanding(s) = 0 <=> ChunksOf(s) \subseteq counted)
  <1>1. NumChunks(s) \in Nat \ {0} /\ NumChunks(s) < CounterRange /\ CounterRange \in Nat
    BY StreamFacts
  <1>2. CASE NumChunks(s) \in Counted(s)
    BY <1>1, <1>2, CountFacts DEF Outstanding, Counted
  <1>3. CASE NumChunks(s) \notin Counted(s)
    BY <1>1, <1>3, CountFacts DEF Outstanding, Counted
  <1>4. QED
    BY <1>2, <1>3

(* A node has at most NodeSize sequence numbers, and as many of them are    *)
(* all of them.                                                             *)
LEMMA NodeFacts ==
    ASSUME NEW n \in NodeStarts, NEW D \in SUBSET NumbersOf(n)
    PROVE  /\ IsFiniteSet(D) /\ Cardinality(D) \in Nat
           /\ Cardinality(D) <= NodeSize
           /\ Cardinality(D) = NodeSize => NumbersOf(n) \subseteq D
  <1>1. NodeSize \in Nat \ {0}
    BY StreamFacts
  <1>2. ASSUME NEW s \in SequenceNumbers
        PROVE  NodeOf(s) \in Nat /\ s \in (NodeOf(s) + 1)..(NodeOf(s) + NodeSize)
    <2> DEFINE q == (s - 1) \div NodeSize
               r == (s - 1) % NodeSize
    <2>1. s \in Nat /\ s - 1 \in Nat
      BY StreamFacts
    <2>2. q \in Nat /\ r \in 0..(NodeSize - 1) /\ s - 1 = q * NodeSize + r
      BY <1>1, <2>1, Division, ZenonT(30)
    <2> HIDE DEF q, r
    <2>3. q * NodeSize \in Nat
      BY <1>1, <2>2, Product
    <2>4. s \in (q * NodeSize + 1)..(q * NodeSize + NodeSize)
      BY <1>1, <2>1, <2>2, <2>3
    <2>5. QED
      BY <2>3, <2>4 DEF NodeOf, q
  <1>3. n \in Nat /\ NumbersOf(n) \subseteq (n + 1)..(n + NodeSize)
    BY <1>2 DEF NumbersOf, NodeStarts
  <1>4. IsFiniteSet((n + 1)..(n + NodeSize)) /\ Cardinality((n + 1)..(n + NodeSize)) = NodeSize
    BY <1>1, <1>3, FS_Interval
  <1>5. D \in SUBSET ((n + 1)..(n + NodeSize))
    BY <1>3
  <1>6. /\ IsFiniteSet(D) /\ Cardinality(D) <= NodeSize
        /\ Cardinality(D) = NodeSize => D = (n + 1)..(n + NodeSize)
    BY <1>4, <1>5, FS_Subset, ZenonT(30)
  <1>7. QED
    BY <1>3, <1>6, FS_CardinalityType

(* The initial state satisfies the inductive invariant.                     *)
LEMMA InitInv == Init => IInv
  <1>1. SUFFICES ASSUME Init PROVE IInv
    OBVIOUS
  <1> USE DEF Init, Empty
  <1>2. TypeOK
    BY <1>1, StreamFacts DEF TypeOK
  <1>3. OneHolder /\ OneCompleter /\ ValueExact /\ ReturnedWhole
    <2>1. /\ counted = {} /\ Len(completed) = 0 /\ \A t \in Threads : pc[t] = "idle"
          /\ \A s \in SequenceNumbers : value[s] = 0
      BY <1>1
    <2>2. QED
      BY <2>1 DEF OneHolder, OneCompleter, ValueExact, ReturnedWhole, Collecting, Completing
  <1>4. CounterExact
    BY <1>1, StreamFacts DEF CounterExact, Outstanding, Counted, ChunkNumbers
  <1>5. NodesExact
    <2>1. \A i \in Items : i \in incoming
      BY <1>1
    <2>2. QED
      BY <1>1, <2>1 DEF NodesExact
  <1>6. QED
    BY <1>2, <1>3, <1>4, <1>5 DEF IInv

(* The numbers taken off a node's count stay the same when no chunk is      *)
(* counted and no thread begins or ends its work on a complete number.      *)
LEMMA DecrementedKept ==
    ASSUME counted' = counted,
           \A u \in Threads : pc'[u] \in {"read", "missing"} <=> pc[u] \in {"read", "missing"},
           \A u \in Threads : pc[u] \in {"read", "missing"} => chunk'[u] = chunk[u],
           NEW n
    PROVE  Decremented(n)' = Decremented(n)
  BY DEF Decremented, NumbersOf, ChunksOf, SequenceNumbers, NumChunks, NodeOf

(* What of the invariant a step within update, before the count, preserves. *)
LEMMA UpdatingKeeps ==
    ASSUME IInv, NEW t \in Threads,
           UNCHANGED <<nodes, missing, counter, incoming, counted, completed, chunk, final>>,
           pc[t] \in Collecting, pc'[t] \in Collecting,
           \A u \in Threads : u # t => pc'[u] = pc[u]
    PROVE  OneHolder' /\ CounterExact' /\ OneCompleter' /\ NodesExact' /\ ReturnedWhole'
  <1>1. \A u \in Threads : /\ pc'[u] \in Collecting <=> pc[u] \in Collecting
                           /\ pc'[u] \in Completing <=> pc[u] \in Completing
                           /\ pc'[u] = "idle" <=> pc[u] = "idle"
                           /\ pc'[u] = "erase" <=> pc[u] = "erase"
                           /\ pc'[u] \in {"read", "missing"} <=> pc[u] \in {"read", "missing"}
                           /\ pc'[u] \in {"missing", "erase"} <=> pc[u] \in {"missing", "erase"}
    BY DEF Collecting, Completing
  <1>2. OneHolder'
    BY <1>1 DEF IInv, OneHolder
  <1>3. CounterExact'
    BY DEF IInv, CounterExact, Outstanding, Counted, ChunkNumbers
  <1>4. OneCompleter'
    BY <1>1 DEF IInv, OneCompleter
  <1>5. \A n : Decremented(n)' = Decremented(n)
    BY <1>1, DecrementedKept
  <1>6. NodesExact'
    BY <1>1, <1>5 DEF IInv, NodesExact
  <1>7. ReturnedWhole'
    BY DEF IInv, ReturnedWhole
  <1>8. QED
    BY <1>2, <1>3, <1>4, <1>6, <1>7

(* Loading the value preserves the inductive invariant (loadValue).         *)
LEMMA LoadInv ==
    ASSUME IInv, NEW t \in Threads, loadValue(t)
    PROVE  IInv'
  <1>1. /\ UNCHANGED <<nodes, missing, slots, incoming, counted, completed, chunk, final>>
        /\ pc[t] = "load" /\ pc' = [pc EXCEPT ![t] = "merge"]
        /\ current' = [current EXCEPT ![t] = value[chunk[t].seq]]
    BY DEF loadValue, Goto
  <1>2. chunk[t] \in Items /\ chunk[t].seq \in SequenceNumbers
    BY <1>1, ItemFacts DEF IInv, OneHolder
  <1>3. TypeOK'
    BY <1>1, <1>2 DEF IInv, TypeOK, slots, Collecting
  <1>4. ValueExact'
    BY <1>1, <1>2 DEF IInv, TypeOK, ValueExact, slots
  <1>5. OneHolder' /\ CounterExact' /\ OneCompleter' /\ NodesExact' /\ ReturnedWhole'
    BY <1>1, UpdatingKeeps DEF IInv, TypeOK, slots, Collecting
  <1>6. QED
    BY <1>3, <1>4, <1>5 DEF IInv

(* Merging the watermark preserves the inductive invariant: the value of a  *)
(* slot only grows (mergeValue).                                            *)
LEMMA MergeInv ==
    ASSUME IInv, NEW t \in Threads, mergeValue(t)
    PROVE  IInv'
  <1> DEFINE s == chunk[t].seq
             wm == chunk[t].wm
  <1>1. /\ UNCHANGED <<nodes, missing, counter, seenLast, incoming, counted, completed, chunk, final>>
        /\ pc[t] = "merge"
        /\ \/ /\ wm <= current[t] /\ value' = value
              /\ \E l \in {"last", "count"} : pc' = [pc EXCEPT ![t] = l]
              /\ current' = [current EXCEPT ![t] = 0]
           \/ /\ wm > current[t] /\ value[s] = current[t] /\ value' = [value EXCEPT ![s] = wm]
              /\ \E l \in {"last", "count"} : pc' = [pc EXCEPT ![t] = l]
              /\ current' = [current EXCEPT ![t] = 0]
           \/ value' = value /\ pc' = pc /\ current' = [current EXCEPT ![t] = value[s]]
    BY DEF mergeValue, AfterMerge, Goto
  <1>2. /\ chunk[t] \in Items /\ s \in SequenceNumbers /\ wm \in Nat /\ chunk[t] \in ChunksOf(s)
        /\ current[t] \in Nat /\ value[s] \in Nat /\ current[t] <= value[s]
    BY <1>1, ItemFacts DEF IInv, OneHolder, TypeOK, ValueExact
  <1> HIDE DEF s, wm
  <1>3. TypeOK'
    <2>1. value' \in [SequenceNumbers -> Nat] /\ current' \in [Threads -> Nat]
      <3>1. value \in [SequenceNumbers -> Nat] /\ current \in [Threads -> Nat]
        BY DEF IInv, TypeOK
      <3>2. value' = value \/ value' = [value EXCEPT ![s] = wm]
        BY <1>1
      <3>3. current' = [current EXCEPT ![t] = 0] \/ current' = [current EXCEPT ![t] = value[s]]
        BY <1>1
      <3>4. QED
        BY <1>2, <3>1, <3>2, <3>3
    <2>2. pc' \in [Threads -> {"idle"} \cup Collecting \cup Completing]
      BY <1>1, ZenonT(30) DEF IInv, TypeOK, Collecting
    <2>3. QED
      BY <1>1, <2>1, <2>2 DEF IInv, TypeOK
  <1>4. /\ value' \in [SequenceNumbers -> Nat]
        /\ \A r \in SequenceNumbers : value[r] <= value'[r]
        /\ \A r \in SequenceNumbers : value'[r] = value[r] \/ (r = s /\ value'[r] = wm)
        /\ pc'[t] \in {"last", "count"} => wm <= value'[s]
        /\ pc'[t] = "merge" => current'[t] <= value'[s]
        /\ pc'[t] \in {"merge", "last", "count"}
        /\ \A u \in Threads : u # t => pc'[u] = pc[u] /\ current'[u] = current[u]
    <2>1. value' \in [SequenceNumbers -> Nat] /\ value \in [SequenceNumbers -> Nat]
          /\ pc \in [Threads -> {"idle"} \cup Collecting \cup Completing] /\ current \in [Threads -> Nat]
      BY <1>3 DEF IInv, TypeOK
    <2>2. \A u \in Threads : u # t => pc'[u] = pc[u] /\ current'[u] = current[u]
      BY <1>1, <2>1
    <2>3. pc'[t] \in {"merge", "last", "count"}
      BY <1>1, <2>1
    <2>4. CASE value' = value /\ pc' = pc /\ current' = [current EXCEPT ![t] = value[s]]
      BY <1>1, <1>2, <2>1, <2>2, <2>4
    <2>5. CASE wm <= current[t] /\ value' = value /\ pc'[t] \in {"last", "count"}
      BY <1>2, <2>1, <2>2, <2>5
    <2>6. CASE /\ wm > current[t] /\ value[s] = current[t] /\ value' = [value EXCEPT ![s] = wm]
               /\ pc'[t] \in {"last", "count"}
      BY <1>2, <2>1, <2>2, <2>6
    <2>7. QED
      BY <1>1, <2>1, <2>4, <2>5, <2>6
  <1>5. ValueExact'
    <2>1. \A r \in SequenceNumbers : value'[r] = 0 \/ \E i \in ChunksOf(r) : i.wm = value'[r]
      BY <1>2, <1>4 DEF IInv, ValueExact, wm
    <2>2. \A i \in counted : i.wm <= value'[i.seq]
      <3>1. \A i \in counted : i.seq \in SequenceNumbers /\ i.wm \in Nat /\ i.wm <= value[i.seq] /\ value[i.seq] \in Nat
        BY ItemFacts DEF IInv, TypeOK, ValueExact
      <3>2. QED
        BY <1>4, <3>1
    <2>3. ASSUME NEW u \in Threads
          PROVE  /\ pc'[u] = "merge" => current'[u] <= value'[chunk[u].seq]
                 /\ pc'[u] \in {"last", "count"} => chunk[u].wm <= value'[chunk[u].seq]
      <3>1. CASE u = t
        BY <1>4, <3>1 DEF s, wm
      <3>2. CASE u # t /\ pc[u] \in {"merge", "last", "count"}
        <4>1. chunk[u].seq \in SequenceNumbers /\ chunk[u].wm \in Nat /\ current[u] \in Nat /\ value[chunk[u].seq] \in Nat
          BY <3>2, ItemFacts DEF IInv, OneHolder, TypeOK
        <4>2. QED
          BY <1>4, <3>2, <4>1 DEF IInv, ValueExact
      <3>3. CASE u # t /\ pc[u] \notin {"merge", "last", "count"}
        BY <1>4, <3>3
      <3>4. QED
        BY <3>1, <3>2, <3>3
    <2>4. QED
      BY <1>1, <2>1, <2>2, <2>3 DEF ValueExact, ChunksOf, SequenceNumbers, NumChunks
  <1>6. OneHolder' /\ CounterExact' /\ OneCompleter' /\ NodesExact' /\ ReturnedWhole'
    BY <1>1, <1>4, UpdatingKeeps DEF Collecting
  <1>7. QED
    BY <1>3, <1>5, <1>6 DEF IInv

(* Noting that the last chunk was seen preserves the inductive invariant    *)
(* (markLastSeen).                                                          *)
LEMMA MarkInv ==
    ASSUME IInv, NEW t \in Threads, markLastSeen(t)
    PROVE  IInv'
  <1>1. /\ UNCHANGED <<nodes, missing, counter, value, current, incoming, counted, completed, chunk, final>>
        /\ pc[t] = "last" /\ pc' = [pc EXCEPT ![t] = "count"]
    BY DEF markLastSeen, Goto
  <1>2. TypeOK'
    BY <1>1 DEF IInv, TypeOK, Collecting
  <1>3. ValueExact'
    BY <1>1 DEF IInv, TypeOK, ValueExact
  <1>4. OneHolder' /\ CounterExact' /\ OneCompleter' /\ NodesExact' /\ ReturnedWhole'
    BY <1>1, UpdatingKeeps DEF IInv, TypeOK, Collecting
  <1>5. QED
    BY <1>2, <1>3, <1>4 DEF IInv

(* Finding or appending a node preserves the inductive invariant: a node is *)
(* appended before any of its chunks came, so fresh slots forget nothing    *)
(* (findNode).                                                              *)
LEMMA FindInv ==
    ASSUME IInv, NEW t \in Threads, NEW i \in incoming, findNode(t, i)
    PROVE  IInv'
  <1> DEFINE n == NodeOf(i.seq)
  <1>1. /\ pc[t] = "idle" /\ pc' = [pc EXCEPT ![t] = "load"]
        /\ incoming' = incoming \ {i} /\ chunk' = [chunk EXCEPT ![t] = i]
        /\ UNCHANGED <<current, final, counted, completed>>
        /\ nodes' = nodes \cup {n}
    BY ZenonT(30) DEF findNode
  <1>2. i \in Items /\ i.seq \in SequenceNumbers /\ n \in NodeStarts /\ i \notin counted
    BY ItemFacts DEF IInv, TypeOK, OneHolder, NodeStarts
  <1>3. /\ \A u \in Threads : u # t => pc'[u] = pc[u] /\ chunk'[u] = chunk[u]
        /\ pc'[t] = "load" /\ chunk'[t] = i
    BY <1>1 DEF IInv, TypeOK
  <1>4. \A r \in SequenceNumbers : NodeOf(r) = n /\ n \notin nodes =>
           /\ \A j \in Items : j.seq = r => j \in incoming /\ j \notin counted
           /\ Counted(r) = {}
    <2>1. SUFFICES ASSUME NEW r \in SequenceNumbers, NodeOf(r) = n, n \notin nodes
                   PROVE  /\ \A j \in Items : j.seq = r => j \in incoming /\ j \notin counted
                          /\ Counted(r) = {}
      OBVIOUS
    <2>2. \A j \in Items : NodeOf(j.seq) = n => j \in incoming
      BY <1>2, <2>1 DEF IInv, NodesExact
    <2>3. \A j \in Items : j.seq = r => j \in incoming /\ j \notin counted
      BY <2>1, <2>2 DEF IInv, OneHolder
    <2>4. QED
      BY <2>3, ItemFacts DEF Counted, ChunkNumbers
  <1> HIDE DEF n
  <1>5. /\ \A r \in SequenceNumbers :
             \/ counter'[r] = counter[r] /\ value'[r] = value[r]
             \/ NodeOf(r) = n /\ n \notin nodes /\ counter'[r] = 0 /\ value'[r] = 0
        /\ counter' \in [SequenceNumbers -> Int] /\ value' \in [SequenceNumbers -> Nat]
        /\ missing' \in [NodeStarts -> Int]
        /\ \A m \in nodes : missing'[m] = missing[m]
        /\ n \notin nodes => missing'[n] = NodeSize
    <2>1. /\ counter \in [SequenceNumbers -> Int] /\ value \in [SequenceNumbers -> Nat]
          /\ missing \in [NodeStarts -> Int] /\ nodes \subseteq NodeStarts /\ NodeSize \in Int
      BY StreamFacts DEF IInv, TypeOK
    <2>2. CASE n \in nodes
      <3>1. missing' = missing /\ counter' = counter /\ value' = value
        BY <2>2, ZenonT(30) DEF findNode, slots, n
      <3>2. QED
        BY <2>1, <2>2, <3>1
    <2>3. CASE n \notin nodes
      <3>1. /\ missing' = [missing EXCEPT ![n] = NodeSize]
            /\ counter' = [r \in SequenceNumbers |-> IF NodeOf(r) = n THEN 0 ELSE counter[r]]
            /\ value' = [r \in SequenceNumbers |-> IF NodeOf(r) = n THEN 0 ELSE value[r]]
        BY <2>3, ZenonT(30) DEF findNode, n
      <3>2. QED
        BY <1>2, <2>1, <2>3, <3>1
    <2>4. QED
      BY <2>2, <2>3
  <1>7. TypeOK'
    BY <1>1, <1>2, <1>5 DEF IInv, TypeOK, Collecting
  <1>8. OneHolder'
    BY <1>1, <1>2, <1>3 DEF IInv, OneHolder, n, Collecting
  <1>9. CounterExact'
    <2>1. \A r : Outstanding(r)' = Outstanding(r)
      BY <1>1 DEF Outstanding, Counted, ChunkNumbers
    <2>2. \A r \in SequenceNumbers : Counted(r) = {} => Outstanding(r) = 0
      BY DEF Outstanding
    <2>3. \A r \in SequenceNumbers : counter'[r] = Outstanding(r)
      BY <1>4, <1>5, <2>2 DEF IInv, CounterExact
    <2>4. QED
      BY <2>1, <2>3 DEF CounterExact
  <1>10. ValueExact'
    <2>1. \A r \in SequenceNumbers : value'[r] = 0 \/ \E j \in ChunksOf(r) : j.wm = value'[r]
      BY <1>5 DEF IInv, ValueExact
    <2>2. \A j \in counted : j.wm <= value'[j.seq]
      <3>1. \A j \in counted : j \in Items /\ j.seq \in SequenceNumbers
        BY ItemFacts DEF IInv, TypeOK
      <3>2. \A j \in counted : value'[j.seq] = value[j.seq]
        BY <1>4, <1>5, <3>1
      <3>3. QED
        BY <3>2 DEF IInv, ValueExact
    <2>3. \A u \in Threads : u # t /\ pc[u] # "idle" => value'[chunk[u].seq] = value[chunk[u].seq]
      <3>1. \A u \in Threads : pc[u] # "idle" => chunk[u].seq \in SequenceNumbers /\ NodeOf(chunk[u].seq) \in nodes
        BY ItemFacts DEF IInv, OneHolder
      <3>2. QED
        BY <1>5, <3>1
    <2>4. \A u \in Threads :
             /\ pc'[u] = "merge" => current'[u] <= value'[chunk'[u].seq]
             /\ pc'[u] \in {"last", "count"} => chunk'[u].wm <= value'[chunk'[u].seq]
      BY <1>1, <1>3, <2>3 DEF IInv, ValueExact
    <2>5. QED
      BY <1>1, <2>1, <2>2, <2>4 DEF ValueExact
  <1>11. OneCompleter'
    BY <1>1, <1>3 DEF IInv, OneCompleter, Completing
  <1>12. NodesExact'
    <2>1. \A m : Decremented(m)' = Decremented(m)
      BY <1>1, <1>3, DecrementedKept
    <2>2. n \notin nodes => Decremented(n) = {}
      <3>1. ASSUME n \notin nodes, NEW r \in Decremented(n) PROVE FALSE
        <4>1. r \in SequenceNumbers /\ NodeOf(r) = n /\ ChunksOf(r) \subseteq counted
          BY <3>1 DEF Decremented, NumbersOf
        <4>2. ChunkAt(r, 1) \in ChunksOf(r) /\ ChunkAt(r, 1) \in Items /\ ChunkAt(r, 1).seq = r
          BY <4>1, ItemFacts, StreamFacts
        <4>3. QED
          BY <1>4, <3>1, <4>1, <4>2
      <3>2. QED
        BY <3>1
    <2>3. \A m \in nodes' : missing'[m] = NodeSize - Cardinality(Decremented(m))
      <3>1. \A m \in nodes : missing'[m] = NodeSize - Cardinality(Decremented(m))
        BY <1>5 DEF IInv, NodesExact
      <3>2. n \notin nodes => missing'[n] = NodeSize - Cardinality(Decremented(n))
        <4>1. n \notin nodes => Cardinality(Decremented(n)) = 0
          BY <2>2, FS_EmptySet
        <4>2. QED
          BY <1>5, <4>1, StreamFacts
      <3>3. QED
        BY <1>1, <3>1, <3>2 DEF n
    <2>4. \A m \in NodeStarts \ nodes' :
             \/ \A j \in Items : NodeOf(j.seq) = m => j \in incoming'
             \/ \A j \in Items : NodeOf(j.seq) = m => j \notin incoming'
      BY <1>1 DEF IInv, NodesExact, n
    <2>5. QED
      BY <1>3, <2>1, <2>3, <2>4 DEF IInv, NodesExact
  <1>13. ReturnedWhole'
    BY <1>1 DEF IInv, ReturnedWhole
  <1>14. QED
    BY <1>7, <1>8, <1>9, <1>10, <1>11, <1>12, <1>13 DEF IInv

(* Counting a chunk keeps the counter exact, although it wraps (Updated).   *)
LEMMA CountStep ==
    ASSUME IInv, NEW i \in Items, i \notin counted, counted' = counted \cup {i}
    PROVE  /\ Updated(i) = Outstanding(i.seq)'
           /\ \A r \in SequenceNumbers : r # i.seq => Outstanding(r)' = Outstanding(r)
           /\ Updated(i) = 0 <=> ChunksOf(i.seq) \subseteq counted'
  <1> DEFINE s == i.seq
             N == NumChunks(s)
             k == Cardinality(Counted(s))
  <1>1. s \in SequenceNumbers /\ i.chunk \in 1..N /\ i = ChunkAt(s, i.chunk) /\ (i.last <=> i.chunk = N)
    BY ItemFacts
  <1>2. N \in Nat \ {0} /\ N < CounterRange /\ CounterRange \in Nat
    BY <1>1, StreamFacts, ZenonT(30)
  <1>3. Counted(s)' = Counted(s) \cup {i.chunk} /\ i.chunk \notin Counted(s)
    <2>1. \A c \in 1..N : ChunkAt(s, c) = i <=> c = i.chunk
      BY <1>1, ItemFacts
    <2>2. QED
      BY <1>1, <2>1 DEF Counted, ChunkNumbers
  <1>4. \A r \in SequenceNumbers : r # s => Counted(r)' = Counted(r)
    <2>1. \A r \in SequenceNumbers : \A c \in 1..NumChunks(r) : r # s => ChunkAt(r, c) # i
      BY ItemFacts
    <2>2. QED
      BY <2>1 DEF Counted, ChunkNumbers
  <1>5. \A r \in SequenceNumbers : r # s => Outstanding(r)' = Outstanding(r)
    BY <1>4 DEF Outstanding
  <1>6. /\ k \in Nat /\ k <= N /\ Cardinality(Counted(s) \cup {i.chunk}) = k + 1
        /\ (k = 0 <=> Counted(s) = {}) /\ (N \notin Counted(s) => k <= N - 1)
    BY <1>1, <1>3, CountFacts, FS_AddElement, ZenonT(30) DEF Counted
  <1>7. /\ k + 1 = N <=> ChunksOf(s) \subseteq counted'
        /\ k + 1 <= N
        /\ N \notin Counted(s)' => k + 1 <= N - 1
    <2>1. Counted(s)' = ChunkNumbers(s, counted')
      BY DEF Counted, ChunkNumbers
    <2>2. Cardinality(ChunkNumbers(s, counted')) = k + 1
      BY <1>3, <1>6, <2>1, ZenonT(30)
    <2>3. QED
      BY <1>1, <2>1, <2>2, CountFacts
  <1>8. counter[s] = IF N \in Counted(s) THEN N - k ELSE IF Counted(s) = {} THEN 0 ELSE CounterRange - k
    BY <1>1 DEF IInv, CounterExact, Outstanding
  <1>9. Outstanding(s)' = IF N \in Counted(s)' THEN N - (k + 1) ELSE CounterRange - (k + 1)
    <2>1. /\ Cardinality(Counted(s))' = k + 1 /\ Counted(s)' # {}
      BY <1>3, <1>6
    <2>2. QED
      BY <2>1 DEF Outstanding, NumChunks
  <1>10. Updated(i) = Wrap(counter[s] + (IF i.chunk = N THEN N - 1 ELSE -1))
    BY <1>1 DEF Updated
  <1> HIDE DEF k, N, s
  <1>11. Updated(i) = Outstanding(s)'
    <2>1. CASE i.chunk = N
      <3>1. N \notin Counted(s) /\ N \in Counted(s)'
        BY <1>3, <2>1
      <3>2. CASE Counted(s) = {}
        <4>1. k = 0 /\ counter[s] + (N - 1) = N - 1
          BY <1>2, <1>6, <1>8, <3>1, <3>2
        <4>2. QED
          BY <1>2, <1>9, <1>10, <2>1, <3>1, <4>1, WrapFacts
      <3>3. CASE Counted(s) # {}
        <4>1. counter[s] + (N - 1) = CounterRange + (N - 1 - k) /\ N - 1 - k \in 0..(CounterRange - 1)
          BY <1>2, <1>6, <1>8, <3>1, <3>3
        <4>2. Wrap(counter[s] + (N - 1)) = N - 1 - k
          BY <1>2, <1>6, <4>1, WrapFacts
        <4>3. QED
          BY <1>2, <1>6, <1>9, <1>10, <2>1, <3>1, <4>2
      <3>4. QED
        BY <3>2, <3>3
    <2>2. CASE i.chunk # N
      <3>1. N \in Counted(s)' <=> N \in Counted(s)
        BY <1>3, <2>2
      <3>2. CASE N \in Counted(s)
        <4>1. counter[s] + (-1) = N - (k + 1) /\ N - (k + 1) \in 0..(CounterRange - 1)
          BY <1>2, <1>6, <1>7, <1>8, <3>2
        <4>2. QED
          BY <1>9, <1>10, <2>2, <3>1, <3>2, <4>1, WrapFacts
      <3>3. CASE N \notin Counted(s) /\ Counted(s) = {}
        <4>1. counter[s] + (-1) = -1 /\ k = 0
          BY <1>6, <1>8, <3>3
        <4>2. QED
          BY <1>2, <1>9, <1>10, <2>2, <3>1, <3>3, <4>1, WrapFacts
      <3>4. CASE N \notin Counted(s) /\ Counted(s) # {}
        <4>1. counter[s] + (-1) = CounterRange - (k + 1) /\ CounterRange - (k + 1) \in 0..(CounterRange - 1)
          BY <1>2, <1>6, <1>7, <1>8, <3>4
        <4>2. QED
          BY <1>9, <1>10, <2>2, <3>1, <3>4, <4>1, WrapFacts
      <3>5. QED
        BY <3>2, <3>3, <3>4
    <2>3. QED
      BY <2>1, <2>2
  <1>12. Outstanding(s)' = 0 <=> ChunksOf(s) \subseteq counted'
    BY <1>2, <1>6, <1>7, <1>9
  <1>13. QED
    BY <1>5, <1>11, <1>12 DEF s
=============================================================================
