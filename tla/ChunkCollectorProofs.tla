------------------------ MODULE ChunkCollectorProofs ------------------------
(***************************************************************************)
(* Proofs about ChunkCollector, continued from ChunkCollectorInvariant: the*)
(* steps that count a chunk and complete a sequence number, and the        *)
(* theorems.                                                               *)
(***************************************************************************)
EXTENDS ChunkCollectorInvariant

(* The elements of a sequence over a set are in the set.                    *)
LEMMA SeqElements ==
    ASSUME NEW S, NEW q \in Seq(S)
    PROVE  \A k \in 1..Len(q) : q[k] \in S
  OBVIOUS

(* Counting a chunk preserves the inductive invariant: the thread whose     *)
(* count makes the counter zero, and no other, completes the number         *)
(* (countChunk).                                                            *)
LEMMA CountInv ==
    ASSUME IInv, NEW t \in Threads, countChunk(t)
    PROVE  IInv'
  <1>0. PICK i \in Items : i = chunk[t]
    BY DEF countChunk, IInv, OneHolder
  <1> DEFINE s == i.seq
             complete == ChunksOf(s) \subseteq counted'
  <1>1. /\ pc[t] = "count" /\ counted' = counted \cup {i}
        /\ counter' = [counter EXCEPT ![s] = Updated(i)]
        /\ UNCHANGED <<nodes, missing, value, current, incoming, completed>>
    BY <1>0 DEF countChunk
  <1>2. i \in Items /\ i \notin counted /\ i \notin incoming /\ s \in SequenceNumbers /\ i \in ChunksOf(s)
    BY <1>0, <1>1, ItemFacts DEF IInv, OneHolder, Collecting
  <1>3. /\ Updated(i) = Outstanding(s)'
        /\ \A r \in SequenceNumbers : r # s => Outstanding(r)' = Outstanding(r)
        /\ Updated(i) = 0 <=> complete
    BY <1>1, <1>2, CountStep
  <1>4. /\ \A u \in Threads : u # t => pc'[u] = pc[u] /\ chunk'[u] = chunk[u] /\ final'[u] = final[u]
        /\ \/ complete /\ pc'[t] = "read" /\ chunk'[t] = i
           \/ ~complete /\ pc'[t] = "idle"
        /\ pc' \in [Threads -> {"idle"} \cup Collecting \cup Completing]
        /\ chunk' \in [Threads -> Items \cup {NoChunk}]
        /\ final' \in [Threads -> Nat]
    <2>1. /\ pc \in [Threads -> {"idle"} \cup Collecting \cup Completing]
          /\ chunk \in [Threads -> Items \cup {NoChunk}] /\ final \in [Threads -> Nat]
      BY DEF IInv, TypeOK
    <2>2. CASE complete
      <3>1. pc' = [pc EXCEPT ![t] = "read"] /\ chunk' = chunk /\ final' = final
        BY <1>0, <1>3, <2>2 DEF countChunk, Goto
      <3>2. QED
        BY <1>0, <2>1, <2>2, <3>1 DEF Completing
    <2>3. CASE ~complete
      <3>1. /\ pc' = [pc EXCEPT ![t] = "idle"] /\ chunk' = [chunk EXCEPT ![t] = NoChunk]
            /\ final' = [final EXCEPT ![t] = 0]
        BY <1>0, <1>3, <2>3 DEF countChunk, Leave
      <3>2. QED
        BY <2>1, <2>3, <3>1
    <2>4. QED
      BY <2>2, <2>3
  <1>5. ~(ChunksOf(s) \subseteq counted)
    BY <1>2
  <1>6. \A r \in SequenceNumbers : r # s => (ChunksOf(r) \subseteq counted' <=> ChunksOf(r) \subseteq counted)
    BY <1>1, <1>2, ItemFacts
  <1>7. \A r \in SequenceNumbers : Outstanding(r)' \in Int
    <2>1. \A r \in SequenceNumbers : Outstanding(r) \in Int
      BY OutstandingFacts, StreamFacts
    <2>2. Updated(i) \in Int
      <3>0. NumChunks(s) \in Nat \ {0} /\ NumChunks(s) < CounterRange /\ CounterRange \in Nat /\ i.chunk \in 1..NumChunks(s)
        BY <1>2, StreamFacts, ItemFacts, ZenonT(30)
      <3>1. CounterRange \in Nat \ {0}
        BY <3>0
      <3>2. \A x \in Int : Wrap(x) \in Int
        BY <3>1 DEF Wrap
      <3>3. counter[s] \in Int /\ i.chunk \in Int
        <4>1. counter \in [SequenceNumbers -> Int]
          BY DEF IInv, TypeOK
        <4>2. QED
          BY <1>2, <3>0, <4>1
      <3>4. counter[s] + (IF i.last THEN i.chunk - 1 ELSE -1) \in Int
        BY <3>3
      <3>5. QED
        BY <3>2, <3>4 DEF Updated
    <2>3. QED
      BY <1>3, <2>1, <2>2
  <1> HIDE DEF s, complete
  <1>8. CounterExact'
    <2>1. counter \in [SequenceNumbers -> Int]
      BY DEF IInv, TypeOK
    <2>2. \A r \in SequenceNumbers : counter'[r] = Outstanding(r)'
      BY <1>1, <1>2, <1>3, <2>1 DEF IInv, CounterExact
    <2>3. QED
      BY <2>2 DEF CounterExact
  <1>9. TypeOK'
    <2>1. counter' \in [SequenceNumbers -> Int]
      BY <1>1, <1>2, <1>3, <1>7 DEF IInv, TypeOK
    <2>2. QED
      BY <1>1, <1>2, <1>4, <2>1 DEF IInv, TypeOK
  <1>10. OneHolder'
    <2>1. \A u \in Threads : pc'[u] \in Collecting => u # t /\ pc[u] \in Collecting
      BY <1>4 DEF Collecting
    <2>2. \A u \in Threads : u # t /\ pc[u] \in Collecting => chunk[u] # i
      BY <1>0, <1>1 DEF IInv, OneHolder, Collecting
    <2>3. \A u \in Threads : pc'[u] # "idle" => chunk'[u] = chunk[u] /\ pc[u] # "idle"
      BY <1>0, <1>1, <1>4
    <2>4. incoming' \cap counted' = {}
      BY <1>1, <1>2 DEF IInv, OneHolder
    <2>5. \A u \in Threads : pc'[u] # "idle" =>
             /\ chunk'[u] \in Items \ incoming'
             /\ NodeOf(chunk'[u].seq) \in nodes'
             /\ pc'[u] \in Collecting => chunk'[u] \notin counted'
      BY <1>1, <2>1, <2>2, <2>3 DEF IInv, OneHolder
    <2>6. \A u, v \in Threads :
             pc'[u] \in Collecting /\ pc'[v] \in Collecting /\ chunk'[u] = chunk'[v] => u = v
      BY <1>4, <2>1 DEF IInv, OneHolder
    <2>7. QED
      BY <2>4, <2>5, <2>6 DEF OneHolder, Items, ChunksOf, SequenceNumbers, NumChunks, NodeOf, Collecting
  <1>11. ValueExact'
    <2>1. i.wm <= value[s]
      BY <1>0, <1>1 DEF IInv, ValueExact, s
    <2>2. \A j \in counted' : j.wm <= value[j.seq]
      BY <1>1, <2>1 DEF IInv, ValueExact, s
    <2>3. \A u \in Threads :
             /\ pc'[u] = "merge" => current[u] <= value[chunk'[u].seq]
             /\ pc'[u] \in {"last", "count"} => chunk'[u].wm <= value[chunk'[u].seq]
      BY <1>4 DEF IInv, ValueExact
    <2>4. QED
      BY <1>1, <2>2, <2>3 DEF IInv, ValueExact
  <1>12. \A u \in Threads : pc[u] \in Completing => chunk[u].seq # s /\ chunk[u].seq \in SequenceNumbers
    BY <1>5, ItemFacts DEF IInv, OneCompleter, OneHolder, Completing
  <1>13. \A k \in 1..Len(completed) : completed[k].seq # s /\ completed[k].seq \in SequenceNumbers
    <2>1. \A k \in 1..Len(completed) : completed[k] \in [seq : SequenceNumbers, wm : Nat]
      BY SeqElements, ZenonT(30) DEF IInv, TypeOK
    <2>2. \A k \in 1..Len(completed) : ChunksOf(completed[k].seq) \subseteq counted
      BY DEF IInv, ReturnedWhole
    <2>3. QED
      BY <1>5, <2>1, <2>2
  <1>14. \A u \in Threads : pc'[u] \in Completing =>
            \/ u = t /\ pc'[u] = "read" /\ chunk'[u].seq = s /\ complete
            \/ u # t /\ pc[u] = pc'[u] /\ pc[u] \in Completing /\ chunk'[u] = chunk[u] /\ final'[u] = final[u]
    BY <1>4 DEF Completing, s
  <1>15. OneCompleter'
    <2>1. \A u \in Threads : pc'[u] \in Completing => ChunksOf(chunk'[u].seq) \subseteq counted'
      BY <1>1, <1>14 DEF IInv, OneCompleter, complete
    <2>2. \A u \in Threads : pc'[u] \in {"missing", "erase"} => IsMaxWatermark(chunk'[u].seq, final'[u])
      BY <1>14 DEF IInv, OneCompleter, Completing
    <2>3. \A u, v \in Threads :
             pc'[u] \in Completing /\ pc'[v] \in Completing /\ chunk'[u].seq = chunk'[v].seq => u = v
      BY <1>12, <1>14 DEF IInv, OneCompleter
    <2>4. \A u \in Threads, k \in 1..Len(completed) :
             pc'[u] \in Completing => chunk'[u].seq # completed[k].seq
      BY <1>13, <1>14 DEF IInv, OneCompleter
    <2>5. QED
      BY <1>1, <2>1, <2>2, <2>3, <2>4 DEF OneCompleter, IsMaxWatermark, ChunksOf, NumChunks
  <1>16. \A n : Decremented(n)' = Decremented(n)
    <2>1. TAKE n
    <2>2. \A r \in NumbersOf(n) : r \in SequenceNumbers
      BY DEF NumbersOf
    <2>3. ASSUME NEW r \in NumbersOf(n)
          PROVE  ( /\ ChunksOf(r) \subseteq counted'
                   /\ \A u \in Threads : pc'[u] \in {"read", "missing"} => chunk'[u].seq # r )
                 <=>
                 ( /\ ChunksOf(r) \subseteq counted
                   /\ \A u \in Threads : pc[u] \in {"read", "missing"} => chunk[u].seq # r )
      <3>1. CASE r = s
        BY <1>4, <1>5, <3>1 DEF complete, s
      <3>2. CASE r # s
        <4>1. \A u \in Threads : (pc'[u] \in {"read", "missing"} /\ chunk'[u].seq = r)
                                   <=> (pc[u] \in {"read", "missing"} /\ chunk[u].seq = r)
          BY <1>0, <1>1, <1>4, <3>2 DEF s
        <4>2. QED
          BY <1>6, <2>2, <3>2, <4>1
      <3>3. QED
        BY <3>1, <3>2
    <2>4. QED
      BY <2>3 DEF Decremented, NumbersOf, ChunksOf, SequenceNumbers, NumChunks, NodeOf
  <1>17. NodesExact'
    <2>1. \A u \in Threads : pc'[u] = "erase" => pc[u] = "erase" /\ chunk'[u] = chunk[u]
      BY <1>4
    <2>2. QED
      BY <1>1, <1>16, <2>1 DEF IInv, NodesExact
  <1>18. ReturnedWhole'
    BY <1>1 DEF IInv, ReturnedWhole
  <1>19. QED
    BY <1>8, <1>9, <1>10, <1>11, <1>15, <1>17, <1>18 DEF IInv

(* Once all chunks of a number were counted, its value is the largest of    *)
(* their watermarks.                                                        *)
LEMMA CompleteValue ==
    ASSUME IInv, NEW s \in SequenceNumbers, ChunksOf(s) \subseteq counted
    PROVE  IsMaxWatermark(s, value[s])
  <1>1. \A i \in ChunksOf(s) : i.wm <= value[s] /\ i.wm \in Nat
    BY ItemFacts DEF IInv, ValueExact
  <1>2. value[s] = 0 \/ \E i \in ChunksOf(s) : i.wm = value[s]
    BY DEF IInv, ValueExact
  <1>3. ChunkAt(s, 1) \in ChunksOf(s)
    BY ItemFacts, StreamFacts
  <1>4. CASE value[s] = 0
    BY <1>1, <1>3, <1>4 DEF IsMaxWatermark
  <1>5. QED
    BY <1>1, <1>2, <1>4 DEF IsMaxWatermark

(* Reading the final watermark preserves the inductive invariant            *)
(* (readFinal).                                                             *)
LEMMA ReadInv ==
    ASSUME IInv, NEW t \in Threads, readFinal(t)
    PROVE  IInv'
  <1>1. /\ pc[t] = "read" /\ pc' = [pc EXCEPT ![t] = "missing"]
        /\ final' = [final EXCEPT ![t] = value[chunk[t].seq]]
        /\ UNCHANGED <<nodes, missing, counter, value, chunk, current, incoming, counted, completed>>
    BY DEF readFinal, slots
  <1>2. /\ chunk[t].seq \in SequenceNumbers /\ IsMaxWatermark(chunk[t].seq, value[chunk[t].seq])
        /\ value[chunk[t].seq] \in Nat
    BY <1>1, CompleteValue, ItemFacts DEF IInv, OneHolder, OneCompleter, Completing, TypeOK
  <1>3. /\ \A u \in Threads : u # t => pc'[u] = pc[u] /\ final'[u] = final[u]
        /\ pc'[t] = "missing" /\ final'[t] = value[chunk[t].seq]
    BY <1>1 DEF IInv, TypeOK
  <1>4. TypeOK'
    BY <1>1, <1>2 DEF IInv, TypeOK, Completing
  <1>5. OneHolder' /\ ValueExact'
    BY <1>1, <1>3 DEF IInv, OneHolder, ValueExact, Collecting
  <1>6. CounterExact'
    BY <1>1, ZenonT(30) DEF IInv, CounterExact, Outstanding, Counted, ChunkNumbers
  <1>7. OneCompleter'
    <2>1. \A u \in Threads : pc'[u] \in {"missing", "erase"} => IsMaxWatermark(chunk[u].seq, final'[u])
      BY <1>2, <1>3 DEF IInv, OneCompleter
    <2>2. \A u \in Threads : pc'[u] \in Completing <=> pc[u] \in Completing
      BY <1>1, <1>3 DEF Completing
    <2>3. QED
      BY <1>1, <2>1, <2>2 DEF IInv, OneCompleter, IsMaxWatermark, ChunksOf, NumChunks
  <1>8. NodesExact'
    <2>1. \A n : Decremented(n)' = Decremented(n)
      BY <1>1, <1>3, DecrementedKept
    <2>2. \A u \in Threads : pc'[u] = "erase" <=> pc[u] = "erase"
      BY <1>1, <1>3
    <2>3. QED
      BY <1>1, <2>1, <2>2 DEF IInv, NodesExact
  <1>9. ReturnedWhole'
    BY <1>1 DEF IInv, ReturnedWhole
  <1>10. QED
    BY <1>4, <1>5, <1>6, <1>7, <1>8, <1>9 DEF IInv

(* Returning a complete number keeps what is known of complete numbers      *)
(* (Return).                                                                *)
LEMMA ReturnKeeps ==
    ASSUME IInv, NEW t \in Threads, pc[t] \in {"missing", "erase"}, Return(t), counted' = counted
    PROVE  /\ OneCompleter' /\ ReturnedWhole'
           /\ completed' \in Seq([seq : SequenceNumbers, wm : Nat])
           /\ pc' \in [Threads -> {"idle"} \cup Collecting \cup Completing]
           /\ chunk' \in [Threads -> Items \cup {NoChunk}]
           /\ final' \in [Threads -> Nat]
           /\ pc'[t] = "idle"
           /\ \A u \in Threads : u # t => pc'[u] = pc[u] /\ chunk'[u] = chunk[u] /\ final'[u] = final[u]
  <1>0. PICK s : s = chunk[t].seq
    OBVIOUS
  <1>00. PICK w : w = final[t]
    OBVIOUS
  <1>1. /\ pc' = [pc EXCEPT ![t] = "idle"] /\ chunk' = [chunk EXCEPT ![t] = NoChunk]
        /\ final' = [final EXCEPT ![t] = 0] /\ completed' = Append(completed, [seq |-> s, wm |-> w])
    BY <1>0, <1>00 DEF Return, Leave
  <1>2. /\ pc \in [Threads -> {"idle"} \cup Collecting \cup Completing]
        /\ chunk \in [Threads -> Items \cup {NoChunk}] /\ final \in [Threads -> Nat]
        /\ completed \in Seq([seq : SequenceNumbers, wm : Nat])
    BY DEF IInv, TypeOK
  <1>3. /\ s \in SequenceNumbers /\ w \in Nat /\ ChunksOf(s) \subseteq counted /\ IsMaxWatermark(s, w)
        /\ \A k \in 1..Len(completed) : completed[k].seq # s
    BY <1>0, <1>00, <1>2, ItemFacts DEF IInv, OneHolder, OneCompleter, Completing
  <1>4. /\ pc' \in [Threads -> {"idle"} \cup Collecting \cup Completing]
        /\ chunk' \in [Threads -> Items \cup {NoChunk}] /\ final' \in [Threads -> Nat]
        /\ pc'[t] = "idle"
        /\ \A u \in Threads : u # t => pc'[u] = pc[u] /\ chunk'[u] = chunk[u] /\ final'[u] = final[u]
    BY <1>1, <1>2
  <1>5. completed' \in Seq([seq : SequenceNumbers, wm : Nat])
    BY <1>1, <1>2, <1>3
  <1>6. /\ Len(completed) \in Nat /\ Len(completed') = Len(completed) + 1
        /\ completed'[Len(completed) + 1] = [seq |-> s, wm |-> w]
        /\ \A k \in 1..Len(completed) : completed'[k] = completed[k]
    BY <1>1, <1>2, <1>3
  <1>7. ReturnedWhole'
    <2>1. SUFFICES ASSUME NEW k \in 1..Len(completed')
                   PROVE  /\ ChunksOf(completed'[k].seq) \subseteq counted
                          /\ IsMaxWatermark(completed'[k].seq, completed'[k].wm)
                          /\ \A j \in 1..(k - 1) : completed'[j].seq # completed'[k].seq
      BY DEF ReturnedWhole, IsMaxWatermark, ChunksOf, NumChunks
    <2>2. CASE k \in 1..Len(completed)
      <3>1. \A j \in 1..(k - 1) : j \in 1..Len(completed)
        BY <1>6, <2>2
      <3>2. QED
        BY <1>6, <2>2, <3>1 DEF IInv, ReturnedWhole
    <2>3. CASE k = Len(completed) + 1
      <3>1. completed'[k].seq = s /\ completed'[k].wm = w
        BY <1>6, <2>3
      <3>2. \A j \in 1..(k - 1) : j \in 1..Len(completed)
        BY <1>6, <2>3
      <3>3. QED
        BY <1>3, <1>6, <3>1, <3>2, ZenonT(30)
    <2>4. QED
      BY <1>6, <2>1, <2>2, <2>3
  <1>8. \A u \in Threads : pc'[u] \in Completing =>
           /\ u # t /\ pc[u] = pc'[u] /\ chunk'[u] = chunk[u] /\ final'[u] = final[u]
           /\ chunk[u].seq # s
    <2>1. \A u \in Threads : u # t /\ pc[u] \in Completing => chunk[u].seq # s
      BY <1>0 DEF IInv, OneCompleter, Completing
    <2>2. QED
      BY <1>4, <2>1 DEF Completing
  <1>9. OneCompleter'
    <2>1. \A u \in Threads : pc'[u] \in Completing => ChunksOf(chunk'[u].seq) \subseteq counted
      BY <1>8 DEF IInv, OneCompleter
    <2>2. \A u \in Threads : pc'[u] \in {"missing", "erase"} => IsMaxWatermark(chunk'[u].seq, final'[u])
      BY <1>8 DEF IInv, OneCompleter, Completing
    <2>3. \A u, v \in Threads :
             pc'[u] \in Completing /\ pc'[v] \in Completing /\ chunk'[u].seq = chunk'[v].seq => u = v
      BY <1>8 DEF IInv, OneCompleter
    <2>4. ASSUME NEW u \in Threads, NEW k \in 1..Len(completed'), pc'[u] \in Completing
          PROVE  chunk'[u].seq # completed'[k].seq
      <3>1. CASE k \in 1..Len(completed)
        BY <1>6, <1>8, <2>4, <3>1 DEF IInv, OneCompleter
      <3>2. CASE k = Len(completed) + 1
        BY <1>6, <1>8, <2>4, <3>2
      <3>3. QED
        BY <1>6, <3>1, <3>2
    <2>5. QED
      BY <2>1, <2>2, <2>3, <2>4 DEF OneCompleter, IsMaxWatermark, ChunksOf, NumChunks
  <1>10. QED
    BY <1>4, <1>5, <1>7, <1>9

(* Taking a complete number off the count of its node preserves the         *)
(* inductive invariant: the thread that takes off the last one finds the    *)
(* node unused (decrementMissing).                                          *)
LEMMA DecrementInv ==
    ASSUME IInv, NEW t \in Threads, decrementMissing(t)
    PROVE  IInv'
  <1>0. PICK i \in Items : i = chunk[t]
    BY DEF decrementMissing, IInv, OneHolder
  <1> DEFINE s == i.seq
             n == NodeOf(s)
  <1>1. /\ pc[t] = "missing" /\ missing' = [missing EXCEPT ![n] = @ - 1]
        /\ UNCHANGED <<nodes, counter, value, current, incoming, counted>>
        /\ \/ /\ missing[n] = 1 /\ pc' = [pc EXCEPT ![t] = "erase"]
              /\ UNCHANGED <<chunk, final, completed>>
           \/ missing[n] # 1 /\ Return(t)
    BY <1>0 DEF decrementMissing, Goto, slots
  <1>2. /\ s \in SequenceNumbers /\ n \in nodes /\ n \in NodeStarts /\ s \in NumbersOf(n)
        /\ ChunksOf(s) \subseteq counted
    BY <1>0, <1>1, ItemFacts DEF IInv, OneHolder, OneCompleter, Completing, NodeStarts, NumbersOf
  <1>3. /\ OneCompleter' /\ ReturnedWhole'
        /\ completed' \in Seq([seq : SequenceNumbers, wm : Nat])
        /\ pc' \in [Threads -> {"idle"} \cup Collecting \cup Completing]
        /\ chunk' \in [Threads -> Items \cup {NoChunk}]
        /\ final' \in [Threads -> Nat]
        /\ \/ pc'[t] = "idle" /\ missing[n] # 1
           \/ pc'[t] = "erase" /\ missing[n] = 1 /\ chunk'[t] = i
        /\ \A u \in Threads : u # t => pc'[u] = pc[u] /\ chunk'[u] = chunk[u]
    <2>1. CASE missing[n] # 1 /\ Return(t)
      BY <1>1, <2>1, ReturnKeeps, ZenonT(30)
    <2>2. CASE /\ missing[n] = 1 /\ pc' = [pc EXCEPT ![t] = "erase"]
               /\ UNCHANGED <<chunk, final, completed>>
      <3>1. /\ pc \in [Threads -> {"idle"} \cup Collecting \cup Completing]
            /\ chunk \in [Threads -> Items \cup {NoChunk}] /\ final \in [Threads -> Nat]
            /\ completed \in Seq([seq : SequenceNumbers, wm : Nat])
        BY DEF IInv, TypeOK
      <3>2. pc' \in [Threads -> {"idle"} \cup Collecting \cup Completing]
        BY <2>2, <3>1 DEF Completing
      <3>3. pc'[t] = "erase" /\ \A u \in Threads : u # t => pc'[u] = pc[u]
        BY <2>2, <3>1
      <3>4. \A u \in Threads : /\ pc'[u] \in Completing <=> pc[u] \in Completing
                               /\ pc'[u] \in {"missing", "erase"} <=> pc[u] \in {"missing", "erase"}
        BY <1>1, <3>3 DEF Completing
      <3>5. OneCompleter'
        BY <1>1, <2>2, <3>4 DEF IInv, OneCompleter, IsMaxWatermark, ChunksOf, NumChunks
      <3>6. ReturnedWhole'
        BY <1>1, <2>2, SMTT(30) DEF IInv, ReturnedWhole, IsMaxWatermark, ChunksOf, NumChunks
      <3>7. QED
        BY <1>0, <2>2, <3>1, <3>2, <3>3, <3>5, <3>6
    <2>3. QED
      BY <1>1, <2>1, <2>2
  <1> HIDE DEF s, n
  <1>4. /\ missing' \in [NodeStarts -> Int] /\ missing[n] \in Int /\ missing'[n] = missing[n] - 1
        /\ \A m \in NodeStarts : m # n => missing'[m] = missing[m]
    BY <1>1, <1>2 DEF IInv, TypeOK
  <1>5. TypeOK'
    BY <1>1, <1>3, <1>4 DEF IInv, TypeOK
  <1>6. OneHolder'
    <2>1. \A u \in Threads : pc'[u] \in Collecting => pc[u] \in Collecting /\ chunk'[u] = chunk[u]
      BY <1>3 DEF Collecting
    <2>2. \A u \in Threads : pc'[u] # "idle" => pc[u] # "idle" /\ chunk'[u] = chunk[u]
      BY <1>0, <1>1, <1>3
    <2>3. \A u \in Threads : pc'[u] # "idle" =>
             /\ chunk'[u] \in Items \ incoming'
             /\ NodeOf(chunk'[u].seq) \in nodes'
             /\ pc'[u] \in Collecting => chunk'[u] \notin counted'
      BY <1>1, <2>1, <2>2 DEF IInv, OneHolder
    <2>4. \A u, v \in Threads :
             pc'[u] \in Collecting /\ pc'[v] \in Collecting /\ chunk'[u] = chunk'[v] => u = v
      BY <2>1 DEF IInv, OneHolder
    <2>5. incoming' \cap counted' = {}
      BY <1>1 DEF IInv, OneHolder
    <2>6. QED
      BY <2>3, <2>4, <2>5 DEF OneHolder
  <1>7. CounterExact'
    BY <1>1 DEF IInv, CounterExact, Outstanding, Counted, ChunkNumbers
  <1>8. ValueExact'
    <2>1. \A u \in Threads : pc'[u] \in {"merge", "last", "count"} => pc'[u] = pc[u] /\ chunk'[u] = chunk[u]
      BY <1>3
    <2>2. QED
      BY <1>1, <2>1 DEF IInv, ValueExact
  <1>9. \A u \in Threads : u # t /\ pc[u] \in {"read", "missing"} => chunk[u].seq # s
    <2>1. chunk[t].seq = s /\ pc[t] \in Completing
      BY <1>0, <1>1 DEF Completing, s
    <2>2. OneCompleter
      BY DEF IInv
    <2>3. QED
      BY <2>1, <2>2 DEF OneCompleter, Completing
  <1>10. Decremented(n)' = Decremented(n) \cup {s} /\ s \notin Decremented(n)
    <2>1. s \notin Decremented(n)
      BY <1>0, <1>1 DEF Decremented, s
    <2>2. \A r \in NumbersOf(n) :
             (\A u \in Threads : pc'[u] \in {"read", "missing"} => chunk'[u].seq # r)
               <=> (r = s \/ \A u \in Threads : pc[u] \in {"read", "missing"} => chunk[u].seq # r)
      <3>1. \A u \in Threads : pc'[u] \in {"read", "missing"} =>
               u # t /\ pc[u] \in {"read", "missing"} /\ chunk'[u] = chunk[u]
        BY <1>3
      <3>2. \A u \in Threads : pc[u] \in {"read", "missing"} /\ u # t =>
               pc'[u] \in {"read", "missing"} /\ chunk'[u] = chunk[u]
        BY <1>3
      <3>3. chunk[t].seq = s
        BY <1>0 DEF s
      <3>4. QED
        BY <1>9, <3>1, <3>2, <3>3
    <2>3. Decremented(n)' =
            {r \in NumbersOf(n) : /\ ChunksOf(r) \subseteq counted
                                  /\ \A u \in Threads : pc'[u] \in {"read", "missing"} => chunk'[u].seq # r}
      BY <1>1 DEF Decremented
    <2>4. Decremented(n) =
            {r \in NumbersOf(n) : /\ ChunksOf(r) \subseteq counted
                                  /\ \A u \in Threads : pc[u] \in {"read", "missing"} => chunk[u].seq # r}
      BY DEF Decremented
    <2>5. QED
      BY <1>2, <2>1, <2>2, <2>3, <2>4
  <1>11. \A m : m # n => Decremented(m)' = Decremented(m)
    <2>1. TAKE m
    <2>2. HAVE m # n
    <2>3. \A r \in NumbersOf(m) : r # s
      BY <2>2 DEF NumbersOf, n
    <2>4. \A r \in NumbersOf(m) :
             (\A u \in Threads : pc'[u] \in {"read", "missing"} => chunk'[u].seq # r)
               <=> (\A u \in Threads : pc[u] \in {"read", "missing"} => chunk[u].seq # r)
      <3>1. chunk[t].seq = s
        BY <1>0 DEF s
      <3>2. \A u \in Threads : u # t => pc'[u] = pc[u] /\ chunk'[u] = chunk[u]
        BY <1>3
      <3>3. pc'[t] \in {"idle", "erase"}
        BY <1>3
      <3>4. QED
        BY <2>3, <3>1, <3>2, <3>3
    <2>5. QED
      BY <1>1, <2>4 DEF Decremented, NumbersOf, ChunksOf, SequenceNumbers, NumChunks, NodeOf
  <1>12. /\ Cardinality(Decremented(n) \cup {s}) = Cardinality(Decremented(n)) + 1
         /\ Cardinality(Decremented(n)) \in Nat
         /\ Cardinality(Decremented(n)) + 1 = NodeSize => NumbersOf(n) \subseteq Decremented(n) \cup {s}
    <2>1. Decremented(n) \in SUBSET NumbersOf(n) /\ Decremented(n) \cup {s} \in SUBSET NumbersOf(n)
      BY <1>2 DEF Decremented
    <2>2. IsFiniteSet(Decremented(n)) /\ Cardinality(Decremented(n)) \in Nat
      BY <1>2, <2>1, NodeFacts
    <2>3. Cardinality(Decremented(n) \cup {s}) = Cardinality(Decremented(n)) + 1
      BY <1>10, <2>2, FS_AddElement
    <2>4. QED
      BY <1>2, <2>1, <2>2, <2>3, NodeFacts
  <1>13. missing[n] = NodeSize - Cardinality(Decremented(n)) /\ NodeSize \in Nat
    BY <1>2, StreamFacts DEF IInv, NodesExact
  <1>14. NodesExact'
    <2>1. \A m \in nodes' : missing'[m] = NodeSize - Cardinality(Decremented(m)')
      <3>1. missing'[n] = NodeSize - Cardinality(Decremented(n)')
        BY <1>4, <1>10, <1>12, <1>13
      <3>2. \A m \in nodes : m # n => missing'[m] = NodeSize - Cardinality(Decremented(m)')
        BY <1>4, <1>11 DEF IInv, NodesExact, TypeOK
      <3>3. QED
        BY <1>1, <3>1, <3>2
    <2>2. \A u \in Threads : pc[u] = "erase" => NodeOf(chunk[u].seq) # n
      <3>1. \A u \in Threads : pc[u] = "erase" =>
               NumbersOf(NodeOf(chunk[u].seq)) \subseteq Decremented(NodeOf(chunk[u].seq))
        BY DEF IInv, NodesExact
      <3>2. QED
        BY <1>2, <1>10, <3>1
    <2>3. \A u \in Threads : pc'[u] = "erase" =>
             \/ u = t /\ chunk'[u].seq = s /\ missing[n] = 1
             \/ u # t /\ pc[u] = "erase" /\ chunk'[u] = chunk[u] /\ NodeOf(chunk[u].seq) # n
      BY <1>3, <2>2 DEF s
    <2>4. ASSUME NEW u \in Threads, pc'[u] = "erase"
          PROVE  NumbersOf(NodeOf(chunk'[u].seq)) \subseteq Decremented(NodeOf(chunk[u].seq))'
      <3>1. PICK m : m = NodeOf(chunk'[u].seq)
        OBVIOUS
      <3>2. NumbersOf(m) \subseteq Decremented(m)'
        <4>1. CASE u = t
          <5>1. m = n /\ missing[n] = 1
            BY <2>3, <2>4, <3>1, <4>1 DEF n
          <5>2. NumbersOf(n) \subseteq Decremented(n) \cup {s}
            BY <1>12, <1>13, <5>1
          <5>3. QED
            BY <1>10, <5>1, <5>2
        <4>2. CASE u # t
          BY <1>11, <2>3, <2>4, <3>1, <4>2 DEF IInv, NodesExact
        <4>3. QED
          BY <4>1, <4>2
      <3>3. Decremented(NodeOf(chunk[u].seq))' = Decremented(m)'
        BY <3>1 DEF Decremented, NumbersOf, NodeOf
      <3>4. QED
        BY <3>1, <3>2, <3>3
    <2>5. \A u, v \in Threads :
             pc'[u] = "erase" /\ pc'[v] = "erase" /\ NodeOf(chunk'[u].seq) = NodeOf(chunk'[v].seq) => u = v
      BY <2>3 DEF IInv, NodesExact, n
    <2>6. QED
      BY <1>1, <2>1, <2>4, <2>5, ZenonT(30) DEF IInv, NodesExact, NumbersOf, NodeOf, SequenceNumbers, NodeStarts, Items,
                                    ChunksOf, NumChunks
  <1>15. QED
    BY <1>3, <1>5, <1>6, <1>7, <1>8, <1>14 DEF IInv

(* Erasing a node preserves the inductive invariant: no other thread is in  *)
(* the node and none of its chunks is still to come (eraseNode).            *)
LEMMA EraseInv ==
    ASSUME IInv, NEW t \in Threads, eraseNode(t)
    PROVE  IInv'
  <1>0. PICK i \in Items : i = chunk[t]
    BY DEF eraseNode, IInv, OneHolder
  <1> DEFINE s == i.seq
             n == NodeOf(s)
  <1>1. /\ pc[t] = "erase" /\ nodes' = nodes \ {n} /\ Return(t)
        /\ UNCHANGED <<missing, counter, value, current, incoming, counted>>
    BY <1>0 DEF eraseNode, slots
  <1>2. s \in SequenceNumbers /\ n \in NodeStarts
    BY <1>0, ItemFacts DEF NodeStarts
  <1>3. /\ OneCompleter' /\ ReturnedWhole'
        /\ completed' \in Seq([seq : SequenceNumbers, wm : Nat])
        /\ pc' \in [Threads -> {"idle"} \cup Collecting \cup Completing]
        /\ chunk' \in [Threads -> Items \cup {NoChunk}]
        /\ final' \in [Threads -> Nat]
        /\ pc'[t] = "idle"
        /\ \A u \in Threads : u # t => pc'[u] = pc[u] /\ chunk'[u] = chunk[u]
    BY <1>1, ReturnKeeps, ZenonT(30)
  <1>4. NumbersOf(n) \subseteq Decremented(n)
    BY <1>0, <1>1 DEF IInv, NodesExact
  <1> HIDE DEF s, n
  <1>5. \A r \in NumbersOf(n) :
           ChunksOf(r) \subseteq counted /\ \A u \in Threads : pc[u] \in {"read", "missing"} => chunk[u].seq # r
    BY <1>4 DEF Decremented
  <1>6. \A j \in Items : NodeOf(j.seq) = n => j \in counted /\ j \notin incoming
    <2>1. TAKE j \in Items
    <2>2. HAVE NodeOf(j.seq) = n
    <2>3. j.seq \in NumbersOf(n) /\ j \in ChunksOf(j.seq)
      BY <2>2, ItemFacts DEF NumbersOf
    <2>4. QED
      BY <1>5, <2>3 DEF IInv, OneHolder
  <1>7. \A u \in Threads : u # t /\ pc[u] # "idle" => NodeOf(chunk[u].seq) # n
    <2>1. SUFFICES ASSUME NEW u \in Threads, u # t, pc[u] # "idle", NodeOf(chunk[u].seq) = n
                   PROVE  FALSE
      OBVIOUS
    <2>2. /\ chunk[u] \in Items /\ chunk[u] \in counted /\ chunk[u].seq \in NumbersOf(n)
          /\ pc[u] \in {"idle"} \cup Collecting \cup Completing
      BY <1>6, <2>1, ItemFacts DEF IInv, OneHolder, TypeOK, NumbersOf
    <2>3. CASE pc[u] \in Collecting
      BY <2>1, <2>2, <2>3 DEF IInv, OneHolder
    <2>4. CASE pc[u] \in {"read", "missing"}
      BY <1>5, <2>2, <2>4
    <2>5. CASE pc[u] = "erase"
      BY <1>0, <1>1, <2>1, <2>5 DEF IInv, NodesExact, n, s
    <2>6. QED
      BY <2>1, <2>2, <2>3, <2>4, <2>5 DEF Completing
  <1>8. TypeOK'
    BY <1>1, <1>3 DEF IInv, TypeOK
  <1>9. \A u \in Threads : pc'[u] # "idle" => u # t /\ pc'[u] = pc[u] /\ chunk'[u] = chunk[u]
    BY <1>3
  <1>10. OneHolder'
    <2>1. \A u \in Threads : pc'[u] # "idle" =>
             /\ chunk'[u] \in Items \ incoming'
             /\ NodeOf(chunk'[u].seq) \in nodes'
             /\ pc'[u] \in Collecting => chunk'[u] \notin counted'
      BY <1>1, <1>7, <1>9 DEF IInv, OneHolder
    <2>2. \A u, v \in Threads :
             pc'[u] \in Collecting /\ pc'[v] \in Collecting /\ chunk'[u] = chunk'[v] => u = v
      BY <1>9 DEF IInv, OneHolder, Collecting
    <2>3. incoming' \cap counted' = {}
      BY <1>1 DEF IInv, OneHolder
    <2>4. QED
      BY <2>1, <2>2, <2>3, ZenonT(30) DEF OneHolder
  <1>11. CounterExact'
    BY <1>1 DEF IInv, CounterExact, Outstanding, Counted, ChunkNumbers
  <1>12. ValueExact'
    <2>1. \A u \in Threads : pc'[u] \in {"merge", "last", "count"} => pc'[u] = pc[u] /\ chunk'[u] = chunk[u]
      BY <1>9
    <2>2. QED
      BY <1>1, <2>1 DEF IInv, ValueExact
  <1>13. \A m : Decremented(m)' = Decremented(m)
    <2>1. TAKE m
    <2>2. \A r : (\A u \in Threads : pc'[u] \in {"read", "missing"} => chunk'[u].seq # r)
               <=> (\A u \in Threads : pc[u] \in {"read", "missing"} => chunk[u].seq # r)
      <3>1. \A u \in Threads : pc[u] \in {"read", "missing"} => u # t
        BY <1>1
      <3>2. QED
        BY <1>3, <3>1
    <2>3. QED
      BY <1>1, <2>2, ZenonT(30) DEF Decremented, NumbersOf, ChunksOf, SequenceNumbers, NumChunks, NodeOf
  <1>14. NodesExact'
    <2>1. \A m \in nodes' : missing'[m] = NodeSize - Cardinality(Decremented(m)')
      BY <1>1, <1>13 DEF IInv, NodesExact
    <2>2. ASSUME NEW u \in Threads, pc'[u] = "erase"
          PROVE  NumbersOf(NodeOf(chunk'[u].seq)) \subseteq Decremented(NodeOf(chunk[u].seq))'
      <3>1. PICK m : m = NodeOf(chunk'[u].seq)
        OBVIOUS
      <3>2. NumbersOf(m) \subseteq Decremented(m)
        BY <1>9, <2>2, <3>1 DEF IInv, NodesExact
      <3>3. Decremented(NodeOf(chunk[u].seq))' = Decremented(m)'
        BY <3>1 DEF Decremented, NumbersOf, NodeOf
      <3>4. QED
        BY <1>13, <3>1, <3>2, <3>3
    <2>3. \A u, v \in Threads :
             pc'[u] = "erase" /\ pc'[v] = "erase" /\ NodeOf(chunk'[u].seq) = NodeOf(chunk'[v].seq) => u = v
      BY <1>9 DEF IInv, NodesExact
    <2>4. \A m \in NodeStarts \ nodes' :
             \/ \A j \in Items : NodeOf(j.seq) = m => j \in incoming'
             \/ \A j \in Items : NodeOf(j.seq) = m => j \notin incoming'
      BY <1>1, <1>6 DEF IInv, NodesExact
    <2>5. QED
      BY <2>1, <2>2, <2>3, <2>4, ZenonT(30) DEF NodesExact
  <1>15. QED
    BY <1>3, <1>8, <1>10, <1>11, <1>12, <1>14 DEF IInv

(* Every step of the collector preserves the inductive invariant.           *)
LEMMA NextInv == IInv /\ [Next]_vars => IInv'
  <1>1. SUFFICES ASSUME IInv, [Next]_vars PROVE IInv'
    OBVIOUS
  <1>2. ASSUME NEW t \in Threads, collect(t) PROVE IInv'
    <2>1. ASSUME NEW i \in incoming, findNode(t, i) PROVE IInv'
      BY <1>1, <2>1, FindInv
    <2>2. CASE loadValue(t)
      BY <1>1, <2>2, LoadInv
    <2>3. CASE mergeValue(t)
      BY <1>1, <2>3, MergeInv
    <2>4. CASE markLastSeen(t)
      BY <1>1, <2>4, MarkInv
    <2>5. CASE countChunk(t)
      BY <1>1, <2>5, CountInv
    <2>6. CASE readFinal(t)
      BY <1>1, <2>6, ReadInv
    <2>7. CASE decrementMissing(t)
      BY <1>1, <2>7, DecrementInv
    <2>8. CASE eraseNode(t)
      BY <1>1, <2>8, EraseInv
    <2>9. QED
      BY <1>2, <2>1, <2>2, <2>3, <2>4, <2>5, <2>6, <2>7, <2>8 DEF collect
  <1>3. CASE UNCHANGED vars
    <2>1. UNCHANGED <<nodes, missing, counter, value, pc, chunk, current, final, incoming, counted, completed>>
      BY <1>3 DEF vars, slots
    <2>2. TypeOK' /\ OneHolder'
      BY <1>1, <2>1 DEF IInv, TypeOK, OneHolder
    <2>3. CounterExact' /\ ValueExact'
      BY <1>1, <2>1 DEF IInv, CounterExact, ValueExact, Outstanding, Counted, ChunkNumbers
    <2>a. OneCompleter'
      BY <1>1, <2>1 DEF IInv, OneCompleter
    <2>b. ReturnedWhole'
      BY <1>1, <2>1 DEF IInv, ReturnedWhole
    <2>4. \A m : Decremented(m)' = Decremented(m)
      BY <2>1 DEF Decremented
    <2>5. NodesExact'
      BY <1>1, <2>1, <2>4 DEF IInv, NodesExact, Decremented
    <2>6. QED
      BY <2>2, <2>3, <2>a, <2>b, <2>5 DEF IInv
  <1>4. QED
    BY <1>1, <1>2, <1>3 DEF Next, Done

-----------------------------------------------------------------------------
BeforeMark == {"load", "merge", "last"}

(* A last chunk that has yet to be marked finds its slot unmarked.          *)
LastToCome ==
    /\ seenLast \in [SequenceNumbers -> BOOLEAN]
    /\ \A i \in Items : i.last /\ i \in incoming => ~seenLast[i.seq]
    /\ \A t \in Threads : pc[t] \in BeforeMark /\ chunk[t].last => ~seenLast[chunk[t].seq]
    /\ \A t \in Threads : pc[t] = "last" => chunk[t].last

(* A step that marks no slot and picks up no chunk keeps that.              *)
LEMMA LastKept ==
    ASSUME LastToCome, seenLast' = seenLast, incoming' = incoming,
           \A t \in Threads : pc'[t] \in BeforeMark => pc[t] \in BeforeMark /\ chunk'[t] = chunk[t],
           \A t \in Threads : pc'[t] = "last" => chunk'[t].last
    PROVE  LastToCome'
  BY DEF LastToCome, BeforeMark

(* Picking up a chunk: what was on its way is now in the hands of a thread, *)
(* and the slots of a new node are unmarked (findNode).                     *)
LEMMA LastFound ==
    ASSUME IInv, LastToCome, NEW t \in Threads, NEW i \in incoming, findNode(t, i)
    PROVE  LastToCome'
  <1>1. /\ i \in Items /\ i.seq \in SequenceNumbers /\ incoming' \subseteq incoming
        /\ pc' = [pc EXCEPT ![t] = "load"] /\ chunk' = [chunk EXCEPT ![t] = i]
    BY ItemFacts DEF IInv, TypeOK, findNode
  <1>2. /\ seenLast' \in [SequenceNumbers -> BOOLEAN]
        /\ \A s \in SequenceNumbers : ~seenLast[s] => ~seenLast'[s]
    <2>1. seenLast \in [SequenceNumbers -> BOOLEAN]
      BY DEF LastToCome
    <2>2. \/ seenLast' = seenLast
          \/ seenLast' = [s \in SequenceNumbers |-> IF NodeOf(s) = NodeOf(i.seq) THEN FALSE ELSE seenLast[s]]
      BY ZenonT(30) DEF findNode, slots
    <2>3. QED
      BY <2>1, <2>2
  <1>3. \A u \in Threads : u # t => pc'[u] = pc[u] /\ chunk'[u] = chunk[u]
    BY <1>1 DEF IInv, TypeOK
  <1>4. pc'[t] = "load" /\ chunk'[t] = i
    BY <1>1 DEF IInv, TypeOK
  <1>5. \A j \in Items : j.last /\ j \in incoming' => ~seenLast'[j.seq]
    BY <1>1, <1>2, ItemFacts DEF LastToCome
  <1>6. ASSUME NEW u \in Threads, pc'[u] \in BeforeMark, chunk'[u].last PROVE ~seenLast'[chunk'[u].seq]
    <2>1. CASE u = t
      BY <1>1, <1>2, <1>4, <1>6, <2>1 DEF LastToCome
    <2>2. CASE u # t
      <3>1. chunk[u] \in Items /\ chunk[u].seq \in SequenceNumbers
        BY <1>3, <1>6, <2>2, ItemFacts DEF IInv, OneHolder, BeforeMark
      <3>2. QED
        BY <1>2, <1>3, <1>6, <2>2, <3>1 DEF LastToCome
    <2>3. QED
      BY <2>1, <2>2
  <1>7. \A u \in Threads : pc'[u] = "last" => chunk'[u].last
    BY <1>3, <1>4 DEF LastToCome
  <1>8. QED
    BY <1>2, <1>5, <1>6, <1>7 DEF LastToCome

(* Marking the slot: no other thread has the last chunk of that number, and *)
(* it is not on its way (markLastSeen).                                     *)
LEMMA LastMarked ==
    ASSUME IInv, LastToCome, NEW t \in Threads, markLastSeen(t)
    PROVE  LastToCome'
  <1> DEFINE i == chunk[t]
  <1>1. /\ UNCHANGED <<incoming, chunk>> /\ pc[t] = "last" /\ pc' = [pc EXCEPT ![t] = "count"]
        /\ seenLast' = [seenLast EXCEPT ![i.seq] = TRUE]
    BY DEF markLastSeen, Goto
  <1>2. i \in Items /\ i \notin incoming /\ i.last /\ i.seq \in SequenceNumbers
    BY <1>1, ItemFacts DEF IInv, OneHolder, LastToCome
  <1>3. \A j \in Items : j.last /\ j.seq = i.seq => j = i
    BY <1>2, ItemFacts
  <1>4. /\ seenLast' \in [SequenceNumbers -> BOOLEAN]
        /\ \A s \in SequenceNumbers : s # i.seq => seenLast'[s] = seenLast[s]
    BY <1>1, <1>2 DEF LastToCome
  <1>5. pc'[t] = "count" /\ \A u \in Threads : u # t => pc'[u] = pc[u]
    BY <1>1 DEF IInv, TypeOK
  <1>6. \A j \in Items : j.last /\ j \in incoming' => ~seenLast'[j.seq]
    BY <1>1, <1>2, <1>3, <1>4, ItemFacts DEF LastToCome
  <1>7. ASSUME NEW u \in Threads, pc'[u] \in BeforeMark, chunk[u].last PROVE ~seenLast'[chunk[u].seq]
    <2>1. u # t /\ pc[u] \in BeforeMark
      BY <1>5, <1>7 DEF BeforeMark
    <2>2. chunk[u] \in Items /\ chunk[u].seq \in SequenceNumbers
      BY <2>1, ItemFacts DEF IInv, OneHolder, BeforeMark
    <2>3. chunk[u] # i
      BY <1>1, <2>1 DEF IInv, OneHolder, BeforeMark, Collecting
    <2>4. QED
      BY <1>3, <1>4, <1>7, <2>1, <2>2, <2>3 DEF LastToCome
  <1>8. \A u \in Threads : pc'[u] = "last" => chunk[u].last
    BY <1>5 DEF LastToCome
  <1>9. QED
    BY <1>1, <1>4, <1>6, <1>7, <1>8 DEF LastToCome

(* Every step keeps the slots of last chunks to come unmarked.              *)
LEMMA LastInv == IInv /\ LastToCome /\ [Next]_vars => LastToCome'
  <1>1. SUFFICES ASSUME IInv, LastToCome, [Next]_vars PROVE LastToCome'
    OBVIOUS
  <1>2. pc \in [Threads -> {"idle"} \cup Collecting \cup Completing] /\ chunk \in [Threads -> Items \cup {NoChunk}]
    BY <1>1 DEF IInv, TypeOK
  <1>3. ASSUME NEW t \in Threads, loadValue(t) \/ mergeValue(t) PROVE LastToCome'
    <2>1. /\ seenLast' = seenLast /\ incoming' = incoming /\ chunk' = chunk /\ pc[t] \in {"load", "merge"}
          /\ \/ pc' = pc \/ pc' = [pc EXCEPT ![t] = "merge"]
             \/ pc' = [pc EXCEPT ![t] = IF chunk[t].last THEN "last" ELSE "count"]
      BY <1>3 DEF loadValue, mergeValue, AfterMerge, Goto, slots
    <2>2. \A u \in Threads : pc'[u] \in BeforeMark => pc[u] \in BeforeMark
      BY <1>2, <2>1 DEF BeforeMark
    <2>3. \A u \in Threads : pc'[u] = "last" => chunk[u].last
      BY <1>1, <1>2, <2>1 DEF LastToCome
    <2>4. QED
      BY <1>1, <2>1, <2>2, <2>3, LastKept
  <1>4. ASSUME NEW t \in Threads, countChunk(t) \/ readFinal(t) \/ decrementMissing(t) \/ eraseNode(t)
        PROVE  LastToCome'
    <2>1. /\ seenLast' = seenLast /\ incoming' = incoming
          /\ chunk' = chunk \/ chunk' = [chunk EXCEPT ![t] = NoChunk]
          /\ \E l \in {"idle", "read", "missing", "erase"} : pc' = [pc EXCEPT ![t] = l]
      BY <1>4 DEF countChunk, readFinal, decrementMissing, eraseNode, Return, Leave, Goto, slots
    <2>2. \A u \in Threads : u # t => pc'[u] = pc[u] /\ chunk'[u] = chunk[u]
      BY <1>2, <2>1
    <2>3. pc'[t] \notin BeforeMark
      BY <1>2, <2>1 DEF BeforeMark
    <2>4. QED
      BY <1>1, <2>1, <2>2, <2>3, LastKept DEF LastToCome, BeforeMark
  <1>5. CASE UNCHANGED vars
    BY <1>1, <1>5 DEF vars, slots, LastToCome
  <1>6. ASSUME NEW t \in Threads, collect(t) PROVE LastToCome'
    BY <1>1, <1>3, <1>4, <1>6, LastFound, LastMarked DEF collect
  <1>7. QED
    BY <1>1, <1>5, <1>6 DEF Next, Done

-----------------------------------------------------------------------------
(* The inductive invariant of the collector holds in every reachable state: *)
(* the unsigned counter of a slot is exact although the last chunk may come *)
(* first, and the count of a node is exact although threads decrement it    *)
(* without the lock (ChunkCollector::collect).                              *)
THEOREM Invariance == Spec => []IInv
  BY InitInv, NextInv, PTL DEF Spec

(* "return if all chunks for a specific sequence number have been seen": a  *)
(* sequence number is returned to one thread, after all of its chunks, with *)
(* the largest of their watermarks, and its last chunk is seen once, for    *)
(* every stream, number of threads, size of the nodes and range of the      *)
(* counter above the number of chunks (ChunkCollector::collect,             *)
(* Chunk::update).                                                          *)
THEOREM Completion == Spec => []CompletedCorrectly
  <1>1. IInv /\ LastToCome => CompletedCorrectly
    <2>1. SUFFICES ASSUME IInv, LastToCome, NEW t \in Threads, pc[t] = "last" PROVE ~seenLast[chunk[t].seq]
      BY DEF IInv, CompletedCorrectly, LastSeenOnce
    <2>2. chunk[t] \in Items /\ chunk[t].last
      BY <2>1 DEF IInv, OneHolder, LastToCome
    <2>3. QED
      BY <2>1, <2>2 DEF LastToCome, BeforeMark
  <1>2. Init => LastToCome
    BY ItemFacts DEF Init, Empty, LastToCome, BeforeMark
  <1>3. QED
    BY Invariance, LastInv, <1>1, <1>2, PTL DEF Spec

(* The node a thread works on without the lock is in the list until the     *)
(* thread has left it: the reference that collect keeps after it released   *)
(* the lock does not dangle (ChunkCollector::collect).                      *)
THEOREM NodesOutliveUse == Spec => []NodeInUse
  <1>1. IInv => NodeInUse
    BY DEF IInv, OneHolder, NodeInUse
  <1>2. QED
    BY Invariance, <1>1, PTL
=============================================================================
