--------------------------- MODULE ChunkCollector ---------------------------
(***************************************************************************)
(* nes-common/include/Sequencing/ChunkCollector.hpp: threads hand in the   *)
(* chunks of sequence numbers in any order; the thread whose chunk makes a *)
(* sequence number complete gets it back, with the largest watermark of    *)
(* its chunks.                                                             *)
(*                                                                         *)
(* The list of nodes is behind a folly::Synchronized, and finding,         *)
(* appending and erasing a node are atomic.  The slots of a node are       *)
(* atomics that threads update WITHOUT that lock, one access per step.     *)
(***************************************************************************)
EXTENDS Integers, Sequences, FiniteSets

CONSTANTS
    Threads,      \* the threads that call collect
    Stream,       \* Stream[s][c]: the watermark of chunk c of sequence number s
    NodeSize,     \* sequence numbers per node of the list
    CounterRange  \* 2^64 in the code: the counter of a slot is unsigned and wraps

ASSUME ChunkCollectorAssumption ==
    /\ Threads # {}
    /\ Stream \in Seq(Seq(Nat))
    /\ \A s \in 1..Len(Stream) : Len(Stream[s]) > 0 /\ Len(Stream[s]) < CounterRange
    /\ NodeSize \in Nat \ {0}
    /\ CounterRange \in Nat

SequenceNumbers == 1..Len(Stream)
NumChunks(s) == Len(Stream[s])
ChunksOf(s) == {[seq |-> s, chunk |-> c, last |-> (c = NumChunks(s)), wm |-> Stream[s][c]] :
                    c \in 1..NumChunks(s)}
Items == UNION {ChunksOf(s) : s \in SequenceNumbers}
NoChunk == [seq |-> 0, chunk |-> 0, last |-> FALSE, wm |-> 0]

(* A node is named after the index of its first sequence number. *)
NodeOf(s) == ((s - 1) \div NodeSize) * NodeSize
NodeStarts == {NodeOf(s) : s \in SequenceNumbers}

VARIABLES
    nodes,        \* the starts of the nodes in the list
    missing,      \* Node::missing
    counter,      \* Chunk::counter of the slot of each sequence number
    seenLast,     \* Chunk::seenLastChunk
    value,        \* Chunk::value, the largest watermark merged so far
    pc,           \* where each thread is in collect
    chunk,        \* the chunk each thread collects
    current,      \* the local "current" of update
    final,        \* the local finalWatermark of collect
    incoming,     \* the chunks no thread has picked up yet
    counted,      \* history: the chunks whose counter update has happened
    completed     \* history: the (sequence number, watermark) pairs returned

slots == <<counter, seenLast, value>>
vars == <<nodes, missing, slots, pc, chunk, current, final, incoming, counted, completed>>

(* Arithmetic of the unsigned counter. *)
Wrap(n) == n % CounterRange

(* A new collector, before any chunk was handed in. *)
Empty ==
    /\ nodes = {}
    /\ missing = [n \in NodeStarts |-> NodeSize]
    /\ counter = [s \in SequenceNumbers |-> 0]
    /\ seenLast = [s \in SequenceNumbers |-> FALSE]
    /\ value = [s \in SequenceNumbers |-> 0]
    /\ pc = [t \in Threads |-> "idle"]
    /\ chunk = [t \in Threads |-> NoChunk]
    /\ current = [t \in Threads |-> 0]
    /\ final = [t \in Threads |-> 0]
    /\ counted = {}
    /\ completed = <<>>

Init == Empty /\ incoming = Items

Goto(t, label) == pc' = [pc EXCEPT ![t] = label] /\ UNCHANGED <<chunk, final>>

(* collect returns: its locals are gone. *)
Leave(t) ==
    /\ pc' = [pc EXCEPT ![t] = "idle"]
    /\ chunk' = [chunk EXCEPT ![t] = NoChunk]
    /\ final' = [final EXCEPT ![t] = 0]

(* The lambda of collect, under the upgrade lock: the node of the sequence  *)
(* number is found, or appended with fresh slots.                           *)
findNode(t, i) ==
    LET n == NodeOf(i.seq)
        fresh(f, v) == [s \in SequenceNumbers |-> IF NodeOf(s) = n THEN v ELSE f[s]]
    IN /\ pc[t] = "idle"
       /\ i \in incoming
       /\ incoming' = incoming \ {i}
       /\ chunk' = [chunk EXCEPT ![t] = i]
       /\ pc' = [pc EXCEPT ![t] = "load"]
       /\ \/ n \in nodes /\ UNCHANGED <<nodes, missing, slots>>
          \/ /\ n \notin nodes
             /\ nodes' = nodes \cup {n}
             /\ missing' = [missing EXCEPT ![n] = NodeSize]
             /\ counter' = fresh(counter, 0)
             /\ seenLast' = fresh(seenLast, FALSE)
             /\ value' = fresh(value, 0)
       /\ UNCHANGED <<current, final, counted, completed>>

loadValue(t) ==
    /\ pc[t] = "load"
    /\ current' = [current EXCEPT ![t] = value[chunk[t].seq]]
    /\ Goto(t, "merge")
    /\ UNCHANGED <<nodes, missing, slots, incoming, counted, completed>>

AfterMerge(t) ==
    /\ Goto(t, IF chunk[t].last THEN "last" ELSE "count")
    /\ current' = [current EXCEPT ![t] = 0]

(* Mutant of mergeValue: stores without comparing with the current value. *)
mergeWithoutCompare(t) ==
    /\ pc[t] = "merge"
    /\ value' = IF chunk[t].wm > current[t] THEN [value EXCEPT ![chunk[t].seq] = chunk[t].wm] ELSE value
    /\ AfterMerge(t)
    /\ UNCHANGED <<nodes, missing, counter, seenLast, incoming, counted, completed>>

(* One round of the compare_exchange_weak loop; a weak exchange may also    *)
(* fail spuriously, and a failed one reloads current.                       *)
mergeValue(t) ==
    LET s == chunk[t].seq
        wm == chunk[t].wm
    IN /\ pc[t] = "merge"
       /\ \/ wm <= current[t] /\ AfterMerge(t) /\ UNCHANGED value
          \/ /\ wm > current[t]
             /\ value[s] = current[t]
             /\ value' = [value EXCEPT ![s] = wm]
             /\ AfterMerge(t)
          \/ /\ wm > current[t]
             /\ current' = [current EXCEPT ![t] = value[s]]
             /\ UNCHANGED <<value, pc, chunk, final>>
       /\ UNCHANGED <<nodes, missing, counter, seenLast, incoming, counted, completed>>

markLastSeen(t) ==
    /\ pc[t] = "last"
    /\ seenLast' = [seenLast EXCEPT ![chunk[t].seq] = TRUE]
    /\ Goto(t, "count")
    /\ UNCHANGED <<nodes, missing, counter, value, current, incoming, counted, completed>>

(* Mutant of Updated: the last chunk adds its number, not its index. *)
UpdatedOffByOne(i) == Wrap(counter[i.seq] + (IF i.last THEN i.chunk ELSE -1))

(* The counter after chunk i: the index of the last chunk is added, every  *)
(* other chunk takes one away.                                             *)
Updated(i) == Wrap(counter[i.seq] + (IF i.last THEN i.chunk - 1 ELSE -1))

(* fetch_add or fetch_sub on the counter; zero means that all are in. *)
countChunk(t) ==
    LET i == chunk[t]
    IN /\ pc[t] = "count"
       /\ counter' = [counter EXCEPT ![i.seq] = Updated(i)]
       /\ counted' = counted \cup {i}
       /\ (IF Updated(i) = 0 THEN Goto(t, "read") ELSE Leave(t))
       /\ UNCHANGED <<nodes, missing, seenLast, value, current, incoming, completed>>

readFinal(t) ==
    /\ pc[t] = "read"
    /\ final' = [final EXCEPT ![t] = value[chunk[t].seq]]
    /\ pc' = [pc EXCEPT ![t] = "missing"]
    /\ UNCHANGED <<nodes, missing, slots, chunk, current, incoming, counted, completed>>

Return(t) == Leave(t) /\ completed' = Append(completed, [seq |-> chunk[t].seq, wm |-> final[t]])

(* Mutant of decrementMissing: the thread that sees one missing left erases. *)
decrementTooEarly(t) ==
    LET n == NodeOf(chunk[t].seq)
    IN /\ pc[t] = "missing"
       /\ missing' = [missing EXCEPT ![n] = @ - 1]
       /\ \/ missing[n] <= 2 /\ Goto(t, "erase") /\ UNCHANGED completed
          \/ missing[n] > 2 /\ Return(t)
       /\ UNCHANGED <<nodes, slots, current, incoming, counted>>

(* Mutant of decrementMissing: the last decrement is not recognised. *)
decrementNeverLast(t) ==
    LET n == NodeOf(chunk[t].seq)
    IN /\ pc[t] = "missing"
       /\ missing' = [missing EXCEPT ![n] = @ - 1]
       /\ Return(t)
       /\ UNCHANGED <<nodes, slots, current, incoming, counted>>

decrementMissing(t) ==
    LET n == NodeOf(chunk[t].seq)
    IN /\ pc[t] = "missing"
       /\ missing' = [missing EXCEPT ![n] = @ - 1]
       /\ \/ missing[n] = 1 /\ Goto(t, "erase") /\ UNCHANGED completed
          \/ missing[n] # 1 /\ Return(t)
       /\ UNCHANGED <<nodes, slots, current, incoming, counted>>

eraseNode(t) ==
    /\ pc[t] = "erase"
    /\ nodes' = nodes \ {NodeOf(chunk[t].seq)}
    /\ Return(t)
    /\ UNCHANGED <<missing, slots, current, incoming, counted>>

collect(t) ==
    \/ \E i \in incoming : findNode(t, i)
    \/ loadValue(t)
    \/ mergeValue(t)
    \/ markLastSeen(t)
    \/ countChunk(t)
    \/ readFinal(t)
    \/ decrementMissing(t)
    \/ eraseNode(t)

Finished == incoming = {} /\ \A t \in Threads : pc[t] = "idle"

(* Every chunk was handed in and every thread has returned. *)
Done == Finished /\ UNCHANGED vars

Next == (\E t \in Threads : collect(t)) \/ Done

Spec == Init /\ [][Next]_vars

(* Every thread keeps running.  A spurious failure of the exchange changes  *)
(* nothing, so weak fairness on steps that change something is enough.      *)
FairSpec == Spec /\ \A t \in Threads : WF_vars(collect(t))

-----------------------------------------------------------------------------
IsMaxWatermark(s, w) ==
    /\ \A i \in ChunksOf(s) : i.wm <= w
    /\ \E i \in ChunksOf(s) : i.wm = w

(* The numbers that were returned.                                          *)
ReturnedWhole ==
    \A k \in 1..Len(completed) :
        /\ ChunksOf(completed[k].seq) \subseteq counted
        /\ IsMaxWatermark(completed[k].seq, completed[k].wm)
        /\ \A j \in 1..(k - 1) : completed[j].seq # completed[k].seq

(* The INVARIANT of update.                                                 *)
LastSeenOnce == \A t \in Threads : pc[t] = "last" => ~seenLast[chunk[t].seq]

(* "return if all chunks for a specific sequence number have been seen"     *)
(* (ChunkCollector.hpp:36-38): a sequence number is returned only after all *)
(* of its chunks were collected, with the largest of their watermarks,      *)
(* although watermark and counter are updated in separate steps and the     *)
(* last chunk may come first; no two threads are told that they completed   *)
(* the same one; and "the last chunk is only seen once"                     *)
(* (ChunkCollector.hpp:72-75), whichever slot a fresh node hands out.       *)
CompletedCorrectly == ReturnedWhole /\ LastSeenOnce

(* A thread that still works on the slots of a node, which it does without  *)
(* the lock, has that node in the list: another thread cannot have erased   *)
(* (and freed) it in the meantime.                                          *)
NodeInUse ==
    \A t \in Threads : pc[t] # "idle" => NodeOf(chunk[t].seq) \in nodes

Full(n) == \A s \in (n + 1)..(n + NodeSize) : s \in SequenceNumbers

(* "we can delete the node from the linked list when a thread decrements    *)
(* the last node counter" (ChunkCollector.hpp:122-124): nodes do not        *)
(* accumulate.  Every sequence number is returned in the end, and every     *)
(* node whose sequence numbers all arrived is erased.                       *)
NodesReleased ==
    <>[]( /\ \A s \in SequenceNumbers : \E k \in 1..Len(completed) : completed[k].seq = s
          /\ \A n \in nodes : ~Full(n) )
=============================================================================
