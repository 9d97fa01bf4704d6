------------------------- MODULE MonotonicSeqQueue -------------------------
(***************************************************************************)
(* nes-common/include/Sequencing/NonBlockingMonotonicSeqQueue.hpp, the     *)
(* lock-free queue behind the watermark processors.  Threads put in one    *)
(* value per sequence number, in any order; currentSeq follows the longest *)
(* prefix without a gap, and getCurrentValue returns the value at its end. *)
(*                                                                         *)
(* One atomic access of shared memory per step.  The queue puts in only    *)
(* complete sequence numbers, each once: that is what ChunkCollector,      *)
(* which emplace calls first, returns.  A block is named by its index; the *)
(* list only grows at its end, so lastBlock describes the next pointers.   *)
(* A compare_exchange_weak that fails spuriously sends the thread around   *)
(* its loop with nothing changed, and is left out.                         *)
(***************************************************************************)
EXTENDS Integers

CONSTANTS
    Threads,    \* the threads that call emplace and getCurrentValue
    NumSeqs,    \* how many sequence numbers the stream has
    BlockSize   \* slots per block (8192 in the code)

ASSUME MonotonicSeqQueueAssumption ==
    /\ Threads # {}
    /\ NumSeqs \in Nat
    /\ BlockSize \in Nat \ {0}

SequenceNumbers == 1..NumSeqs
BlockOf(s) == s \div BlockSize

(* The slot of index i in block b, named by the sequence number it is for;  *)
(* Slots has all the slots of the blocks that may exist.                    *)
Slot(b, i) == b * BlockSize + i
Slots == 0..(BlockOf(NumSeqs) * BlockSize + BlockSize - 1)

(* The value of sequence number s; a slot that was not written reads 0. *)
ValueOf(s) == s

VARIABLES
    head,        \* index of the block that head points to
    currentSeq,
    lastBlock,   \* index of the last block of the list
    slotSeq,     \* Container::seq
    slotValue,   \* Container::value
    pc,          \* where each thread is
    seq,         \* emplace's sequence number
    block,       \* the local currentBlock
    cur,         \* the local currentSequenceNumber
    incoming,    \* sequence numbers that are not yet put in
    observed     \* history: what getCurrentValue last returned, and for which number

shared == <<head, currentSeq, lastBlock, slotSeq, slotValue>>
vars == <<shared, pc, seq, block, cur, incoming, observed>>

Labels == {"idle", "check", "emplaceHead", "walk", "store", "storeValue", "storeSeq",
           "shiftHead", "shiftSeq", "shiftFind", "shiftCheck", "shiftCas", "shiftCasHead",
           "readHead", "readSeq", "readFind", "readValue"}

Init ==
    /\ head = 0
    /\ currentSeq = 0
    /\ lastBlock = 0
    /\ slotSeq = [s \in Slots |-> 0]
    /\ slotValue = [s \in Slots |-> 0]
    /\ pc = [t \in Threads |-> "idle"]
    /\ seq = [t \in Threads |-> 0]
    /\ block = [t \in Threads |-> 0]
    /\ cur = [t \in Threads |-> 0]
    /\ incoming = SequenceNumbers
    /\ observed = [t \in Threads |-> [seq |-> 0, value |-> 0]]

Goto(t, label) == pc' = [pc EXCEPT ![t] = label]
SetBlock(t, b) == block' = [block EXCEPT ![t] = b]

(* emplace, once the collector has returned sequence number s. *)
emplace(t, s) ==
    /\ pc[t] = "idle"
    /\ s \in incoming
    /\ incoming' = incoming \ {s}
    /\ seq' = [seq EXCEPT ![t] = s]
    /\ Goto(t, "check")
    /\ UNCHANGED <<shared, block, cur, observed>>

(* The INVARIANT of emplace reads currentSeq; EmplaceChecks says it holds. *)
emplaceCheck(t) ==
    /\ pc[t] = "check"
    /\ Goto(t, "emplaceHead")
    /\ UNCHANGED <<shared, seq, block, cur, incoming, observed>>

(* std::atomic_load(&head), at the start of each of the three functions. *)
loadHead(t) ==
    /\ \/ pc[t] = "emplaceHead" /\ Goto(t, "walk")
       \/ pc[t] = "shiftHead" /\ Goto(t, "shiftSeq")
       \/ pc[t] = "readHead" /\ Goto(t, "readSeq")
    /\ SetBlock(t, head)
    /\ UNCHANGED <<shared, seq, cur, incoming, observed>>

(* One round of the loop that looks for the block of seq: go to the next    *)
(* block, or append it.  Of two threads that append at once one exchange    *)
(* fails, and that thread finds the other's block in its next round.        *)
emplaceWalk(t) ==
    /\ pc[t] = "walk"
    /\ \/ /\ block[t] < BlockOf(seq[t])
          /\ block[t] < lastBlock
          /\ SetBlock(t, block[t] + 1)
          /\ UNCHANGED <<lastBlock, pc>>
       \/ /\ block[t] < BlockOf(seq[t])
          /\ block[t] = lastBlock
          /\ lastBlock' = lastBlock + 1
          /\ UNCHANGED <<block, pc>>
       \/ /\ block[t] >= BlockOf(seq[t])
          /\ Goto(t, "store")
          /\ UNCHANGED <<lastBlock, block>>
    /\ UNCHANGED <<head, currentSeq, slotSeq, slotValue, seq, cur, incoming, observed>>

TargetSlot(t) == Slot(block[t], seq[t] % BlockSize)

(* The two relaxed stores.  The code writes seq before value; as both are   *)
(* relaxed, another thread may see them in either order.                    *)
storeSeq(t) ==
    /\ \/ pc[t] = "store" /\ Goto(t, "storeValue")
       \/ pc[t] = "storeSeq" /\ Goto(t, "shiftHead")
    /\ slotSeq' = [slotSeq EXCEPT ![TargetSlot(t)] = seq[t]]
    /\ UNCHANGED <<head, currentSeq, lastBlock, slotValue, seq, block, cur, incoming, observed>>

storeValue(t) ==
    /\ \/ pc[t] = "store" /\ Goto(t, "storeSeq")
       \/ pc[t] = "storeValue" /\ Goto(t, "shiftHead")
    /\ slotValue' = [slotValue EXCEPT ![TargetSlot(t)] = ValueOf(seq[t])]
    /\ UNCHANGED <<head, currentSeq, lastBlock, slotSeq, seq, block, cur, incoming, observed>>

loadCurrentSeq(t) ==
    /\ \/ pc[t] = "shiftSeq" /\ Goto(t, "shiftFind")
       \/ pc[t] = "readSeq" /\ Goto(t, "readFind")
    /\ cur' = [cur EXCEPT ![t] = currentSeq]
    /\ UNCHANGED <<shared, seq, block, incoming, observed>>

(* getTargetBlock: its PRECONDITION, that the block exists, is part of      *)
(* EmplaceChecks.                                                           *)
getTargetBlock(t) ==
    /\ \/ pc[t] = "shiftFind" /\ Goto(t, "shiftCheck")
       \/ pc[t] = "readFind" /\ Goto(t, "readValue")
    /\ SetBlock(t, IF block[t] < BlockOf(cur[t]) THEN BlockOf(cur[t]) ELSE block[t])
    /\ UNCHANGED <<shared, seq, cur, incoming, observed>>

NextSeq(t) == cur[t] + 1
NewBlock(t) == NextSeq(t) % BlockSize = 0

(* Is the slot of the next sequence number written? *)
Available(t) ==
    IF NewBlock(t)
    THEN block[t] < lastBlock /\ slotSeq[Slot(block[t] + 1, 0)] = NextSeq(t)
    ELSE slotSeq[Slot(block[t], NextSeq(t) % BlockSize)] = NextSeq(t)

(* Mutant of shiftCheck: shiftCurrentValue stops after one shift. *)
shiftOnce(t) ==
    /\ pc[t] = "shiftCheck"
    /\ Goto(t, IF Available(t) /\ cur[t] < seq[t] THEN "shiftCas" ELSE "readHead")
    /\ UNCHANGED <<shared, seq, block, cur, incoming, observed>>

(* Mutant of shiftCheck: the next slot is not looked at. *)
shiftUnchecked(t) ==
    /\ pc[t] = "shiftCheck"
    /\ Goto(t, IF NextSeq(t) <= seq[t] THEN "shiftCas" ELSE "readHead")
    /\ UNCHANGED <<shared, seq, block, cur, incoming, observed>>

shiftCheck(t) ==
    /\ pc[t] = "shiftCheck"
    /\ Goto(t, IF Available(t) THEN "shiftCas" ELSE "readHead")
    /\ UNCHANGED <<shared, seq, block, cur, incoming, observed>>

(* Mutant of shiftCas: a plain store in place of the exchange. *)
shiftStore(t) ==
    /\ pc[t] = "shiftCas"
    /\ currentSeq' = NextSeq(t)
    /\ Goto(t, IF NewBlock(t) THEN "shiftCasHead" ELSE "shiftHead")
    /\ UNCHANGED <<head, lastBlock, slotSeq, slotValue, seq, block, cur, incoming, observed>>

shiftCas(t) ==
    /\ pc[t] = "shiftCas"
    /\ \/ /\ currentSeq = cur[t]
          /\ currentSeq' = NextSeq(t)
          /\ Goto(t, IF NewBlock(t) THEN "shiftCasHead" ELSE "shiftHead")
       \/ /\ currentSeq # cur[t]
          /\ Goto(t, "shiftHead")
          /\ UNCHANGED currentSeq
    /\ UNCHANGED <<head, lastBlock, slotSeq, slotValue, seq, block, cur, incoming, observed>>

shiftCasHead(t) ==
    /\ pc[t] = "shiftCasHead"
    /\ head' = IF head = block[t] THEN block[t] + 1 ELSE head
    /\ Goto(t, "shiftHead")
    /\ UNCHANGED <<currentSeq, lastBlock, slotSeq, slotValue, seq, block, cur, incoming, observed>>

(* A thread may read the current value at any time; updateWatermark does so *)
(* after each emplace.                                                      *)
getCurrentValue(t) ==
    /\ pc[t] = "idle"
    /\ Goto(t, "readHead")
    /\ UNCHANGED <<shared, seq, block, cur, incoming, observed>>

readValue(t) ==
    /\ pc[t] = "readValue"
    /\ observed' = [observed EXCEPT ![t] =
           [seq |-> cur[t], value |-> slotValue[Slot(block[t], cur[t] % BlockSize)]]]
    /\ Goto(t, "idle")
    /\ seq' = [seq EXCEPT ![t] = 0]
    /\ SetBlock(t, 0)
    /\ cur' = [cur EXCEPT ![t] = 0]
    /\ UNCHANGED <<shared, incoming>>

(* A step of a call in progress. *)
Step(t) ==
    \/ emplaceCheck(t)
    \/ loadHead(t)
    \/ emplaceWalk(t)
    \/ storeSeq(t)
    \/ storeValue(t)
    \/ loadCurrentSeq(t)
    \/ getTargetBlock(t)
    \/ shiftCheck(t)
    \/ shiftCas(t)
    \/ shiftCasHead(t)
    \/ readValue(t)

Next ==
    \E t \in Threads :
        \/ \E s \in SequenceNumbers : emplace(t, s)
        \/ getCurrentValue(t)
        \/ Step(t)

Spec == Init /\ [][Next]_vars

(* Calls in progress are not abandoned, and every sequence number of the    *)
(* stream is put in eventually, by whichever thread gets its buffer.        *)
FairSpec ==
    /\ Spec
    /\ \A t \in Threads : WF_vars(Step(t))
    /\ \A s \in SequenceNumbers : SF_vars(\E t \in Threads : emplace(t, s))

-----------------------------------------------------------------------------
(* currentSeq never runs over a sequence number that is missing, although   *)
(* threads shift it concurrently on the strength of slots they read before. *)
NoGap == \A s \in 1..currentSeq : slotSeq[s] = s

(* Seen from outside, the queue is a gapless prefix: whatever threads read  *)
(* before they exchange, a number is put in once and never taken out, and   *)
(* currentSeq moves by one at a time, only forward and only to a number     *)
(* that is in.                                                              *)
Prefix == INSTANCE GaplessPrefix WITH
    Numbers <- SequenceNumbers,
    present <- {s \in SequenceNumbers : slotSeq[s] = s},
    current <- currentSeq
ImplementsGaplessPrefix == Prefix!Spec

(* Walks along the list find their block: head is never ahead of the block  *)
(* of a currentSeq that is loaded after it, the block of currentSeq exists, *)
(* and a number is put into the block it belongs to, ahead of currentSeq    *)
(* (the INVARIANTs of emplace and emplaceValueInBlock at :91 and :156-164   *)
(* and the PRECONDITION of getTargetBlock at :239).                         *)
WalksFindBlock ==
    /\ head <= BlockOf(currentSeq)
    /\ \A t \in Threads :
        /\ pc[t] \in {"shiftFind", "readFind"} => block[t] <= BlockOf(cur[t]) /\ BlockOf(cur[t]) <= lastBlock
        /\ pc[t] = "check" => seq[t] > currentSeq
        /\ pc[t] \in {"store", "storeValue", "storeSeq"} => block[t] = BlockOf(seq[t])

(* No lost shift: once every number is in, the whole stream is current.  A  *)
(* thread that stops shifting because the next slot was empty relies on the *)
(* thread that fills it to go on.                                           *)
ReachesEnd == <>[](currentSeq = NumSeqs)

=============================================================================
