---------------------- MODULE MonotonicSeqQueueProofs ----------------------
(***************************************************************************)
(* Proofs about MonotonicSeqQueue, for any number of threads, any stream   *)
(* and blocks of any size.                                                 *)
(***************************************************************************)
EXTENDS MonotonicSeqQueue, TLAPS

(* The labels at which a thread has a number that is not yet in.            *)
Inserting == {"check", "emplaceHead", "walk", "store", "storeSeq"}

TypeOK ==
    /\ head \in Nat
    /\ currentSeq \in 0..NumSeqs
    /\ lastBlock \in 0..BlockOf(NumSeqs)
    /\ slotSeq \in [Slots -> Nat]
    /\ pc \in [Threads -> Labels]
    /\ seq \in [Threads -> 0..NumSeqs]
    /\ block \in [Threads -> Nat]
    /\ cur \in [Threads -> 0..NumSeqs]
    /\ incoming \subseteq SequenceNumbers

(* A slot holds its own number or none, and its block is in the list.       *)
SlotsOwn ==
    \A s \in Slots :
        \/ slotSeq[s] = 0
        \/ s \in SequenceNumbers /\ slotSeq[s] = s /\ BlockOf(s) <= lastBlock

(* Numbers that are on their way are not in, and no two threads have the    *)
(* same one.                                                                *)
OnTheWay ==
    /\ \A s \in incoming : slotSeq[s] = 0
    /\ \A t \in Threads : pc[t] \in Inserting =>
          seq[t] \in SequenceNumbers \ incoming /\ slotSeq[seq[t]] = 0
    /\ \A t, u \in Threads :
          pc[t] \in Inserting /\ pc[u] \in Inserting /\ seq[t] = seq[u] => t = u

(* Which block a thread has in hand, and how old what it read may be.       *)
InHand(t) ==
    /\ pc[t] = "walk" => block[t] <= BlockOf(seq[t]) /\ block[t] <= lastBlock
    /\ pc[t] \in {"store", "storeValue", "storeSeq"} =>
          seq[t] \in SequenceNumbers /\ block[t] = BlockOf(seq[t]) /\ block[t] <= lastBlock
    /\ pc[t] \in {"shiftSeq", "readSeq"} => block[t] <= BlockOf(currentSeq)
    /\ pc[t] \in {"shiftFind", "readFind"} =>
          block[t] <= BlockOf(cur[t]) /\ cur[t] <= currentSeq
    /\ pc[t] \in {"shiftCheck", "shiftCas"} =>
          block[t] = BlockOf(cur[t]) /\ cur[t] <= currentSeq
    /\ pc[t] = "shiftCas" => NextSeq(t) \in SequenceNumbers /\ slotSeq[NextSeq(t)] = NextSeq(t)
    /\ pc[t] = "shiftCasHead" =>
          block[t] = BlockOf(cur[t]) /\ NewBlock(t) /\ NextSeq(t) <= currentSeq

IInv ==
    /\ TypeOK
    /\ SlotsOwn
    /\ OnTheWay
    /\ NoGap
    /\ head <= BlockOf(currentSeq)
    /\ \A t \in Threads : InHand(t)

-----------------------------------------------------------------------------
(* The block index and the slot index of a number, by division.             *)
LEMMA Division ==
    ASSUME NEW d \in Nat \ {0}, NEW a \in Nat
    PROVE  /\ a \div d \in Nat
           /\ a % d \in 0..(d - 1)
           /\ a = (a \div d) * d + (a % d)
  OBVIOUS

(* A product of natural numbers is one.                                     *)
LEMMA Product == ASSUME NEW a \in Nat, NEW b \in Nat PROVE a * b \in Nat
  OBVIOUS

(* Multiplication by a natural number is monotone.                          *)
LEMMA TimesMonotone ==
    ASSUME NEW d \in Nat, NEW a \in Nat, NEW b \in Nat, a <= b
    PROVE  a * d <= b * d
  <1>1. (b - a) * d \in Nat
    BY Product
  <1>2. QED
    BY <1>1

(* A number is in the slot that its block and index name (BlockOf, Slot).   *)
LEMMA SlotOfNumber ==
    ASSUME NEW a \in Nat
    PROVE  /\ BlockOf(a) \in Nat
           /\ a % BlockSize \in 0..(BlockSize - 1)
           /\ Slot(BlockOf(a), a % BlockSize) = a
  BY Division, MonotonicSeqQueueAssumption DEF BlockOf, Slot

(* A larger number is in the same block or in a later one.                  *)
LEMMA BlockMonotone ==
    ASSUME NEW a \in Nat, NEW b \in Nat, a <= b
    PROVE  BlockOf(a) <= BlockOf(b)
  <1> DEFINE p == BlockOf(a)
             q == BlockOf(b)
  <1>1. p \in Nat /\ q \in Nat /\ p * BlockSize <= a /\ b < q * BlockSize + BlockSize
    BY Division, Product, MonotonicSeqQueueAssumption DEF BlockOf
  <1> HIDE DEF p, q
  <1>2. ASSUME p > q PROVE FALSE
    <2>1. (q + 1) * BlockSize <= p * BlockSize
      BY <1>1, <1>2, TimesMonotone, MonotonicSeqQueueAssumption
    <2>2. (q + 1) * BlockSize = q * BlockSize + BlockSize
      BY <1>1, MonotonicSeqQueueAssumption
    <2>3. QED
      BY <1>1, <2>1, <2>2, Product, MonotonicSeqQueueAssumption
  <1>3. p <= q
    BY <1>1, <1>2
  <1>4. QED
    BY <1>3 DEF p, q

(* A number whose index is 0 is in the block after its predecessor's.       *)
LEMMA FirstOfBlock ==
    ASSUME NEW a \in Nat, (a + 1) % BlockSize = 0
    PROVE  BlockOf(a) + 1 <= BlockOf(a + 1)
  <1> DEFINE p == BlockOf(a)
             q == BlockOf(a + 1)
  <1>1. p \in Nat /\ q \in Nat /\ p * BlockSize <= a /\ a + 1 = q * BlockSize
    BY Division, Product, MonotonicSeqQueueAssumption DEF BlockOf
  <1> HIDE DEF p, q
  <1>2. ASSUME q <= p PROVE FALSE
    <2>1. q * BlockSize <= p * BlockSize
      BY <1>1, <1>2, TimesMonotone, MonotonicSeqQueueAssumption
    <2>2. QED
      BY <1>1, <2>1, Product, MonotonicSeqQueueAssumption
  <1>3. p + 1 <= q
    BY <1>1, <1>2
  <1>4. QED
    BY <1>3 DEF p, q

(* The blocks up to that of the last number have their slots in Slots.      *)
LEMMA SlotExists ==
    ASSUME NEW b \in Nat, b <= BlockOf(NumSeqs), NEW i \in 0..(BlockSize - 1)
    PROVE  Slot(b, i) \in Slots
  <1>1. BlockOf(NumSeqs) \in Nat
    BY SlotOfNumber, MonotonicSeqQueueAssumption
  <1>2. b * BlockSize <= BlockOf(NumSeqs) * BlockSize
    BY <1>1, TimesMonotone, MonotonicSeqQueueAssumption
  <1>3. b * BlockSize \in Nat /\ BlockOf(NumSeqs) * BlockSize \in Nat
    BY <1>1, Product, MonotonicSeqQueueAssumption
  <1>4. QED
    BY <1>2, <1>3, MonotonicSeqQueueAssumption DEF Slot, Slots

(* Every sequence number has a slot.                                        *)
LEMMA NumbersAreSlots == \A s \in SequenceNumbers : s \in Slots /\ s \in Nat \ {0}
  <1>1. SUFFICES ASSUME NEW s \in SequenceNumbers PROVE s \in Slots
    BY MonotonicSeqQueueAssumption DEF SequenceNumbers
  <1>2. s \in Nat /\ s <= NumSeqs /\ NumSeqs \in Nat
    BY MonotonicSeqQueueAssumption DEF SequenceNumbers
  <1>3. Slot(BlockOf(s), s % BlockSize) \in Slots
    BY <1>2, SlotOfNumber, BlockMonotone, SlotExists
  <1>4. QED
    BY <1>2, <1>3, SlotOfNumber

(* The initial state satisfies the inductive invariant.                     *)
LEMMA InitInv == Init => IInv
  <1>1. SUFFICES ASSUME Init PROVE IInv
    OBVIOUS
  <1>2. BlockOf(0) = 0 /\ BlockOf(NumSeqs) \in Nat /\ NumSeqs \in Nat
    BY MonotonicSeqQueueAssumption, SlotOfNumber, Division DEF BlockOf
  <1>3. TypeOK
    BY <1>1, <1>2 DEF Init, TypeOK, Labels
  <1>4. SlotsOwn /\ OnTheWay /\ NoGap
    BY <1>1, NumbersAreSlots DEF Init, SlotsOwn, OnTheWay, NoGap, Inserting
  <1>5. \A t \in Threads : InHand(t)
    BY <1>1 DEF Init, InHand
  <1>6. QED
    BY <1>1, <1>2, <1>3, <1>4, <1>5 DEF Init, IInv

(* What a thread read stays valid while others only add blocks and numbers  *)
(* and move currentSeq forward.                                             *)
LEMMA OthersKeep ==
    ASSUME TypeOK, TypeOK', NEW u \in Threads, InHand(u),
           pc'[u] = pc[u], seq'[u] = seq[u], block'[u] = block[u], cur'[u] = cur[u],
           lastBlock <= lastBlock', currentSeq <= currentSeq',
           \A s \in SequenceNumbers : slotSeq[s] = s => slotSeq'[s] = s
    PROVE  InHand(u)'
  <1>1. /\ currentSeq \in Nat /\ currentSeq' \in Nat /\ cur[u] \in Nat /\ block[u] \in Nat
        /\ lastBlock \in Int /\ lastBlock' \in Int
    BY MonotonicSeqQueueAssumption, SlotOfNumber DEF TypeOK
  <1>2. BlockOf(currentSeq) <= BlockOf(currentSeq') /\ BlockOf(currentSeq) \in Nat /\ BlockOf(currentSeq') \in Nat
    BY <1>1, BlockMonotone, SlotOfNumber
  <1>3. BlockOf(currentSeq)' = BlockOf(currentSeq')
    BY DEF BlockOf
  <1>4. BlockOf(seq[u])' = BlockOf(seq[u]) /\ BlockOf(cur[u])' = BlockOf(cur[u])
    BY DEF BlockOf
  <1>5. NextSeq(u)' = NextSeq(u) /\ NewBlock(u)' = NewBlock(u) /\ SequenceNumbers' = SequenceNumbers
    BY DEF NextSeq, NewBlock, SequenceNumbers
  <1>6. NextSeq(u) \in Nat
    BY <1>1 DEF NextSeq
  <1>7. QED
    BY <1>1, <1>2, <1>3, <1>4, <1>5, <1>6 DEF InHand

(* Taking a number to put in preserves the inductive invariant (emplace).   *)
LEMMA EmplaceInv ==
    ASSUME IInv, NEW t \in Threads, NEW s \in SequenceNumbers, emplace(t, s)
    PROVE  IInv'
  <1> USE DEF emplace, shared, Goto
  <1>1. TypeOK'
    BY DEF IInv, TypeOK, Labels, SequenceNumbers
  <1>2. SlotsOwn' /\ NoGap' /\ (head <= BlockOf(currentSeq))'
    BY DEF IInv, SlotsOwn, NoGap, BlockOf
  <1>3. OnTheWay'
    BY DEF IInv, OnTheWay, TypeOK, Inserting
  <1>4. InHand(t)'
    BY DEF IInv, TypeOK, InHand
  <1>5. ASSUME NEW u \in Threads, u # t PROVE InHand(u)'
    BY <1>1, <1>5, OthersKeep DEF IInv, TypeOK
  <1>6. QED
    BY <1>1, <1>2, <1>3, <1>4, <1>5 DEF IInv

(* The steps that only read, or move a thread's pointer along the list      *)
(* without adding to it.                                                    *)
Reading(t) ==
    \/ emplaceCheck(t)
    \/ loadHead(t)
    \/ loadCurrentSeq(t)
    \/ getTargetBlock(t)
    \/ shiftCheck(t)
    \/ getCurrentValue(t)
    \/ readValue(t)

(* A number on its way lies ahead of the current one.                       *)
LEMMA Ahead ==
    ASSUME IInv, NEW t \in Threads, pc[t] \in Inserting
    PROVE  seq[t] \in Nat /\ currentSeq \in Nat /\ currentSeq < seq[t]
           /\ BlockOf(currentSeq) <= BlockOf(seq[t])
  <1>1. seq[t] \in SequenceNumbers /\ slotSeq[seq[t]] = 0
    BY DEF IInv, OnTheWay
  <1>2. seq[t] \in Nat \ {0} /\ currentSeq \in Nat
    BY <1>1, MonotonicSeqQueueAssumption DEF IInv, TypeOK, SequenceNumbers
  <1>3. currentSeq < seq[t]
    BY <1>1, <1>2 DEF IInv, NoGap
  <1>4. QED
    BY <1>2, <1>3, BlockMonotone

(* The block of the current number is in the list.                          *)
LEMMA CurrentBlockExists ==
    ASSUME IInv
    PROVE  BlockOf(currentSeq) <= lastBlock /\ lastBlock \in Nat /\ lastBlock <= BlockOf(NumSeqs)
  <1>1. lastBlock \in Nat /\ lastBlock <= BlockOf(NumSeqs) /\ currentSeq \in 0..NumSeqs
    BY SlotOfNumber, MonotonicSeqQueueAssumption DEF IInv, TypeOK
  <1>2. CASE currentSeq = 0
    BY <1>1, <1>2, MonotonicSeqQueueAssumption DEF BlockOf
  <1>3. CASE currentSeq # 0
    <2>1. currentSeq \in SequenceNumbers /\ currentSeq \in 1..currentSeq
      BY <1>1, <1>3, MonotonicSeqQueueAssumption DEF SequenceNumbers
    <2>2. slotSeq[currentSeq] = currentSeq /\ currentSeq \in Slots
      BY <2>1, NumbersAreSlots DEF IInv, NoGap
    <2>3. QED
      BY <1>1, <1>3, <2>2 DEF IInv, SlotsOwn
  <1>4. QED
    BY <1>1, <1>2, <1>3

(* A slot that holds the next number is the slot of that number.            *)
LEMMA AvailableIsIn ==
    ASSUME IInv, NEW t \in Threads, pc[t] = "shiftCheck", Available(t)
    PROVE  NextSeq(t) \in SequenceNumbers /\ slotSeq[NextSeq(t)] = NextSeq(t)
  <1>1. block[t] = BlockOf(cur[t]) /\ cur[t] <= currentSeq
    BY DEF IInv, InHand
  <1>2. cur[t] \in Nat /\ currentSeq \in Nat /\ block[t] \in Nat /\ BlockOf(currentSeq) \in Nat
        /\ NumSeqs \in Nat /\ BlockOf(NumSeqs) \in Nat
    BY MonotonicSeqQueueAssumption, SlotOfNumber DEF IInv, TypeOK
  <1>3. block[t] <= lastBlock /\ lastBlock \in Nat /\ lastBlock <= BlockOf(NumSeqs)
    BY <1>1, <1>2, BlockMonotone, CurrentBlockExists
  <1>4. NextSeq(t) \in Nat \ {0} /\ NextSeq(t) % BlockSize \in 0..(BlockSize - 1)
    BY <1>2, SlotOfNumber DEF NextSeq
  <1>5. \E s \in Slots : slotSeq[s] = NextSeq(t)
    <2>1. CASE NewBlock(t)
      <3>1. block[t] + 1 <= BlockOf(NumSeqs) /\ slotSeq[Slot(block[t] + 1, 0)] = NextSeq(t)
        BY <1>2, <1>3, <2>1 DEF Available
      <3>2. Slot(block[t] + 1, 0) \in Slots
        BY <1>2, <3>1, SlotExists, MonotonicSeqQueueAssumption
      <3>3. QED
        BY <3>1, <3>2
    <2>2. CASE ~NewBlock(t)
      <3>1. slotSeq[Slot(block[t], NextSeq(t) % BlockSize)] = NextSeq(t)
        BY <2>2 DEF Available
      <3>2. Slot(block[t], NextSeq(t) % BlockSize) \in Slots
        BY <1>2, <1>3, <1>4, SlotExists
      <3>3. QED
        BY <3>1, <3>2
    <2>3. QED
      BY <2>1, <2>2
  <1>6. QED
    BY <1>4, <1>5 DEF IInv, SlotsOwn

(* Steps that only read preserve the inductive invariant.                   *)
LEMMA ReadingInv ==
    ASSUME IInv, NEW t \in Threads, Reading(t)
    PROVE  IInv'
  <1>1. /\ UNCHANGED <<head, currentSeq, lastBlock, slotSeq, incoming>>
        /\ \A u \in Threads : u # t => pc'[u] = pc[u] /\ seq'[u] = seq[u] /\ block'[u] = block[u] /\ cur'[u] = cur[u]
    BY DEF IInv, TypeOK, Reading, emplaceCheck, loadHead, loadCurrentSeq, getTargetBlock, shiftCheck,
           getCurrentValue, readValue, shared, Goto, SetBlock
  <1>2. head \in Nat /\ currentSeq \in 0..NumSeqs /\ cur[t] \in 0..NumSeqs /\ block[t] \in Nat
        /\ BlockOf(cur[t]) \in Nat /\ NumSeqs \in Nat /\ BlockOf(currentSeq) \in Nat
    BY MonotonicSeqQueueAssumption, SlotOfNumber DEF IInv, TypeOK
  <1>3. TypeOK'
    BY <1>2 DEF IInv, TypeOK, Reading, emplaceCheck, loadHead, loadCurrentSeq, getTargetBlock, shiftCheck,
           getCurrentValue, readValue, shared, Goto, SetBlock, Labels, BlockOf
  <1>4. SlotsOwn' /\ NoGap' /\ (head <= BlockOf(currentSeq))'
    BY <1>1 DEF IInv, SlotsOwn, NoGap, BlockOf
  <1>5. pc'[t] \in Inserting => pc[t] \in Inserting /\ seq'[t] = seq[t]
    BY DEF IInv, TypeOK, Reading, emplaceCheck, loadHead, loadCurrentSeq, getTargetBlock, shiftCheck,
           getCurrentValue, readValue, shared, Goto, SetBlock, Inserting
  <1>6. OnTheWay'
    BY <1>1, <1>5 DEF IInv, OnTheWay
  <1>7. ASSUME NEW u \in Threads, u # t PROVE InHand(u)'
    BY <1>1, <1>2, <1>3, <1>7, OthersKeep DEF IInv, TypeOK
  <1>8. InHand(t)'
    <2>1. CASE emplaceCheck(t) \/ getCurrentValue(t) \/ readValue(t)
      BY <2>1 DEF IInv, TypeOK, emplaceCheck, getCurrentValue, readValue, Goto, InHand
    <2>2. CASE loadHead(t)
      <3>1. pc[t] = "emplaceHead" => head <= BlockOf(seq[t]) /\ head <= lastBlock
        <4>1. SUFFICES ASSUME pc[t] = "emplaceHead" PROVE head <= BlockOf(seq[t]) /\ head <= lastBlock
          OBVIOUS
        <4>2. BlockOf(currentSeq) <= BlockOf(seq[t]) /\ BlockOf(seq[t]) \in Nat
          BY <4>1, Ahead, SlotOfNumber DEF Inserting
        <4>3. QED
          BY <1>2, <4>2, CurrentBlockExists DEF IInv
      <3>2. head <= BlockOf(currentSeq)
        BY DEF IInv
      <3>3. QED
        BY <2>2, <3>1, <3>2 DEF IInv, TypeOK, loadHead, shared, Goto, SetBlock, InHand, BlockOf
    <2>3. CASE loadCurrentSeq(t)
      BY <1>2, <2>3 DEF IInv, TypeOK, loadCurrentSeq, shared, Goto, InHand, BlockOf
    <2>4. CASE getTargetBlock(t)
      <3>1. block'[t] = BlockOf(cur[t]) /\ cur' = cur /\ cur[t] <= currentSeq
        BY <1>2, <2>4 DEF IInv, TypeOK, getTargetBlock, SetBlock, InHand
      <3>2. pc'[t] \in {"shiftCheck", "readValue"}
        BY <2>4 DEF IInv, TypeOK, getTargetBlock, Goto
      <3>3. QED
        BY <1>1, <3>1, <3>2 DEF InHand, BlockOf
    <2>5. CASE shiftCheck(t)
      <3>1. pc[t] = "shiftCheck" /\ UNCHANGED <<shared, block, cur>>
        BY <2>5 DEF shiftCheck
      <3>2. block[t] = BlockOf(cur[t]) /\ cur[t] <= currentSeq
        BY <3>1 DEF IInv, InHand
      <3>3. CASE Available(t)
        <4>1. pc'[t] = "shiftCas"
          BY <2>5, <3>3 DEF IInv, TypeOK, shiftCheck, Goto
        <4>2. NextSeq(t) \in SequenceNumbers /\ slotSeq[NextSeq(t)] = NextSeq(t)
          BY <3>1, <3>3, AvailableIsIn
        <4>3. QED
          BY <3>1, <3>2, <4>1, <4>2 DEF shared, InHand, NextSeq, SequenceNumbers, BlockOf
      <3>4. CASE ~Available(t)
        BY <2>5, <3>4 DEF IInv, TypeOK, shiftCheck, Goto, InHand
      <3>5. QED
        BY <3>3, <3>4
    <2>6. QED
      BY <2>1, <2>2, <2>3, <2>4, <2>5 DEF Reading
  <1>9. QED
    BY <1>3, <1>4, <1>6, <1>7, <1>8 DEF IInv

(* Walking to the block of a number, and adding it, preserves the inductive *)
(* invariant (emplaceWalk).                                                 *)
LEMMA WalkInv ==
    ASSUME IInv, NEW t \in Threads, emplaceWalk(t)
    PROVE  IInv'
  <1>1. /\ UNCHANGED <<head, currentSeq, slotSeq, seq, cur, incoming>>
        /\ pc[t] = "walk"
        /\ \A u \in Threads : u # t => pc'[u] = pc[u] /\ block'[u] = block[u]
    BY DEF IInv, TypeOK, emplaceWalk, Goto, SetBlock
  <1>2. /\ block[t] \in Nat /\ block[t] <= BlockOf(seq[t]) /\ block[t] <= lastBlock
        /\ lastBlock \in Nat
    BY <1>1, SlotOfNumber, MonotonicSeqQueueAssumption DEF IInv, TypeOK, InHand
  <1>3. BlockOf(seq[t]) \in Nat /\ BlockOf(NumSeqs) \in Nat /\ BlockOf(seq[t]) <= BlockOf(NumSeqs)
    BY SlotOfNumber, BlockMonotone, MonotonicSeqQueueAssumption DEF IInv, TypeOK
  <1>4. /\ lastBlock' \in Nat /\ lastBlock <= lastBlock' /\ lastBlock' <= BlockOf(NumSeqs)
        /\ block'[t] \in Nat /\ block'[t] <= BlockOf(seq[t]) /\ block'[t] <= lastBlock'
        /\ \/ pc'[t] = "walk"
           \/ pc'[t] = "store" /\ block'[t] = BlockOf(seq[t])
    BY <1>2, <1>3 DEF IInv, TypeOK, emplaceWalk, Goto, SetBlock
  <1>5. TypeOK'
    <2>1. lastBlock' \in 0..BlockOf(NumSeqs) /\ BlockOf(NumSeqs)' = BlockOf(NumSeqs)
      BY <1>3, <1>4 DEF BlockOf
    <2>2. pc' \in [Threads -> Labels] /\ block' \in [Threads -> Nat]
      BY <1>2 DEF IInv, TypeOK, emplaceWalk, Goto, SetBlock, Labels
    <2>3. QED
      BY <1>1, <2>1, <2>2 DEF IInv, TypeOK
  <1>6. SlotsOwn'
    <2>1. \A s \in Slots : BlockOf(s) <= lastBlock => BlockOf(s) <= lastBlock'
      <3>1. \A s \in Slots : s \in Nat
        BY SlotOfNumber, MonotonicSeqQueueAssumption DEF Slots
      <3>2. QED
        BY <1>2, <1>4, <3>1, SlotOfNumber
    <2>2. QED
      BY <1>1, <2>1 DEF IInv, SlotsOwn, BlockOf
  <1>7. NoGap' /\ (head <= BlockOf(currentSeq))'
    BY <1>1 DEF IInv, NoGap, BlockOf
  <1>8. OnTheWay'
    BY <1>1, <1>4 DEF IInv, OnTheWay, Inserting
  <1>9. ASSUME NEW u \in Threads, u # t PROVE InHand(u)'
    BY <1>1, <1>4, <1>5, <1>9, OthersKeep DEF IInv, TypeOK
  <1>10. InHand(t)'
    <2>1. seq[t] \in SequenceNumbers
      BY <1>1 DEF IInv, OnTheWay, Inserting
    <2>2. QED
      BY <1>1, <1>4, <2>1 DEF InHand, BlockOf, SequenceNumbers
  <1>11. QED
    BY <1>5, <1>6, <1>7, <1>8, <1>9, <1>10 DEF IInv

(* Where a number is written is its own slot.                               *)
LEMMA WritesOwnSlot ==
    ASSUME IInv, NEW t \in Threads, pc[t] \in {"store", "storeValue", "storeSeq"}
    PROVE  TargetSlot(t) = seq[t] /\ seq[t] \in SequenceNumbers /\ BlockOf(seq[t]) <= lastBlock
  <1>1. seq[t] \in SequenceNumbers /\ block[t] = BlockOf(seq[t]) /\ block[t] <= lastBlock
    BY DEF IInv, InHand
  <1>2. QED
    BY <1>1, NumbersAreSlots, SlotOfNumber DEF TargetSlot

(* Writing the number of a slot preserves the inductive invariant (storeSeq). *)
LEMMA StoreSeqInv ==
    ASSUME IInv, NEW t \in Threads, storeSeq(t)
    PROVE  IInv'
  <1>1. /\ UNCHANGED <<head, currentSeq, lastBlock, seq, block, cur, incoming>>
        /\ pc[t] \in {"store", "storeSeq"}
        /\ \A u \in Threads : u # t => pc'[u] = pc[u]
        /\ pc'[t] \in {"storeValue", "shiftHead"}
        /\ pc'[t] = "storeValue" => pc[t] = "store"
    BY DEF IInv, TypeOK, storeSeq, Goto
  <1>2. TargetSlot(t) = seq[t] /\ seq[t] \in SequenceNumbers /\ BlockOf(seq[t]) <= lastBlock
    BY <1>1, WritesOwnSlot
  <1>3. seq[t] \in Slots /\ seq[t] \in Nat \ {0}
    BY <1>2, NumbersAreSlots
  <1>4. slotSeq' = [slotSeq EXCEPT ![seq[t]] = seq[t]] /\ slotSeq \in [Slots -> Nat]
    BY <1>2 DEF storeSeq, IInv, TypeOK
  <1>5. TypeOK'
    BY <1>1, <1>3, <1>4, ZenonT(30) DEF IInv, TypeOK, storeSeq, Goto, Labels, BlockOf
  <1>6. SlotsOwn'
    BY <1>1, <1>2, <1>3, <1>4 DEF IInv, SlotsOwn, BlockOf
  <1>7. NoGap' /\ (head <= BlockOf(currentSeq))'
    <2>1. \A s \in 1..currentSeq : s \in Slots
      BY NumbersAreSlots, MonotonicSeqQueueAssumption DEF IInv, TypeOK, SequenceNumbers
    <2>2. QED
      BY <1>1, <1>4, <2>1 DEF IInv, NoGap, BlockOf
  <1>8. OnTheWay'
    <2>1. seq[t] \notin incoming /\ pc[t] \in Inserting /\ pc'[t] \notin Inserting
      BY <1>1 DEF IInv, OnTheWay, Inserting
    <2>2. \A s \in incoming : s \in Slots /\ s # seq[t]
      BY <2>1, NumbersAreSlots DEF IInv, TypeOK
    <2>3. \A u \in Threads : u # t /\ pc[u] \in Inserting => seq[u] # seq[t] /\ seq[u] \in Slots
      BY <2>1, NumbersAreSlots DEF IInv, OnTheWay
    <2>4. \A s \in Slots : s # seq[t] => slotSeq'[s] = slotSeq[s]
      BY <1>4
    <2>5. \A u \in Threads : pc'[u] \in Inserting => u # t /\ pc[u] \in Inserting
      BY <1>1, <2>1
    <2>6. \A s \in incoming : slotSeq'[s] = 0
      BY <2>2, <2>4 DEF IInv, OnTheWay
    <2>7. \A u \in Threads : pc'[u] \in Inserting => seq[u] \in SequenceNumbers \ incoming /\ slotSeq'[seq[u]] = 0
      BY <2>3, <2>4, <2>5 DEF IInv, OnTheWay
    <2>8. QED
      BY <1>1, <2>5, <2>6, <2>7 DEF IInv, OnTheWay, SequenceNumbers
  <1>9. \A s \in SequenceNumbers : slotSeq[s] = s => slotSeq'[s] = s
    BY <1>3, <1>4, NumbersAreSlots
  <1>10. ASSUME NEW u \in Threads, u # t PROVE InHand(u)'
    <2>1. lastBlock <= lastBlock' /\ currentSeq <= currentSeq'
      BY <1>1, SlotOfNumber, MonotonicSeqQueueAssumption DEF IInv, TypeOK
    <2>2. QED
      BY <1>1, <1>5, <1>9, <1>10, <2>1, OthersKeep DEF IInv
  <1>11. InHand(t)'
    BY <1>1, <1>2 DEF IInv, InHand, BlockOf, SequenceNumbers
  <1>12. QED
    BY <1>5, <1>6, <1>7, <1>8, <1>10, <1>11 DEF IInv

(* Writing the value of a slot preserves the inductive invariant            *)
(* (storeValue).                                                            *)
LEMMA StoreValueInv ==
    ASSUME IInv, NEW t \in Threads, storeValue(t)
    PROVE  IInv'
  <1>1. /\ UNCHANGED <<head, currentSeq, lastBlock, slotSeq, seq, block, cur, incoming>>
        /\ \A u \in Threads : u # t => pc'[u] = pc[u]
        /\ \/ pc[t] = "store" /\ pc'[t] = "storeSeq"
           \/ pc'[t] = "shiftHead"
    BY DEF IInv, TypeOK, storeValue, Goto
  <1>2. TypeOK'
    BY <1>1 DEF IInv, TypeOK, storeValue, Goto, Labels, BlockOf
  <1>3. SlotsOwn' /\ NoGap' /\ (head <= BlockOf(currentSeq))'
    BY <1>1 DEF IInv, SlotsOwn, NoGap, BlockOf
  <1>4. OnTheWay'
    <2>1. \A u \in Threads : pc'[u] \in Inserting => pc[u] \in Inserting
      BY <1>1 DEF Inserting
    <2>2. QED
      BY <1>1, <2>1 DEF IInv, OnTheWay
  <1>5. ASSUME NEW u \in Threads, u # t PROVE InHand(u)'
    <2>1. lastBlock <= lastBlock' /\ currentSeq <= currentSeq'
      BY <1>1, SlotOfNumber, MonotonicSeqQueueAssumption DEF IInv, TypeOK
    <2>2. QED
      BY <1>1, <1>2, <1>5, <2>1, OthersKeep DEF IInv
  <1>6. InHand(t)'
    BY <1>1 DEF IInv, InHand, BlockOf, SequenceNumbers
  <1>7. QED
    BY <1>2, <1>3, <1>4, <1>5, <1>6 DEF IInv

(* Moving currentSeq by an exchange preserves the inductive invariant: the  *)
(* exchange succeeds only if the number that was checked is still the next  *)
(* one (shiftCas).                                                          *)
LEMMA ShiftInv ==
    ASSUME IInv, NEW t \in Threads, shiftCas(t)
    PROVE  IInv'
  <1>1. /\ UNCHANGED <<head, lastBlock, slotSeq, seq, block, cur, incoming>>
        /\ pc[t] = "shiftCas"
        /\ \A u \in Threads : u # t => pc'[u] = pc[u]
        /\ \/ currentSeq' = currentSeq /\ pc'[t] = "shiftHead"
           \/ /\ currentSeq = cur[t] /\ currentSeq' = NextSeq(t)
              /\ \/ pc'[t] = "shiftHead"
                 \/ pc'[t] = "shiftCasHead" /\ NewBlock(t)
    BY DEF IInv, TypeOK, shiftCas, Goto
  <1>2. NextSeq(t) \in SequenceNumbers /\ slotSeq[NextSeq(t)] = NextSeq(t) /\ block[t] = BlockOf(cur[t])
    BY <1>1 DEF IInv, InHand
  <1>3. currentSeq \in 0..NumSeqs /\ NumSeqs \in Nat /\ cur[t] \in 0..NumSeqs
    BY MonotonicSeqQueueAssumption DEF IInv, TypeOK
  <1>4. currentSeq' \in 0..NumSeqs /\ currentSeq <= currentSeq' /\ currentSeq' <= currentSeq + 1
    BY <1>1, <1>2, <1>3 DEF NextSeq, SequenceNumbers
  <1>5. TypeOK'
    BY <1>1, <1>4 DEF IInv, TypeOK, shiftCas, Goto, Labels, BlockOf
  <1>6. SlotsOwn'
    BY <1>1 DEF IInv, SlotsOwn, BlockOf
  <1>7. NoGap'
    BY <1>1, <1>2, <1>3, <1>4 DEF IInv, NoGap, NextSeq
  <1>8. (head <= BlockOf(currentSeq))'
    <2>1. BlockOf(currentSeq) <= BlockOf(currentSeq') /\ BlockOf(currentSeq) \in Nat /\ BlockOf(currentSeq') \in Nat
      BY <1>3, <1>4, BlockMonotone, SlotOfNumber
    <2>2. head \in Nat /\ head <= BlockOf(currentSeq)
      BY DEF IInv, TypeOK
    <2>3. head' <= BlockOf(currentSeq')
      BY <1>1, <2>1, <2>2
    <2>4. QED
      BY <2>3 DEF BlockOf
  <1>9. OnTheWay'
    BY <1>1 DEF IInv, OnTheWay, Inserting
  <1>10. ASSUME NEW u \in Threads, u # t PROVE InHand(u)'
    <2>1. lastBlock <= lastBlock'
      BY <1>1, SlotOfNumber, MonotonicSeqQueueAssumption DEF IInv, TypeOK
    <2>2. QED
      BY <1>1, <1>4, <1>5, <1>10, <2>1, OthersKeep DEF IInv
  <1>11. InHand(t)'
    <2>1. CASE pc'[t] = "shiftHead"
      BY <2>1 DEF InHand
    <2>2. CASE pc'[t] = "shiftCasHead" /\ NewBlock(t) /\ currentSeq' = NextSeq(t)
      BY <1>1, <1>2, <1>3, <2>2 DEF InHand, NewBlock, NextSeq, BlockOf
    <2>3. QED
      BY <1>1, <2>1, <2>2
  <1>12. QED
    BY <1>5, <1>6, <1>7, <1>8, <1>9, <1>10, <1>11 DEF IInv

(* Moving head preserves the inductive invariant: it follows a currentSeq   *)
(* that is already in the next block (shiftCasHead).                        *)
LEMMA ShiftHeadInv ==
    ASSUME IInv, NEW t \in Threads, shiftCasHead(t)
    PROVE  IInv'
  <1>1. /\ UNCHANGED <<currentSeq, lastBlock, slotSeq, seq, block, cur, incoming>>
        /\ pc[t] = "shiftCasHead" /\ pc'[t] = "shiftHead"
        /\ \A u \in Threads : u # t => pc'[u] = pc[u]
        /\ head' = IF head = block[t] THEN block[t] + 1 ELSE head
    BY DEF IInv, TypeOK, shiftCasHead, Goto
  <1>2. block[t] = BlockOf(cur[t]) /\ NewBlock(t) /\ NextSeq(t) <= currentSeq
    BY <1>1 DEF IInv, InHand
  <1>3. currentSeq \in Nat /\ cur[t] \in Nat /\ head \in Nat /\ block[t] \in Nat
    BY MonotonicSeqQueueAssumption DEF IInv, TypeOK
  <1>4. TypeOK'
    BY <1>1, <1>3 DEF IInv, TypeOK, shiftCasHead, Goto, Labels, BlockOf
  <1>5. (head <= BlockOf(currentSeq))'
    <2>1. BlockOf(cur[t]) + 1 <= BlockOf(cur[t] + 1)
      BY <1>2, <1>3, FirstOfBlock DEF NewBlock, NextSeq
    <2>2. BlockOf(cur[t] + 1) <= BlockOf(currentSeq)
      BY <1>2, <1>3, BlockMonotone DEF NextSeq
    <2>3. BlockOf(cur[t] + 1) \in Nat /\ BlockOf(currentSeq) \in Nat
      BY <1>3, SlotOfNumber
    <2>4. head' <= BlockOf(currentSeq)
      BY <1>1, <1>2, <1>3, <2>1, <2>2, <2>3 DEF IInv
    <2>5. QED
      BY <1>1, <2>4 DEF BlockOf
  <1>6. SlotsOwn' /\ NoGap'
    BY <1>1 DEF IInv, SlotsOwn, NoGap, BlockOf
  <1>7. OnTheWay'
    BY <1>1 DEF IInv, OnTheWay, Inserting
  <1>8. ASSUME NEW u \in Threads, u # t PROVE InHand(u)'
    <2>1. lastBlock <= lastBlock' /\ currentSeq <= currentSeq'
      BY <1>1, SlotOfNumber, MonotonicSeqQueueAssumption DEF IInv, TypeOK
    <2>2. QED
      BY <1>1, <1>4, <1>8, <2>1, OthersKeep DEF IInv
  <1>9. InHand(t)'
    BY <1>1 DEF InHand
  <1>10. QED
    BY <1>4, <1>5, <1>6, <1>7, <1>8, <1>9 DEF IInv

(* Every step of the queue preserves the inductive invariant.               *)
LEMMA NextInv == IInv /\ [Next]_vars => IInv'
  <1>1. SUFFICES ASSUME IInv, [Next]_vars PROVE IInv'
    OBVIOUS
  <1>2. CASE UNCHANGED vars
    BY <1>1, <1>2 DEF vars, shared, IInv, TypeOK, SlotsOwn, OnTheWay, NoGap, InHand, BlockOf, NextSeq, NewBlock
  <1>3. QED
    BY <1>1, <1>2, EmplaceInv, ReadingInv, WalkInv, StoreSeqInv, StoreValueInv, ShiftInv, ShiftHeadInv
    DEF Next, Step, Reading

(* The inductive invariant holds in every reachable state.                  *)
THEOREM Invariance == Spec => []IInv
  BY InitInv, NextInv, PTL DEF Spec

(* For every number of threads and every size of blocks, currentSeq never   *)
(* runs over a number that is missing.                                      *)
THEOREM Gapless == Spec => []NoGap
  <1>1. IInv => NoGap
    BY DEF IInv
  <1>2. QED
    BY <1>1, Invariance, PTL

(* For every number of threads and every size of blocks, walks along the    *)
(* list find their block, and the assertions of emplace and getTargetBlock  *)
(* hold.                                                                    *)
THEOREM BlocksFound == Spec => []WalksFindBlock
  <1>1. ASSUME IInv PROVE WalksFindBlock
    <2>1. ASSUME NEW t \in Threads, pc[t] \in {"shiftFind", "readFind"}
          PROVE  block[t] <= BlockOf(cur[t]) /\ BlockOf(cur[t]) <= lastBlock
      <3>1. block[t] <= BlockOf(cur[t]) /\ cur[t] <= currentSeq
        BY <1>1, <2>1 DEF IInv, InHand
      <3>2. cur[t] \in Nat /\ currentSeq \in Nat
        BY <1>1, MonotonicSeqQueueAssumption DEF IInv, TypeOK
      <3>3. BlockOf(cur[t]) <= BlockOf(currentSeq) /\ BlockOf(cur[t]) \in Nat /\ BlockOf(currentSeq) \in Nat
        BY <3>1, <3>2, BlockMonotone, SlotOfNumber
      <3>4. QED
        BY <1>1, <3>1, <3>3, CurrentBlockExists
    <2>2. \A t \in Threads : pc[t] = "check" => seq[t] > currentSeq
      BY <1>1, Ahead DEF Inserting
    <2>3. QED
      BY <1>1, <2>1, <2>2 DEF IInv, InHand, WalksFindBlock
  <1>2. QED
    BY <1>1, Invariance, PTL

(* Every step is a step of the gapless prefix or changes nothing that is    *)
(* seen of it: storeSeq puts a number in, an exchange that succeeds shifts. *)
LEMMA StepOfPrefix == IInv /\ [Next]_vars => [Prefix!Next]_(Prefix!vars)
  <1>1. SUFFICES ASSUME IInv, [Next]_vars PROVE [Prefix!Next]_(Prefix!vars)
    OBVIOUS
  <1>2. ASSUME NEW t \in Threads, storeSeq(t) PROVE Prefix!Next
    <2>1. TargetSlot(t) = seq[t] /\ seq[t] \in SequenceNumbers /\ seq[t] \in Slots /\ seq[t] \in Nat \ {0}
      BY <1>1, <1>2, WritesOwnSlot, NumbersAreSlots DEF storeSeq
    <2>2. slotSeq' = [slotSeq EXCEPT ![seq[t]] = seq[t]] /\ slotSeq \in [Slots -> Nat] /\ currentSeq' = currentSeq
      BY <1>1, <1>2, <2>1 DEF storeSeq, IInv, TypeOK
    <2>3. slotSeq[seq[t]] = 0
      BY <1>1, <1>2 DEF storeSeq, IInv, OnTheWay, Inserting
    <2>4. \A s \in SequenceNumbers : slotSeq'[s] = s <=> slotSeq[s] = s \/ s = seq[t]
      BY <2>1, <2>2, NumbersAreSlots
    <2>5. Prefix!Put(seq[t])
      BY <2>1, <2>2, <2>3, <2>4 DEF Prefix!Put
    <2>6. QED
      BY <2>1, <2>5 DEF Prefix!Next, Prefix!Put
  <1>3. ASSUME NEW t \in Threads, shiftCas(t) PROVE Prefix!Next \/ UNCHANGED Prefix!vars
    <2>1. NextSeq(t) \in SequenceNumbers /\ slotSeq[NextSeq(t)] = NextSeq(t) /\ slotSeq' = slotSeq
      BY <1>1, <1>3 DEF shiftCas, IInv, InHand
    <2>2. CASE currentSeq = cur[t] /\ currentSeq' = NextSeq(t)
      BY <2>1, <2>2 DEF Prefix!Next, Prefix!Shift, NextSeq
    <2>3. CASE currentSeq' = currentSeq
      BY <2>1, <2>3 DEF Prefix!vars
    <2>4. QED
      BY <1>3, <2>2, <2>3 DEF shiftCas
  <1>4. ASSUME UNCHANGED <<slotSeq, currentSeq>> PROVE UNCHANGED Prefix!vars
    BY <1>4 DEF Prefix!vars
  <1>5. CASE UNCHANGED vars
    BY <1>4, <1>5 DEF vars, shared
  <1>6. CASE \E t \in Threads : storeSeq(t) \/ shiftCas(t)
    BY <1>2, <1>3, <1>6
  <1>7. CASE \E t \in Threads : \/ \E s \in SequenceNumbers : emplace(t, s)
                                \/ Reading(t) \/ emplaceWalk(t) \/ storeValue(t) \/ shiftCasHead(t)
    <2>1. UNCHANGED <<slotSeq, currentSeq>>
      BY <1>7 DEF emplace, Reading, emplaceCheck, loadHead, loadCurrentSeq, getTargetBlock, shiftCheck,
                  getCurrentValue, readValue, emplaceWalk, storeValue, shiftCasHead, shared
    <2>2. QED
      BY <1>4, <2>1
  <1>8. QED
    BY <1>1, <1>5, <1>6, <1>7 DEF Next, Step, Reading

(* For every number of threads and every size of blocks, the queue          *)
(* implements a gapless prefix: numbers are put in once and stay, and       *)
(* currentSeq moves by one, forward, to a number that is in.                *)
THEOREM Refinement == Spec => ImplementsGaplessPrefix
  <1>1. Init => Prefix!Init
    <2>1. SUFFICES ASSUME Init PROVE Prefix!Init
      OBVIOUS
    <2>2. \A s \in SequenceNumbers : slotSeq[s] # s
      BY <2>1, NumbersAreSlots DEF Init
    <2>3. QED
      BY <2>1, <2>2 DEF Init, Prefix!Init
  <1>2. QED
    BY <1>1, StepOfPrefix, Invariance, PTL DEF Spec, ImplementsGaplessPrefix, Prefix!Spec
=============================================================================
