--------------------------- MODULE SequencerProofs ---------------------------
(***************************************************************************)
(* Proofs about Sequencer, for any number of workers and any stream.       *)
(***************************************************************************)
EXTENDS Sequencer, TLAPS

(* Where a buffer stands relative to the one the sequencer waits for. *)
Past(i) == i.seq < nextSequence \/ (i.seq = nextSequence /\ i.chunk < nextChunkNumber)
Future(i) == i.seq > nextSequence \/ (i.seq = nextSequence /\ i.chunk > nextChunkNumber)

(* A buffer arrives once. Those in the queue lie in the future; those still *)
(* to arrive lie in the future or are the expected one, and the expected    *)
(* one has left once a worker is busy with it.                              *)
WaitingAhead ==
    /\ queue \cap incoming = {}
    /\ \A i \in queue : Future(i)
    /\ \A i \in incoming : Future(i) \/ (Expected(i) /\ \A t \in Threads : ~Busy(t))

(* The busy worker is busy with the expected buffer. *)
OwnerHasExpected ==
    \A t \in Threads :
        /\ pc[t] = "store" => held[t] \in Items /\ Expected(held[t])
        /\ pc[t] \in {"scan", "done"} => currentBuffer \in Items /\ Expected(currentBuffer)

(* What was scanned lies in the past, or is the buffer about to be marked   *)
(* as done.                                                                 *)
ScannedBehind ==
    \A k \in 1..Len(processed) :
        Past(processed[k]) \/ (Expected(processed[k]) /\ \E t \in Threads : pc[t] = "done")

IInv ==
    /\ TypeOK
    /\ SingleOwner
    /\ WaitingAhead
    /\ OwnerHasExpected
    /\ ScannedBehind
    /\ ProcessedInOrder

(* A buffer of the stream is identified by its sequence and chunk number.   *)
LEMMA ItemFacts ==
    /\ \A i \in Items : /\ i.seq \in 1..Len(NumChunks)
                        /\ i.chunk \in 1..NumChunks[i.seq]
                        /\ NumChunks[i.seq] \in Nat \ {0}
                        /\ i.last <=> (i.chunk = NumChunks[i.seq])
                        /\ i.seq \in Nat \ {0} /\ i.chunk \in Nat \ {0}
    /\ \A i, j \in Items : i.seq = j.seq /\ i.chunk = j.chunk => i = j
  <1>1. Len(NumChunks) \in Nat /\ \A s \in 1..Len(NumChunks) : NumChunks[s] \in Nat \ {0}
    BY SequencerAssumption
  <1>2. ASSUME NEW i \in Items
        PROVE  \E s \in 1..Len(NumChunks) : \E c \in 1..NumChunks[s] :
                  i = [seq |-> s, chunk |-> c, last |-> (c = NumChunks[s])]
    BY DEF Items, SequenceData
  <1>3. ASSUME NEW i \in Items
        PROVE  /\ i.seq \in 1..Len(NumChunks)
               /\ i.chunk \in 1..NumChunks[i.seq]
               /\ i.last <=> (i.chunk = NumChunks[i.seq])
               /\ i = [seq |-> i.seq, chunk |-> i.chunk, last |-> (i.chunk = NumChunks[i.seq])]
    <2>0. PICK s \in 1..Len(NumChunks) : \E c \in 1..NumChunks[s] :
             i = [seq |-> s, chunk |-> c, last |-> (c = NumChunks[s])]
      BY <1>2
    <2>1. PICK c \in 1..NumChunks[s] :
             i = [seq |-> s, chunk |-> c, last |-> (c = NumChunks[s])]
      BY <2>0
    <2>2. i.seq = s /\ i.chunk = c /\ i.last = (c = NumChunks[s])
      BY <2>1
    <2>3. QED
      BY <2>1, <2>2
  <1>4. \A i, j \in Items : i.seq = j.seq /\ i.chunk = j.chunk => i = j
    BY <1>3
  <1>5. QED
    BY <1>1, <1>3, <1>4

(* The initial state satisfies the inductive invariant.                     *)
LEMMA InitIInv == Init => IInv
  <1>1. SUFFICES ASSUME Init PROVE IInv
    OBVIOUS
  <1>2. TypeOK
    BY <1>1, SequencerAssumption DEF Init, TypeOK
  <1>3. WaitingAhead
    BY <1>1, ItemFacts DEF Init, WaitingAhead, Future, Expected, Busy
  <1>4. QED
    BY <1>1, <1>2, <1>3
    DEF Init, IInv, SingleOwner, Busy, OwnerHasExpected, ScannedBehind, ProcessedInOrder

(* Offering a buffer preserves the inductive invariant (isNext).            *)
LEMMA IsNextIInv ==
    ASSUME IInv, NEW t \in Threads, NEW i \in Items, isNext(t, i)
    PROVE  IInv'
  <1>1. TypeOK'
    BY DEF IInv, TypeOK, isNext
  <1> USE DEF IInv, isNext, Past, Future, Expected, Busy
  <1>2. CASE Expected(i)
    <2>1. \A u \in Threads : pc[u] = "idle"
      BY <1>2, ItemFacts DEF WaitingAhead, TypeOK
    <2>2. SingleOwner'
      BY <1>2, <2>1 DEF SingleOwner, TypeOK
    <2>3. WaitingAhead'
      BY <1>2, <2>1, ItemFacts DEF WaitingAhead, TypeOK
    <2>4. OwnerHasExpected'
      BY <1>2, <2>1 DEF OwnerHasExpected, TypeOK
    <2>5. ScannedBehind'
      BY <1>2, <2>1 DEF ScannedBehind, TypeOK
    <2>6. QED
      BY <1>1, <2>2, <2>3, <2>4, <2>5 DEF ProcessedInOrder
  <1>3. CASE ~Expected(i)
    <2>1. WaitingAhead'
      BY <1>3 DEF WaitingAhead
    <2>2. QED
      BY <1>1, <1>3, <2>1 DEF SingleOwner, OwnerHasExpected, ScannedBehind, ProcessedInOrder
  <1>4. QED
    BY <1>2, <1>3

(* Assigning the unlocked currentBuffer preserves the inductive invariant:  *)
(* no other worker is using it (storeCurrentBuffer).                        *)
LEMMA StoreIInv ==
    ASSUME IInv, NEW t \in Threads, storeCurrentBuffer(t)
    PROVE  IInv'
  <1> USE DEF IInv, storeCurrentBuffer, Past, Future, Expected, Busy
  <1>1. TypeOK'
    BY DEF TypeOK
  <1>2. SingleOwner'
    BY DEF SingleOwner, TypeOK
  <1>3. WaitingAhead'
    BY DEF WaitingAhead, TypeOK
  <1>4. \A u \in Threads : u # t => pc[u] = "idle"
    BY DEF SingleOwner
  <1>5. OwnerHasExpected'
    BY <1>4 DEF OwnerHasExpected, TypeOK
  <1>6. ScannedBehind'
    BY <1>4 DEF ScannedBehind, TypeOK
  <1>7. QED
    BY <1>1, <1>2, <1>3, <1>5, <1>6 DEF ProcessedInOrder

(* Scanning the current buffer preserves the inductive invariant: it comes  *)
(* after everything scanned before (scan).                                  *)
LEMMA ScanIInv ==
    ASSUME IInv, NEW t \in Threads, scan(t)
    PROVE  IInv'
  <1> USE DEF IInv, scan, Past, Future, Expected, Busy
  <1>1. currentBuffer \in Items /\ Expected(currentBuffer)
    BY DEF OwnerHasExpected
  <1>2. TypeOK'
    BY <1>1 DEF TypeOK
  <1>3. SingleOwner' /\ WaitingAhead' /\ OwnerHasExpected'
    BY DEF SingleOwner, WaitingAhead, OwnerHasExpected, TypeOK
  <1>4. \A u \in Threads : pc[u] # "done"
    BY DEF SingleOwner
  <1>5. Len(processed) \in Nat /\ Len(processed') = Len(processed) + 1
        /\ processed'[Len(processed) + 1] = currentBuffer
        /\ \A k \in 1..Len(processed) : processed'[k] = processed[k]
    BY <1>1 DEF TypeOK
  <1>6. \A k \in 1..Len(processed) : Past(processed[k])
    BY <1>4 DEF ScannedBehind
  <1>7. pc'[t] = "done"
    BY DEF TypeOK
  <1>8. ScannedBehind'
    BY <1>1, <1>5, <1>6, <1>7 DEF ScannedBehind
  <1>9. \A k \in 1..Len(processed) : processed[k] \in Items
    BY DEF TypeOK
  <1>10. ProcessedInOrder'
    <2>1. \A k \in 1..Len(processed) : Less(processed[k], currentBuffer)
      BY <1>1, <1>6, <1>9, ItemFacts DEF Less
    <2>2. SUFFICES ASSUME NEW i \in 1..Len(processed'), NEW j \in 1..Len(processed'), i < j
                   PROVE  Less(processed'[i], processed'[j])
      BY DEF ProcessedInOrder, Less
    <2>3. CASE j \in 1..Len(processed)
      BY <1>5, <2>2, <2>3 DEF ProcessedInOrder
    <2>4. CASE j = Len(processed) + 1
      BY <1>5, <2>1, <2>2, <2>4
    <2>5. QED
      BY <1>5, <2>3, <2>4
  <1>11. QED
    BY <1>2, <1>3, <1>8, <1>10

(* Advancing preserves the inductive invariant: whether or not the next     *)
(* buffer was waiting, none is stranded (advanceAndGetNext).                *)
LEMMA AdvanceIInv ==
    ASSUME IInv, NEW t \in Threads, advanceAndGetNext(t)
    PROVE  IInv'
  <1> DEFINE data == currentBuffer
             next == Advanced(data)
             isTop(i) == \A j \in queue : ~Less(j, i)
             ready == {i \in queue : isTop(i) /\ i.seq = next[1] /\ i.chunk = next[2]}
  <1>1. data \in Items /\ Expected(data)
    BY DEF IInv, OwnerHasExpected, advanceAndGetNext
  <1>2. /\ nextSequence' = next[1] /\ nextChunkNumber' = next[2]
        /\ currentBuffer' = currentBuffer /\ incoming' = incoming /\ processed' = processed
    BY DEF advanceAndGetNext
  <1>3. /\ next[1] \in 1..(Len(NumChunks) + 1) /\ next[2] \in Nat \ {0}
        /\ \/ next[1] = data.seq + 1 /\ next[2] = 1 /\ data.chunk = NumChunks[data.seq]
           \/ next[1] = data.seq /\ next[2] = data.chunk + 1
    <2>1. CASE data.last
      <3>1. next = <<data.seq + 1, 1>>
        BY <2>1 DEF Advanced
      <3>2. data.chunk = NumChunks[data.seq] /\ data.seq + 1 \in 1..(Len(NumChunks) + 1)
        BY <1>1, <2>1, ItemFacts, SequencerAssumption
      <3>3. QED
        BY <3>1, <3>2
    <2>2. CASE ~data.last
      BY <1>1, <2>2, ItemFacts, SequencerAssumption DEF Advanced, Expected
    <2>3. QED
      BY <2>1, <2>2
  <1>4. pc[t] = "done" /\ \A u \in Threads : u # t => pc[u] = "idle"
    BY DEF IInv, SingleOwner, Busy, advanceAndGetNext
  <1>5. \A i \in Items : Future(i) => Future(i)' \/ Expected(i)'
    <2>1. SUFFICES ASSUME NEW i \in Items, Future(i)
                   PROVE  Future(i)' \/ Expected(i)'
      OBVIOUS
    <2>2. /\ i.seq \in Nat \ {0} /\ i.chunk \in Nat \ {0}
          /\ data.seq \in Nat \ {0} /\ data.chunk \in Nat \ {0}
          /\ i.seq = data.seq => i.chunk <= NumChunks[data.seq]
      BY <1>1, ItemFacts
    <2>3. i.seq > data.seq \/ (i.seq = data.seq /\ i.chunk > data.chunk)
      BY <1>1, <2>1 DEF Future, Expected
    <2>4. \/ i.seq > next[1] \/ (i.seq = next[1] /\ i.chunk > next[2])
          \/ i.seq = next[1] /\ i.chunk = next[2]
      <3> HIDE DEF next, data
      <3>1. CASE next[1] = data.seq + 1 /\ next[2] = 1 /\ data.chunk = NumChunks[data.seq]
        BY <2>2, <2>3, <3>1
      <3>2. CASE next[1] = data.seq /\ next[2] = data.chunk + 1
        BY <2>2, <2>3, <3>2
      <3>3. QED
        BY <1>3, <3>1, <3>2
    <2>5. QED
      BY <1>2, <2>4 DEF Future, Expected
  <1>6. \A i \in queue \cup incoming : i \in Items /\ Future(i)
    BY <1>4 DEF IInv, TypeOK, WaitingAhead, Busy
  <1>7. \A i \in Items : Past(i) \/ Expected(i) => Past(i)'
    BY <1>1, <1>2, <1>3, ItemFacts, SMTT(30) DEF Past, Expected
  <1>8. ScannedBehind'
    <2>1. \A k \in 1..Len(processed) : processed[k] \in Items /\ (Past(processed[k]) \/ Expected(processed[k]))
      BY DEF IInv, ScannedBehind, TypeOK
    <2>2. QED
      BY <1>2, <1>7, <2>1 DEF ScannedBehind, Past
  <1>9. ProcessedInOrder'
    BY <1>2 DEF IInv, ProcessedInOrder
  <1>10. ASSUME NEW i \in ready, queue' = queue \ {i},
                held' = [held EXCEPT ![t] = i], pc' = [pc EXCEPT ![t] = "store"]
         PROVE  IInv'
    <2>1. i \in Items /\ Expected(i)'
      BY <1>2, <1>6 DEF Expected
    <2>2. TypeOK'
      BY <1>2, <1>3, <1>10, <2>1 DEF IInv, TypeOK
    <2>3. SingleOwner'
      BY <1>4, <1>10 DEF SingleOwner, Busy, IInv, TypeOK
    <2>4. \A j \in queue' \cup incoming' : Future(j)'
      <3>1. \A j \in queue \cup incoming : j # i => ~Expected(j)'
        BY <2>1, <1>6, ItemFacts DEF Expected
      <3>2. i \notin incoming
        BY DEF IInv, WaitingAhead
      <3>3. QED
        BY <1>2, <1>5, <1>6, <1>10, <3>1, <3>2
    <2>5. WaitingAhead'
      BY <1>2, <1>10, <2>4 DEF WaitingAhead, IInv
    <2>6. OwnerHasExpected'
      BY <1>4, <1>10, <2>1 DEF OwnerHasExpected, IInv, TypeOK
    <2>7. QED
      BY <1>8, <1>9, <2>2, <2>3, <2>5, <2>6 DEF IInv
  <1>11. ASSUME ready = {}, pc' = [pc EXCEPT ![t] = "idle"], UNCHANGED <<held, queue>>
         PROVE  IInv'
    <2>1. TypeOK'
      BY <1>2, <1>3, <1>11 DEF IInv, TypeOK
    <2>2. \A u \in Threads : pc'[u] = "idle"
      BY <1>4, <1>11 DEF IInv, TypeOK
    <2>3. \A i \in queue : ~Expected(i)'
      <3>1. SUFFICES ASSUME NEW i \in queue, Expected(i)' PROVE FALSE
        OBVIOUS
      <3>2. \A j \in queue : ~Less(j, i)
        BY <1>2, <1>3, <1>5, <1>6, <3>1, ItemFacts DEF Less, Expected, Future
      <3>3. QED
        BY <1>2, <1>11, <3>1, <3>2 DEF Expected
    <2>4. WaitingAhead'
      BY <1>2, <1>5, <1>6, <1>11, <2>2, <2>3 DEF WaitingAhead, Busy, IInv
    <2>5. QED
      BY <1>8, <1>9, <2>1, <2>2, <2>4 DEF IInv, SingleOwner, Busy, OwnerHasExpected
  <1>12. QED
    BY <1>10, <1>11 DEF advanceAndGetNext

(* Every step of the system preserves the inductive invariant.              *)
LEMMA NextIInv == IInv /\ [Next]_vars => IInv'
  <1>1. SUFFICES ASSUME IInv, [Next]_vars PROVE IInv'
    OBVIOUS
  <1>2. CASE UNCHANGED vars
    BY <1>1, <1>2 DEF vars, IInv, TypeOK, SingleOwner, Busy, WaitingAhead, OwnerHasExpected,
                      ScannedBehind, ProcessedInOrder, Past, Future, Expected
  <1>3. QED
    BY <1>1, <1>2, IsNextIInv, StoreIInv, ScanIInv, AdvanceIInv DEF Next, Done

(* The inductive invariant holds in every reachable state.                  *)
THEOREM Invariance == Spec => []IInv
  BY InitIInv, NextIInv, PTL DEF Spec

(* The sequencer's variables keep their types: in particular the next       *)
(* sequence number never runs past the end of the stream.                   *)
THEOREM TypeCorrect == Spec => []TypeOK
  <1>1. IInv => TypeOK
    BY DEF IInv
  <1>2. QED
    BY <1>1, Invariance, PTL

(* For every stream and number of workers, buffers are scanned in the order *)
(* of their sequence and chunk numbers.                                     *)
THEOREM InOrder == Spec => []ProcessedInOrder
  <1>1. IInv => ProcessedInOrder
    BY DEF IInv
  <1>2. QED
    BY <1>1, Invariance, PTL

(* The handler's currentBuffer, which no lock protects, is only ever used   *)
(* by one worker at a time.                                                 *)
THEOREM MutualExclusion == Spec => []SingleOwner
  <1>1. IInv => SingleOwner
    BY DEF IInv
  <1>2. QED
    BY <1>1, Invariance, PTL

(* The PRECONDITION of advanceAndGetNext never fails in the sequence        *)
(* operator.                                                                *)
THEOREM AdvanceIsLegal == Spec => []AdvancePrecondition
  <1>1. IInv => AdvancePrecondition
    BY DEF IInv, OwnerHasExpected, AdvancePrecondition
  <1>2. QED
    BY <1>1, Invariance, PTL

(* The expected buffer is never left behind in the queue.                   *)
THEOREM NoStranding == Spec => []ExpectedNotStranded
  <1>1. IInv => ExpectedNotStranded
    BY ItemFacts DEF IInv, TypeOK, WaitingAhead, ExpectedNotStranded, Expected, Future
  <1>2. QED
    BY <1>1, Invariance, PTL

-----------------------------------------------------------------------------
(* What lies in the past was scanned, and so was the buffer about to be     *)
(* marked as done.                                                          *)
BehindScanned ==
    \A i \in Items :
        Past(i) \/ (Expected(i) /\ \E t \in Threads : pc[t] = "done")
            => \E k \in 1..Len(processed) : processed[k] = i

(* At first nothing lies in the past.                                       *)
LEMMA InitBehind == Init => BehindScanned
  BY ItemFacts DEF Init, BehindScanned, Past, Expected

(* Every step preserves that the past was scanned: scan adds the expected   *)
(* buffer, and only a buffer that was scanned is advanced over.             *)
LEMMA NextBehind == IInv /\ BehindScanned /\ [Next]_vars => BehindScanned'
  <1>1. SUFFICES ASSUME IInv, BehindScanned, [Next]_vars
                 PROVE  BehindScanned'
    OBVIOUS
  <1> USE <1>1
  <1>2. ASSUME NEW t \in Threads, NEW i \in Items, isNext(t, i)
        PROVE  BehindScanned'
    BY <1>2 DEF isNext, BehindScanned, Past, Expected, IInv, TypeOK
  <1>3. ASSUME NEW t \in Threads, storeCurrentBuffer(t)
        PROVE  BehindScanned'
    BY <1>3 DEF storeCurrentBuffer, BehindScanned, Past, Expected, IInv, TypeOK
  <1>4. ASSUME NEW t \in Threads, scan(t)
        PROVE  BehindScanned'
    <2>1. currentBuffer \in Items /\ Expected(currentBuffer)
      BY <1>4 DEF scan, IInv, OwnerHasExpected
    <2>2. /\ Len(processed) \in Nat /\ Len(processed') = Len(processed) + 1
          /\ processed'[Len(processed) + 1] = currentBuffer
          /\ \A k \in 1..Len(processed) : processed'[k] = processed[k]
      BY <1>4, <2>1 DEF scan, IInv, TypeOK
    <2>3. SUFFICES ASSUME NEW i \in Items, Past(i) \/ Expected(i)
                   PROVE  \E k \in 1..Len(processed') : processed'[k] = i
      BY <1>4 DEF scan, BehindScanned, Past, Expected
    <2>4. CASE Past(i)
      BY <2>2, <2>4 DEF BehindScanned
    <2>5. CASE Expected(i)
      <3>1. i = currentBuffer
        BY <2>1, <2>5, ItemFacts DEF Expected
      <3>2. QED
        BY <2>2, <3>1
    <2>6. QED
      BY <2>3, <2>4, <2>5
  <1>5. ASSUME NEW t \in Threads, advanceAndGetNext(t)
        PROVE  BehindScanned'
    <2> DEFINE next == Advanced(currentBuffer)
    <2>1. currentBuffer \in Items /\ Expected(currentBuffer) /\ pc[t] = "done"
      BY <1>5 DEF advanceAndGetNext, IInv, OwnerHasExpected
    <2>2. nextSequence' = next[1] /\ nextChunkNumber' = next[2] /\ processed' = processed
      BY <1>5 DEF advanceAndGetNext
    <2>3. \A u \in Threads : pc'[u] # "done"
      BY <1>5 DEF advanceAndGetNext, IInv, SingleOwner, Busy, TypeOK
    <2>4. \A i \in Items : Past(i)' => Past(i) \/ Expected(i)
      <3>1. CASE currentBuffer.last
        BY <2>1, <2>2, <3>1, ItemFacts, SMTT(30) DEF Advanced, Past, Expected
      <3>2. CASE ~currentBuffer.last
        BY <2>1, <2>2, <3>2, ItemFacts DEF Advanced, Past, Expected
      <3>3. QED
        BY <3>1, <3>2
    <2>5. QED
      BY <2>1, <2>2, <2>3, <2>4 DEF BehindScanned
  <1>6. CASE UNCHANGED vars
    BY <1>6 DEF vars, BehindScanned, Past, Expected
  <1>7. QED
    BY <1>2, <1>3, <1>4, <1>5, <1>6 DEF Next, Done

(* Every step is a step of the ordered stream or changes nothing that is    *)
(* seen of it: isNext is an arrival, scan is the processing.                *)
LEMMA StepOfOrderedStream ==
    IInv /\ BehindScanned /\ [Next]_vars => [Ordered!Next]_(Ordered!vars)
  <1>1. SUFFICES ASSUME IInv, BehindScanned, [Next]_vars
                 PROVE  [Ordered!Next]_(Ordered!vars)
    OBVIOUS
  <1> USE <1>1
  <1>2. ASSUME NEW t \in Threads, NEW i \in Items, isNext(t, i)
        PROVE  Ordered!Next
    <2>1. Ordered!Arrive(i)
      BY <1>2 DEF isNext, Ordered!Arrive, IInv, TypeOK
    <2>2. QED
      BY <2>1 DEF Ordered!Next
  <1>3. ASSUME NEW t \in Threads, storeCurrentBuffer(t) \/ advanceAndGetNext(t)
        PROVE  UNCHANGED Ordered!vars
    BY <1>3 DEF storeCurrentBuffer, advanceAndGetNext, Ordered!vars
  <1>4. ASSUME NEW t \in Threads, scan(t)
        PROVE  Ordered!Next
    <2>1. currentBuffer \in Items /\ Expected(currentBuffer) /\ Busy(t)
      BY <1>4 DEF scan, IInv, OwnerHasExpected, Busy
    <2>2. currentBuffer \notin incoming
      BY <2>1, ItemFacts DEF IInv, WaitingAhead, TypeOK, Future, Expected
    <2>3. \A u \in Threads : pc[u] # "done"
      BY <1>4 DEF scan, IInv, SingleOwner, Busy
    <2>4. currentBuffer \notin Ordered!Processed
      BY <2>1, <2>3, ItemFacts DEF Ordered!Processed, IInv, ScannedBehind, TypeOK, Past, Expected
    <2>5. \A j \in Items : Less(j, currentBuffer) => j \in Ordered!Processed
      BY <2>1 DEF Less, Ordered!Processed, BehindScanned, Past, Expected
    <2>6. Ordered!Process(currentBuffer)
      BY <1>4, <2>1, <2>2, <2>4, <2>5 DEF scan, Ordered!Process
    <2>7. QED
      BY <2>1, <2>6 DEF Ordered!Next
  <1>5. CASE UNCHANGED vars
    BY <1>5 DEF vars, Ordered!vars
  <1>6. QED
    BY <1>2, <1>3, <1>4, <1>5 DEF Next, Done

(* For every stream and number of workers, the sequence operator implements *)
(* an ordered stream: no buffer is scanned twice, early, or left out.       *)
THEOREM Refinement == Spec => ImplementsOrderedStream
  <1>1. Init => Ordered!Init
    BY DEF Init, Ordered!Init
  <1>2. Spec => []BehindScanned
    BY InitBehind, NextBehind, Invariance, PTL DEF Spec
  <1>3. QED
    BY <1>1, <1>2, StepOfOrderedStream, Invariance, PTL
    DEF Spec, ImplementsOrderedStream, Ordered!Spec
=============================================================================
