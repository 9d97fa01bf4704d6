--------------------------- MODULE SequenceShredder ---------------------------
(***************************************************************************)
(* The SequenceShredder of an input formatter: which thread formats which  *)
(* tuple when the bytes of one source arrive in buffers that several       *)
(* threads process in any order, and tuples span buffers.                  *)
(* A bitmap is the set of the indices of its bits that are 1.  The ring    *)
(* has numberOfBitmaps pairs of bitmaps; sequence number n is bit          *)
(* n % Bits of bitmap n \div Bits.  Each operator is what the code does    *)
(* under one acquisition of readWriteMutex, or on a snapshot taken under   *)
(* it; isFirstTuple and isLastTuple, which are never read, are left out.   *)
(***************************************************************************)
EXTENDS Integers, Sequences, FiniteSetsExt

CONSTANTS
  Bits,                     \* SIZE_OF_BITMAP_IN_BITS, a power of two
  InitialBitmaps,           \* INITIAL_NUM_BITMAPS, a power of two
  MaxBitmaps,               \* MAX_NUMBER_OF_BITMAPS
  ResizeRequestLimit        \* MIN_NUMBER_OF_RESIZE_REQUESTS_BEFORE_INCREMENTING

ASSUME ShredderAssumption ==
  /\ Bits \in {2, 4, 8}
  /\ InitialBitmaps \in {2, 4, 8}
  /\ MaxBitmaps \in Nat /\ MaxBitmaps >= InitialBitmaps
  /\ ResizeRequestLimit \in Nat

VARIABLES
  tail,                     \* the bitmaps completed so far
  tupleDelimiterBitmaps, seenAndUsedBitmaps,
  numberOfBitmaps, resizeRequestCount,
  stagedBuffers, stagedBufferUses

bitmaps == <<tail, tupleDelimiterBitmaps, seenAndUsedBitmaps, numberOfBitmaps, resizeRequestCount>>
staged == <<stagedBuffers, stagedBufferUses>>
shredderVars == <<bitmaps, staged>>

MAX_VALUE == 0..(Bits - 1)
Slots(bitmapCount) == 0..(bitmapCount * Bits - 1)

\* A raw buffer with its bytes: TRUE is the tuple delimiter, FALSE any other
\* byte.  What is left of a buffer that was moved out has no bytes.
Buffer(sequenceNumber, bytes) == [sequenceNumber |-> sequenceNumber, bytes |-> bytes]
MovedOut == Buffer(-1, <<>>)
\* A buffer that consists of a tuple delimiter: the constructor puts one in
\* front of the first buffer, flushFinalPartialTuple one behind the last.
DelimiterBuffer(sequenceNumber) == Buffer(sequenceNumber, <<TRUE>>)

ShredderInit ==
  /\ tail = 0
  /\ tupleDelimiterBitmaps = [i \in 0..(InitialBitmaps - 1) |-> IF i = 0 THEN {0} ELSE {}]
  /\ seenAndUsedBitmaps = [i \in 0..(InitialBitmaps - 1) |-> {}]
  /\ numberOfBitmaps = InitialBitmaps
  /\ resizeRequestCount = 0
  /\ stagedBuffers = [s \in Slots(InitialBitmaps) |-> IF s = 0 THEN DelimiterBuffer(0) ELSE MovedOut]
  /\ stagedBufferUses = [s \in Slots(InitialBitmaps) |-> IF s = 0 THEN 1 ELSE 0]

----------------------------------------------------------------------------
(* Bit arithmetic.  A shift by more than Bits is taken modulo Bits, as the  *)
(* shift instructions of the processor do.                                 *)

\* std::countl_one and std::countr_one of the bits from first to last.
LeadingOnes(bits, last) ==
  LET zeros == {i \in 0..last : i \notin bits}
  IN  last - (IF zeros = {} THEN -1 ELSE Max(zeros))
TrailingOnes(bits, first) ==
  LET zeros == {i \in first..(Bits - 1) : i \notin bits}
  IN  (IF zeros = {} THEN Bits ELSE Min(zeros)) - first
IsSet(bits, index) == (index % Bits) \in bits

\* Seen buffers without a tuple delimiter, through which a tuple can reach.
OnlySeen(delimiters, seen) == seen \ delimiters

(* The searches on a snapshot: a sequence number, and whether a spanning   *)
(* tuple starts (ends) there.                                              *)
Found(sequenceNumber, isValid) == [sequenceNumber |-> sequenceNumber, isValid |-> isValid]

tryGetSpanningTupleStart(bitIndex, bitmapOffset, delimiters, seen) ==
  LET index == bitIndex - (LeadingOnes(seen, bitIndex - 1) + 1)
  IN  Found(bitmapOffset + index, IsSet(delimiters, index))

tryGetSpanningTupleEnd(bitIndex, bitmapOffset, delimiters, seen) ==
  LET index == bitIndex + TrailingOnes(OnlySeen(delimiters, seen), bitIndex + 1) + 1
  IN  Found(bitmapOffset + index, IsSet(delimiters, index))

\* How many bitmaps the search goes down (up) the ring to leave those that
\* consist of seen buffers without a tuple delimiter.
SkippedBitmaps(bitmapIndex, direction, snapshot) ==
  Min({o \in 1..snapshot.numberOfBitmaps :
         LET i == (bitmapIndex + direction * o) % snapshot.numberOfBitmaps
         IN  ~(snapshot.seenAndUsed[i] = MAX_VALUE /\ snapshot.tupleDelimiters[i] = {})})

tryToFindLowerWrappingSpanningTuple(bitmapOffset, bitmapIndex, snapshot) ==
  LET offset == SkippedBitmaps(bitmapIndex, -1, snapshot)
      i == (bitmapIndex - offset) % snapshot.numberOfBitmaps
      index == Bits - (LeadingOnes(snapshot.seenAndUsed[i], Bits - 1) + 1)
  IN  Found(bitmapOffset - offset * Bits + index, IsSet(snapshot.tupleDelimiters[i], index))

\* Mutant of tryToFindHigherWrappingSpanningTuple: the end may be in the tail
\* bitmap, whose delimiters belong to smaller sequence numbers.
FindEndInTail(bitmapOffset, bitmapIndex, snapshot) ==
  LET offset == SkippedBitmaps(bitmapIndex, 1, snapshot)
      i == (bitmapIndex + offset) % snapshot.numberOfBitmaps
      index == TrailingOnes(OnlySeen(snapshot.tupleDelimiters[i], snapshot.seenAndUsed[i]), 0)
  IN  Found(bitmapOffset + offset * Bits + index, IsSet(snapshot.tupleDelimiters[i], index))

tryToFindHigherWrappingSpanningTuple(bitmapOffset, bitmapIndex, snapshot) ==
  LET offset == SkippedBitmaps(bitmapIndex, 1, snapshot)
      i == (bitmapIndex + offset) % snapshot.numberOfBitmaps
      index == TrailingOnes(OnlySeen(snapshot.tupleDelimiters[i], snapshot.seenAndUsed[i]), 0)
  IN  Found(bitmapOffset + offset * Bits + index,
            IsSet(snapshot.tupleDelimiters[i], index) /\ i # snapshot.tail % snapshot.numberOfBitmaps)

\* The spanning tuple (or the two, for a buffer with a delimiter) that the
\* buffer completes, as far as the snapshot taken when it was staged tells.
\* The tests "spanningTupleStart or HasTupleDelimiter" are on the number.
FindSpanningTuple(sequenceNumber, hasTupleDelimiter, snapshot) ==
  LET bitmapOffset == (sequenceNumber \div Bits) * Bits
      bitmapIndex == (sequenceNumber \div Bits) % snapshot.numberOfBitmaps
      bitIndex == sequenceNumber % Bits
      delimiters == snapshot.tupleDelimiters[bitmapIndex]
      seen == snapshot.seenAndUsed[bitmapIndex]
      reachable == OnlySeen(delimiters, seen)
      wrapsLower == 0..(bitIndex - 1) \subseteq reachable
      wrapsHigher == (bitIndex + 1)..(Bits - 1) \subseteq reachable
      start == IF wrapsLower
                 THEN tryToFindLowerWrappingSpanningTuple(bitmapOffset, bitmapIndex, snapshot)
                 ELSE tryGetSpanningTupleStart(bitIndex, bitmapOffset, delimiters, seen)
      end == IF wrapsHigher
               THEN tryToFindHigherWrappingSpanningTuple(bitmapOffset, bitmapIndex, snapshot)
               ELSE tryGetSpanningTupleEnd(bitIndex, bitmapOffset, delimiters, seen)
      searchesStart == ~wrapsLower \/ wrapsHigher \/ end.isValid \/ hasTupleDelimiter
      searchesEnd == ~wrapsHigher \/ start.sequenceNumber # 0 \/ hasTupleDelimiter
  IN  [start |-> IF searchesStart THEN start ELSE Found(0, FALSE),
       end |-> IF searchesEnd THEN end ELSE Found(0, FALSE)]

----------------------------------------------------------------------------
(* isInRange: counts a request to resize when the ring is too small.  The   *)
(* count is only compared with the limit and stops there.                  *)

\* Mutant of InRange: the last bitmap of the ring is not used.
BelowLastBitmap(sequenceNumber) == sequenceNumber \div Bits < tail + numberOfBitmaps - 1

InRange(sequenceNumber) == sequenceNumber \div Bits < tail + numberOfBitmaps

RequestResize ==
  /\ resizeRequestCount' = IF resizeRequestCount < ResizeRequestLimit
                             THEN resizeRequestCount + 1 ELSE resizeRequestCount
  /\ UNCHANGED <<tail, tupleDelimiterBitmaps, seenAndUsedBitmaps, numberOfBitmaps, staged>>

----------------------------------------------------------------------------
(* The first critical section of processSequenceNumber: the shredder takes *)
(* the buffer, marks its bit and takes a snapshot of the bitmaps.  uses is  *)
(* 3 for a buffer with a tuple delimiter: the tuple it ends, the one it    *)
(* starts and those inside it.                                             *)

\* Mutant of UsesOf: the tuples inside the buffer are not counted as a use.
UsesInSpanningTuples(hasTupleDelimiter) == IF hasTupleDelimiter THEN 2 ELSE 1

UsesOf(hasTupleDelimiter) == IF hasTupleDelimiter THEN 3 ELSE 1

Stage(buffer, hasTupleDelimiter) ==
  LET n == buffer.sequenceNumber
      slot == n % (numberOfBitmaps * Bits)
      bitmapIndex == (n \div Bits) % numberOfBitmaps
  IN  /\ stagedBuffers' = [stagedBuffers EXCEPT ![slot] = buffer]
      /\ stagedBufferUses' = [stagedBufferUses EXCEPT ![slot] = UsesOf(hasTupleDelimiter)]
      /\ IF hasTupleDelimiter
           THEN /\ tupleDelimiterBitmaps' = [tupleDelimiterBitmaps EXCEPT ![bitmapIndex] = @ \cup {n % Bits}]
                /\ UNCHANGED seenAndUsedBitmaps
           ELSE /\ seenAndUsedBitmaps' = [seenAndUsedBitmaps EXCEPT ![bitmapIndex] = @ \cup {n % Bits}]
                /\ UNCHANGED tupleDelimiterBitmaps
      /\ UNCHANGED <<tail, numberOfBitmaps, resizeRequestCount>>

TheSnapshot == [tail |-> tail, numberOfBitmaps |-> numberOfBitmaps,
                tupleDelimiters |-> tupleDelimiterBitmaps, seenAndUsed |-> seenAndUsedBitmaps]

----------------------------------------------------------------------------
(* incrementTail, given the seen and used bitmaps with the start marked.    *)

Cleared(bitmapVector, count) ==
  [i \in DOMAIN bitmapVector |->
     IF \E k \in 0..(count - 1) : i = (tail + k) % numberOfBitmaps THEN {} ELSE bitmapVector[i]]

Resized(vector, size, fill) == [i \in 0..(size - 1) |-> IF i \in DOMAIN vector THEN vector[i] ELSE fill]

\* The tail is complete, and with it the bitmaps that follow it and are.
\* All of them being complete, the loop ends at the first it has cleared.
\* The ring doubles when the tail moved past bitmap 0, so that the bitmaps in
\* front of it are clear, and when the tail keeps its place.
incrementTail(seen, buffers, uses) ==
  LET open == {k \in 1..(numberOfBitmaps - 1) : seen[(tail + k) % numberOfBitmaps] # MAX_VALUE}
      count == IF open = {} THEN numberOfBitmaps ELSE Min(open)
      delimiters == Cleared(tupleDelimiterBitmaps, count)
      cleared == Cleared(seen, count)
      doubled == /\ resizeRequestCount >= ResizeRequestLimit
                 /\ \E k \in tail..(tail + count - 1) : k % numberOfBitmaps = 0
                 /\ (tail + count) % (2 * numberOfBitmaps) = (tail + count) % numberOfBitmaps
                 /\ 2 * numberOfBitmaps <= MaxBitmaps
      size == IF doubled THEN 2 * numberOfBitmaps ELSE numberOfBitmaps
  IN  /\ tail' = tail + count
      /\ numberOfBitmaps' = size
      /\ tupleDelimiterBitmaps' = Resized(delimiters, size, {})
      /\ seenAndUsedBitmaps' = Resized(cleared, size, {})
      /\ stagedBuffers' = Resized(buffers, size * Bits, MovedOut)
      /\ stagedBufferUses' = Resized(uses, size * Bits, 0)
      /\ resizeRequestCount' = IF doubled THEN 0 ELSE resizeRequestCount

----------------------------------------------------------------------------
(* The second critical section: the buffers of the completed tuples, the    *)
(* marks of their starts, and the tail.  bitmapCount is numberOfBitmaps at  *)
(* the time of the snapshot.                                               *)

\* A buffer whose last use this is leaves the shredder.  The buffer that is
\* being processed, own, may be used more than once.
Used(first, last, own, ownUses, bitmapCount) ==
  LET slot(n) == n % (bitmapCount * Bits)
      uses(s) == SumSet({IF n = own THEN ownUses ELSE 1 : n \in {m \in first..last : slot(m) = s}})
      left(s) == stagedBufferUses[s] - uses(s)
  IN  [uses |-> [s \in DOMAIN stagedBufferUses |-> left(s)],
       buffers |-> [s \in DOMAIN stagedBuffers |->
                      IF uses(s) > 0 /\ left(s) = 0 THEN MovedOut ELSE stagedBuffers[s]],
       taken |-> [i \in 1..(last - first + 1) |-> stagedBuffers[slot(first + i - 1)]]]

Complete(starts, used, bitmapCount) ==
  LET seen == [i \in DOMAIN seenAndUsedBitmaps |->
                 seenAndUsedBitmaps[i] \cup {n % Bits : n \in {m \in starts : (m \div Bits) % bitmapCount = i}}]
      completesTail == \E n \in starts : /\ n \div Bits = tail
                                         /\ seen[(n \div Bits) % bitmapCount] = MAX_VALUE
  IN  IF completesTail
        THEN incrementTail(seen, used.buffers, used.uses)
        ELSE /\ seenAndUsedBitmaps' = seen
             /\ stagedBuffers' = used.buffers
             /\ stagedBufferUses' = used.uses
             /\ UNCHANGED <<tail, tupleDelimiterBitmaps, numberOfBitmaps, resizeRequestCount>>

===============================================================================
