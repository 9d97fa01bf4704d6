---------------------------- MODULE WindowState -----------------------------
(***************************************************************************)
(* The physical aggregation functions (nes-physical-operators/src/         *)
(* Aggregation/Function).  Each has a state that reset initialises, lift   *)
(* adds a record's value to, combine merges with the state of another hash *)
(* map and lower turns into the result.  Values are those of an unsigned   *)
(* integer type with Modulus values; Avg has widened its type and counts,  *)
(* as Count does, in 64 bits, which no input of the model exceeds.         *)
(***************************************************************************)
EXTENDS Containers

CONSTANT Modulus   \* 2^w for a value type of w bits

SumAggregation(method, sum, value) ==
    CASE method = "reset"               -> 0
      [] method \in {"lift", "combine"} -> (sum + value) % Modulus

CountAggregation(method, count, other) ==
    CASE method = "reset"   -> 0
      [] method = "lift"    -> count + 1
      [] method = "combine" -> count + other

(* The quotient is a floating-point number: a pair of its numerator and denominator here. *)
AvgAggregation(method, avg, other) ==
    CASE method = "reset"   -> <<0, 0>>
      [] method = "lift"    -> <<avg[1] + other, avg[2] + 1>>
      [] method = "combine" -> <<avg[1] + other[1], avg[2] + other[2]>>

MinAggregation(method, min, value) ==
    CASE method = "reset"               -> Modulus - 1
      [] method \in {"lift", "combine"} -> IF value < min THEN value ELSE min

MaxAggregation(method, max, value) ==
    CASE method = "reset"               -> 0
      [] method \in {"lift", "combine"} -> IF value > max THEN value ELSE max

(* The first item that has at most pos items before it, and more than pos up to its equals, when sorted. *)
MedianItem(items, pos) ==
    LET countLessThan(c) == Len(SelectSeq(items, LAMBDA item : item < c))
        countEqual(c) == Len(SelectSeq(items, LAMBDA item : item = c))
    IN  SelectInSeq(items, LAMBDA c : countLessThan(c) <= pos /\ pos < countLessThan(c) + countEqual(c))

(* Twice the median: the sum of the two middle items, read again by their positions. *)
MedianOf(vector) ==
    LET middle(n) == readRecord(vector, MedianItem(Iterated(vector), n \div 2) - 1)
    IN  middle(getTotalNumberOfEntries(vector) - 1) + middle(getTotalNumberOfEntries(vector))

MedianAggregation(method, vector, other) ==
    CASE method = "reset"   -> EmptyVector
      [] method = "lift"    -> writeRecordTo(vector, other)
      [] method = "combine" -> copyFrom(vector, other)

ArrayAggregation(method, vector, other) ==
    CASE method = "reset"   -> EmptyVector
      [] method = "lift"    -> writeRecordTo(vector, other)
      [] method = "combine" -> copyFrom(vector, other)
-----------------------------------------------------------------------------
(* A method called on the states of one entry, side by side in its memory area; with(f) is the other argument of f. *)
Call(method, state, with(_)) ==
    [sum    |-> SumAggregation(method, state.sum, with("sum")),
     count  |-> CountAggregation(method, state.count, with("count")),
     avg    |-> AvgAggregation(method, state.avg, with("avg")),
     min    |-> MinAggregation(method, state.min, with("min")),
     max    |-> MaxAggregation(method, state.max, with("max")),
     median |-> MedianAggregation(method, state.median, with("median")),
     array  |-> ArrayAggregation(method, state.array, with("array"))]

NoState == [sum |-> 0, count |-> 0, avg |-> 0, min |-> 0, max |-> 0, median |-> 0, array |-> 0]

reset == Call("reset", NoState, LAMBDA f : 0)
lift(state, value) == Call("lift", state, LAMBDA f : value)
combine(state1, state2) == Call("combine", state1, LAMBDA f : state2[f])

(* The results: a median and an array are made from their vectors, the other states are read as they are. *)
lower(state) == [state EXCEPT !.median = MedianOf(@), !.array = Iterated(@)]
-----------------------------------------------------------------------------
(***************************************************************************)
(* What is stored in slices, and what the probe makes of it.  A slice of   *)
(* an aggregation has a hash map per worker, a slice of a join a paged     *)
(* vector per side and worker.  Both are kept as one sequence per side;    *)
(* worker threads are numbered from 0.                                     *)
(***************************************************************************)
CONSTANTS NumberOfBuckets   \* configured for hash maps

NullMap == [numberOfTuples |-> 0, chains |-> <<>>]

(* HashMapSlice creates its maps when a worker first asks for one; a sequential aggregation has only one. *)
HashMapSlice(numberOfHashMaps) == << [i \in 1..numberOfHashMaps |-> NullMap] >>

NLJSlice(numberOfWorkerThreads) ==
    LET vectors == [i \in 1..numberOfWorkerThreads |-> EmptyVector] IN <<vectors, vectors>>

Position(vectors, workerThreadId) == (workerThreadId % Len(vectors)) + 1

getHashMapPtrOrCreate(map) == IF map = NullMap THEN ChainedHashMap(NumberOfBuckets) ELSE map

(* AggregationBuildPhysicalOperator::execute, on the worker's own map. *)
Aggregated(map, key, value) ==
    LET found == findOrCreateEntry(getHashMapPtrOrCreate(map), key, reset)
    IN  WithValue(found, key, Hash(key), lift(ValueOf(found, key, Hash(key)), value))

AggregateRecord(slice, workerThreadId, key, value) ==
    [slice EXCEPT ![1][Position(slice[1], workerThreadId)] = Aggregated(@, key, value)]

(* NLJBuildPhysicalOperator::execute *)
StoreRecord(slice, side, workerThreadId, record) ==
    [slice EXCEPT ![side][Position(slice[side], workerThreadId)] = writeRecordTo(@, record)]

(* One vector is left per side; a slice whose vectors were combined before stays as it is. *)
combinePagedVectors(slice) ==
    [side \in 1..2 |-> <<FoldLeft(moveAllPages, slice[side][1], Tail(slice[side]))>>]
-----------------------------------------------------------------------------
(* AggregationOperatorHandler::triggerSlices: the maps of all slices of a window that have an entry. *)
AllHashMaps(windowSlices) ==
    SelectSeq(FlattenSeq([i \in DOMAIN windowSlices |-> windowSlices[i][1]]), LAMBDA map : map.numberOfTuples > 0)

(* An entry of one of the maps, merged into the final map; a state is reset before it is first combined. *)
Combined(final, entry) ==
    insertOrUpdateEntry(final, entry,
        combine(ValueOf(final, entry.key, entry.hash), entry.value), combine(reset, entry.value))

(* AggregationProbePhysicalOperator::open: a result per key. *)
AggregationResults(windowSlices) ==
    LET maps == AllHashMaps(windowSlices)
        final == FoldLeft(Combined, createNewMapWithSameConfiguration(maps[1]), FlattenSeq([i \in DOMAIN maps |-> Entries(maps[i])]))
        entries == Entries(final)
    IN  [i \in DOMAIN entries |-> [key |-> entries[i].key, result |-> lower(entries[i].value)]]
-----------------------------------------------------------------------------
(* StreamJoinOperatorHandler::triggerSlices: every slice with every slice, left ones first, as chunks from 1. *)
NumberOfChunks(allSlices) == Len(allSlices) * Len(allSlices)
SlicesOfChunk(allSlices, chunkNumber) ==
    <<allSlices[((chunkNumber - 1) \div Len(allSlices)) + 1], allSlices[((chunkNumber - 1) % Len(allSlices)) + 1]>>

(* The fields of both sides, whichever of them is the outer one. *)
createJoinedRecord(outerRecord, innerRecord) == {outerRecord.id, innerRecord.id}

(* The join function sees the iterators' records; what is joined is read again by position. *)
performNLJ(outer, inner) ==
    LET outerIt == Iterated(outer)
        innerIt == Iterated(inner)
        matches == {p \in (DOMAIN outerIt) \X (DOMAIN innerIt) : outerIt[p[1]].key = innerIt[p[2]].key}
        inOrder == SetToSortSeq(matches, LAMBDA p, q : p[1] < q[1] \/ (p[1] = q[1] /\ p[2] < q[2]))
    IN  [n \in DOMAIN inOrder |->
            createJoinedRecord(readRecord(outer, inOrder[n][1] - 1), readRecord(inner, inOrder[n][2] - 1))]

(* NLJProbePhysicalOperator::open: the vectors that combinePagedVectors left at position 0. *)
JoinResults(sliceLeft, sliceRight) ==
    LET left == sliceLeft[1][1]
        right == sliceRight[2][1]
    IN  IF getTotalNumberOfEntries(left) < getTotalNumberOfEntries(right)
        THEN performNLJ(left, right) ELSE performNLJ(right, left)
=============================================================================
