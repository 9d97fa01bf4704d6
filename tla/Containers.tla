----------------------------- MODULE Containers -----------------------------
(***************************************************************************)
(* PagedVector and PagedVectorRef: records on pages of a fixed capacity,   *)
(* found through the cumulative number of records at the end of each page. *)
(* A page that is being filled has an outdated sum, which every reader     *)
(* works around for the last page only; pages of another vector are added  *)
(* with a number of records of their own, full or not.                     *)
(***************************************************************************)
EXTENDS Integers, SequencesExt

CONSTANT PageCapacity   \* records that fit on a page

EmptyVector == <<>>
Page == [tuples |-> <<>>, cumulativeSum |-> 0]

getNumberOfTuples(page) == Len(page.tuples)
SumBefore(pages, i) == IF i > 1 THEN pages[i - 1].cumulativeSum ELSE 0

updateCumulativeSumLastItem(pages) ==
    IF pages = <<>> THEN pages
    ELSE [pages EXCEPT ![Len(pages)].cumulativeSum =
             getNumberOfTuples(Last(pages)) + SumBefore(pages, Len(pages))]

addPage(pages) == Append(updateCumulativeSumLastItem(pages), Page)

appendPageIfFull(pages) ==
    IF pages = <<>> \/ getNumberOfTuples(Last(pages)) >= PageCapacity THEN addPage(pages) ELSE pages

writeRecordTo(pages, record) ==
    LET room == appendPageIfFull(pages)
    IN  [room EXCEPT ![Len(room)].tuples = Append(@, record)]

updateCumulativeSumAllPages(pages) ==
    FoldLeft(LAMBDA done, page :
                Append(done, [page EXCEPT !.cumulativeSum =
                                 getNumberOfTuples(page) + SumBefore(done, Len(done) + 1)]),
             <<>>, pages)

(* Mutant: the sums of the added pages, and of the page that was last before, stay as they were. *)
AddPagesOnly(pages, other) == updateCumulativeSumLastItem(pages \o other)

addPages(pages, other) == updateCumulativeSumAllPages(pages \o other)

copyFrom(vector, other) == addPages(vector, other)

(* The first of two vectors after all pages of the other have been moved to it; the other is empty then. *)
moveAllPages(vector, other) == copyFrom(vector, other)

getTotalNumberOfEntries(pages) ==
    IF pages = <<>> THEN 0 ELSE SumBefore(pages, Len(pages)) + getNumberOfTuples(Last(pages))

(* The page of the entry at entryPos, from 0; 0 if there is none.  The last page is known by what is on it. *)
findIdx(pages, entryPos) ==
    LET upTo(i) == IF i = Len(pages) THEN SumBefore(pages, i) + getNumberOfTuples(pages[i])
                   ELSE pages[i].cumulativeSum
    IN  IF entryPos >= getTotalNumberOfEntries(pages) THEN 0
        ELSE SelectInSeq([i \in DOMAIN pages |-> upTo(i)], LAMBDA sum : entryPos <= sum - 1)

getBufferPosForEntry(pages, entryPos) ==
    LET i == findIdx(pages, entryPos) IN IF i = 0 THEN 0 ELSE entryPos - SumBefore(pages, i)

readRecord(pages, entryPos) ==
    pages[findIdx(pages, entryPos)].tuples[getBufferPosForEntry(pages, entryPos) + 1]

(* PagedVectorRefIter: looks a position up only when it leaves a page. *)
IteratorAt(pages, pos) ==
    [pos |-> pos, page |-> findIdx(pages, pos), posOnPage |-> getBufferPosForEntry(pages, pos)]

Advance(pages, it) ==
    IF it.posOnPage + 1 < getNumberOfTuples(pages[it.page])
    THEN [it EXCEPT !.pos = @ + 1, !.posOnPage = @ + 1]
    ELSE IF it.pos + 1 < getTotalNumberOfEntries(pages) THEN IteratorAt(pages, it.pos + 1)
    ELSE [it EXCEPT !.pos = @ + 1, !.posOnPage = 0]

(* The records of a loop from begin() to end(). *)
Iterated(pages) ==
    LET it[pos \in 0..(getTotalNumberOfEntries(pages) - 1)] ==
            IF pos = 0 THEN IteratorAt(pages, 0) ELSE Advance(pages, it[pos - 1])
    IN  [i \in 1..getTotalNumberOfEntries(pages) |-> pages[it[i - 1].page].tuples[it[i - 1].posOnPage + 1]]

-----------------------------------------------------------------------------
(***************************************************************************)
(* ChainedHashMap and ChainedHashMapRef: entries in chains, one chain per  *)
(* value of the hash's low bits.  An entry holds the hash and the values   *)
(* of its key and the memory area of the aggregation states.               *)
(***************************************************************************)
CONSTANT Hash(_)   \* the hash function on keys

(* The next power of two above the number of keys, or the one after it if it would be filled beyond 3/4. *)
calcCapacity(numberOfKeys) ==
    LET powers == {2^e : e \in 0..numberOfKeys}
        capacity == CHOOSE c \in powers : c > numberOfKeys /\ c <= 2 * numberOfKeys
    IN  IF (3 * capacity) \div 4 < numberOfKeys THEN 2 * capacity ELSE capacity

ChainedHashMap(numberOfBuckets) ==
    [numberOfTuples |-> 0, chains |-> [i \in 1..calcCapacity(numberOfBuckets) |-> <<>>]]

getNumberOfChains(map) == Len(map.chains)

(* The capacity is calculated once more from the number of chains. *)
createNewMapWithSameConfiguration(map) == ChainedHashMap(getNumberOfChains(map))

EntryPos(map, hash) == (hash % getNumberOfChains(map)) + 1

(* The place of a key in its chain, 0 if it is not there. *)
findKey(map, key, hash) ==
    IF map.numberOfTuples = 0 THEN 0
    ELSE SelectInSeq(map.chains[EntryPos(map, hash)], LAMBDA entry : entry.key = key)

insertEntry(map, hash, key, value) ==
    [map EXCEPT !.numberOfTuples = @ + 1,
                !.chains[EntryPos(map, hash)] = <<[hash |-> hash, key |-> key, value |-> value]>> \o @]

(* The new entry's states are what onInsert makes of it. *)
findOrCreateEntry(map, key, onInsert) ==
    IF findKey(map, key, Hash(key)) # 0 THEN map ELSE insertEntry(map, Hash(key), key, onInsert)

ValueOf(map, key, hash) == map.chains[EntryPos(map, hash)][findKey(map, key, hash)].value

WithValue(map, key, hash, value) ==
    [map EXCEPT !.chains[EntryPos(map, hash)][findKey(map, key, hash)].value = value]

(* For an entry of another map, with the hash that it has there. *)
insertOrUpdateEntry(map, entry, onUpdate, onInsert) ==
    IF findKey(map, entry.key, entry.hash) # 0 THEN WithValue(map, entry.key, entry.hash, onUpdate)
    ELSE insertEntry(map, entry.hash, entry.key, onInsert)

(* EntryIterator: chain after chain; the count of entries ends it, a sentinel behind the last chain stops it there. *)
Entries(map) == FlattenSeq(map.chains)
=============================================================================
