-------------------------- MODULE WindowOperator ---------------------------
(***************************************************************************)
(* A windowed operator (aggregation with one input, join with two): the    *)
(* build pipelines put records into slices and emit the windows that the   *)
(* watermark has passed, the probe pipeline reads a window's slices and    *)
(* collects garbage.  Workers run the tasks of all pipelines concurrently  *)
(* and share the slice store (DefaultTimeBasedSliceStore), whose two maps  *)
(* have a lock each.                                                       *)
(*                                                                         *)
(* Records of one origin arrive in the order of their timestamps, which    *)
(* the documentation of watermarks states as an assumption on sources;     *)
(* their buffers are processed in any order.  The watermark processors are *)
(* used by what they promise: see MonotonicSeqQueue for how they work.     *)
(***************************************************************************)
EXTENDS WindowState, SliceAssigner

CONSTANTS
    Workers,    \* the threads of the query engine
    Setups,     \* the possible inputs and windows: a sequence of buffers per origin, two origins for a join, where a
                \* buffer is a sequence of timestamps; size and slide, and whether an aggregation is sequential
    Key(_), Value(_)   \* the field that is grouped by or joined on, and the aggregated one, by timestamp

InOrder(buffers) ==
    LET all == FlattenSeq(buffers)
    IN  \A i, j \in DOMAIN all : i < j => all[i] <= all[j]

ASSUME WindowOperatorAssumption ==
    /\ \A setup \in Setups :
        /\ setup.window.size > 0 /\ setup.window.slide > 0
        /\ Len(setup.input) \in (IF setup.window.sequential THEN {1} ELSE {1, 2})
        /\ \A o \in DOMAIN setup.input : InOrder(setup.input[o])
    /\ Workers = 0..(Cardinality(Workers) - 1)

VARIABLES
    assigner, input,     \* fixed when the query starts
    pending,             \* buffers that no worker has taken: origin and sequence number
    closed,              \* what watermarkProcessorBuild has seen: sequence numbers per origin
    terminated,          \* origins whose build pipeline has been stopped
    slices,              \* from the end of a slice in the store to what is in it
    windows,             \* from the end of a window in the store to its slices and state
    activeOrigins,       \* numberOfActiveOrigins
    emitted,             \* windows given out, in the order of their sequence numbers
    triggers,            \* buffers queued for the probe pipeline: sequence and chunk number of a window
    probed,              \* what watermarkProcessorProbe has seen: sequence and chunk numbers
    written,             \* records that are in their slice
    pc, task,            \* per worker: the next step, and the buffer and record, or the window, it works on
    watermark,           \* per worker: the global watermark it was returned
    todo                 \* per worker: sequence and chunk numbers it has yet to emit to the probe pipeline

store == <<slices, windows, activeOrigins, emitted>>
local == <<pc, task, watermark, todo>>
progress == <<pending, closed, terminated, triggers, probed, written>>
vars == <<assigner, input, store, local, progress>>

Origins == DOMAIN input
Buffers == UNION {{<<o, i>> : i \in DOMAIN input[o]} : o \in Origins}
Records == UNION {{b \o <<j>> : j \in DOMAIN input[b[1]][b[2]]} : b \in Buffers}
Ts(r) == input[r[1]][r[2]][r[3]]
SliceOf(r) == getSliceEndTs(assigner, Ts(r))

NoTask == <<>>
IsJoin == Len(input) = 2
InBuild(w) == pc[w] \in {"find", "create", "write", "close", "watermark", "trigger", "emit"} /\ task[w] # NoTask

Init ==
    /\ \E setup \in Setups : assigner = setup.window /\ input = setup.input
    /\ pending = Buffers /\ closed = [o \in Origins |-> {}] /\ terminated = {}
    /\ slices = <<>> /\ windows = <<>> /\ activeOrigins = Len(input) /\ emitted = <<>>
    /\ triggers = {} /\ probed = {} /\ written = {}
    /\ pc = [w \in Workers |-> "idle"] /\ task = [w \in Workers |-> NoTask]
    /\ watermark = [w \in Workers |-> 0] /\ todo = [w \in Workers |-> <<>>]

Goto(w, step) == pc' = [pc EXCEPT ![w] = step]
Done(w) == Goto(w, "idle") /\ task' = [task EXCEPT ![w] = NoTask]

(* tryWLock fails only if another worker has the lock at that moment. *)
WindowsContended(w) == \E v \in Workers \ {w} : pc[v] \in {"create", "trigger", "terminate", "gcWindows"}
SlicesContended(w) == \E v \in Workers \ {w} : pc[v] \in {"find", "create", "probe", "gcSlices"}
-----------------------------------------------------------------------------
(* Watermarks *)

(* The largest n such that all of 1..n are in S. *)
Prefix(S) == Max({n \in 0..Cardinality(S) : 1..n \subseteq S})

(* The assigner starts every buffer at the initial value; it is what an empty buffer keeps. *)
BufferWatermark(buffer) == Max({0} \cup ToSet(buffer))

LocalWatermark(o, seen) ==
    LET n == Prefix(seen) IN IF n = 0 THEN 0 ELSE BufferWatermark(input[o][n])

(* Mutant: the watermark of the origin that is ahead. *)
FurthestWatermark(seen) == Max({LocalWatermark(o, seen[o]) : o \in Origins})

getCurrentWatermark(seen) == Min({LocalWatermark(o, seen[o]) : o \in Origins})

(* Mutant: the latest window that was probed, whether or not earlier ones were. *)
LatestProbed(seen) == WindowStart(assigner, emitted[Max({p[1] : p \in seen})].end)

SlicesOfWindow(k) == SetToSortSeq(emitted[k].slices, <)
Chunks(allSlices) == IF IsJoin THEN NumberOfChunks(allSlices) ELSE 1

(* Windows whose chunks, of which there are as many as the last one's number, have all been seen. *)
SeenWindows(seen) == {k \in DOMAIN emitted : \A c \in 1..Chunks(SlicesOfWindow(k)) : <<k, c>> \in seen}

(* A window travels to the probe with its start as watermark. *)
ProbeWatermark(seen) ==
    LET n == Prefix(SeenWindows(seen)) IN IF n = 0 THEN 0 ELSE WindowStart(assigner, emitted[n].end)
-----------------------------------------------------------------------------
(* Build pipelines *)

(* Below a sequential aggregation buffers come in order, one at a time (ProcessedInOrder and SingleOwner of Sequencer). *)
IsNext(b) == (\A c \in pending : b[2] <= c[2]) /\ \A v \in Workers : ~InBuild(v)

open(w) ==
    \E b \in pending :
        /\ pc[w] = "idle"
        /\ assigner.sequential => IsNext(b)
        /\ pending' = pending \ {b}
        /\ task' = [task EXCEPT ![w] = b \o <<1>>]
        /\ Goto(w, IF input[b[1]][b[2]] = <<>> THEN "close" ELSE "find")
        /\ UNCHANGED <<assigner, input, store, closed, terminated, triggers, probed, written, watermark, todo>>

(* getSlicesOrCreate looks the slice up under the read lock and, if it is not there, creates one without a lock. *)
findSlice(w) ==
    /\ pc[w] = "find"
    /\ Goto(w, IF SliceOf(task[w]) \in DOMAIN slices THEN "write" ELSE "create")
    /\ UNCHANGED <<assigner, input, store, progress, task, watermark, todo>>

(* Windows that expect records again after a slice was added. *)
WithSlice(end, affected) ==
    [e \in DOMAIN windows \cup affected |->
        IF e \notin affected THEN windows[e]
        ELSE [state |-> "WINDOW_FILLING",
              slices |-> IF e \in DOMAIN windows THEN windows[e].slices \cup {end} ELSE {end}]]

(* getCreateNewSlicesFunction *)
NewSlice ==
    IF IsJoin THEN NLJSlice(Cardinality(Workers))
    ELSE HashMapSlice(IF assigner.sequential THEN 1 ELSE Cardinality(Workers))

(* Under both locks; another worker may have been faster. *)
createSlice(w) ==
    /\ pc[w] = "create"
    /\ LET end == SliceOf(task[w])
       IN  \/ end \in DOMAIN slices /\ UNCHANGED <<slices, windows>>
           \/ /\ end \notin DOMAIN slices
              /\ slices' = (end :> NewSlice) @@ slices
              /\ windows' = WithSlice(end, getAllWindowsForSlice(assigner, getSliceStartTs(assigner, Ts(task[w])), end))
    /\ Goto(w, "write")
    /\ UNCHANGED <<assigner, input, activeOrigins, emitted, progress, task, watermark, todo>>

writeRecord(w) ==
    LET r == task[w]
        more == r[3] < Len(input[r[1]][r[2]])
    IN  /\ pc[w] = "write"
        /\ written' = written \cup {r}
        /\ slices' = [slices EXCEPT ![SliceOf(r)] =
                         IF IsJoin THEN StoreRecord(@, r[1], w, [id |-> r, key |-> Key(Ts(r))])
                         ELSE AggregateRecord(@, w, Key(Ts(r)), Value(Ts(r)))]
        /\ task' = [task EXCEPT ![w][3] = IF more THEN @ + 1 ELSE @]
        /\ Goto(w, IF more THEN "find" ELSE "close")
        /\ UNCHANGED <<assigner, input, windows, activeOrigins, emitted, pending, closed, terminated, triggers, probed, watermark, todo>>

(* close: the buffer's watermark counts only now, when all of its records are in. *)
updateWatermark(w) ==
    /\ pc[w] = "close"
    /\ closed' = [closed EXCEPT ![task[w][1]] = @ \cup {task[w][2]}]
    /\ Goto(w, "watermark")
    /\ UNCHANGED <<assigner, input, store, pending, terminated, triggers, probed, written, task, watermark, todo>>

(* What updateWatermark returns, read after its own buffer counts: others may have come in between. *)
readWatermark(w) ==
    /\ pc[w] = "watermark"
    /\ watermark' = [watermark EXCEPT ![w] = getCurrentWatermark(closed)]
    /\ Goto(w, "trigger")
    /\ UNCHANGED <<assigner, input, store, progress, task, todo>>

(* Gives out the windows in ends, in the order of the map, under consecutive sequence numbers.  The slices *)
(* of a window are a set: what it computes does not depend on the order in which they were added to it. *)
Emit(w, ends, newWindows) ==
    LET ordered == SetToSortSeq(ends, <)
        chunks(k) == [c \in 1..Chunks(SetToSeq(windows[ordered[k]].slices)) |-> <<Len(emitted) + k, c>>]
    IN  /\ windows' = [e \in DOMAIN windows |->
                          IF e \in ends THEN [windows[e] EXCEPT !.state = "EMITTED_TO_PROBE"] ELSE newWindows[e]]
        /\ emitted' = emitted \o [k \in DOMAIN ordered |-> [end |-> ordered[k], slices |-> windows[ordered[k]].slices]]
        /\ todo' = [todo EXCEPT ![w] = FlattenSeq([k \in DOMAIN ordered |-> chunks(k)])]
        /\ Goto(w, "emit")

(* Mutant: a window that was given out is given out again. *)
TriggerableAgain(w) == {e \in DOMAIN windows : e < watermark[w]}

Triggerable(w) == {e \in DOMAIN windows : e < watermark[w] /\ windows[e].state # "EMITTED_TO_PROBE"}

getTriggerableWindowSlices(w) ==
    /\ pc[w] = "trigger"
    /\ \/ Emit(w, Triggerable(w), windows)
       \/ WindowsContended(w) /\ Goto(w, "emit") /\ UNCHANGED <<windows, emitted, todo>>
    /\ UNCHANGED <<assigner, input, slices, activeOrigins, progress, task, watermark>>

(* emitSliceIdsToProbe leaves one vector per side in the two slices of a chunk, for all windows that share them. *)
CombineSlices(ends) ==
    [e \in DOMAIN slices |-> IF e \in ToSet(ends) THEN combinePagedVectors(slices[e]) ELSE slices[e]]

(* triggerSlices: a buffer for the probe pipeline per window, or per pair of a window's slices. *)
triggerSlices(w) ==
    /\ pc[w] = "emit"
    /\ \/ /\ todo[w] # <<>>
          /\ LET next == Head(todo[w])
             IN  /\ triggers' = triggers \cup {next}
                 /\ slices' = IF IsJoin THEN CombineSlices(SlicesOfChunk(SlicesOfWindow(next[1]), next[2])) ELSE slices
          /\ todo' = [todo EXCEPT ![w] = Tail(@)]
          /\ UNCHANGED <<pc, task>>
       \/ /\ todo[w] = <<>>
          /\ Done(w) /\ UNCHANGED <<triggers, todo, slices>>
    /\ UNCHANGED <<assigner, input, windows, activeOrigins, emitted, pending, closed, terminated, probed, written, watermark>>

(* The engine stops a pipeline when its work has drained (EndOfStreamDrains of QueryEngine). *)
Drained(o) ==
    /\ \A b \in pending : b[1] # o
    /\ \A w \in Workers : task[w] # NoTask => task[w][1] # o \/ pc[w] \in {"probe", "probeClose", "gcWindows", "gcSlices"}

stopBuild(w) ==
    \E o \in Origins \ terminated :
        /\ pc[w] = "idle" /\ Drained(o)
        /\ terminated' = terminated \cup {o}
        /\ Goto(w, "terminate")
        /\ UNCHANGED <<assigner, input, store, pending, closed, triggers, probed, written, task, watermark, todo>>

(* Mutant: windows that wait for another origin are not looked at again. *)
terminateFillingOnly(w) ==
    LET filling == {e \in DOMAIN windows : windows[e].state = "WINDOW_FILLING"}
        waiting == [e \in DOMAIN windows |->
                       IF e \in filling THEN [windows[e] EXCEPT !.state = "WAITING_ON_TERMINATION"] ELSE windows[e]]
    IN  /\ pc[w] = "terminate"
        /\ activeOrigins' = activeOrigins - 1
        /\ Emit(w, IF activeOrigins = 1 THEN filling ELSE {}, waiting)
        /\ UNCHANGED <<assigner, input, slices, progress, task, watermark>>

(* Only the last origin gives out what is left; the others mark it. *)
getAllNonTriggeredSlices(w) ==
    LET remaining == {e \in DOMAIN windows : windows[e].state # "EMITTED_TO_PROBE"}
        waiting == [e \in DOMAIN windows |->
                       IF e \in remaining THEN [windows[e] EXCEPT !.state = "WAITING_ON_TERMINATION"] ELSE windows[e]]
    IN  /\ pc[w] = "terminate"
        /\ activeOrigins' = activeOrigins - 1
        /\ Emit(w, IF activeOrigins = 1 THEN remaining ELSE {}, waiting)
        /\ UNCHANGED <<assigner, input, slices, progress, task, watermark>>
-----------------------------------------------------------------------------
(* Probe pipeline *)

takeTrigger(w) ==
    \E s \in triggers :
        /\ pc[w] = "idle"
        /\ triggers' = triggers \ {s}
        /\ task' = [task EXCEPT ![w] = s]
        /\ Goto(w, "probe")
        /\ UNCHANGED <<assigner, input, store, pending, closed, terminated, probed, written, watermark, todo>>

(* The join looks its slices up by their ends, the aggregation follows pointers to their hash maps. *)
probe(w) ==
    /\ pc[w] = "probe"
    /\ Goto(w, "probeClose")
    /\ UNCHANGED <<assigner, input, store, progress, task, watermark, todo>>

probeClose(w) ==
    /\ pc[w] = "probeClose"
    /\ probed' = probed \cup {task[w]}
    /\ watermark' = [watermark EXCEPT ![w] = ProbeWatermark(probed')]
    /\ Goto(w, "gcWindows")
    /\ UNCHANGED <<assigner, input, store, pending, closed, terminated, triggers, written, task, todo>>

(* garbageCollectSlicesAndWindows takes the two locks one after the other. *)
gcWindows(w) ==
    LET kept == {e \in DOMAIN windows : e >= watermark[w] \/ windows[e].state # "EMITTED_TO_PROBE"}
    IN  /\ pc[w] = "gcWindows"
        /\ \/ windows' = [e \in kept |-> windows[e]]
           \/ WindowsContended(w) /\ UNCHANGED windows
        /\ Goto(w, "gcSlices")
        /\ UNCHANGED <<assigner, input, slices, activeOrigins, emitted, progress, task, watermark, todo>>

gcSlices(w) ==
    /\ pc[w] = "gcSlices"
    /\ \/ slices' = [e \in {s \in DOMAIN slices : s + assigner.size >= watermark[w]} |-> slices[e]]
       \/ SlicesContended(w) /\ UNCHANGED slices
    /\ Done(w)
    /\ UNCHANGED <<assigner, input, windows, activeOrigins, emitted, progress, watermark, todo>>
-----------------------------------------------------------------------------
Worker(w) ==
    \/ open(w) \/ findSlice(w) \/ createSlice(w) \/ writeRecord(w)
    \/ updateWatermark(w) \/ readWatermark(w) \/ getTriggerableWindowSlices(w) \/ triggerSlices(w)
    \/ stopBuild(w) \/ getAllNonTriggeredSlices(w)
    \/ takeTrigger(w) \/ probe(w) \/ probeClose(w) \/ gcWindows(w) \/ gcSlices(w)

Finished == terminated = Origins /\ triggers = {} /\ \A w \in Workers : pc[w] = "idle"

Next == (\E w \in Workers : Worker(w)) \/ (Finished /\ UNCHANGED vars)

(* Workers keep taking tasks. *)
Spec == Init /\ [][Next]_vars /\ \A w \in Workers : WF_vars(Worker(w))
-----------------------------------------------------------------------------
(* Properties *)

(* A window is given out only when every record that belongs to it, of every origin, is in one of its slices: buffers
   are processed out of order, so the watermark must not overtake a buffer that another worker still fills in, and a
   slice must be added to all windows that cover it.  So no slice is ever added to a window that was given out, the
   INVARIANT of getSlicesOrCreate.  The sequence numbers of windows follow event time, and no window is given out
   twice, whichever workers trigger with whichever stale watermarks ("As the windows are sorted, we can simply
   increment the sequence number here", DefaultTimeBasedSliceStore.cpp). *)
WindowsComplete ==
    /\ \A k \in DOMAIN emitted : \A r \in Records :
        InWindow(assigner, emitted[k].end, Ts(r)) => r \in written /\ SliceOf(r) \in emitted[k].slices
    /\ \A k, l \in DOMAIN emitted : k < l => emitted[k].end < emitted[l].end

(* Garbage collection never takes a slice that a build task is about to write to through a plain pointer, or that a
   window on its way to the probe pipeline still needs. *)
SlicesOutliveUse ==
    /\ \A w \in Workers : pc[w] = "write" => SliceOf(task[w]) \in DOMAIN slices
    /\ \A s \in triggers \cup UNION {ToSet(todo[w]) : w \in Workers} : emitted[s[1]].slices \subseteq DOMAIN slices
    /\ \A w \in Workers : pc[w] \in {"probe", "probeClose"} => emitted[task[w][1]].slices \subseteq DOMAIN slices

(* Every window that a record belongs to is probed in the end, although a worker that finds the windows locked skips
   the trigger and no later watermark may come: what is left is given out when the last origin ends. *)
EveryWindowProbed ==
    <>(\A r \in Records : \A e \in Ts(r)..(Ts(r) + assigner.size) :
           InWindow(assigner, e, Ts(r)) => \E k \in SeenWindows(probed) : emitted[k].end = e)

RecordsOfWindow(k) == {r \in Records : InWindow(assigner, emitted[k].end, Ts(r))}

(* The values of a group in the order of the input, and sorted. *)
InInputOrder(group) == SetToSortSeq(group, LAMBDA q, r : q[2] < r[2] \/ (q[2] = r[2] /\ q[3] < r[3]))
ValuesOf(records) == [i \in DOMAIN records |-> Value(Ts(records[i]))]

IsAggregate(result, group) ==
    LET values == ValuesOf(InInputOrder(group))
        sorted == SortSeq(values, <)
        total == FoldLeft(+, 0, values)
        n == Len(values)
    IN  /\ result.sum = total % Modulus /\ result.count = n /\ result.avg = <<total, n>>
        /\ result.min = sorted[1] /\ result.max = sorted[n]
        /\ result.median = sorted[(n + 1) \div 2] + sorted[(n \div 2) + 1]
        /\ SortSeq(result.array, <) = sorted
        /\ assigner.sequential => result.array = values

(* What the probe of a window computes from the hash maps of all its slices and workers is, for every key once, the
   aggregate of exactly the window's records, however the records were spread over workers; an array of a sequential
   aggregation is in the order of the input. *)
AggregatesExact(k) ==
    LET windowSlices == [i \in DOMAIN SlicesOfWindow(k) |-> slices[SlicesOfWindow(k)[i]]]
        results == AggregationResults(windowSlices)
        keys == {Key(Ts(r)) : r \in RecordsOfWindow(k)}
    IN  /\ Len(results) = Cardinality(keys) /\ {results[i].key : i \in DOMAIN results} = keys
        /\ \A i \in DOMAIN results :
            IsAggregate(results[i].result, {r \in RecordsOfWindow(k) : Key(Ts(r)) = results[i].key})

(* A chunk joins every pair of records with equal keys, the left one from its left slice and the right one from its
   right slice, exactly once, and every pair of the window's records has its chunk. *)
JoinExact(k, chunk) ==
    LET ends == SlicesOfChunk(SlicesOfWindow(k), chunk)
        results == JoinResults(slices[ends[1]], slices[ends[2]])
        pairs == {<<l, r>> \in RecordsOfWindow(k) \X RecordsOfWindow(k) : l[1] = 1 /\ r[1] = 2 /\ Key(Ts(l)) = Key(Ts(r))}
        here == {p \in pairs : SliceOf(p[1]) = ends[1] /\ SliceOf(p[2]) = ends[2]}
    IN  /\ ToSet(results) = {{p[1], p[2]} : p \in here} /\ Len(results) = Cardinality(here)
        /\ \A p \in pairs : \E c \in 1..Chunks(SlicesOfWindow(k)) :
            SlicesOfChunk(SlicesOfWindow(k), c) = <<SliceOf(p[1]), SliceOf(p[2])>>

(* Whenever a worker probes a window, the storage that the window's slices share with other windows, other workers and
   the build pipelines gives exactly the results of the window's records: nothing is lost when states and pages of
   several workers are combined, nothing is counted twice when a slice is combined for several windows. *)
ResultsExact ==
    \A w \in Workers : pc[w] = "probe" =>
        IF IsJoin THEN JoinExact(task[w][1], task[w][2]) ELSE AggregatesExact(task[w][1])
=============================================================================
