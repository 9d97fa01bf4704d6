-------------------------- MODULE InputFormatterTask --------------------------
(***************************************************************************)
(* The formatter pipeline behind a source: the tasks of the raw buffers of *)
(* one source, worker threads that execute them (InputFormatterTask,       *)
(* CSVInputFormatter) over one shared SequenceShredder, and the stop of    *)
(* the pipeline, which flushes the last tuple.                             *)
(* A byte is named by its buffer and its place in it; a tuple is the       *)
(* sequence of its bytes.  Splitting a tuple into fields and parsing them  *)
(* does not change which tuples there are.                                 *)
(***************************************************************************)
EXTENDS SequenceShredder, SequencesExt

CONSTANTS
  Workers,
  Streams,          \* what sources produce: sequences of raw buffers, as sequences of bytes
  TuplesPerBuffer   \* how many tuples fit into a formatted buffer

VARIABLES
  stream,     \* the buffers of this source; buffer n has sequence number n
  tasks,      \* the task queue: sequence numbers
  worker,     \* what each worker does
  emitted,    \* the formatted buffers: [sequenceNumber, chunkNumber, lastChunk, tuples]
  stopped     \* what InputFormatterTask::stop has done

taskVars == <<stream, tasks, worker, emitted, stopped>>
vars == <<shredderVars, taskVars>>

Idle == [pc |-> "idle"]

Init ==
  /\ ShredderInit
  /\ stream \in Streams
  /\ tasks = [n \in DOMAIN stream |-> n]
  /\ worker = [w \in Workers |-> Idle]
  /\ emitted = {}
  /\ stopped = [pc |-> "running"]

----------------------------------------------------------------------------
(* The places of the tuple delimiters and the tuples of a buffer.           *)

Delimiters(buffer) == {i \in DOMAIN buffer.bytes : buffer.bytes[i]}
HasTupleDelimiter(buffer) == Delimiters(buffer) # {}
Bytes(buffer, first, last) == [i \in 1..(last - first + 1) |-> <<buffer.sequenceNumber, first + i - 1>>]

\* A buffer that was moved out of the shredder before this use of it, or that
\* starts no tuple, shows as a byte that no source has sent.
Lost == << <<-1, 0>> >>

\* processPartialTuple: the tuple that starts in the first of these buffers
\* and ends in the last, made of the bytes behind the last delimiter, of all
\* bytes between, and of those before the first delimiter.
PartialTuple(buffers) ==
  LET first == Head(buffers)
      last == buffers[Len(buffers)]
      between == SubSeq(buffers, 2, Len(buffers) - 1)
      trailing == IF HasTupleDelimiter(first) THEN Bytes(first, Max(Delimiters(first)) + 1, Len(first.bytes)) ELSE Lost
      whole(buffer) == IF buffer = MovedOut THEN Lost ELSE Bytes(buffer, 1, Len(buffer.bytes))
      leading == IF HasTupleDelimiter(last) THEN Bytes(last, 1, Min(Delimiters(last)) - 1)
                 ELSE IF last = MovedOut THEN Lost ELSE <<>>
  IN  trailing \o FlattenSeq([i \in DOMAIN between |-> whole(between[i])]) \o leading

\* processCurrentBuffer: the tuples between two delimiters of a buffer.
InnerTuples(buffer) ==
  LET places == SetToSortSeq(Delimiters(buffer), <)
  IN  [i \in 1..(Len(places) - 1) |-> Bytes(buffer, places[i] + 1, places[i + 1] - 1)]

\* checkAndHandleFullBuffer before every tuple, and the final emit: the tuples
\* of one sequence number in chunks, of which only the final one is the last.
Chunks(sequenceNumber, tuples) ==
  LET count == (Len(tuples) + TuplesPerBuffer - 1) \div TuplesPerBuffer
  IN  {[sequenceNumber |-> sequenceNumber, chunkNumber |-> c, lastChunk |-> c = count,
        tuples |-> SubSeq(tuples, (c - 1) * TuplesPerBuffer + 1, Min({c * TuplesPerBuffer, Len(tuples)}))]
       : c \in 1..count}

\* parseTupleBufferRaw with the buffers the shredder returns, of which the
\* one at index is the processed one.
Formatted(buffers, index) ==
  LET own == buffers[index]
  IN  (IF index > 1 THEN <<PartialTuple(SubSeq(buffers, 1, index))>> ELSE <<>>)
        \o InnerTuples(own)
        \o (IF index < Len(buffers) THEN <<PartialTuple(SubSeq(buffers, index, Len(buffers)))>> ELSE <<>>)

----------------------------------------------------------------------------
(* checkSpanningTupleWithTupleDelimiter and ...WithoutTupleDelimiter.  What *)
(* they return is formatted by the thread on its own, which no other       *)
(* thread observes: both are one step.                                     *)

\* The first and the last buffer of what a buffer with a delimiter completes.
FirstOf(found, n) == IF found.start.isValid THEN found.start.sequenceNumber ELSE n
LastOf(found, n) == IF found.end.isValid THEN found.end.sequenceNumber ELSE n

BehindTail(n) == n < tail * Bits

\* The tuples on both sides of the buffer were completed by others and the
\* tail moved past it: only the buffer itself is left to format.
ReturnOwnBuffer(buffer, bitmapCount) ==
  LET slot == buffer.sequenceNumber % (bitmapCount * Bits)
      owns == stagedBuffers[slot].sequenceNumber = buffer.sequenceNumber
  IN  /\ stagedBuffers' = IF owns THEN [stagedBuffers EXCEPT ![slot] = MovedOut] ELSE stagedBuffers
      /\ UNCHANGED <<bitmaps, stagedBufferUses>>

OwnUses(found, n) ==
  1 + (IF FirstOf(found, n) < n THEN 1 ELSE 0) + (IF n < LastOf(found, n) THEN 1 ELSE 0)

checkSpanningTupleWithTupleDelimiter(buffer, found, bitmapCount) ==
  LET n == buffer.sequenceNumber
      starts == (IF found.start.isValid THEN {found.start.sequenceNumber} ELSE {})
                  \cup (IF found.end.isValid THEN {n} ELSE {})
  IN  IF BehindTail(n)
        THEN ReturnOwnBuffer(buffer, bitmapCount)
        ELSE Complete(starts, Used(FirstOf(found, n), LastOf(found, n), n, OwnUses(found, n), bitmapCount), bitmapCount)

\* What it returns: the buffers and the index of the processed one.
ReturnedBuffers(buffer, found, bitmapCount) ==
  LET n == buffer.sequenceNumber
  IN  IF BehindTail(n)
        THEN [buffers |-> <<buffer>>, index |-> 1]
        ELSE [buffers |-> Used(FirstOf(found, n), LastOf(found, n), n, OwnUses(found, n), bitmapCount).taken,
              index |-> n - FirstOf(found, n) + 1]

checkSpanningTupleWithoutTupleDelimiter(n, found, bitmapCount) ==
  Complete({found.start.sequenceNumber},
           Used(found.start.sequenceNumber, found.end.sequenceNumber, n, 1, bitmapCount),
           bitmapCount)

----------------------------------------------------------------------------
(* A worker.                                                               *)

TakeTask(w) ==
  /\ worker[w].pc = "idle"
  /\ tasks # <<>>
  /\ worker' = [worker EXCEPT ![w] = [pc |-> "isInRange", buffer |-> Buffer(Head(tasks), stream[Head(tasks)])]]
  /\ tasks' = Tail(tasks)
  /\ UNCHANGED <<shredderVars, stream, emitted, stopped>>

\* The buffer does not fit into the ring yet: the task goes back to the queue.
Repeat(w) ==
  /\ worker[w].pc = "isInRange"
  /\ ~InRange(worker[w].buffer.sequenceNumber)
  /\ RequestResize
  /\ tasks' = Append(tasks, worker[w].buffer.sequenceNumber)
  /\ worker' = [worker EXCEPT ![w] = Idle]
  /\ UNCHANGED <<stream, emitted, stopped>>

CheckRange(w) ==
  /\ worker[w].pc = "isInRange"
  /\ InRange(worker[w].buffer.sequenceNumber)
  /\ worker' = [worker EXCEPT ![w] = [@ EXCEPT !.pc = "process"]]
  /\ UNCHANGED <<shredderVars, stream, tasks, emitted, stopped>>

\* processSequenceNumber up to the search on the snapshot.  The thread of a
\* buffer without a delimiter that completes no tuple is done.
ProcessSequenceNumber(w) ==
  LET buffer == worker[w].buffer
      hasTupleDelimiter == HasTupleDelimiter(buffer)
  IN  /\ worker[w].pc = "process"
      /\ Stage(buffer, hasTupleDelimiter)
      /\ LET found == FindSpanningTuple(buffer.sequenceNumber, hasTupleDelimiter, TheSnapshot')
             done == ~hasTupleDelimiter /\ ~(found.start.isValid /\ found.end.isValid)
         IN  worker' = [worker EXCEPT ![w] =
                          IF done THEN Idle
                          ELSE [pc |-> "check", buffer |-> buffer, found |-> found,
                                bitmapCount |-> numberOfBitmaps]]
      /\ UNCHANGED <<stream, tasks, emitted, stopped>>

CheckWithDelimiter(w) ==
  LET my == worker[w]
      returned == ReturnedBuffers(my.buffer, my.found, my.bitmapCount)
      skip == Len(returned.buffers) = 1 /\ Cardinality(Delimiters(my.buffer)) = 1
  IN  /\ my.pc = "check"
      /\ HasTupleDelimiter(my.buffer)
      /\ checkSpanningTupleWithTupleDelimiter(my.buffer, my.found, my.bitmapCount)
      /\ emitted' = IF skip THEN emitted
                    ELSE emitted \cup Chunks(my.buffer.sequenceNumber, Formatted(returned.buffers, returned.index))
      /\ worker' = [worker EXCEPT ![w] = Idle]
      /\ UNCHANGED <<stream, tasks, stopped>>

CheckWithoutDelimiter(w) ==
  LET my == worker[w]
      buffers == Used(my.found.start.sequenceNumber, my.found.end.sequenceNumber,
                      my.buffer.sequenceNumber, 1, my.bitmapCount).taken
  IN  /\ my.pc = "check"
      /\ ~HasTupleDelimiter(my.buffer)
      /\ checkSpanningTupleWithoutTupleDelimiter(my.buffer.sequenceNumber, my.found, my.bitmapCount)
      /\ emitted' = emitted \cup Chunks(my.buffer.sequenceNumber, <<PartialTuple(buffers)>>)
      /\ worker' = [worker EXCEPT ![w] = Idle]
      /\ UNCHANGED <<stream, tasks, stopped>>

----------------------------------------------------------------------------
(* InputFormatterTask::stop, called when no task of the pipeline is left.   *)

\* The largest sequence number in the bitmaps.
LargestSequenceNumber ==
  LET isMarked(n) == LET i == (n \div Bits) % numberOfBitmaps
                     IN  (n % Bits) \in (seenAndUsedBitmaps[i] \cup tupleDelimiterBitmaps[i])
  IN  Max({n \in (tail * Bits)..((tail + numberOfBitmaps) * Bits - 1) : isMarked(n)})

\* Mutant of SequenceNumberToUse: always that of the largest buffer.
ReusedSequenceNumber == LargestSequenceNumber

\* The sequence number of the flushed tuple: that of the largest buffer, or
\* the next when the largest, having a delimiter, was used.
SequenceNumberToUse ==
  LET n == LargestSequenceNumber
      hasTupleDelimiter == (n % Bits) \in tupleDelimiterBitmaps[(n \div Bits) % numberOfBitmaps]
      producedAlready == hasTupleDelimiter /\ stagedBufferUses[n % (numberOfBitmaps * Bits)] # 2
  IN  IF producedAlready THEN n + 1 ELSE n

AllExecuted == tasks = <<>> /\ \A w \in Workers : worker[w].pc = "idle"

FlushFinalPartialTuple ==
  LET dummy == DelimiterBuffer(LargestSequenceNumber + 1)
  IN  /\ stopped.pc = "running"
      /\ AllExecuted
      /\ Stage(dummy, TRUE)
      /\ stopped' = [pc |-> "check", buffer |-> dummy, sequenceNumber |-> SequenceNumberToUse,
                     found |-> FindSpanningTuple(dummy.sequenceNumber, TRUE, TheSnapshot')]
      /\ UNCHANGED <<stream, tasks, worker, emitted>>

FlushFinalTuple ==
  LET returned == ReturnedBuffers(stopped.buffer, stopped.found, numberOfBitmaps)
      tuple == PartialTuple(returned.buffers)
      nothing == Len(returned.buffers) = 1 \/ tuple = <<>>
  IN  /\ stopped.pc = "check"
      /\ checkSpanningTupleWithTupleDelimiter(stopped.buffer, stopped.found, numberOfBitmaps)
      /\ emitted' = IF nothing THEN emitted
                    ELSE emitted \cup Chunks(stopped.sequenceNumber, <<tuple>>)
      /\ stopped' = [pc |-> "stopped"]
      /\ UNCHANGED <<stream, tasks, worker>>

----------------------------------------------------------------------------
Execute(w) ==
  \/ TakeTask(w) \/ Repeat(w) \/ CheckRange(w) \/ ProcessSequenceNumber(w)
  \/ CheckWithDelimiter(w) \/ CheckWithoutDelimiter(w)

Stop == FlushFinalPartialTuple \/ FlushFinalTuple
Done == stopped.pc = "stopped" /\ UNCHANGED vars

Next == (\E w \in Workers : Execute(w)) \/ Stop \/ Done

\* The engine keeps executing tasks while there are any, and then stops the
\* pipeline: weak fairness of Execute(w), which is enabled when the worker has
\* or can get a task and which is what changes worker[w], and of Stop.
CanExecute(w) == worker[w].pc # "idle" \/ tasks # <<>>
CanStop == AllExecuted /\ stopped.pc # "stopped"
Fairness ==
  /\ \A w \in Workers : []<>~CanExecute(w) \/ []<><<worker'[w] # worker[w]>>_vars
  /\ []<>~CanStop \/ []<><<stopped' # stopped>>_vars

Spec == Init /\ [][Next]_vars /\ Fairness

----------------------------------------------------------------------------
(* The tuples of the stream, independently of its buffers.                  *)

AllBytes == FlattenSeq([n \in DOMAIN stream |-> [i \in DOMAIN stream[n] |-> <<n, i>>]])
TuplesOf(bytes) ==
  LET places == {0} \cup {p \in DOMAIN bytes : stream[bytes[p][1]][bytes[p][2]]}
      endOf(p) == Min({q \in places \cup {Len(bytes) + 1} : q > p})
  IN  {SubSeq(bytes, p + 1, endOf(p) - 1) : p \in places} \ {<<>>}

EmittedTuples == UNION {{<<buffer, i>> : i \in DOMAIN buffer.tuples} : buffer \in emitted}
Tuple(e) == e[1].tuples[e[2]]
NonEmpty == {e \in EmittedTuples : Tuple(e) # <<>>}

\* "Exactly one thread must format the tuple and pass it to the next operator":
\* whatever the order in which threads stage their buffers and complete spanning
\* tuples, no tuple is put together of the wrong buffers, none is emitted twice,
\* and after the flush none is missing.
TuplesExactlyOnce ==
  LET tuples == {Tuple(e) : e \in NonEmpty}
      all == TuplesOf(AllBytes)
  IN  /\ tuples \subseteq all
      /\ Cardinality(NonEmpty) = Cardinality(tuples)
      /\ stopped.pc = "stopped" => tuples = all

\* The chunks that leave the formatter can be told apart and counted by the
\* operators behind it: no two formatted buffers have the same sequence and
\* chunk number, the flushed one included, and a sequence number has one last
\* chunk, behind all its others.
ChunksDistinct ==
  \A a, b \in emitted : a.sequenceNumber = b.sequenceNumber /\ a # b =>
    /\ a.chunkNumber # b.chunkNumber
    /\ a.lastChunk => a.chunkNumber > b.chunkNumber

\* The shredder holds a raw buffer exactly as long as a tuple may need it: the
\* uses of a buffer never become negative (INVARIANT in
\* checkSpanningTupleWithTupleDelimiter), and after the flush no raw buffer
\* of the source is left in the shredder, so its pool gets them all back.
BuffersReturned ==
  /\ \A s \in DOMAIN stagedBufferUses : stagedBufferUses[s] >= 0
  /\ stopped.pc = "stopped" =>
       \A s \in DOMAIN stagedBuffers : stagedBuffers[s].sequenceNumber \notin DOMAIN stream

\* Buffers that do not fit into the ring are repeated until they do: the tail
\* moves on, no thread spins for ever, and the pipeline stops.
AllFormatted == <>(stopped.pc = "stopped")

===============================================================================
