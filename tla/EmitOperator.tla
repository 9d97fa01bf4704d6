---------------------------- MODULE EmitOperator ----------------------------
(***************************************************************************)
(* The emit operator at the end of a pipeline (nes-physical-operators,     *)
(* EmitPhysicalOperator.cpp and EmitOperatorHandler.cpp).  Worker threads  *)
(* run the pipeline on the chunks of sequence numbers, concurrently and in *)
(* any order; the output of all the chunks of a sequence number is         *)
(* renumbered 1, 2, ... and one output buffer must carry the last flag.    *)
(*                                                                         *)
(* The handler keeps two maps, each behind a lock of its own; an absent    *)
(* entry reads as zero, so the maps are functions into zero or a state.    *)
(***************************************************************************)
EXTENDS Integers, Sequences, FiniteSets

CONSTANTS
    Workers,       \* the threads that run the pipeline
    InputChunks,   \* InputChunks[s]: how many input chunks sequence number s has
    MaxFull        \* bound: how many full buffers one input chunk may produce

ASSUME EmitOperatorAssumption ==
    /\ Workers # {}
    /\ InputChunks \in Seq(Nat \ {0})
    /\ MaxFull \in Nat

SequenceNumbers == 1..Len(InputChunks)
Inputs == UNION {{[seq |-> s, chunk |-> c, last |-> (c = InputChunks[s])] :
                      c \in 1..InputChunks[s]} : s \in SequenceNumbers}
NoInput == [seq |-> 0, chunk |-> 0, last |-> FALSE]

VARIABLES
    outputChunkNumber,  \* seqNumberOriginIdToOutputChunkNumber
    lastChunkNumber,    \* seqNumberOriginIdToChunkStateInput, lastChunkNumber
    seenChunks,         \* seqNumberOriginIdToChunkStateInput, seenChunks
    epc,                \* where each worker is in the operator
    input,              \* the input buffer of the worker's invocation (ctx)
    number,             \* the chunk number of the buffer being emitted
    full,               \* how many full buffers the invocation has emitted
    pending,            \* the input buffers no worker has picked up yet
    emitted             \* the buffers handed to the next pipeline

state == <<lastChunkNumber, seenChunks>>
emitVars == <<outputChunkNumber, state, epc, input, number, full, pending, emitted>>

EmitInit ==
    /\ outputChunkNumber = [s \in SequenceNumbers |-> 0]
    /\ lastChunkNumber = [s \in SequenceNumbers |-> 0]
    /\ seenChunks = [s \in SequenceNumbers |-> 0]
    /\ epc = [w \in Workers |-> "idle"]
    /\ input = [w \in Workers |-> NoInput]
    /\ number = [w \in Workers |-> 0]
    /\ full = [w \in Workers |-> 0]
    /\ pending = Inputs
    /\ emitted = {}

Goto(w, label) == epc' = [epc EXCEPT ![w] = label]

open(w, i) ==
    /\ epc[w] = "idle"
    /\ i \in pending
    /\ pending' = pending \ {i}
    /\ input' = [input EXCEPT ![w] = i]
    /\ Goto(w, "open")
    /\ UNCHANGED <<outputChunkNumber, state, number, full, emitted>>

(* The caller gets the incremented entry; numbers start at INITIAL = 1. *)
getNextChunkNumber(w) ==
    /\ number' = [number EXCEPT ![w] = outputChunkNumber[input[w].seq] + 1]
    /\ outputChunkNumber' = [outputChunkNumber EXCEPT ![input[w].seq] = @ + 1]

(* execute with a full result buffer: emitRecordBuffer without the last-    *)
(* chunk test.  How many records a chunk yields is data.                    *)
execute(w) ==
    /\ epc[w] = "open"
    /\ full[w] < MaxFull
    /\ full' = [full EXCEPT ![w] = @ + 1]
    /\ getNextChunkNumber(w)
    /\ Goto(w, "emitFull")
    /\ UNCHANGED <<state, input, pending, emitted>>

(* close: emitRecordBuffer first takes a chunk number ... *)
close(w) ==
    /\ epc[w] = "open"
    /\ getNextChunkNumber(w)
    /\ Goto(w, "isLast")
    /\ UNCHANGED <<state, input, full, pending, emitted>>

(* Mutant of processChunkNumber: the flag of the input chunk is passed on. *)
processChunkNumberByFlag(w) ==
    /\ epc[w] = "isLast"
    /\ seenChunks' = [seenChunks EXCEPT ![input[w].seq] = @ + 1]
    /\ Goto(w, IF input[w].last THEN "removeOutput" ELSE "emit")
    /\ UNCHANGED <<lastChunkNumber, outputChunkNumber, input, number, full, pending, emitted>>

(* Mutant of processChunkNumber: the last input chunk is not counted. *)
processChunkNumberForgetLast(w) ==
    LET i == input[w]
        seen == seenChunks[i.seq] + (IF i.last THEN 0 ELSE 1)
    IN /\ epc[w] = "isLast"
       /\ lastChunkNumber' = IF i.last THEN [lastChunkNumber EXCEPT ![i.seq] = i.chunk] ELSE lastChunkNumber
       /\ seenChunks' = [seenChunks EXCEPT ![i.seq] = seen]
       /\ Goto(w, IF seen = lastChunkNumber'[i.seq] THEN "removeOutput" ELSE "emit")
       /\ UNCHANGED <<outputChunkNumber, input, number, full, pending, emitted>>

(* ... then processChunkNumber, under the lock of the other map, counts the *)
(* input chunk and tells whether it was the one that was still missing.     *)
processChunkNumber(w) ==
    LET i == input[w]
        last == IF i.last THEN i.chunk ELSE lastChunkNumber[i.seq]
        seen == seenChunks[i.seq] + 1
    IN /\ epc[w] = "isLast"
       /\ lastChunkNumber' = [lastChunkNumber EXCEPT ![i.seq] = last]
       /\ seenChunks' = [seenChunks EXCEPT ![i.seq] = seen]
       /\ Goto(w, IF seen = last THEN "removeOutput" ELSE "emit")
       /\ UNCHANGED <<outputChunkNumber, input, number, full, pending, emitted>>

(* removeSequenceState erases the two entries, one lock after the other. *)
removeOutputState(w) ==
    /\ epc[w] = "removeOutput"
    /\ outputChunkNumber' = [outputChunkNumber EXCEPT ![input[w].seq] = 0]
    /\ Goto(w, "removeInput")
    /\ UNCHANGED <<state, input, number, full, pending, emitted>>

removeInputState(w) ==
    /\ epc[w] = "removeInput"
    /\ lastChunkNumber' = [lastChunkNumber EXCEPT ![input[w].seq] = 0]
    /\ seenChunks' = [seenChunks EXCEPT ![input[w].seq] = 0]
    /\ Goto(w, "emitLast")
    /\ UNCHANGED <<outputChunkNumber, input, number, full, pending, emitted>>

(* ctx.emitBuffer hands the buffer to the next pipeline.  After a full      *)
(* buffer the invocation goes on, after the one of close it is over.        *)
emitBuffer(w) ==
    /\ epc[w] \in {"emitFull", "emit", "emitLast"}
    /\ emitted' = emitted \cup
           {[seq |-> input[w].seq, chunk |-> number[w], last |-> (epc[w] = "emitLast")]}
    /\ number' = [number EXCEPT ![w] = 0]
    /\ IF epc[w] = "emitFull"
       THEN Goto(w, "open") /\ UNCHANGED <<input, full>>
       ELSE /\ Goto(w, "idle")
            /\ input' = [input EXCEPT ![w] = NoInput]
            /\ full' = [full EXCEPT ![w] = 0]
    /\ UNCHANGED <<outputChunkNumber, state, pending>>

EmitStep(w) ==
    \/ \E i \in pending : open(w, i)
    \/ execute(w)
    \/ close(w)
    \/ processChunkNumber(w)
    \/ removeOutputState(w)
    \/ removeInputState(w)
    \/ emitBuffer(w)

EmitFinished == pending = {} /\ \A w \in Workers : epc[w] = "idle"
-----------------------------------------------------------------------------
EmittedOf(s) == {b \in emitted : b.seq = s}

(* "every sequence number should have the same number of chunks as inserted *)
(* ... with exactly one chunk marked as the last chunk, and no duplicates"  *)
(* (EmitPhysicalOperatorTest.cpp:281-282): no chunk number is given out     *)
(* twice, at no time are there two last chunks, and once all workers are    *)
(* done the numbers are 1..n without a gap and one of them is the last.     *)
ChunksComplete ==
    /\ \A a, b \in emitted : a.seq = b.seq /\ (a.chunk = b.chunk \/ (a.last /\ b.last)) => a = b
    /\ EmitFinished =>
        \A s \in SequenceNumbers :
            /\ {b.chunk : b \in EmittedOf(s)} = 1..Cardinality(EmittedOf(s))
            /\ \E b \in EmittedOf(s) : b.last

(* "it is important to query the state first to get the next chunk number,  *)
(* before asking for the lastChunk as this ... may allow a different worker *)
(* thread to concurrently clean up" (EmitPhysicalOperator.cpp:148-151):     *)
(* once a worker is told to clean up, no chunk of the sequence number is    *)
(* pending and no other worker will access its two entries again; so none   *)
(* is created anew, and the maps do not grow with the stream.               *)
CleanupIsLast ==
    /\ \A w \in Workers : epc[w] \in {"removeOutput", "removeInput", "emitLast"} =>
          /\ \A i \in pending : i.seq # input[w].seq
          /\ \A v \in Workers \ {w} : input[v].seq = input[w].seq => epc[v] = "emit"
    /\ EmitFinished => \A s \in SequenceNumbers :
          outputChunkNumber[s] = 0 /\ lastChunkNumber[s] = 0 /\ seenChunks[s] = 0
=============================================================================
