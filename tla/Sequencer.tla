------------------------------ MODULE Sequencer ------------------------------
(***************************************************************************)
(* nes-common/include/Sequencing/Sequencer.hpp and its only user, the      *)
(* sequence operator of nes-physical-operators: worker threads receive the *)
(* buffers of a stream in any order and must process them in the order of  *)
(* their (sequence number, chunk number), one at a time.                   *)
(*                                                                         *)
(* The sequencer's state is behind a folly::Synchronized, so isNext and    *)
(* advanceAndGetNext are atomic.  The operator handler's currentBuffer is  *)
(* NOT protected by that lock: it is assigned after isNext/advance have    *)
(* released it, in a step of its own.                                      *)
(***************************************************************************)
EXTENDS Integers, Sequences

CONSTANTS
    Threads,      \* the worker threads that run the sequence operator
    NumChunks     \* NumChunks[s]: how many chunks sequence number s was split into

ASSUME SequencerAssumption ==
    /\ NumChunks \in Seq(Nat \ {0})
    /\ Threads # {}

(* SequenceData: the last chunk of a sequence number carries the flag. *)
SequenceData(s, c) == [seq |-> s, chunk |-> c, last |-> (c = NumChunks[s])]
Items == UNION {{SequenceData(s, c) : c \in 1..NumChunks[s]} : s \in 1..Len(NumChunks)}

(* SequenceData::operator< ; the flag never decides between two buffers of  *)
(* a stream, because (sequence, chunk) identifies a buffer.                 *)
Less(x, y) == x.seq < y.seq \/ (x.seq = y.seq /\ x.chunk < y.chunk)

NoBuffer == [seq |-> 0, chunk |-> 0, last |-> FALSE]

VARIABLES
    nextSequence,     \* State::nextSequence
    nextChunkNumber,  \* State::nextChunkNumber
    queue,            \* State::queue, the buffers that arrived out of order
    currentBuffer,    \* SequenceOperatorHandler::currentBuffer
    pc,               \* where each thread is in SequencePhysicalOperator::open
    held,             \* the optional returned to the thread, not yet stored
    incoming,         \* the buffers no worker has picked up yet
    processed         \* history: the buffers in the order they were scanned

vars == <<nextSequence, nextChunkNumber, queue, currentBuffer, pc, held, incoming, processed>>

TypeOK ==
    /\ nextSequence \in 1..(Len(NumChunks) + 1)
    /\ nextChunkNumber \in Nat \ {0}
    /\ queue \subseteq Items
    /\ currentBuffer \in Items \cup {NoBuffer}
    /\ pc \in [Threads -> {"idle", "store", "scan", "done"}]
    /\ held \in [Threads -> Items \cup {NoBuffer}]
    /\ incoming \subseteq Items
    /\ processed \in Seq(Items)

Init ==
    /\ nextSequence = 1
    /\ nextChunkNumber = 1
    /\ queue = {}
    /\ currentBuffer = NoBuffer
    /\ pc = [t \in Threads |-> "idle"]
    /\ held = [t \in Threads |-> NoBuffer]
    /\ incoming = Items
    /\ processed = <<>>

Expected(i) == i.seq = nextSequence /\ i.chunk = nextChunkNumber

(* Mutant of isNext: compares the sequence number only. *)
isNextIgnoringChunk(t, i) ==
    /\ pc[t] = "idle"
    /\ i \in incoming
    /\ incoming' = incoming \ {i}
    /\ IF i.seq = nextSequence
       THEN /\ held' = [held EXCEPT ![t] = i]
            /\ pc' = [pc EXCEPT ![t] = "store"]
            /\ UNCHANGED queue
       ELSE /\ queue' = queue \cup {i}
            /\ UNCHANGED <<held, pc>>
    /\ UNCHANGED <<nextSequence, nextChunkNumber, currentBuffer, processed>>

(* A worker picks up buffer i and offers it: isNext hands it back when it   *)
(* is the expected one (without advancing), or stores it.                   *)
isNext(t, i) ==
    /\ pc[t] = "idle"
    /\ i \in incoming
    /\ incoming' = incoming \ {i}
    /\ IF Expected(i)
       THEN /\ held' = [held EXCEPT ![t] = i]
            /\ pc' = [pc EXCEPT ![t] = "store"]
            /\ UNCHANGED queue
       ELSE /\ queue' = queue \cup {i}
            /\ UNCHANGED <<held, pc>>
    /\ UNCHANGED <<nextSequence, nextChunkNumber, currentBuffer, processed>>

(* currentBuffer is assigned the returned buffer, outside the sequencer's lock. *)
storeCurrentBuffer(t) ==
    /\ pc[t] = "store"
    /\ currentBuffer' = held[t]
    /\ held' = [held EXCEPT ![t] = NoBuffer]
    /\ pc' = [pc EXCEPT ![t] = "scan"]
    /\ UNCHANGED <<nextSequence, nextChunkNumber, queue, incoming, processed>>

(* scan.open; scan.close on the buffer that currentBuffer points to. *)
scan(t) ==
    /\ pc[t] = "scan"
    /\ processed' = Append(processed, currentBuffer)
    /\ pc' = [pc EXCEPT ![t] = "done"]
    /\ UNCHANGED <<nextSequence, nextChunkNumber, queue, currentBuffer, held, incoming>>

(* What the sequencer waits for once data is done. *)
Advanced(data) ==
    IF data.last THEN <<data.seq + 1, 1>> ELSE <<nextSequence, data.chunk + 1>>

(* Mutant of advanceAndGetNext: the counter advances, the queue is not      *)
(* looked at.                                                               *)
advanceWithoutPop(t) ==
    LET next == Advanced(currentBuffer)
    IN /\ pc[t] = "done"
       /\ nextSequence' = next[1]
       /\ nextChunkNumber' = next[2]
       /\ pc' = [pc EXCEPT ![t] = "idle"]
       /\ UNCHANGED <<held, queue, currentBuffer, incoming, processed>>

(* markBufferAsDone: advanceAndGetNext with the metadata of currentBuffer.  *)
(* The top of the priority queue is taken out if it is the new expected     *)
(* one, otherwise the thread leaves the operator.                           *)
advanceAndGetNext(t) ==
    LET data == currentBuffer
        next == Advanced(data)
        isTop(i) == \A j \in queue : ~Less(j, i)
        ready == {i \in queue : isTop(i) /\ i.seq = next[1] /\ i.chunk = next[2]}
    IN /\ pc[t] = "done"
       /\ nextSequence' = next[1]
       /\ nextChunkNumber' = next[2]
       /\ \/ \E i \in ready :
                /\ queue' = queue \ {i}
                /\ held' = [held EXCEPT ![t] = i]
                /\ pc' = [pc EXCEPT ![t] = "store"]
          \/ /\ ready = {}
             /\ pc' = [pc EXCEPT ![t] = "idle"]
             /\ UNCHANGED <<held, queue>>
       /\ UNCHANGED <<currentBuffer, incoming, processed>>

Finished == incoming = {} /\ \A t \in Threads : pc[t] = "idle"

(* Every buffer arrived and every worker left the operator. *)
Done == Finished /\ UNCHANGED vars

Next ==
    \/ \E t \in Threads : \/ \E i \in Items : isNext(t, i)
                          \/ storeCurrentBuffer(t)
                          \/ scan(t)
                          \/ advanceAndGetNext(t)
    \/ Done

ThreadStep(t) ==
    (\E i \in Items : isNext(t, i)) \/ storeCurrentBuffer(t) \/ scan(t) \/ advanceAndGetNext(t)

Spec == Init /\ [][Next]_vars

(* Workers keep running their loop, so each one is scheduled fairly. *)
FairSpec == Spec /\ \A t \in Threads : WF_vars(ThreadStep(t))

-----------------------------------------------------------------------------
Busy(t) == pc[t] # "idle"

(* One worker at a time is between a successful isNext and the advance that *)
(* ends its run: this is all that protects the unlocked currentBuffer.      *)
SingleOwner == \A t, u \in Threads : Busy(t) /\ Busy(u) => t = u

(* The PRECONDITION of advanceAndGetNext (Sequencer.hpp:72): the buffer a   *)
(* worker marks as done is the one the sequencer is waiting for.            *)
AdvancePrecondition == \A t \in Threads : pc[t] = "done" => Expected(currentBuffer)

(* "The Sequencer enforces that SequenceData objects are processed in       *)
(* sequence order": each scanned buffer comes strictly after the one before.*)
ProcessedInOrder ==
    \A i, j \in 1..Len(processed) : i < j => Less(processed[i], processed[j])

(* No lost wake-up: the buffer everybody waits for is never left in the     *)
(* queue, whichever of a concurrent isNext and advance comes first.         *)
ExpectedNotStranded == \A i \in queue : ~Expected(i)

(* Seen from outside, the operator is an ordered stream: whatever the order *)
(* in which workers pick buffers up, and whichever of them finds the next   *)
(* one in the queue, a buffer is scanned once, after every buffer that      *)
(* comes before it and without leaving one out.                             *)
Ordered == INSTANCE OrderedStream WITH
    Buffers <- Items,
    Before <- [i \in Items |-> {j \in Items : Less(j, i)}],
    arrived <- Items \ incoming,
    done <- processed
ImplementsOrderedStream == Ordered!Spec

(* Every buffer of the stream is processed in the end, in whatever order    *)
(* the workers picked them up.                                              *)
AllProcessed == <>(Len(processed) > 0 /\ {processed[k] : k \in 1..Len(processed)} = Items)
=============================================================================
