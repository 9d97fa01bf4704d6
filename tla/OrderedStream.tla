---------------------------- MODULE OrderedStream ----------------------------
(***************************************************************************)
(* What the sequence operator promises: buffers arrive in any order, and   *)
(* one at a time is processed, each after all those that come before it.   *)
(***************************************************************************)
EXTENDS Sequences, Integers

CONSTANTS
    Buffers,   \* the buffers of the stream
    Before     \* Before[b]: the buffers that come before b

VARIABLES
    arrived,   \* the buffers that have arrived
    done       \* those that were processed, in order

vars == <<arrived, done>>

Processed == {done[k] : k \in 1..Len(done)}

Init ==
    /\ arrived = {}
    /\ done = <<>>

Arrive(b) ==
    /\ b \notin arrived
    /\ arrived' = arrived \cup {b}
    /\ UNCHANGED done

Process(b) ==
    /\ b \in arrived \ Processed
    /\ Before[b] \subseteq Processed
    /\ done' = Append(done, b)
    /\ UNCHANGED arrived

Next == \E b \in Buffers : Arrive(b) \/ Process(b)

Spec == Init /\ [][Next]_vars
=============================================================================
