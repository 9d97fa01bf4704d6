---------------------------- MODULE GaplessPrefix ----------------------------
(***************************************************************************)
(* What the monotonic sequence queue promises: numbers are put in in any   *)
(* order, each once, and the current number moves on by one at a time, to  *)
(* a number that is in.                                                    *)
(***************************************************************************)
EXTENDS Integers

CONSTANT Numbers   \* the sequence numbers of the stream, from 1 on

VARIABLES
    present,   \* the numbers that are in
    current    \* the end of the prefix that is known to have no gap

vars == <<present, current>>

Init ==
    /\ present = {}
    /\ current = 0

Put(n) ==
    /\ n \notin present
    /\ present' = present \cup {n}
    /\ UNCHANGED current

Shift ==
    /\ current + 1 \in present
    /\ current' = current + 1
    /\ UNCHANGED present

Next == (\E n \in Numbers : Put(n)) \/ Shift

Spec == Init /\ [][Next]_vars
=============================================================================
