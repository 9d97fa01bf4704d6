------------------------- MODULE MCWindowOperator --------------------------
EXTENDS WindowOperator, TLC

Setup(buffers, size, slide, sequential) ==
    [input |-> buffers, window |-> [size |-> size, slide |-> slide, sequential |-> sequential]]

(* Aggregations over one origin: buffers of several slices, one of them empty. *)
Spread == << << <<0>>, <<1, 3>>, <<6>> >> >>
WithEmptyBuffer == << << <<0, 2>>, <<>>, <<7>>, <<9>> >> >>

(* Joins: two buffers on the left that fall into one slice, an origin that is ahead, and one that is silent. *)
BothSides == << << <<0>>, <<1>> >>, << <<1, 2>> >> >>
OneAhead == << << <<0, 5>> >>, << <<1>> >> >>
OneSilent == << << <<2>> >>, << >> >>

(* Tumbling windows, sliding ones with slices of equal and of unequal length, and windows with gaps between them. *)
MCSetups == {
    Setup(Spread, 4, 2, FALSE), Setup(Spread, 2, 2, FALSE), Setup(WithEmptyBuffer, 3, 2, FALSE),
    Setup(WithEmptyBuffer, 2, 3, FALSE), Setup(WithEmptyBuffer, 4, 2, TRUE),
    Setup(BothSides, 4, 2, FALSE), Setup(OneAhead, 4, 4, FALSE), Setup(OneSilent, 4, 2, FALSE) }

(* Two keys that share a chain of a worker's map, but not of the final one; sums of values that wrap around. *)
MCKey(ts) == ts % 2
MCValue(ts) == (5 * ts + 3) % 8
MCHash(key) == 2 * key + 1
=============================================================================
