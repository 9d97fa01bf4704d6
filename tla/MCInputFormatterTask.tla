------------------------ MODULE MCInputFormatterTask ------------------------
(* Streams of a few raw buffers over bitmaps of two bits: a buffer without  *)
(* a delimiter, one that ends with it, one that begins with it, one with a  *)
(* delimiter inside and one with two.                                      *)
EXTENDS InputFormatterTask

CONSTANT Length     \* bound: how many raw buffers a source sends

None == <<FALSE>>
Ends == <<FALSE, TRUE>>
Begins == <<TRUE, FALSE>>
Inside == <<FALSE, TRUE, FALSE>>
Two == <<FALSE, TRUE, FALSE, TRUE, FALSE>>

HasDelimiter(s, n) == n = 0 \/ n > Len(s) \/ TRUE \in Range(s[n])
\* Tuples that fit into the ring: the start and the end of each are among the
\* bitmaps of the ring when the tail is at the start (for 64 bitmaps of 64
\* bits, a tuple spans at most 4032 buffers).
SpansFit(s) ==
  \A n \in 0..Len(s) : HasDelimiter(s, n) =>
    \E k \in (n + 1)..(Len(s) + 1) : HasDelimiter(s, k) /\ k \div Bits < n \div Bits + InitialBitmaps
\* The first tuple ends in the first bitmap (of 64 buffers in the code): the end
\* of a longer one is found only by a buffer that has a delimiter itself.
FirstTupleIsShort(s) == \E n \in 1..(Bits - 1) : HasDelimiter(s, n)

MCStreams == {s \in [1..Length -> {None, Inside}] : SpansFit(s) /\ FirstTupleIsShort(s)}
               \cup { <<>>, <<Ends, Ends, Begins>>, <<Two, Begins, None, Two>>, <<Begins, None, Two, Ends, None>> }
=============================================================================
