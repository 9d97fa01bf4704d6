---------------------------- MODULE MCBufferPools ----------------------------
(* Instances of BufferPools.  Segments, sources and workers are             *)
(* interchangeable, and the properties the run checks are invariants.       *)
EXTENDS BufferPools, TLC

Interchangeable == Permutations(Segments) \cup Permutations(Sources) \cup Permutations(Workers)
==============================================================================
