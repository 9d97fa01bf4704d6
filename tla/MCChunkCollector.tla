-------------------------- MODULE MCChunkCollector --------------------------
(* Three sequence numbers over two nodes: three chunks whose watermarks are  *)
(* out of order, a sequence number that was not split, and one that leaves  *)
(* its node half empty.                                                     *)
EXTENDS ChunkCollector

MCStream == << <<2, 3, 1>>, <<1>>, <<0, 2>> >>
=============================================================================
