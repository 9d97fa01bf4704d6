-------------------------- MODULE MCChunkPipeline --------------------------
(* One sequence number of three chunks, each of which may fill a buffer     *)
(* before it is closed: up to six buffers, all workers in it at once or one *)
(* after the other.  Sequence numbers share no entry of the handler's maps; *)
(* those that share a node of the collector are MCChunkCollector's.         *)
EXTENDS ChunkPipeline, TLC

MCInputChunks == <<3>>

(* Workers and collectors are interchangeable, and only invariants are      *)
(* checked.                                                                 *)
Interchangeable == Permutations(Workers) \cup Permutations(Collectors)
=============================================================================
