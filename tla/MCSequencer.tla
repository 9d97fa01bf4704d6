----------------------------- MODULE MCSequencer -----------------------------
(* Three sequence numbers, the middle one in three chunks and the last one  *)
(* in two, for two or three workers: an early chunk can overtake a late one *)
(* within a number and across numbers.                                      *)
EXTENDS Sequencer
MCNumChunks == <<1, 3, 2>>
=============================================================================
