--------------------------- MODULE ChunkPipeline ---------------------------
(***************************************************************************)
(* Two pipelines in a row: the buffers that the emit operator of the first *)
(* one renumbers (EmitOperator) are the chunks that the watermark          *)
(* processor of the second one collects (ChunkCollector).  Buffers travel  *)
(* as tasks through the queue of the query engine, in any order, and are   *)
(* picked up by any worker; only the invocation of one pipeline is         *)
(* sequential.                                                             *)
(***************************************************************************)
EXTENDS EmitOperator

CONSTANTS
    Collectors,   \* the threads that run the second pipeline
    NodeSize,     \* as in ChunkCollector
    CounterRange  \* as in ChunkCollector

VARIABLES nodes, missing, counter, seenLast, value, pc, chunk, current, final,
          incoming, counted, completed,
          overlapped   \* history: numbers of which two workers held chunks at a time

(* The watermark of every buffer is the same here; ChunkCollector is where  *)
(* it matters.  Stream only gives the collector its sequence numbers.       *)
C == INSTANCE ChunkCollector WITH
        Threads <- Collectors, Stream <- [s \in SequenceNumbers |-> <<1>>]

collectorVars == <<nodes, missing, counter, seenLast, value, pc, chunk, current, final,
                   incoming, counted, completed>>
pipelineVars == <<emitVars, collectorVars, overlapped>>

ToChunk(b) == [seq |-> b.seq, chunk |-> b.chunk, last |-> b.last, wm |-> 1]

PipelineInit == EmitInit /\ C!Empty /\ incoming = {} /\ overlapped = {}

Overlapping ==
    {s \in SequenceNumbers : \E v, w \in Workers : v # w /\ input[v].seq = s /\ input[w].seq = s}

(* A worker of the first pipeline; what it emits becomes a task of the      *)
(* second one.                                                              *)
Upstream(w) ==
    /\ EmitStep(w)
    /\ incoming' = incoming \cup {ToChunk(b) : b \in emitted' \ emitted}
    /\ overlapped' = overlapped \cup Overlapping'
    /\ UNCHANGED <<nodes, missing, counter, seenLast, value, pc, chunk, current, final,
                   counted, completed>>

Downstream(t) == C!collect(t) /\ UNCHANGED <<emitVars, overlapped>>

Quiet == EmitFinished /\ C!Finished

PipelineNext ==
    \/ \E w \in Workers : Upstream(w)
    \/ \E t \in Collectors : Downstream(t)
    \/ Quiet /\ UNCHANGED pipelineVars

PipelineSpec == PipelineInit /\ [][PipelineNext]_pipelineVars

-----------------------------------------------------------------------------
AllCollected(s) ==
    /\ \A i \in pending : i.seq # s
    /\ \A w \in Workers : input[w].seq # s
    /\ {ToChunk(b) : b \in EmittedOf(s)} \subseteq counted

CompletedNumbers == {completed[k].seq : k \in 1..Len(completed)}

(* A sequence number that the collector returns has no chunk left in the    *)
(* first pipeline, on the way, or in the hands of another collector: the    *)
(* watermark it stands for holds for all of its records.                    *)
CompleteMeansAll == \A s \in CompletedNumbers : AllCollected(s)

(* No two workers held chunks of one number of the node of s.               *)
Undisturbed(s) == \A r \in overlapped : C!NodeOf(r) # C!NodeOf(s)

(* "We decrease the counter for every non-last chunk.  Once we receive the  *)
(* last chunk, we increase the chunk counter by the current chunk number    *)
(* (which will be the maximum chunk number for this sequence)"              *)
(* (ChunkCollector.hpp:118-120): the numbering of the first pipeline is     *)
(* what the collector counts on, as long as no two workers were in the      *)
(* first pipeline with chunks of the same sequence number, or of another    *)
(* number of its node: the number is returned with its last chunk, never    *)
(* before and never not at all.                                             *)
CollectedWhole ==
    \A s \in SequenceNumbers : Undisturbed(s) =>
        /\ s \in CompletedNumbers => AllCollected(s)
        /\ Quiet => s \in CompletedNumbers

=============================================================================
