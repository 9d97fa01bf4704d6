----------------------------- MODULE Pipelining -----------------------------
(***************************************************************************)
(* nes-query-compiler: PipeliningPhase cuts the physical plan, a sequence  *)
(* of wrappers that each name the one they feed, into pipelines;           *)
(* LowerToCompiledQueryPlanPhase makes them executable.                    *)
(* A pipeline is its chain of operators and its successors.  The phase     *)
(* works on [pipelines, pipelineMap]: pipelines in the order of their ids, *)
(* and the pipeline each registered operator is in.                        *)
(***************************************************************************)
EXTENDS PhysicalLowering

Stage(op, id, layout) == [op |-> op, id |-> id, layout |-> layout]
StageOf(w) == Stage(w.op, w.id, w.layout)

Pipeline(ops) == [ops |-> ops, successors |-> <<>>]

appendOperator(s, p, op) == [s EXCEPT !.pipelines[p].ops = Append(@, op)]
addSuccessor(s, p, q) == [s EXCEPT !.pipelines[p].successors = Append(@, q)]
InPipeline(s, w, p) == [s EXCEPT !.pipelineMap = (w.id :> p) @@ @]

(* A new pipeline behind p, registered for w; it is the last one.           *)
NewPipeline(s, p, w, ops) ==
  LET q == Len(s.pipelines) + 1
  IN  InPipeline(addSuccessor([s EXCEPT !.pipelines = Append(@, Pipeline(ops))], p, q), w, q)

addDefaultScan(w) == <<Stage("Scan", w.id, w.in), StageOf(w)>>
addDefaultEmit(s, p, w) == appendOperator(s, p, Stage("Emit", w.id, w.out))
createNewPiplineWithScan(s, p, w) == NewPipeline(s, p, w, addDefaultScan(w))

NoWrapper == <<>>      \* the null prevOpWrapper below a source
IsEmit(prev) == prev # NoWrapper /\ prev[1].at = "EMIT"
NeedsEmit(prev) == prev # NoWrapper /\ ~ IsEmit(prev)
(* Mutant: the pipeline before is left without an emit.                     *)
EmitNever(s, p, prev) == s
EmitBefore(s, p, prev) == IF NeedsEmit(prev) THEN addDefaultEmit(s, p, prev[1]) ELSE s
NextOf(nodes, w) == SelectSeq(nodes, LAMBDA v : <<v.id>> = w.next)

(* The cases of buildPipelineRecursively.  After a tree was turned around   *)
(* every wrapper but the sink has exactly one child.  A custom emit is never *)
(* the first operator after a source: there the code reads a previous        *)
(* wrapper that is not there.                                                *)
RECURSIVE buildPipelineRecursively(_, _, _, _, _, _)
buildPipelineRecursively(nodes, s, w, prev, p, policy) ==
  LET onto(t, q, how) ==
        FoldLeft(LAMBDA u, child : buildPipelineRecursively(nodes, u, child, <<w>>, q, how), t, NextOf(nodes, w))
      new(t) == Len(t.pipelines)
      customScan == NewPipeline(EmitBefore(s, p, prev), p, w, <<StageOf(w)>>)
      secondEmit == createNewPiplineWithScan(s, p, w)
      customEmit == InPipeline(appendOperator(s, p, StageOf(w)), w, p)
      sink == NewPipeline(EmitBefore(s, p, prev), p, w, <<StageOf(w)>>)
      forced == NewPipeline(IF NeedsEmit(prev) THEN addDefaultEmit(s, p, w) ELSE s, p, w, addDefaultScan(w))
      fused == IF IsEmit(prev) THEN createNewPiplineWithScan(s, p, w) ELSE appendOperator(s, p, StageOf(w))
  IN  IF w.id \in DOMAIN s.pipelineMap THEN addSuccessor(s, p, s.pipelineMap[w.id])
      ELSE IF w.at = "SCAN" THEN onto(customScan, new(customScan), "Continue")
      ELSE IF w.at = "EMIT" /\ IsEmit(prev) THEN onto(secondEmit, new(secondEmit), "ForceNew")
      ELSE IF w.at = "EMIT" THEN onto(customEmit, p, "ForceNew")
      ELSE IF w.op = "Sink" THEN onto(sink, new(sink), "Continue")
      ELSE IF policy = "ForceNew" THEN onto(forced, new(forced), "Continue")
      ELSE IF w.next = <<>> THEN addDefaultEmit(fused, p, w)
      ELSE onto(fused, p, "Continue")

(* PipeliningPhase::apply: one pipeline for every source.                   *)
PipeliningPhase(nodes) ==
  LET started(s, root) ==
        InPipeline([s EXCEPT !.pipelines = Append(@, Pipeline(<<StageOf(root)>>))], root, Len(s.pipelines) + 1)
      pipelined(s, root) ==
        FoldLeft(LAMBDA t, child : buildPipelineRecursively(nodes, t, child, NoWrapper, Len(s.pipelines) + 1, "ForceNew"),
                 started(s, root), NextOf(nodes, root))
  IN  FoldLeft(pipelined, [pipelines |-> <<>>, pipelineMap |-> <<>>], newRoots(nodes)).pipelines

----------------------------------------------------------------------------
isSourcePipeline(pipeline) == pipeline.ops[1].op = "SourceDescriptor"
isSinkPipeline(pipeline) == pipeline.ops[1].op = "Sink"
isOperatorPipeline(pipeline) == ~ isSourcePipeline(pipeline) /\ ~ isSinkPipeline(pipeline)

(***************************************************************************)
(* LowerToCompiledQueryPlanPhase.  A source that is not raw gets a         *)
(* formatter, under the id of its pipeline (raw: the ids of those that     *)
(* are).  The context holds the stages                                     *)
(* made so far with their executable successors, the predecessors of the   *)
(* sinks, and the sources.  A predecessor is <<"origin", p>> or            *)
(* <<"stage", p>>.                                                         *)
(***************************************************************************)
NoContext == [stages |-> <<>>, sinks |-> <<>>, sources |-> <<>>]

(* Mutant: the last predecessor replaces the others.                        *)
processSinkOnce(c, predecessor, p) == [c EXCEPT !.sinks = (p :> <<predecessor>>) @@ @]

processSink(c, predecessor, p) ==
  [c EXCEPT !.sinks = IF p \in DOMAIN @ THEN [@ EXCEPT ![p] = Append(@, predecessor)] ELSE (p :> <<predecessor>>) @@ @]

ExecutableSuccessors(pipelines, p) ==
  SelectSeq(pipelines[p].successors, LAMBDA q : ~ isSinkPipeline(pipelines[q]))
StageMade(c, pipelines, p) == [c EXCEPT !.stages = (p :> ExecutableSuccessors(pipelines, p)) @@ @]

RECURSIVE processOperatorPipeline(_, _, _)
processSuccessors(c, pipelines, p, predecessor) ==
  FoldLeft(LAMBDA d, q : IF isSinkPipeline(pipelines[q]) THEN processSink(d, predecessor, q)
                         ELSE processOperatorPipeline(d, pipelines, q),
           c, pipelines[p].successors)

processOperatorPipeline(c, pipelines, p) ==
  IF p \in DOMAIN c.stages THEN c
  ELSE StageMade(processSuccessors(c, pipelines, p, <<"stage", p>>), pipelines, p)

injectFormatter(c, pipelines, p, raw) ==
  IF pipelines[p].ops[1].id \in raw
  THEN [processSuccessors(c, pipelines, p, <<"origin", p>>) EXCEPT
                 !.sources = (p :> ExecutableSuccessors(pipelines, p)) @@ @]
  ELSE [StageMade(processSuccessors(c, pipelines, p, <<"stage", p>>), pipelines, p) EXCEPT
          !.sources = (p :> <<p>>) @@ @]

LowerToCompiledQueryPlanPhase(pipelines, raw) ==
  FoldLeft(LAMBDA c, p : IF isSourcePipeline(pipelines[p]) THEN injectFormatter(c, pipelines, p, raw) ELSE c,
           NoContext, [p \in DOMAIN pipelines |-> p])
==============================================================================
