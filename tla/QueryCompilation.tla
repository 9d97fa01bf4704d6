-------------------------- MODULE QueryCompilation --------------------------
(***************************************************************************)
(* The life of a query from its text to executable pipelines: the listener *)
(* reads it, nebuli's LegacyOptimizer plans it, the plan crosses the wire, *)
(* and the worker lowers it, cuts it into pipelines and compiles them      *)
(* (NebuLI.cpp, GRPCClient, SingleNodeWorker::registerQuery).  Every phase *)
(* is a step, so that a phase that cannot go on is seen where it stops.    *)
(***************************************************************************)
EXTENDS SqlListener, LegacyOptimizer, PlanSerialization, Pipelining

CONSTANTS
  Queries,     \* the written queries
  Malformed    \* written queries that are wrong: an unknown name, a wrong type, a missing clause

VARIABLES
  written,     \* the query as it was written
  stage,       \* the phase that is next, "compiled", or how it failed
  plan,        \* the logical plan
  message,     \* the SerializableQueryPlan
  sent,        \* the plan the client serialized
  physical,    \* the wrappers of the physical plan, turned around
  pipelines,
  compiled     \* the CompiledQueryPlan

planVars == <<written, stage, plan, message, sent, physical, pipelines, compiled>>
vars == <<listenerVars, planVars>>

WorkerFailed == "worker failed"

Init ==
  /\ written \in Queries \cup Malformed
  /\ ListenerInit(written)
  /\ stage = "SqlListener"
  /\ plan = <<>> /\ message = <<>> /\ sent = <<>>
  /\ physical = <<>> /\ pipelines = <<>> /\ compiled = NoContext

Parse ==
  /\ stage = "SqlListener" /\ Listen
  /\ stage' = IF parse' = "parsed" THEN "SourceInference" ELSE IF parse' = "parsing" THEN stage ELSE parse'
  /\ plan' = IF parse' = "parsed" THEN queryPlans'[1] ELSE plan
  /\ UNCHANGED <<written, message, sent, physical, pipelines, compiled>>

(* A phase of the client: from stage to next, with this plan as its result. *)
Phase(from, next, result) ==
  /\ stage = from
  /\ plan' = result
  /\ stage' = IF Planned(plan') THEN next ELSE FirstFailed(plan').op
  /\ UNCHANGED <<listenerVars, written, message, sent, physical, pipelines, compiled>>

InferSources   == Phase("SourceInference", "LogicalSourceExpansion", SourceInferencePhase(plan))
ExpandSources  == Phase("LogicalSourceExpansion", "SequentialAggregation", LogicalSourceExpansionRule(plan))
SequenceInputs == Phase("SequentialAggregation", "TypeInference", SequentialAggregationRule(plan))
InferOriginIds == Phase("OriginIdInference", "TypeInference again", OriginIdInferencePhase(plan))
(* optimize infers the types before and after the origin ids.               *)
InferTypes ==
  \E run \in {<<"TypeInference", "OriginIdInference">>, <<"TypeInference again", "registerQuery">>} :
    Phase(run[1], run[2], TypeInferencePhase(plan))

(* The client sends the plan.                                               *)
SendQuery ==
  /\ stage = "registerQuery"
  /\ message' = serializeQueryPlan(plan) /\ sent' = plan
  /\ stage' = "RegisterQuery"
  /\ UNCHANGED <<listenerVars, written, plan, physical, pipelines, compiled>>

(* The worker reads it.                                                     *)
ReceiveQuery ==
  /\ stage = "RegisterQuery"
  /\ plan' = deserializeQueryPlan(message)
  /\ stage' = IF Planned(plan') THEN "LowerToPhysicalOperators" ELSE WorkerFailed
  /\ UNCHANGED <<listenerVars, written, message, sent, physical, pipelines, compiled>>

LowerToPhysicalOperators ==
  /\ stage = "LowerToPhysicalOperators"
  /\ physical' = flip(lowerOperatorRecursively(plan[1]))
  /\ stage' = IF LoweringFailed(physical'[1]) \/ ~ FlipSucceeds(physical') THEN WorkerFailed ELSE "PipeliningPhase"
  /\ UNCHANGED <<listenerVars, written, plan, message, sent, pipelines, compiled>>

CutIntoPipelines ==
  /\ stage = "PipeliningPhase"
  /\ pipelines' = PipeliningPhase(physical)
  /\ stage' = "LowerToCompiledQueryPlanPhase"
  /\ UNCHANGED <<listenerVars, written, plan, message, sent, physical, compiled>>

RawSources(p) ==
  LET sources == getOperatorByType(p, "SourceDescriptor")
  IN  {sources[i].id : i \in {j \in DOMAIN sources : Catalog[sources[j].name].raw}}

CompilePipelines ==
  /\ stage = "LowerToCompiledQueryPlanPhase"
  /\ compiled' = LowerToCompiledQueryPlanPhase(pipelines, RawSources(plan))
  /\ stage' = "compiled"
  /\ UNCHANGED <<listenerVars, written, plan, message, sent, physical, pipelines>>

(* The plan is compiled and waits to be started, or the client reported the *)
(* error; any other end is a deadlock of the model.                         *)
Done == stage \in {"compiled", Rejected} /\ UNCHANGED vars

Next ==
  \/ Parse \/ InferSources \/ ExpandSources \/ SequenceInputs \/ InferTypes \/ InferOriginIds
  \/ SendQuery \/ ReceiveQuery \/ LowerToPhysicalOperators \/ CutIntoPipelines
  \/ CompilePipelines \/ Done

Spec == Init /\ [][Next]_vars

----------------------------------------------------------------------------
(* Helpers of the properties.                                               *)
SetOf(seq) == {seq[i] : i \in DOMAIN seq}

RECURSIVE FieldAccesses(_)
FieldAccesses(fn) ==
  IF fn.fn = "FieldAccess" THEN {Field(fn.val, fn.type)}
  ELSE IF fn.fn = "FieldAssignment" THEN FieldAccesses(fn.kids[2])
  ELSE UNION {FieldAccesses(fn.kids[i]) : i \in DOMAIN fn.kids}

(* The origin ids whose buffers reach an operator through these children.   *)
RECURSIVE Arriving(_)
Arriving(kids) ==
  UNION {IF OriginIdAssigner(kids[i]) THEN SetOf(kids[i].outO) ELSE Arriving(kids[i].kids) : i \in DOMAIN kids}

(* Two plans the code's own operator== on functions cannot tell apart.      *)
RECURSIVE SamePlan(_, _)
SamePlan(a, b) ==
  /\ a.op = b.op /\ a.id = b.id /\ a.win = b.win /\ a.name = b.name
  /\ a.ins = b.ins /\ a.out = b.out
  /\ a.op # "Sink" => a.inO = b.inO /\ a.outO = b.outO
  /\ DOMAIN a.fns = DOMAIN b.fns /\ \A i \in DOMAIN a.fns : equals(a.fns[i], b.fns[i])
  /\ DOMAIN a.aggs = DOMAIN b.aggs /\ \A i \in DOMAIN a.aggs : AggregateEquals(a.aggs[i], b.aggs[i])
  /\ DOMAIN a.kids = DOMAIN b.kids /\ \A i \in DOMAIN a.kids : SamePlan(a.kids[i], b.kids[i])

WrapperOf(id) == SelectSeq(physical, LAMBDA w : w.id = id)[1]

(* What a pipeline leaves in its output buffers, and how it reads its input.*)
Writes(pipeline) == IF isSourcePipeline(pipeline) THEN WrapperOf(pipeline.ops[1].id).out ELSE Last(pipeline.ops).layout
Reads(pipeline)  == IF isSinkPipeline(pipeline) THEN WrapperOf(pipeline.ops[1].id).in ELSE pipeline.ops[1].layout

(* A union names the fields of both sides after the left one.               *)
FieldTypes(layout) == [i \in DOMAIN layout |-> layout[i].type]
FitsLayout(wrote, reads) ==
  wrote = reads \/ (getOperatorByType(plan, "Union") # <<>> /\ FieldTypes(wrote) = FieldTypes(reads))

RECURSIVE Fed(_)
Fed(w) == <<w.id>> \o (IF w.next = <<>> THEN <<>> ELSE Fed(WrapperOf(w.next[1])))

(* The operators a tuple meets from a pipeline on, by any way to the sink.  *)
RECURSIVE Met(_)
Met(p) ==
  LET own == SelectSeq(pipelines[p].ops, LAMBDA op : op.op \notin {"Scan", "Emit"})
      ids == [i \in DOMAIN own |-> own[i].id]
  IN  IF pipelines[p].successors = <<>> THEN {ids}
      ELSE UNION {{ids \o rest : rest \in Met(q)} : q \in SetOf(pipelines[p].successors)}

----------------------------------------------------------------------------
(* The handlers of the listener share builders, flags and counters between  *)
(* clauses, items and nested queries; whatever they left there, the plan    *)
(* they build is the one the text of the query says.                        *)
ParsedAsWritten ==
  stage = "SourceInference" => WithoutIds(plan[1].kids) = WithoutIds(QueryMeaning(written))

(* What a worker reads from the message is the plan the client serialized,  *)
(* up to the equality of the functions: schemas, origin ids, windows, keys  *)
(* and aggregations survive the registrars' second inference.               *)
WireKeepsPlan ==
  stage = "LowerToPhysicalOperators" => SamePlan(sent[1], plan[1])

(* After planning, every operator's input schemas are what its children     *)
(* produce, and every field its functions read is, with its full name and   *)
(* its type, a field of its input: replacing operators in the tree, and     *)
(* inferring twice, left no stale schema behind.                            *)
SchemasFlow ==
  stage = "registerQuery" =>
    \A o \in SetOf(BFSRange(plan)) :
      /\ o.op \notin {"SourceDescriptor", "Union"} => SetOf(o.ins) = {o.kids[i].out : i \in DOMAIN o.kids}
      /\ \A i \in DOMAIN o.fns : \A field \in FieldAccesses(o.fns[i]) : \E j \in DOMAIN o.ins : field \in SetOf(o.ins[j])

(* A windowed operator is created with the origin ids of all buffers that   *)
(* reach it (its watermark waits for exactly those), and no two origins     *)
(* share an id.                                                             *)
OriginsKnown ==
  stage = "LowerToPhysicalOperators" =>
    LET assigners == getOperatorsByTraits(plan)
    IN  /\ \A i, j \in DOMAIN assigners : i # j => SetOf(assigners[i].outO) \cap SetOf(assigners[j].outO) = {}
        /\ \A i \in DOMAIN assigners :
             assigners[i].op # "SourceDescriptor" =>
               UNION {SetOf(assigners[i].inO[k]) : k \in DOMAIN assigners[i].inO} = Arriving(assigners[i].kids)

(* A tuple of every source meets the operators of the plan in the plan's    *)
(* order, through whatever pipelines it goes.                               *)
TuplesMeetPlan ==
  \A p \in DOMAIN pipelines :
    isSourcePipeline(pipelines[p]) => Met(p) = {Fed(WrapperOf(pipelines[p].ops[1].id))}

(* Where a tuple changes from one pipeline to the next, the first wrote a   *)
(* buffer (it ends in an emit, or a build that fills slices) and the second *)
(* reads it with the same layout.                                           *)
BuffersFit ==
  \A p \in DOMAIN pipelines : \A q \in SetOf(pipelines[p].successors) :
    Writes(pipelines[p]) # NoLayout /\ FitsLayout(Writes(pipelines[p]), Reads(pipelines[q]))

(* An aggregation that depends on the order of its input is filled in the   *)
(* pipeline that the Sequence operator starts: no hand-over to another task *)
(* comes between the place where buffers are put in order and the build.    *)
OrderedInputsSequenced ==
  \A o \in SetOf(BFSRange(plan)) : RequiresSequence(o) =>
    \A p \in DOMAIN pipelines :
      (\E i \in DOMAIN pipelines[p].ops : pipelines[p].ops[i].id = Append(o.id, 2))
        => pipelines[p].ops[1].op = "Sequence"

(* The compiled plan is the pipeline graph: a stage for each pipeline (the  *)
(* formatter of a source under the source's id), each successor wired, and  *)
(* a sink has each pipeline that feeds it as predecessor exactly once.      *)
StagesComplete ==
  LET operators == {p \in DOMAIN pipelines : isOperatorPipeline(pipelines[p])}
      formatted == {p \in DOMAIN pipelines : isSourcePipeline(pipelines[p]) /\ pipelines[p].ops[1].id \notin RawSources(plan)}
      feeding(q) == {p \in DOMAIN pipelines : q \in SetOf(pipelines[p].successors)}
  IN  /\ DOMAIN compiled.stages = operators \cup formatted
      /\ \A p \in DOMAIN compiled.stages :
           SetOf(compiled.stages[p]) = {q \in SetOf(pipelines[p].successors) : isOperatorPipeline(pipelines[q])}
      /\ DOMAIN compiled.sinks = {q \in DOMAIN pipelines : isSinkPipeline(pipelines[q])}
      /\ \A q \in DOMAIN compiled.sinks :
           /\ {compiled.sinks[q][i][2] : i \in DOMAIN compiled.sinks[q]} = feeding(q)
           /\ Len(compiled.sinks[q]) = Cardinality(feeding(q))

(* What the worker runs computes what the plan says.                        *)
PipelinesImplementPlan ==
  stage = "compiled" => TuplesMeetPlan /\ BuffersFit /\ OrderedInputsSequenced /\ StagesComplete

(* A query is compiled unless it is wrong, and a wrong one is refused by the*)
(* client before anything is sent: no assertion ends the client or the      *)
(* worker, and no phase of the worker refuses what the client accepted.     *)
(* (Only these two ends are at rest, so every query reaches one of them.)   *)
QueriesAnswered ==
  /\ stage \in {"compiled", Rejected} => (stage = Rejected <=> written \in Malformed)
  /\ stage \notin {Terminated, WorkerFailed}
==============================================================================
