---------------------------- MODULE LogicalPlans ----------------------------
(***************************************************************************)
(* Logical operators (nes-logical-operators/src/Operators): what schema    *)
(* inference, the assignment of origin ids and the wire do to each kind.   *)
(* A node has its kind, its id, its children, and                          *)
(*   fns, aggs, win   functions, aggregations and window of its            *)
(*                    configuration                                        *)
(*   name             of a source or a sink                                *)
(*   ins, out         input schemas and output schema                      *)
(*   inO, outO        the origin ids of each input, and of the output      *)
(***************************************************************************)
EXTENDS LogicalFunctions

NoWindow == [time |-> "none", field |-> <<>>, size |-> 0, slide |-> 0]

Operator(op, id, fns) ==
  [op |-> op, id |-> id, kids |-> <<>>, fns |-> fns, aggs |-> <<>>, win |-> NoWindow, name |-> <<>>,
   ins |-> <<>>, out |-> <<>>, inO |-> <<>>, outO |-> <<>>]

Fail(how) == Operator(how, <<>>, <<>>)
Failed(o) == o.op \in {Terminated, Rejected}
AnyFailed(ops) == \E i \in DOMAIN ops : Failed(ops[i])
FirstFailed(ops) == SelectSeq(ops, Failed)[1]

(* Go on with what was made, or fail as its making did.                     *)
IfInferred(fn, Then(_)) == IF IsFailure(fn) THEN Fail(fn.fn) ELSE Then(fn)
IfAllInferred(fns, Then(_)) == IF AnyFailure(fns) THEN Fail(FirstFailure(fns).fn) ELSE Then(fns)
IfMade(o, Then(_)) == IF Failed(o) THEN o ELSE Then(o)
IfAllMade(ops, Then(_)) == IF AnyFailed(ops) THEN FirstFailed(ops) ELSE Then(ops)
IfAggregated(aggs, Then(_)) ==
  IF \E i \in DOMAIN aggs : AggregateFailed(aggs[i]) THEN Fail(SelectSeq(aggs, AggregateFailed)[1].fn) ELSE Then(aggs)

(* Operators with the OriginIdAssignerTrait.                                *)
OriginIdAssigner(o) == o.op \in {"SourceDescriptor", "WindowedAggregation", "Join"}

AllEqual(seq) == \A i \in DOMAIN seq : seq[i] = seq[1]

----------------------------------------------------------------------------
(* Windows: the time field is looked up by name and must be an integer.     *)
InferWindow(win, schema) ==
  LET field == getFieldByName(schema, win.field)
  IN  IF win.time # "event" THEN win
      ELSE IF field = NoField \/ ~ isInteger(field.type) THEN [win EXCEPT !.time = Rejected]
      ELSE [win EXCEPT !.field = field.name]

(* withInferredSchema, by kind.  ins are the output schemas of the inputs.  *)
InferSelection(o, ins) ==
  LET selection(predicate) ==
        IF predicate.type # "BOOLEAN" THEN Fail(Rejected)
        ELSE [o EXCEPT !.fns = <<predicate>>, !.ins = <<ins[1]>>, !.out = ins[1]]
  IN  IF ~ AllEqual(ins) THEN Fail(Rejected)
      ELSE IfInferred(withInferredDataType(o.fns[1], ins[1]), selection)

InferMap(o, ins) ==
  LET nameOf(assign) == assign.kids[1].val
      out(assign) ==
        IF contains(ins[1], nameOf(assign)) THEN replaceTypeOfField(ins[1], nameOf(assign), assign.type)
        ELSE addField(ins[1], nameOf(assign), assign.type)
      map(assign) ==
        IF getFieldByName(ins[1], nameOf(assign)) # NoField /\ ~ contains(ins[1], nameOf(assign)) THEN Fail(Rejected)
        ELSE [o EXCEPT !.fns = <<assign>>, !.ins = <<ins[1]>>, !.out = out(assign)]
  IN  IF Len(ins) # 1 THEN Fail(Terminated)
      ELSE IfInferred(withInferredDataType(o.fns[1], ins[1]), map)

InferProjection(o, ins) ==
  LET fieldOf(fn) == IF fn.fn = "FieldAssignment" THEN fn.kids[1] ELSE fn
      projection(fns) ==
        [o EXCEPT !.fns = fns, !.ins = <<ins[1]>>,
                  !.out = [i \in DOMAIN fns |-> Field(fieldOf(fns[i]).val, fieldOf(fns[i]).type)]]
  IN  IF ~ AllEqual(ins) THEN Fail(Rejected)
      ELSE IfAllInferred(Each(LAMBDA fn : withInferredDataType(fn, ins[1]), o.fns), projection)

(* The two children's input schemas are remembered as left and right, the   *)
(* left one's output becomes the output; the comparison that should reject  *)
(* a mismatch looks up the left fields in the left schema.  There are two   *)
(* inputs (the code reads the second one unchecked) of one memory layout.   *)
InferUnion(o, ins) ==
  LET seen == [i \in DOMAIN o.kids |-> o.kids[i].ins[1]]
      other == IF AllEqual(seen) THEN seen[1] ELSE SelectSeq(seen, LAMBDA s : s # seen[1])[1]
  IN  IF \A i \in DOMAIN ins[1] : ~ contains(ins[1], ins[1][i].name) THEN Fail(Rejected)
      ELSE [o EXCEPT !.ins = <<seen[1], other>>, !.out = ins[1]]

(* Mutant: the input schema of an earlier inference is kept.                *)
InferWithOldInput(o, ins) ==
  IfAllInferred(Each(LAMBDA fn : withInferredDataType(fn, ins[1]), o.fns),
                LAMBDA fns : [o EXCEPT !.fns = fns, !.out = ins[1]])

InferWatermarkAssigner(o, ins) ==
  IF Len(ins) # 1 THEN Fail(Terminated)
  ELSE IfAllInferred(Each(LAMBDA fn : withInferredDataType(fn, ins[1]), o.fns),
                     LAMBDA fns : [o EXCEPT !.fns = fns, !.ins = <<ins[1]>>, !.out = ins[1]])

InferWindowedAggregation(o, ins) ==
  LET asField(fn) == Field(fn.val, fn.type)
      bounds == <<Field(Qualifier(ins[1]) \o <<"start">>, "UINT64"), Field(Qualifier(ins[1]) \o <<"end">>, "UINT64")>>
      aggregation(aggs, win, keys) ==
        [o EXCEPT !.fns = keys, !.aggs = aggs, !.win = win, !.ins = <<ins[1]>>,
                  !.out = bounds \o [i \in DOMAIN keys |-> asField(keys[i])]
                          \o [i \in DOMAIN aggs |-> asField(aggs[i].as)]]
      withWindow(aggs, win) ==
        IF win.time = Rejected THEN Fail(Rejected)
        ELSE IfAllInferred(Each(LAMBDA key : InferFieldAccess(key, ins[1]), o.fns), LAMBDA keys : aggregation(aggs, win, keys))
  IN  IF ~ AllEqual(ins) THEN Fail(Rejected)
      ELSE IfAggregated(Each(LAMBDA agg : inferStamp(agg, ins[1]), o.aggs),
                        LAMBDA aggs : withWindow(aggs, InferWindow(o.win, ins[1])))

InferJoin(o, ins) ==
  LET both == appendFieldsFromOtherSchema(ins[1], ins[2])
      prefix == getSourceNameQualifier(ins[1]) \o getSourceNameQualifier(ins[2]) \o <<"$">>
      joined(fn, win) ==
        IF win.time = Rejected THEN Fail(Rejected)
        ELSE [o EXCEPT !.fns = <<fn>>, !.win = win, !.ins = ins,
                       !.out = <<Field(prefix \o <<"start">>, "UINT64"), Field(prefix \o <<"end">>, "UINT64")>> \o both]
  IN  IfInferred(withInferredDataType(o.fns[1], both), LAMBDA fn : joined(fn, InferWindow(o.win, both)))

(* Sink, Sequence: the common input schema is the output schema.            *)
InferPassThrough(o, ins) ==
  IF AllEqual(ins) THEN [o EXCEPT !.ins = <<ins[1]>>, !.out = ins[1]] ELSE Fail(Rejected)

withInferredSchema(o, ins) ==
  CASE o.op = "Selection"           -> InferSelection(o, ins)
    [] o.op = "Map"                 -> InferMap(o, ins)
    [] o.op = "Projection"          -> InferProjection(o, ins)
    [] o.op = "Union"               -> InferUnion(o, ins)
    [] o.op \in {"EventTimeWatermarkAssigner", "IngestionTimeWatermarkAssigner"} -> InferWatermarkAssigner(o, ins)
    [] o.op = "WindowedAggregation" -> InferWindowedAggregation(o, ins)
    [] o.op = "Join"                -> InferJoin(o, ins)
    [] o.op \in {"Sink", "Sequence"} -> InferPassThrough(o, ins)

----------------------------------------------------------------------------
(* Mutant: the precondition of a projection stands in every operator.       *)
OneInputAsserted(o) == {1}

(* withInputOriginIds: how many lists a kind asserts; the others take the   *)
(* first of them.                                                           *)
InputsAsserted(o) ==
  CASE o.op \in {"Join", "Union"} -> {2}
    [] o.op \in {"Map", "Projection", "WindowedAggregation", "EventTimeWatermarkAssigner",
                 "IngestionTimeWatermarkAssigner"} -> {1}
    [] OTHER -> 1 .. 2

withInputOriginIds(o, lists) ==
  IF Len(lists) \notin InputsAsserted(o) THEN Fail(Terminated)
  ELSE [o EXCEPT !.inO = IF o.op \in {"Join", "Union"} THEN lists ELSE <<lists[1]>>]

withOutputOriginIds(o, ids) ==
  IF o.op = "WindowedAggregation" /\ Len(ids) # 1 THEN Fail(Terminated) ELSE [o EXCEPT !.outO = ids]

-----------------------------------------------------------------------------
(***************************************************************************)
(* Logical plans (nes-logical-operators/src/Plans): a plan is the sequence *)
(* of its root operators.  LogicalPlanBuilder puts operators on top,       *)
(* LogicalPlan.cpp rewrites inside the tree by operator id.                *)
(***************************************************************************)
(* BFSRange: level by level, children in order.                             *)
RECURSIVE BFSRange(_)
BFSRange(level) ==
  IF level = <<>> THEN <<>>
  ELSE level \o BFSRange(FlattenSeq([i \in DOMAIN level |-> level[i].kids]))

getOperatorByType(plan, op) == SelectSeq(BFSRange(plan), LAMBDA o : o.op = op)
getOperatorsByTraits(plan) == SelectSeq(BFSRange(plan), OriginIdAssigner)
getParents(plan, target) ==
  SelectSeq(BFSRange(plan), LAMBDA o : \E i \in DOMAIN o.kids : o.kids[i].id = target.id)

promoteOperatorToRoot(plan, o) == <<[o EXCEPT !.kids = plan]>>

(* replaceOperator keeps the children that are in the plan now, and         *)
(* replaceSubtree brings its own.                                           *)
RECURSIVE replaceSubtree(_, _, _)
replaceSubtree(plan, target, replacement) ==
  [i \in DOMAIN plan |->
     IF plan[i].id = target.id THEN replacement
     ELSE [plan[i] EXCEPT !.kids = replaceSubtree(plan[i].kids, target, replacement)]]

RECURSIVE replaceOperator(_, _, _)
replaceOperator(plan, target, replacement) ==
  [i \in DOMAIN plan |->
     IF plan[i].id = target.id THEN [replacement EXCEPT !.kids = plan[i].kids]
     ELSE [plan[i] EXCEPT !.kids = replaceOperator(plan[i].kids, target, replacement)]]

----------------------------------------------------------------------------
(* LogicalPlanBuilder.  The caller gives the id of the new operator; an     *)
(* operator that comes with it gets that id and a digit of its own.         *)
createLogicalPlan(source, id) == <<[Operator("SourceName", id, <<>>) EXCEPT !.name = source]>>
addProjection(functions, plan, id) == promoteOperatorToRoot(plan, Operator("Projection", id, functions))
addSelection(predicate, plan, id) == promoteOperatorToRoot(plan, Operator("Selection", id, <<predicate>>))
addMap(assignment, plan, id) == promoteOperatorToRoot(plan, Operator("Map", id, <<assignment>>))
addSink(sink, plan, id) == promoteOperatorToRoot(plan, [Operator("Sink", id, <<>>) EXCEPT !.name = sink])

WatermarkAssigner(win, id) ==
  IF win.time = "ingestion" THEN Operator("IngestionTimeWatermarkAssigner", id, <<>>)
  ELSE Operator("EventTimeWatermarkAssigner", id, <<FieldAccess(win.field)>>)

(* No window (a null windowType) is NotImplemented.                         *)
addWindowAggregation(plan, win, aggs, keys, id) ==
  IF win = NoWindow THEN <<Fail(Rejected)>>
  ELSE promoteOperatorToRoot(promoteOperatorToRoot(plan, WatermarkAssigner(win, Append(id, 5))),
                             [Operator("WindowedAggregation", id, keys) EXCEPT !.aggs = aggs, !.win = win])

checkAndAddWatermarkAssigner(plan, win, id) ==
  IF getOperatorByType(plan, "IngestionTimeWatermarkAssigner") # <<>>
     \/ getOperatorByType(plan, "EventTimeWatermarkAssigner") # <<>>
  THEN plan ELSE promoteOperatorToRoot(plan, WatermarkAssigner(win, id))

addBinaryOperatorAndUpdateSource(o, left, right) == promoteOperatorToRoot(Append(left, right[1]), o)
addUnion(left, right, id) == addBinaryOperatorAndUpdateSource(Operator("Union", id, <<>>), left, right)
(* The loop over the join function is left out: it looks below a left       *)
(* operand with one operand, for the second operand that is not there.  No  *)
(* join is written with one.                                                *)
addJoin(left, right, function, win, id) ==
  addBinaryOperatorAndUpdateSource(
    [Operator("Join", id, <<function>>) EXCEPT !.win = win],
    checkAndAddWatermarkAssigner(left, win, Append(id, 5)),
    checkAndAddWatermarkAssigner(right, win, Append(id, 6)))
=============================================================================
