-------------------------- MODULE PhysicalLowering --------------------------
(***************************************************************************)
(* From the logical to the physical plan on the worker: FunctionProvider   *)
(* (nes-physical-operators) lowers expressions, the rules of               *)
(* nes-query-optimizer/src/RewriteRules/LowerToPhysical lower operators,   *)
(* PhysicalPlanBuilder turns the tree from the sink to the sources around. *)
(* A PhysicalOperatorWrapper has the name and id of its operator, where in *)
(* a pipeline it must stand, its schemas, the layout a scan reads or an    *)
(* emit writes, and its children.                                          *)
(***************************************************************************)
EXTENDS LogicalPlans, MeosPhysicalFunctions

PhysicalFunction(key, arity) == [key |-> key, arity |-> arity]

AddPhysicalFunction           == PhysicalFunction("Add", 2)
SubPhysicalFunction           == PhysicalFunction("Sub", 2)
MulPhysicalFunction           == PhysicalFunction("Mul", 2)
DivPhysicalFunction           == PhysicalFunction("Div", 2)
ModPhysicalFunction           == PhysicalFunction("Mod", 2)
ConcatPhysicalFunction        == PhysicalFunction("Concat", 2)
EqualsPhysicalFunction        == PhysicalFunction("Equals", 2)
GreaterPhysicalFunction       == PhysicalFunction("Greater", 2)
GreaterEqualsPhysicalFunction == PhysicalFunction("GreaterEquals", 2)
LessPhysicalFunction          == PhysicalFunction("Less", 2)
LessEqualsPhysicalFunction    == PhysicalFunction("LessEquals", 2)
AndPhysicalFunction           == PhysicalFunction("And", 2)
OrPhysicalFunction            == PhysicalFunction("Or", 2)
NegatePhysicalFunction        == PhysicalFunction("Negate", 1)

(* PhysicalFunctionRegistry: the numbers of arguments a registrar asserts.  *)
PhysicalFunctionRegistry ==
  {AddPhysicalFunction, SubPhysicalFunction, MulPhysicalFunction, DivPhysicalFunction, ModPhysicalFunction,
   ConcatPhysicalFunction, EqualsPhysicalFunction, GreaterPhysicalFunction, GreaterEqualsPhysicalFunction,
   LessPhysicalFunction, LessEqualsPhysicalFunction, AndPhysicalFunction, OrPhysicalFunction,
   NegatePhysicalFunction}
  \cup {PhysicalFunction(call.key, Len(call.casts)) : call \in MeosCalls}
CONSTANT PhysicalFunctions      \* what the build registers
PhysicalArities(name) == {f.arity : f \in {g \in PhysicalFunctions : g.key = name}}

(* lowerConstantFunction: the text of a constant is read as its type; a     *)
(* text that is no number is an exception.                                  *)
CONSTANT Numerals
lowerConstantFunction(node) ==
  CASE node.type \in {"VARSIZED", "VARSIZED_POINTER_REP"} -> node
    [] node.type = "CHAR" -> Failure(Terminated)
    [] node.type = "UNDEFINED" -> Failure(Rejected)
    [] OTHER -> IF node.val[1] \in Numerals THEN node ELSE Failure(Rejected)

RECURSIVE lowerFunction(_)
lowerFunction(node) ==
  LET kids == Each(lowerFunction, node.kids)
      name == ClassOf[node.fn].name
  IN  IF AnyFailure(kids) THEN FirstFailure(kids)
      ELSE IF node.fn = "ConstantValue" THEN lowerConstantFunction(node)
      ELSE IF node.fn = "FieldAccess" THEN node
      ELSE IF node.fn = "CastToType" THEN IF Len(kids) = 1 THEN [node EXCEPT !.kids = kids] ELSE Failure(Terminated)
      ELSE IF PhysicalArities(name) = {} THEN Failure(Rejected)
      ELSE IF Len(kids) \notin PhysicalArities(name) THEN Failure(Terminated)
      ELSE [node EXCEPT !.fn = name, !.kids = kids]

----------------------------------------------------------------------------
NoLayout == <<>>
Wrapper(op, id, at, in, out, layout, kids) ==
  [op |-> op, id |-> id, at |-> at, in |-> in, out |-> out, layout |-> layout, kids |-> kids]
NotLowered(how) == Wrapper(how, <<>>, "INTERMEDIATE", <<>>, <<>>, NoLayout, <<>>)
LoweringFailed(w) == w.op \in {Terminated, Rejected}
Intermediate(o, kids) == Wrapper(o.op, o.id, "INTERMEDIATE", o.ins[1], o.out, NoLayout, kids)

LowerToPhysicalSelection(o, kids) ==
  LET function == lowerFunction(o.fns[1])
  IN  IF IsFailure(function) THEN NotLowered(function.fn) ELSE Intermediate(o, kids)

LowerToPhysicalMap(o, kids) ==
  LET function == lowerFunction(o.fns[1].kids[2])
  IN  IF IsFailure(function) THEN NotLowered(function.fn) ELSE Intermediate(o, kids)

(* A projection is a scan that reads only the projected fields and an emit. *)
(* It has one leaf, however many children the logical operator has.         *)
LowerToPhysicalProjection(o, kids) ==
  IF Len(kids) # 1 THEN NotLowered(Terminated)
  ELSE Wrapper("ProjectionEmit", Append(o.id, 1), "EMIT", o.out, o.out, o.out,
               <<Wrapper("ProjectionScan", Append(o.id, 2), "SCAN", o.out, o.out, o.ins[1], kids)>>)

(* Mutant: the sequence operator may be fused into any pipeline.            *)
LowerToFusedSequence(o, kids) == Intermediate(o, kids)
LowerToPhysicalSequence(o, kids) ==
  IF Len(kids) # 1 THEN NotLowered(Terminated)
  ELSE Wrapper("Sequence", o.id, "SCAN", o.ins[1], o.out, o.ins[1], kids)

LowerToPhysicalUnion(o, kids) == Intermediate(o, kids)
LowerToPhysicalSource(o) == Intermediate(o, <<>>)
LowerToPhysicalSink(o, kids) == Intermediate(o, kids)
LowerToPhysicalEventTimeWatermarkAssigner(o, kids) == Intermediate(o, kids)
LowerToPhysicalIngestionTimeWatermarkAssigner(o, kids) == Intermediate(o, kids)

(* The two operators of a window hand over slices, not buffers of tuples.   *)
Slices(id) == <<"slices", id>>

(* An ingestion time window has no field, and the rule wants one with a     *)
(* name nothing ever gets.                                                  *)
getTimeFunction(win) == IF win.time = "event" THEN "EventTimeFunction" ELSE Rejected

AggregationPhysicalFunctions == {"Avg", "Count", "Max", "Min", "Median", "Sum", "Array_Agg", "TemporalSequence", "Var"}
getAggregationPhysicalFunctions(aggs) ==
  LET known(agg) == AggregationOf[agg.fn].name \in AggregationPhysicalFunctions \cup {"Temporal_Sequence"}
  IN  IF \A i \in DOMAIN aggs : known(aggs[i]) THEN "lowered" ELSE Rejected

(* Keys of variable size become pointers into the slice's pages.            *)
BuildSchema(o) ==
  LET isKey(name) == \E i \in DOMAIN o.fns : o.fns[i].val = name /\ o.fns[i].type = "VARSIZED"
  IN  [i \in DOMAIN o.ins[1] |->
         IF isKey(o.ins[1][i].name) THEN [o.ins[1][i] EXCEPT !.type = "VARSIZED_POINTER_REP"] ELSE o.ins[1][i]]

LowerToPhysicalWindowedAggregation(o, kids) ==
  IF Len(o.inO) # 1 \/ Len(o.outO) # 1 \/ Len(o.ins) # 1 THEN NotLowered(Terminated)
  ELSE IF Rejected \in {getTimeFunction(o.win), getAggregationPhysicalFunctions(o.aggs)} THEN NotLowered(Rejected)
  ELSE Wrapper("AggregationProbe", Append(o.id, 1), "SCAN", BuildSchema(o), o.out, Slices(o.id),
               <<Wrapper("AggregationBuild", Append(o.id, 2), "EMIT", BuildSchema(o), o.out, Slices(o.id), kids)>>)

(* The time field is looked up on both sides by its name without the        *)
(* qualifier.                                                               *)
getTimestampLeftAndRight(o) ==
  LET bare == SubSeq(o.win.field, Len(AttributeNameResolver(o.win.field)), Len(o.win.field))
      found(schema) == \E i \in DOMAIN schema : \E j, k \in DOMAIN schema[i].name : SubSeq(schema[i].name, j, k) = bare
  IN  IF o.win.time = "event" /\ ~ (found(o.ins[1]) /\ found(o.ins[2])) THEN Terminated ELSE "found"

(* The first input is the right side of the physical join.                  *)
LowerToPhysicalNLJoin(o, kids) ==
  LET function == lowerFunction(o.fns[1])
      build(k, side) == Wrapper("NLJBuild", Append(o.id, k), "EMIT", o.ins[side], o.out, Slices(o.id), <<kids[side]>>)
  IN  IF Len(o.inO) # 2 \/ Len(o.outO) # 1 \/ Len(o.ins) # 2 THEN NotLowered(Terminated)
      ELSE IF IsFailure(function) THEN NotLowered(function.fn)
      ELSE IF getTimestampLeftAndRight(o) = Terminated THEN NotLowered(Terminated)
      ELSE Wrapper("NLJProbe", Append(o.id, 1), "SCAN", o.out, o.out, Slices(o.id), <<build(2, 2), build(3, 1)>>)

RECURSIVE lowerOperatorRecursively(_)
lowerOperatorRecursively(o) ==
  LET kids == Each(lowerOperatorRecursively, o.kids)
  IN  IF \E i \in DOMAIN kids : LoweringFailed(kids[i]) THEN SelectSeq(kids, LoweringFailed)[1]
      ELSE CASE o.op = "Selection"           -> LowerToPhysicalSelection(o, kids)
             [] o.op = "Map"                 -> LowerToPhysicalMap(o, kids)
             [] o.op = "Projection"          -> LowerToPhysicalProjection(o, kids)
             [] o.op = "Sequence"            -> LowerToPhysicalSequence(o, kids)
             [] o.op = "Union"               -> LowerToPhysicalUnion(o, kids)
             [] o.op = "WindowedAggregation" -> LowerToPhysicalWindowedAggregation(o, kids)
             [] o.op = "Join"                -> LowerToPhysicalNLJoin(o, kids)
             [] o.op = "SourceDescriptor"    -> LowerToPhysicalSource(o)
             [] o.op = "Sink"                -> LowerToPhysicalSink(o, kids)
             [] o.op = "EventTimeWatermarkAssigner"     -> LowerToPhysicalEventTimeWatermarkAssigner(o, kids)
             [] o.op = "IngestionTimeWatermarkAssigner" -> LowerToPhysicalIngestionTimeWatermarkAssigner(o, kids)

----------------------------------------------------------------------------
(* PhysicalPlanBuilder::flip: every wrapper, in the order of a depth first  *)
(* walk from the sink, with the one it feeds instead of its children.       *)
RECURSIVE collectNodes(_, _)
collectNodes(w, next) ==
  <<[op |-> w.op, id |-> w.id, at |-> w.at, in |-> w.in, out |-> w.out, layout |-> w.layout, next |-> next]>>
  \o FlattenSeq([i \in DOMAIN w.kids |-> collectNodes(w.kids[i], <<w.id>>)])

flip(root) == collectNodes(root, <<>>)
newRoots(nodes) == SelectSeq(nodes, LAMBDA w : \A i \in DOMAIN nodes : nodes[i].next # <<w.id>>)
FlipSucceeds(nodes) == \A i \in DOMAIN newRoots(nodes) : newRoots(nodes)[i].op = "SourceDescriptor"
==============================================================================
