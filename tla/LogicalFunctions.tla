-------------------------- MODULE LogicalFunctions --------------------------
(***************************************************************************)
(* Logical functions (nes-logical-operators/src/Functions): expression     *)
(* trees, their type inference, their equality and their passage over the  *)
(* wire.  A node has the key of its class, its type, its children, and the *)
(* name or literal that a leaf carries.                                    *)
(***************************************************************************)
EXTENDS MeosLogicalFunctions

AddLogicalFunction      == [BinaryArithmetic("Add") EXCEPT !.equal = "rightTwice"]
MulLogicalFunction      == [BinaryArithmetic("Mul") EXCEPT !.equal = "commuting"]
SubLogicalFunction      == BinaryArithmetic("Sub")
ModuloLogicalFunction   == BinaryArithmetic("Mod")
PowLogicalFunction      == [BinaryArithmetic("Pow") EXCEPT !.equal = "commuting"]
ConcatLogicalFunction   == [BinaryArithmetic("Concat") EXCEPT !.equal = "commuting"]
(* The constructor takes the left type, withChildren joins the two.         *)
DivLogicalFunction      == [BinaryArithmetic("Div") EXCEPT !.made = "child"]
AbsoluteLogicalFunction == UnaryArithmetic("Absolute")
CeilLogicalFunction     == UnaryArithmetic("Ceil")
ExpLogicalFunction      == UnaryArithmetic("Exp")
FloorLogicalFunction    == UnaryArithmetic("Floor")
RoundLogicalFunction    == UnaryArithmetic("Round")
SqrtLogicalFunction     == UnaryArithmetic("Sqrt")
EqualsLogicalFunction        == [Comparison("Equals") EXCEPT !.equal = "commuting"]
LessLogicalFunction          == Comparison("Less")
LessEqualsLogicalFunction    == [Comparison("LessEquals") EXCEPT !.equal = "commuting"]
GreaterLogicalFunction       == [Comparison("Greater") EXCEPT !.equal = "commuting"]
GreaterEqualsLogicalFunction == [Comparison("GreaterEquals") EXCEPT !.equal = "commuting"]
(* And asserts the type of its left child twice and never the right one's,  *)
(* and writes the right child before the left one.                          *)
AndLogicalFunction ==
  [FunctionClass("And", {<<"BOOLEAN", "any">>}, "BOOLEAN")
     EXCEPT !.checks = "given", !.equal = "commuting", !.wire = "reversed"]
OrLogicalFunction ==
  [FunctionClass("Or", {<<"BOOLEAN", "BOOLEAN">>}, "BOOLEAN") EXCEPT !.checks = "given", !.equal = "commuting"]
NegateLogicalFunction == [FunctionClass("Negate", {<<"BOOLEAN">>}, "BOOLEAN") EXCEPT !.fails = Rejected]
(* Its target type is its own; inference leaves it alone; serialize writes  *)
(* no child.                                                                *)
CastToTypeLogicalFunction == [FunctionClass("CastToType", {<<"any">>}, "given") EXCEPT !.wire = "none"]
FieldAccessLogicalFunction     == [FunctionClass("FieldAccess", {<<>>}, "given") EXCEPT !.equal = "valueAndType"]
ConstantValueLogicalFunction   == [FunctionClass("ConstantValue", {<<>>}, "given") EXCEPT !.equal = "value"]
FieldAssignmentLogicalFunction == FunctionClass("FieldAssignment", {<<"any", "any">>}, "second")

Classes == MeosLogicalFunctions \cup
  {AddLogicalFunction, MulLogicalFunction, SubLogicalFunction, ModuloLogicalFunction, PowLogicalFunction,
   ConcatLogicalFunction, DivLogicalFunction, AbsoluteLogicalFunction, CeilLogicalFunction,
   ExpLogicalFunction, FloorLogicalFunction, RoundLogicalFunction, SqrtLogicalFunction,
   EqualsLogicalFunction, LessLogicalFunction, LessEqualsLogicalFunction, GreaterLogicalFunction,
   GreaterEqualsLogicalFunction, AndLogicalFunction, OrLogicalFunction, NegateLogicalFunction,
   CastToTypeLogicalFunction, FieldAccessLogicalFunction, ConstantValueLogicalFunction,
   FieldAssignmentLogicalFunction}

(* The registry is filled by whatever the build links; these classes are    *)
(* what it holds in this repository.                                        *)
LogicalFunctionRegistry ==
  [key \in {class.key : class \in Classes} |-> CHOOSE class \in Classes : class.key = key]

CONSTANT ClassOf       \* the registry: key -> class
Registered == DOMAIN ClassOf

----------------------------------------------------------------------------
(* Nodes.  A failure takes the place of the node that could not be made.    *)
Node(fn, type, kids, val) == [fn |-> fn, type |-> type, kids |-> kids, val |-> val]
Failure(how) == Node(how, "UNDEFINED", <<>>, <<>>)
IsFailure(node) == node.fn \in {Terminated, Rejected}
FirstFailure(nodes) == SelectSeq(nodes, IsFailure)[1]
AnyFailure(nodes) == \E i \in DOMAIN nodes : IsFailure(nodes[i])

FieldAccess(name) == Node("FieldAccess", "UNDEFINED", <<>>, name)
ConstantValue(type, literal) == Node("ConstantValue", type, <<>>, <<literal>>)

OrUndefined(type) == IF type = NoType THEN "UNDEFINED" ELSE type

TypeBy(rule, kids) ==
  CASE rule = "join"   -> OrUndefined(join(kids[1].type, kids[2].type))
    [] rule = "child"  -> kids[1].type
    [] rule = "second" -> kids[2].type
    [] OTHER           -> rule

(* The constructor.                                                         *)
Make(class, kids) ==
  IF AnyFailure(kids) THEN FirstFailure(kids)
  ELSE Node(class.key, TypeBy(class.made, kids), kids, <<>>)

withChildren(node, kids) ==
  LET class == ClassOf[node.fn]
  IN  IF Len(kids) \notin Arities(class) THEN Failure(Terminated)
      ELSE [node EXCEPT !.kids = kids,
                        !.type = IF class.rewired = "kept" THEN node.type ELSE TypeBy(class.rewired, kids)]

(* FieldAccess: the type and the full name of the field it finds.           *)
InferFieldAccess(node, schema) ==
  LET field == getFieldByName(schema, node.val)
  IN  IF field = NoField THEN Failure(Rejected)
      ELSE [node EXCEPT !.type = field.type, !.val = field.name]

(* FieldAssignment: a target that names an existing field takes that        *)
(* field's full name, a new one the schema's qualifier; the type is always  *)
(* that of the assigned function.                                           *)
InferFieldAssignment(node, assigned, schema) ==
  LET target == node.kids[1]
      existing == getFieldByName(schema, target.val)
      name == IF existing # NoField THEN existing.name
              ELSE IF IsQualified(target.val) THEN target.val
              ELSE Qualifier(schema) \o target.val
  IN  IF IsFailure(assigned) THEN assigned
      ELSE IF existing # NoField /\ join(assigned.type, target.type) = NoType THEN Failure(Rejected)
      ELSE [node EXCEPT !.type = assigned.type,
                        !.kids = <<[target EXCEPT !.val = name, !.type = assigned.type], assigned>>]

RECURSIVE withInferredDataType(_, _)
withInferredDataType(node, schema) ==
  LET class == ClassOf[node.fn]
      inferred == Each(LAMBDA kid : withInferredDataType(kid, schema), node.kids)
      looked == IF class.checks = "given" THEN node.kids ELSE inferred
      fits == \E layout \in class.layouts :
                Len(layout) = Len(looked) /\ \A i \in DOMAIN layout : Fits(looked[i].type, layout[i])
  IN  CASE node.fn = "FieldAccess" -> InferFieldAccess(node, schema)
        [] node.fn \in {"ConstantValue", "CastToType"} -> node
        [] node.fn = "FieldAssignment" ->
             InferFieldAssignment(node, withInferredDataType(node.kids[2], schema), schema)
        [] OTHER -> IF AnyFailure(inferred) THEN FirstFailure(inferred)
                    ELSE IF fits THEN withChildren(node, inferred) ELSE Failure(class.fails)

----------------------------------------------------------------------------
(* operator==.                                                              *)
RECURSIVE equals(_, _)
equals(a, b) ==
  LET eq(i, j) == equals(a.kids[i], b.kids[j])
      inOrder == \A i \in DOMAIN a.kids : eq(i, i)
      how == ClassOf[a.fn].equal
  IN  a.fn = b.fn /\ Len(a.kids) = Len(b.kids) /\
      CASE how = "ordered"         -> inOrder
        [] how = "commuting"       -> inOrder \/ (eq(1, 2) /\ eq(2, 1))
        [] how = "rightTwice"      -> inOrder \/ (eq(2, 2) /\ eq(2, 1))
        [] how = "firstTwoCommute" -> inOrder \/ (eq(1, 2) /\ eq(2, 1) /\ eq(3, 3))
        [] how = "value"           -> a.val = b.val
        [] how = "valueAndType"    -> a.val = b.val /\ a.type = b.type

----------------------------------------------------------------------------
(* SerializableFunction: the message holds the NAME, not the key.           *)
RECURSIVE serializeFunction(_)
serializeFunction(node) ==
  LET class == ClassOf[node.fn]
      written == Each(serializeFunction, node.kids)
  IN  Node(class.name, serializeDataType(node.type),
           CASE class.wire = "inOrder"  -> written
             [] class.wire = "reversed" -> Reverse(written)
             [] class.wire = "none"     -> <<>>,
           node.val)

(* The registrar's assertions on what it finds in the message.              *)
WellFormed(class, kids, val) ==
  /\ Len(kids) \in Arities(class)
  /\ class.key = "FieldAccess" => val # <<>>
  /\ class.key = "FieldAssignment" => kids[1].fn = "FieldAccess"

RECURSIVE deserializeFunction(_)
deserializeFunction(message) ==
  LET class == ClassOf[message.fn]
      kids == Each(deserializeFunction, message.kids)
  IN  IF message.fn \notin Registered THEN Failure(Rejected)
      ELSE IF AnyFailure(kids) THEN FirstFailure(kids)
      ELSE IF ~ WellFormed(class, kids, message.val) THEN Failure(Terminated)
      ELSE IF class.made = "given" THEN Node(class.key, deserializeDataType(message.type), kids, message.val)
      ELSE Make(class, kids)

(* LogicalFunctionProvider::tryProvide, how the parser makes a function     *)
(* from a name that is not a token of its own; no data type is given.       *)
tryProvide(key, kids) ==
  CASE key \notin Registered -> Failure(Rejected)
    [] key \in Registered /\ ~ WellFormed(ClassOf[key], kids, <<>>) -> Failure(Terminated)
    [] OTHER -> IF ClassOf[key].made = "given" THEN Node(key, "UNDEFINED", kids, <<>>)
                ELSE Make(ClassOf[key], kids)

-----------------------------------------------------------------------------
(***************************************************************************)
(* Window aggregation functions (nes-logical-operators/src/Operators/      *)
(* Windows/Aggregations).  A member has the key of its class, the fields   *)
(* it aggregates (one, or three for a temporal sequence) and the field it  *)
(* is stored in.  Members are shared by every copy of the plan: inferStamp *)
(* changes the member itself, once per type inference.                     *)
(* What distinguishes the classes:                                         *)
(*   name     its NAME, the type it has on the wire                        *)
(*   on       the type the aggregated field gets by inferStamp             *)
(*   final    the type of the result                                       *)
(*   checked  whether a field that is not numeric is an assertion          *)
(*   ordered  requiresSequentialAggregation                                *)
(***************************************************************************)
AggregationClass(key, on, final) ==
  [key |-> key, name |-> key, on |-> on, final |-> final, checked |-> TRUE, ordered |-> FALSE]

SumAggregationLogicalFunction    == AggregationClass("Sum", "inferred", "inferred")
MinAggregationLogicalFunction    == AggregationClass("Min", "inferred", "inferred")
MaxAggregationLogicalFunction    == AggregationClass("Max", "inferred", "inferred")
MedianAggregationLogicalFunction == AggregationClass("Median", "inferred", "FLOAT64")
VarAggregationLogicalFunction    == AggregationClass("Var", "FLOAT64", "FLOAT64")
(* The widened type follows the type the field had before this inference.   *)
AvgAggregationLogicalFunction    == AggregationClass("Avg", "widened", "FLOAT64")
(* Its field is not looked up at all.                                       *)
CountAggregationLogicalFunction  ==
  [AggregationClass("Count", "counted", "UINT64") EXCEPT !.checked = FALSE]
(* These two only log a field that is not numeric.                          *)
ArrayAggregationLogicalFunction  ==
  [AggregationClass("Array_Agg", "inferred", "VARSIZED") EXCEPT !.checked = FALSE, !.ordered = TRUE]
(* Registered under a key that its NAME does not match.                     *)
TemporalSequenceAggregationLogicalFunction ==
  [AggregationClass("TemporalSequence", "inferred", "VARSIZED")
     EXCEPT !.name = "Temporal_Sequence", !.checked = FALSE, !.ordered = TRUE]

AggregationClasses ==
  {SumAggregationLogicalFunction, MinAggregationLogicalFunction, MaxAggregationLogicalFunction,
   MedianAggregationLogicalFunction, VarAggregationLogicalFunction, AvgAggregationLogicalFunction,
   CountAggregationLogicalFunction, ArrayAggregationLogicalFunction,
   TemporalSequenceAggregationLogicalFunction}

AggregationOf ==
  [key \in {class.key : class \in AggregationClasses} |->
     CHOOSE class \in AggregationClasses : class.key = key]

(* The constructor without a name stores the result in the first field.     *)
Aggregate(key, on) == [fn |-> key, on |-> on, as |-> on[1]]
AggregateFailure(how) == [fn |-> how, on |-> <<>>, as |-> FieldAccess(<<>>)]
AggregateFailed(agg) == agg.fn \in {Terminated, Rejected}

requiresSequentialAggregation(agg) == AggregationOf[agg.fn].ordered

(* The text up to and including the first "$", and after the last one.      *)
AttributeNameResolver(name) ==
  LET marks == {i \in DOMAIN name : name[i] = "$"}
  IN  IF marks = {} THEN <<>> ELSE SubSeq(name, 1, CHOOSE i \in marks : \A j \in marks : i <= j)
AfterSeparator(name) ==
  LET marks == {i \in DOMAIN name : name[i] = "$"}
  IN  IF marks = {} THEN name
      ELSE SubSeq(name, (CHOOSE i \in marks : \A j \in marks : i >= j) + 1, Len(name))

(* AvgAggregationLogicalFunction.cpp: the branch looks at onField, which    *)
(* still has the type it had before.                                        *)
Widened(before) ==
  CASE isInteger(before) /\ isSignedInteger(before) -> "INT64"
    [] isInteger(before) /\ ~ isSignedInteger(before) -> "UINT64"
    [] OTHER -> "FLOAT64"

OnType(class, before, inferred) ==
  CASE class.on = "inferred" -> inferred
    [] class.on = "widened"  -> Widened(before)
    [] class.on = "counted"  -> "UINT64"
    [] OTHER                 -> class.on

inferStamp(agg, schema) ==
  LET class == AggregationOf[agg.fn]
      found == IF class.on = "counted" THEN agg.on
               ELSE [i \in DOMAIN agg.on |-> InferFieldAccess(agg.on[i], schema)]
      resolver == IF class.on = "counted" THEN Qualifier(schema) ELSE AttributeNameResolver(found[1].val)
      on == [i \in DOMAIN found |-> [found[i] EXCEPT !.type = OnType(class, agg.on[i].type, found[i].type)]]
      final == IF class.final = "inferred" THEN on[1].type ELSE class.final
  IN  IF AnyFailure(found) THEN AggregateFailure(FirstFailure(found).fn)
      ELSE IF class.checked /\ ~ isNumeric(found[1].type) THEN AggregateFailure(Terminated)
      ELSE [agg EXCEPT !.on = on,
                       !.as = Node("FieldAccess", final, <<>>, resolver \o AfterSeparator(agg.as.val))]

(* operator==                                                               *)
AggregateEquals(a, b) == a.fn = b.fn /\ equals(a.on[1], b.on[1]) /\ equals(a.as, b.as)

(* Mutant: the aggregated field is written for the result, too.             *)
serializeFieldTwice(agg) ==
  [fn |-> AggregationOf[agg.fn].name, on |-> serializeFunction(agg.on[1]), as |-> serializeFunction(agg.on[1])]

(* serialize writes the first field and the result field of every class.    *)
serializeAggregation(agg) ==
  [fn |-> AggregationOf[agg.fn].name, on |-> serializeFunction(agg.on[1]), as |-> serializeFunction(agg.as)]

(* The registry ignores case, so a NAME is found if it spells a key.        *)
deserializeWindowAggregationFunction(message) ==
  IF message.fn \in DOMAIN AggregationOf
  THEN [fn |-> message.fn, on |-> <<deserializeFunction(message.on)>>, as |-> deserializeFunction(message.as)]
  ELSE AggregateFailure(Rejected)
=============================================================================
