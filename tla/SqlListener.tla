----------------------------- MODULE SqlListener -----------------------------
(***************************************************************************)
(* The SQL listener (nes-sql-parser/src/AntlrSQLQueryPlanCreator.cpp): a   *)
(* stack machine.  The tree walker calls its handlers one after another;   *)
(* the handlers communicate through the AntlrSQLHelper on top of a stack   *)
(* (one per query being read) and build the plan bottom up.                *)
(*                                                                         *)
(* Inference of models (INFER_MODEL) and the names that are only ever      *)
(* written (newSourceName, joinSources, joinSourceRenames) are left out.   *)
(***************************************************************************)
EXTENDS WrittenQueries

VARIABLES
  walk,         \* the calls the walker has still to make
  helpers,      \* the stack of helpers, the top is the last
  queryPlans,   \* the stack of finished plans
  sinkNames,
  parse         \* "parsing", "parsed", Rejected or Terminated

listenerVars == <<walk, helpers, queryPlans, sinkNames, parse>>

(* AntlrSQLHelper, as a new one starts.                                     *)
AntlrSQLHelper ==
  [projectionFields |-> <<>>, whereClauses |-> <<>>, havingClauses |-> <<>>, source |-> <<>>,
   queryPlans |-> <<>>, isSelect |-> FALSE, isWhereOrHaving |-> FALSE, isFrom |-> FALSE,
   isWindow |-> FALSE, isJoinRelation |-> FALSE, isSetOperation |-> FALSE, isGroupBy |-> FALSE,
   hasUnnamedAggregation |-> FALSE, windowType |-> NoWindow, windowAggs |-> <<>>,
   constantBuilder |-> <<>>, functionBuilder |-> <<>>, mapBuilder |-> <<>>, groupByFields |-> <<>>,
   joinFunction |-> None, joinKeyRelationHelper |-> <<>>, opBoolean |-> "none",
   implicitMapCountHelper |-> 0, timestamp |-> <<>>, size |-> 0, advanceBy |-> 0,
   timeUnit |-> "none", timeUnitAdvanceBy |-> "none"]

ListenerInit(query) ==
  /\ walk = Walk(query)
  /\ helpers = <<>> /\ queryPlans = <<>> /\ sinkNames = <<>> /\ parse = "parsing"

----------------------------------------------------------------------------
top == Last(helpers)
what == Head(walk).what

(* The walker calls this handler now.                                       *)
Called(handler) ==
  /\ parse = "parsing" /\ walk # <<>>
  /\ Head(walk).on = handler
  /\ walk' = Tail(walk)

(* The handler throws (or an assertion of it fails).                        *)
Throw(how) == parse' = how /\ UNCHANGED <<helpers, queryPlans, sinkNames>>

WithTop(helper) == helpers' = Append(Front(helpers), helper) /\ UNCHANGED <<queryPlans, sinkNames, parse>>

(* Operators made by this call have its position as id.                     *)
NewId(k) == <<Len(walk), k>>

Pop(seq, n) == SubSeq(seq, 1, Len(seq) - n)
LastTwo(seq) == SubSeq(seq, Len(seq) - 1, Len(seq))
Push(helper, function) == [helper EXCEPT !.functionBuilder = Append(@, function)]

enterSelectClause == Called("enterSelectClause") /\ WithTop([top EXCEPT !.isSelect = TRUE])
exitSelectClause ==
  Called("exitSelectClause") /\ WithTop([top EXCEPT !.isSelect = FALSE, !.functionBuilder = <<>>])
enterFromClause == Called("enterFromClause") /\ WithTop([top EXCEPT !.isFrom = TRUE])
exitFromClause == Called("exitFromClause") /\ WithTop([top EXCEPT !.isFrom = FALSE])
enterWhereClause == Called("enterWhereClause") /\ WithTop([top EXCEPT !.isWhereOrHaving = TRUE])
exitWhereClause ==
  /\ Called("exitWhereClause")
  /\ IF Len(top.functionBuilder) # 1 THEN Throw(Rejected)
     ELSE WithTop([top EXCEPT !.isWhereOrHaving = FALSE, !.functionBuilder = <<>>,
                              !.whereClauses = Append(@, Last(top.functionBuilder))])
enterHavingClause == Called("enterHavingClause") /\ WithTop([top EXCEPT !.isWhereOrHaving = TRUE])
exitHavingClause ==
  /\ Called("exitHavingClause")
  /\ IF Len(top.functionBuilder) # 1 THEN Throw(Rejected)
     ELSE WithTop([top EXCEPT !.isWhereOrHaving = FALSE, !.functionBuilder = <<>>,
                              !.havingClauses = Append(@, Last(top.functionBuilder))])
enterGroupByClause == Called("enterGroupByClause") /\ WithTop([top EXCEPT !.isGroupBy = TRUE])
exitGroupByClause == Called("exitGroupByClause") /\ WithTop([top EXCEPT !.isGroupBy = FALSE])
enterSinkClause ==
  /\ Called("enterSinkClause")
  /\ IF what = <<>> THEN Throw(Rejected)
     ELSE sinkNames' = sinkNames \o what /\ UNCHANGED <<helpers, queryPlans, parse>>

----------------------------------------------------------------------------
(* Expressions.  In a join they are built in joinKeyRelationHelper, and     *)
(* the last one built is the join function.                                 *)
createFunctionFromOpBoolean(op, operands) ==
  CASE op = "NEQJ" -> Apply("Negate", <<Apply("Equals", operands)>>)
    [] op \in DOMAIN ComparisonTokens \ {"NEQJ"} -> Apply(ComparisonTokens[op], operands)
    [] OTHER -> Failure(Rejected)
createLogicalBinaryFunction(op, operands) == Apply(LogicTokens[op], operands)

(* Two operands are replaced by the function of them.                       *)
Combined(function) ==
  IF IsFailure(function) THEN Throw(function.fn)
  ELSE IF top.isJoinRelation
  THEN WithTop([top EXCEPT !.joinKeyRelationHelper = Append(Pop(@, 2), function), !.joinFunction = <<function>>])
  ELSE WithTop([top EXCEPT !.functionBuilder = Append(Pop(@, 2), function)])
Operands == IF top.isJoinRelation THEN top.joinKeyRelationHelper ELSE top.functionBuilder

exitLogicalBinary ==
  /\ Called("exitLogicalBinary")
  /\ IF Len(Operands) < 2 THEN Throw(Rejected)
     ELSE Combined(createLogicalBinaryFunction(what, LastTwo(Operands)))

enterComparisonOperator == Called("enterComparisonOperator") /\ WithTop([top EXCEPT !.opBoolean = what])
exitComparison ==
  /\ Called("exitComparison")
  /\ IF Len(Operands) < 2 THEN Throw(Rejected)
     ELSE Combined(createFunctionFromOpBoolean(top.opBoolean, LastTwo(Operands)))

(* Mutant: the operand that is popped first becomes the left one.           *)
exitArithmeticBinaryPopped ==
  /\ Called("exitArithmeticBinary")
  /\ IF Len(top.functionBuilder) < 2 THEN Throw(Rejected)
     ELSE WithTop([top EXCEPT !.functionBuilder =
                     Append(Pop(@, 2), Apply(ArithmeticTokens[what], Reverse(LastTwo(@))))])

exitArithmeticBinary ==
  /\ Called("exitArithmeticBinary")
  /\ IF Len(top.functionBuilder) < 2 THEN Throw(Rejected)
     ELSE WithTop([top EXCEPT !.functionBuilder =
                     Append(Pop(@, 2), Apply(ArithmeticTokens[what], LastTwo(@)))])

(* Minus is a product with the unsigned constant "-1"; a tilde, which the   *)
(* grammar also lets stand there, is refused.                               *)
exitArithmeticUnary ==
  /\ Called("exitArithmeticUnary")
  /\ IF top.functionBuilder = <<>> \/ what \notin {"PLUS", "MINUS"} THEN Throw(Rejected)
     ELSE WithTop([top EXCEPT !.functionBuilder =
                     IF what = "PLUS" THEN @
                     ELSE Append(Front(@), Apply("Mul", <<ConstantValue("UINT64", "-1"), Last(@)>>))])

exitLogicalNot ==
  /\ Called("exitLogicalNot")
  /\ IF Operands = <<>> \/ (top.isJoinRelation /\ top.joinFunction = None) THEN Throw(Rejected)
     ELSE IF top.isJoinRelation
     THEN LET negated == Apply("Negate", top.joinFunction)
          IN  WithTop([top EXCEPT !.joinKeyRelationHelper = Append(Front(@), negated), !.joinFunction = <<negated>>])
     ELSE WithTop([top EXCEPT !.functionBuilder = Append(Front(@), Apply("Negate", <<Last(@)>>))])

exitConstantDefault ==
  Called("exitConstantDefault") /\ WithTop([top EXCEPT !.constantBuilder = Append(@, what)])

----------------------------------------------------------------------------
(* Identifiers, by where they stand and what is being read.                 *)
isInFunctionCall == top.functionBuilder # <<>>
isInAggFunction == top.windowAggs # <<>>

RenameItem ==
  LET field == FieldAccess(what.name)
      renamed == Make(FieldAssignmentLogicalFunction, <<field, Last(top.functionBuilder)>>)
  IN  IF top.isWhereOrHaving \/ top.isSelect
      THEN WithTop([top EXCEPT !.functionBuilder = Front(@), !.projectionFields = Append(@, field),
                               !.mapBuilder = Append(@, renamed)])
      ELSE WithTop(top)

(* An empty functionBuilder has no back.                                    *)
RenameAggregation ==
  LET field == FieldAccess(what.name)
  IN  IF top.functionBuilder = <<>> \/ Last(top.functionBuilder).fn # "FieldAccess" THEN Throw(Terminated)
      ELSE WithTop([top EXCEPT !.windowAggs = Append(Front(@), [Last(@) EXCEPT !.as = field]),
                               !.functionBuilder = Front(@), !.hasUnnamedAggregation = FALSE,
                               !.projectionFields = Append(@, field)])

enterIdentifier ==
  /\ Called("enterIdentifier")
  /\ IF top.isGroupBy THEN WithTop([top EXCEPT !.groupByFields = Append(@, FieldAccess(what.name))])
     ELSE IF (top.isWhereOrHaving \/ top.isSelect \/ top.isWindow) /\ what.parent = "PrimaryExpression"
     THEN WithTop(Push(top, FieldAccess(what.name)))
     ELSE IF top.isFrom /\ ~ top.isJoinRelation /\ what.parent = "ErrorCapturingIdentifier"
     THEN WithTop([top EXCEPT !.source = what.name])
     ELSE IF what.parent = "NamedExpression" /\ isInFunctionCall /\ ~ top.isJoinRelation /\ ~ isInAggFunction
     THEN RenameItem
     ELSE IF what.parent = "NamedExpression" /\ isInAggFunction THEN RenameAggregation
     ELSE IF top.isJoinRelation /\ what.parent = "PrimaryExpression"
     THEN WithTop([top EXCEPT !.joinKeyRelationHelper = Append(@, FieldAccess(what.name))])
     ELSE WithTop(top)

(* The end of a select item; what: it was given a name.                     *)
ProjectField ==
  WithTop([top EXCEPT !.projectionFields = Append(@, Last(top.functionBuilder)), !.functionBuilder = Front(@)])

NameImplicitly ==
  LET function == Last(top.functionBuilder)
      name == function.kids[1].val \o <<"_">> \o <<ToString(top.implicitMapCountHelper)>>
      field == FieldAccess(name)
  IN  IF Len(function.kids) # 1 \/ function.kids[1].fn # "FieldAccess" THEN Throw(Rejected)
      ELSE WithTop([top EXCEPT !.implicitMapCountHelper = @ + 1, !.functionBuilder = Front(@),
                               !.mapBuilder = Append(@, Make(FieldAssignmentLogicalFunction, <<field, function>>)),
                               !.projectionFields = Append(@, field)])

(* The last aggregation is named after its field; without an aggregation    *)
(* there is no last one, and the process ends.                              *)
NameAggregation ==
  LET access == Last(top.functionBuilder)
      name == access.val \o <<"_">> \o <<AggregationOf[Last(top.windowAggs).fn].name>>
  IN  IF access.fn # "FieldAccess" THEN Throw(Rejected)
      ELSE IF top.windowAggs = <<>> THEN Throw(Terminated)
      ELSE WithTop([top EXCEPT !.functionBuilder = Front(@), !.hasUnnamedAggregation = FALSE,
                               !.windowAggs = Append(Front(@), [Last(@) EXCEPT !.as = FieldAccess(name)]),
                               !.projectionFields = Append(@, FieldAccess(name))])

exitNamedExpression ==
  /\ Called("exitNamedExpression")
  /\ IF Len(top.functionBuilder) = 1 /\ top.functionBuilder[1].fn = "FieldAccess" /\ ~ top.hasUnnamedAggregation
     THEN ProjectField
     ELSE IF what \/ top.functionBuilder = <<>> THEN WithTop(top)
     ELSE IF top.hasUnnamedAggregation THEN NameAggregation ELSE NameImplicitly

----------------------------------------------------------------------------
(* Function calls.  Every call marks an unnamed aggregation; only a data    *)
(* type takes the mark back.                                                *)
CallAggregate(key) ==
  LET arity == IF key = "TemporalSequence" THEN 3 ELSE 1
      args == SubSeq(top.functionBuilder, Len(top.functionBuilder) - arity + 1, Len(top.functionBuilder))
      badCount == IF arity = 3 THEN Len(top.functionBuilder) # 3 ELSE top.functionBuilder = <<>>
  IN  IF badCount \/ \E i \in DOMAIN args : args[i].fn # "FieldAccess" THEN Throw(Rejected)
      ELSE WithTop([top EXCEPT !.hasUnnamedAggregation = TRUE,
                               !.windowAggs = Append(@, Aggregate(key, args)),
                               !.functionBuilder = Append(Pop(@, arity), args[1])])

CallDataType(type) ==
  IF top.constantBuilder = <<>> THEN Throw(Rejected)
  ELSE WithTop([top EXCEPT !.hasUnnamedAggregation = FALSE, !.constantBuilder = Front(@),
                           !.functionBuilder = Append(@, ConstantValue(type, Last(top.constantBuilder)))])

(* A token with a case of its own: literals go behind the other arguments,  *)
(* the last one first, and the whole builder must be the arguments.         *)
CallOwnCase(call) ==
  LET literals == [i \in DOMAIN top.constantBuilder |-> ConstantValue(VARSIZED, Reverse(top.constantBuilder)[i])]
      args == top.functionBuilder \o (IF call.literals THEN literals ELSE <<>>)
      made == Apply(call.fn, args)
  IN  IF Len(args) \notin call.counts THEN Throw(Rejected)
      ELSE WithTop([top EXCEPT !.hasUnnamedAggregation = TRUE, !.functionBuilder = <<made>>,
                               !.constantBuilder = IF call.literals THEN <<>> ELSE @])

CallRegistered(key) ==
  LET made == tryProvide(key, top.functionBuilder)
  IN  IF IsFailure(made) THEN Throw(made.fn)
      ELSE WithTop([top EXCEPT !.hasUnnamedAggregation = TRUE, !.functionBuilder = <<made>>])

exitFunctionCall ==
  /\ Called("exitFunctionCall")
  /\ CASE what \in DOMAIN AggregateTokens -> CallAggregate(AggregateTokens[what])
       [] what \in Types -> CallDataType(what)
       [] what \in DOMAIN CallOf -> CallOwnCase(CallOf[what])
       [] OTHER -> CallRegistered(what)

----------------------------------------------------------------------------
(* Windows.                                                                 *)
buildTimeMeasure(size, unit) == Milliseconds(Duration(size, unit))
WindowOf(size, slide) ==
  [time |-> IF top.timestamp = <<>> THEN "ingestion" ELSE "event", field |-> top.timestamp,
   size |-> size, slide |-> slide]

enterWindowClause == Called("enterWindowClause") /\ WithTop([top EXCEPT !.isWindow = TRUE])
exitWindowClause == Called("exitWindowClause") /\ WithTop([top EXCEPT !.isWindow = FALSE])
enterTimeUnit ==
  /\ Called("enterTimeUnit")
  /\ WithTop(IF what.advance THEN [top EXCEPT !.timeUnitAdvanceBy = what.unit] ELSE [top EXCEPT !.timeUnit = what.unit])
exitSizeParameter == Called("exitSizeParameter") /\ WithTop([top EXCEPT !.size = what])
exitAdvancebyParameter == Called("exitAdvancebyParameter") /\ WithTop([top EXCEPT !.advanceBy = what])
exitTimestampParameter == Called("exitTimestampParameter") /\ WithTop([top EXCEPT !.timestamp = what])
exitTumblingWindow ==
  LET size == buildTimeMeasure(top.size, top.timeUnit)
  IN  Called("exitTumblingWindow") /\ WithTop([top EXCEPT !.windowType = WindowOf(size, size)])
exitSlidingWindow ==
  /\ Called("exitSlidingWindow")
  /\ WithTop([top EXCEPT !.windowType =
                WindowOf(buildTimeMeasure(top.size, top.timeUnit), buildTimeMeasure(top.advanceBy, top.timeUnitAdvanceBy))])

----------------------------------------------------------------------------
(* Queries, joins and unions.                                               *)
enterPrimaryQuery ==
  /\ Called("enterPrimaryQuery")
  /\ IF helpers # <<>> /\ ~ top.isFrom /\ ~ top.isSetOperation THEN Throw(Rejected)
     ELSE /\ helpers' = Append(helpers, [AntlrSQLHelper EXCEPT !.isSetOperation = what])
          /\ UNCHANGED <<queryPlans, sinkNames, parse>>

(* The plan of the query on top: where, aggregation, maps, projection and   *)
(* having, from the bottom up.                                              *)
PlanOf(h) ==
  LET relation == IF h.queryPlans # <<>> THEN h.queryPlans[1] ELSE createLogicalPlan(h.source, NewId(1))
      selections(clauses, plan, k) ==
        FoldLeft(LAMBDA p, i : addSelection(Reverse(clauses)[i], p, NewId(k + i)), plan, [i \in DOMAIN clauses |-> i])
      filtered == selections(h.whereClauses, relation, 10)
      aggregated == IF h.windowAggs = <<>> THEN filtered
                    ELSE addWindowAggregation(filtered, h.windowType, h.windowAggs, h.groupByFields, NewId(20))
      mapped ==
        FoldLeft(LAMBDA p, i : addMap(h.mapBuilder[i], p, NewId(30 + i)), aggregated, [i \in DOMAIN h.mapBuilder |-> i])
      projected == IF h.projectionFields = <<>> THEN mapped ELSE addProjection(h.projectionFields, mapped, NewId(40))
  IN  CASE h.windowAggs # <<>> /\ h.windowType = NoWindow -> <<Fail(Rejected)>>
        [] h.windowAggs = <<>> /\ h.windowType = NoWindow -> projected
        [] h.windowType # NoWindow -> selections(h.havingClauses, projected, 50)

(* The finished plan goes to the query around it, or is one of the results. *)
Finish(plan, below) ==
  IF AnyFailed(plan) THEN Throw(FirstFailed(plan).op)
  ELSE /\ UNCHANGED <<sinkNames, parse>>
       /\ IF below = <<>> \/ top.isSetOperation
          THEN helpers' = below /\ queryPlans' = Append(queryPlans, plan)
          ELSE /\ helpers' = Append(Front(below), [Last(below) EXCEPT !.queryPlans = Append(@, plan)])
               /\ UNCHANGED queryPlans

exitPrimaryQuery == Called("exitPrimaryQuery") /\ Finish(PlanOf(top), Front(helpers))

exitSetOperation ==
  /\ Called("exitSetOperation")
  /\ IF Len(queryPlans) < 2 THEN Throw(Rejected)
     ELSE LET rest == Pop(queryPlans, 2)
              plan == addUnion(LastTwo(queryPlans)[1], LastTwo(queryPlans)[2], NewId(1))
          IN  /\ UNCHANGED <<sinkNames, parse>>
              /\ IF helpers # <<>>
                 THEN helpers' = Append(Front(helpers), [top EXCEPT !.queryPlans = Append(@, plan)]) /\ queryPlans' = rest
                 ELSE queryPlans' = Append(rest, plan) /\ UNCHANGED helpers

enterJoinRelation ==
  Called("enterJoinRelation") /\ WithTop([top EXCEPT !.joinKeyRelationHelper = <<>>, !.isJoinRelation = TRUE])
enterJoinCriteria ==
  Called("enterJoinCriteria") /\ IF top.isJoinRelation THEN WithTop(top) ELSE Throw(Terminated)
(* With enterJoinType, which asks for the join relation and does no more.   *)
exitJoinType ==
  Called("exitJoinType") /\ IF top.isJoinRelation /\ what = "INNER" THEN WithTop(top) ELSE Throw(Rejected)
exitJoinRelation ==
  /\ Called("exitJoinRelation")
  /\ IF Len(top.queryPlans) # 2 \/ top.joinFunction = None \/ top.windowType = NoWindow THEN Throw(Rejected)
     ELSE WithTop([top EXCEPT !.isJoinRelation = FALSE,
                              !.queryPlans = <<addJoin(@[1], @[2], top.joinFunction[1], top.windowType, NewId(1))>>])

(* The walk is over.                                                        *)
getQueryPlan ==
  /\ parse = "parsing" /\ walk = <<>>
  /\ IF sinkNames = <<>> \/ queryPlans = <<>> THEN Throw(Rejected)
     ELSE /\ parse' = "parsed"
          /\ queryPlans' = <<addSink(Head(sinkNames), Last(queryPlans), <<0, 0>>)>>
          /\ UNCHANGED <<helpers, sinkNames>>
  /\ UNCHANGED walk

Listen ==
  \/ enterSelectClause \/ exitSelectClause \/ enterFromClause \/ exitFromClause
  \/ enterWhereClause \/ exitWhereClause \/ enterHavingClause \/ exitHavingClause
  \/ enterGroupByClause \/ exitGroupByClause \/ enterSinkClause
  \/ exitLogicalBinary \/ enterComparisonOperator \/ exitComparison \/ exitArithmeticBinary
  \/ exitArithmeticUnary \/ exitLogicalNot \/ exitConstantDefault \/ enterIdentifier
  \/ exitNamedExpression \/ exitFunctionCall
  \/ enterWindowClause \/ exitWindowClause \/ enterTimeUnit \/ exitSizeParameter
  \/ exitAdvancebyParameter \/ exitTimestampParameter \/ exitTumblingWindow \/ exitSlidingWindow
  \/ enterPrimaryQuery \/ exitPrimaryQuery \/ exitSetOperation
  \/ enterJoinRelation \/ enterJoinCriteria \/ exitJoinType \/ exitJoinRelation
  \/ getQueryPlan
==============================================================================
