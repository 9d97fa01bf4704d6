--------------------------- MODULE WrittenQueries ---------------------------
(***************************************************************************)
(* The function calls of the SQL dialect (AntlrSQLQueryPlanCreator::       *)
(* exitFunctionCall): for every token with a case of its own, the function *)
(* the case makes, the numbers of functions it expects to find in the      *)
(* builder, and whether literals may be among the arguments.               *)
(***************************************************************************)
EXTENDS LogicalPlans

Call(token, class, counts, literals) ==
  [token |-> token, fn |-> class.key, counts |-> counts, literals |-> literals]

(* The generated cases: exactly this many functions, no literals.           *)
SpatialCall(token, class, count) == Call(token, class, {count}, FALSE)

(* The cases on coordinates also take a literal geometry.                   *)
CoordinatesCall(token, class) == Call(token, class, {4, 6}, TRUE)

TEMPORAL_EINTERSECTS_GEOMETRY ==
  CoordinatesCall("TEMPORAL_EINTERSECTS_GEOMETRY", TemporalIntersectsGeometryLogicalFunction)
TEMPORAL_AINTERSECTS_GEOMETRY ==
  CoordinatesCall("TEMPORAL_AINTERSECTS_GEOMETRY", TemporalAIntersectsGeometryLogicalFunction)
TEMPORAL_ECONTAINS_GEOMETRY ==
  CoordinatesCall("TEMPORAL_ECONTAINS_GEOMETRY", TemporalEContainsGeometryLogicalFunction)
(* A name of the default case, with its own count.                          *)
TEMPORAL_INTERSECTS == SpatialCall("TEMPORAL_INTERSECTS", TemporalIntersectsFunction, 3)

(* The generated cases in the order of the switch, a few families at a time. *)
EverAndAlwaysIntersectsCases ==
  {SpatialCall("EINTERSECTS_TGEO_TGEO", EintersectsTgeoTgeoLogicalFunction, 2),
   SpatialCall("EINTERSECTS_TGEO_GEO", EintersectsTgeoGeoLogicalFunction, 2),
   SpatialCall("AINTERSECTS_TGEO_TGEO", AintersectsTgeoTgeoLogicalFunction, 2),
   SpatialCall("AINTERSECTS_TGEO_GEO", AintersectsTgeoGeoLogicalFunction, 2)}

AlwaysContainsOrDisjointCases ==
  {SpatialCall("ACONTAINS_GEO_TGEO", AcontainsGeoTgeoLogicalFunction, 2),
   SpatialCall("ACONTAINS_TGEO_TGEO", AcontainsTgeoTgeoLogicalFunction, 2),
   SpatialCall("ACONTAINS_TGEO_GEO", AcontainsTgeoGeoLogicalFunction, 2),
   SpatialCall("ADISJOINT_TGEO_GEO", AdisjointTgeoGeoLogicalFunction, 2),
   SpatialCall("ADISJOINT_TGEO_TGEO", AdisjointTgeoTgeoLogicalFunction, 2)}

EverAndAlwaysTouchesCases ==
  {SpatialCall("ATOUCHES_TGEO_GEO", AtouchesTgeoGeoLogicalFunction, 2),
   SpatialCall("ATOUCHES_TGEO_TGEO", AtouchesTgeoTgeoLogicalFunction, 2),
   SpatialCall("ATOUCHES_TPOINT_GEO", AtouchesTpointGeoLogicalFunction, 2),
   SpatialCall("ETOUCHES_TPOINT_GEO", EtouchesTpointGeoLogicalFunction, 2),
   SpatialCall("ETOUCHES_TGEO_GEO", EtouchesTgeoGeoLogicalFunction, 2),
   SpatialCall("ETOUCHES_TGEO_TGEO", EtouchesTgeoTgeoLogicalFunction, 2)}

WithinDistanceCases ==
  {SpatialCall("EDWITHIN_TGEO_GEO", EdwithinTgeoGeoLogicalFunction, 3),
   SpatialCall("ADWITHIN_TGEO_GEO", AdwithinTgeoGeoLogicalFunction, 3),
   SpatialCall("ADWITHIN_TGEO_TGEO", AdwithinTgeoTgeoLogicalFunction, 3)}

EverContainsOrCoversCases ==
  {SpatialCall("ECONTAINS_GEO_TGEO", EcontainsGeoTgeoLogicalFunction, 2),
   SpatialCall("ECONTAINS_TGEO_GEO", EcontainsTgeoGeoLogicalFunction, 2),
   SpatialCall("ECONTAINS_TGEO_TGEO", EcontainsTgeoTgeoLogicalFunction, 2),
   SpatialCall("ECOVERS_GEO_TGEO", EcoversGeoTgeoLogicalFunction, 2),
   SpatialCall("ECOVERS_TGEO_TGEO", EcoversTgeoTgeoLogicalFunction, 2),
   SpatialCall("ECOVERS_TGEO_GEO", EcoversTgeoGeoLogicalFunction, 2)}

EverDisjointOrWithinCases ==
  {SpatialCall("EDISJOINT_TGEO_GEO", EdisjointTgeoGeoLogicalFunction, 2),
   SpatialCall("EDISJOINT_TGEO_TGEO", EdisjointTgeoTgeoLogicalFunction, 2),
   SpatialCall("EDWITHIN_TGEO_TGEO", EdwithinTgeoTgeoLogicalFunction, 3)}

AboveAfterCases ==
  {SpatialCall("ABOVE_STBOX_TSPATIAL", AboveStboxTspatialLogicalFunction, 2),
   SpatialCall("ABOVE_TSPATIAL_STBOX", AboveTspatialStboxLogicalFunction, 2),
   SpatialCall("ABOVE_TSPATIAL_TSPATIAL", AboveTspatialTspatialLogicalFunction, 2),
   SpatialCall("AFTER_STBOX_TSPATIAL", AfterStboxTspatialLogicalFunction, 2),
   SpatialCall("AFTER_TSPATIAL_STBOX", AfterTspatialStboxLogicalFunction, 2),
   SpatialCall("AFTER_TSPATIAL_TSPATIAL", AfterTspatialTspatialLogicalFunction, 2)}

BackBeforeCases ==
  {SpatialCall("BACK_STBOX_TSPATIAL", BackStboxTspatialLogicalFunction, 2),
   SpatialCall("BACK_TSPATIAL_STBOX", BackTspatialStboxLogicalFunction, 2),
   SpatialCall("BACK_TSPATIAL_TSPATIAL", BackTspatialTspatialLogicalFunction, 2),
   SpatialCall("BEFORE_STBOX_TSPATIAL", BeforeStboxTspatialLogicalFunction, 2),
   SpatialCall("BEFORE_TSPATIAL_STBOX", BeforeTspatialStboxLogicalFunction, 2),
   SpatialCall("BEFORE_TSPATIAL_TSPATIAL", BeforeTspatialTspatialLogicalFunction, 2)}

BelowFrontCases ==
  {SpatialCall("BELOW_STBOX_TSPATIAL", BelowStboxTspatialLogicalFunction, 2),
   SpatialCall("BELOW_TSPATIAL_STBOX", BelowTspatialStboxLogicalFunction, 2),
   SpatialCall("BELOW_TSPATIAL_TSPATIAL", BelowTspatialTspatialLogicalFunction, 2),
   SpatialCall("FRONT_STBOX_TSPATIAL", FrontStboxTspatialLogicalFunction, 2),
   SpatialCall("FRONT_TSPATIAL_STBOX", FrontTspatialStboxLogicalFunction, 2),
   SpatialCall("FRONT_TSPATIAL_TSPATIAL", FrontTspatialTspatialLogicalFunction, 2)}

LeftOveraboveCases ==
  {SpatialCall("LEFT_STBOX_TSPATIAL", LeftStboxTspatialLogicalFunction, 2),
   SpatialCall("LEFT_TSPATIAL_STBOX", LeftTspatialStboxLogicalFunction, 2),
   SpatialCall("LEFT_TSPATIAL_TSPATIAL", LeftTspatialTspatialLogicalFunction, 2),
   SpatialCall("OVERABOVE_STBOX_TSPATIAL", OveraboveStboxTspatialLogicalFunction, 2),
   SpatialCall("OVERABOVE_TSPATIAL_STBOX", OveraboveTspatialStboxLogicalFunction, 2),
   SpatialCall("OVERABOVE_TSPATIAL_TSPATIAL", OveraboveTspatialTspatialLogicalFunction, 2)}

OverafterOverbackCases ==
  {SpatialCall("OVERAFTER_STBOX_TSPATIAL", OverafterStboxTspatialLogicalFunction, 2),
   SpatialCall("OVERAFTER_TSPATIAL_STBOX", OverafterTspatialStboxLogicalFunction, 2),
   SpatialCall("OVERAFTER_TSPATIAL_TSPATIAL", OverafterTspatialTspatialLogicalFunction, 2),
   SpatialCall("OVERBACK_STBOX_TSPATIAL", OverbackStboxTspatialLogicalFunction, 2),
   SpatialCall("OVERBACK_TSPATIAL_STBOX", OverbackTspatialStboxLogicalFunction, 2),
   SpatialCall("OVERBACK_TSPATIAL_TSPATIAL", OverbackTspatialTspatialLogicalFunction, 2)}

OverbeforeOverbelowCases ==
  {SpatialCall("OVERBEFORE_STBOX_TSPATIAL", OverbeforeStboxTspatialLogicalFunction, 2),
   SpatialCall("OVERBEFORE_TSPATIAL_STBOX", OverbeforeTspatialStboxLogicalFunction, 2),
   SpatialCall("OVERBEFORE_TSPATIAL_TSPATIAL", OverbeforeTspatialTspatialLogicalFunction, 2),
   SpatialCall("OVERBELOW_STBOX_TSPATIAL", OverbelowStboxTspatialLogicalFunction, 2),
   SpatialCall("OVERBELOW_TSPATIAL_STBOX", OverbelowTspatialStboxLogicalFunction, 2),
   SpatialCall("OVERBELOW_TSPATIAL_TSPATIAL", OverbelowTspatialTspatialLogicalFunction, 2)}

OverfrontOverleftCases ==
  {SpatialCall("OVERFRONT_STBOX_TSPATIAL", OverfrontStboxTspatialLogicalFunction, 2),
   SpatialCall("OVERFRONT_TSPATIAL_STBOX", OverfrontTspatialStboxLogicalFunction, 2),
   SpatialCall("OVERFRONT_TSPATIAL_TSPATIAL", OverfrontTspatialTspatialLogicalFunction, 2),
   SpatialCall("OVERLEFT_STBOX_TSPATIAL", OverleftStboxTspatialLogicalFunction, 2),
   SpatialCall("OVERLEFT_TSPATIAL_STBOX", OverleftTspatialStboxLogicalFunction, 2),
   SpatialCall("OVERLEFT_TSPATIAL_TSPATIAL", OverleftTspatialTspatialLogicalFunction, 2)}

OverrightRightCases ==
  {SpatialCall("OVERRIGHT_STBOX_TSPATIAL", OverrightStboxTspatialLogicalFunction, 2),
   SpatialCall("OVERRIGHT_TSPATIAL_STBOX", OverrightTspatialStboxLogicalFunction, 2),
   SpatialCall("OVERRIGHT_TSPATIAL_TSPATIAL", OverrightTspatialTspatialLogicalFunction, 2),
   SpatialCall("RIGHT_STBOX_TSPATIAL", RightStboxTspatialLogicalFunction, 2),
   SpatialCall("RIGHT_TSPATIAL_STBOX", RightTspatialStboxLogicalFunction, 2),
   SpatialCall("RIGHT_TSPATIAL_TSPATIAL", RightTspatialTspatialLogicalFunction, 2)}

AdjacentContainedCases ==
  {SpatialCall("ADJACENT_STBOX_TSPATIAL", AdjacentStboxTspatialLogicalFunction, 2),
   SpatialCall("ADJACENT_TSPATIAL_STBOX", AdjacentTspatialStboxLogicalFunction, 2),
   SpatialCall("ADJACENT_TSPATIAL_TSPATIAL", AdjacentTspatialTspatialLogicalFunction, 2),
   SpatialCall("CONTAINED_STBOX_TSPATIAL", ContainedStboxTspatialLogicalFunction, 2),
   SpatialCall("CONTAINED_TSPATIAL_STBOX", ContainedTspatialStboxLogicalFunction, 2),
   SpatialCall("CONTAINED_TSPATIAL_TSPATIAL", ContainedTspatialTspatialLogicalFunction, 2)}

ContainsOverlapsCases ==
  {SpatialCall("CONTAINS_STBOX_TSPATIAL", ContainsStboxTspatialLogicalFunction, 2),
   SpatialCall("CONTAINS_TSPATIAL_STBOX", ContainsTspatialStboxLogicalFunction, 2),
   SpatialCall("CONTAINS_TSPATIAL_TSPATIAL", ContainsTspatialTspatialLogicalFunction, 2),
   SpatialCall("OVERLAPS_STBOX_TSPATIAL", OverlapsStboxTspatialLogicalFunction, 2),
   SpatialCall("OVERLAPS_TSPATIAL_STBOX", OverlapsTspatialStboxLogicalFunction, 2),
   SpatialCall("OVERLAPS_TSPATIAL_TSPATIAL", OverlapsTspatialTspatialLogicalFunction, 2)}

SameAlwaysEqualCases ==
  {SpatialCall("SAME_STBOX_TSPATIAL", SameStboxTspatialLogicalFunction, 2),
   SpatialCall("SAME_TSPATIAL_STBOX", SameTspatialStboxLogicalFunction, 2),
   SpatialCall("SAME_TSPATIAL_TSPATIAL", SameTspatialTspatialLogicalFunction, 2),
   SpatialCall("ALWAYS_EQ_GEO_TGEO", AlwaysEqGeoTgeoLogicalFunction, 2),
   SpatialCall("ALWAYS_EQ_TGEO_GEO", AlwaysEqTgeoGeoLogicalFunction, 2),
   SpatialCall("ALWAYS_EQ_TGEO_TGEO", AlwaysEqTgeoTgeoLogicalFunction, 2)}

AlwaysDiffersEverEqualCases ==
  {SpatialCall("ALWAYS_NE_GEO_TGEO", AlwaysNeGeoTgeoLogicalFunction, 2),
   SpatialCall("ALWAYS_NE_TGEO_GEO", AlwaysNeTgeoGeoLogicalFunction, 2),
   SpatialCall("ALWAYS_NE_TGEO_TGEO", AlwaysNeTgeoTgeoLogicalFunction, 2),
   SpatialCall("EVER_EQ_GEO_TGEO", EverEqGeoTgeoLogicalFunction, 2),
   SpatialCall("EVER_EQ_TGEO_GEO", EverEqTgeoGeoLogicalFunction, 2),
   SpatialCall("EVER_EQ_TGEO_TGEO", EverEqTgeoTgeoLogicalFunction, 2)}

EverDiffersTcontainsCases ==
  {SpatialCall("EVER_NE_GEO_TGEO", EverNeGeoTgeoLogicalFunction, 2),
   SpatialCall("EVER_NE_TGEO_GEO", EverNeTgeoGeoLogicalFunction, 2),
   SpatialCall("EVER_NE_TGEO_TGEO", EverNeTgeoTgeoLogicalFunction, 2),
   SpatialCall("TCONTAINS_GEO_TGEO", TcontainsGeoTgeoLogicalFunction, 4)}

(* The cases of the switch.                                                 *)
FunctionTokens ==
  {TEMPORAL_EINTERSECTS_GEOMETRY, TEMPORAL_AINTERSECTS_GEOMETRY, TEMPORAL_ECONTAINS_GEOMETRY,
   TEMPORAL_INTERSECTS}
  \cup EverAndAlwaysIntersectsCases \cup AlwaysContainsOrDisjointCases \cup EverAndAlwaysTouchesCases
  \cup WithinDistanceCases \cup EverContainsOrCoversCases \cup EverDisjointOrWithinCases
  \cup AboveAfterCases \cup BackBeforeCases \cup BelowFrontCases
  \cup LeftOveraboveCases \cup OverafterOverbackCases \cup OverbeforeOverbelowCases
  \cup OverfrontOverleftCases \cup OverrightRightCases \cup AdjacentContainedCases
  \cup ContainsOverlapsCases \cup SameAlwaysEqualCases \cup AlwaysDiffersEverEqualCases
  \cup EverDiffersTcontainsCases

CONSTANT TokenCalls    \* the calls with a case of their own: FunctionTokens
CallOf == [token \in {call.token : call \in TokenCalls} |-> CHOOSE call \in TokenCalls : call.token = token]

-----------------------------------------------------------------------------
(***************************************************************************)
(* Queries as written, and the order in which ANTLR's tree walker calls    *)
(* the listener (the grammar is nes-sql-parser/AntlrSQL.g4; the walker is  *)
(* a library).  A written expression is the function tree it denotes; the  *)
(* forms that have no class of their own are NotEquals and the expressions *)
(* with a sign.  No query has a unary minus: the listener multiplies by an *)
(* unsigned -1, which is not what the text means.                          *)
(***************************************************************************)
None == <<>>        \* an optional clause that is absent; <<clause>> if present

Select(items, from, where, win, keys, having, sink) ==
  [kind |-> "select", items |-> items, from |-> from, where |-> where, win |-> win, keys |-> keys,
   having |-> having, sink |-> sink]
Union(left, right) == [kind |-> "union", left |-> left, right |-> right]
Source(name) == [kind |-> "source", name |-> name]
Subquery(query) == [kind |-> "subquery", query |-> query]
InnerJoin(left, right, on, win) == [kind |-> "join", left |-> left, right |-> right, on |-> on, win |-> win]
Item(expr, name) == [expr |-> expr, name |-> name]
Star == Node("Star", "UNDEFINED", <<>>, <<>>)

(* A window: its time field or None, its size, and None or the advance.     *)
Duration(count, unit) == [count |-> count, unit |-> unit]
Window(field, size, advance) == [field |-> field, size |-> size, advance |-> advance]

Apply(key, kids) ==
  IF key \in Registered THEN Make(ClassOf[key], kids) ELSE Node(key, "UNDEFINED", kids, <<>>)

AggregateTokens ==
  [SUM |-> "Sum", MIN |-> "Min", MAX |-> "Max", MEDIAN |-> "Median", VAR |-> "Var", AVG |-> "Avg",
   COUNT |-> "Count", ARRAY_AGG |-> "Array_Agg", TEMPORAL_SEQUENCE |-> "TemporalSequence"]

ArithmeticTokens == [ASTERISK |-> "Mul", SLASH |-> "Div", PLUS |-> "Add", MINUS |-> "Sub", PERCENT |-> "Mod"]
SignTokens == [PLUS |-> "UnaryPlus", TILDE |-> "UnaryTilde"]
ComparisonTokens == [EQ |-> "Equals", NEQJ |-> "NotEquals", LT |-> "Less", GT |-> "Greater",
                     GTE |-> "GreaterEquals", LTE |-> "LessEquals"]
LogicTokens == [AND |-> "And", OR |-> "Or"]

Spelled(tokens, fn) == CHOOSE t \in DOMAIN tokens : tokens[t] = fn
Values(tokens) == {tokens[t] : t \in DOMAIN tokens}

(* How a call is spelled: with its own token, or by the name it is          *)
(* registered under.                                                        *)
CallToken(fn) ==
  IF fn \in Values(AggregateTokens) THEN Spelled(AggregateTokens, fn)
  ELSE IF \E call \in TokenCalls : call.fn = fn THEN (CHOOSE call \in TokenCalls : call.fn = fn).token
  ELSE fn

----------------------------------------------------------------------------
On(handler, what) == <<[on |-> handler, what |-> what]>>
Identifier(name, parent) == On("enterIdentifier", [name |-> name, parent |-> parent])

IsLiteralArgument(call, arg) ==
  call.fn \in {c.fn : c \in {d \in TokenCalls : d.literals}} /\ arg.fn = "ConstantValue" /\ arg.type = VARSIZED

RECURSIVE WalkExpression(_)
WalkExpression(e) ==
  LET walked(i) == WalkExpression(e.kids[i])
      argument(i) == IF IsLiteralArgument(e, e.kids[i]) THEN On("exitConstantDefault", e.kids[i].val[1]) ELSE walked(i)
  IN  CASE e = Star -> <<>>
        [] e.fn = "FieldAccess" -> Identifier(e.val, "PrimaryExpression")
        [] e.fn = "ConstantValue" -> On("exitConstantDefault", e.val[1]) \o On("exitFunctionCall", e.type)
        [] e.fn \in Values(ArithmeticTokens) ->
             walked(1) \o walked(2) \o On("exitArithmeticBinary", Spelled(ArithmeticTokens, e.fn))
        [] e.fn \in Values(SignTokens) -> walked(1) \o On("exitArithmeticUnary", Spelled(SignTokens, e.fn))
        [] e.fn \in Values(ComparisonTokens) ->
             walked(1) \o On("enterComparisonOperator", Spelled(ComparisonTokens, e.fn)) \o walked(2)
             \o On("exitComparison", <<>>)
        [] e.fn \in Values(LogicTokens) -> walked(1) \o walked(2) \o On("exitLogicalBinary", Spelled(LogicTokens, e.fn))
        [] e.fn = "Negate" -> walked(1) \o On("exitLogicalNot", <<>>)
        [] OTHER -> FlattenSeq([i \in DOMAIN e.kids |-> argument(i)]) \o On("exitFunctionCall", CallToken(e.fn))

WalkWindow(win) ==
  On("enterWindowClause", <<>>)
  \o (IF win.field = None THEN <<>> ELSE On("exitTimestampParameter", win.field))
  \o On("enterTimeUnit", [unit |-> win.size.unit, advance |-> FALSE])
  \o On("exitSizeParameter", win.size.count)
  \o (IF win.advance = None THEN On("exitTumblingWindow", <<>>)
      ELSE On("enterTimeUnit", [unit |-> win.advance[1].unit, advance |-> TRUE])
           \o On("exitAdvancebyParameter", win.advance[1].count)
           \o On("exitSlidingWindow", <<>>))
  \o On("exitWindowClause", <<>>)

WalkItem(item) ==
  WalkExpression(item.expr)
  \o (IF item.name = None THEN <<>> ELSE Identifier(item.name, "NamedExpression"))
  \o On("exitNamedExpression", item.name # None)

Clause(present, walked) == IF present THEN walked ELSE <<>>

RECURSIVE WalkRelation(_)
RECURSIVE WalkQuery(_, _)
WalkRelation(r) ==
  CASE r.kind = "source"   -> Identifier(r.name, "ErrorCapturingIdentifier")
    [] r.kind = "subquery" -> WalkQuery(r.query, FALSE)
    [] r.kind = "join"     ->
         WalkRelation(r.left) \o On("enterJoinRelation", <<>>) \o On("exitJoinType", "INNER")
         \o WalkRelation(r.right) \o On("enterJoinCriteria", <<>>) \o WalkExpression(r.on)
         \o WalkWindow(r.win) \o On("exitJoinRelation", <<>>)

WalkQuery(q, inUnion) ==
  IF q.kind = "union"
  THEN WalkQuery(q.left, TRUE) \o WalkQuery(q.right, TRUE) \o On("exitSetOperation", <<>>)
  ELSE On("enterPrimaryQuery", inUnion)
       \o On("enterSelectClause", <<>>) \o FlattenSeq([i \in DOMAIN q.items |-> WalkItem(q.items[i])])
       \o On("exitSelectClause", <<>>)
       \o On("enterFromClause", <<>>) \o WalkRelation(q.from) \o On("exitFromClause", <<>>)
       \o Clause(q.where # None, On("enterWhereClause", <<>>) \o FlattenSeq([i \in DOMAIN q.where |-> WalkExpression(q.where[i])])
                                 \o On("exitWhereClause", <<>>))
       \o Clause(q.keys # <<>>, On("enterGroupByClause", <<>>)
                                \o FlattenSeq([i \in DOMAIN q.keys |-> Identifier(q.keys[i], "PrimaryExpression")])
                                \o On("exitGroupByClause", <<>>))
       \o FlattenSeq([i \in DOMAIN q.win |-> WalkWindow(q.win[i])])
       \o Clause(q.having # None, On("enterHavingClause", <<>>)
                                  \o FlattenSeq([i \in DOMAIN q.having |-> WalkExpression(q.having[i])])
                                  \o On("exitHavingClause", <<>>))
       \o Clause(q.sink # None, On("enterSinkClause", q.sink))
       \o On("exitPrimaryQuery", <<>>)

Walk(q) == WalkQuery(q, FALSE)

----------------------------------------------------------------------------
(***************************************************************************)
(* What a written query means, clause by clause: the plan without ids that *)
(* a reader of the SQL text expects.                                       *)
(***************************************************************************)
RECURSIVE Meaning(_)
Meaning(e) ==
  LET kids == Each(Meaning, e.kids)
  IN  CASE e.fn = "NotEquals" -> Apply("Negate", <<Apply("Equals", kids)>>)
        [] e.fn = "UnaryPlus" -> kids[1]
        [] e.kids = <<>> -> e
        [] OTHER -> Apply(e.fn, kids)

Milliseconds(d) ==
  d.count * [MS |-> 1, SEC |-> 1000, MINUTE |-> 60000, HOUR |-> 3600000, DAY |-> 86400000][d.unit]

WindowMeaning(win) ==
  [time |-> IF win.field = None THEN "ingestion" ELSE "event", field |-> win.field,
   size |-> Milliseconds(win.size),
   slide |-> IF win.advance = None THEN Milliseconds(win.size) ELSE Milliseconds(win.advance[1])]

IsAggregate(item) == item.expr.fn \in Values(AggregateTokens)
AggregateName(item) ==
  IF item.name # None THEN item.name
  ELSE item.expr.kids[1].val \o <<"_">> \o <<AggregationOf[item.expr.fn].name>>
AggregateMeaning(item) == [Aggregate(item.expr.fn, item.expr.kids) EXCEPT !.as = FieldAccess(AggregateName(item))]

(* The n-th select item without a name that is not a field gets its number. *)
ImplicitName(items, i) ==
  LET before == {j \in 1 .. i - 1 : items[j].name = None /\ items[j].expr.fn # "FieldAccess" /\ ~ IsAggregate(items[j])}
  IN  items[i].expr.kids[1].val \o <<"_">> \o <<ToString(Cardinality(before))>>

ItemField(items, i) ==
  CASE IsAggregate(items[i]) -> FieldAccess(AggregateName(items[i]))
    [] ~ IsAggregate(items[i]) /\ items[i].name # None -> FieldAccess(items[i].name)
    [] items[i].expr.fn = "FieldAccess" /\ items[i].name = None -> items[i].expr
    [] OTHER -> FieldAccess(ImplicitName(items, i))

NoId == <<>>

Filter(conditions, plan) == FoldLeft(LAMBDA p, e : addSelection(Meaning(e), p, NoId), plan, conditions)

Aggregation(q, plan) ==
  LET aggregates == SelectSeq(q.items, IsAggregate)
  IN  IF aggregates = <<>> THEN plan
      ELSE addWindowAggregation(plan, WindowMeaning(q.win[1]), Each(AggregateMeaning, aggregates),
                                Each(FieldAccess, q.keys), NoId)

(* A map for every item that is not just a field or an aggregate.           *)
Computation(items, plan) ==
  LET isComputed(i) == ~ IsAggregate(items[i]) /\ (items[i].name # None \/ items[i].expr.fn \notin {"FieldAccess", "Star"})
      assignment(i) == Make(FieldAssignmentLogicalFunction, <<ItemField(items, i), Meaning(items[i].expr)>>)
  IN  FoldLeft(LAMBDA p, i : addMap(assignment(i), p, NoId), plan, SelectSeq([i \in DOMAIN items |-> i], isComputed))

Choice(items, plan) ==
  IF items = <<Item(Star, None)>> THEN plan
  ELSE addProjection([i \in DOMAIN items |-> ItemField(items, i)], plan, NoId)

RECURSIVE RelationMeaning(_)
RECURSIVE QueryMeaning(_)
RelationMeaning(r) ==
  CASE r.kind = "source"   -> createLogicalPlan(r.name, NoId)
    [] r.kind = "subquery" -> QueryMeaning(r.query)
    [] r.kind = "join"     ->
         addJoin(RelationMeaning(r.left), RelationMeaning(r.right), Meaning(r.on), WindowMeaning(r.win), NoId)

QueryMeaning(q) ==
  IF q.kind = "union" THEN addUnion(QueryMeaning(q.left), QueryMeaning(q.right), NoId)
  ELSE Filter(q.having,
         Choice(q.items, Computation(q.items, Aggregation(q, Filter(q.where, RelationMeaning(q.from))))))

RECURSIVE WithoutIds(_)
WithoutIds(plan) == Each(LAMBDA o : [o EXCEPT !.id = NoId, !.kids = WithoutIds(o.kids)], plan)
=============================================================================
