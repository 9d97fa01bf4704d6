------------------------- MODULE MCQueryCompilation -------------------------
EXTENDS QueryCompilation

(* The type that the planner gives an arithmetic function of two numbers is *)
(* the type of the value that the generated code computes for it (the       *)
(* comment in inferNumericDataType: "by following the c++ rules").          *)
ASSUME ArithmeticFollowsCpp ==
  \A left, right \in SignedIntegers \cup UnsignedIntegers \cup Floats :
    inferNumericDataType(left, right) = UsualArithmeticConversion(left, right)

W(word) == <<word>>
F(word) == FieldAccess(W(word))
N(literal) == ConstantValue("INT32", literal)
Text1 == ConstantValue(VARSIZED, "geometry")

(* One source with two texts, a distance, two coordinates and the seconds;  *)
(* one with numbers and a time; one that is read raw.                       *)
MCCatalog ==
  (W("trips") :> [physical |-> 1, raw |-> FALSE, fields |->
     <<Field(W("g"), VARSIZED), Field(W("h"), VARSIZED), Field(W("d"), "FLOAT64"), Field(W("k"), "INT32"),
       Field(W("lon"), "FLOAT64"), Field(W("lat"), "FLOAT32"), Field(W("ts"), "UINT64")>>])
  @@ (W("s") :> [physical |-> 1, raw |-> FALSE, fields |->
     <<Field(W("ts"), "UINT64"), Field(W("a"), "INT32"), Field(W("b"), "INT64"), Field(W("t"), VARSIZED)>>])
  @@ (W("s2") :> [physical |-> 1, raw |-> FALSE, fields |->
     <<Field(W("ts"), "UINT64"), Field(W("a"), "INT32"), Field(W("b"), "INT64"), Field(W("t"), VARSIZED)>>])
  @@ (W("one") :> [physical |-> 1, raw |-> FALSE, fields |-> <<Field(W("f"), "BOOLEAN"), Field(W("g"), "INT64")>>])
  @@ (W("two") :> [physical |-> 2, raw |-> FALSE, fields |-> <<Field(W("f"), "BOOLEAN"), Field(W("g"), "INT64")>>])
  @@ (W("r") :> [physical |-> 1, raw |-> TRUE, fields |->
     <<Field(W("ts"), "UINT64"), Field(W("a"), "INT32"), Field(W("c"), "FLOAT64")>>])
MCNumerals == {"1", "2"}

From(source) == Source(W(source))
Simple(items, source, where) == Select(items, From(source), where, None, <<>>, None, <<W("sink")>>)

(* Every call with a case of its own, over fields of the types it asks for, *)
(* in the select clause and in a condition.                                 *)
ArgumentOf(kind, i) ==
  CASE kind \in {VARSIZED, "any"} -> IF i = 1 THEN F("g") ELSE F("h")
    [] kind = "numeric" -> IF i % 2 = 1 THEN F("d") ELSE F("lat")
    [] kind = "UINT64" -> F("ts")
CallsOf(call) ==
  {Apply(call.fn, [i \in DOMAIN layout |-> ArgumentOf(layout[i], i)]) :
     layout \in {l \in ClassOf[call.fn].layouts : Len(l) \in call.counts}}
Selected(e) == Simple(<<Item(e, W("x"))>>, "trips", None)
Filtered(e) == Simple(<<Item(Star, None)>>, "trips", <<Apply("Equals", <<e, N("1")>>)>>)
LiteralCalls ==
  {Apply(call.fn, <<F("lon"), F("lat"), F("ts"), Text1>>) : call \in {c \in TokenCalls : c.literals /\ 4 \in c.counts}}
CallQueries ==
  UNION {{Selected(e) : e \in CallsOf(call)} \cup {Filtered(e) : e \in CallsOf(call)} : call \in TokenCalls}
  \cup {Selected(e) : e \in LiteralCalls} \cup {Filtered(e) : e \in LiteralCalls}

(* Arithmetic, conditions and implicit names, nested two deep, so that      *)
(* every handler finds operands that another handler left.                  *)
Products(x, y) == {Apply(op, <<x, y>>) : op \in Values(ArithmeticTokens)}
Plus(x) == Apply("UnaryPlus", <<x>>)
Arithmetic ==
  UNION {Products(e, N("2")) \cup Products(F("b"), e) : e \in Products(F("a"), F("b"))}
  \cup Products(Plus(F("b")), F("a")) \cup {Plus(e) : e \in Products(F("a"), F("b"))}
Comparisons(x, y) == {Apply(op, <<x, y>>) : op \in Values(ComparisonTokens)}
Logic(x, y) == {Apply(op, <<x, y>>) : op \in Values(LogicTokens)}
Not(x) == Apply("Negate", <<x>>)
Conditions ==
  UNION {Logic(c, Not(d)) \cup {Not(e) : e \in Logic(d, c)} :
           c \in Comparisons(F("a"), N("1")), d \in Comparisons(Apply("Add", <<F("a"), F("b")>>), F("b"))}
NumberQueries ==
  {Simple(<<Item(F("b"), None), Item(e, W("x"))>>, "s", None) : e \in Arithmetic}
  \cup {Simple(<<Item(Star, None)>>, "s", <<c>>) : c \in Conditions}
  \cup {Simple(<<Item(F("a"), W("y")), Item(Apply("Mul", <<F("a"), F("b")>>), W("x")), Item(F("t"), None)>>, source, <<c>>) :
          c \in Comparisons(F("a"), Plus(F("b"))), source \in {"s", "s2"}}
  \cup {Simple(<<Item(Star, None)>>, "r", None)}
  \cup {Simple(<<Item(Not(F("f")), None), Item(Not(F("f")), None), Item(F("g"), None)>>, "one", None)}
  \cup {Simple(<<Item(Apply("Concat", <<F("t"), F("t")>>), W("x"))>>, "s", None)}

(* Windows and aggregations.                                                *)
Tumbling == Window(W("ts"), Duration(2, "SEC"), None)
Sliding  == Window(W("ts"), Duration(1, "MINUTE"), <<Duration(500, "MS")>>)
Total(agg, field) == Node(agg, "UNDEFINED", <<F(field)>>, <<>>)
Windowed(items, from, where, win, keys, having) == Select(items, from, where, <<win>>, keys, having, <<W("sink")>>)
Aggregates == Values(AggregateTokens) \ {"TemporalSequence"}
AggregationQueries ==
  {Windowed(<<Item(Total(agg, "b"), name)>>, From("s"), None, win, keys, None) :
     agg \in Aggregates, name \in {None, W("x")}, win \in {Tumbling, Sliding}, keys \in {<<>>, <<W("a")>>}}
  \cup {Windowed(<<Item(F("a"), None), Item(Total(agg, "b"), W("x")), Item(Total("Array_Agg", "b"), None)>>, From("s"),
                 <<c>>, Sliding, <<W("a")>>, <<Apply("Equals", <<F("a"), N("1")>>)>>) :
          agg \in Aggregates, c \in Comparisons(F("b"), N("1"))}

(* Queries in queries: an aggregation of computed fields, of another        *)
(* aggregation, of a join; a join of queries; unions.                       *)
Inner(items, source, where) == Select(items, From(source), where, None, <<>>, None, None)
Everything(source) == Inner(<<Item(Star, None)>>, source, None)
Computed == Inner(<<Item(Apply("Add", <<F("a"), F("b")>>), W("x")), Item(F("ts"), None)>>, "s",
                  <<Apply("Less", <<F("a"), F("b")>>)>>)
Counted(agg) == Select(<<Item(Total(agg, "b"), W("x")), Item(F("a"), None), Item(F("start"), None)>>, From("s"), None,
                       <<Tumbling>>, <<W("a")>>, None, None)
Daily == Window(W("start"), Duration(1, "DAY"), <<Duration(1, "HOUR")>>)
AllFrom(relation, where) == Select(<<Item(Star, None)>>, relation, where, None, <<>>, None, <<W("sink")>>)
Matching == Apply("Equals", <<F("a"), F("c")>>)
Join(left, right, on, win) == InnerJoin(Subquery(left), Subquery(right), on, win)
ComposedQueries ==
  {Windowed(<<Item(Total(agg, "x"), W("y"))>>, Subquery(Computed), None, win, <<>>, None) :
     agg \in Aggregates, win \in {Tumbling, Sliding}}
  \cup {Windowed(<<Item(Total(agg, "x"), W("y"))>>, Subquery(Counted(below)), None, Daily, keys, None) :
          agg \in Aggregates, below \in Aggregates \ {"Array_Agg"}, keys \in {<<>>, <<W("a")>>}}
  \cup {Windowed(<<Item(Total(agg, "b"), None)>>, Join(Everything("s"), Everything("r"), Matching, win), None, Daily, <<>>, None) :
          win \in {Tumbling, Sliding}, agg \in Aggregates}

JoinQueries ==
  {AllFrom(Join(Everything("s"), Everything("r"), Matching, win), where) :
     win \in {Tumbling, Sliding}, where \in {None, <<Apply("Less", <<F("b"), F("c")>>)>>}}
  \cup {AllFrom(Join(Everything("s"), Everything("r"), on, Tumbling), None) :
          on \in Logic(Matching, Not(Apply("Less", <<F("b"), F("c")>>)))}
  \cup {AllFrom(Join(Inner(<<Item(F("ts"), None), Item(e, W("a"))>>, "s", <<Apply("Less", <<F("a"), F("b")>>)>>),
                     Inner(<<Item(F("c"), None), Item(F("ts"), None)>>, "r", None), Matching, Tumbling), None) :
          e \in Products(F("a"), F("b"))}

UnionQueries ==
  {Union(Everything("s"), [Everything("s2") EXCEPT !.sink = <<W("sink")>>])}
  \cup {AllFrom(From("two"), where) : where \in {None, <<F("f")>>}}

MCQueries ==
  CallQueries \cup NumberQueries \cup AggregationQueries \cup ComposedQueries \cup JoinQueries \cup UnionQueries

(* Queries that name what there is not, leave out what must be there, or    *)
(* combine what does not fit.                                               *)
MCMalformed ==
  {[q EXCEPT !.sink = None] : q \in NumberQueries \cap {Simple(<<Item(Star, None)>>, "r", None)}}
  \cup {Simple(<<Item(Star, None)>>, "nowhere", None), Simple(<<Item(F("nothing"), None)>>, "s", None),
        Simple(<<Item(Apply("Add", <<F("a"), F("nothing")>>), W("x"))>>, "s", None),
        Simple(<<Item(Star, None)>>, "s", <<Apply("Add", <<F("a"), F("b")>>)>>),
        Simple(<<Item(Node("NOSUCHFUNCTION", "UNDEFINED", <<F("a")>>, <<>>), W("x"))>>, "s", None),
        Simple(<<Item(Apply("Add", <<F("a"), F("b")>>), None)>>, "s", None),
        Simple(<<Item(Apply("UnaryTilde", <<F("a")>>), W("x"))>>, "s", None),
        Simple(<<Item(Total("Sum", "b"), W("x"))>>, "s", None)}
  \cup {Windowed(<<Item(Total("Sum", "b"), W("x"))>>, From("s"), None, Window(W(field), Duration(2, "SEC"), None), <<>>, None) :
          field \in {"nothing", "t"}}
  \cup {Windowed(<<Item(Total("Sum", "nothing"), W("x"))>>, From("s"), None, Tumbling, <<>>, None),
        Windowed(<<Item(Total("Sum", "b"), W("x"))>>, From("s"), None, Tumbling, <<W("nothing")>>, None),
        AllFrom(InnerJoin(From("s"), Subquery(Everything("r")), Matching, Tumbling), None)}
==============================================================================
