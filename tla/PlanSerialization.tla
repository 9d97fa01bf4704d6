------------------------- MODULE PlanSerialization -------------------------
(***************************************************************************)
(* The wire between client and worker: serialize() and the registrar of    *)
(* every logical operator, and nes-logical-operators/src/Serialization.    *)
(* The message of a plan is the sequence of the messages of its operators, *)
(* each with the ids of its children.  The registrar of a kind builds the  *)
(* operator from its configuration and infers its schema again from the    *)
(* input schemas it was sent; Union restores the schemas it was sent;      *)
(* sources and sinks are rebuilt from their descriptors.                   *)
(***************************************************************************)
EXTENDS LogicalPlans

(* What every operator writes: id, ids of the children, schemas, origin     *)
(* ids.                                                                     *)
Envelope(o) ==
  [o EXCEPT !.kids = Each(LAMBDA kid : kid.id, o.kids),
            !.ins  = Each(serializeSchema, o.ins),
            !.out  = serializeSchema(o.out)]

WithFunctions(o) == [Envelope(o) EXCEPT !.fns = Each(serializeFunction, o.fns)]

(* The time characteristic is written as event time, whatever it is.        *)
serializeWindow(win) == [win EXCEPT !.time = "event"]

serializeSelection(o)  == WithFunctions(o)
serializeMap(o)        == WithFunctions(o)
serializeProjection(o) == WithFunctions(o)
serializeUnion(o)      == Envelope(o)
serializeSequence(o)   == Envelope(o)
serializeEventTimeWatermarkAssigner(o)     == WithFunctions(o)
serializeIngestionTimeWatermarkAssigner(o) == Envelope(o)
serializeJoin(o) == [WithFunctions(o) EXCEPT !.win = serializeWindow(o.win)]
serializeWindowedAggregation(o) ==
  [WithFunctions(o) EXCEPT !.aggs = Each(serializeAggregation, o.aggs), !.win = serializeWindow(o.win)]
(* The schema is part of the descriptor; origin ids are not sent.           *)
serializeSink(o) == [Envelope(o) EXCEPT !.inO = <<>>, !.outO = <<>>]
serializeSourceDescriptor(o) == Envelope(o)

serializeOperator(o) ==
  CASE o.op = "Selection"           -> serializeSelection(o)
    [] o.op = "Map"                 -> serializeMap(o)
    [] o.op = "Projection"          -> serializeProjection(o)
    [] o.op = "Union"               -> serializeUnion(o)
    [] o.op = "Sequence"            -> serializeSequence(o)
    [] o.op = "EventTimeWatermarkAssigner"     -> serializeEventTimeWatermarkAssigner(o)
    [] o.op = "IngestionTimeWatermarkAssigner" -> serializeIngestionTimeWatermarkAssigner(o)
    [] o.op = "Join"                -> serializeJoin(o)
    [] o.op = "WindowedAggregation" -> serializeWindowedAggregation(o)
    [] o.op = "Sink"                -> serializeSink(o)
    [] o.op = "SourceDescriptor"    -> serializeSourceDescriptor(o)

serializeQueryPlan(plan) ==
  LET ops == BFSRange(plan) IN [i \in DOMAIN ops |-> serializeOperator(ops[i])]

----------------------------------------------------------------------------
(* What a registrar makes of the configuration it reads: fns and aggs are   *)
(* the functions and aggregations of the message, deserialized.             *)
RegisterSelection(m, fns)  == Operator("Selection", m.id, fns)
RegisterMap(m, fns)        == Operator("Map", m.id, fns)
RegisterProjection(m, fns) == Operator("Projection", m.id, fns)
RegisterSequence(m)        == Operator("Sequence", m.id, <<>>)
RegisterEventTimeWatermarkAssigner(m, fns) == Operator("EventTimeWatermarkAssigner", m.id, fns)
RegisterIngestionTimeWatermarkAssigner(m)  == Operator("IngestionTimeWatermarkAssigner", m.id, <<>>)
RegisterJoin(m, fns) == [Operator("Join", m.id, fns) EXCEPT !.win = m.win]
RegisterWindowedAggregation(m, keys, aggs) ==
  [Operator("WindowedAggregation", m.id, keys) EXCEPT !.aggs = aggs, !.win = m.win]
RegisterUnion(m) == [Operator("Union", m.id, <<>>) EXCEPT !.ins = m.ins, !.out = m.out]

LogicalOperatorRegistry(m, fns, aggs) ==
  CASE m.op = "Selection"           -> RegisterSelection(m, fns)
    [] m.op = "Map"                 -> RegisterMap(m, fns)
    [] m.op = "Projection"          -> RegisterProjection(m, fns)
    [] m.op = "Sequence"            -> RegisterSequence(m)
    [] m.op = "EventTimeWatermarkAssigner"     -> RegisterEventTimeWatermarkAssigner(m, fns)
    [] m.op = "IngestionTimeWatermarkAssigner" -> RegisterIngestionTimeWatermarkAssigner(m)
    [] m.op = "Join"                -> RegisterJoin(m, fns)
    [] m.op = "WindowedAggregation" -> RegisterWindowedAggregation(m, fns, aggs)

(* The end of a registrar: every one but Union's infers the schema again.   *)
WithOrigins(o, m) == IfMade(withInputOriginIds(o, m.inO), LAMBDA p : withOutputOriginIds(p, m.outO))
Inferred(o, m) == IfMade(withInferredSchema(o, m.ins), LAMBDA p : WithOrigins(p, m))

deserializeOperator(m) ==
  CASE m.op \in {"SourceDescriptor", "Sink"} -> [m EXCEPT !.kids = <<>>]
    [] m.op = "Union" -> WithOrigins(RegisterUnion(m), m)
    [] OTHER ->
         IfAllInferred(Each(deserializeFunction, m.fns), LAMBDA fns :
           IfAggregated(Each(deserializeWindowAggregationFunction, m.aggs), LAMBDA aggs :
             Inferred(LogicalOperatorRegistry(m, fns, aggs), m)))

RECURSIVE Attach(_, _)
Attach(message, id) ==
  LET m == SelectSeq(message, LAMBDA e : e.id = id)[1]
  IN  IfAllMade(Each(LAMBDA kid : Attach(message, kid), m.kids), LAMBDA kids :
        IfMade(deserializeOperator(m), LAMBDA o : [o EXCEPT !.kids = kids]))

deserializeQueryPlan(message) == <<Attach(message, message[1].id)>>
==============================================================================
