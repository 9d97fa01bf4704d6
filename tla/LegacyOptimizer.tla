--------------------------- MODULE LegacyOptimizer ---------------------------
(***************************************************************************)
(* The phases that nebuli applies to a parsed plan (nes-nebuli/src/        *)
(* LegacyOptimizer), each a function from plan to plan.  A plan whose root *)
(* is a failure is one the phase could not produce.                        *)
(***************************************************************************)
EXTENDS LogicalPlans

CONSTANT Catalog   \* logical source name -> [fields: schema as declared, physical: how many]

(* SourceCatalog::addLogicalSource qualifies every field with the source.   *)
addLogicalSource(name, fields) ==
  [i \in DOMAIN fields |-> Field(name \o <<"$">> \o fields[i].name, fields[i].type)]

LogicalSchema(name) == addLogicalSource(name, Catalog[name].fields)
NotPlanned(how) == <<Fail(how)>>
Planned(plan) == ~ AnyFailed(plan)

(* Fields whose name does not start with the source's name get it.          *)
ResolveNames(name, schema) ==
  LET qualifier == name \o <<"$">>
      foreign == SelectSeq(schema, LAMBDA field : ~ IsPrefix(qualifier, field.name))
  IN  FoldLeft(LAMBDA s, field : renameField(s, field.name, qualifier \o field.name), schema, foreign)

SourceInferencePhase(plan) ==
  LET sources == getOperatorByType(plan, "SourceName")
      infer(p, source) ==
        replaceOperator(p, source, [source EXCEPT !.out = ResolveNames(source.name, LogicalSchema(source.name))])
  IN  CASE sources = <<>> -> NotPlanned(Terminated)
        [] \E i \in DOMAIN sources : sources[i].name \notin DOMAIN Catalog -> NotPlanned(Rejected)
        [] OTHER -> FoldLeft(infer, plan, sources)

(* One SourceDescriptor for every physical source, after the children that  *)
(* stay; every child that names the same logical source goes.               *)
SourceDescriptors(source) ==
  [i \in 1 .. Catalog[source.name].physical |->
     [Operator("SourceDescriptor", Append(source.id, i), <<>>)
        EXCEPT !.name = source.name, !.ins = <<LogicalSchema(source.name)>>, !.out = LogicalSchema(source.name)]]

LogicalSourceExpansionRule(plan) ==
  LET sources == getOperatorByType(plan, "SourceName")
      staying(parent, source) ==
        SelectSeq(parent.kids, LAMBDA kid : ~ (kid.op = "SourceName" /\ kid.name = source.name))
      expandBelow(parent, source) == [parent EXCEPT !.kids = staying(parent, source) \o SourceDescriptors(source)]
      expand(p, source) ==
        FoldLeft(LAMBDA q, parent : replaceSubtree(q, parent, expandBelow(parent, source)), p, getParents(p, source))
  IN  IF \E i \in DOMAIN sources : Catalog[sources[i].name].physical = 0 THEN NotPlanned(Rejected)
      ELSE FoldLeft(expand, plan, sources)

(* A Sequence operator below every aggregation that must see tuples in      *)
(* order.                                                                   *)
RequiresSequence(o) == \E i \in DOMAIN o.aggs : requiresSequentialAggregation(o.aggs[i])
SequentialAggregationRule(plan) ==
  LET ordered == SelectSeq(getOperatorByType(plan, "WindowedAggregation"), RequiresSequence)
      insert(p, agg) ==
        replaceSubtree(p, agg, [agg EXCEPT !.kids =
          <<[Operator("Sequence", Append(agg.id, 0), <<>>) EXCEPT !.kids = agg.kids]>>])
  IN  FoldLeft(insert, plan, ordered)

RECURSIVE propagateSchema(_)
propagateSchema(o) ==
  IF o.kids = <<>> THEN o
  ELSE IfAllMade(Each(propagateSchema, o.kids), LAMBDA kids :
         withInferredSchema([o EXCEPT !.kids = kids], Each(LAMBDA kid : kid.out, kids)))

TypeInferencePhase(plan) == Each(propagateSchema, plan)

(* The sources and the windowed operators get the ids 2, 3, ... in the      *)
(* order of the breadth first traversal; INITIAL_ORIGIN_ID is 1.            *)
INITIAL_ORIGIN_ID == 1
(* Mutant: the counter starts anew for the windowed operators.              *)
AssignOriginIdsByKind(plan) ==
  LET assigners == getOperatorsByTraits(plan)
      sources == SelectSeq(assigners, LAMBDA o : o.op = "SourceDescriptor")
      others == SelectSeq(assigners, LAMBDA o : o.op # "SourceDescriptor")
      number(p, ops) ==
        FoldLeft(LAMBDA q, i : replaceOperator(q, ops[i], [ops[i] EXCEPT !.inO = <<<<INITIAL_ORIGIN_ID + i>>>>,
                                                                         !.outO = <<INITIAL_ORIGIN_ID + i>>]),
                 p, [i \in DOMAIN ops |-> i])
  IN  number(number(plan, sources), others)

AssignOriginIds(plan) ==
  LET assigners == getOperatorsByTraits(plan)
      id(i) == INITIAL_ORIGIN_ID + i
      assigned(i) ==
        IF assigners[i].op = "SourceDescriptor"
        THEN [assigners[i] EXCEPT !.inO = <<<<id(i)>>>>, !.outO = <<id(i)>>]
        ELSE withOutputOriginIds(assigners[i], <<id(i)>>)
  IN  FoldLeft(LAMBDA p, i : replaceOperator(p, assigners[i], assigned(i)), plan, [i \in DOMAIN assigners |-> i])

RECURSIVE propagateOriginIds(_)
propagateOriginIds(o) ==
  LET withIds(kids, lists) ==
        IF o.op = "SourceDescriptor" THEN o
        ELSE IfMade(withInputOriginIds(o, lists), LAMBDA made :
               [IF OriginIdAssigner(o) THEN made ELSE withOutputOriginIds(made, lists[1]) EXCEPT !.kids = kids])
  IN  IfAllMade(Each(propagateOriginIds, o.kids), LAMBDA kids : withIds(kids, Each(LAMBDA kid : kid.outO, kids)))

OriginIdInferencePhase(plan) ==
  Each(propagateOriginIds, AssignOriginIds(plan))
==============================================================================
