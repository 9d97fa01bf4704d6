------------------------ MODULE MeosLogicalFunctions ------------------------
(***************************************************************************)
(* What the classes of nes-logical-operators/src/Functions have in common. *)
(* Every class is written out by hand in C++; they differ in the few       *)
(* points that the fields of a class record name, and LogicalFunctions     *)
(* gives the members of a class their meaning from its record:             *)
(*   key      the name under which the class is registered                 *)
(*   name     its NAME: what it calls itself on the wire and when lowered  *)
(*   layouts  the argument types withInferredDataType accepts              *)
(*   checks   whether it looks at the inferred children or at its own,     *)
(*            not yet inferred ones                                        *)
(*   fails    what a wrong type does: an assertion or an exception         *)
(*   made     the type its constructor gives it                            *)
(*   rewired  the type withChildren gives it, "kept" if it keeps its own   *)
(*   equal    how operator== compares two members                          *)
(*   wire     the order in which serialize writes the children             *)
(***************************************************************************)
EXTENDS Schemas

(* The assertions PRECONDITION and INVARIANT end the process; an exception  *)
(* is reported to whoever submitted the query.                              *)
Terminated == "terminated"
Rejected   == "rejected"

FunctionClass(key, layouts, made) ==
  [key |-> key, name |-> key, layouts |-> layouts, checks |-> "inferred", fails |-> Terminated,
   made |-> made, rewired |-> "kept", equal |-> "ordered", wire |-> "inOrder"]

(* The argument types an assertion of withInferredDataType distinguishes.   *)
Fits(type, kind) ==
  \/ kind = "any"
  \/ kind = "numeric" /\ isNumeric(type)
  \/ kind = type

Arities(class) == {Len(layout) : layout \in class.layouts}

(* The generated MEOS functions: their result, and one layout of arguments. *)
MeosFunction(key, layout) == FunctionClass(key, {layout}, "INT32")

UnaryArithmetic(key)  == FunctionClass(key, {<<"any">>}, "child")
BinaryArithmetic(key) == [FunctionClass(key, {<<"any", "any">>}, "join") EXCEPT !.rewired = "join"]
Comparison(key)       == FunctionClass(key, {<<"any", "any">>}, "BOOLEAN")

-----------------------------------------------------------------------------
(***************************************************************************)
(* The spatio-temporal functions of nes-logical-operators/src/Functions/   *)
(* Meos, one record per class: the types its parameters must have after    *)
(* inference, as the assertions of its withInferredDataType state them.    *)
(***************************************************************************)
VARSIZED == "VARSIZED"

AboveTspatialStboxLogicalFunction == MeosFunction("AboveTspatialStbox", <<VARSIZED, VARSIZED>>)
AboveTspatialTspatialLogicalFunction == MeosFunction("AboveTspatialTspatial", <<VARSIZED, VARSIZED>>)
AcontainsGeoTgeoLogicalFunction == MeosFunction("AcontainsGeoTgeo", <<VARSIZED, VARSIZED>>)
AcontainsTgeoGeoLogicalFunction == MeosFunction("AcontainsTgeoGeo", <<VARSIZED, VARSIZED>>)
AcontainsTgeoTgeoLogicalFunction == MeosFunction("AcontainsTgeoTgeo", <<VARSIZED, VARSIZED>>)
AdisjointTgeoGeoLogicalFunction == MeosFunction("AdisjointTgeoGeo", <<VARSIZED, VARSIZED>>)
AdisjointTgeoTgeoLogicalFunction == MeosFunction("AdisjointTgeoTgeo", <<VARSIZED, VARSIZED>>)
AdjacentStboxTspatialLogicalFunction == MeosFunction("AdjacentStboxTspatial", <<VARSIZED, VARSIZED>>)
AdjacentTspatialStboxLogicalFunction == MeosFunction("AdjacentTspatialStbox", <<VARSIZED, VARSIZED>>)
AdjacentTspatialTspatialLogicalFunction == MeosFunction("AdjacentTspatialTspatial", <<VARSIZED, VARSIZED>>)
AdwithinTgeoGeoLogicalFunction == MeosFunction("AdwithinTgeoGeo", <<VARSIZED, VARSIZED, "numeric">>)
AdwithinTgeoTgeoLogicalFunction == MeosFunction("AdwithinTgeoTgeo", <<VARSIZED, VARSIZED, "numeric">>)
AfterStboxTspatialLogicalFunction == MeosFunction("AfterStboxTspatial", <<VARSIZED, VARSIZED>>)
AfterTspatialStboxLogicalFunction == MeosFunction("AfterTspatialStbox", <<VARSIZED, VARSIZED>>)
AfterTspatialTspatialLogicalFunction == MeosFunction("AfterTspatialTspatial", <<VARSIZED, VARSIZED>>)
AintersectsTgeoGeoLogicalFunction == MeosFunction("AintersectsTgeoGeo", <<VARSIZED, VARSIZED>>)
AintersectsTgeoTgeoLogicalFunction == MeosFunction("AintersectsTgeoTgeo", <<VARSIZED, VARSIZED>>)
AlwaysEqGeoTgeoLogicalFunction == MeosFunction("AlwaysEqGeoTgeo", <<VARSIZED, VARSIZED>>)
AlwaysEqTgeoGeoLogicalFunction == MeosFunction("AlwaysEqTgeoGeo", <<VARSIZED, VARSIZED>>)
AlwaysEqTgeoTgeoLogicalFunction == MeosFunction("AlwaysEqTgeoTgeo", <<VARSIZED, VARSIZED>>)
AlwaysNeGeoTgeoLogicalFunction == MeosFunction("AlwaysNeGeoTgeo", <<VARSIZED, VARSIZED>>)
AlwaysNeTgeoGeoLogicalFunction == MeosFunction("AlwaysNeTgeoGeo", <<VARSIZED, VARSIZED>>)
AlwaysNeTgeoTgeoLogicalFunction == MeosFunction("AlwaysNeTgeoTgeo", <<VARSIZED, VARSIZED>>)
AtouchesTgeoGeoLogicalFunction == MeosFunction("AtouchesTgeoGeo", <<VARSIZED, VARSIZED>>)
AtouchesTgeoTgeoLogicalFunction == MeosFunction("AtouchesTgeoTgeo", <<VARSIZED, VARSIZED>>)
AtouchesTpointGeoLogicalFunction == MeosFunction("AtouchesTpointGeo", <<VARSIZED, VARSIZED>>)
BackStboxTspatialLogicalFunction == MeosFunction("BackStboxTspatial", <<VARSIZED, VARSIZED>>)
BackTspatialStboxLogicalFunction == MeosFunction("BackTspatialStbox", <<VARSIZED, VARSIZED>>)
BackTspatialTspatialLogicalFunction == MeosFunction("BackTspatialTspatial", <<VARSIZED, VARSIZED>>)
BeforeStboxTspatialLogicalFunction == MeosFunction("BeforeStboxTspatial", <<VARSIZED, VARSIZED>>)
BeforeTspatialStboxLogicalFunction == MeosFunction("BeforeTspatialStbox", <<VARSIZED, VARSIZED>>)
BeforeTspatialTspatialLogicalFunction == MeosFunction("BeforeTspatialTspatial", <<VARSIZED, VARSIZED>>)
BelowStboxTspatialLogicalFunction == MeosFunction("BelowStboxTspatial", <<VARSIZED, VARSIZED>>)
BelowTspatialStboxLogicalFunction == MeosFunction("BelowTspatialStbox", <<VARSIZED, VARSIZED>>)
BelowTspatialTspatialLogicalFunction == MeosFunction("BelowTspatialTspatial", <<VARSIZED, VARSIZED>>)
ContainedStboxTspatialLogicalFunction == MeosFunction("ContainedStboxTspatial", <<VARSIZED, VARSIZED>>)
ContainedTspatialStboxLogicalFunction == MeosFunction("ContainedTspatialStbox", <<VARSIZED, VARSIZED>>)
ContainedTspatialTspatialLogicalFunction == MeosFunction("ContainedTspatialTspatial", <<VARSIZED, VARSIZED>>)
ContainsStboxTspatialLogicalFunction == MeosFunction("ContainsStboxTspatial", <<VARSIZED, VARSIZED>>)
ContainsTspatialStboxLogicalFunction == MeosFunction("ContainsTspatialStbox", <<VARSIZED, VARSIZED>>)
ContainsTspatialTspatialLogicalFunction == MeosFunction("ContainsTspatialTspatial", <<VARSIZED, VARSIZED>>)
EcontainsGeoTgeoLogicalFunction == MeosFunction("EcontainsGeoTgeo", <<VARSIZED, VARSIZED>>)
EcontainsTgeoGeoLogicalFunction == MeosFunction("EcontainsTgeoGeo", <<VARSIZED, VARSIZED>>)
EcontainsTgeoTgeoLogicalFunction == MeosFunction("EcontainsTgeoTgeo", <<VARSIZED, VARSIZED>>)
EcoversGeoTgeoLogicalFunction == MeosFunction("EcoversGeoTgeo", <<VARSIZED, VARSIZED>>)
EcoversTgeoGeoLogicalFunction == MeosFunction("EcoversTgeoGeo", <<VARSIZED, VARSIZED>>)
EcoversTgeoTgeoLogicalFunction == MeosFunction("EcoversTgeoTgeo", <<VARSIZED, VARSIZED>>)
EdisjointTgeoGeoLogicalFunction == MeosFunction("EdisjointTgeoGeo", <<VARSIZED, VARSIZED>>)
EdisjointTgeoTgeoLogicalFunction == MeosFunction("EdisjointTgeoTgeo", <<VARSIZED, VARSIZED>>)
EdwithinTgeoGeoLogicalFunction == MeosFunction("EdwithinTgeoGeo", <<VARSIZED, VARSIZED, "numeric">>)
EdwithinTgeoTgeoLogicalFunction == MeosFunction("EdwithinTgeoTgeo", <<VARSIZED, VARSIZED, "numeric">>)
EintersectsTgeoGeoLogicalFunction == MeosFunction("EintersectsTgeoGeo", <<VARSIZED, VARSIZED>>)
EintersectsTgeoTgeoLogicalFunction == MeosFunction("EintersectsTgeoTgeo", <<VARSIZED, VARSIZED>>)
EtouchesTgeoGeoLogicalFunction == MeosFunction("EtouchesTgeoGeo", <<VARSIZED, VARSIZED>>)
EtouchesTgeoTgeoLogicalFunction == MeosFunction("EtouchesTgeoTgeo", <<VARSIZED, VARSIZED>>)
EtouchesTpointGeoLogicalFunction == MeosFunction("EtouchesTpointGeo", <<VARSIZED, VARSIZED>>)
EverEqGeoTgeoLogicalFunction == MeosFunction("EverEqGeoTgeo", <<VARSIZED, VARSIZED>>)
EverEqTgeoGeoLogicalFunction == MeosFunction("EverEqTgeoGeo", <<VARSIZED, VARSIZED>>)
EverEqTgeoTgeoLogicalFunction == MeosFunction("EverEqTgeoTgeo", <<VARSIZED, VARSIZED>>)
EverNeGeoTgeoLogicalFunction == MeosFunction("EverNeGeoTgeo", <<VARSIZED, VARSIZED>>)
EverNeTgeoGeoLogicalFunction == MeosFunction("EverNeTgeoGeo", <<VARSIZED, VARSIZED>>)
EverNeTgeoTgeoLogicalFunction == MeosFunction("EverNeTgeoTgeo", <<VARSIZED, VARSIZED>>)
FrontStboxTspatialLogicalFunction == MeosFunction("FrontStboxTspatial", <<VARSIZED, VARSIZED>>)
FrontTspatialStboxLogicalFunction == MeosFunction("FrontTspatialStbox", <<VARSIZED, VARSIZED>>)
FrontTspatialTspatialLogicalFunction == MeosFunction("FrontTspatialTspatial", <<VARSIZED, VARSIZED>>)
LeftStboxTspatialLogicalFunction == MeosFunction("LeftStboxTspatial", <<VARSIZED, VARSIZED>>)
LeftTspatialStboxLogicalFunction == MeosFunction("LeftTspatialStbox", <<VARSIZED, VARSIZED>>)
LeftTspatialTspatialLogicalFunction == MeosFunction("LeftTspatialTspatial", <<VARSIZED, VARSIZED>>)
OveraboveStboxTspatialLogicalFunction == MeosFunction("OveraboveStboxTspatial", <<VARSIZED, VARSIZED>>)
OveraboveTspatialStboxLogicalFunction == MeosFunction("OveraboveTspatialStbox", <<VARSIZED, VARSIZED>>)
OveraboveTspatialTspatialLogicalFunction == MeosFunction("OveraboveTspatialTspatial", <<VARSIZED, VARSIZED>>)
OverafterStboxTspatialLogicalFunction == MeosFunction("OverafterStboxTspatial", <<VARSIZED, VARSIZED>>)
OverafterTspatialStboxLogicalFunction == MeosFunction("OverafterTspatialStbox", <<VARSIZED, VARSIZED>>)
OverafterTspatialTspatialLogicalFunction == MeosFunction("OverafterTspatialTspatial", <<VARSIZED, VARSIZED>>)
OverbackStboxTspatialLogicalFunction == MeosFunction("OverbackStboxTspatial", <<VARSIZED, VARSIZED>>)
OverbackTspatialStboxLogicalFunction == MeosFunction("OverbackTspatialStbox", <<VARSIZED, VARSIZED>>)
OverbackTspatialTspatialLogicalFunction == MeosFunction("OverbackTspatialTspatial", <<VARSIZED, VARSIZED>>)
OverbeforeStboxTspatialLogicalFunction == MeosFunction("OverbeforeStboxTspatial", <<VARSIZED, VARSIZED>>)
OverbeforeTspatialStboxLogicalFunction == MeosFunction("OverbeforeTspatialStbox", <<VARSIZED, VARSIZED>>)
OverbeforeTspatialTspatialLogicalFunction == MeosFunction("OverbeforeTspatialTspatial", <<VARSIZED, VARSIZED>>)
OverbelowStboxTspatialLogicalFunction == MeosFunction("OverbelowStboxTspatial", <<VARSIZED, VARSIZED>>)
OverbelowTspatialStboxLogicalFunction == MeosFunction("OverbelowTspatialStbox", <<VARSIZED, VARSIZED>>)
OverbelowTspatialTspatialLogicalFunction == MeosFunction("OverbelowTspatialTspatial", <<VARSIZED, VARSIZED>>)
OverfrontStboxTspatialLogicalFunction == MeosFunction("OverfrontStboxTspatial", <<VARSIZED, VARSIZED>>)
OverfrontTspatialStboxLogicalFunction == MeosFunction("OverfrontTspatialStbox", <<VARSIZED, VARSIZED>>)
OverfrontTspatialTspatialLogicalFunction == MeosFunction("OverfrontTspatialTspatial", <<VARSIZED, VARSIZED>>)
OverlapsStboxTspatialLogicalFunction == MeosFunction("OverlapsStboxTspatial", <<VARSIZED, VARSIZED>>)
OverlapsTspatialStboxLogicalFunction == MeosFunction("OverlapsTspatialStbox", <<VARSIZED, VARSIZED>>)
OverlapsTspatialTspatialLogicalFunction == MeosFunction("OverlapsTspatialTspatial", <<VARSIZED, VARSIZED>>)
OverleftStboxTspatialLogicalFunction == MeosFunction("OverleftStboxTspatial", <<VARSIZED, VARSIZED>>)
OverleftTspatialStboxLogicalFunction == MeosFunction("OverleftTspatialStbox", <<VARSIZED, VARSIZED>>)
OverleftTspatialTspatialLogicalFunction == MeosFunction("OverleftTspatialTspatial", <<VARSIZED, VARSIZED>>)
OverrightStboxTspatialLogicalFunction == MeosFunction("OverrightStboxTspatial", <<VARSIZED, VARSIZED>>)
OverrightTspatialStboxLogicalFunction == MeosFunction("OverrightTspatialStbox", <<VARSIZED, VARSIZED>>)
OverrightTspatialTspatialLogicalFunction == MeosFunction("OverrightTspatialTspatial", <<VARSIZED, VARSIZED>>)
RightStboxTspatialLogicalFunction == MeosFunction("RightStboxTspatial", <<VARSIZED, VARSIZED>>)
RightTspatialStboxLogicalFunction == MeosFunction("RightTspatialStbox", <<VARSIZED, VARSIZED>>)
RightTspatialTspatialLogicalFunction == MeosFunction("RightTspatialTspatial", <<VARSIZED, VARSIZED>>)
SameStboxTspatialLogicalFunction == MeosFunction("SameStboxTspatial", <<VARSIZED, VARSIZED>>)
SameTspatialStboxLogicalFunction == MeosFunction("SameTspatialStbox", <<VARSIZED, VARSIZED>>)
SameTspatialTspatialLogicalFunction == MeosFunction("SameTspatialTspatial", <<VARSIZED, VARSIZED>>)

(* The assertion on param0 is missing: any type passes.                     *)
AboveStboxTspatialLogicalFunction == MeosFunction("AboveStboxTspatial", <<"any", VARSIZED>>)

TcontainsGeoTgeoLogicalFunction ==
  [MeosFunction("TcontainsGeoTgeo", <<VARSIZED, VARSIZED, "numeric", "numeric">>) EXCEPT !.made = VARSIZED]

(* A point in space and time is three parameters: longitude, latitude, and  *)
(* seconds.                                                                  *)
Instant == <<"numeric", "numeric", "UINT64">>

TemporalIntersectsGeometryLogicalFunction ==
  FunctionClass("TemporalIntersectsGeometry", {Instant \o Instant, Instant \o <<VARSIZED>>}, "INT32")

TemporalAIntersectsGeometryLogicalFunction ==
  FunctionClass("TemporalAIntersectsGeometry", {Instant \o Instant, Instant \o <<VARSIZED>>}, "INT32")

TemporalEContainsGeometryLogicalFunction ==
  FunctionClass("TemporalEContainsGeometry",
                {Instant \o Instant, Instant \o <<VARSIZED>>, <<VARSIZED>> \o Instant}, "INT32")

(* No check at all; withChildren throws instead of asserting.               *)
TemporalIntersectsFunction == FunctionClass("TemporalIntersects", {<<"any", "any", "any">>}, "BOOLEAN")

(* Registered as Intersect, but its NAME is And.  It looks at the types of  *)
(* its own parameters, which inference has not touched yet.                  *)
IntersectLogicalFunction ==
  [FunctionClass("Intersect", {<<"FLOAT64", "FLOAT64", "UINT64">>}, "BOOLEAN")
     EXCEPT !.name = "And", !.checks = "given", !.equal = "firstTwoCommute"]

MeosLogicalFunctions ==
  {AboveStboxTspatialLogicalFunction, AboveTspatialStboxLogicalFunction,
   AboveTspatialTspatialLogicalFunction, AcontainsGeoTgeoLogicalFunction,
   AcontainsTgeoGeoLogicalFunction, AcontainsTgeoTgeoLogicalFunction,
   AdisjointTgeoGeoLogicalFunction, AdisjointTgeoTgeoLogicalFunction,
   AdjacentStboxTspatialLogicalFunction, AdjacentTspatialStboxLogicalFunction,
   AdjacentTspatialTspatialLogicalFunction, AdwithinTgeoGeoLogicalFunction,
   AdwithinTgeoTgeoLogicalFunction, AfterStboxTspatialLogicalFunction,
   AfterTspatialStboxLogicalFunction, AfterTspatialTspatialLogicalFunction,
   AintersectsTgeoGeoLogicalFunction, AintersectsTgeoTgeoLogicalFunction,
   AlwaysEqGeoTgeoLogicalFunction, AlwaysEqTgeoGeoLogicalFunction, AlwaysEqTgeoTgeoLogicalFunction,
   AlwaysNeGeoTgeoLogicalFunction, AlwaysNeTgeoGeoLogicalFunction, AlwaysNeTgeoTgeoLogicalFunction,
   AtouchesTgeoGeoLogicalFunction, AtouchesTgeoTgeoLogicalFunction,
   AtouchesTpointGeoLogicalFunction, BackStboxTspatialLogicalFunction,
   BackTspatialStboxLogicalFunction, BackTspatialTspatialLogicalFunction,
   BeforeStboxTspatialLogicalFunction, BeforeTspatialStboxLogicalFunction,
   BeforeTspatialTspatialLogicalFunction, BelowStboxTspatialLogicalFunction,
   BelowTspatialStboxLogicalFunction, BelowTspatialTspatialLogicalFunction,
   ContainedStboxTspatialLogicalFunction, ContainedTspatialStboxLogicalFunction,
   ContainedTspatialTspatialLogicalFunction, ContainsStboxTspatialLogicalFunction,
   ContainsTspatialStboxLogicalFunction, ContainsTspatialTspatialLogicalFunction,
   EcontainsGeoTgeoLogicalFunction, EcontainsTgeoGeoLogicalFunction,
   EcontainsTgeoTgeoLogicalFunction, EcoversGeoTgeoLogicalFunction, EcoversTgeoGeoLogicalFunction,
   EcoversTgeoTgeoLogicalFunction, EdisjointTgeoGeoLogicalFunction,
   EdisjointTgeoTgeoLogicalFunction, EdwithinTgeoGeoLogicalFunction,
   EdwithinTgeoTgeoLogicalFunction, EintersectsTgeoGeoLogicalFunction,
   EintersectsTgeoTgeoLogicalFunction, EtouchesTgeoGeoLogicalFunction,
   EtouchesTgeoTgeoLogicalFunction, EtouchesTpointGeoLogicalFunction, EverEqGeoTgeoLogicalFunction,
   EverEqTgeoGeoLogicalFunction, EverEqTgeoTgeoLogicalFunction, EverNeGeoTgeoLogicalFunction,
   EverNeTgeoGeoLogicalFunction, EverNeTgeoTgeoLogicalFunction, FrontStboxTspatialLogicalFunction,
   FrontTspatialStboxLogicalFunction, FrontTspatialTspatialLogicalFunction,
   IntersectLogicalFunction, LeftStboxTspatialLogicalFunction, LeftTspatialStboxLogicalFunction,
   LeftTspatialTspatialLogicalFunction, OveraboveStboxTspatialLogicalFunction,
   OveraboveTspatialStboxLogicalFunction, OveraboveTspatialTspatialLogicalFunction,
   OverafterStboxTspatialLogicalFunction, OverafterTspatialStboxLogicalFunction,
   OverafterTspatialTspatialLogicalFunction, OverbackStboxTspatialLogicalFunction,
   OverbackTspatialStboxLogicalFunction, OverbackTspatialTspatialLogicalFunction,
   OverbeforeStboxTspatialLogicalFunction, OverbeforeTspatialStboxLogicalFunction,
   OverbeforeTspatialTspatialLogicalFunction, OverbelowStboxTspatialLogicalFunction,
   OverbelowTspatialStboxLogicalFunction, OverbelowTspatialTspatialLogicalFunction,
   OverfrontStboxTspatialLogicalFunction, OverfrontTspatialStboxLogicalFunction,
   OverfrontTspatialTspatialLogicalFunction, OverlapsStboxTspatialLogicalFunction,
   OverlapsTspatialStboxLogicalFunction, OverlapsTspatialTspatialLogicalFunction,
   OverleftStboxTspatialLogicalFunction, OverleftTspatialStboxLogicalFunction,
   OverleftTspatialTspatialLogicalFunction, OverrightStboxTspatialLogicalFunction,
   OverrightTspatialStboxLogicalFunction, OverrightTspatialTspatialLogicalFunction,
   RightStboxTspatialLogicalFunction, RightTspatialStboxLogicalFunction,
   RightTspatialTspatialLogicalFunction, SameStboxTspatialLogicalFunction,
   SameTspatialStboxLogicalFunction, SameTspatialTspatialLogicalFunction,
   TcontainsGeoTgeoLogicalFunction, TemporalAIntersectsGeometryLogicalFunction,
   TemporalEContainsGeometryLogicalFunction, TemporalIntersectsFunction,
   TemporalIntersectsGeometryLogicalFunction}
=============================================================================
