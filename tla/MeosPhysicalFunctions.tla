----------------------- MODULE MeosPhysicalFunctions -----------------------
(***************************************************************************)
(* The spatio-temporal functions of nes-physical-operators/src/Functions/  *)
(* Meos.  A call record says what execute does with its parameters:        *)
(*   casts    the type each parameter value is cast to                     *)
(*   objects  the MEOS objects made, in order: the function that reads it  *)
(*            and the positions of the parameters it reads                 *)
(*   scalars  the parameters handed to MEOS as they are                    *)
(*   call     the MEOS function called with the objects and the scalars    *)
(*   unread   what happens to the earlier objects when one cannot be read  *)
(*   yields   the type of the value returned                               *)
(***************************************************************************)
EXTENDS Naturals, Sequences

Text    == "VariableSizedData"
Double  == "double"
Int32   == "int32_t"
UInt64  == "uint64_t"

Object(in, of) == [in |-> in, of |-> of]

(* The generated functions: two texts are read into objects, MEOS is        *)
(* called, the objects are freed.  A text that cannot be read ends the      *)
(* call with -1; an object read before it is not freed.                     *)
MeosCall(key, in0, in1, call) ==
  [key |-> key, casts |-> <<Text, Text>>, objects |-> <<Object(in0, <<1>>), Object(in1, <<2>>)>>,
   scalars |-> <<>>, call |-> call, unread |-> "leaked", yields |-> "INT32"]

(* ... and those with a distance as the third parameter.                    *)
MeosDistanceCall(key, in0, in1, call) ==
  [MeosCall(key, in0, in1, call) EXCEPT !.casts = <<Text, Text, Double>>, !.scalars = <<3>>]

tgeometry_in == "tgeometry_in"
tgeompoint_in == "tgeompoint_in"
stbox_in == "stbox_in"
geom_in == "geom_in"

AboveStboxTspatialPhysicalFunction ==
  MeosCall("AboveStboxTspatial", stbox_in, tgeometry_in, "above_stbox_tspatial")
AboveTspatialStboxPhysicalFunction ==
  MeosCall("AboveTspatialStbox", tgeometry_in, stbox_in, "above_tspatial_stbox")
AboveTspatialTspatialPhysicalFunction ==
  MeosCall("AboveTspatialTspatial", tgeometry_in, tgeometry_in, "above_tspatial_tspatial")
AcontainsGeoTgeoPhysicalFunction ==
  MeosCall("AcontainsGeoTgeo", geom_in, tgeometry_in, "acontains_geo_tgeo")
AcontainsTgeoGeoPhysicalFunction ==
  MeosCall("AcontainsTgeoGeo", tgeometry_in, geom_in, "acontains_tgeo_geo")
AcontainsTgeoTgeoPhysicalFunction ==
  MeosCall("AcontainsTgeoTgeo", tgeometry_in, tgeometry_in, "acontains_tgeo_tgeo")
AdisjointTgeoGeoPhysicalFunction ==
  MeosCall("AdisjointTgeoGeo", tgeometry_in, geom_in, "adisjoint_tgeo_geo")
AdisjointTgeoTgeoPhysicalFunction ==
  MeosCall("AdisjointTgeoTgeo", tgeometry_in, tgeometry_in, "adisjoint_tgeo_tgeo")
AdjacentStboxTspatialPhysicalFunction ==
  MeosCall("AdjacentStboxTspatial", stbox_in, tgeometry_in, "adjacent_stbox_tspatial")
AdjacentTspatialStboxPhysicalFunction ==
  MeosCall("AdjacentTspatialStbox", tgeometry_in, stbox_in, "adjacent_tspatial_stbox")
AdjacentTspatialTspatialPhysicalFunction ==
  MeosCall("AdjacentTspatialTspatial", tgeometry_in, tgeometry_in, "adjacent_tspatial_tspatial")
AdwithinTgeoGeoPhysicalFunction ==
  MeosDistanceCall("AdwithinTgeoGeo", tgeometry_in, geom_in, "adwithin_tgeo_geo")
AdwithinTgeoTgeoPhysicalFunction ==
  MeosDistanceCall("AdwithinTgeoTgeo", tgeometry_in, tgeometry_in, "adwithin_tgeo_tgeo")
AfterStboxTspatialPhysicalFunction ==
  MeosCall("AfterStboxTspatial", stbox_in, tgeometry_in, "after_stbox_tspatial")
AfterTspatialStboxPhysicalFunction ==
  MeosCall("AfterTspatialStbox", tgeometry_in, stbox_in, "after_tspatial_stbox")
AfterTspatialTspatialPhysicalFunction ==
  MeosCall("AfterTspatialTspatial", tgeometry_in, tgeometry_in, "after_tspatial_tspatial")
AintersectsTgeoGeoPhysicalFunction ==
  MeosCall("AintersectsTgeoGeo", tgeometry_in, geom_in, "aintersects_tgeo_geo")
AintersectsTgeoTgeoPhysicalFunction ==
  MeosCall("AintersectsTgeoTgeo", tgeometry_in, tgeometry_in, "aintersects_tgeo_tgeo")
AlwaysEqGeoTgeoPhysicalFunction ==
  MeosCall("AlwaysEqGeoTgeo", geom_in, tgeometry_in, "always_eq_geo_tgeo")
AlwaysEqTgeoGeoPhysicalFunction ==
  MeosCall("AlwaysEqTgeoGeo", tgeometry_in, geom_in, "always_eq_tgeo_geo")
AlwaysEqTgeoTgeoPhysicalFunction ==
  MeosCall("AlwaysEqTgeoTgeo", tgeometry_in, tgeometry_in, "always_eq_tgeo_tgeo")
AlwaysNeGeoTgeoPhysicalFunction ==
  MeosCall("AlwaysNeGeoTgeo", geom_in, tgeometry_in, "always_ne_geo_tgeo")
AlwaysNeTgeoGeoPhysicalFunction ==
  MeosCall("AlwaysNeTgeoGeo", tgeometry_in, geom_in, "always_ne_tgeo_geo")
AlwaysNeTgeoTgeoPhysicalFunction ==
  MeosCall("AlwaysNeTgeoTgeo", tgeometry_in, tgeometry_in, "always_ne_tgeo_tgeo")
AtouchesTgeoGeoPhysicalFunction ==
  MeosCall("AtouchesTgeoGeo", tgeometry_in, geom_in, "atouches_tgeo_geo")
AtouchesTgeoTgeoPhysicalFunction ==
  MeosCall("AtouchesTgeoTgeo", tgeometry_in, tgeometry_in, "atouches_tgeo_tgeo")
AtouchesTpointGeoPhysicalFunction ==
  MeosCall("AtouchesTpointGeo", tgeometry_in, geom_in, "atouches_tpoint_geo")
BackStboxTspatialPhysicalFunction ==
  MeosCall("BackStboxTspatial", stbox_in, tgeometry_in, "back_stbox_tspatial")
BackTspatialStboxPhysicalFunction ==
  MeosCall("BackTspatialStbox", tgeometry_in, stbox_in, "back_tspatial_stbox")
BackTspatialTspatialPhysicalFunction ==
  MeosCall("BackTspatialTspatial", tgeometry_in, tgeometry_in, "back_tspatial_tspatial")
BeforeStboxTspatialPhysicalFunction ==
  MeosCall("BeforeStboxTspatial", stbox_in, tgeometry_in, "before_stbox_tspatial")
BeforeTspatialStboxPhysicalFunction ==
  MeosCall("BeforeTspatialStbox", tgeometry_in, stbox_in, "before_tspatial_stbox")
BeforeTspatialTspatialPhysicalFunction ==
  MeosCall("BeforeTspatialTspatial", tgeometry_in, tgeometry_in, "before_tspatial_tspatial")
BelowStboxTspatialPhysicalFunction ==
  MeosCall("BelowStboxTspatial", stbox_in, tgeometry_in, "below_stbox_tspatial")
BelowTspatialStboxPhysicalFunction ==
  MeosCall("BelowTspatialStbox", tgeometry_in, stbox_in, "below_tspatial_stbox")
BelowTspatialTspatialPhysicalFunction ==
  MeosCall("BelowTspatialTspatial", tgeometry_in, tgeometry_in, "below_tspatial_tspatial")
ContainedStboxTspatialPhysicalFunction ==
  MeosCall("ContainedStboxTspatial", stbox_in, tgeometry_in, "contained_stbox_tspatial")
ContainedTspatialStboxPhysicalFunction ==
  MeosCall("ContainedTspatialStbox", tgeometry_in, stbox_in, "contained_tspatial_stbox")
ContainedTspatialTspatialPhysicalFunction ==
  MeosCall("ContainedTspatialTspatial", tgeometry_in, tgeometry_in, "contained_tspatial_tspatial")
ContainsStboxTspatialPhysicalFunction ==
  MeosCall("ContainsStboxTspatial", stbox_in, tgeometry_in, "contains_stbox_tspatial")
ContainsTspatialStboxPhysicalFunction ==
  MeosCall("ContainsTspatialStbox", tgeometry_in, stbox_in, "contains_tspatial_stbox")
ContainsTspatialTspatialPhysicalFunction ==
  MeosCall("ContainsTspatialTspatial", tgeometry_in, tgeometry_in, "contains_tspatial_tspatial")
EcontainsGeoTgeoPhysicalFunction ==
  MeosCall("EcontainsGeoTgeo", geom_in, tgeometry_in, "econtains_geo_tgeo")
EcontainsTgeoGeoPhysicalFunction ==
  MeosCall("EcontainsTgeoGeo", tgeometry_in, geom_in, "econtains_tgeo_geo")
EcontainsTgeoTgeoPhysicalFunction ==
  MeosCall("EcontainsTgeoTgeo", tgeometry_in, tgeometry_in, "econtains_tgeo_tgeo")
EcoversGeoTgeoPhysicalFunction ==
  MeosCall("EcoversGeoTgeo", geom_in, tgeometry_in, "ecovers_geo_tgeo")
EcoversTgeoGeoPhysicalFunction ==
  MeosCall("EcoversTgeoGeo", tgeometry_in, geom_in, "ecovers_tgeo_geo")
EcoversTgeoTgeoPhysicalFunction ==
  MeosCall("EcoversTgeoTgeo", tgeometry_in, tgeometry_in, "ecovers_tgeo_tgeo")
EdisjointTgeoGeoPhysicalFunction ==
  MeosCall("EdisjointTgeoGeo", tgeometry_in, geom_in, "edisjoint_tgeo_geo")
EdisjointTgeoTgeoPhysicalFunction ==
  MeosCall("EdisjointTgeoTgeo", tgeometry_in, tgeometry_in, "edisjoint_tgeo_tgeo")
EdwithinTgeoGeoPhysicalFunction ==
  MeosDistanceCall("EdwithinTgeoGeo", tgeometry_in, geom_in, "edwithin_tgeo_geo")
EdwithinTgeoTgeoPhysicalFunction ==
  MeosDistanceCall("EdwithinTgeoTgeo", tgeometry_in, tgeometry_in, "edwithin_tgeo_tgeo")
EintersectsTgeoGeoPhysicalFunction ==
  MeosCall("EintersectsTgeoGeo", tgeometry_in, geom_in, "eintersects_tgeo_geo")
EintersectsTgeoTgeoPhysicalFunction ==
  MeosCall("EintersectsTgeoTgeo", tgeometry_in, tgeometry_in, "eintersects_tgeo_tgeo")
EtouchesTgeoGeoPhysicalFunction ==
  MeosCall("EtouchesTgeoGeo", tgeometry_in, geom_in, "etouches_tgeo_geo")
EtouchesTgeoTgeoPhysicalFunction ==
  MeosCall("EtouchesTgeoTgeo", tgeometry_in, tgeometry_in, "etouches_tgeo_tgeo")
EtouchesTpointGeoPhysicalFunction ==
  MeosCall("EtouchesTpointGeo", tgeompoint_in, geom_in, "etouches_tpoint_geo")
EverEqGeoTgeoPhysicalFunction ==
  MeosCall("EverEqGeoTgeo", geom_in, tgeometry_in, "ever_eq_geo_tgeo")
EverEqTgeoGeoPhysicalFunction ==
  MeosCall("EverEqTgeoGeo", tgeometry_in, geom_in, "ever_eq_tgeo_geo")
EverEqTgeoTgeoPhysicalFunction ==
  MeosCall("EverEqTgeoTgeo", tgeometry_in, tgeometry_in, "ever_eq_tgeo_tgeo")
EverNeGeoTgeoPhysicalFunction ==
  MeosCall("EverNeGeoTgeo", geom_in, tgeometry_in, "ever_ne_geo_tgeo")
EverNeTgeoGeoPhysicalFunction ==
  MeosCall("EverNeTgeoGeo", tgeometry_in, geom_in, "ever_ne_tgeo_geo")
EverNeTgeoTgeoPhysicalFunction ==
  MeosCall("EverNeTgeoTgeo", tgeometry_in, tgeometry_in, "ever_ne_tgeo_tgeo")
FrontStboxTspatialPhysicalFunction ==
  MeosCall("FrontStboxTspatial", stbox_in, tgeometry_in, "front_stbox_tspatial")
FrontTspatialStboxPhysicalFunction ==
  MeosCall("FrontTspatialStbox", tgeometry_in, stbox_in, "front_tspatial_stbox")
FrontTspatialTspatialPhysicalFunction ==
  MeosCall("FrontTspatialTspatial", tgeometry_in, tgeometry_in, "front_tspatial_tspatial")
LeftStboxTspatialPhysicalFunction ==
  MeosCall("LeftStboxTspatial", stbox_in, tgeometry_in, "left_stbox_tspatial")
LeftTspatialStboxPhysicalFunction ==
  MeosCall("LeftTspatialStbox", tgeometry_in, stbox_in, "left_tspatial_stbox")
LeftTspatialTspatialPhysicalFunction ==
  MeosCall("LeftTspatialTspatial", tgeometry_in, tgeometry_in, "left_tspatial_tspatial")
OveraboveStboxTspatialPhysicalFunction ==
  MeosCall("OveraboveStboxTspatial", stbox_in, tgeometry_in, "overabove_stbox_tspatial")
OveraboveTspatialStboxPhysicalFunction ==
  MeosCall("OveraboveTspatialStbox", tgeometry_in, stbox_in, "overabove_tspatial_stbox")
OveraboveTspatialTspatialPhysicalFunction ==
  MeosCall("OveraboveTspatialTspatial", tgeometry_in, tgeometry_in, "overabove_tspatial_tspatial")
OverafterStboxTspatialPhysicalFunction ==
  MeosCall("OverafterStboxTspatial", stbox_in, tgeometry_in, "overafter_stbox_tspatial")
OverafterTspatialStboxPhysicalFunction ==
  MeosCall("OverafterTspatialStbox", tgeometry_in, stbox_in, "overafter_tspatial_stbox")
OverafterTspatialTspatialPhysicalFunction ==
  MeosCall("OverafterTspatialTspatial", tgeometry_in, tgeometry_in, "overafter_tspatial_tspatial")
OverbackStboxTspatialPhysicalFunction ==
  MeosCall("OverbackStboxTspatial", stbox_in, tgeometry_in, "overback_stbox_tspatial")
OverbackTspatialStboxPhysicalFunction ==
  MeosCall("OverbackTspatialStbox", tgeometry_in, stbox_in, "overback_tspatial_stbox")
OverbackTspatialTspatialPhysicalFunction ==
  MeosCall("OverbackTspatialTspatial", tgeometry_in, tgeometry_in, "overback_tspatial_tspatial")
OverbeforeStboxTspatialPhysicalFunction ==
  MeosCall("OverbeforeStboxTspatial", stbox_in, tgeometry_in, "overbefore_stbox_tspatial")
OverbeforeTspatialStboxPhysicalFunction ==
  MeosCall("OverbeforeTspatialStbox", tgeometry_in, stbox_in, "overbefore_tspatial_stbox")
OverbeforeTspatialTspatialPhysicalFunction ==
  MeosCall("OverbeforeTspatialTspatial", tgeometry_in, tgeometry_in, "overbefore_tspatial_tspatial")
OverbelowStboxTspatialPhysicalFunction ==
  MeosCall("OverbelowStboxTspatial", stbox_in, tgeometry_in, "overbelow_stbox_tspatial")
OverbelowTspatialStboxPhysicalFunction ==
  MeosCall("OverbelowTspatialStbox", tgeometry_in, stbox_in, "overbelow_tspatial_stbox")
OverbelowTspatialTspatialPhysicalFunction ==
  MeosCall("OverbelowTspatialTspatial", tgeometry_in, tgeometry_in, "overbelow_tspatial_tspatial")
OverfrontStboxTspatialPhysicalFunction ==
  MeosCall("OverfrontStboxTspatial", stbox_in, tgeometry_in, "overfront_stbox_tspatial")
OverfrontTspatialStboxPhysicalFunction ==
  MeosCall("OverfrontTspatialStbox", tgeometry_in, stbox_in, "overfront_tspatial_stbox")
OverfrontTspatialTspatialPhysicalFunction ==
  MeosCall("OverfrontTspatialTspatial", tgeometry_in, tgeometry_in, "overfront_tspatial_tspatial")
OverlapsStboxTspatialPhysicalFunction ==
  MeosCall("OverlapsStboxTspatial", stbox_in, tgeometry_in, "overlaps_stbox_tspatial")
OverlapsTspatialStboxPhysicalFunction ==
  MeosCall("OverlapsTspatialStbox", tgeometry_in, stbox_in, "overlaps_tspatial_stbox")
OverlapsTspatialTspatialPhysicalFunction ==
  MeosCall("OverlapsTspatialTspatial", tgeometry_in, tgeometry_in, "overlaps_tspatial_tspatial")
OverleftStboxTspatialPhysicalFunction ==
  MeosCall("OverleftStboxTspatial", stbox_in, tgeometry_in, "overleft_stbox_tspatial")
OverleftTspatialStboxPhysicalFunction ==
  MeosCall("OverleftTspatialStbox", tgeometry_in, stbox_in, "overleft_tspatial_stbox")
OverleftTspatialTspatialPhysicalFunction ==
  MeosCall("OverleftTspatialTspatial", tgeometry_in, tgeometry_in, "overleft_tspatial_tspatial")
OverrightStboxTspatialPhysicalFunction ==
  MeosCall("OverrightStboxTspatial", stbox_in, tgeometry_in, "overright_stbox_tspatial")
OverrightTspatialStboxPhysicalFunction ==
  MeosCall("OverrightTspatialStbox", tgeometry_in, stbox_in, "overright_tspatial_stbox")
OverrightTspatialTspatialPhysicalFunction ==
  MeosCall("OverrightTspatialTspatial", tgeometry_in, tgeometry_in, "overright_tspatial_tspatial")
RightStboxTspatialPhysicalFunction ==
  MeosCall("RightStboxTspatial", stbox_in, tgeometry_in, "right_stbox_tspatial")
RightTspatialStboxPhysicalFunction ==
  MeosCall("RightTspatialStbox", tgeometry_in, stbox_in, "right_tspatial_stbox")
RightTspatialTspatialPhysicalFunction ==
  MeosCall("RightTspatialTspatial", tgeometry_in, tgeometry_in, "right_tspatial_tspatial")
SameStboxTspatialPhysicalFunction ==
  MeosCall("SameStboxTspatial", stbox_in, tgeometry_in, "same_stbox_tspatial")
SameTspatialStboxPhysicalFunction ==
  MeosCall("SameTspatialStbox", tgeometry_in, stbox_in, "same_tspatial_stbox")
SameTspatialTspatialPhysicalFunction ==
  MeosCall("SameTspatialTspatial", tgeometry_in, tgeometry_in, "same_tspatial_tspatial")

(* The one call that frees the first object when the second cannot be read, *)
(* and whose result is a text.                                              *)
TcontainsGeoTgeoPhysicalFunction ==
  [MeosCall("TcontainsGeoTgeo", geom_in, tgeometry_in, "tcontains_geo_tgeo")
     EXCEPT !.casts = <<Text, Text, Int32, Int32>>, !.scalars = <<3, 4>>, !.unread = "freed", !.yields = "VARSIZED"]

(* The functions on coordinates build a text from longitude, latitude and   *)
(* seconds.  The wrappers of MEOSWrapper.cpp hold a null object for a text  *)
(* that cannot be read and pass it to MEOS; their destructors free what     *)
(* they hold on every path.                                                 *)
InstantCasts == <<Double, Double, UInt64>>
TemporalGeometry(from) == Object("TemporalGeometry", <<from, from + 1, from + 2>>)
StaticGeometry(from)   == Object("StaticGeometry", <<from>>)

CoordinateCall(key, casts, objects, call) ==
  [key |-> key, casts |-> casts, objects |-> objects, scalars |-> <<>>, call |-> call,
   unread |-> "passed", yields |-> "INT32"]

executeTemporal6Param(key, call) ==
  CoordinateCall(key, InstantCasts \o InstantCasts, <<TemporalGeometry(1), TemporalGeometry(4)>>, call)
executeTemporal4Param(key, call) ==
  CoordinateCall(key, InstantCasts \o <<Text>>, <<TemporalGeometry(1), StaticGeometry(4)>>, call)
(* Mutant: the parameters are taken in the order of the other calls.        *)
execStaticLast(key, call) ==
  CoordinateCall(key, InstantCasts \o <<Text>>, <<StaticGeometry(4), TemporalGeometry(1)>>, call)
execStaticTemporal(key, call) ==
  CoordinateCall(key, <<Text>> \o InstantCasts, <<StaticGeometry(1), TemporalGeometry(2)>>, call)

TemporalIntersectsGeometry6 == executeTemporal6Param("TemporalIntersectsGeometry", "eintersects_tgeo_tgeo")
TemporalIntersectsGeometry4 == executeTemporal4Param("TemporalIntersectsGeometry", "eintersects_tgeo_geo")
TemporalAIntersectsGeometry6 == executeTemporal6Param("TemporalAIntersectsGeometry", "aintersects_tgeo_tgeo")
TemporalAIntersectsGeometry4 == executeTemporal4Param("TemporalAIntersectsGeometry", "aintersects_tgeo_geo")
execTemporalTemporal == executeTemporal6Param("TemporalEContainsGeometry", "econtains_tgeo_tgeo")
execTemporalStatic == executeTemporal4Param("TemporalEContainsGeometry", "econtains_tgeo_geo")
execStaticTemporalContains == execStaticTemporal("TemporalEContainsGeometry", "econtains_geo_tgeo")

(* The second instant is built from constants of the code and the same      *)
(* seconds.                                                                 *)
TemporalIntersectsPhysicalFunction ==
  [CoordinateCall("TemporalIntersects", <<Double, Double, Double>>,
                  <<Object("TemporalInstant", <<1, 2, 3>>), Object("TemporalInstant", <<3>>)>>,
                  "eintersects_tgeo_tgeo") EXCEPT !.yields = "BOOLEAN"]

MeosCalls ==
  {AboveStboxTspatialPhysicalFunction, AboveTspatialStboxPhysicalFunction,
   AboveTspatialTspatialPhysicalFunction, AcontainsGeoTgeoPhysicalFunction,
   AcontainsTgeoGeoPhysicalFunction, AcontainsTgeoTgeoPhysicalFunction,
   AdisjointTgeoGeoPhysicalFunction, AdisjointTgeoTgeoPhysicalFunction,
   AdjacentStboxTspatialPhysicalFunction, AdjacentTspatialStboxPhysicalFunction,
   AdjacentTspatialTspatialPhysicalFunction, AdwithinTgeoGeoPhysicalFunction,
   AdwithinTgeoTgeoPhysicalFunction, AfterStboxTspatialPhysicalFunction,
   AfterTspatialStboxPhysicalFunction, AfterTspatialTspatialPhysicalFunction,
   AintersectsTgeoGeoPhysicalFunction, AintersectsTgeoTgeoPhysicalFunction,
   AlwaysEqGeoTgeoPhysicalFunction, AlwaysEqTgeoGeoPhysicalFunction,
   AlwaysEqTgeoTgeoPhysicalFunction, AlwaysNeGeoTgeoPhysicalFunction,
   AlwaysNeTgeoGeoPhysicalFunction, AlwaysNeTgeoTgeoPhysicalFunction,
   AtouchesTgeoGeoPhysicalFunction, AtouchesTgeoTgeoPhysicalFunction,
   AtouchesTpointGeoPhysicalFunction, BackStboxTspatialPhysicalFunction,
   BackTspatialStboxPhysicalFunction, BackTspatialTspatialPhysicalFunction,
   BeforeStboxTspatialPhysicalFunction, BeforeTspatialStboxPhysicalFunction,
   BeforeTspatialTspatialPhysicalFunction, BelowStboxTspatialPhysicalFunction,
   BelowTspatialStboxPhysicalFunction, BelowTspatialTspatialPhysicalFunction,
   ContainedStboxTspatialPhysicalFunction, ContainedTspatialStboxPhysicalFunction,
   ContainedTspatialTspatialPhysicalFunction, ContainsStboxTspatialPhysicalFunction,
   ContainsTspatialStboxPhysicalFunction, ContainsTspatialTspatialPhysicalFunction,
   EcontainsGeoTgeoPhysicalFunction, EcontainsTgeoGeoPhysicalFunction,
   EcontainsTgeoTgeoPhysicalFunction, EcoversGeoTgeoPhysicalFunction,
   EcoversTgeoGeoPhysicalFunction, EcoversTgeoTgeoPhysicalFunction,
   EdisjointTgeoGeoPhysicalFunction, EdisjointTgeoTgeoPhysicalFunction,
   EdwithinTgeoGeoPhysicalFunction, EdwithinTgeoTgeoPhysicalFunction,
   EintersectsTgeoGeoPhysicalFunction, EintersectsTgeoTgeoPhysicalFunction,
   EtouchesTgeoGeoPhysicalFunction, EtouchesTgeoTgeoPhysicalFunction,
   EtouchesTpointGeoPhysicalFunction, EverEqGeoTgeoPhysicalFunction, EverEqTgeoGeoPhysicalFunction,
   EverEqTgeoTgeoPhysicalFunction, EverNeGeoTgeoPhysicalFunction, EverNeTgeoGeoPhysicalFunction,
   EverNeTgeoTgeoPhysicalFunction, FrontStboxTspatialPhysicalFunction,
   FrontTspatialStboxPhysicalFunction, FrontTspatialTspatialPhysicalFunction,
   LeftStboxTspatialPhysicalFunction, LeftTspatialStboxPhysicalFunction,
   LeftTspatialTspatialPhysicalFunction, OveraboveStboxTspatialPhysicalFunction,
   OveraboveTspatialStboxPhysicalFunction, OveraboveTspatialTspatialPhysicalFunction,
   OverafterStboxTspatialPhysicalFunction, OverafterTspatialStboxPhysicalFunction,
   OverafterTspatialTspatialPhysicalFunction, OverbackStboxTspatialPhysicalFunction,
   OverbackTspatialStboxPhysicalFunction, OverbackTspatialTspatialPhysicalFunction,
   OverbeforeStboxTspatialPhysicalFunction, OverbeforeTspatialStboxPhysicalFunction,
   OverbeforeTspatialTspatialPhysicalFunction, OverbelowStboxTspatialPhysicalFunction,
   OverbelowTspatialStboxPhysicalFunction, OverbelowTspatialTspatialPhysicalFunction,
   OverfrontStboxTspatialPhysicalFunction, OverfrontTspatialStboxPhysicalFunction,
   OverfrontTspatialTspatialPhysicalFunction, OverlapsStboxTspatialPhysicalFunction,
   OverlapsTspatialStboxPhysicalFunction, OverlapsTspatialTspatialPhysicalFunction,
   OverleftStboxTspatialPhysicalFunction, OverleftTspatialStboxPhysicalFunction,
   OverleftTspatialTspatialPhysicalFunction, OverrightStboxTspatialPhysicalFunction,
   OverrightTspatialStboxPhysicalFunction, OverrightTspatialTspatialPhysicalFunction,
   RightStboxTspatialPhysicalFunction, RightTspatialStboxPhysicalFunction,
   RightTspatialTspatialPhysicalFunction, SameStboxTspatialPhysicalFunction,
   SameTspatialStboxPhysicalFunction, SameTspatialTspatialPhysicalFunction,
   TcontainsGeoTgeoPhysicalFunction, TemporalIntersectsGeometry6, TemporalIntersectsGeometry4,
   TemporalAIntersectsGeometry6, TemporalAIntersectsGeometry4, execTemporalTemporal,
   execTemporalStatic, execStaticTemporalContains, TemporalIntersectsPhysicalFunction}
==============================================================================
