-------------------------- MODULE MCMeosExecution --------------------------
(***************************************************************************)
(* Two workers: one evaluates any of the functions, the other one of each  *)
(* kind (two texts, texts and numbers with a textual result, two points,   *)
(* a point and a geometry, two instants).                                  *)
(***************************************************************************)
EXTENDS MeosExecution

CONSTANTS w1, w2
MCWorkers == {w1, w2}

Kinds == {"EintersectsTgeoGeo", "TcontainsGeoTgeo", "TemporalEContainsGeometry", "TemporalIntersects"}
MCAssignments ==
  {[w \in MCWorkers |-> IF w = w1 THEN any ELSE kind] :
     any \in Invocations, kind \in {i \in Invocations : i.class.key \in Kinds}}
============================================================================
