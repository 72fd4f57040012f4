---------------------------- MODULE MCRelationship ----------------------------
(***************************************************************************)
(* TLC instance of Relationship, in coarse units: two sessions of the        *)
(* highest significance earn a stage, three hostile ones lose it, the weight *)
(* reaches the governor's thresholds within the sessions allowed.            *)
(***************************************************************************)
EXTENDS Relationship

MCFloor == <<0, 2, 4, 6, 8>>
MCWeightDeltas == {-1, 3}
MCLegacyCores == {[Fresh EXCEPT !.stage = 3, !.sig = 5, !.count = 3, !.weight = 3]}
================================================================================
