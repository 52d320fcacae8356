----------------------- MODULE MCArtifactTransaction -----------------------
(***************************************************************************)
(* Small instances of ArtifactTransaction and of its refinement.           *)
(***************************************************************************)
EXTENDS ArtifactRefinement

CONSTANTS g1, g2, g3, main, extra

(* The plans of the package's own serializers: the main file, stable name. *)
OwnPlans == [g \in Gens |-> {main}]

(* Two generations of the default serializer and one of another suffix: the
   first overwrite that follows leaves a stable file of the former behind. *)
MixedPlans == [g \in Gens |-> IF g = g3 THEN {main, extra} ELSE {main}]

=============================================================================
