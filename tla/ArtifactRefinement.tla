------------------------- MODULE ArtifactRefinement -------------------------
(***************************************************************************)
(* The journaled transaction, under process deaths, implements the atomic  *)
(* publication: the open publication is the one a live journal names, and  *)
(* removing journal.json is what closes it.                                *)
(***************************************************************************)
EXTENDS ArtifactTransaction

Open == IF txn = "live" THEN journal ELSE None

Stable == [f \in Files |-> public[f]]

Publication == INSTANCE AtomicPublication
    WITH committed <- gens, pending <- Open, current <- active, stable <- Stable

(* write_result and its recovery, cut off anywhere, publish atomically. *)
PublishesAtomically == Publication!Spec

=============================================================================
