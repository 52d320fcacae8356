----------------------------- MODULE MCRoutingRun -----------------------------
(***************************************************************************)
(* Two forward chunks, one incoming chunk and one review packet; one slot,  *)
(* or, without the last two, one attempt.                                 *)
(***************************************************************************)
EXTENDS RoutingRun

=============================================================================
