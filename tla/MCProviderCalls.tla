--------------------------- MODULE MCProviderCalls ---------------------------
(* Three calls under a limiter of two slots; two of them may sleep for ever. *)
EXTENDS ProviderCalls

CONSTANT Sleepers    \* calls whose backoff may never end

LiveSpec == Spec /\ FairExcept(Sleepers)

\* Calls that wait for a slot end, whatever the sleepers do.
OthersEnd == CallsEnd(Sleepers)

=============================================================================
