------------------------------ MODULE RoutingRun ------------------------------
(***************************************************************************)
(* One routing extraction (routing/extraction.py extract_routing).         *)
(*                                                                         *)
(* The run sends three rounds of provider calls, each the regions of one   *)
(* asyncio.gather: forward chunks, the incoming chunks that the forward    *)
(* answers make worth a second look, and review packets.  Between rounds   *)
(* it verifies the answers and builds the graph.  Every region goes        *)
(* through the run's parsed-model cache, which is closed when the run ends *)
(* however it ends.                                                        *)
(*                                                                         *)
(* A gather is left as soon as one of its regions raises; the other        *)
(* regions' tasks are neither cancelled nor awaited.  Only a capability    *)
(* error leaves a region that way: the other provider errors become        *)
(* failures of the region.  Cancelling the run cancels the tasks, and the  *)
(* gather is left with the first of them to end.                           *)
(*                                                                         *)
(* Simplifications.                                                        *)
(*  - Evidence, graphs and decisions are the names of the regions they     *)
(*    come from; what validation and reconciliation find is a choice.      *)
(*  - A region's request holds its chunk id or its discrepancies, so no    *)
(*    two regions share a cache key and the cache never answers.           *)
(*  - A cancellation does not meet a capability error in one round.        *)
(***************************************************************************)
EXTENDS ProviderCalls

CONSTANTS
    Forward,     \* forward chunks of the inventory
    Incoming,    \* chunks that Pass B may look at
    Review,      \* discrepancy packets
    Native,      \* the evidence a native adapter verified beforehand
    Inventory,   \* the region id of an empty inventory
    Graph        \* the region id of a failed reconciliation

ASSUME RegionsAssumption ==
    /\ Calls = Forward \cup Incoming \cup Review
    /\ Forward # {}
    /\ Forward \cap Incoming = {}
    /\ Forward \cap Review = {}
    /\ Incoming \cap Review = {}
    /\ {Native, Inventory, Graph} \cap Calls = {}

VARIABLES
    phase,      \* "new", the round being awaited, or "done"
    region,     \* what became of each region
    native,     \* the run was given verified native evidence
    cancelled,  \* the caller cancelled the run
    raised,     \* a region raised a capability error into the gather
    cacheOpen,
    cached,     \* regions with a model in the cache
    lateUse,    \* history: the closed cache was used
    evidence,   \* regions whose evidence was verified against the source
    decisions,  \* packets whose decisions were appended to the graph
    failures,   \* region ids of the recorded failures
    graph,      \* what the returned graph is built from; {} if there is none
    status      \* "none" until the run returns a result

runVars == <<phase, region, native, cancelled, raised, cacheOpen, cached, lateUse,
             evidence, decisions, failures, graph, status>>
allVars == <<vars, runVars>>

Phases       == {"new", "forward", "incoming", "review", "done"}
RegionStates == {"unused", "ready", "calling", "accepted", "rejected", "failed",
                 "raised", "interrupted"}
Statuses     == {"none", "success", "partial", "failed"}

RunInit ==
    /\ Init
    /\ phase = "new"
    /\ region = [r \in Calls |-> "unused"]
    /\ native \in BOOLEAN
    /\ cancelled = FALSE
    /\ raised = FALSE
    /\ cacheOpen = TRUE
    /\ cached = {}
    /\ lateUse = FALSE
    /\ evidence = {}
    /\ decisions = {}
    /\ failures = {}
    /\ graph = {}
    /\ status = "none"

Round == CASE phase = "forward"  -> Forward
           [] phase = "incoming" -> Incoming
           [] phase = "review"   -> Review
           [] OTHER              -> {}

In(rs, s) == {r \in rs : region[r] \in s}

InFlight == In(Calls, {"ready", "calling"})

------------------------------------------------------------------------------
(* A region's task.                                                         *)

Mark(r, s) == region' = [region EXCEPT ![r] = s]

\* The request exceeds the limits, or the adapter cannot be set up.
FailRegionEarly(r) ==
    /\ region[r] = "ready"
    /\ ~cancelled
    /\ Mark(r, "failed")
    /\ UNCHANGED vars \/ FailSetup(r)
    /\ UNCHANGED <<phase, native, cancelled, raised, cacheOpen, cached, lateUse,
                   evidence, decisions, failures, graph, status>>

\* The schema descriptor drifted, or the provider refuses the settings.
RaiseCapability(r) ==
    /\ region[r] = "ready"
    /\ ~cancelled
    /\ Mark(r, "raised")
    /\ raised' = TRUE
    /\ UNCHANGED vars \/ Refuse(r)
    /\ UNCHANGED <<phase, native, cancelled, cacheOpen, cached, lateUse,
                   evidence, decisions, failures, graph, status>>

\* The cache has no model for the request: the provider is called.
CallProvider(r) ==
    /\ region[r] = "ready"
    /\ ~cancelled
    /\ Begin(r)
    /\ Mark(r, "calling")
    /\ UNCHANGED <<phase, native, cancelled, raised, cacheOpen, cached, lateUse,
                   evidence, decisions, failures, graph, status>>

\* A complete answer goes into the cache and is then held against the region's
\* contract; a closed cache raises instead.
Receive(r) ==
    IF cacheOpen
    THEN /\ cached' = cached \cup {r}
         /\ \/ Mark(r, "accepted")
            \/ r \notin Review /\ Mark(r, "rejected")
         /\ UNCHANGED lateUse
    ELSE /\ lateUse' = TRUE
         /\ Mark(r, "raised")
         /\ UNCHANGED cached

\* Defect: a model is cached before its answer is known to be complete.
SettleCachesEarly(r) ==
    IF stage'[r] # "ended" THEN UNCHANGED <<region, cached, lateUse>>
    ELSE \/ result'[r] = "response" /\ Receive(r)
         \/ /\ result'[r] # "response"
            /\ Mark(r, "failed")
            /\ cached' = cached \cup {r}
            /\ UNCHANGED lateUse

\* What the region's task does with the call's step: nothing until it ends.
Settle(r) ==
    IF stage'[r] # "ended" THEN UNCHANGED <<region, cached, lateUse>>
    ELSE \/ result'[r] = "response" /\ Receive(r)
         \/ result'[r] # "response" /\ Mark(r, "failed") /\ UNCHANGED <<cached, lateUse>>

\* Defect: the run's end drops the tasks it no longer waits for.
ContinueRegionAwaited(r) ==
    /\ region[r] = "calling"
    /\ ~cancelled
    /\ phase # "done"
    /\ Step(r)
    /\ Settle(r)
    /\ UNCHANGED <<phase, native, cancelled, raised, cacheOpen,
                   evidence, decisions, failures, graph, status>>

\* Defect: the cancellation of the run does not reach its tasks.
ContinueRegionShielded(r) ==
    /\ region[r] = "calling"
    /\ Step(r)
    /\ Settle(r)
    /\ UNCHANGED <<phase, native, cancelled, raised, cacheOpen,
                   evidence, decisions, failures, graph, status>>

\* The region's task runs on, whether or not the run still waits for it.
ContinueRegion(r) ==
    /\ region[r] = "calling"
    /\ ~cancelled
    /\ Step(r)
    /\ Settle(r)
    /\ UNCHANGED <<phase, native, cancelled, raised, cacheOpen,
                   evidence, decisions, failures, graph, status>>

\* The task is cancelled, with the run or because its event loop closes.
InterruptRegion(r) ==
    /\ region[r] \in {"ready", "calling"}
    /\ cancelled \/ phase = "done"
    /\ IF region[r] = "calling" THEN Interrupt(r) ELSE UNCHANGED vars
    /\ Mark(r, "interrupted")
    /\ UNCHANGED <<phase, native, cancelled, raised, cacheOpen, cached, lateUse,
                   evidence, decisions, failures, graph, status>>

------------------------------------------------------------------------------
(* The run.                                                                 *)

\* gather() has every region's result.
Joined == ~raised /\ ~cancelled /\ InFlight = {}

Await(p, rs) ==
    /\ phase' = p
    /\ region' = [r \in Calls |-> IF r \in rs THEN "ready" ELSE region[r]]

CloseCache ==
    /\ cacheOpen' = FALSE
    /\ cached' = {}

Return(st, g) ==
    /\ phase' = "done"
    /\ status' = st
    /\ graph' = g
    /\ CloseCache
    /\ UNCHANGED region

GivenNative == IF native THEN {Native} ELSE {}

\* Regions of this round that ended without usable output.
RoundFailures == In(Round, {"failed", "rejected"})

\* The inventory is empty, or the provider refuses the schemas.
RefuseRun ==
    /\ phase = "new"
    /\ \/ /\ failures' = {Inventory}
          /\ Return("failed", {})
          /\ UNCHANGED raised
       \/ /\ raised' = TRUE
          /\ Return("none", {})
          /\ UNCHANGED failures
    /\ UNCHANGED <<vars, native, cancelled, lateUse, evidence, decisions>>

StartRun ==
    /\ phase = "new"
    /\ Await("forward", Forward)
    /\ UNCHANGED <<vars, native, cancelled, raised, cacheOpen, cached, lateUse,
                   evidence, decisions, failures, graph, status>>

\* Defect: native evidence counts as a graph before it reconciles.
FallBackToNativeUnchecked ==
    /\ phase = "forward"
    /\ Joined
    /\ In(Forward, {"accepted"}) = {}
    /\ \/ /\ failures' = failures \cup RoundFailures
          /\ Return(IF native THEN "partial" ELSE "failed", GivenNative)
       \/ /\ native
          /\ failures' = failures \cup RoundFailures \cup {Graph}
          /\ Return("partial", {})
    /\ UNCHANGED <<vars, native, cancelled, raised, lateUse, evidence, decisions>>

\* No forward region answered: the native evidence, if any, makes the graph.
FallBackToNative ==
    /\ phase = "forward"
    /\ Joined
    /\ In(Forward, {"accepted"}) = {}
    /\ \/ /\ native
          /\ failures' = failures \cup RoundFailures
          /\ Return("partial", {Native})
       \/ /\ failures' = failures \cup RoundFailures \cup (IF native THEN {Graph} ELSE {})
          /\ Return("failed", {})
    /\ UNCHANGED <<vars, native, cancelled, raised, lateUse, evidence, decisions>>

\* Defect: an unusable batch is dropped without a failure.
VerifyForwardForgets ==
    /\ phase = "forward"
    /\ Joined
    /\ In(Forward, {"accepted"}) # {}
    /\ \E bad \in SUBSET In(Forward, {"accepted"}) :
          /\ evidence' = In(Forward, {"accepted"}) \ bad
          /\ failures' = failures \cup RoundFailures
          /\ \/ evidence' = {} /\ Return("failed", {})
             \/ /\ evidence' # {}
                /\ \E targets \in SUBSET Incoming : Await("incoming", targets)
                /\ UNCHANGED <<cacheOpen, cached, graph, status>>
    /\ UNCHANGED <<vars, native, cancelled, raised, lateUse, decisions>>

\* Defect: the run goes on only when every forward region answered.
VerifyForwardNeedsAll ==
    /\ phase = "forward"
    /\ Joined
    /\ In(Forward, {"accepted"}) = Forward
    /\ evidence' = Forward
    /\ \E targets \in SUBSET Incoming : Await("incoming", targets)
    /\ UNCHANGED <<vars, native, cancelled, raised, cacheOpen, cached, lateUse,
                   decisions, failures, graph, status>>

\* Verify what the forward regions answered; `bad` fails verification.  If
\* something is left and reconciles, choose what Pass B looks at.
VerifyForward ==
    /\ phase = "forward"
    /\ Joined
    /\ In(Forward, {"accepted"}) # {}
    /\ \E bad \in SUBSET In(Forward, {"accepted"}) :
          /\ evidence' = In(Forward, {"accepted"}) \ bad
          /\ \/ /\ failures' = failures \cup RoundFailures \cup bad
                /\ evidence' = {}
                /\ Return("failed", {})
             \/ /\ failures' = failures \cup RoundFailures \cup bad \cup {Graph}
                /\ evidence' # {}
                /\ Return("failed", {})
             \/ /\ failures' = failures \cup RoundFailures \cup bad
                /\ evidence' # {}
                /\ \E targets \in SUBSET Incoming : Await("incoming", targets)
                /\ UNCHANGED <<cacheOpen, cached, graph, status>>
    /\ UNCHANGED <<vars, native, cancelled, raised, lateUse, decisions>>

\* Defect: incoming regions that failed leave no trace.
MergePassesForgets ==
    /\ phase = "incoming"
    /\ Joined
    /\ \E bad \in SUBSET In(Incoming, {"accepted"}) :
          /\ evidence' = evidence \cup (In(Incoming, {"accepted"}) \ bad)
          /\ failures' = failures \cup bad
          /\ graph' = evidence' \cup GivenNative
          /\ \E packets \in SUBSET Review : Await("review", packets)
    /\ UNCHANGED <<vars, native, cancelled, raised, cacheOpen, cached, lateUse,
                   decisions, status>>

\* Verify what Pass B answered, build the graph and the review packets.
MergePasses ==
    /\ phase = "incoming"
    /\ Joined
    /\ \E bad \in SUBSET In(Incoming, {"accepted"}) :
          /\ evidence' = evidence \cup (In(Incoming, {"accepted"}) \ bad)
          /\ \/ /\ failures' = failures \cup RoundFailures \cup bad
                /\ graph' = evidence' \cup GivenNative
                /\ \E packets \in SUBSET Review : Await("review", packets)
                /\ UNCHANGED <<cacheOpen, cached, status>>
             \/ /\ failures' = failures \cup RoundFailures \cup bad \cup {Graph}
                /\ Return("failed", {})
    /\ UNCHANGED <<vars, native, cancelled, raised, lateUse, decisions>>

\* Defect: every answer of the run is taken for a review.
FinishReviewOfAll ==
    /\ phase = "review"
    /\ Joined
    /\ decisions' = In(Calls, {"accepted"})
    /\ failures' = failures \cup RoundFailures
    /\ Return(IF failures' = {} THEN "success" ELSE "partial", graph)
    /\ UNCHANGED <<vars, native, cancelled, raised, lateUse, evidence>>

\* Append the decisions of the answered packets; `bad` fails validation.
FinishReview ==
    /\ phase = "review"
    /\ Joined
    /\ \E bad \in SUBSET In(Review, {"accepted"}) :
          /\ decisions' = In(Review, {"accepted"}) \ bad
          /\ failures' = failures \cup RoundFailures \cup bad
          /\ Return(IF failures' = {} THEN "success" ELSE "partial", graph)
    /\ UNCHANGED <<vars, native, cancelled, raised, lateUse, evidence>>

\* A capability error leaves the gather.  All its tasks have started by then.
RaiseOut ==
    /\ phase \in {"forward", "incoming", "review"}
    /\ raised
    /\ ~cancelled
    /\ In(Round, {"ready"}) = {}
    /\ phase' = "done"
    /\ graph' = {}
    /\ CloseCache
    /\ UNCHANGED <<vars, region, native, cancelled, raised, lateUse,
                   evidence, decisions, failures, status>>

\* The caller cancels the run while it awaits a round.
CancelRun ==
    /\ \E r \in Round : region[r] # "unused"
    /\ ~raised
    /\ ~cancelled
    /\ cancelled' = TRUE
    /\ UNCHANGED <<vars, phase, region, native, raised, cacheOpen, cached, lateUse,
                   evidence, decisions, failures, graph, status>>

\* The cancelled gather is left when the first of its tasks is interrupted;
\* the others may still be unwinding.
CancelOut ==
    /\ phase \in {"forward", "incoming", "review"}
    /\ cancelled
    /\ InFlight = {} \/ In(Round, {"interrupted"}) # {}
    /\ phase' = "done"
    /\ graph' = {}
    /\ CloseCache
    /\ UNCHANGED <<vars, region, native, cancelled, raised, lateUse,
                   evidence, decisions, failures, status>>

RunStep ==
    \/ RefuseRun
    \/ StartRun
    \/ FallBackToNative
    \/ VerifyForward
    \/ MergePasses
    \/ FinishReview
    \/ RaiseOut
    \/ CancelOut

RegionStep(r) ==
    \/ FailRegionEarly(r)
    \/ RaiseCapability(r)
    \/ CallProvider(r)
    \/ ContinueRegion(r)

RunNext ==
    \/ RunStep
    \/ CancelRun
    \/ \E r \in Calls : RegionStep(r) \/ InterruptRegion(r)

RunSpec == RunInit /\ [][RunNext]_allVars

\* The event loop runs ready tasks, providers answer or fail, sleeps end, and
\* a cancelled task gets its exception.
FairRunSpec ==
    /\ RunSpec
    /\ WF_allVars(RunStep)
    /\ \A r \in Calls : WF_allVars(RegionStep(r)) /\ WF_allVars(cancelled /\ InterruptRegion(r))

------------------------------------------------------------------------------
(* Properties.                                                              *)

Used == {r \in Calls : region[r] # "unused"}

RunTypeOK ==
    /\ TypeOK
    /\ phase \in Phases
    /\ region \in [Calls -> RegionStates]
    /\ {native, cancelled, raised, cacheOpen, lateUse} \subseteq BOOLEAN
    /\ cached \subseteq Calls
    /\ evidence \subseteq Forward \cup Incoming
    /\ decisions \subseteq Review
    /\ failures \subseteq Calls \cup {Inventory, Graph}
    /\ graph \subseteq Calls \cup {Native}
    /\ status \in Statuses

\* Success means that every region the run asked about, in any of its rounds,
\* is in the result: evidence of every chunk in the graph, a decision for every
\* packet, and the native evidence that came with the run.
SuccessIsComplete ==
    status = "success" =>
        /\ Used \subseteq evidence \cup decisions
        /\ evidence \cup GivenNative \subseteq graph

\* A result that came out of the rounds accounts for every region asked about
\* exactly once: its output is used or it is a recorded failure.
EveryRegionAccounted ==
    status # "none" =>
        /\ Used = evidence \cup decisions \cup (failures \cap Calls)
        /\ (evidence \cup decisions) \cap failures = {}

\* "failed" says that there is no graph and "partial" that there is one with
\* something recorded against it; a run that raised returns neither.
StatusTellsGraph ==
    /\ status = "failed" <=> phase = "done" /\ graph = {} /\ ~raised /\ ~cancelled
    /\ status = "partial" => graph # {} /\ failures # {}
    /\ raised \/ cancelled => status = "none"

\* A run that returns a result has nothing left behind: no task, no call that
\* waits, sends or sleeps, no slot.  Tasks that outlive a cancelled run only
\* unwind; it takes a capability error for one to go on and use the cache.
NothingOutlivesRun ==
    /\ status # "none" =>
          /\ InFlight = {}
          /\ \A c \in Calls : stage[c] \in {"idle", "ended"}
          /\ free = Limit
    /\ lateUse => raised

\* The cache holds answers of this run only, and none after it.
CacheIsPerRun ==
    /\ cached \subseteq {r \in Calls : result[r] = "response"}
    /\ ~cacheOpen => cached = {}

\* ParsedModelCache asserts that it is not used after close().
CacheNotUsedAfterClose == ~lateUse

\* A run ends, a call that a cut round left behind ends as well, and in the end there is none.
EveryCallEnds == <>[](phase = "done" /\ \A r \in Calls : region[r] # "calling")

=============================================================================
