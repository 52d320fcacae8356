--------------------------- MODULE RoutingRunProofs ---------------------------
(***************************************************************************)
(* First, of ProviderCalls, for every set of calls, every ceiling and      *)
(* every budget of attempts: types, conservation of the limiter's slots,   *)
(* and the shared budget.  Then, of RoutingRun, for every set of regions:  *)
(* what a run's status, failures and graph say about its regions, and what *)
(* the run leaves behind.                                                  *)
(*                                                                         *)
(* The run takes steps of ProviderCalls only, so the invariant of that     *)
(* module carries over; the rest of the invariant says, for each phase,    *)
(* which rounds are settled and what has been recorded of them.            *)
(***************************************************************************)
EXTENDS RoutingRun, FiniteSetTheorems, TLAPS

-----------------------------------------------------------------------------
(* ProviderCalls.                                                          *)

USE DEF Stages, Results, Requests, vars, callVars, limiterVars

\* The inductive invariant.
CallInv == TypeOK /\ SlotsConserved /\ AttemptsLeft /\ GivesUpWhenSpent

------------------------------------------------------------------------------
(* How the set of requests in flight changes with the stage of one call.    *)

LEMMA SendingIsFinite == IsFiniteSet(Sending) /\ Cardinality(Sending) \in Nat
  <1>1. Sending \in SUBSET Calls
    BY DEF Sending
  <1> QED
    BY <1>1, FS_Subset, FS_CardinalityType, CallsAssumption DEF CallsAssumption

LEMMA SendingGrows ==
  ASSUME NEW c \in Calls, TypeOK, stage[c] # "sending",
         stage' = [stage EXCEPT ![c] = "sending"]
  PROVE  Cardinality(Sending') = Cardinality(Sending) + 1
  <1>1. Sending' = Sending \cup {c} /\ c \notin Sending
    BY DEF Sending, TypeOK
  <1> QED
    BY <1>1, SendingIsFinite, FS_AddElement

LEMMA SendingShrinks ==
  ASSUME NEW c \in Calls, NEW s, TypeOK, stage[c] = "sending", s # "sending",
         stage' = [stage EXCEPT ![c] = s]
  PROVE  /\ Cardinality(Sending') = Cardinality(Sending) - 1
         /\ Cardinality(Sending) > 0
  <1>1. Sending' = Sending \ {c} /\ c \in Sending
    BY DEF Sending, TypeOK
  <1>2. Cardinality(Sending) # 0
    BY <1>1, SendingIsFinite, FS_EmptySet
  <1>3. Cardinality(Sending') = Cardinality(Sending) - 1
    BY <1>1, SendingIsFinite, FS_RemoveElement
  <1> QED
    BY <1>2, <1>3, SendingIsFinite

LEMMA SendingStays ==
  ASSUME NEW c \in Calls, NEW s, TypeOK, stage[c] # "sending", s # "sending",
         stage' = [stage EXCEPT ![c] = s]
  PROVE  Cardinality(Sending') = Cardinality(Sending)
  <1>1. Sending' = Sending
    BY DEF Sending, TypeOK
  <1> QED
    BY <1>1

------------------------------------------------------------------------------
(* The slots.                                                               *)

\* A call that leaves "sending" gives its slot back.
LEMMA SlotGivenBack ==
  ASSUME NEW c \in Calls, NEW s, TypeOK, SlotsConserved, stage[c] = "sending",
         s # "sending", stage' = [stage EXCEPT ![c] = s], LeaveSlot
  PROVE  SlotsConserved' /\ free' \in 0..Limit /\ active' \in 0..Limit /\ peak' \in 0..Limit
  <1>1. /\ Cardinality(Sending') = Cardinality(Sending) - 1
        /\ Cardinality(Sending) > 0
    BY SendingShrinks
  <1>2. /\ free \in 0..Limit /\ active \in 0..Limit /\ peak \in 0..Limit
        /\ Limit \in Nat /\ Cardinality(Sending) \in Nat
    BY SendingIsFinite, CallsAssumption DEF TypeOK, CallsAssumption
  <1>3. free' = free + 1 /\ active' = active - 1 /\ peak' = peak
    BY DEF LeaveSlot
  <1> QED
    BY <1>1, <1>2, <1>3 DEF SlotsConserved

\* A call that does not touch a slot leaves the limiter as it was.
LEMMA SlotUntouched ==
  ASSUME NEW c \in Calls, NEW s, TypeOK, SlotsConserved, stage[c] # "sending",
         s # "sending", stage' = [stage EXCEPT ![c] = s], UNCHANGED limiterVars
  PROVE  SlotsConserved' /\ free' \in 0..Limit /\ active' \in 0..Limit /\ peak' \in 0..Limit
  BY SendingStays DEF SlotsConserved, TypeOK

LEMMA SlotTaken ==
  ASSUME NEW c \in Calls, TypeOK, SlotsConserved, Send(c)
  PROVE  SlotsConserved' /\ free' \in 0..Limit /\ active' \in 0..Limit /\ peak' \in 0..Limit
  <1>1. Cardinality(Sending') = Cardinality(Sending) + 1
    BY SendingGrows DEF Send
  <1> QED
    BY <1>1, SendingIsFinite, CallsAssumption
       DEF Send, TakeSlot, SlotsConserved, TypeOK, CallsAssumption

LEMMA SlotsPreserved ==
  ASSUME TypeOK, SlotsConserved, [Next]_vars
  PROVE  SlotsConserved' /\ free' \in 0..Limit /\ active' \in 0..Limit /\ peak' \in 0..Limit
  <1>1. ASSUME NEW c \in Calls, Refuse(c) \/ FailSetup(c) \/ Begin(c) \/ Retry(c)
        PROVE  /\ stage[c] # "sending"
               /\ UNCHANGED limiterVars
               /\ \E s \in {"queued", "ended"} : stage' = [stage EXCEPT ![c] = s]
    BY <1>1 DEF Refuse, FailSetup, Begin, Retry, Enter, End
  <1>2. ASSUME NEW c \in Calls, Answer(c) \/ Truncate(c) \/ Invalidate(c) \/ FailTransport(c)
        PROVE  /\ stage[c] = "sending"
               /\ LeaveSlot
               /\ \E s \in {"backoff", "ended"} : stage' = [stage EXCEPT ![c] = s]
    BY <1>2 DEF Answer, Truncate, Invalidate, FailTransport, RetryOr, End
  <1>3. ASSUME NEW c \in Calls, Interrupt(c), stage[c] = "sending"
        PROVE  LeaveSlot /\ stage' = [stage EXCEPT ![c] = "ended"]
    BY <1>3 DEF Interrupt, End
  <1>4. ASSUME NEW c \in Calls, Interrupt(c), stage[c] # "sending"
        PROVE  UNCHANGED limiterVars /\ stage' = [stage EXCEPT ![c] = "ended"]
    BY <1>4 DEF Interrupt, End
  <1>5. CASE Close \/ UNCHANGED vars
    <2>1. Sending' = Sending
      BY <1>5 DEF Close, Sending
    <2> QED
      BY <1>5, <2>1 DEF Close, SlotsConserved, TypeOK
  <1> QED
    BY <1>1, <1>2, <1>3, <1>4, <1>5, SlotGivenBack, SlotUntouched, SlotTaken
       DEF Next, Step, Attempt

------------------------------------------------------------------------------
(* Types and attempts, one step for each action.                            *)

LEMMA AttemptsPreserved ==
  ASSUME CallInv, [Next]_vars
  PROVE  TypeOK' /\ AttemptsLeft' /\ GivesUpWhenSpent'
  <1> USE CallsAssumption DEF CallsAssumption
  <1>0. free' \in 0..Limit /\ active' \in 0..Limit /\ peak' \in 0..Limit
    BY SlotsPreserved DEF CallInv
  <1>1. ASSUME NEW c \in Calls, Refuse(c) PROVE TypeOK' /\ AttemptsLeft' /\ GivesUpWhenSpent'
    BY <1>0, <1>1 DEF Refuse, End, CallInv, TypeOK, AttemptsLeft, GivesUpWhenSpent
  <1>2. ASSUME NEW c \in Calls, FailSetup(c) PROVE TypeOK' /\ AttemptsLeft' /\ GivesUpWhenSpent'
    BY <1>0, <1>2 DEF FailSetup, End, CallInv, TypeOK, AttemptsLeft, GivesUpWhenSpent
  <1>3. ASSUME NEW c \in Calls, Begin(c) PROVE TypeOK' /\ AttemptsLeft' /\ GivesUpWhenSpent'
    BY <1>0, <1>3 DEF Begin, Enter, CallInv, TypeOK, AttemptsLeft, GivesUpWhenSpent
  <1>4. ASSUME NEW c \in Calls, Send(c) PROVE TypeOK' /\ AttemptsLeft' /\ GivesUpWhenSpent'
    BY <1>0, <1>4 DEF Send, CallInv, TypeOK, AttemptsLeft, GivesUpWhenSpent
  <1>5. ASSUME NEW c \in Calls, Answer(c) PROVE TypeOK' /\ AttemptsLeft' /\ GivesUpWhenSpent'
    BY <1>0, <1>5 DEF Answer, End, CallInv, TypeOK, AttemptsLeft, GivesUpWhenSpent
  <1>6. ASSUME NEW c \in Calls, Truncate(c) PROVE TypeOK' /\ AttemptsLeft' /\ GivesUpWhenSpent'
    BY <1>0, <1>6 DEF Truncate, End, CallInv, TypeOK, AttemptsLeft, GivesUpWhenSpent
  <1>7. ASSUME NEW c \in Calls, Invalidate(c) PROVE TypeOK' /\ AttemptsLeft' /\ GivesUpWhenSpent'
    BY <1>0, <1>7 DEF Invalidate, RetryOr, End, CallInv, TypeOK, AttemptsLeft, GivesUpWhenSpent
  <1>8. ASSUME NEW c \in Calls, FailTransport(c) PROVE TypeOK' /\ AttemptsLeft' /\ GivesUpWhenSpent'
    BY <1>0, <1>8 DEF FailTransport, RetryOr, End, CallInv, TypeOK, AttemptsLeft, GivesUpWhenSpent
  <1>9. ASSUME NEW c \in Calls, Retry(c) PROVE TypeOK' /\ AttemptsLeft' /\ GivesUpWhenSpent'
    BY <1>0, <1>9 DEF Retry, Enter, End, CallInv, TypeOK, AttemptsLeft, GivesUpWhenSpent
  <1>10. ASSUME NEW c \in Calls, Interrupt(c) PROVE TypeOK' /\ AttemptsLeft' /\ GivesUpWhenSpent'
    BY <1>0, <1>10 DEF Interrupt, End, CallInv, TypeOK, AttemptsLeft, GivesUpWhenSpent
  <1>11. CASE Close \/ UNCHANGED vars
    BY <1>0, <1>11 DEF Close, CallInv, TypeOK, AttemptsLeft, GivesUpWhenSpent
  <1> QED
    BY <1>1, <1>2, <1>3, <1>4, <1>5, <1>6, <1>7, <1>8, <1>9, <1>10, <1>11
       DEF Next, Step, Attempt

LEMMA CallInvInit == Init => CallInv
  <1> SUFFICES ASSUME Init PROVE CallInv
    OBVIOUS
  <1>1. Sending = {}
    BY DEF Init, Sending
  <1>2. Cardinality(Sending) = 0
    BY <1>1, FS_EmptySet
  <1> QED
    BY <1>2, CallsAssumption
       DEF Init, CallInv, TypeOK, SlotsConserved, AttemptsLeft, GivesUpWhenSpent, CallsAssumption

LEMMA CallInvStep == CallInv /\ [Next]_vars => CallInv'
  BY SlotsPreserved, AttemptsPreserved DEF CallInv

\* Every reachable state satisfies the invariant: types, slots and attempts.
THEOREM CallInvariant == Spec => []CallInv
  BY CallInvInit, CallInvStep, PTL DEF Spec

\* Every reachable state is well typed: no counter of a call passes max_attempts,
\* and neither the free slots nor those in use pass the ceiling.
THEOREM TypeCorrect == Spec => []TypeOK
  <1>1. CallInv => TypeOK
    BY DEF CallInv
  <1> QED
    BY <1>1, CallInvariant, PTL

\* However calls fail, retry, sleep or are cancelled, the slots of the limiter
\* are those of the requests in flight, and the ceiling holds.
THEOREM LimiterHolds == Spec => []SlotsConserved
  <1>1. CallInv => SlotsConserved
    BY DEF CallInv
  <1> QED
    BY <1>1, CallInvariant, PTL

\* A call gives up on a failure that could be retried only after max_attempts
\* requests, whatever the mix of transport failures and invalid answers.
THEOREM BudgetSpent == Spec => []GivesUpWhenSpent
  <1>1. CallInv => GivesUpWhenSpent
    BY DEF CallInv
  <1> QED
    BY <1>1, CallInvariant, PTL

-----------------------------------------------------------------------------
(* RoutingRun.                                                             *)

Settled == {"accepted", "rejected", "failed"}

\* Only a calling region has a call under way.
CallsLinked ==
    \A r \in Calls :
        /\ region[r] \in {"unused", "ready"} => stage[r] = "idle"
        /\ region[r] # "calling" => stage[r] \in {"idle", "ended"}

\* Rounds before the one being awaited are settled, later ones unused.
RoundsOrdered ==
    /\ phase = "new" => ~raised /\ ~cancelled /\ \A r \in Calls : region[r] = "unused"
    /\ phase = "forward" =>
          /\ \A r \in Forward : region[r] # "unused"
          /\ \A r \in Incoming \cup Review : region[r] = "unused"
    /\ phase = "incoming" =>
          /\ \A r \in Forward : region[r] \in Settled
          /\ \A r \in Review : region[r] = "unused"
    /\ phase = "review" => \A r \in Forward \cup Incoming : region[r] \in Settled \cup {"unused"}
    /\ phase # "done" =>
          \A r \in Calls :
              /\ region[r] = "raised" => raised
              /\ region[r] = "interrupted" => cancelled

\* What the settled rounds have left in the run's records.
Recorded ==
    /\ phase \in {"new", "forward"} => evidence = {} /\ failures = {}
    /\ phase \in {"incoming", "review"} => evidence # {} /\ evidence \cap failures = {}
    /\ phase = "incoming" => evidence \cup failures = Forward
    /\ phase = "review" =>
          /\ evidence \cup failures = {r \in Forward \cup Incoming : region[r] # "unused"}
          /\ graph = evidence \cup GivenNative
    /\ phase \notin {"review", "done"} => graph = {}
    /\ phase # "done" => decisions = {}

\* How a run can be over.
Outcome ==
    /\ cacheOpen <=> phase # "done"
    /\ status # "none" <=> phase = "done" /\ ~raised /\ ~cancelled
    /\ status # "none" => InFlight = {}
    /\ lateUse => raised

\* The cache is filled by finished calls.
CacheFilled ==
    /\ \A r \in cached : stage[r] = "ended" /\ result[r] = "response"
    /\ ~cacheOpen => cached = {}

Reported == EveryRegionAccounted /\ SuccessIsComplete /\ StatusTellsGraph

RunInv ==
    /\ CallInv
    /\ RunTypeOK
    /\ CallsLinked
    /\ RoundsOrdered
    /\ Recorded
    /\ Outcome
    /\ CacheFilled
    /\ Reported

USE DEF Phases, RegionStates, Statuses, Stages, Results, vars, callVars, limiterVars

------------------------------------------------------------------------------
(* The run's steps are steps of its calls.                                  *)

LEMMA RunIsCalls ==
  ASSUME [RunNext]_allVars
  PROVE  [Next]_vars
  <1>1. CASE RunStep \/ CancelRun \/ UNCHANGED allVars
    BY <1>1 DEF RunStep, RefuseRun, StartRun, FallBackToNative, VerifyForward, MergePasses,
                FinishReview, RaiseOut, CancelOut, CancelRun, allVars
  <1>2. ASSUME NEW r \in Calls, RegionStep(r) \/ InterruptRegion(r)
        PROVE  [Next]_vars
    BY <1>2 DEF RegionStep, InterruptRegion, FailRegionEarly, RaiseCapability, CallProvider,
                ContinueRegion, Next
  <1> QED
    BY <1>1, <1>2 DEF RunNext

------------------------------------------------------------------------------
(* A region's step.                                                         *)

\* Of the calls, at most c has moved, and it had not ended.
OnlyCall(c) ==
    /\ stage[c] # "ended"
    /\ \A q \in Calls \ {c} : stage'[q] = stage[q] /\ result'[q] = result[q]

\* What every step of a region's task amounts to, for the run.
Moves(r, s) ==
    /\ region[r] \in {"ready", "calling"}
    /\ s \in RegionStates \ {"unused", "ready"}
    /\ region' = [region EXCEPT ![r] = s]
    /\ s = "raised" => raised' \/ phase = "done"
    /\ s = "interrupted" => cancelled \/ phase = "done"
    /\ {raised', lateUse'} \subseteq BOOLEAN
    /\ raised => raised'
    /\ lateUse' => lateUse \/ (~cacheOpen /\ ~cancelled)
    /\ \/ cached' = cached
       \/ /\ cacheOpen
          /\ cached' = cached \cup {r}
          /\ stage'[r] = "ended" /\ result'[r] = "response"
    /\ OnlyCall(r)
    /\ s # "calling" => stage'[r] \in {"idle", "ended"}
    /\ UNCHANGED <<phase, native, cancelled, cacheOpen, evidence, decisions, failures,
                   graph, status>>

\* What every step of a call amounts to, for its region.
LEMMA CallMoves ==
  ASSUME TypeOK, NEW c \in Calls,
         Refuse(c) \/ FailSetup(c) \/ Begin(c) \/ Step(c) \/ Interrupt(c)
  PROVE  OnlyCall(c)
  <1> USE DEF TypeOK, End, Enter, RetryOr, OnlyCall
  <1>1. CASE Refuse(c) \/ FailSetup(c) \/ Begin(c) \/ Interrupt(c)
    BY <1>1 DEF Refuse, FailSetup, Begin, Interrupt
  <1>2. CASE Send(c) \/ Answer(c) \/ Truncate(c)
    BY <1>2 DEF Send, Answer, Truncate
  <1>3. CASE Invalidate(c)
    BY <1>3 DEF Invalidate
  <1>4. CASE FailTransport(c)
    BY <1>4 DEF FailTransport
  <1>5. CASE Retry(c)
    BY <1>5 DEF Retry
  <1> QED
    BY <1>1, <1>2, <1>3, <1>4, <1>5 DEF Step, Attempt

LEMMA EarlyMoves ==
  ASSUME RunInv, NEW r \in Calls, FailRegionEarly(r) \/ RaiseCapability(r) \/ CallProvider(r)
  PROVE  \E s \in RegionStates : Moves(r, s)
  <1> USE DEF RunInv, RunTypeOK, TypeOK, CallsLinked, Moves, OnlyCall, Mark
  <1>1. CASE FailRegionEarly(r)
    <2>1. Moves(r, "failed")
      BY <1>1 DEF FailRegionEarly, FailSetup, End
    <2> QED
      BY <2>1
  <1>2. CASE RaiseCapability(r)
    <2>1. Moves(r, "raised")
      BY <1>2 DEF RaiseCapability, Refuse, End
    <2> QED
      BY <2>1
  <1>3. CASE CallProvider(r)
    <2>1. Moves(r, "calling")
      BY <1>3, CallMoves DEF CallProvider, Begin, Enter
    <2> QED
      BY <2>1
  <1> QED
    BY <1>1, <1>2, <1>3

LEMMA ContinueMoves ==
  ASSUME RunInv, NEW r \in Calls, ContinueRegion(r)
  PROVE  \E s \in RegionStates : Moves(r, s)
  <1>1. /\ OnlyCall(r)
        /\ region[r] = "calling" /\ ~cancelled
        /\ raised' = raised
        /\ {raised, lateUse} \subseteq BOOLEAN
        /\ UNCHANGED <<phase, native, cancelled, cacheOpen, evidence, decisions, failures,
                       graph, status>>
    BY CallMoves DEF ContinueRegion, RunInv, RunTypeOK
  <1>2. region \in [Calls -> RegionStates]
    BY DEF RunInv, RunTypeOK
  <1>3. CASE stage'[r] # "ended"
    <2>1. UNCHANGED <<region, cached, lateUse>>
      BY <1>3 DEF ContinueRegion, Settle
    <2>2. region' = [region EXCEPT ![r] = "calling"]
      BY <1>1, <1>2, <2>1
    <2>3. Moves(r, "calling")
      BY <1>1, <2>1, <2>2 DEF Moves
    <2> QED
      BY <2>3
  <1>4. CASE stage'[r] = "ended" /\ result'[r] # "response"
    <2>1. Moves(r, "failed")
      BY <1>1, <1>2, <1>4 DEF Moves, ContinueRegion, Settle, Mark
    <2> QED
      BY <2>1
  <1>5. CASE stage'[r] = "ended" /\ result'[r] = "response" /\ cacheOpen
    <2>1. Moves(r, "accepted") \/ Moves(r, "rejected")
      BY <1>1, <1>2, <1>5 DEF Moves, ContinueRegion, Settle, Receive, Mark
    <2> QED
      BY <2>1
  <1>6. CASE stage'[r] = "ended" /\ result'[r] = "response" /\ ~cacheOpen
    <2>1. phase = "done"
      BY <1>6 DEF RunInv, Outcome
    <2>2. Moves(r, "raised")
      BY <1>1, <1>2, <1>6, <2>1 DEF Moves, ContinueRegion, Settle, Receive, Mark
    <2> QED
      BY <2>2
  <1> QED
    BY <1>3, <1>4, <1>5, <1>6

LEMMA InterruptMoves ==
  ASSUME RunInv, NEW r \in Calls, InterruptRegion(r)
  PROVE  \E s \in RegionStates : Moves(r, s)
  <1>1. CASE region[r] = "calling"
    <2>1. Moves(r, "interrupted")
      BY <1>1 DEF InterruptRegion, Interrupt, End, Moves, OnlyCall, Mark, RunInv, RunTypeOK, TypeOK
    <2> QED
      BY <2>1
  <1>2. CASE region[r] = "ready"
    <2>1. Moves(r, "interrupted")
      BY <1>2 DEF InterruptRegion, Moves, OnlyCall, Mark, RunInv, RunTypeOK, TypeOK, CallsLinked
    <2> QED
      BY <2>1
  <1> QED
    BY <1>1, <1>2 DEF InterruptRegion

\* A region's step preserves the invariant.
LEMMA MovesPreserve ==
  ASSUME RunInv, CallInv', NEW r \in Calls, NEW s \in RegionStates, Moves(r, s)
  PROVE  RunInv'
  <1> USE RegionsAssumption DEF RegionsAssumption
  <1>1. status = "none"
    BY DEF Moves, RunInv, Outcome, InFlight, In
  <1>2. /\ region \in [Calls -> RegionStates]
        /\ stage \in [Calls -> Stages] /\ stage' \in [Calls -> Stages]
    BY DEF RunInv, RunTypeOK, CallInv, TypeOK
  <1>3. /\ region' \in [Calls -> RegionStates]
        /\ region'[r] = s
        /\ \A q \in Calls \ {r} : region'[q] = region[q]
    BY <1>2 DEF Moves
  <1>4. RunTypeOK'
    BY <1>3 DEF Moves, RunInv, RunTypeOK, CallInv
  <1>5. CallsLinked'
    BY <1>2, <1>3 DEF Moves, OnlyCall, RunInv, CallsLinked
  <1>6. RoundsOrdered'
    BY <1>2, <1>3 DEF Moves, RunInv, RoundsOrdered, Settled
  <1>7. Recorded'
    <2>1. {q \in Forward \cup Incoming : region'[q] # "unused"}
            = {q \in Forward \cup Incoming : region[q] # "unused"}
      BY <1>2, <1>3 DEF Moves
    <2> QED
      BY <2>1 DEF Moves, RunInv, Recorded, GivenNative
  <1>8. Outcome'
    <2>1. cacheOpen' = cacheOpen /\ phase' = phase /\ status' = "none"
      BY <1>1 DEF Moves
    <2>2. ~(phase = "done" /\ ~raised /\ ~cancelled)
      BY <1>1 DEF RunInv, Outcome
    <2>3. (raised => raised') /\ (cancelled' <=> cancelled)
      BY DEF Moves
    <2>4. lateUse' => raised'
      BY <2>2, <2>3 DEF Moves, RunInv, Outcome
    <2>5. cacheOpen <=> phase # "done"
      BY DEF RunInv, Outcome
    <2> QED
      BY <2>1, <2>2, <2>3, <2>4, <2>5 DEF Outcome
  <1>9. CacheFilled'
    <2>1. cached \subseteq Calls /\ CacheFilled /\ cacheOpen' = cacheOpen
      BY DEF RunInv, RunTypeOK, Moves
    <2>2. r \notin cached
      BY <2>1 DEF CacheFilled, Moves, OnlyCall
    <2>3. \A q \in cached : stage'[q] = "ended" /\ result'[q] = "response"
      BY <2>1, <2>2 DEF CacheFilled, Moves, OnlyCall
    <2> QED
      BY <2>1, <2>3 DEF CacheFilled, Moves
  <1>10. Reported'
    <2>1. status' = "none"
      BY <1>1 DEF Moves
    <2>2. ~(phase' = "done" /\ ~raised' /\ ~cancelled')
      BY <1>8, <2>1 DEF Outcome
    <2> QED
      BY <2>1, <2>2 DEF Reported, EveryRegionAccounted, SuccessIsComplete, StatusTellsGraph
  <1> QED
    BY <1>4, <1>5, <1>6, <1>7, <1>8, <1>9, <1>10 DEF RunInv

------------------------------------------------------------------------------
(* The run's own steps.  None of them moves a call.                         *)

\* When a gather has every result, no region is left between two states.
LEMMA AllSettled ==
  ASSUME RunInv, Joined, phase # "done"
  PROVE  \A r \in Calls : region[r] \in Settled \cup {"unused"}
  BY DEF RunInv, RunTypeOK, RoundsOrdered, Joined, InFlight, In, Settled

\* A step that awaits the regions of a round links calls and regions again.
LEMMA AwaitLinks ==
  ASSUME RunInv, UNCHANGED vars, NEW p, NEW rs \in SUBSET Calls, Await(p, rs),
         \A r \in rs : region[r] = "unused"
  PROVE  /\ region' \in [Calls -> RegionStates]
         /\ CallsLinked'
         /\ \A r \in rs : region'[r] = "ready"
         /\ \A r \in Calls \ rs : region'[r] = region[r]
  BY DEF Await, RunInv, RunTypeOK, CallsLinked

\* A step that awaits a round preserves what does not depend on the round.
LEMMA AwaitStep ==
  ASSUME RunInv, CallInv', NEW p \in {"forward", "incoming", "review"},
         NEW rs \in SUBSET Calls, Await(p, rs), \A r \in rs : region[r] = "unused",
         phase # "done",
         UNCHANGED <<vars, native, cancelled, raised, cacheOpen, cached, lateUse, decisions,
                     status>>,
         evidence' \subseteq Forward \cup Incoming,
         failures' \subseteq Calls \cup {Inventory, Graph},
         graph' \subseteq Calls \cup {Native},
         RoundsOrdered', Recorded'
  PROVE  RunInv'
  <1>1. CallsLinked' /\ region' \in [Calls -> RegionStates]
    BY AwaitLinks
  <1>2. status = "none" /\ status' = "none"
    BY DEF RunInv, Outcome
  <1>3. phase' = p
    BY DEF Await
  <1>4. RunTypeOK'
    BY <1>1, <1>3 DEF RunInv, RunTypeOK, CallInv
  <1>5. Outcome'
    BY <1>2, <1>3 DEF RunInv, Outcome
  <1>6. CacheFilled'
    BY DEF RunInv, CacheFilled
  <1>7. Reported'
    BY <1>2, <1>3 DEF Reported, EveryRegionAccounted, SuccessIsComplete, StatusTellsGraph
  <1> QED
    BY <1>1, <1>4, <1>5, <1>6, <1>7 DEF RunInv

\* A step that returns a result has only to report it well.
LEMMA ReturnStep ==
  ASSUME RunInv, CallInv', NEW st \in {"success", "partial", "failed"}, NEW g, Return(st, g),
         UNCHANGED <<vars, native, cancelled, raised, lateUse>>,
         ~raised, ~cancelled, InFlight = {},
         evidence' \subseteq Forward \cup Incoming,
         decisions' \subseteq Review,
         failures' \subseteq Calls \cup {Inventory, Graph},
         g \subseteq Calls \cup {Native},
         Reported'
  PROVE  RunInv'
  <1>1. phase' = "done" /\ status' = st /\ graph' = g /\ cacheOpen' = FALSE /\ cached' = {}
        /\ region' = region
    BY DEF Return, CloseCache
  <1>2. RunTypeOK'
    BY <1>1 DEF RunInv, RunTypeOK, CallInv
  <1>3. CallsLinked'
    BY <1>1 DEF RunInv, CallsLinked
  <1>4. RoundsOrdered' /\ Recorded' /\ CacheFilled'
    BY <1>1 DEF RoundsOrdered, Recorded, CacheFilled
  <1>5. InFlight' = {}
    BY <1>1 DEF InFlight, In
  <1>6. Outcome'
    BY <1>1, <1>5 DEF RunInv, Outcome
  <1> QED
    BY <1>2, <1>3, <1>4, <1>6 DEF RunInv

\* A step that raises out of the run reports nothing.
LEMMA CutStep ==
  ASSUME RunInv, CallInv', phase # "done",
         phase' = "done", status' = "none", graph' = {}, CloseCache,
         raised' \in BOOLEAN, raised => raised', raised' \/ cancelled,
         UNCHANGED <<vars, region, native, cancelled, lateUse, evidence, decisions, failures>>
  PROVE  RunInv'
  <1>1. cacheOpen' = FALSE /\ cached' = {}
    BY DEF CloseCache
  <1>2. RunTypeOK'
    BY <1>1 DEF RunInv, RunTypeOK, CallInv
  <1>3. CallsLinked'
    BY DEF RunInv, CallsLinked
  <1>4. RoundsOrdered' /\ Recorded' /\ CacheFilled'
    BY <1>1 DEF RoundsOrdered, Recorded, CacheFilled
  <1>5. Outcome'
    BY <1>1 DEF RunInv, Outcome
  <1>6. Reported'
    BY <1>5 DEF Reported, Outcome, EveryRegionAccounted, SuccessIsComplete, StatusTellsGraph
  <1> QED
    BY <1>2, <1>3, <1>4, <1>5, <1>6 DEF RunInv

LEMMA RefuseRunStep ==
  ASSUME RunInv, CallInv', RefuseRun
  PROVE  RunInv'
  <1> USE RegionsAssumption DEF RegionsAssumption
  <1>1. /\ phase = "new" /\ ~raised /\ ~cancelled
        /\ evidence = {} /\ decisions = {} /\ failures = {}
        /\ \A r \in Calls : region[r] = "unused"
    BY DEF RefuseRun, RunInv, RoundsOrdered, Recorded
  <1>2. InFlight = {}
    BY <1>1 DEF InFlight, In
  <1>3. CASE failures' = {Inventory} /\ Return("failed", {}) /\ UNCHANGED raised
    <2>1. /\ phase' = "done" /\ status' = "failed" /\ graph' = {} /\ region' = region
          /\ UNCHANGED <<vars, native, cancelled, lateUse, evidence, decisions>>
      BY <1>3 DEF Return, RefuseRun
    <2>2. Used' = {}
      BY <1>1, <2>1 DEF Used
    <2>3. Reported'
      BY <1>1, <1>3, <2>1, <2>2
         DEF Reported, EveryRegionAccounted, SuccessIsComplete, StatusTellsGraph
    <2> QED
      BY <1>1, <1>2, <1>3, <2>1, <2>3, ReturnStep
  <1>4. CASE raised' = TRUE /\ Return("none", {}) /\ UNCHANGED failures
    BY <1>1, <1>4, CutStep DEF Return, RefuseRun
  <1> QED
    BY <1>3, <1>4 DEF RefuseRun

LEMMA StartRunStep ==
  ASSUME RunInv, CallInv', StartRun
  PROVE  RunInv'
  <1> USE RegionsAssumption DEF RegionsAssumption
  <1>1. /\ phase = "new" /\ ~raised /\ ~cancelled
        /\ \A r \in Calls : region[r] = "unused"
        /\ Await("forward", Forward) /\ Forward \in SUBSET Calls
    BY DEF StartRun, RunInv, RoundsOrdered
  <1>2. /\ \A r \in Forward : region'[r] = "ready"
        /\ \A r \in Calls \ Forward : region'[r] = "unused"
    BY <1>1, AwaitLinks DEF StartRun
  <1>3. RoundsOrdered'
    BY <1>1, <1>2 DEF RoundsOrdered, Await
  <1>4. Recorded'
    BY <1>1 DEF RunInv, Recorded, StartRun, Await
  <1> QED
    BY <1>1, <1>3, <1>4, AwaitStep DEF StartRun, RunInv, RunTypeOK

\* With every region of a round settled, its failures and its usable answers
\* are the regions the round used.
LEMMA RoundSplits ==
  ASSUME RunInv, Joined, phase # "done", NEW rs \in SUBSET Calls, Round = rs
  PROVE  /\ In(rs, {"accepted"}) \cup RoundFailures = {r \in rs : region[r] # "unused"}
         /\ In(rs, {"accepted"}) \cap RoundFailures = {}
         /\ In(rs, {"accepted"}) \subseteq rs /\ RoundFailures \subseteq rs
  BY AllSettled DEF RoundFailures, In, Settled

LEMMA FallBackStep ==
  ASSUME RunInv, CallInv', FallBackToNative
  PROVE  RunInv'
  <1> USE RegionsAssumption DEF RegionsAssumption
  <1>1. /\ phase = "forward" /\ Joined /\ ~raised /\ ~cancelled /\ InFlight = {}
        /\ evidence = {} /\ decisions = {} /\ failures = {}
        /\ UNCHANGED <<vars, native, cancelled, raised, lateUse, evidence, decisions>>
    BY DEF FallBackToNative, Joined, RunInv, Recorded
  <1>2. RoundFailures = Forward
    <2>1. Round = Forward
      BY <1>1 DEF Round
    <2>2. \A r \in Forward : region[r] # "unused"
      BY <1>1 DEF RunInv, RoundsOrdered
    <2> QED
      BY <1>1, <2>1, <2>2, RoundSplits DEF FallBackToNative
  <1>3. Used = Forward
    BY <1>1 DEF RunInv, RoundsOrdered, Used
  <1>4. CASE native /\ failures' = failures \cup RoundFailures /\ Return("partial", {Native})
    <2>1. phase' = "done" /\ status' = "partial" /\ graph' = {Native} /\ Used' = Used
      BY <1>4 DEF Return, Used
    <2>2. Reported'
      BY <1>1, <1>2, <1>3, <1>4, <2>1
         DEF Reported, EveryRegionAccounted, SuccessIsComplete, StatusTellsGraph
    <2> QED
      BY <1>1, <1>2, <1>4, <2>2, ReturnStep
  <1>5. CASE /\ failures' = failures \cup RoundFailures \cup (IF native THEN {Graph} ELSE {})
             /\ Return("failed", {})
    <2>1. phase' = "done" /\ status' = "failed" /\ graph' = {} /\ Used' = Used
      BY <1>5 DEF Return, Used
    <2>2. Reported'
      BY <1>1, <1>2, <1>3, <1>5, <2>1
         DEF Reported, EveryRegionAccounted, SuccessIsComplete, StatusTellsGraph
    <2> QED
      BY <1>1, <1>2, <1>5, <2>2, ReturnStep
  <1> QED
    BY <1>4, <1>5 DEF FallBackToNative

LEMMA VerifyForwardStep ==
  ASSUME RunInv, CallInv', VerifyForward
  PROVE  RunInv'
  <1> USE RegionsAssumption DEF RegionsAssumption
  <1>1. /\ phase = "forward" /\ Joined /\ ~raised /\ ~cancelled /\ InFlight = {}
        /\ evidence = {} /\ decisions = {} /\ failures = {} /\ graph = {}
        /\ UNCHANGED <<vars, native, cancelled, raised, lateUse, decisions>>
    BY DEF VerifyForward, Joined, RunInv, Recorded
  <1>2. /\ \A r \in Forward : region[r] \in Settled
        /\ \A r \in Incoming \cup Review : region[r] = "unused"
    BY <1>1, AllSettled DEF RunInv, RoundsOrdered, Settled
  <1>3. /\ In(Forward, {"accepted"}) \cup RoundFailures = Forward
        /\ In(Forward, {"accepted"}) \cap RoundFailures = {}
    BY <1>1, <1>2, RoundSplits DEF Round, Settled
  <1>4. Used = Forward
    BY <1>2 DEF Used, Settled
  <1>5. PICK bad \in SUBSET In(Forward, {"accepted"}) :
           /\ evidence' = In(Forward, {"accepted"}) \ bad
           /\ \/ \E whole \in {{}, {Graph}} :
                    /\ failures' = failures \cup RoundFailures \cup bad \cup whole
                    /\ Return("failed", {})
              \/ /\ failures' = failures \cup RoundFailures \cup bad
                 /\ evidence' # {}
                 /\ \E targets \in SUBSET Incoming : Await("incoming", targets)
                 /\ UNCHANGED <<cacheOpen, cached, graph, status>>
    BY DEF VerifyForward
  <1>6. /\ evidence' \cup RoundFailures \cup bad = Forward
        /\ evidence' \cap (RoundFailures \cup bad) = {}
        /\ evidence' \subseteq Forward
    BY <1>3, <1>5
  <1>7. ASSUME NEW whole \in {{}, {Graph}},
               failures' = failures \cup RoundFailures \cup bad \cup whole, Return("failed", {})
        PROVE  RunInv'
    <2>1. phase' = "done" /\ status' = "failed" /\ graph' = {} /\ Used' = Used
      BY <1>7 DEF Return, Used
    <2>2. Used' = evidence' \cup decisions' \cup (failures' \cap Calls)
      BY <1>1, <1>4, <1>6, <1>7, <2>1
    <2>3. (evidence' \cup decisions') \cap failures' = {}
      BY <1>1, <1>6, <1>7
    <2>4. Reported'
      BY <1>1, <2>1, <2>2, <2>3
         DEF Reported, EveryRegionAccounted, SuccessIsComplete, StatusTellsGraph
    <2>5. failures' \subseteq Calls \cup {Inventory, Graph}
      BY <1>1, <1>6, <1>7
    <2> QED
      BY <1>1, <1>6, <1>7, <2>4, <2>5, ReturnStep
  <1>8. ASSUME NEW targets \in SUBSET Incoming, Await("incoming", targets),
               failures' = failures \cup RoundFailures \cup bad, evidence' # {},
               UNCHANGED <<cacheOpen, cached, graph, status>>
        PROVE  RunInv'
    <2>1. /\ targets \in SUBSET Calls
          /\ \A r \in targets : region[r] = "unused" /\ region'[r] = "ready"
          /\ \A r \in Calls \ targets : region'[r] = region[r]
      BY <1>1, <1>2, <1>8, AwaitLinks
    <2>2. phase' = "incoming"
      BY <1>8 DEF Await
    <2>3. RoundsOrdered'
      BY <1>1, <1>2, <2>1, <2>2 DEF RoundsOrdered, RunInv, Settled
    <2>4. Recorded'
      BY <1>1, <1>6, <1>8, <2>2 DEF Recorded
    <2> QED
      BY <1>1, <1>6, <1>8, <2>1, <2>3, <2>4, AwaitStep
  <1> QED
    BY <1>5, <1>7, <1>8

LEMMA MergePassesStep ==
  ASSUME RunInv, CallInv', MergePasses
  PROVE  RunInv'
  <1> USE RegionsAssumption DEF RegionsAssumption
  <1>1. /\ phase = "incoming" /\ Joined /\ ~raised /\ ~cancelled /\ InFlight = {}
        /\ evidence # {} /\ evidence \cap failures = {} /\ evidence \cup failures = Forward
        /\ decisions = {}
        /\ UNCHANGED <<vars, native, cancelled, raised, lateUse, decisions>>
    BY DEF MergePasses, Joined, RunInv, Recorded
  <1>2. /\ \A r \in Forward : region[r] \in Settled
        /\ \A r \in Incoming : region[r] \in Settled \cup {"unused"}
        /\ \A r \in Review : region[r] = "unused"
    BY <1>1, AllSettled DEF RunInv, RoundsOrdered
  <1>3. /\ In(Incoming, {"accepted"}) \cup RoundFailures = {r \in Incoming : region[r] # "unused"}
        /\ In(Incoming, {"accepted"}) \cap RoundFailures = {}
    BY <1>1, RoundSplits DEF Round
  <1>4. Used = Forward \cup {r \in Incoming : region[r] # "unused"}
    BY <1>2 DEF Used, Settled
  <1>5. PICK bad \in SUBSET In(Incoming, {"accepted"}) :
           /\ evidence' = evidence \cup (In(Incoming, {"accepted"}) \ bad)
           /\ \/ /\ failures' = failures \cup RoundFailures \cup bad
                 /\ graph' = evidence' \cup GivenNative
                 /\ \E packets \in SUBSET Review : Await("review", packets)
                 /\ UNCHANGED <<cacheOpen, cached, status>>
              \/ /\ failures' = failures \cup RoundFailures \cup bad \cup {Graph}
                 /\ Return("failed", {})
    BY DEF MergePasses
  <1>6. /\ evidence' \cup failures \cup RoundFailures \cup bad = Used
        /\ evidence' \cap (failures \cup RoundFailures \cup bad) = {}
        /\ evidence' \subseteq Forward \cup Incoming
        /\ Used \subseteq Forward \cup Incoming
        /\ evidence' # {}
    BY <1>1, <1>3, <1>4, <1>5
  <1>7. ASSUME failures' = failures \cup RoundFailures \cup bad \cup {Graph}, Return("failed", {})
        PROVE  RunInv'
    <2>1. phase' = "done" /\ status' = "failed" /\ graph' = {} /\ Used' = Used
      BY <1>7 DEF Return, Used
    <2>2. Used' = evidence' \cup decisions' \cup (failures' \cap Calls)
      BY <1>1, <1>6, <1>7, <2>1
    <2>3. (evidence' \cup decisions') \cap failures' = {}
      BY <1>1, <1>6, <1>7
    <2>4. Reported'
      BY <1>1, <2>1, <2>2, <2>3
         DEF Reported, EveryRegionAccounted, SuccessIsComplete, StatusTellsGraph
    <2>5. failures' \subseteq Calls \cup {Inventory, Graph}
      BY <1>1, <1>6, <1>7
    <2> QED
      BY <1>1, <1>6, <1>7, <2>4, <2>5, ReturnStep
  <1>8. ASSUME NEW packets \in SUBSET Review, Await("review", packets),
               failures' = failures \cup RoundFailures \cup bad,
               graph' = evidence' \cup GivenNative,
               UNCHANGED <<cacheOpen, cached, status>>
        PROVE  RunInv'
    <2>1. /\ packets \in SUBSET Calls
          /\ \A r \in packets : region[r] = "unused" /\ region'[r] = "ready"
          /\ \A r \in Calls \ packets : region'[r] = region[r]
      BY <1>1, <1>2, <1>8, AwaitLinks
    <2>2. phase' = "review"
      BY <1>8 DEF Await
    <2>3. RoundsOrdered'
      BY <1>1, <1>2, <2>1, <2>2 DEF RoundsOrdered, RunInv, Settled
    <2>4. {r \in Forward \cup Incoming : region'[r] # "unused"} = Used
      BY <1>2, <1>4, <2>1 DEF Settled
    <2>5. Recorded'
      BY <1>1, <1>6, <1>8, <2>2, <2>4 DEF Recorded, GivenNative
    <2>6. /\ failures' \subseteq Calls \cup {Inventory, Graph}
          /\ graph' \subseteq Calls \cup {Native}
      BY <1>1, <1>6, <1>8 DEF GivenNative
    <2> QED
      BY <1>1, <1>6, <1>8, <2>1, <2>3, <2>5, <2>6, AwaitStep
  <1> QED
    BY <1>5, <1>7, <1>8

LEMMA FinishReviewStep ==
  ASSUME RunInv, CallInv', FinishReview
  PROVE  RunInv'
  <1> USE RegionsAssumption DEF RegionsAssumption
  <1>1. /\ phase = "review" /\ Joined /\ ~raised /\ ~cancelled /\ InFlight = {}
        /\ evidence # {} /\ evidence \cap failures = {} /\ graph = evidence \cup GivenNative
        /\ evidence \cup failures = {r \in Forward \cup Incoming : region[r] # "unused"}
        /\ UNCHANGED <<vars, native, cancelled, raised, lateUse, evidence>>
    BY DEF FinishReview, Joined, RunInv, Recorded
  <1>2. /\ In(Review, {"accepted"}) \cup RoundFailures = {r \in Review : region[r] # "unused"}
        /\ In(Review, {"accepted"}) \cap RoundFailures = {}
    BY <1>1, RoundSplits DEF Round
  <1>3. PICK bad \in SUBSET In(Review, {"accepted"}) :
           /\ decisions' = In(Review, {"accepted"}) \ bad
           /\ failures' = failures \cup RoundFailures \cup bad
           /\ Return(IF failures' = {} THEN "success" ELSE "partial", graph)
    BY DEF FinishReview
  <1>4. Used = evidence \cup failures \cup {r \in Review : region[r] # "unused"}
    BY <1>1 DEF Used
  <1>5. /\ phase' = "done" /\ graph' = graph /\ Used' = Used
        /\ status' = IF failures' = {} THEN "success" ELSE "partial"
    BY <1>3 DEF Return, Used
  <1>6. evidence \cup failures \subseteq Forward \cup Incoming
    BY <1>1
  <1>7. /\ Used' = evidence' \cup decisions' \cup (failures' \cap Calls)
        /\ (evidence' \cup decisions') \cap failures' = {}
    BY <1>1, <1>2, <1>3, <1>4, <1>5, <1>6
  <1>8. GivenNative' = GivenNative
    BY <1>1 DEF GivenNative
  <1>9. Reported'
    BY <1>1, <1>5, <1>7, <1>8
       DEF Reported, EveryRegionAccounted, SuccessIsComplete, StatusTellsGraph
  <1>10. /\ failures' \subseteq Calls \cup {Inventory, Graph}
         /\ decisions' \subseteq Review
         /\ graph \subseteq Calls \cup {Native}
    BY <1>1, <1>2, <1>3, <1>6 DEF GivenNative
  <1> QED
    BY <1>1, <1>3, <1>6, <1>9, <1>10, ReturnStep

LEMMA CutSteps ==
  ASSUME RunInv, CallInv', RaiseOut \/ CancelOut
  PROVE  RunInv'
  <1>1. status = "none"
    BY DEF RaiseOut, CancelOut, RunInv, Outcome
  <1>2. raised \in BOOLEAN
    BY DEF RunInv, RunTypeOK
  <1> QED
    BY <1>1, <1>2, CutStep DEF RaiseOut, CancelOut

LEMMA CancelRunStep ==
  ASSUME RunInv, CallInv', CancelRun
  PROVE  RunInv'
  <1>1. phase \notin {"new", "done"} /\ status = "none"
    BY DEF CancelRun, Round, RunInv, Outcome
  <1>2. RunTypeOK'
    BY DEF CancelRun, RunInv, RunTypeOK, CallInv
  <1>3. CallsLinked' /\ CacheFilled'
    BY DEF CancelRun, RunInv, CallsLinked, CacheFilled
  <1>4. RoundsOrdered'
    BY <1>1 DEF CancelRun, RunInv, RoundsOrdered
  <1>5. Recorded'
    BY DEF CancelRun, RunInv, Recorded, GivenNative
  <1>6. Outcome'
    BY <1>1 DEF CancelRun, RunInv, Outcome
  <1>7. Reported'
    BY <1>1 DEF CancelRun, Reported, EveryRegionAccounted, SuccessIsComplete, StatusTellsGraph
  <1> QED
    BY <1>2, <1>3, <1>4, <1>5, <1>6, <1>7 DEF RunInv

------------------------------------------------------------------------------
(* The invariant and what follows from it.                                  *)

LEMMA RunInvInit == RunInit => RunInv
  <1> SUFFICES ASSUME RunInit PROVE RunInv
    OBVIOUS
  <1>1. CallInv /\ TypeOK
    BY CallInvInit DEF RunInit, CallInv
  <1>2. RunTypeOK /\ CallsLinked /\ RoundsOrdered /\ Recorded /\ CacheFilled
    BY <1>1 DEF RunInit, Init, RunTypeOK, CallsLinked, RoundsOrdered, Recorded, CacheFilled
  <1>3. Outcome /\ Reported
    BY DEF RunInit, Outcome, Reported, EveryRegionAccounted, SuccessIsComplete, StatusTellsGraph
  <1> QED
    BY <1>1, <1>2, <1>3 DEF RunInv

LEMMA RunInvStep == RunInv /\ [RunNext]_allVars => RunInv'
  <1> SUFFICES ASSUME RunInv, [RunNext]_allVars PROVE RunInv'
    OBVIOUS
  <1>1. CallInv'
    BY RunIsCalls, CallInvStep DEF RunInv
  <1>2. CASE RunStep
    BY <1>1, <1>2, RefuseRunStep, StartRunStep, FallBackStep, VerifyForwardStep,
       MergePassesStep, FinishReviewStep, CutSteps DEF RunStep
  <1>3. CASE CancelRun
    BY <1>1, <1>3, CancelRunStep
  <1>4. ASSUME NEW r \in Calls, RegionStep(r) \/ InterruptRegion(r)
        PROVE  RunInv'
    <2>1. PICK s \in RegionStates : Moves(r, s)
      BY <1>4, EarlyMoves, ContinueMoves, InterruptMoves DEF RegionStep
    <2> QED
      BY <1>1, <2>1, MovesPreserve
  <1>5. CASE UNCHANGED allVars
    BY <1>5, <1>1 DEF allVars, runVars, RunInv, RunTypeOK, CallInv, CallsLinked, RoundsOrdered,
       Recorded, GivenNative, Outcome, InFlight, In, CacheFilled, Reported, EveryRegionAccounted,
       Used, SuccessIsComplete, StatusTellsGraph
  <1> QED
    BY <1>2, <1>3, <1>4, <1>5 DEF RunNext

\* Every reachable state of a run satisfies the invariant.
THEOREM RunInvariant == RunSpec => []RunInv
  BY RunInvInit, RunInvStep, PTL DEF RunSpec

\* A run is a behaviour of its provider calls: whatever ProviderCalls
\* guarantees of calls under a limiter, it guarantees of a run's regions.
THEOREM RunImplementsCalls == RunSpec => Spec
  <1>1. RunInit => Init
    BY DEF RunInit
  <1>2. [RunNext]_allVars => [Next]_vars
    BY RunIsCalls
  <1> QED
    BY <1>1, <1>2, PTL DEF RunSpec, Spec

\* Every variable of a run keeps its type.
THEOREM RunTypes == RunSpec => []RunTypeOK
  <1>1. RunInv => RunTypeOK
    BY DEF RunInv
  <1> QED
    BY <1>1, RunInvariant, PTL

\* The region accounting: each region the run asked about is used once, as
\* evidence or a decision, or is a recorded failure.
THEOREM RegionsAccounted == RunSpec => []EveryRegionAccounted
  <1>1. RunInv => EveryRegionAccounted
    BY DEF RunInv, Reported
  <1> QED
    BY <1>1, RunInvariant, PTL

\* "success" is returned only with everything the run asked for.
THEOREM SuccessTold == RunSpec => []SuccessIsComplete
  <1>1. RunInv => SuccessIsComplete
    BY DEF RunInv, Reported
  <1> QED
    BY <1>1, RunInvariant, PTL

\* The status tells whether there is a graph and whether anything failed.
THEOREM StatusTold == RunSpec => []StatusTellsGraph
  <1>1. RunInv => StatusTellsGraph
    BY DEF RunInv, Reported
  <1> QED
    BY <1>1, RunInvariant, PTL

\* The cache holds complete answers of this run, and none once it is closed.
THEOREM CacheHeld == RunSpec => []CacheIsPerRun
  <1>1. RunInv => CacheIsPerRun
    BY DEF RunInv, RunTypeOK, CacheFilled, CacheIsPerRun
  <1> QED
    BY <1>1, RunInvariant, PTL

\* A run that returns a result leaves no task, call or slot behind, and only a
\* capability error lets a task use the closed cache.
THEOREM NothingLeft == RunSpec => []NothingOutlivesRun
  <1>1. RunInv => NothingOutlivesRun
    <2> SUFFICES ASSUME RunInv PROVE NothingOutlivesRun
      OBVIOUS
    <2>1. lateUse => raised
      BY DEF RunInv, Outcome
    <2>2. ASSUME status # "none"
          PROVE  /\ InFlight = {}
                 /\ \A c \in Calls : stage[c] \in {"idle", "ended"}
                 /\ free = Limit
      <3>1. InFlight = {}
        BY <2>2 DEF RunInv, Outcome
      <3>2. \A c \in Calls : stage[c] \in {"idle", "ended"}
        BY <3>1 DEF InFlight, In, RunInv, CallsLinked
      <3>3. Sending = {}
        BY <3>2 DEF Sending
      <3>4. free = Limit
        BY <3>3, FS_EmptySet, CallsAssumption
           DEF RunInv, CallInv, SlotsConserved, TypeOK, CallsAssumption
      <3> QED
        BY <3>1, <3>2, <3>4
    <2> QED
      BY <2>1, <2>2 DEF NothingOutlivesRun
  <1> QED
    BY <1>1, RunInvariant, PTL

=============================================================================
