---------------------------- MODULE ProviderCalls ----------------------------
(***************************************************************************)
(* Structured provider calls under one concurrency limiter                 *)
(* (providers/openai_compatible.py generate, providers/base.py).           *)
(*                                                                         *)
(* A call loops over attempts: it takes a slot of the limiter, sends one   *)
(* request, gives the slot back, and either ends or sleeps before the next *)
(* attempt.  Transport failures and answers that fail validation share one *)
(* budget of attempts.  The calls are tasks of one event loop, so what a   *)
(* call does between two awaits is one step.                               *)
(*                                                                         *)
(* Simplifications.                                                        *)
(*  - asyncio.Semaphore is external: a free slot may go to any waiter,     *)
(*    which allows more orders than its queue.                             *)
(*  - Delays are not measured: a sleep of any length is one `backoff`.     *)
(***************************************************************************)
EXTENDS Naturals, FiniteSets

CONSTANTS
    Calls,         \* one for each awaited generate()
    Limit,         \* the limiter's ceiling, max_concurrency
    MaxAttempts    \* RetryConfig.max_attempts

ASSUME CallsAssumption ==
    /\ IsFiniteSet(Calls)
    /\ Limit \in Nat \ {0}
    /\ MaxAttempts \in Nat \ {0}

Stages == {"idle", "queued", "sending", "backoff", "ended"}

\* What generate() did: returned a response, or raised a provider error or a
\* control exception.
Results == {"pending", "response", "truncated", "invalid", "transport",
            "dependency", "capability", "control"}

\* What a request can meet: an answer, complete or cut; one that fails
\* validation; a transport failure that may be retried, or one that may not.
Requests == {"nothing", "answer", "cut", "invalid", "transient", "permanent"}

VARIABLES
    stage,       \* where each call stands in its loop
    transport,   \* transport_attempts
    validation,  \* validation_attempts
    result,      \* how it ended
    last,        \* history: what its last request met
    sdk,         \* the adapter's completion: "none", "given" to it, or bound to
                 \* its own client, "open" or "closed"
    free,        \* free slots of the semaphore
    active,      \* the limiter's _active
    peak         \* the limiter's _peak_active

callVars    == <<stage, transport, validation, result, last>>
limiterVars == <<free, active, peak>>
vars        == <<callVars, sdk, limiterVars>>

Init ==
    /\ stage = [c \in Calls |-> "idle"]
    /\ transport = [c \in Calls |-> 0]
    /\ validation = [c \in Calls |-> 0]
    /\ result = [c \in Calls |-> "pending"]
    /\ last = [c \in Calls |-> "nothing"]
    /\ sdk \in {"none", "given"}
    /\ free = Limit
    /\ active = 0
    /\ peak = 0

------------------------------------------------------------------------------
(* The limiter's slot().                                                    *)

TakeSlot ==
    /\ free > 0
    /\ free' = free - 1
    /\ active' = active + 1
    /\ peak' = IF active' > peak THEN active' ELSE peak

LeaveSlot ==
    /\ free' = free + 1
    /\ active' = active - 1
    /\ UNCHANGED peak

End(c, r) ==
    /\ stage' = [stage EXCEPT ![c] = "ended"]
    /\ result' = [result EXCEPT ![c] = r]

\* One more attempt: the counter moves before the slot is asked for.
Enter(c) ==
    /\ stage' = [stage EXCEPT ![c] = "queued"]
    /\ transport' = [transport EXCEPT ![c] = @ + 1]

------------------------------------------------------------------------------
(* The steps of a call.                                                     *)

\* Unsupported schema or generation settings: nothing is sent.
Refuse(c) ==
    /\ stage[c] = "idle"
    /\ End(c, "capability")
    /\ UNCHANGED <<transport, validation, last, sdk, limiterVars>>

\* The first call of an adapter without a completion creates its SDK client, and may
\* find the optional dependency missing or the client's set-up failing.
FailSetup(c) ==
    /\ stage[c] = "idle"
    /\ sdk = "none"
    /\ \E r \in {"dependency", "transport"} : End(c, r)
    /\ UNCHANGED <<transport, validation, last, sdk, limiterVars>>

Begin(c) ==
    /\ stage[c] = "idle"
    /\ Enter(c)
    /\ sdk' = IF sdk = "none" THEN "open" ELSE sdk
    /\ UNCHANGED <<validation, result, last, limiterVars>>

Send(c) ==
    /\ stage[c] = "queued"
    /\ TakeSlot
    /\ stage' = [stage EXCEPT ![c] = "sending"]
    /\ UNCHANGED <<transport, validation, result, last, sdk>>

\* The answer is complete and valid.
Answer(c) ==
    /\ stage[c] = "sending"
    /\ LeaveSlot
    /\ validation' = [validation EXCEPT ![c] = @ + 1]
    /\ last' = [last EXCEPT ![c] = "answer"]
    /\ End(c, "response")
    /\ UNCHANGED <<transport, sdk>>

\* The provider reports that the answer was cut: the SDK raises, or the valid
\* answer carries the finish reason.
Truncate(c) ==
    /\ stage[c] = "sending"
    /\ LeaveSlot
    /\ \/ validation' = [validation EXCEPT ![c] = @ + 1]
       \/ UNCHANGED validation
    /\ last' = [last EXCEPT ![c] = "cut"]
    /\ End(c, "truncated")
    /\ UNCHANGED <<transport, sdk>>

\* Either the call sleeps before another attempt or it ends with r.
RetryOr(c, again, r) ==
    IF again
    THEN /\ stage' = [stage EXCEPT ![c] = "backoff"]
         /\ UNCHANGED result
    ELSE End(c, r)

\* Defect: only the validation attempts are held against the budget.
InvalidateForgets(c) ==
    /\ stage[c] = "sending"
    /\ LeaveSlot
    /\ validation' = [validation EXCEPT ![c] = @ + 1]
    /\ last' = [last EXCEPT ![c] = "invalid"]
    /\ RetryOr(c, validation'[c] < MaxAttempts, "invalid")
    /\ UNCHANGED <<transport, sdk>>

\* Defect: the call sleeps before another attempt inside its slot.
InvalidateHolding(c) ==
    /\ stage[c] = "sending"
    /\ validation' = [validation EXCEPT ![c] = @ + 1]
    /\ last' = [last EXCEPT ![c] = "invalid"]
    /\ RetryOr(c, validation'[c] < MaxAttempts /\ transport[c] < MaxAttempts, "invalid")
    /\ IF stage'[c] = "ended" THEN LeaveSlot ELSE UNCHANGED limiterVars
    /\ UNCHANGED <<transport, sdk>>

\* The answer fails validation, in the SDK or in the adapter.
Invalidate(c) ==
    /\ stage[c] = "sending"
    /\ LeaveSlot
    /\ validation' = [validation EXCEPT ![c] = @ + 1]
    /\ last' = [last EXCEPT ![c] = "invalid"]
    /\ RetryOr(c, validation'[c] < MaxAttempts /\ transport[c] < MaxAttempts, "invalid")
    /\ UNCHANGED <<transport, sdk>>

\* Rate limit, timeout, connection failure, 408 or 5xx; or, not retryable,
\* rejected credentials and every other failure.
FailTransport(c) ==
    /\ stage[c] = "sending"
    /\ LeaveSlot
    /\ \E kind \in {"transient", "permanent"} :
          /\ last' = [last EXCEPT ![c] = kind]
          /\ RetryOr(c, kind = "transient" /\ transport[c] < MaxAttempts, "transport")
    /\ UNCHANGED <<transport, validation, sdk>>

\* The sleep is over; the loop's own test of the budget comes first.
Retry(c) ==
    /\ stage[c] = "backoff"
    /\ IF transport[c] < MaxAttempts
       THEN Enter(c) /\ UNCHANGED result
       ELSE End(c, "transport") /\ UNCHANGED transport
    /\ UNCHANGED <<validation, last, sdk, limiterVars>>

\* Defect: a cancelled request keeps its slot.
InterruptForgets(c) ==
    /\ stage[c] \in {"idle", "queued", "sending", "backoff"}
    /\ End(c, "control")
    /\ UNCHANGED <<transport, validation, last, sdk, limiterVars>>

\* Defect: a cancelled call gives back a slot it may not have.
InterruptReleases(c) ==
    /\ stage[c] \in {"idle", "queued", "sending", "backoff"}
    /\ LeaveSlot
    /\ End(c, "control")
    /\ UNCHANGED <<transport, validation, last, sdk>>

\* CancelledError, KeyboardInterrupt or SystemExit, in the set-up or an await.
Interrupt(c) ==
    /\ stage[c] \in {"idle", "queued", "sending", "backoff"}
    /\ IF stage[c] = "sending" THEN LeaveSlot ELSE UNCHANGED limiterVars
    /\ End(c, "control")
    /\ UNCHANGED <<transport, validation, last, sdk>>

\* The adapter's aclose(): it keeps the completion bound to the closed client.
Close ==
    /\ sdk = "open"
    /\ sdk' = "closed"
    /\ UNCHANGED <<callVars, limiterVars>>

\* A step of a call after its first, other than the end of a sleep.
Attempt(c) ==
    \/ Send(c)
    \/ Answer(c)
    \/ Truncate(c)
    \/ Invalidate(c)
    \/ FailTransport(c)

Step(c) == Attempt(c) \/ Retry(c)

Next ==
    \/ \E c \in Calls : Refuse(c) \/ FailSetup(c) \/ Begin(c) \/ Step(c) \/ Interrupt(c)
    \/ Close

Spec == Init /\ [][Next]_vars

\* Every request is answered or fails, since the SDK's timeout bounds it, and
\* every sleep ends but those of the calls in S.
FairExcept(S) ==
    /\ \A c \in Calls : WF_vars(Attempt(c))
    /\ \A c \in Calls \ S : WF_vars(Retry(c))

------------------------------------------------------------------------------
(* Properties.                                                              *)

Sending == {c \in Calls : stage[c] = "sending"}

TypeOK ==
    /\ stage \in [Calls -> Stages]
    /\ transport \in [Calls -> 0..MaxAttempts]
    /\ validation \in [Calls -> 0..MaxAttempts]
    /\ result \in [Calls -> Results]
    /\ last \in [Calls -> Requests]
    /\ sdk \in {"none", "given", "open", "closed"}
    /\ free \in 0..Limit
    /\ active \in 0..Limit
    /\ peak \in 0..Limit

\* Requests in flight hold exactly the slots taken, whatever way the others
\* ended: none is lost to an error, a cancellation or a retry, and none is
\* given back twice, so the ceiling of the limiter holds and does not sink.
SlotsConserved ==
    /\ free + Cardinality(Sending) = Limit
    /\ active = Cardinality(Sending)
    /\ active <= peak
    /\ peak <= Limit

\* Transport failures and invalid answers spend one budget: a call that gives
\* up on a failure it may retry has sent max_attempts requests, and reports
\* what the last of them met.
GivesUpWhenSpent ==
    \A c \in Calls :
        /\ stage[c] = "backoff" => last[c] \in {"invalid", "transient"}
        /\ validation[c] <= transport[c]
        /\ stage[c] = "ended" /\ result[c] # "control" =>
              /\ last[c] = "invalid" => result[c] = "invalid" /\ transport[c] = MaxAttempts
              /\ last[c] = "transient" => result[c] = "transport" /\ transport[c] = MaxAttempts

\* Why GivesUpWhenSpent holds: an attempt that can still send has used up less
\* validation than transport attempts, and a call sleeps only below the budget.
AttemptsLeft ==
    \A c \in Calls :
        /\ stage[c] = "idle" => last[c] = "nothing" /\ transport[c] = 0 /\ validation[c] = 0
        /\ stage[c] \in {"queued", "sending"} => validation[c] < transport[c]
        /\ stage[c] = "backoff" => transport[c] < MaxAttempts

\* A call that waits for a slot ends, even when another call never wakes from
\* its backoff: a sleeping call holds no slot.
CallsEnd(S) == \A c \in Calls \ S : stage[c] = "queued" ~> stage[c] = "ended"

=============================================================================
