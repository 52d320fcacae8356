----------------------------- MODULE ClientCalls -----------------------------
(***************************************************************************)
(* The client facade (client.py SurveyScribe): batches of conversions      *)
(* admitted, run under one limiter each, cancelled, and a client that is   *)
(* closed meanwhile.                                                       *)
(*                                                                         *)
(* A conversion of a source reads it in a worker thread while it holds a   *)
(* slot of its batch's limiter, then extracts, taking a slot for each      *)
(* provider call.  A single aconvert is a batch of one source.             *)
(*                                                                         *)
(* Simplifications.                                                        *)
(*  - The provider calls of one extraction are made one after another      *)
(*    here, as many as CallsNeeded; ExtractionRun makes them together.     *)
(*  - A free slot may go to any waiter.                                    *)
(***************************************************************************)
EXTENDS Naturals, FiniteSets

CONSTANTS
    Batches,       \* calls of convert_many or convert
    SourcesOf,     \* the positions of a batch's sources
    Limit,         \* max_concurrency
    CallsNeeded,   \* bound on the provider calls of an extraction
    Closers        \* calls of aclose

ClientAssumption ==
    /\ Limit \in Nat \ {0}
    /\ CallsNeeded \in Nat
    /\ \A b \in Batches : SourcesOf[b] \subseteq Nat /\ IsFiniteSet(SourcesOf[b])
    /\ IsFiniteSet(Closers)

Tasks == UNION {{b} \X SourcesOf[b] : b \in Batches}

VARIABLES
    batch,      \* each batch: not begun, refused, running, cancelling, or how it ended
    conversion, \* where the conversion of each source stands
    thread,     \* its worker thread
    calls,      \* provider calls it still makes
    free,       \* free slots of each batch's limiter
    given,      \* the result it gave
    bad,        \* which sources cannot be read or extracted
    closed,     \* the client's _closed
    closer,     \* each call of aclose
    closings    \* history: how often the provider's aclose was called and did not fail

taskVars  == <<conversion, thread, calls, free, given>>
closeVars == <<closed, closer, closings>>
clientVars == <<batch, taskVars, bad, closeVars>>

BatchStates == {"new", "refused", "running", "cancelling", "returned", "raised"}
TaskStates  == {"none", "queued", "converting", "waiting", "calling", "ended", "cancelled"}
Open        == {"queued", "converting", "waiting", "calling"}

Mine(b) == {b} \X SourcesOf[b]

ClientInit ==
    /\ batch = [b \in Batches |-> "new"]
    /\ conversion = [t \in Tasks |-> "none"]
    /\ thread = [t \in Tasks |-> "none"]
    /\ calls = [t \in Tasks |-> CallsNeeded]
    /\ free = [b \in Batches |-> Limit]
    /\ given = [t \in Tasks |-> "none"]
    /\ bad \in SUBSET Tasks
    /\ closed = FALSE
    /\ closer = [c \in Closers |-> "new"]
    /\ closings = 0

-----------------------------------------------------------------------------
(* Admission.                                                              *)

\* _require_open
Refuse(b) ==
    /\ batch[b] = "new"
    /\ closed
    /\ batch' = [batch EXCEPT ![b] = "refused"]
    /\ UNCHANGED <<taskVars, bad, closeVars>>

\* One task for each source, all under a limiter of this batch.
Admit(b) ==
    /\ batch[b] = "new"
    /\ ~closed
    /\ batch' = [batch EXCEPT ![b] = "running"]
    /\ conversion' = [t \in Tasks |-> IF t \in Mine(b) THEN "queued" ELSE conversion[t]]
    /\ UNCHANGED <<thread, calls, free, given, bad, closeVars>>

-----------------------------------------------------------------------------
(* A conversion.                                                           *)

Running(t) == batch[t[1]] = "running"

End(t, r) ==
    /\ conversion' = [conversion EXCEPT ![t] = "ended"]
    /\ given' = [given EXCEPT ![t] = r]

TakeSlot(t)  == free[t[1]] > 0 /\ free' = [free EXCEPT ![t[1]] = @ - 1]
LeaveSlot(t) == free' = [free EXCEPT ![t[1]] = @ + 1]

\* Mutant: the slot is given back when the thread starts.
StartThreadLoose(t) ==
    /\ Running(t)
    /\ conversion[t] = "queued"
    /\ free[t[1]] > 0
    /\ conversion' = [conversion EXCEPT ![t] = "converting"]
    /\ thread' = [thread EXCEPT ![t] = "running"]
    /\ UNCHANGED <<batch, calls, free, given, bad, closeVars>>

StartThread(t) ==
    /\ Running(t)
    /\ conversion[t] = "queued"
    /\ TakeSlot(t)
    /\ conversion' = [conversion EXCEPT ![t] = "converting"]
    /\ thread' = [thread EXCEPT ![t] = "running"]
    /\ UNCHANGED <<batch, calls, given, bad, closeVars>>

\* The thread ends by itself, whether or not anyone still waits for it.
ThreadEnds(t) ==
    /\ thread[t] = "running"
    /\ thread' = [thread EXCEPT ![t] = "ended"]
    /\ UNCHANGED <<batch, conversion, calls, free, given, bad, closeVars>>

\* The document was read, or its source failed, or it was an XLSForm that needs no
\* provider.
Converted(t) ==
    /\ Running(t)
    /\ conversion[t] = "converting"
    /\ thread[t] = "ended"
    /\ LeaveSlot(t)
    /\ \/ t \in bad /\ End(t, "failed")
       \/ t \notin bad /\ End(t, "output")
       \/ conversion' = [conversion EXCEPT ![t] = "waiting"] /\ UNCHANGED given
    /\ UNCHANGED <<batch, thread, calls, bad, closeVars>>

StartCall(t) ==
    /\ Running(t)
    /\ conversion[t] = "waiting"
    /\ calls[t] > 0
    /\ TakeSlot(t)
    /\ conversion' = [conversion EXCEPT ![t] = "calling"]
    /\ UNCHANGED <<batch, thread, calls, given, bad, closeVars>>

EndCall(t) ==
    /\ Running(t)
    /\ conversion[t] = "calling"
    /\ LeaveSlot(t)
    /\ conversion' = [conversion EXCEPT ![t] = "waiting"]
    /\ calls' = [calls EXCEPT ![t] = @ - 1]
    /\ UNCHANGED <<batch, thread, given, bad, closeVars>>

Extracted(t) ==
    /\ Running(t)
    /\ conversion[t] = "waiting"
    /\ calls[t] = 0
    /\ End(t, IF t \in bad THEN "failed" ELSE "output")
    /\ UNCHANGED <<batch, thread, calls, free, bad, closeVars>>

-----------------------------------------------------------------------------
(* The end of a batch.                                                     *)

ReturnBatch(b) ==
    /\ batch[b] = "running"
    /\ \A t \in Mine(b) : conversion[t] = "ended"
    /\ batch' = [batch EXCEPT ![b] = "returned"]
    /\ UNCHANGED <<taskVars, bad, closeVars>>

\* The caller is cancelled, or a task raised a control exception: every task of the
\* batch is cancelled.
CancelBatch(b) ==
    /\ batch[b] = "running"
    /\ batch' = [batch EXCEPT ![b] = "cancelling"]
    /\ UNCHANGED <<taskVars, bad, closeVars>>

\* A cancelled task leaves its slot; its thread runs on.
Unwind(t) ==
    /\ batch[t[1]] = "cancelling"
    /\ conversion[t] \in Open
    /\ IF conversion[t] \in {"converting", "calling"} THEN LeaveSlot(t) ELSE UNCHANGED free
    /\ conversion' = [conversion EXCEPT ![t] = "cancelled"]
    /\ UNCHANGED <<batch, thread, calls, given, bad, closeVars>>

RaiseBatch(b) ==
    /\ batch[b] = "cancelling"
    /\ \A t \in Mine(b) : conversion[t] \notin Open
    /\ batch' = [batch EXCEPT ![b] = "raised"]
    /\ UNCHANGED <<taskVars, bad, closeVars>>

-----------------------------------------------------------------------------
(* Closing.                                                                *)

\* aclose returns at once from a closed client, or awaits the provider's.
BeginClose(c) ==
    /\ closer[c] = "new"
    /\ closer' = [closer EXCEPT ![c] = IF closed THEN "ended" ELSE "awaiting"]
    /\ closings' = IF closed THEN closings ELSE closings + 1
    /\ UNCHANGED <<batch, taskVars, bad, closed>>

\* The provider's cleanup may fail: the client stays open, for another attempt.
EndClose(c) ==
    /\ closer[c] = "awaiting"
    /\ \/ /\ closed' = TRUE
          /\ UNCHANGED closings
       \/ /\ closings' = closings - 1
          /\ UNCHANGED closed
    /\ closer' = [closer EXCEPT ![c] = "ended"]
    /\ UNCHANGED <<batch, taskVars, bad>>

-----------------------------------------------------------------------------

ConversionStep(t) ==
    \/ StartThread(t) \/ ThreadEnds(t) \/ Converted(t)
    \/ StartCall(t) \/ EndCall(t) \/ Extracted(t) \/ Unwind(t)

ClientNext ==
    \/ \E b \in Batches : Refuse(b) \/ Admit(b) \/ ReturnBatch(b) \/ CancelBatch(b) \/ RaiseBatch(b)
    \/ \E t \in Tasks : ConversionStep(t)
    \/ \E c \in Closers : BeginClose(c) \/ EndClose(c)

ClientSpec == ClientInit /\ [][ClientNext]_clientVars

\* The event loop runs what is ready, a conversion and a provider call end, and a
\* semaphore passes over no waiter for ever.
ClientFairness ==
    /\ \A t \in Tasks : SF_clientVars(ConversionStep(t))
    /\ \A b \in Batches : WF_clientVars(ReturnBatch(b) \/ RaiseBatch(b))

-----------------------------------------------------------------------------
(* Properties.                                                             *)

ClientTypeOK ==
    /\ batch \in [Batches -> BatchStates]
    /\ conversion \in [Tasks -> TaskStates]
    /\ thread \in [Tasks -> {"none", "running", "ended"}]
    /\ calls \in [Tasks -> 0 .. CallsNeeded]
    /\ free \in [Batches -> 0 .. Limit]
    /\ given \in [Tasks -> {"none", "failed", "output"}]
    /\ bad \subseteq Tasks
    /\ closed \in BOOLEAN
    /\ closer \in [Closers -> {"new", "awaiting", "ended"}]
    /\ closings \in 0 .. Cardinality(Closers)

\* docs/guides/extraction.md: "One concurrency limiter covers source conversion and
\* all provider attempts for the batch."  Even after a cancellation, which gives slots
\* back while their threads run on, no more threads run than the limit.
OneCeiling ==
    \A b \in Batches :
        /\ Cardinality({t \in Mine(b) : thread[t] = "running" \/ conversion[t] = "calling"}) <= Limit
        /\ free[b] + Cardinality({t \in Mine(b) : conversion[t] \in {"converting", "calling"}}) = Limit

\* A batch returns one result for each source, and a source that fails does not
\* change what the others give.
ResultsIsolated ==
    \A b \in Batches :
        /\ batch[b] = "returned" =>
              \A t \in Mine(b) : given[t] = IF t \in bad THEN "failed" ELSE "output"
        /\ batch[b] \in {"returned", "raised"} => \A t \in Mine(b) : conversion[t] \notin Open

\* Once aclose has returned from a closed client no conversion is admitted, and a
\* client whose provider failed to close is not closed.
StaysClosed == closed => closed' /\ \A t \in Tasks : conversion[t] = "none" => conversion'[t] = "none"

\* What every step leads to, and what it may not do: at the start there is nothing yet.
KeepsItsWord == StaysClosed /\ (ClientTypeOK /\ OneCeiling /\ ResultsIsolated)'

\* A batch stays under its limit and keeps one result for each source, whatever the others meet; a client that
\* was closed stays closed and admits nothing.
ClientKeepsItsWord == [][KeepsItsWord]_clientVars

\* Every batch ends, at any limit: no conversion waits for a slot it holds itself.
BatchesEnd == \A b \in Batches : batch[b] = "running" ~> batch[b] \in {"returned", "raised"}
=============================================================================
