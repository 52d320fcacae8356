------------------------------ MODULE PdfWorker ------------------------------
(***************************************************************************)
(* One conversion of a PDF (sources/docling.py DoclingPdfAdapter.convert). *)
(*                                                                         *)
(* Two child processes run one after the other, the preflight that counts  *)
(* pages and the converter.  Each answers through a queue of one slot; the *)
(* caller waits for the answer, the child's death or the deadline, then    *)
(* joins, terminates and kills the child, each for a bounded time.         *)
(*                                                                         *)
(* Simplifications.                                                        *)
(*  - multiprocessing is external: a child that puts its answer hands it   *)
(*    to a feeder thread, which writes it to a pipe, a large answer in     *)
(*    several writes.  The caller keeps the writing end open too, so a     *)
(*    read that has begun ends only with the last byte.                    *)
(*  - The deadline is an event; the bounded joins end at any time.         *)
(*  - An answer is what the checks of convert look at: page counts, the    *)
(*    last page of a block, and the coverage.                              *)
(***************************************************************************)
EXTENDS Integers, FiniteSets

CONSTANTS
    MaxPages,       \* limits.max_pages
    PageBound,      \* bound: largest page number of the model
    LargeAnswers,   \* a conversion may need more than one write
    MaxInterrupts   \* bound on KeyboardInterrupt and SystemExit

PdfAssumption ==
    /\ MaxPages \in Nat
    /\ PageBound \in Nat
    /\ MaxPages <= PageBound
    /\ LargeAnswers \in BOOLEAN
    /\ MaxInterrupts \in Nat

Max2(m, n) == IF m > n THEN m ELSE n

Stages  == {"inspect", "convert"}
Faults  == {"dependency", "security", "limit", "format", "conversion"}
NoPages == -1

\* What a converter returns: its page count, the last page a block comes from,
\* the pages its coverage counts (NoPages without coverage) and those it failed.
Conversions ==
    [pages : 0 .. PageBound, last : 0 .. PageBound,
     units : NoPages .. PageBound, failed : SUBSET (1 .. PageBound)]

\* What Docling reports of a document: the last page of an item, its page map,
\* the page count of its input, the pages of its errors, and whether anything
\* else says that the conversion is not complete.
Documents ==
    [last : 0 .. PageBound, map : 0 .. PageBound, input : 0 .. PageBound,
     errors : SUBSET (1 .. PageBound), incomplete : BOOLEAN]

PageCount(d) == Max2(d.last, Max2(d.map, d.input))

\* Failed pages that do not exist, or a failure without a page, are no coverage.
Inconsistent(d) ==
    \/ \E p \in d.errors : p > PageCount(d)
    \/ d.incomplete /\ d.errors = {}

ConversionOf(d) ==
    [pages |-> PageCount(d), last |-> d.last, failed |-> d.errors,
     units |-> IF PageCount(d) = 0 THEN NoPages ELSE PageCount(d)]

\* Messages of a child.  The preflight's answer is its page count.
Messages ==
    [kind : {"counted"}, pages : 0 .. MaxPages]
        \cup [kind : {"converted"}, answer : Conversions]
        \cup [kind : {"error"}, code : Faults]

Nothing == [kind |-> "nothing"]

VARIABLES
    stage,      \* which child the caller runs
    place,      \* where the caller stands
    child,      \* the child process
    pipe,       \* how much of the answer is in the pipe
    message,    \* what the child put
    received,   \* what the caller took from the queue
    counted,    \* page_count of _inspect_pdf
    expired,    \* the deadline has passed
    verdict,    \* what the caller will do once the child is cleaned up
    outcome,    \* what convert did: returned a document, or raised
    coverage,   \* coverage of the document
    interrupts, \* how many interrupts were delivered
    inTime      \* history: the answer reached the pipe before the deadline

pdfVars == <<stage, place, child, pipe, message, received, counted, expired, verdict,
            outcome, coverage, interrupts, inTime>>

Callers  == {"idle", "waiting", "looking", "reading", "joining", "terminating",
             "killing", "checking", "ended"}
Children == {"none", "running", "flushing", "writing", "exiting", "dead"}
Alive    == Children \ {"none", "dead"}
Cleaning == {"joining", "terminating", "killing"}

NoCoverage == [units |-> NoPages, failed |-> {}]

PdfInit ==
    /\ stage = "inspect"
    /\ place = "idle"
    /\ child = "none"
    /\ pipe = "empty"
    /\ message = Nothing
    /\ received = Nothing
    /\ counted = 0
    /\ expired = FALSE
    /\ verdict = "none"
    /\ outcome = "none"
    /\ coverage = NoCoverage
    /\ interrupts = 0
    /\ inTime = FALSE

callerVars == <<stage, place, received, counted, verdict, outcome, coverage, interrupts>>
childVars  == <<child, pipe, message, inTime>>

-----------------------------------------------------------------------------
(* The children. *)

\* The file does not open or does not begin like a PDF.
RefuseFile ==
    /\ place = "idle"
    /\ stage = "inspect"
    /\ place' = "ended"
    /\ outcome' \in {"format", "conversion"}
    /\ UNCHANGED <<stage, received, counted, verdict, coverage, interrupts,
                   childVars, expired>>

\* process.start() in a fresh queue.
Spawn ==
    /\ place = "idle"
    /\ place' = "waiting"
    /\ child' = "running"
    /\ pipe' = "empty"
    /\ message' = Nothing
    /\ received' = Nothing
    /\ verdict' = "none"
    /\ inTime' = FALSE
    /\ UNCHANGED <<stage, counted, expired, outcome, coverage, interrupts>>

\* The preflight puts a page count within the limit, or what is wrong.
Count ==
    /\ child = "running"
    /\ stage = "inspect"
    /\ child' = "flushing"
    /\ message' \in [kind : {"counted"}, pages : 0 .. MaxPages]
                    \cup [kind : {"error"}, code : Faults \ {"conversion"}]
    /\ UNCHANGED <<callerVars, pipe, expired, inTime>>

\* The converter puts its conversion, a SourceError's code, or for any other
\* exception the general one.
ConvertPages ==
    /\ child = "running"
    /\ stage = "convert"
    /\ child' = "flushing"
    /\ \/ \E d \in Documents :
            message' = IF Inconsistent(d) THEN [kind |-> "error", code |-> "conversion"]
                       ELSE [kind |-> "converted", answer |-> ConversionOf(d)]
       \/ \E code \in Faults : message' = [kind |-> "error", code |-> code]
    /\ UNCHANGED <<callerVars, pipe, expired, inTime>>

\* The feeder thread writes.  Only a conversion can need a second write.
Flush ==
    /\ \/ /\ child = "flushing"
          /\ LargeAnswers /\ message.kind = "converted"
          /\ child' = "writing"
          /\ pipe' = "part"
       \/ /\ child \in {"flushing", "writing"}
          /\ child' = "exiting"
          /\ pipe' = "whole"
    /\ inTime' = IF child = "flushing" THEN ~expired ELSE inTime
    /\ UNCHANGED <<callerVars, message, expired>>

ExitChild ==
    /\ child = "exiting"
    /\ child' = "dead"
    /\ UNCHANGED <<callerVars, pipe, message, expired, inTime>>

\* The child is killed or crashes; what it has not written is lost.
DieAtWork ==
    /\ child \in Alive
    /\ child' = "dead"
    /\ UNCHANGED <<callerVars, pipe, message, expired, inTime>>

Expire ==
    /\ ~expired
    /\ expired' = TRUE
    /\ UNCHANGED <<callerVars, childVars>>

-----------------------------------------------------------------------------
(* Waiting: _wait_for_worker_message. *)

\* The queue has bytes: get() reads to the end of the answer.
SeeAnswer ==
    /\ place = "waiting"
    /\ pipe # "empty"
    /\ place' = "reading"
    /\ UNCHANGED <<stage, received, counted, verdict, outcome, coverage,
                   interrupts, childVars, expired>>

\* Only the sentinel was seen ready: the queue is looked at once more.
SeeDeath ==
    /\ place = "waiting"
    /\ child = "dead"
    /\ place' = "looking"
    /\ UNCHANGED <<stage, received, counted, verdict, outcome, coverage,
                   interrupts, childVars, expired>>

\* Mutant: a death is believed without looking at the queue again.
LookNoMore ==
    /\ place = "looking"
    /\ verdict' = "died"
    /\ place' = "joining"
    /\ UNCHANGED <<stage, received, counted, outcome, coverage, interrupts,
                   childVars, expired>>

LookAgain ==
    /\ place = "looking"
    /\ \/ /\ pipe # "empty"
          /\ place' = "reading"
          /\ UNCHANGED verdict
       \/ /\ pipe = "empty"
          /\ verdict' = "died"
          /\ place' = "joining"
    /\ UNCHANGED <<stage, received, counted, outcome, coverage, interrupts,
                   childVars, expired>>

\* Neither was ready when the time was up.
TimeOut ==
    /\ place = "waiting"
    /\ expired
    /\ pipe = "empty"
    /\ child # "dead"
    /\ verdict' = "timeout"
    /\ place' = "joining"
    /\ UNCHANGED <<stage, received, counted, outcome, coverage, interrupts,
                   childVars, expired>>

Receive ==
    /\ place = "reading"
    /\ pipe = "whole"
    /\ received' = message
    /\ verdict' = "answer"
    /\ place' = "joining"
    /\ UNCHANGED <<stage, counted, outcome, coverage, interrupts, childVars,
                   expired>>

-----------------------------------------------------------------------------
(* Cleaning up: _bounded_process_cleanup. *)

\* What a message means for the stage that asked for it.
Translated(m) ==
    IF m.kind # "error" THEN "answer"
    ELSE IF m.code = "format" /\ stage = "convert" THEN "conversion" ELSE m.code

\* The caller leaves convert with an exception.
RaiseError(what) ==
    /\ place' = "ended"
    /\ outcome' = what

Conclude ==
    LET end == IF verdict = "answer" THEN Translated(received) ELSE verdict
    IN  IF end = "answer"
        THEN place' = "checking" /\ UNCHANGED outcome
        ELSE RaiseError(end)

Joined ==
    /\ place \in Cleaning
    /\ child = "dead"
    /\ Conclude
    /\ UNCHANGED <<stage, received, counted, verdict, coverage, interrupts,
                   childVars, expired>>

\* Mutant: the child is joined without a time limit.
JoinForever ==
    /\ place \in {"joining", "terminating"}
    /\ child \in Alive
    /\ UNCHANGED pdfVars

\* The join's time is up and the child lives: SIGTERM, then SIGKILL.
Escalate ==
    /\ place \in {"joining", "terminating"}
    /\ child \in Alive
    /\ place' = IF place = "joining" THEN "terminating" ELSE "killing"
    /\ UNCHANGED <<stage, received, counted, verdict, outcome, coverage,
                   interrupts, childVars, expired>>

\* The child outlives even that: an error replaces whatever was known.
GiveUpCleanup ==
    /\ place = "killing"
    /\ child \in Alive
    /\ RaiseError("cleanup")
    /\ UNCHANGED <<stage, received, counted, verdict, coverage, interrupts,
                   childVars, expired>>

\* KeyboardInterrupt or SystemExit while the child runs: it is cleaned up and
\* the exception goes on.  The second one escapes from that cleanup.
Interrupt ==
    /\ interrupts < MaxInterrupts
    /\ place \in {"waiting", "looking", "reading"} \cup Cleaning
    /\ interrupts' = interrupts + 1
    /\ IF verdict = "interrupt"
       THEN RaiseError("interrupt") /\ UNCHANGED verdict
       ELSE place' = "joining" /\ verdict' = "interrupt" /\ UNCHANGED outcome
    /\ UNCHANGED <<stage, received, counted, coverage, childVars, expired>>

-----------------------------------------------------------------------------
(* What convert makes of the answers. *)

\* The rest of the deadline is asked for before the second child.
NextStage ==
    /\ place = "checking"
    /\ stage = "inspect"
    /\ counted' = received.pages
    /\ IF expired
       THEN RaiseError("timeout") /\ UNCHANGED stage
       ELSE stage' = "convert" /\ place' = "idle" /\ UNCHANGED outcome
    /\ UNCHANGED <<received, verdict, coverage, interrupts, childVars, expired>>

\* Page limit, provenance and coverage of a conversion, in the order of the
\* checks; "document" when all of them hold.
Checked(a) ==
    LET total == Max2(counted, a.pages)
    IN  IF total > MaxPages \/ a.last > MaxPages THEN "limit"
        ELSE IF a.last > total THEN "conversion"
        ELSE IF a.units # NoPages /\ a.units # total THEN "conversion"
        ELSE "document"

\* Without coverage of its own, a document of known length counts as converted.
CoverageOf(a) ==
    LET total == Max2(counted, a.pages)
    IN  IF a.units # NoPages \/ total = 0
        THEN [units |-> a.units, failed |-> a.failed]
        ELSE [units |-> total, failed |-> {}]

BuildDocument ==
    /\ place = "checking"
    /\ stage = "convert"
    /\ RaiseError(Checked(received.answer))
    /\ coverage' = IF Checked(received.answer) = "document"
                   THEN CoverageOf(received.answer) ELSE NoCoverage
    /\ UNCHANGED <<stage, received, counted, verdict, interrupts, childVars,
                   expired>>

-----------------------------------------------------------------------------
Caller ==
    \/ RefuseFile \/ Spawn \/ SeeAnswer \/ SeeDeath \/ LookAgain \/ TimeOut \/ Receive
    \/ Joined \/ Escalate \/ GiveUpCleanup \/ NextStage \/ BuildDocument

PdfNext ==
    \/ Caller
    \/ Count \/ ConvertPages \/ Flush \/ ExitChild \/ DieAtWork
    \/ Expire
    \/ Interrupt

PdfSpec == PdfInit /\ [][PdfNext]_pdfVars

\* The caller runs, time passes, and a feeder thread that lives writes.  No
\* fairness is assumed of what a converter computes.
FairPdfSpec == PdfSpec /\ WF_pdfVars(Caller) /\ WF_pdfVars(Expire) /\ WF_pdfVars(Flush)

-----------------------------------------------------------------------------
(* Properties. *)

PdfTypeOK ==
    /\ stage \in Stages
    /\ place \in Callers
    /\ child \in Children
    /\ pipe \in {"empty", "part", "whole"}
    /\ message \in Messages \cup {Nothing}
    /\ received \in Messages \cup {Nothing}
    /\ counted \in 0 .. MaxPages
    /\ expired \in BOOLEAN
    /\ verdict \in {"none", "answer", "died", "timeout", "interrupt"}
    /\ outcome \in {"none", "document", "died", "timeout", "interrupt", "cleanup"}
                    \cup Faults
    /\ coverage \in [units : NoPages .. PageBound, failed : SUBSET (1 .. PageBound)]
    /\ interrupts \in 0 .. MaxInterrupts
    /\ inTime \in BOOLEAN

\* A call that has ended leaves no child behind, whether it answered, crashed,
\* hung or was interrupted.  The code gives up on a child in two cases only: it
\* survived SIGKILL, which is told by an error of its own, or the user
\* interrupted the cleanup itself.
NoWorkerLeft ==
    place = "ended" /\ child \in Alive =>
        \/ outcome = "cleanup"
        \/ outcome = "interrupt" /\ interrupts > 1

\* The end of _wait_for_worker_message, where death, answer and deadline meet:
\* a child is said to have died without answering only if no byte of an answer
\* is there, and a call times out while converting only if none came in time.
AnswerWins ==
    /\ outcome = "died" => pipe = "empty"
    /\ outcome = "timeout" /\ verdict = "timeout" => ~inTime

\* A document is made of answers that were received to the end, from both
\* children, the second of them with the caller's own deadline still running
\* when it was started.
AnswerIsWhole ==
    /\ verdict = "answer" => pipe = "whole" /\ received = message
    /\ outcome = "document" => stage = "convert" /\ received.kind = "converted"

\* A document's coverage spans every page that either child knows of, keeps the
\* pages the converter failed, and neither a block nor a failed page lies
\* outside of it.
CoverageTold ==
    outcome = "document" =>
        LET a == received.answer
        IN  /\ coverage.units >= Max2(counted, a.pages) \/ Max2(counted, a.pages) = 0
            /\ a.failed \subseteq coverage.failed
            /\ a.last <= Max2(counted, a.pages)
            /\ coverage.failed \subseteq 1 .. coverage.units

\* A call that ended left no worker but for the cases it gives up on; what it returns is the whole answer of a
\* worker that gave one, its death and the deadline notwithstanding, and tells every page.
PdfAnswerIsTrue == PdfTypeOK /\ NoWorkerLeft /\ AnswerWins /\ AnswerIsWhole /\ CoverageTold

\* The one wait without a deadline: the child died with an answer half in the pipe, and the caller, who keeps the
\* writing end open, reads on.
Torn == child = "dead" /\ pipe = "part"

\* A conversion ends, whatever its children do, but for a torn answer.
CallEnds == <>(place = "ended" \/ Torn)
=============================================================================
