--------------------------- MODULE ExtractionRun ----------------------------
(***************************************************************************)
(* One extraction of a normalized document (pipeline.py), by the SVIS      *)
(* pipeline, a single custom call, or custom chunks with a reducer.        *)
(*                                                                         *)
(* A pipeline makes one provider call for each chunk, all awaited          *)
(* together; the SVIS pipeline does so twice, for the survey's metadata    *)
(* and for its variables.  Calls end in any order.  The result says what   *)
(* was extracted, which chunks and source units failed, and its status.    *)
(*                                                                         *)
(* Simplifications.                                                        *)
(*  - A call is one step: ProviderCalls is its loop of attempts.           *)
(*  - An answer is what the result can tell apart: variables that may be   *)
(*    used, none, or only variables that QualityPolicy excludes.           *)
(*  - A cancelled task ends; it may not be revived by its provider.        *)
(***************************************************************************)
EXTENDS Naturals, FiniteSets, Sequences, SequencesExt

CONSTANTS
    MaxChunks,   \* bound on the chunks of the document
    Surveys,     \* what a metadata answer may say
    Units,       \* source units (pages, sheets) that may be unreadable
    Custom       \* the provider is caller-supplied, and may raise anything

Unset == "unset"

RunAssumption ==
    /\ MaxChunks \in Nat \ {0}
    /\ Surveys \cap {"failed", "fallback", Unset} = {}
    /\ Custom \in BOOLEAN

Pipelines == {"svis", "single", "chunked"}
Chunks    == 1 .. MaxChunks

\* What a chunk's call may answer.
Usable   == {"variables", "nothing", "excluded"}
Failures == {"truncated", "invalid", "failed"}

NoResult == [output |-> "pending", parts |-> <<>>, metadata |-> Unset,
             failed |-> {}, codes |-> {}]

VARIABLES
    pipeline,    \* which pipeline runs
    partialOK,   \* allow_partial of the chunked one
    unreadable,  \* coverage.failed_units of the document
    count,       \* number of chunks
    pc,          \* where extract stands
    task,        \* the tasks of the current gather
    first,       \* what the gather saw raised first
    metadata,    \* what each metadata call gave: one of Surveys, or "failed"
    block,       \* what each chunk's call gave
    raised,      \* what extract raised
    result       \* what extract returned

document == <<pipeline, partialOK, unreadable>>
answers  == <<metadata, block>>
extractionVars == <<document, count, pc, task, first, answers, raised, result>>

Rounds == {"metadata", "blocks"}
Active == 1 .. count

ExtractionInit ==
    /\ pipeline \in Pipelines
    /\ partialOK \in BOOLEAN
    /\ unreadable \in SUBSET Units
    /\ count = 0
    /\ pc = "start"
    /\ task = [c \in Chunks |-> "none"]
    /\ first = "none"
    /\ metadata = [c \in Chunks |-> Unset]
    /\ block = [c \in Chunks |-> Unset]
    /\ raised = "none"
    /\ result = NoResult

-----------------------------------------------------------------------------
(* The status of a result (results.py), from its output, its failed blocks *)
(* and the codes of its diagnostics.                                       *)

PartialCodes == {"metadata_incomplete", "source_unreadable", "provider_failed",
                 "provider_truncated", "validation_failed", "block_failed"}

Status(r) ==
    IF r.output = "none" THEN "failed"
    ELSE IF r.failed # {} \/ r.codes \cap PartialCodes # {} THEN "partial"
    ELSE "success"

SourceFailures    == {<<"source", u>> : u \in unreadable}
SourceDiagnostics == IF unreadable = {} THEN {} ELSE {"source_unreadable"}

Return(r) ==
    /\ result' = r
    /\ pc' = "ended"
    /\ UNCHANGED raised

\* A result without output, for an operation that raised.
FailedResult(failed, code) ==
    [NoResult EXCEPT !.output = "none", !.failed = failed, !.codes = {code}]

-----------------------------------------------------------------------------
(* Chunking, and the rounds of calls.                                      *)

\* asyncio.gather over one new task for each chunk.
Gather(round, n) ==
    /\ pc' = round
    /\ task' = [c \in Chunks |-> IF c <= n THEN "running" ELSE "none"]

\* The document does not fit in the provider's limits.
CannotChunk ==
    /\ pc = "start"
    /\ pipeline # "single"
    /\ Return(FailedResult({}, "capability"))
    /\ UNCHANGED <<document, count, task, first, answers>>

\* A single call takes the document whole; the others are split into chunks.
Start ==
    /\ pc = "start"
    /\ count' \in (IF pipeline = "single" THEN {1} ELSE 0 .. MaxChunks)
    /\ Gather(IF pipeline = "svis" THEN "metadata" ELSE "blocks", count')
    /\ UNCHANGED <<document, first, answers, raised, result>>

\* Tasks also end after extract itself has ended, when it left them running.
EndTask(c, how) ==
    /\ task[c] = "running"
    /\ task' = [task EXCEPT ![c] = how]

\* A metadata call answers, or fails in a way _extract_metadata_chunk expects.
MetadataAnswer(c) ==
    /\ pc = "metadata"
    /\ EndTask(c, "done")
    /\ \E a \in Surveys \cup {"failed"} : metadata' = [metadata EXCEPT ![c] = a]
    /\ UNCHANGED <<document, count, pc, first, block, raised, result>>

\* A chunk's call answers for that chunk, or fails in a way _extract_block or
\* _extract_chunk expects: a request too large, a cut or invalid answer, an answer
\* for another chunk or block, a provider error.  Only a provider of the caller's can
\* return what its response model rejects, an invalid range.
BlockAnswer(c) ==
    /\ pc = "blocks"
    /\ EndTask(c, "done")
    /\ \E a \in Usable \cup Failures :
          /\ pipeline # "svis" => a \in {"variables", "failed"}
          /\ a = "excluded" => Custom
          /\ block' = [block EXCEPT ![c] = a]
    /\ UNCHANGED <<document, count, pc, first, metadata, raised, result>>

\* A task raises what it does not catch: a control exception, or, of a caller's
\* own provider in the SVIS pipeline, an exception that is no provider error.
Raise(c) ==
    /\ pc \in Rounds
    /\ \E kind \in {"control", "error"} :
          /\ kind = "error" => Custom /\ pipeline = "svis"
          /\ EndTask(c, kind)
          /\ first' = IF first = "none" THEN kind ELSE first
    /\ UNCHANGED <<document, count, pc, answers, raised, result>>

\* The caller's task is cancelled while it awaits the gather.
Cancel ==
    /\ pc \in Rounds
    /\ first = "none"
    /\ first' = "control"
    /\ UNCHANGED <<document, count, pc, task, answers, raised, result>>

\* A control exception cancels the siblings, which are then awaited.
CancelSiblings ==
    /\ pc \in Rounds
    /\ first = "control"
    /\ pc' = "cancelling"
    /\ UNCHANGED <<document, count, task, first, answers, raised, result>>

Stop(c) ==
    /\ pc = "cancelling"
    /\ EndTask(c, "cancelled")
    /\ UNCHANGED <<document, count, pc, first, answers, raised, result>>

Quiet == \A c \in Chunks : task[c] # "running"

Reraise ==
    /\ pc = "cancelling"
    /\ Quiet
    /\ pc' = "ended"
    /\ raised' = "control"
    /\ UNCHANGED <<document, count, task, first, answers, result>>

\* Any other exception leaves the gather at once; the siblings run on.
LetErrorEscape ==
    /\ pc \in Rounds
    /\ first = "error"
    /\ pc' = "ended"
    /\ raised' = "error"
    /\ UNCHANGED <<document, count, task, first, answers, result>>

\* What a task that was left behind does is seen by nobody.
EndUnseen(c) ==
    /\ pc = "ended"
    /\ EndTask(c, "done")
    /\ UNCHANGED <<document, count, pc, first, answers, raised, result>>

RoundOver(round) ==
    /\ pc = round
    /\ first = "none"
    /\ Quiet

MetadataOver ==
    /\ RoundOver("metadata")
    /\ Gather("blocks", count)
    /\ UNCHANGED <<document, count, first, answers, raised, result>>

-----------------------------------------------------------------------------
(* The result.                                                             *)

Answered == {c \in Active : metadata[c] \in Surveys}

\* The first successful chunk of the document gives the metadata.
SurveyMetadata ==
    IF Answered = {} THEN "fallback"
    ELSE metadata[CHOOSE c \in Answered : \A d \in Answered : c <= d]

MetadataDiagnostics ==
    IF Answered # {} /\ \A c \in Active : metadata[c] = SurveyMetadata
    THEN {} ELSE {"metadata_incomplete"}

Code(a) == CASE a = "truncated" -> "provider_truncated"
             [] a \in {"invalid", "excluded"} -> "validation_failed"
             [] OTHER -> "provider_failed"

\* The chunks with one of these outcomes.
Gave(outcomes) == {c \in Active : block[c] \in outcomes}

\* Mutant: a chunk whose variables were all excluded is not a failed block.
SurveyFailuresOnly == {<<"chunk", c>> : c \in Gave(Failures)}

ChunkFailures == {<<"chunk", c>> : c \in Gave(Failures \cup {"excluded"})}

BlockCodes == {Code(block[c]) : c \in Gave(Failures \cup {"excluded"})}

Written == Gave({"variables"})

\* The chunks with variables, in the order of the document: the i-th has i - 1 before it.
Parts ==
    [i \in 1 .. Cardinality(Written) |-> CHOOSE c \in Written : Cardinality({d \in Written : d < c}) = i - 1]

\* The SVIS result: without a usable variable there is no output.
SurveyResult ==
    LET codes == MetadataDiagnostics \cup SourceDiagnostics \cup BlockCodes
        empty == Parts = <<>>
    IN  [output   |-> IF empty THEN "none" ELSE "survey",
         parts    |-> Parts,
         metadata |-> SurveyMetadata,
         failed   |-> SourceFailures \cup ChunkFailures,
         codes    |-> IF empty /\ codes = {} THEN {"block_failed"} ELSE codes]

BlocksOver ==
    /\ RoundOver("blocks")
    /\ pipeline = "svis"
    /\ Return(SurveyResult)
    /\ UNCHANGED <<document, count, task, first, answers>>

\* The single call's answer is the output; its failure keeps nothing else.
SingleOver ==
    /\ RoundOver("blocks")
    /\ pipeline = "single"
    /\ Return(IF block[1] = "variables"
              THEN [NoResult EXCEPT !.output = "custom", !.parts = Parts,
                       !.failed = SourceFailures, !.codes = SourceDiagnostics]
              ELSE FailedResult({}, "failed"))
    /\ UNCHANGED <<document, count, task, first, answers>>

CustomCodes ==
    SourceDiagnostics \cup (IF ChunkFailures = {} THEN {} ELSE {"block_failed"})

\* Chunk and source failures together; without allow_partial any of them ends
\* the run before the reducer.
Strict ==
    /\ RoundOver("blocks")
    /\ pipeline = "chunked"
    /\ ~partialOK /\ SourceFailures \cup ChunkFailures # {}
    /\ Return([NoResult EXCEPT !.output = "none", !.codes = CustomCodes,
                  !.failed = SourceFailures \cup ChunkFailures])
    /\ UNCHANGED <<document, count, task, first, answers>>

\* The caller's reducer returns, at once or awaited, or raises.
Reduce ==
    /\ RoundOver("blocks")
    /\ pipeline = "chunked"
    /\ partialOK \/ SourceFailures \cup ChunkFailures = {}
    /\ \/ Return([NoResult EXCEPT !.output = "custom", !.parts = Parts,
                     !.codes = CustomCodes, !.failed = SourceFailures \cup ChunkFailures])
       \/ Return(FailedResult(SourceFailures \cup ChunkFailures, "failed"))
       \/ /\ pc' = "ended"
          /\ raised' = "control"
          /\ UNCHANGED result
    /\ UNCHANGED <<document, count, task, first, answers>>

-----------------------------------------------------------------------------

TaskStep(c) == MetadataAnswer(c) \/ BlockAnswer(c) \/ Stop(c) \/ EndUnseen(c)

PipelineStep ==
    \/ CannotChunk \/ Start \/ CancelSiblings \/ Reraise \/ LetErrorEscape
    \/ MetadataOver \/ BlocksOver \/ SingleOver \/ Strict \/ Reduce

ExtractionNext ==
    \/ \E c \in Chunks : TaskStep(c) \/ Raise(c)
    \/ PipelineStep
    \/ Cancel

ExtractionSpec == ExtractionInit /\ [][ExtractionNext]_extractionVars

\* The event loop runs whatever is ready, and every provider call ends
\* (ProviderCalls, OthersEnd);
\* so does a caller's reducer.
ExtractionFairness ==
    /\ WF_extractionVars(PipelineStep)
    /\ \A c \in Chunks : WF_extractionVars(TaskStep(c))

-----------------------------------------------------------------------------
(* Properties.                                                             *)

ExtractionTypeOK ==
    /\ pipeline \in Pipelines
    /\ partialOK \in BOOLEAN
    /\ unreadable \subseteq Units
    /\ count \in 0 .. MaxChunks
    /\ pc \in {"start", "cancelling", "ended"} \cup Rounds
    /\ task \in [Chunks -> {"none", "running", "done", "control", "error", "cancelled"}]
    /\ first \in {"none", "control", "error"}
    /\ \A c \in Chunks \ Active : task[c] = "none" /\ block[c] = Unset
    /\ metadata \in [Chunks -> Surveys \cup {"failed", Unset}]
    /\ block \in [Chunks -> Usable \cup Failures \cup {Unset}]
    /\ raised \in {"none", "control", "error"}
    /\ result.output \in {"pending", "none", "survey", "custom"}

Returned == result.output # "pending"
AllMade  == Returned /\ count > 0 /\ \A c \in Active : block[c] # Unset

\* Once the chunks were processed none is forgotten: what failed or was excluded is
\* a failed block, like every unreadable unit of the source, and what was usable is
\* in the output if there is one.
NothingLost ==
    AllMade /\ pipeline # "single" =>
        /\ SourceFailures \subseteq result.failed
        /\ \A c \in Active :
              /\ block[c] \in Failures \cup {"excluded"} => <<"chunk", c>> \in result.failed
              /\ block[c] = "variables" /\ result.output # "none" => c \in ToSet(result.parts)

\* Success is reported only when every call of the run succeeded, every unit of the
\* source was read, and, for a survey, every metadata answer says the same.
SuccessIsWhole ==
    Returned /\ Status(result) = "success" =>
        /\ unreadable = {}
        /\ \A c \in Active : block[c] \in {"variables", "nothing"}
        /\ pipeline = "svis" => \E s \in Surveys : \A c \in Active : metadata[c] = s

\* Which call ends first does not show in the result: its metadata are those of the
\* first chunk that has any, and its parts follow the document.
OrderDoesNotShow ==
    Returned =>
        /\ \A i, j \in DOMAIN result.parts : i < j => result.parts[i] < result.parts[j]
        /\ \A c \in Active :
              /\ result.metadata \in Surveys
              /\ metadata[c] \in Surveys
              /\ metadata[c] # result.metadata
              => \E d \in 1 .. c - 1 : metadata[d] = result.metadata

\* A run that returned, was cancelled or ended by process control leaves no call running.  An exception that a
\* caller's provider may raise and no block expects does: its siblings are neither cancelled nor awaited, and go
\* on with the client's slots (that they end is RunEnds).
OnlyErrorsLeaveCalls == pc = "ended" /\ raised # "error" => Quiet

\* All of it: in whatever order the chunks answer, fail or are cancelled, the result is the
\* same, has or names all there is, and is a success only when nothing is missing.
ExtractionTellsAll ==
    ExtractionTypeOK /\ NothingLost /\ SuccessIsWhole /\ OrderDoesNotShow /\ OnlyErrorsLeaveCalls

\* Every extraction returns or raises, and no call runs on for ever, not even those
\* an unexpected exception of a custom provider leaves behind.
RunEnds == <>[](pc = "ended" /\ Quiet)
=============================================================================
