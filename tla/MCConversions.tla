---------------------------- MODULE MCConversions ----------------------------
(***************************************************************************)
(* Small instances of the components that run a conversion: the client,    *)
(* the PDF worker, the extraction and the batch command.  A behaviour is   *)
(* one of one component, chosen at the start: "part" says which.  The      *)
(* others rest in one of their initial states.                             *)
(***************************************************************************)
EXTENDS ClientCalls, PdfWorker, ExtractionRun, BatchCommand

VARIABLE part

all == <<part, clientVars, pdfVars, extractionVars, batchVars>>

\* A batch of three sources.
ThreeSources == [b \in Batches |-> 1 .. 3]

\* Two runs of one input, and a run of two that works alone.
RunsOfInputs == [r \in Runs |-> IF r = "long" THEN 2 ELSE 1]
Two == {"r1", "r2"}

ASSUME ClientAssumption /\ PdfAssumption /\ RunAssumption /\ BatchAssumption

-----------------------------------------------------------------------------

ClientRests     == ClientInit /\ bad = {}
PdfRests        == PdfInit
ExtractionRests == ExtractionInit /\ pipeline = "svis" /\ ~partialOK /\ unreadable = {}

NoOptions == [overwrite |-> FALSE, strict |-> FALSE, sidecar |-> FALSE]
Idle(rs)  == \A r \in rs : options[r] = NoOptions

MCInit ==
    /\ ClientInit /\ PdfInit /\ ExtractionInit /\ BatchInit
    /\ \/ part = "client" /\ ExtractionRests /\ Idle(Runs)
       \/ part = "pdf" /\ ClientRests /\ ExtractionRests /\ Idle(Runs)
       \/ part = "extraction" /\ ClientRests /\ Idle(Runs)
       \/ part = "two runs" /\ ClientRests /\ ExtractionRests /\ Idle(Runs \ Two)
       \/ part = "one run" /\ ClientRests /\ ExtractionRests /\ Idle(Two)

ClientStays     == UNCHANGED <<part, pdfVars, extractionVars, batchVars>>
PdfStays        == UNCHANGED <<part, clientVars, extractionVars, batchVars>>
ExtractionStays == UNCHANGED <<part, clientVars, pdfVars, batchVars>>
BatchStays      == UNCHANGED <<part, clientVars, pdfVars, extractionVars>>

MCNext ==
    \/ part = "client" /\ ClientNext /\ ClientStays
    \/ part = "pdf" /\ PdfNext /\ PdfStays
    \/ part = "extraction" /\ ExtractionNext /\ ExtractionStays
    \/ part = "two runs" /\ BatchNext /\ progress'["long"] = "idle" /\ BatchStays
    \/ part = "one run" /\ BatchNext /\ (\A r \in Two : progress'[r] = "idle") /\ BatchStays

\* The fairness of each component, while it is the one that runs.
MCFairness ==
    /\ \A t \in Tasks : SF_all(part = "client" /\ ConversionStep(t) /\ ClientStays)
    /\ \A b \in Batches : WF_all(part = "client" /\ (ReturnBatch(b) \/ RaiseBatch(b)) /\ ClientStays)
    /\ WF_all(part = "pdf" /\ Caller /\ PdfStays)
    /\ WF_all(part = "pdf" /\ Expire /\ PdfStays)
    /\ WF_all(part = "pdf" /\ Flush /\ PdfStays)
    /\ WF_all(part = "extraction" /\ PipelineStep /\ ExtractionStays)
    /\ \A c \in Chunks : WF_all(part = "extraction" /\ TaskStep(c) /\ ExtractionStays)

MCSpec == MCInit /\ [][MCNext]_all /\ MCFairness

-----------------------------------------------------------------------------

\* client.py, sources/docling.py and pipeline.py: a batch, a PDF conversion and an extraction end, and so does
\* every call they began, unless a worker died in the middle of an answer.
EverythingEnds ==
    /\ BatchesEnd
    /\ part = "pdf" => CallEnds
    /\ part = "extraction" => RunEnds
=============================================================================
