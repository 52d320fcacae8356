------------------------------ MODULE RouterRun -------------------------------
(***************************************************************************)
(* One call of QuestionnaireRouter.aroute (routing/pipeline.py): the       *)
(* survey is copied, the source converted in a thread, the binding         *)
(* compared, the inventory prepared, a graph reconciled from native        *)
(* semantics or extracted by the provider, and a result assembled.  The    *)
(* caller may change its survey, and anyone the file, at every await.      *)
(*                                                                         *)
(* Simplifications: a survey is its identifier and a version of the rest,  *)
(* a file its version.  The inventory is the subject of RoutingInventory,  *)
(* the extraction that of RoutingRun, the graph that of Reconciliation and *)
(* RoutingValidation: here they only succeed or fail as those can.         *)
(***************************************************************************)
EXTENDS Integers, FiniteSets

CONSTANTS
    Ids,       \* survey identifiers
    Units,     \* units of the source
    Regions,   \* regions given to the provider
    MaxChanges \* bound on changes by others

ASSUME RouterAssumption == Ids # {} /\ MaxChanges \in Nat

VARIABLES
    survey,   \* the caller's survey: [id, rest]
    file,     \* version of the source file
    binding,  \* [id, file]: what the caller says it has validated
    provider, \* whether the router has a provider
    phase,    \* "called", "converted", "prepared", "asking", "graph"; "returned", "cancelled", "raised"
    copy,     \* the detached survey
    document, \* [file, units, native, notes]: what conversion made
    unlinked, \* whether a variable has no item
    asked,    \* versions of the file whose text was sent to the provider
    failed,   \* failed units and regions
    result    \* [output, codes, failed]

routerVars == <<survey, file, binding, provider, phase, copy, document, unlinked, asked, failed, result>>

others == <<survey, file, binding, provider>>

None      == [id |-> "none", rest |-> 0]
NoOutput  == [survey |-> None, source |-> 0]
NoResult  == [output |-> NoOutput, codes |-> {}, failed |-> {}]
NoFile    == [file |-> 0, units |-> {}, native |-> "none", notes |-> {}]

RouterInit ==
    /\ survey \in [id : Ids, rest : {1}] /\ file = 1
    /\ binding \in [id : Ids, file : {1}] /\ provider \in BOOLEAN
    /\ phase = "called" /\ copy = survey
    /\ document = NoFile /\ unlinked = FALSE /\ asked = {} /\ failed = {} /\ result = NoResult

Return(r) == phase' = "returned" /\ result' = r

Fail(codes) == Return([NoResult EXCEPT !.codes = codes])

-----------------------------------------------------------------------------
(* The call.                                                               *)

\* SourceRegistry.convert_with_native, in a thread: the file is read now, the survey is the copy.
Convert ==
    /\ phase = "called"
    /\ \/ /\ \E code \in {"SOURCE_ERROR", "ROUTING_SOURCE_MISMATCH"} : Fail({code})
          /\ UNCHANGED <<others, copy, document, unlinked, asked, failed>>
       \/ \E units \in SUBSET Units, native \in {"none", "partial", "complete"},
             notes \in SUBSET {"warning", "error", "METADATA_INCOMPLETE"} :
             /\ native = "none" => notes = {}
             /\ document' = [file |-> file, units |-> units, native |-> native, notes |-> notes]
             /\ phase' = "converted"
             /\ UNCHANGED <<others, copy, unlinked, asked, failed, result>>

\* Mutant: only the survey is compared.
BoundSurvey == binding.id = copy.id

\* The binding of what was converted is the one given.
Bound == binding = [id |-> copy.id, file |-> document.file]

Unequipped == ~provider /\ document.native # "complete"

\* The binding is compared first, the missing provider next (without native semantics) or last (with partial
\* ones); in between the inventory may be empty, or its construction raise something nobody catches.
Prepare ==
    /\ phase = "converted"
    /\ \/ ~Bound /\ Fail({"ROUTING_SOURCE_MISMATCH"}) /\ UNCHANGED <<unlinked, failed>>
       \/ Bound /\ Unequipped /\ Fail({"ROUTING_PROVIDER_REQUIRED"}) /\ UNCHANGED <<unlinked, failed>>
       \/ /\ Bound /\ (provider \/ document.native # "none")
          /\ \/ Fail({"ROUTING_EMPTY_INVENTORY"})
             \/ phase' = "raised" /\ UNCHANGED result
          /\ UNCHANGED <<unlinked, failed>>
       \/ /\ Bound /\ ~Unequipped
          /\ unlinked' \in BOOLEAN
          /\ failed' = document.units
          /\ phase' = "prepared" /\ UNCHANGED result
    /\ UNCHANGED <<others, copy, document, asked>>

\* A complete native source needs no provider.
ReconcileNative ==
    /\ phase = "prepared" /\ document.native = "complete"
    /\ \/ Fail({"ROUTING_GRAPH_INVALID"})
       \/ phase' = "graph" /\ UNCHANGED result
    /\ UNCHANGED <<others, copy, document, unlinked, asked, failed>>

AskProvider ==
    /\ phase = "prepared" /\ document.native # "complete"
    /\ asked' = asked \cup {document.file}
    /\ phase' = "asking"
    /\ UNCHANGED <<others, copy, document, unlinked, failed, result>>

\* Mutant: the failures of the extraction replace those of the source.
AllFailedRegions(regions) == regions

AllFailed(regions) == failed \cup regions

\* The end of extract_routing: its errors, no graph, or a graph with the regions that failed.
EndExtraction ==
    /\ phase = "asking"
    /\ \/ Fail({"ROUTING_PROVIDER_FAILED"}) /\ UNCHANGED failed
       \/ phase' = "raised" /\ UNCHANGED <<failed, result>>
       \/ \E regions \in (SUBSET Regions) \ {{}} : Fail({<<"REGION_FAILED", r>> : r \in regions}) /\ UNCHANGED failed
       \/ \E regions \in SUBSET Regions : failed' = AllFailed(regions) /\ phase' = "graph" /\ UNCHANGED result
    /\ UNCHANGED <<others, copy, document, unlinked, asked>>

\* What makes a result partial: an error, or one of the codes of the result envelope.
PartialCodes == {"error", "METADATA_INCOMPLETE", "UNLINKED_VARIABLE"}

Status(r) ==
    CASE r.output = NoOutput                       -> "failed"
      [] r.failed # {} \/ r.codes \cap PartialCodes # {} -> "partial"
      [] OTHER                                     -> "success"

\* _result_diagnostics
Codes == document.notes \cup IF unlinked THEN {"UNLINKED_VARIABLE"} ELSE {}

\* Mutant: the survey the caller holds by now is routed.
RoutedLate == survey

\* The survey that is routed: the copy made when the call began.
Routed == copy

\* A graph with an error of its own is not usable.
Assemble ==
    /\ phase = "graph"
    /\ \/ Fail({"ROUTING_GRAPH_INVALID"})
       \/ Return([output |-> [survey |-> Routed, source |-> document.file], codes |-> Codes, failed |-> failed])
    /\ UNCHANGED <<others, copy, document, unlinked, asked, failed>>

\* Cancellation at an await.
Cancel ==
    /\ phase \in {"called", "asking"}
    /\ phase' = "cancelled" /\ UNCHANGED <<others, copy, document, unlinked, asked, failed, result>>

-----------------------------------------------------------------------------
(* Others, while the call awaits.                                          *)

EditSurvey ==
    /\ phase \in {"called", "asking"} /\ survey.rest <= MaxChanges
    /\ \E id \in Ids : survey' = [id |-> id, rest |-> survey.rest + 1]
    /\ UNCHANGED <<file, binding, provider, phase, copy, document, unlinked, asked, failed, result>>

RewriteFile ==
    /\ phase \in {"called", "asking"} /\ file <= MaxChanges
    /\ file' = file + 1
    /\ UNCHANGED <<survey, binding, provider, phase, copy, document, unlinked, asked, failed, result>>

RouterNext ==
    \/ Convert \/ Prepare \/ ReconcileNative \/ AskProvider \/ EndExtraction \/ Assemble \/ Cancel
    \/ EditSurvey \/ RewriteFile

RouterSpec == RouterInit /\ [][RouterNext]_routerVars

-----------------------------------------------------------------------------
(* Properties.                                                             *)

Returned == phase = "returned"

\* A routed survey is the one that was given, as it was when the call began, routed on the very source its
\* binding names: whatever the caller does to its survey, or anyone to the file, during the awaits.
ResultIsOfTheCall ==
    Returned /\ result.output # NoOutput =>
        /\ result.output.survey.rest = 1 /\ result.output.survey.id = binding.id
        /\ result.output.source = binding.file

\* No text of a source other than the bound one is sent to the provider, and none at all where the native
\* semantics are complete.
NothingUnboundIsSent ==
    /\ asked \subseteq {binding.file}
    /\ document.native = "complete" => asked = {}

\* The status is that of the documentation: failed without a usable graph, partial with an unlinked variable
\* or a failed source region, the units that could not be converted among them, or an error of the native
\* source; a success has none of these, and every failed unit and region is named.
StatusIsAsDocumented ==
    Returned /\ result.output # NoOutput =>
        /\ document.units \subseteq result.failed
        /\ Status(result) = "success" =>
              ~unlinked /\ document.units = {} /\ result.failed = {} /\ "error" \notin document.notes
=============================================================================
