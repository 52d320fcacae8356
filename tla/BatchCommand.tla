---------------------------- MODULE BatchCommand -----------------------------
(***************************************************************************)
(* The batch command (cli.py): processes that reserve the batch manifest   *)
(* of one output directory, convert their inputs, write the artifacts of   *)
(* each result and publish the manifest; and may die at any point.         *)
(*                                                                         *)
(* Simplifications.                                                        *)
(*  - Conversion is one step (ClientCalls), and so is the writing of one   *)
(*    result (ArtifactTransaction): it publishes, collides or fails.       *)
(*  - A survey's stable files are one name; their content is who wrote it. *)
(***************************************************************************)
EXTENDS Naturals, Sequences, FiniteSets

CONSTANTS
    Runs,        \* batch commands over one output directory
    InputsOf,    \* the number of inputs of each
    Identities,  \* survey identities an input may turn out to have
    MaxDeaths    \* bound on process deaths

Nobody == "nobody"

BatchAssumption ==
    /\ InputsOf \in [Runs -> Nat]
    /\ MaxDeaths \in Nat
    /\ Nobody \notin Runs

Statuses == {"success", "partial", "failed"}

Unwritten == <<Nobody, 0>>

VARIABLES
    options,      \* flags of each run
    progress,     \* where each run stands
    results,      \* its results, in input order
    records,      \* its records so far
    reservation,  \* who made the reservation file
    manifest,     \* the published manifest
    stable,       \* who wrote the stable files of each survey: <<run, input>>
    exit,         \* exit status of each run
    refusal,      \* what a refused run was told
    deaths

batchVars == <<options, progress, results, records, reservation, manifest, stable, exit, refusal, deaths>>

Options == [overwrite : BOOLEAN, strict : BOOLEAN, sidecar : BOOLEAN]
Outcome == [status : Statuses, survey : Identities]

NoManifest == [by |-> Nobody, records |-> <<>>]

BatchInit ==
    /\ options \in [Runs -> Options]
    /\ progress = [r \in Runs |-> "idle"]
    /\ results = [r \in Runs |-> <<>>]
    /\ records = [r \in Runs |-> <<>>]
    /\ reservation = Nobody
    /\ manifest = NoManifest
    /\ stable = [s \in Identities |-> Unwritten]
    /\ exit = [r \in Runs |-> "none"]
    /\ refusal = [r \in Runs |-> "none"]
    /\ deaths = 0

files == <<manifest, stable>>

Exit(r, code) ==
    /\ progress' = [progress EXCEPT ![r] = "ended"]
    /\ exit' = [exit EXCEPT ![r] = code]

-----------------------------------------------------------------------------
(* _reserve_batch_manifest                                                 *)

Refused(r, why) ==
    /\ progress[r] = "idle"
    /\ Exit(r, "error")
    /\ refusal' = [refusal EXCEPT ![r] = why]
    /\ UNCHANGED <<options, results, records, reservation, files, deaths>>

\* The reservation file exists.
InProgress(r) == reservation # Nobody /\ Refused(r, "in_progress")

\* The directory or the file cannot be made.
CannotReserve(r) == Refused(r, "write_failed")

Reserve(r) ==
    /\ progress[r] = "idle"
    /\ reservation = Nobody
    /\ reservation' = r
    /\ progress' = [progress EXCEPT ![r] = "reserved"]
    /\ UNCHANGED <<options, results, records, files, exit, refusal, deaths>>

\* The run ends in an orderly way: its reservation file is unlinked.
Leave(r, code) ==
    /\ Exit(r, code)
    /\ reservation' = Nobody

\* The manifest of an earlier run is there, and is not to be overwritten.
Collide(r) ==
    /\ progress[r] = "reserved"
    /\ ~options[r].overwrite
    /\ manifest # NoManifest
    /\ Leave(r, "error")
    /\ UNCHANGED <<options, results, records, files, refusal, deaths>>

-----------------------------------------------------------------------------
(* _run_reserved_batch                                                     *)

\* The client returns one result for each input.
Convert(r) ==
    /\ progress[r] = "reserved"
    /\ options[r].overwrite \/ manifest = NoManifest
    /\ results' \in {[results EXCEPT ![r] = s] : s \in [1 .. InputsOf[r] -> Outcome]}
    /\ progress' = [progress EXCEPT ![r] = "writing"]
    /\ UNCHANGED <<options, records, reservation, files, exit, refusal, deaths>>

\* The client cannot be made, or anything is interrupted.
Abort(r) ==
    /\ progress[r] \in {"reserved", "writing"}
    /\ Leave(r, "error")
    /\ UNCHANGED <<options, results, records, files, refusal, deaths>>

Position(r) == Len(records[r]) + 1

Writable(r, i) ==
    /\ results[r][i].status # "failed"
    /\ results[r][i].status = "partial" => options[r].sidecar

Record(r, what) == records' = [records EXCEPT ![r] = Append(@, what)]

\* A failed result, or a partial one without its sidecar, has nothing written.
SkipWrite(r) ==
    /\ progress[r] = "writing"
    /\ Position(r) <= InputsOf[r]
    /\ ~Writable(r, Position(r))
    /\ Record(r, IF results[r][Position(r)].status = "failed" THEN "failed" ELSE "policy")
    /\ UNCHANGED <<options, progress, results, reservation, files, exit, refusal, deaths>>

\* The survey's artifacts are published, over those that exist if overwriting.
Write(r) ==
    /\ progress[r] = "writing"
    /\ Position(r) <= InputsOf[r]
    /\ Writable(r, Position(r))
    /\ LET s == results[r][Position(r)].survey IN
          /\ options[r].overwrite \/ stable[s] = Unwritten
          /\ stable' = [stable EXCEPT ![s] = <<r, Position(r)>>]
    /\ Record(r, "written")
    /\ UNCHANGED <<options, progress, results, reservation, manifest, exit, refusal, deaths>>

\* Mutant: a failing write ends the loop.
WriteFailsAndStops(r) ==
    /\ progress[r] = "writing"
    /\ Position(r) <= InputsOf[r]
    /\ Writable(r, Position(r))
    /\ Record(r, "write_error")
    /\ progress' = [progress EXCEPT ![r] = "publishing"]
    /\ UNCHANGED <<options, results, reservation, files, exit, refusal, deaths>>

\* It collides or fails: the record says so and the next input is taken.
WriteFails(r) ==
    /\ progress[r] = "writing"
    /\ Position(r) <= InputsOf[r]
    /\ Writable(r, Position(r))
    /\ Record(r, "write_error")
    /\ UNCHANGED <<options, progress, results, reservation, files, exit, refusal, deaths>>

AllRecorded(r) ==
    /\ progress[r] = "writing"
    /\ Position(r) > InputsOf[r]
    /\ progress' = [progress EXCEPT ![r] = "publishing"]
    /\ UNCHANGED <<options, results, records, reservation, files, exit, refusal, deaths>>

Has(r, statuses) == \E i \in 1 .. InputsOf[r] : results[r][i].status \in statuses

ExitStatus(r) ==
    IF \/ \E i \in DOMAIN records[r] : records[r][i] \in {"write_error", "policy"}
       \/ Has(r, {"failed"})
       \/ options[r].strict /\ Has(r, {"partial"})
    THEN "error" ELSE "ok"

\* _write_batch_manifest: replaced when overwriting, else linked if there is none.
Publish(r) ==
    /\ progress[r] = "publishing"
    /\ options[r].overwrite \/ manifest = NoManifest
    /\ manifest' = [by |-> r, records |-> records[r]]
    /\ Leave(r, ExitStatus(r))
    /\ UNCHANGED <<options, results, records, stable, refusal, deaths>>

\* The manifest exists, or cannot be written or linked.
CannotPublish(r) ==
    /\ progress[r] = "publishing"
    /\ Leave(r, "error")
    /\ UNCHANGED <<options, results, records, files, refusal, deaths>>

\* The process dies; what it reserved stays.
Die(r) ==
    /\ deaths < MaxDeaths
    /\ progress[r] \in {"reserved", "writing", "publishing"}
    /\ progress' = [progress EXCEPT ![r] = "dead"]
    /\ deaths' = deaths + 1
    /\ UNCHANGED <<options, results, records, reservation, files, exit, refusal>>

Step(r) ==
    \/ InProgress(r) \/ CannotReserve(r) \/ Reserve(r) \/ Collide(r)
    \/ Convert(r) \/ Abort(r) \/ SkipWrite(r) \/ Write(r) \/ WriteFails(r)
    \/ AllRecorded(r) \/ Publish(r) \/ CannotPublish(r)

BatchNext == \E r \in Runs : Step(r) \/ Die(r)

BatchSpec == BatchInit /\ [][BatchNext]_batchVars

-----------------------------------------------------------------------------
(* Properties.                                                             *)

BatchTypeOK ==
    /\ options \in [Runs -> Options]
    /\ progress \in [Runs -> {"idle", "reserved", "writing", "publishing", "ended", "dead"}]
    /\ \A r \in Runs : /\ results[r] = <<>> \/ results[r] \in [1 .. InputsOf[r] -> Outcome]
                       /\ Len(records[r]) <= InputsOf[r]
    /\ reservation \in Runs \cup {Nobody}
    /\ manifest.by \in Runs \cup {Nobody}
    /\ exit \in [Runs -> {"none", "ok", "error"}]
    /\ refusal \in [Runs -> {"none", "in_progress", "write_failed"}]

Inside == {r \in Runs : progress[r] \in {"reserved", "writing", "publishing"}}

\* Two runs never work on one output directory at a time, and none that did not ask
\* to overwrite replaces a manifest: what the first check saw still holds when the
\* manifest is published.
OneBatchAtATime ==
    /\ Cardinality(Inside) <= 1
    /\ \A r \in Inside : reservation = r
    /\ \A r \in Inside :
          progress[r] \in {"writing", "publishing"} /\ ~options[r].overwrite => manifest = NoManifest

\* A published manifest has one record for each input of its run, and a record says
\* of the input what became of it.
ManifestIsWhole ==
    manifest # NoManifest =>
        /\ Len(manifest.records) = InputsOf[manifest.by]
        /\ \A i \in 1 .. InputsOf[manifest.by] :
              /\ (results[manifest.by][i].status = "failed") = (manifest.records[i] = "failed")
              /\ manifest.records[i] = "policy" =>
                    results[manifest.by][i].status = "partial" /\ ~options[manifest.by].sidecar

\* docs/cli.md, "Exit Status": a run exits with 0 only when every input has its
\* artifacts on disk, none failed, and none is partial when that is an error.
ZeroMeansWritten ==
    \A r \in Runs : exit[r] = "ok" =>
        /\ \A i \in 1 .. InputsOf[r] :
              /\ records[r][i] = "written"
              /\ options[r].strict => results[r][i].status = "success"
              /\ stable[results[r][i].survey] # Unwritten

\* All of it: one run at a time works on an output directory, its manifest tells what
\* became of every input, and exit status 0 means that everything was written.
BatchTellsAll == BatchTypeOK /\ OneBatchAtATime /\ ManifestIsWhole /\ ZeroMeansWritten
=============================================================================
