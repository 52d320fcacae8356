------------------------- MODULE BatchCommandProofs --------------------------
(***************************************************************************)
(* What BatchCommand promises, proved for any number of runs, inputs and   *)
(* surveys.  Everything follows from one inductive invariant of three      *)
(* parts: who may be inside (LockInv), what a run's records say of its     *)
(* results at every position of the loop (RecordInv), and what a run that  *)
(* published or exited left behind (PublishedInv).                         *)
(***************************************************************************)
EXTENDS BatchCommand, FiniteSetTheorems, TLAPS

Marks == {"written", "write_error", "failed", "policy"}

\* What record i of run r says of its result, of its flags and of the stable files.
RecordIsTrue(r, i) ==
    /\ (results[r][i].status = "failed") <=> (records[r][i] = "failed")
    /\ records[r][i] = "policy" => results[r][i].status = "partial" /\ ~options[r].sidecar
    /\ records[r][i] = "written" => stable[results[r][i].survey] # Unwritten

Types ==
    /\ options \in [Runs -> Options]
    /\ progress \in [Runs -> {"idle", "reserved", "writing", "publishing", "ended", "dead"}]
    /\ DOMAIN results = Runs
    /\ records \in [Runs -> Seq(Marks)]
    /\ reservation \in Runs \cup {Nobody}
    /\ stable \in [Identities -> (Runs \cup {Nobody}) \X Nat]
    /\ exit \in [Runs -> {"none", "ok", "error"}]
    /\ refusal \in [Runs -> {"none", "in_progress", "write_failed"}]
    /\ deaths \in Nat

\* A run inside holds the reservation; past its first check, it overwrites or there is still no manifest.
LockInv ==
    \A r \in Inside :
        /\ reservation = r
        /\ progress[r] \in {"writing", "publishing"} => options[r].overwrite \/ manifest = NoManifest

\* Before the conversion there are no results, without results no records, and every record is true.
RecordInv ==
    \A r \in Runs :
        /\ results[r] = <<>> \/ results[r] \in [1 .. InputsOf[r] -> Outcome]
        /\ Len(records[r]) <= InputsOf[r]
        /\ progress[r] \in {"idle", "reserved"} => records[r] = <<>>
        /\ progress[r] \in {"writing", "publishing"} \/ records[r] # <<>> => results[r] \in [1 .. InputsOf[r] -> Outcome]
        /\ progress[r] = "publishing" => Len(records[r]) = InputsOf[r]
        /\ \A i \in 1 .. Len(records[r]) : RecordIsTrue(r, i)

\* Every input of run r was written, and was a success if that is asked.
AllWritten(r) ==
    \A i \in 1 .. InputsOf[r] :
        /\ records[r][i] = "written"
        /\ options[r].strict => results[r][i].status = "success"

\* The manifest holds the records of a run that ended with all of them; exit status 0 is that of a run whose
\* records are complete and all "written".
PublishedInv ==
    /\ \/ manifest = NoManifest
       \/ /\ manifest.by \in Runs
          /\ progress[manifest.by] = "ended"
          /\ manifest.records = records[manifest.by]
          /\ Len(manifest.records) = InputsOf[manifest.by]
    /\ \A r \in Runs : exit[r] # "none" => progress[r] = "ended"
    /\ \A r \in Runs : exit[r] = "ok" => Len(records[r]) = InputsOf[r] /\ AllWritten(r)

IInv == Types /\ LockInv /\ RecordInv /\ PublishedInv

-----------------------------------------------------------------------------
(* The start.                                                              *)

LEMMA InitInv == ASSUME BatchAssumption, BatchInit PROVE IInv
<1>1. Types
  <2>1. records \in [Runs -> Seq(Marks)]
    BY DEF BatchInit
  <2>2. stable \in [Identities -> (Runs \cup {Nobody}) \X Nat]
    BY DEF BatchInit, Unwritten
  <2>3. /\ options \in [Runs -> Options]
        /\ DOMAIN results = Runs
        /\ reservation \in Runs \cup {Nobody}
        /\ deaths \in Nat
    BY DEF BatchInit
  <2>4. /\ progress \in [Runs -> {"idle", "reserved", "writing", "publishing", "ended", "dead"}]
        /\ exit \in [Runs -> {"none", "ok", "error"}]
        /\ refusal \in [Runs -> {"none", "in_progress", "write_failed"}]
    BY DEF BatchInit
  <2> QED BY <2>1, <2>2, <2>3, <2>4 DEF Types
<1>2. LockInv
  BY DEF BatchInit, LockInv, Inside
<1>3. RecordInv
  BY DEF BatchInit, RecordInv, BatchAssumption
<1>4. PublishedInv
  BY DEF BatchInit, PublishedInv, AllWritten
<1> QED BY <1>1, <1>2, <1>3, <1>4 DEF IInv

-----------------------------------------------------------------------------
(* Steps that leave results and records as they are.                       *)

\* What a step that ends a run, without a manifest and not as a success, preserves.
LEMMA EndInv ==
    ASSUME BatchAssumption, IInv, NEW r \in Runs, progress[r] \in {"idle", "reserved", "writing", "publishing"},
           Exit(r, "error"), UNCHANGED <<options, results, records, files, deaths>>,
           \/ progress[r] = "idle" /\ reservation' = reservation
           \/ progress[r] # "idle" /\ reservation' = Nobody,
           refusal' \in [Runs -> {"none", "in_progress", "write_failed"}]
    PROVE  IInv'
<1> USE DEF IInv, BatchAssumption
<1>0. /\ options' = options /\ results' = results /\ records' = records
      /\ manifest' = manifest /\ stable' = stable /\ deaths' = deaths
      /\ progress' = [progress EXCEPT ![r] = "ended"]
      /\ exit' = [exit EXCEPT ![r] = "error"]
  BY DEF files, Exit
<1>1. Types'
  BY <1>0 DEF Types
<1>2. LockInv'
  <2> SUFFICES ASSUME NEW q \in Inside' PROVE LockInv!(q)'
    BY DEF LockInv
  <2>1. q # r /\ q \in Inside
    BY <1>0 DEF Inside, Types
  <2>2. reservation = q /\ (r \in Inside => reservation = r)
    BY <2>1 DEF LockInv
  <2>3. progress[r] = "idle"
    BY <2>1, <2>2 DEF Inside
  <2> QED BY <1>0, <2>1, <2>2, <2>3 DEF LockInv, Types
<1>3. RecordInv'
  <2> SUFFICES ASSUME NEW q \in Runs PROVE RecordInv!(q)'
    BY DEF RecordInv
  <2>1. RecordInv!(q)
    BY DEF RecordInv
  <2>2. progress'[q] = progress[q] \/ progress'[q] = "ended"
    BY <1>0 DEF Types
  <2>3. ASSUME NEW i \in 1 .. Len(records'[q]) PROVE RecordIsTrue(q, i)'
    BY <1>0, <2>1, <2>3 DEF RecordIsTrue
  <2> QED BY <1>0, <2>1, <2>2, <2>3
<1>4. PublishedInv'
  BY <1>0 DEF PublishedInv, AllWritten, Types
<1> QED BY <1>1, <1>2, <1>3, <1>4

LEMMA RefusedInv ==
    ASSUME BatchAssumption, IInv, NEW r \in Runs, InProgress(r) \/ CannotReserve(r)
    PROVE  IInv'
<1>1. PICK why \in {"in_progress", "write_failed"} : Refused(r, why)
  BY DEF InProgress, CannotReserve
<1>2. refusal' \in [Runs -> {"none", "in_progress", "write_failed"}]
  BY <1>1 DEF Refused, IInv, Types
<1> QED BY <1>1, <1>2, EndInv DEF Refused, files

LEMMA LeaveInv ==
    ASSUME BatchAssumption, IInv, NEW r \in Runs, Collide(r) \/ Abort(r) \/ CannotPublish(r)
    PROVE  IInv'
<1>1. progress[r] \in {"reserved", "writing", "publishing"}
  BY DEF Collide, Abort, CannotPublish
<1>2. Leave(r, "error") /\ UNCHANGED <<options, results, records, files, refusal, deaths>>
  BY DEF Collide, Abort, CannotPublish
<1>3. refusal' \in [Runs -> {"none", "in_progress", "write_failed"}]
  BY <1>2 DEF IInv, Types
<1> QED BY <1>1, <1>2, <1>3, EndInv DEF Leave

LEMMA ReserveInv == ASSUME BatchAssumption, IInv, NEW r \in Runs, Reserve(r) PROVE IInv'
<1> USE DEF IInv, BatchAssumption
<1>1. Types'
  BY DEF Types, Reserve, files
<1>2. LockInv'
  <2>1. Inside = {}
    BY DEF LockInv, Inside, Reserve, BatchAssumption
  <2> QED BY <2>1 DEF LockInv, Inside, Reserve, Types
<1>3. RecordInv'
  BY DEF RecordInv, RecordIsTrue, Reserve, files, Types
<1>4. PublishedInv'
  BY DEF PublishedInv, AllWritten, Reserve, files, Types
<1> QED BY <1>1, <1>2, <1>3, <1>4

LEMMA AllRecordedInv == ASSUME BatchAssumption, IInv, NEW r \in Runs, AllRecorded(r) PROVE IInv'
<1> USE DEF IInv, BatchAssumption
<1>1. Types'
  BY DEF Types, AllRecorded, files
<1>2. LockInv'
  BY DEF LockInv, Inside, AllRecorded, Types, files
<1>3. Len(records[r]) = InputsOf[r]
  BY DEF AllRecorded, Position, RecordInv, Types, BatchAssumption
<1>4. RecordInv'
  BY <1>3 DEF RecordInv, RecordIsTrue, AllRecorded, files, Types
<1>5. PublishedInv'
  BY DEF PublishedInv, AllWritten, AllRecorded, files, Types
<1> QED BY <1>1, <1>2, <1>4, <1>5

LEMMA DieInv == ASSUME BatchAssumption, IInv, NEW r \in Runs, Die(r) PROVE IInv'
<1> USE DEF IInv, BatchAssumption
<1>1. Types'
  BY DEF Types, Die, files
<1>2. LockInv'
  BY DEF LockInv, Inside, Die, Types, files
<1>3. RecordInv'
  BY DEF RecordInv, RecordIsTrue, Die, files, Types
<1>4. PublishedInv'
  BY DEF PublishedInv, AllWritten, Die, files, Types
<1> QED BY <1>1, <1>2, <1>3, <1>4

-----------------------------------------------------------------------------
(* The conversion and the loop over its results.                           *)

LEMMA ConvertInv == ASSUME BatchAssumption, IInv, NEW r \in Runs, Convert(r) PROVE IInv'
<1> USE DEF IInv, BatchAssumption
<1>1. PICK s \in [1 .. InputsOf[r] -> Outcome] : results' = [results EXCEPT ![r] = s]
  BY DEF Convert
<1>2. Types'
  BY <1>1 DEF Types, Convert, files
<1>3. LockInv'
  BY DEF LockInv, Inside, Convert, Types, files
<1>4. RecordInv'
  <2> SUFFICES ASSUME NEW q \in Runs PROVE RecordInv!(q)'
    BY DEF RecordInv
  <2>1. CASE q = r
    BY <1>1, <2>1 DEF RecordInv, Convert, Types, BatchAssumption
  <2>2. CASE q # r
    BY <1>1, <2>2 DEF RecordInv, RecordIsTrue, Convert, files, Types
  <2> QED BY <2>1, <2>2
<1>5. PublishedInv'
  BY <1>1 DEF PublishedInv, AllWritten, Convert, files, Types
<1> QED BY <1>2, <1>3, <1>4, <1>5

\* One more record: it is true, and the older ones stay so.
LEMMA RecordedInv ==
    ASSUME BatchAssumption, IInv, NEW r \in Runs, NEW mark \in Marks,
           progress[r] = "writing", Position(r) <= InputsOf[r], Record(r, mark),
           UNCHANGED <<options, progress, results, reservation, manifest, exit, refusal, deaths>>,
           stable' \in [Identities -> (Runs \cup {Nobody}) \X Nat],
           \A s \in Identities : stable[s] # Unwritten => stable'[s] # Unwritten,
           (results[r][Position(r)].status = "failed") <=> (mark = "failed"),
           mark = "policy" => results[r][Position(r)].status = "partial" /\ ~options[r].sidecar,
           mark = "written" => stable'[results[r][Position(r)].survey] # Unwritten
    PROVE  IInv'
<1> USE DEF IInv, BatchAssumption
<1>1. /\ records[r] \in Seq(Marks)
      /\ Position(r) \in Nat \ {0}
      /\ results[r] \in [1 .. InputsOf[r] -> Outcome]
  BY DEF Types, RecordInv, Position
<1>2. /\ records' \in [Runs -> Seq(Marks)]
      /\ \A q \in Runs \ {r} : records'[q] = records[q]
      /\ records'[r] = Append(records[r], mark)
  BY <1>1 DEF Types, Record
<1>3. /\ Len(records'[r]) = Position(r)
      /\ records'[r][Position(r)] = mark
      /\ \A i \in 1 .. Len(records[r]) : records'[r][i] = records[r][i]
  BY <1>1, <1>2 DEF Position
<1>4. Types'
  BY <1>2 DEF Types
<1>5. LockInv'
  BY DEF LockInv, Inside
<1>6. RecordInv'
  <2>1. ASSUME NEW q \in Runs, NEW i \in 1 .. Len(records'[q])
        PROVE  RecordIsTrue(q, i)'
    <3>1. CASE q = r /\ i = Position(r)
      BY <1>3, <3>1 DEF RecordIsTrue
    <3>2. CASE ~(q = r /\ i = Position(r))
      <4>1. i \in 1 .. Len(records[q]) /\ records'[q][i] = records[q][i]
        BY <1>1, <1>2, <1>3, <3>2 DEF Position
      <4>2. RecordIsTrue(q, i)
        BY <4>1 DEF RecordInv
      <4>3. /\ results[q] \in [1 .. InputsOf[q] -> Outcome]
            /\ i \in 1 .. InputsOf[q]
        BY <4>1 DEF RecordInv, Types, BatchAssumption
      <4>4. results[q][i].survey \in Identities
        BY <4>3 DEF Outcome
      <4> QED BY <4>1, <4>2, <4>4 DEF RecordIsTrue
    <3> QED BY <3>1, <3>2
  <2>2. ASSUME NEW q \in Runs \ {r} PROVE RecordInv!(q)'
    BY <1>2, <2>1 DEF RecordInv
  <2>3. RecordInv!(r)'
    BY <1>1, <1>2, <1>3, <2>1 DEF RecordInv
  <2> QED BY <2>2, <2>3 DEF RecordInv
<1>7. PublishedInv'
  <2>1. \A q \in Runs : exit[q] = "ok" => records'[q] = records[q]
    BY <1>2 DEF PublishedInv
  <2>2. manifest # NoManifest => records'[manifest.by] = records[manifest.by]
    BY <1>2 DEF PublishedInv
  <2>3. ASSUME NEW q \in Runs, exit[q] = "ok" PROVE AllWritten(q)'
    <3>1. AllWritten(q)
      BY <2>3 DEF PublishedInv
    <3> QED BY <2>1, <2>3, <3>1 DEF AllWritten
  <2> QED BY <2>1, <2>2, <2>3 DEF PublishedInv
<1> QED BY <1>4, <1>5, <1>6, <1>7

LEMMA LoopInv ==
    ASSUME BatchAssumption, IInv, NEW r \in Runs, SkipWrite(r) \/ Write(r) \/ WriteFails(r)
    PROVE  IInv'
<1> USE DEF IInv, BatchAssumption
<1>1. /\ progress[r] = "writing"
      /\ Position(r) \in 1 .. InputsOf[r]
      /\ results[r] \in [1 .. InputsOf[r] -> Outcome]
  BY DEF SkipWrite, Write, WriteFails, RecordInv, Position, Types
<1>2. results[r][Position(r)].status \in Statuses /\ results[r][Position(r)].survey \in Identities
  BY <1>1 DEF Outcome
<1>3. CASE SkipWrite(r)
  <2>1. CASE results[r][Position(r)].status = "failed"
    BY <1>1, <1>3, <2>1, RecordedInv DEF SkipWrite, Types, Marks, files
  <2>2. CASE results[r][Position(r)].status # "failed"
    BY <1>1, <1>3, <2>2, RecordedInv DEF SkipWrite, Writable, Types, Marks, files
  <2> QED BY <2>1, <2>2
<1>4. CASE Write(r)
  <2> DEFINE s == results[r][Position(r)].survey
  <2>1. /\ Record(r, "written")
        /\ stable' = [stable EXCEPT ![s] = <<r, Position(r)>>]
        /\ UNCHANGED <<options, progress, results, reservation, manifest, exit, refusal, deaths>>
        /\ results[r][Position(r)].status # "failed"
    BY <1>4 DEF Write, Writable
  <2>2. /\ stable' \in [Identities -> (Runs \cup {Nobody}) \X Nat]
        /\ stable'[s] # Unwritten
        /\ \A t \in Identities : stable[t] # Unwritten => stable'[t] # Unwritten
    BY <1>1, <1>2, <2>1 DEF Types, Unwritten
  <2>3. "written" \in Marks
    BY DEF Marks
  <2> QED BY <1>1, <2>1, <2>2, <2>3, RecordedInv
<1>5. CASE WriteFails(r)
  <2>1. /\ Record(r, "write_error")
        /\ UNCHANGED <<options, progress, results, reservation, manifest, exit, refusal, deaths, stable>>
        /\ results[r][Position(r)].status # "failed"
    BY <1>5 DEF WriteFails, Writable, files
  <2>2. "write_error" \in Marks /\ stable' \in [Identities -> (Runs \cup {Nobody}) \X Nat]
    BY <2>1 DEF Marks, Types
  <2> QED BY <1>1, <2>1, <2>2, RecordedInv
<1> QED BY <1>3, <1>4, <1>5

-----------------------------------------------------------------------------
(* The publication: the only step that makes a manifest or exits with 0.   *)

\* Exit status 0 leaves no mark but "written": the others each have a cause that ExitStatus looks for.
LEMMA ExitTells ==
    ASSUME BatchAssumption, IInv, NEW r \in Runs, progress[r] = "publishing", ExitStatus(r) = "ok",
           NEW i \in 1 .. InputsOf[r]
    PROVE  records[r][i] = "written" /\ (options[r].strict => results[r][i].status = "success")
<1>1. /\ records[r] \in Seq(Marks)
      /\ Len(records[r]) = InputsOf[r]
      /\ results[r] \in [1 .. InputsOf[r] -> Outcome]
      /\ RecordIsTrue(r, i)
  BY DEF IInv, Types, RecordInv
<1>2. i \in DOMAIN records[r] /\ records[r][i] \in Marks
  BY <1>1 DEF BatchAssumption
<1>3. /\ records[r][i] \notin {"write_error", "policy"}
      /\ results[r][i].status # "failed"
      /\ options[r].strict => results[r][i].status # "partial"
  BY <1>2 DEF ExitStatus, Has
<1>4. results[r][i].status \in Statuses
  BY <1>1 DEF Outcome
<1> QED BY <1>1, <1>2, <1>3, <1>4 DEF Marks, Statuses, RecordIsTrue

LEMMA PublishInv == ASSUME BatchAssumption, IInv, NEW r \in Runs, Publish(r) PROVE IInv'
<1> USE DEF IInv, BatchAssumption
<1>0. /\ options' = options /\ results' = results /\ records' = records /\ stable' = stable
      /\ manifest' = [by |-> r, records |-> records[r]]
      /\ progress[r] = "publishing"
      /\ progress' = [progress EXCEPT ![r] = "ended"]
      /\ exit' = [exit EXCEPT ![r] = ExitStatus(r)]
      /\ reservation' = Nobody /\ refusal' = refusal /\ deaths' = deaths
  BY DEF Publish, Leave, Exit
<1>1. ExitStatus(r) \in {"ok", "error"}
  BY DEF ExitStatus
<1>2. Types'
  BY <1>0, <1>1 DEF Types
<1>3. LockInv'
  <2>1. Inside' = {}
    BY <1>0 DEF LockInv, Inside, Types
  <2> QED BY <2>1 DEF LockInv
<1>4. RecordInv'
  <2> SUFFICES ASSUME NEW q \in Runs PROVE RecordInv!(q)'
    BY DEF RecordInv
  <2>1. RecordInv!(q)
    BY DEF RecordInv
  <2>2. progress'[q] = progress[q] \/ progress'[q] = "ended"
    BY <1>0 DEF Types
  <2>3. ASSUME NEW i \in 1 .. Len(records'[q]) PROVE RecordIsTrue(q, i)'
    BY <1>0, <2>1, <2>3 DEF RecordIsTrue
  <2> QED BY <1>0, <2>1, <2>2, <2>3
<1>5. PublishedInv'
  <2>1. Len(records[r]) = InputsOf[r]
    BY <1>0 DEF RecordInv
  <2>2. progress'[r] = "ended" /\ \A q \in Runs : exit'[q] # "none" => progress'[q] = "ended"
    BY <1>0 DEF PublishedInv, Types
  <2>3. ASSUME NEW q \in Runs, exit'[q] = "ok" PROVE Len(records[q]) = InputsOf[q] /\ AllWritten(q)
    <3>1. CASE q = r
      BY <1>0, <2>1, <2>3, <3>1, ExitTells DEF AllWritten, Types
    <3>2. CASE q # r
      BY <1>0, <2>3, <3>2 DEF PublishedInv, Types
    <3> QED BY <3>1, <3>2
  <2>4. ASSUME NEW q \in Runs, AllWritten(q) PROVE AllWritten(q)'
    BY <1>0, <2>4 DEF AllWritten
  <2> QED BY <1>0, <2>1, <2>2, <2>3, <2>4 DEF PublishedInv
<1> QED BY <1>2, <1>3, <1>4, <1>5

-----------------------------------------------------------------------------
(* The theorems.                                                           *)

\* The inductive invariant holds in every reachable state of any number of runs of the batch command.
THEOREM BatchInvariant == ASSUME BatchAssumption PROVE BatchSpec => []IInv
<1>1. BatchInit => IInv
  BY InitInv
<1>2. IInv /\ [BatchNext]_batchVars => IInv'
  <2> SUFFICES ASSUME IInv, [BatchNext]_batchVars PROVE IInv'
    OBVIOUS
  <2>1. ASSUME NEW r \in Runs, Step(r) PROVE IInv'
    BY <2>1, RefusedInv, LeaveInv, ReserveInv, ConvertInv, LoopInv, AllRecordedInv, PublishInv DEF Step
  <2>2. CASE BatchNext
    BY <2>1, <2>2, DieInv DEF BatchNext
  <2>3. CASE UNCHANGED batchVars
    <3>1. UNCHANGED <<options, progress, results, records, reservation, manifest, stable, exit, refusal, deaths>>
      BY <2>3 DEF batchVars
    <3>2. Types' /\ LockInv'
      BY <3>1 DEF IInv, Types, LockInv, Inside
    <3>3. ASSUME NEW q \in Runs PROVE RecordInv!(q)'
      <4>1. RecordInv!(q)
        BY DEF IInv, RecordInv
      <4>2. ASSUME NEW i \in 1 .. Len(records'[q]) PROVE RecordIsTrue(q, i)'
        BY <3>1, <4>1, <4>2 DEF RecordIsTrue
      <4> QED BY <3>1, <4>1, <4>2
    <3>4. PublishedInv'
      BY <3>1 DEF IInv, PublishedInv, AllWritten
    <3> QED BY <3>2, <3>3, <3>4 DEF IInv, RecordInv
  <2> QED BY <2>2, <2>3
<1> QED BY <1>1, <1>2, PTL DEF BatchSpec

\* cli.py: one run at a time works on an output directory, its manifest tells what became of every input, and
\* exit status 0 means that everything was written, whatever fails and wherever processes die.
THEOREM BatchTellsAllAlways == ASSUME BatchAssumption PROVE BatchSpec => []BatchTellsAll
<1>1. IInv => BatchTellsAll
  <2> SUFFICES ASSUME IInv PROVE BatchTellsAll
    OBVIOUS
  <2> USE DEF IInv, BatchAssumption
  <2>1. BatchTypeOK
    <3>1. manifest.by \in Runs \cup {Nobody}
      BY DEF PublishedInv, NoManifest
    <3> QED BY <3>1 DEF Types, RecordInv, BatchTypeOK
  <2>2. OneBatchAtATime
    <3>1. Inside \subseteq {reservation}
      BY DEF LockInv
    <3>2. IsFiniteSet({reservation}) /\ Cardinality({reservation}) = 1
      BY FS_Singleton
    <3>3. Cardinality(Inside) <= 1
      BY <3>1, <3>2, FS_Subset
    <3> QED BY <3>3 DEF LockInv, OneBatchAtATime
  <2>3. ManifestIsWhole
    <3> SUFFICES ASSUME manifest # NoManifest PROVE ManifestIsWhole!2
      BY DEF ManifestIsWhole
    <3> DEFINE q == manifest.by
    <3>1. q \in Runs /\ manifest.records = records[q] /\ Len(records[q]) = InputsOf[q]
      BY DEF PublishedInv
    <3>2. \A i \in 1 .. InputsOf[q] : RecordIsTrue(q, i)
      BY <3>1 DEF RecordInv
    <3> QED BY <3>1, <3>2 DEF RecordIsTrue
  <2>4. ZeroMeansWritten
    <3> SUFFICES ASSUME NEW q \in Runs, exit[q] = "ok", NEW i \in 1 .. InputsOf[q]
                 PROVE  /\ records[q][i] = "written"
                        /\ options[q].strict => results[q][i].status = "success"
                        /\ stable[results[q][i].survey] # Unwritten
      BY DEF ZeroMeansWritten
    <3>1. Len(records[q]) = InputsOf[q]
      BY DEF PublishedInv
    <3>2. records[q][i] = "written" /\ (options[q].strict => results[q][i].status = "success")
      <4>1. AllWritten(q)
        BY DEF PublishedInv
      <4> QED BY <4>1 DEF AllWritten
    <3>3. RecordIsTrue(q, i)
      BY <3>1 DEF RecordInv
    <3> QED BY <3>2, <3>3 DEF RecordIsTrue
  <2> QED BY <2>1, <2>2, <2>3, <2>4 DEF BatchTellsAll
<1> QED BY <1>1, BatchInvariant, PTL
=============================================================================
