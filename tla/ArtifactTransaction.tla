------------------------- MODULE ArtifactTransaction -------------------------
(***************************************************************************)
(* Publication of one survey's artifacts by write_result                   *)
(* (serialization/artifacts.py).                                           *)
(*                                                                         *)
(* A write commits an immutable generation directory, journals the         *)
(* publication in a `transaction` directory that also holds a copy of every*)
(* file about to change, removes active.json, replaces the stable files at *)
(* the output root, writes active.json again and removes the transaction.  *)
(* A failure on the way rolls back from the copies.  A write that finds a  *)
(* transaction left by a dead process rolls it forward before its own work.*)
(*                                                                         *)
(* One survey is modelled, and the steps of a write between acquiring and  *)
(* releasing the output-root lock: the non-blocking flock lets one writer  *)
(* in at a time and the kernel drops it when the process dies, so `pc` is  *)
(* the program counter of whoever holds it and "idle" means the lock is    *)
(* free.  Whatever writer comes next finds what the previous one left.     *)
(*                                                                         *)
(* Simplifications.                                                        *)
(*  - A file's content is the generation it was copied from.               *)
(*  - A process death keeps everything written so far: power failures,     *)
(*    where the flushes matter, are not modelled.                          *)
(*  - A write of a file is one step, since it replaces the target by a     *)
(*    rename.  A failing write may still have replaced it, because the     *)
(*    flush of the directory comes after the rename.                       *)
(*  - The journal's phase is left out: nothing ever reads it.              *)
(*  - Another program may create a stable file at any moment where there   *)
(*    is none; it does not edit, replace or delete one that is there.      *)
(***************************************************************************)
EXTENDS Naturals, FiniteSets

CONSTANTS
    Gens,        \* generation ids, one for each uuid4 a write draws
    Files,       \* names of stable files at the output root
    Pointer,     \* active.json
    Main,        \* the name recovery expects a generation to publish
    PlanOf,      \* PlanOf[g]: the stable files generation g publishes
    None,        \* absence: of a file, a generation, a journal
    Foreign,     \* content of a stable file this package did not write
    MaxCrashes,  \* bound on process deaths
    MaxFaults    \* bound on failing operations

Targets == Files \cup {Pointer}
Content == Gens \cup {None, Foreign}

ASSUME ConstantsAssumption ==
    /\ None \notin Gens
    /\ Foreign \notin Gens
    /\ None # Foreign
    /\ Pointer \notin Files
    /\ Main \in Files
    /\ PlanOf \in [Gens -> SUBSET Files]
    /\ MaxCrashes \in Nat
    /\ MaxFaults \in Nat

VARIABLES
    (* On disk; all of it survives a crash. *)
    public,      \* content of every stable file and of active.json
    gens,        \* committed generation directories
    genStaging,  \* generation staging directories
    txn,         \* the transaction directory: "none", "staging" or "live"
    journal,     \* the generation named by its journal.json
    backup,      \* its backup files: target |-> copied content, None if no file
    (* The writer that holds the lock. *)
    pc,
    over,        \* the overwrite argument
    gen,         \* the generation this write is about
    todo,        \* stable files still to be written or restored
    saved,       \* targets with a backup file, from the journal in memory
    (* History, read only by properties. *)
    outcome,     \* how the last write ended
    before,      \* public state when this write passed its collision check
    forced,      \* generations written with overwrite=True
    abandoned,   \* committed generations whose write failed and left no journal
    (* Outside the writer. *)
    late,        \* stable files others created since the last passed collision check
    crashes, faults

disk    == <<public, gens, genStaging, txn, journal, backup>>
writer  == <<pc, over, gen, todo, saved>>
history == <<outcome, before, forced, abandoned>>
outside == <<late, crashes, faults>>
vars    == <<disk, writer, history, outside>>

Recovering == {"recover", "roll_forward", "point_forward", "sweep", "cleanup", "check"}
Preparing  == {"generate", "commit_gen", "stage_txn", "commit_txn"}
Publishing == {"clear", "project", "point", "mark", "retire", "finish"}
Undoing    == {"rollback", "discard"}
PCs        == {"idle"} \cup Recovering \cup Preparing \cup Publishing \cup Undoing
Outcomes   == {"none", "running", "ok", "collision", "refused", "error",
               "rolled_back", "rollback_failed", "crashed"}

active == public[Pointer]
Hidden == [t \in Targets |-> None]

(* Everything _backup_target copies for generation g. *)
Touched(g) == PlanOf[g] \cup {Pointer}

(***************************************************************************)
(* _recover_transaction accepts a journal only if its publications are the *)
(* manifest's main (v1) or projection (v2) file under its own name: one    *)
(* file, of the expected name.                                             *)
(***************************************************************************)
Recoverable(g) == g \in gens /\ PlanOf[g] = {Main}

Init ==
    /\ public \in [Targets -> {None, Foreign}]
    /\ public[Pointer] = None
    /\ gens = {}
    /\ genStaging = {}
    /\ txn = "none"
    /\ journal = None
    /\ backup = Hidden
    /\ pc = "idle"
    /\ over = FALSE
    /\ gen = None
    /\ todo = {}
    /\ saved = {}
    /\ outcome = "none"
    /\ before = Hidden
    /\ forced = {}
    /\ abandoned = {}
    /\ late = {}
    /\ crashes = 0
    /\ faults = 0

-----------------------------------------------------------------------------
(* Helpers. *)

(* The write ends: the lock is released and the call's locals are gone. *)
Release(result) ==
    /\ pc' = "idle"
    /\ over' = FALSE
    /\ gen' = None
    /\ todo' = {}
    /\ saved' = {}
    /\ before' = Hidden
    /\ outcome' = result

Put(t, c) == public' = [public EXCEPT ![t] = c]

(* A failing write of c to t: the rename may have happened or not. *)
Torn(t, c) == Put(t, c) \/ public' = public

Fault == faults < MaxFaults /\ faults' = faults + 1 /\ late' = late

Goto(label) == pc' = label /\ UNCHANGED <<over, gen, todo, saved>>

(***************************************************************************)
(* A write draws a fresh id.  Bound: once the finite set is used up, only  *)
(* writes that can do no more than repair are started.                     *)
(***************************************************************************)
WithinBounds(g, overwrite) == g \notin gens \/ (gens = Gens /\ txn = "live" /\ ~overwrite)

-----------------------------------------------------------------------------
(* Entering the lock, recovery and staging cleanup. *)

(* g carries the write's artifact plan and the id it draws further on. *)
BeginWrite(g, overwrite) ==
    /\ pc = "idle"
    /\ WithinBounds(g, overwrite)
    /\ pc' = "recover"
    /\ gen' = g
    /\ over' = overwrite
    /\ outcome' = "running"
    /\ UNCHANGED <<disk, todo, saved, before, forced, abandoned, outside>>

SkipRecovery ==
    /\ pc = "recover"
    /\ txn # "live"
    /\ Goto("cleanup")
    /\ UNCHANGED <<disk, history, outside>>

(* No journal.json, or a journal recovery does not accept. *)
RefuseRecovery ==
    /\ pc = "recover"
    /\ txn = "live"
    /\ journal = None \/ ~Recoverable(journal)
    /\ Release("refused")
    /\ UNCHANGED <<disk, forced, abandoned, outside>>

(* Defect: recovery writes the pointer only. *)
StartRollForwardForgets ==
    /\ pc = "recover"
    /\ txn = "live"
    /\ journal # None /\ Recoverable(journal)
    /\ pc' = "point_forward"
    /\ UNCHANGED <<disk, over, gen, todo, saved, history, outside>>

StartRollForward ==
    /\ pc = "recover"
    /\ txn = "live"
    /\ journal # None /\ Recoverable(journal)
    /\ pc' = "roll_forward"
    /\ todo' = PlanOf[journal]
    /\ UNCHANGED <<disk, over, gen, saved, history, outside>>

(* Recovery does not clear active.json first. *)
RollForwardFile(f) ==
    /\ pc = "roll_forward"
    /\ f \in todo
    /\ Put(f, journal)
    /\ todo' = todo \ {f}
    /\ pc' = IF todo = {f} THEN "point_forward" ELSE "roll_forward"
    /\ UNCHANGED <<gens, genStaging, txn, journal, backup, over, gen, saved,
                   history, outside>>

(* Defect: recovery writes the stable files only. *)
RollForwardPointerForgets ==
    /\ pc = "point_forward"
    /\ Goto("sweep")
    /\ UNCHANGED <<disk, history, outside>>

(* Defect: recovery starts over instead of removing the transaction. *)
RollForwardPointerLoops ==
    /\ pc = "point_forward"
    /\ Put(Pointer, journal)
    /\ Goto("recover")
    /\ UNCHANGED <<gens, genStaging, txn, journal, backup, history, outside>>

RollForwardPointer ==
    /\ pc = "point_forward"
    /\ Put(Pointer, journal)
    /\ Goto("sweep")
    /\ UNCHANGED <<gens, genStaging, txn, journal, backup, history, outside>>

(***************************************************************************)
(* _safe_remove_tree(transaction): scandir returns the entries in no       *)
(* particular order and each is unlinked on its own; the directory goes    *)
(* last.  Recovery, a successful publication and a rollback all end in it. *)
(***************************************************************************)
Removing == {"sweep", "retire", "discard"}

UnlinkBackup(t) ==
    /\ pc \in Removing
    /\ txn = "live"
    /\ backup[t] # None
    /\ backup' = [backup EXCEPT ![t] = None]
    /\ UNCHANGED <<public, gens, genStaging, txn, journal, writer, history, outside>>

UnlinkJournal ==
    /\ pc \in Removing
    /\ txn = "live"
    /\ journal # None
    /\ journal' = None
    /\ UNCHANGED <<public, gens, genStaging, txn, backup, writer, history, outside>>

(* Defect: the directory is dropped with its backups. *)
RemoveDirectoryEarly ==
    /\ pc \in {"sweep", "retire"}
    /\ txn = "live"
    /\ journal = None
    /\ txn' = "none"
    /\ Goto(IF pc = "sweep" THEN "cleanup" ELSE "finish")
    /\ UNCHANGED <<public, gens, genStaging, journal, backup, history, outside>>

RemoveDirectory ==
    /\ pc \in {"sweep", "retire"}
    /\ txn = "live"
    /\ journal = None /\ backup = Hidden
    /\ txn' = "none"
    /\ Goto(IF pc = "sweep" THEN "cleanup" ELSE "finish")
    /\ UNCHANGED <<public, gens, genStaging, journal, backup, history, outside>>

(* _cleanup_staging: what writes that died before their rename left. *)
CleanupStaging ==
    /\ pc = "cleanup"
    /\ genStaging' = {}
    /\ txn' = "none"
    /\ journal' = None
    /\ backup' = Hidden
    /\ Goto("check")
    /\ UNCHANGED <<public, gens, history, outside>>

-----------------------------------------------------------------------------
(* The collision check, the generation and the journal. *)

(* Defect: only active.json is looked at. *)
PointerOccupied(g) == active # None

Occupied(g) == \E t \in Touched(g) : public[t] # None

Collide ==
    /\ pc = "check"
    /\ ~over /\ Occupied(gen)
    /\ Release("collision")
    /\ UNCHANGED <<disk, forced, abandoned, outside>>

PassCollisionCheck ==
    /\ pc = "check"
    /\ over \/ ~Occupied(gen)
    /\ before' = public
    /\ late' = {}
    /\ Goto("generate")
    /\ UNCHANGED <<disk, outcome, forced, abandoned, crashes, faults>>

StageGeneration ==
    /\ pc = "generate"
    /\ gen \notin gens
    /\ genStaging' = genStaging \cup {gen}
    /\ Goto("commit_gen")
    /\ UNCHANGED <<public, gens, txn, journal, backup, history, outside>>

(* Defect: the staging directory is never renamed. *)
CommitGenerationForgets ==
    /\ pc = "commit_gen"
    /\ genStaging' = genStaging \ {gen}
    /\ forced' = IF over THEN forced \cup {gen} ELSE forced
    /\ Goto("stage_txn")
    /\ UNCHANGED <<public, gens, txn, journal, backup, outcome, before, abandoned, outside>>

(* Files, manifest, validation, then one rename. *)
CommitGeneration ==
    /\ pc = "commit_gen"
    /\ genStaging' = genStaging \ {gen}
    /\ gens' = gens \cup {gen}
    /\ forced' = IF over THEN forced \cup {gen} ELSE forced
    /\ Goto("stage_txn")
    /\ UNCHANGED <<public, txn, journal, backup, outcome, before, abandoned, outside>>

(***************************************************************************)
(* A staging directory with the backups and journal.json.  The refusal of  *)
(* an existing directory (artifacts.py:927) never strikes after a recovery.*)
(***************************************************************************)
StageTransaction ==
    /\ pc = "stage_txn"
    /\ txn = "none"
    /\ txn' = "staging"
    /\ backup' = [t \in Targets |-> IF t \in Touched(gen) THEN public[t] ELSE None]
    /\ saved' = {t \in Touched(gen) : public[t] # None}
    /\ journal' = gen
    /\ pc' = "commit_txn"
    /\ UNCHANGED <<public, gens, genStaging, over, gen, todo, history, outside>>

CommitTransaction ==
    /\ pc = "commit_txn"
    /\ txn' = "live"
    /\ Goto("clear")
    /\ UNCHANGED <<public, gens, genStaging, journal, backup, history, outside>>

-----------------------------------------------------------------------------
(* Publication. *)

ClearPointer ==
    /\ pc = "clear"
    /\ Put(Pointer, None)
    /\ todo' = PlanOf[gen]
    /\ pc' = "project"
    /\ UNCHANGED <<gens, genStaging, txn, journal, backup, over, gen, saved,
                   history, outside>>

(* Defect: only one file of the plan is published. *)
PublishFileForgets(f) ==
    /\ pc = "project"
    /\ f \in todo
    /\ todo' = {}
    /\ Put(f, gen)
    /\ UNCHANGED <<gens, genStaging, txn, journal, backup, pc, over, gen, saved,
                   history, outside>>

PublishFile(f) ==
    /\ pc = "project"
    /\ f \in todo
    /\ todo' = todo \ {f}
    /\ Put(f, gen)
    /\ UNCHANGED <<gens, genStaging, txn, journal, backup, pc, over, gen, saved,
                   history, outside>>

(* journal.json rewritten with phase projection_published. *)
MarkProjected ==
    /\ pc = "project"
    /\ todo = {}
    /\ Goto("point")
    /\ UNCHANGED <<disk, history, outside>>

PublishPointer ==
    /\ pc = "point"
    /\ Put(Pointer, gen)
    /\ Goto("mark")
    /\ UNCHANGED <<gens, genStaging, txn, journal, backup, history, outside>>

(* journal.json rewritten with phase pointer_published. *)
MarkPointed ==
    /\ pc = "mark"
    /\ Goto("retire")
    /\ UNCHANGED <<disk, history, outside>>

Finish ==
    /\ pc = "finish"
    /\ Release("ok")
    /\ UNCHANGED <<disk, forced, abandoned, outside>>

-----------------------------------------------------------------------------
(* Rollback: stable files first, active.json last, then the directory. *)

Restored(t) == IF t \in saved THEN backup[t] ELSE None
Restorable(t) == t \notin saved \/ backup[t] # None

RestoreFile(f) ==
    /\ pc = "rollback"
    /\ f \in todo
    /\ Restorable(f)
    /\ Put(f, Restored(f))
    /\ todo' = todo \ {f}
    /\ UNCHANGED <<gens, genStaging, txn, journal, backup, pc, over, gen, saved,
                   history, outside>>

(* Defect: the rolled-back transaction is not removed. *)
RestorePointerAndStop ==
    /\ pc = "rollback"
    /\ todo = {}
    /\ Restorable(Pointer)
    /\ Put(Pointer, Restored(Pointer))
    /\ Release("rolled_back")
    /\ abandoned' = abandoned \cup {gen}
    /\ UNCHANGED <<gens, genStaging, txn, journal, backup, forced, outside>>

RestorePointer ==
    /\ pc = "rollback"
    /\ todo = {}
    /\ Restorable(Pointer)
    /\ Put(Pointer, Restored(Pointer))
    /\ Goto("discard")
    /\ UNCHANGED <<gens, genStaging, txn, journal, backup, history, outside>>

(* The copy was already removed when the publication failed. *)
MissingBackup ==
    /\ pc = "rollback"
    /\ \E t \in IF todo = {} THEN {Pointer} ELSE todo : ~Restorable(t)
    /\ Release("rollback_failed")
    /\ UNCHANGED <<disk, forced, abandoned, outside>>

DiscardTransaction ==
    /\ pc = "discard"
    /\ txn = "live"
    /\ journal = None /\ backup = Hidden
    /\ txn' = "none"
    /\ Release("rolled_back")
    /\ abandoned' = abandoned \cup {gen}
    /\ UNCHANGED <<public, gens, genStaging, journal, backup, forced, outside>>

(* The publication failed after the directory was gone: removing it fails. *)
NothingToDiscard ==
    /\ pc = "discard"
    /\ txn = "none"
    /\ Release("rollback_failed")
    /\ UNCHANGED <<disk, forced, abandoned, outside>>

-----------------------------------------------------------------------------
(* Failures: an operation raises, or the process dies. *)

(* Lock checks, alias and identity claims, recovery reads, staging cleanup. *)
SetupFault ==
    /\ pc \in {"recover", "sweep", "cleanup"}
    /\ Fault
    /\ Release("error")
    /\ UNCHANGED <<disk, forced, abandoned, crashes>>

RollForwardFault ==
    /\ \/ pc = "roll_forward" /\ \E f \in todo : Torn(f, journal)
       \/ pc = "point_forward" /\ Torn(Pointer, journal)
    /\ Fault
    /\ Release("error")
    /\ UNCHANGED <<gens, genStaging, txn, journal, backup, forced, abandoned, crashes>>

(* Before the rename the staging is removed, if that works; after it only the
   flush of the parent can fail and the generation stays, unpublished. *)
GenerationFault ==
    /\ pc \in {"generate", "commit_gen"}
    /\ Fault
    /\ \/ /\ genStaging' \in {genStaging, genStaging \ {gen}}
          /\ UNCHANGED <<gens, abandoned>>
       \/ /\ pc = "commit_gen"
          /\ genStaging' = genStaging \ {gen}
          /\ gens' = gens \cup {gen}
          /\ abandoned' = abandoned \cup {gen}
    /\ Release("error")
    /\ UNCHANGED <<public, txn, journal, backup, forced, crashes>>

(* The staging is removed, or left behind for the next cleanup. *)
StagingFault ==
    /\ pc \in {"stage_txn", "commit_txn"}
    /\ Fault
    /\ \/ txn' = "none" /\ journal' = None /\ backup' = Hidden
       \/ pc = "commit_txn" /\ UNCHANGED <<txn, journal, backup>>
    /\ Release("error")
    /\ abandoned' = abandoned \cup {gen}
    /\ UNCHANGED <<public, gens, genStaging, forced, crashes>>

(* Renamed, then the flush or reading the journal back fails: no rollback. *)
CommitTransactionFault ==
    /\ pc = "commit_txn"
    /\ Fault
    /\ txn' = "live"
    /\ Release("error")
    /\ UNCHANGED <<public, gens, genStaging, journal, backup, forced, abandoned, crashes>>

Undo(files) == pc' = "rollback" /\ todo' = files /\ UNCHANGED <<over, gen, saved>>

(* Defect: stable files count as changed only once all of them are. *)
PublicationFaultForgets ==
    /\ \/ pc = "clear" /\ Torn(Pointer, None) /\ Undo({})
       \/ pc = "project" /\ (\E f \in todo : Torn(f, gen)) /\ Undo({})
       \/ pc = "point" /\ Torn(Pointer, gen) /\ Undo({})
    /\ Fault
    /\ UNCHANGED <<gens, genStaging, txn, journal, backup, history, crashes>>

(* Any failure from the first change of a public file on starts a rollback. *)
PublicationFault ==
    /\ \/ pc = "clear" /\ public' = public /\ Undo({})
       \/ pc = "clear" /\ Torn(Pointer, None) /\ Undo(PlanOf[gen])
       \/ pc = "project" /\ (\E f \in todo : Torn(f, gen)) /\ Undo(PlanOf[gen])
       \/ pc = "point" /\ Torn(Pointer, gen) /\ Undo(PlanOf[gen])
       \/ pc \in {"project", "mark", "retire", "finish"} /\ public' = public /\ Undo(PlanOf[gen])
    /\ Fault
    /\ UNCHANGED <<gens, genStaging, txn, journal, backup, history, crashes>>

(* The lock file is checked once more on the way out, after the last rollback. *)
ExitFault ==
    /\ pc = "finish"
    /\ Fault
    /\ Release("error")
    /\ UNCHANGED <<disk, forced, abandoned, crashes>>

RollbackFault ==
    /\ \/ pc = "rollback" /\ \E f \in todo : Restorable(f) /\ Torn(f, Restored(f))
       \/ pc = "rollback" /\ todo = {} /\ Restorable(Pointer) /\ Torn(Pointer, Restored(Pointer))
       \/ pc = "discard" /\ public' = public
    /\ Fault
    /\ Release("rollback_failed")
    /\ UNCHANGED <<gens, genStaging, txn, journal, backup, forced, abandoned, crashes>>

(* A hard exit, or an exception such as KeyboardInterrupt that no handler
   rolls back for: the disk stays as it is and the kernel frees the lock. *)
Crash ==
    /\ pc # "idle"
    /\ crashes < MaxCrashes
    /\ crashes' = crashes + 1
    /\ Release("crashed")
    /\ UNCHANGED <<disk, forced, abandoned, late, faults>>

(***************************************************************************)
(* Another program puts a file where a stable file would go: the lock keeps*)
(* other writers of this package out of the output root, nobody else.      *)
(***************************************************************************)
OtherProgram(f) ==
    /\ public[f] = None
    /\ Put(f, Foreign)
    /\ late' = late \cup {f}
    /\ UNCHANGED <<gens, genStaging, txn, journal, backup, writer, history, crashes, faults>>

-----------------------------------------------------------------------------
(* Steps the lock holder takes by itself; nothing in them waits. *)

Recover ==
    \/ SkipRecovery
    \/ RefuseRecovery
    \/ StartRollForward
    \/ \E f \in Files : RollForwardFile(f)
    \/ RollForwardPointer
    \/ CleanupStaging

Prepare ==
    \/ Collide
    \/ PassCollisionCheck
    \/ StageGeneration
    \/ CommitGeneration
    \/ StageTransaction
    \/ CommitTransaction

Publish ==
    \/ ClearPointer
    \/ \E f \in Files : PublishFile(f)
    \/ MarkProjected
    \/ PublishPointer
    \/ MarkPointed
    \/ Finish

RemoveTree ==
    \/ \E t \in Targets : UnlinkBackup(t)
    \/ UnlinkJournal
    \/ RemoveDirectory

RollBack ==
    \/ \E f \in Files : RestoreFile(f)
    \/ RestorePointer
    \/ MissingBackup
    \/ DiscardTransaction
    \/ NothingToDiscard

Failure ==
    \/ SetupFault
    \/ RollForwardFault
    \/ GenerationFault
    \/ StagingFault
    \/ CommitTransactionFault
    \/ PublicationFault
    \/ ExitFault
    \/ RollbackFault

Begin == \E g \in Gens, overwrite \in BOOLEAN : BeginWrite(g, overwrite)
Others == \E f \in Files : OtherProgram(f)

(* A publication, with process deaths and nothing else going wrong. *)
CrashNext == Begin \/ Recover \/ Prepare \/ Publish \/ RemoveTree \/ Crash \/ Others

(* The same with failing operations and the rollbacks they cause. *)
Progress == Recover \/ Prepare \/ Publish \/ RemoveTree \/ RollBack
Next == Begin \/ Progress \/ Failure \/ Crash \/ Others

CrashSpec == Init /\ [][CrashNext]_vars
Spec == Init /\ [][Next]_vars

(***************************************************************************)
(* The body of write_result is straight-line code around a non-blocking    *)
(* lock: a write that was started and does not die keeps stepping.  Nothing*)
(* obliges anybody to start another write.                                 *)
(***************************************************************************)
FairSpec == Spec /\ WF_vars(Progress)

-----------------------------------------------------------------------------
(***************************************************************************)
(* Type and shape of the state.  A journal and its copies exist only in a  *)
(* transaction directory, which is what makes removing the directory the   *)
(* end of a transaction.                                                   *)
(***************************************************************************)
TypeOK ==
    /\ public \in [Targets -> Content]
    /\ gens \in SUBSET Gens
    /\ genStaging \in SUBSET Gens
    /\ txn \in {"none", "staging", "live"}
    /\ journal \in Gens \cup {None}
    /\ backup \in [Targets -> Content]
    /\ pc \in PCs
    /\ over \in BOOLEAN
    /\ gen \in Gens \cup {None}
    /\ todo \in SUBSET Files
    /\ saved \in SUBSET Targets
    /\ outcome \in Outcomes
    /\ before \in [Targets -> Content]
    /\ forced \in SUBSET Gens
    /\ abandoned \in SUBSET Gens
    /\ late \in SUBSET Files
    /\ crashes \in 0..MaxCrashes
    /\ faults \in 0..MaxFaults
    /\ txn = "none" => journal = None /\ backup = Hidden
    /\ pc # "idle" => gen \in Gens

(* The stable files active.json vouches for are those of its generation. *)
Consistent == active \in Gens => \A f \in PlanOf[active] : public[f] = active

(***************************************************************************)
(* With process deaths alone: whenever active.json vouches for stable files*)
(* that are not its generation's, a journal on disk names a committed      *)
(* generation to repair them from.  This is what clearing active.json, the *)
(* order of the writes and removing the transaction last are for.          *)
(***************************************************************************)
Repairable == Consistent \/ (txn = "live" /\ journal \in gens)

(***************************************************************************)
(* Whatever fails: every reference that outlives a process - active.json,  *)
(* the stable files, a live journal and the copies a rollback would put    *)
(* back - names a generation whose directory was completely written.       *)
(***************************************************************************)
OnlyCommittedReferences ==
    /\ \A t \in Targets : public[t] \in Gens => public[t] \in gens
    /\ \A t \in Targets : backup[t] \in Gens => backup[t] \in gens
    /\ txn = "live" /\ journal # None => journal \in gens

(***************************************************************************)
(* A write that failed before its journal went live, or that was rolled    *)
(* back and its journal removed, stays unpublished for good: no recovery   *)
(* and no later rollback brings its generation back.                       *)
(***************************************************************************)
AbandonedStaysHidden ==
    /\ \A t \in Targets : public[t] \notin abandoned /\ backup[t] \notin abandoned
    /\ txn = "live" => journal \notin abandoned

(* A write returns normally only when its generation is what everybody sees
   and no transaction is left that a later write would have to repair. *)
SuccessIsPublished ==
    [][pc # "idle" /\ outcome' = "ok" =>
         /\ public'[Pointer] = gen
         /\ \A f \in PlanOf[gen] : public'[f] = gen
         /\ txn' = "none"]_vars

(***************************************************************************)
(* A rollback that reports no error of its own has undone everything this  *)
(* write did: active.json and the stable files are what they were when it  *)
(* passed the collision check, but for files another program created since.*)
(***************************************************************************)
Appeared(t) == t \in late /\ before[t] = None /\ public[t] = Foreign

RollbackRestores ==
    [][pc # "idle" /\ outcome' = "rolled_back" =>
         /\ public' = public
         /\ \A t \in Targets : public[t] = before[t] \/ Appeared(t)]_vars

(***************************************************************************)
(* A stable file the package did not write gives way only to a generation  *)
(* whose own writer asked to overwrite, also when another writer repairs.  *)
(* The one gap is the time after that writer's collision check: a file that*)
(* appears then is replaced, or removed by the rollback, without a question*)
(* - by the publication or by a recovery that runs much later.             *)
(***************************************************************************)
ForeignFilesKept ==
    [][\A f \in Files : public[f] = Foreign /\ public'[f] # Foreign
                            => public'[f] \in forced \/ f \in late]_vars

(***************************************************************************)
(* docs/migration.md:40: the command refuses collisions unless --overwrite *)
(* is explicit.  Read of every file in the way of a publication, whenever  *)
(* it came there: nothing of another program is replaced unasked.          *)
(***************************************************************************)
NothingReplacedUnasked ==
    [][\A f \in Files : public[f] = Foreign => public'[f] \in {Foreign} \cup forced]_vars

(***************************************************************************)
(* The comment at artifacts.py:527-529: active.json is removed first so a  *)
(* hard exit cannot expose a projection from one generation under another  *)
(* generation's marker.  Read between writes, when no lock is held.        *)
(***************************************************************************)
NoMarkerOverOtherProjection == pc = "idle" => Consistent

(***************************************************************************)
(* docs/guides/results.md:168: after an unclean shutdown the next writer   *)
(* repairs the projection and the pointer: recovery never turns it away.   *)
(***************************************************************************)
NextWriterRepairs == outcome # "refused"

(* A write that got the lock ends and gives the lock back, whatever fails. *)
WriteEnds == pc # "idle" ~> pc = "idle"

(***************************************************************************)
(* A writer that meets an intact journal and neither dies nor fails makes  *)
(* the journaled generation the published one and removes the transaction. *)
(***************************************************************************)
RecoveryRepairs ==
    \A g \in Gens :
        pc = "recover" /\ txn = "live" /\ journal = g /\ Recoverable(g)
          ~> \/ active = g /\ Consistent /\ txn = "none"
             \/ outcome \in {"error", "crashed"}

=============================================================================
