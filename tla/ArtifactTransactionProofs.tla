---------------------- MODULE ArtifactTransactionProofs ----------------------
(***************************************************************************)
(* Theorems about ArtifactTransaction for every set of generations and     *)
(* stable files, every choice of plans and every bound.                    *)
(***************************************************************************)
EXTENDS ArtifactRefinement, TLAPS

(* The definitions that say only what values there are. *)
USE DEF Targets, Content, Hidden, PCs, Recovering, Preparing, Publishing, Undoing,
        Outcomes

-----------------------------------------------------------------------------
(* Type correctness. *)

LEMMA InitTypeOK ==
    ASSUME Init
    PROVE  TypeOK
<1>1. public \in [Targets -> Content] /\ backup \in [Targets -> Content]
      /\ before \in [Targets -> Content]
  BY DEF Init
<1>2. crashes \in 0..MaxCrashes /\ faults \in 0..MaxFaults
  BY ConstantsAssumption DEF ConstantsAssumption, Init
<1> QED
  BY <1>1, <1>2 DEF Init, TypeOK

LEMMA FaultType ==
    ASSUME TypeOK, Fault
    PROVE  faults' \in 0..MaxFaults /\ late' = late
BY ConstantsAssumption DEF ConstantsAssumption, TypeOK, Fault

LEMMA RecoverType ==
    ASSUME TypeOK, Recover
    PROVE  TypeOK'
<1> USE ConstantsAssumption DEF ConstantsAssumption
<1>1. CASE SkipRecovery
  BY <1>1 DEF TypeOK, SkipRecovery, Goto, disk, history, outside
<1>2. CASE RefuseRecovery
  BY <1>2 DEF TypeOK, RefuseRecovery, Release, disk, outside
<1>3. CASE StartRollForward
  BY <1>3 DEF TypeOK, StartRollForward, disk, history, outside
<1>4. ASSUME NEW f \in Files, RollForwardFile(f)
      PROVE  TypeOK'
  BY <1>4 DEF TypeOK, RollForwardFile, Put, history, outside
<1>5. CASE RollForwardPointer
  BY <1>5 DEF TypeOK, RollForwardPointer, Put, Goto, history, outside
<1>6. CASE CleanupStaging
  BY <1>6 DEF TypeOK, CleanupStaging, Goto, history, outside
<1> QED
  BY <1>1, <1>2, <1>3, <1>4, <1>5, <1>6 DEF Recover

LEMMA PrepareType ==
    ASSUME TypeOK, Prepare
    PROVE  TypeOK'
<1> USE ConstantsAssumption DEF ConstantsAssumption
<1>1. CASE Collide
  BY <1>1 DEF TypeOK, Collide, Release, Touched, Occupied, disk, outside
<1>2. CASE PassCollisionCheck
  BY <1>2 DEF TypeOK, PassCollisionCheck, Goto, Touched, Occupied, disk, outside
<1>3. CASE StageGeneration
  BY <1>3 DEF TypeOK, StageGeneration, Goto, history, outside
<1>4. CASE CommitGeneration
  BY <1>4 DEF TypeOK, CommitGeneration, Goto, outside
<1>5. CASE StageTransaction
  BY <1>5 DEF TypeOK, StageTransaction, Touched, history, outside
<1>6. CASE CommitTransaction
  BY <1>6 DEF TypeOK, CommitTransaction, Goto, history, outside
<1> QED
  BY <1>1, <1>2, <1>3, <1>4, <1>5, <1>6 DEF Prepare

LEMMA PublishType ==
    ASSUME TypeOK, Publish
    PROVE  TypeOK'
<1> USE ConstantsAssumption DEF ConstantsAssumption
<1>1. CASE ClearPointer
  BY <1>1 DEF TypeOK, ClearPointer, Put, history, outside
<1>2. ASSUME NEW f \in Files, PublishFile(f)
      PROVE  TypeOK'
  BY <1>2 DEF TypeOK, PublishFile, Put, history, outside
<1>3. CASE MarkProjected
  BY <1>3 DEF TypeOK, MarkProjected, Goto, disk, history, outside
<1>4. CASE PublishPointer
  BY <1>4 DEF TypeOK, PublishPointer, Put, Goto, history, outside
<1>5. CASE MarkPointed
  BY <1>5 DEF TypeOK, MarkPointed, Goto, disk, history, outside
<1>6. CASE Finish
  BY <1>6 DEF TypeOK, Finish, Release, disk, outside
<1> QED
  BY <1>1, <1>2, <1>3, <1>4, <1>5, <1>6 DEF Publish

LEMMA RemoveTreeType ==
    ASSUME TypeOK, RemoveTree
    PROVE  TypeOK'
<1> USE ConstantsAssumption DEF ConstantsAssumption
<1>1. ASSUME NEW t \in Targets, UnlinkBackup(t)
      PROVE  TypeOK'
  BY <1>1 DEF TypeOK, UnlinkBackup, Removing, writer, history, outside
<1>2. CASE UnlinkJournal
  BY <1>2 DEF TypeOK, UnlinkJournal, Removing, writer, history, outside
<1>3. CASE RemoveDirectory
  BY <1>3 DEF TypeOK, RemoveDirectory, Goto, history, outside
<1> QED
  BY <1>1, <1>2, <1>3 DEF RemoveTree

LEMMA RollBackType ==
    ASSUME TypeOK, RollBack
    PROVE  TypeOK'
<1> USE ConstantsAssumption DEF ConstantsAssumption
<1>1. ASSUME NEW f \in Files, RestoreFile(f)
      PROVE  TypeOK'
  BY <1>1 DEF TypeOK, RestoreFile, Put, Restored, Restorable, history, outside
<1>2. CASE RestorePointer
  BY <1>2 DEF TypeOK, RestorePointer, Put, Goto, Restored, Restorable, history, outside
<1>3. CASE MissingBackup
  BY <1>3 DEF TypeOK, MissingBackup, Release, Restorable, disk, outside
<1>4. CASE DiscardTransaction
  BY <1>4 DEF TypeOK, DiscardTransaction, Release, outside
<1>5. CASE NothingToDiscard
  BY <1>5 DEF TypeOK, NothingToDiscard, Release, disk, outside
<1> QED
  BY <1>1, <1>2, <1>3, <1>4, <1>5 DEF RollBack

LEMMA FailureType ==
    ASSUME TypeOK, Failure
    PROVE  TypeOK'
<1> USE ConstantsAssumption DEF ConstantsAssumption
<1>0. faults' \in 0..MaxFaults /\ late' = late
  BY FaultType DEF Failure, SetupFault, RollForwardFault, GenerationFault, StagingFault, CommitTransactionFault, PublicationFault, ExitFault, RollbackFault
<1>1. CASE SetupFault
  BY <1>0, <1>1 DEF TypeOK, SetupFault, Release, disk
<1>2. CASE RollForwardFault
  <2>1. PICK t \in Targets : Torn(t, journal)
    BY <1>2 DEF TypeOK, RollForwardFault
  <2>2. public' \in [Targets -> Content]
    BY <2>1 DEF TypeOK, Put, Torn
  <2> QED
    BY <1>0, <1>2, <2>2 DEF TypeOK, RollForwardFault, Release
<1>3. CASE GenerationFault
  BY <1>0, <1>3 DEF TypeOK, GenerationFault, Release
<1>4. CASE StagingFault
  BY <1>0, <1>4 DEF TypeOK, StagingFault, Release
<1>5. CASE CommitTransactionFault
  BY <1>0, <1>5 DEF TypeOK, CommitTransactionFault, Release
<1>6. CASE PublicationFault
  BY <1>0, <1>6 DEF TypeOK, PublicationFault, Put, Torn, Undo, history
<1>7. CASE ExitFault
  BY <1>0, <1>7 DEF TypeOK, ExitFault, Release, disk
<1>8. CASE RollbackFault
  BY <1>0, <1>8 DEF TypeOK, RollbackFault, Put, Torn, Release, Restored, Restorable
<1> QED
  BY <1>1, <1>2, <1>3, <1>4, <1>5, <1>6, <1>7, <1>8 DEF Failure

LEMMA BeginType ==
    ASSUME TypeOK, Begin
    PROVE  TypeOK'
BY DEF TypeOK, Begin, BeginWrite, disk, outside

LEMMA CrashType ==
    ASSUME TypeOK, Crash
    PROVE  TypeOK'
<1>1. crashes' \in 0..MaxCrashes
  BY ConstantsAssumption DEF ConstantsAssumption, TypeOK, Crash
<1> QED
  BY <1>1 DEF TypeOK, Crash, Release, disk

LEMMA OthersType ==
    ASSUME TypeOK, Others
    PROVE  TypeOK'
<1> USE ConstantsAssumption DEF ConstantsAssumption
<1>1. PICK f \in Files : OtherProgram(f)
  BY DEF Others
<1> QED
  BY <1>1 DEF TypeOK, OtherProgram, Put, writer, history

LEMMA StutterType ==
    ASSUME TypeOK, UNCHANGED vars
    PROVE  TypeOK'
BY DEF TypeOK, vars, disk, writer, history, outside

(* Every reachable state is well typed, and journals and their copies live
   only in transaction directories. *)
THEOREM TypeCorrect == Spec => []TypeOK
<1>1. TypeOK /\ [Next]_vars => TypeOK'
  BY BeginType, RecoverType, PrepareType, PublishType, RemoveTreeType, RollBackType,
     FailureType, CrashType, OthersType, StutterType
  DEF Next, Progress
<1> QED
  BY <1>1, InitTypeOK, PTL DEF Spec

-----------------------------------------------------------------------------
(***************************************************************************)
(* References to committed generations, whatever fails.  The invariant adds*)
(* where the generation about to be written into a file or a pointer comes *)
(* from: the writer's own generation once it is committed, or the journal  *)
(* recovery has accepted.                                                  *)
(***************************************************************************)
ReferenceInv ==
    /\ TypeOK
    /\ OnlyCommittedReferences
    /\ pc \in {"stage_txn", "commit_txn"} \cup Publishing \cup Undoing => gen \in gens
    /\ pc \in {"roll_forward", "point_forward"} => journal \in gens
    /\ pc = "commit_txn" => journal = gen

LEMMA InitReference ==
    ASSUME Init
    PROVE  ReferenceInv
BY InitTypeOK, ConstantsAssumption
   DEF ConstantsAssumption, Init, ReferenceInv, OnlyCommittedReferences

LEMMA RecoverReference ==
    ASSUME ReferenceInv, Recover
    PROVE  ReferenceInv'
<1> USE ConstantsAssumption DEF ConstantsAssumption, ReferenceInv
<1>0. TypeOK'
  BY RecoverType
<1> USE <1>0 DEF TypeOK
<1>1. CASE SkipRecovery
  BY <1>1 DEF OnlyCommittedReferences, SkipRecovery, Goto, disk, history, outside
<1>2. CASE RefuseRecovery
  BY <1>2 DEF OnlyCommittedReferences, RefuseRecovery, Release, Recoverable, disk, outside
<1>3. CASE StartRollForward
  BY <1>3 DEF OnlyCommittedReferences, StartRollForward, Recoverable, disk, history, outside
<1>4. ASSUME NEW f \in Files, RollForwardFile(f)
      PROVE  ReferenceInv'
  BY <1>4 DEF OnlyCommittedReferences, RollForwardFile, Put, history, outside
<1>5. CASE RollForwardPointer
  BY <1>5 DEF OnlyCommittedReferences, RollForwardPointer, Put, Goto, history, outside
<1>6. CASE CleanupStaging
  BY <1>6 DEF OnlyCommittedReferences, CleanupStaging, Goto, history, outside
<1> QED
  BY <1>1, <1>2, <1>3, <1>4, <1>5, <1>6 DEF Recover

LEMMA PrepareReference ==
    ASSUME ReferenceInv, Prepare
    PROVE  ReferenceInv'
<1> USE ConstantsAssumption DEF ConstantsAssumption, ReferenceInv
<1>0. TypeOK'
  BY PrepareType
<1> USE <1>0 DEF TypeOK
<1>1. CASE Collide
  BY <1>1 DEF OnlyCommittedReferences, Collide, Release, Touched, Occupied, disk, outside
<1>2. CASE PassCollisionCheck
  BY <1>2 DEF OnlyCommittedReferences, PassCollisionCheck, Goto, Touched, Occupied, disk,
         outside
<1>3. CASE StageGeneration
  BY <1>3 DEF OnlyCommittedReferences, StageGeneration, Goto, history, outside
<1>4. CASE CommitGeneration
  BY <1>4 DEF OnlyCommittedReferences, CommitGeneration, Goto, outside
<1>5. CASE StageTransaction
  BY <1>5 DEF OnlyCommittedReferences, StageTransaction, Touched, history, outside
<1>6. CASE CommitTransaction
  BY <1>6 DEF OnlyCommittedReferences, CommitTransaction, Goto, history, outside
<1> QED
  BY <1>1, <1>2, <1>3, <1>4, <1>5, <1>6 DEF Prepare

LEMMA PublishReference ==
    ASSUME ReferenceInv, Publish
    PROVE  ReferenceInv'
<1> USE ConstantsAssumption DEF ConstantsAssumption, ReferenceInv
<1>0. TypeOK'
  BY PublishType
<1> USE <1>0 DEF TypeOK
<1>1. CASE ClearPointer
  BY <1>1 DEF OnlyCommittedReferences, ClearPointer, Put, history, outside
<1>2. ASSUME NEW f \in Files, PublishFile(f)
      PROVE  ReferenceInv'
  BY <1>2 DEF OnlyCommittedReferences, PublishFile, Put, history, outside
<1>3. CASE MarkProjected
  BY <1>3 DEF OnlyCommittedReferences, MarkProjected, Goto, disk, history, outside
<1>4. CASE PublishPointer
  BY <1>4 DEF OnlyCommittedReferences, PublishPointer, Put, Goto, history, outside
<1>5. CASE MarkPointed
  BY <1>5 DEF OnlyCommittedReferences, MarkPointed, Goto, disk, history, outside
<1>6. CASE Finish
  BY <1>6 DEF OnlyCommittedReferences, Finish, Release, disk, outside
<1> QED
  BY <1>1, <1>2, <1>3, <1>4, <1>5, <1>6 DEF Publish

LEMMA RemoveTreeReference ==
    ASSUME ReferenceInv, RemoveTree
    PROVE  ReferenceInv'
<1> USE ConstantsAssumption DEF ConstantsAssumption, ReferenceInv
<1>0. TypeOK'
  BY RemoveTreeType
<1> USE <1>0 DEF TypeOK
<1>1. ASSUME NEW t \in Targets, UnlinkBackup(t)
      PROVE  ReferenceInv'
  BY <1>1 DEF OnlyCommittedReferences, UnlinkBackup, Removing, writer, history, outside
<1>2. CASE UnlinkJournal
  BY <1>2 DEF OnlyCommittedReferences, UnlinkJournal, Removing, writer, history, outside
<1>3. CASE RemoveDirectory
  BY <1>3 DEF OnlyCommittedReferences, RemoveDirectory, Goto, history, outside
<1> QED
  BY <1>1, <1>2, <1>3 DEF RemoveTree

LEMMA RollBackReference ==
    ASSUME ReferenceInv, RollBack
    PROVE  ReferenceInv'
<1> USE ConstantsAssumption DEF ConstantsAssumption, ReferenceInv
<1>0. TypeOK'
  BY RollBackType
<1> USE <1>0 DEF TypeOK
<1>1. ASSUME NEW f \in Files, RestoreFile(f)
      PROVE  ReferenceInv'
  BY <1>1 DEF OnlyCommittedReferences, RestoreFile, Put, Restored, Restorable, history,
         outside
<1>2. CASE RestorePointer
  BY <1>2 DEF OnlyCommittedReferences, RestorePointer, Put, Goto, Restored, Restorable,
         history, outside
<1>3. CASE MissingBackup
  BY <1>3 DEF OnlyCommittedReferences, MissingBackup, Release, Restorable, disk, outside
<1>4. CASE DiscardTransaction
  BY <1>4 DEF OnlyCommittedReferences, DiscardTransaction, Release, outside
<1>5. CASE NothingToDiscard
  BY <1>5 DEF OnlyCommittedReferences, NothingToDiscard, Release, disk, outside
<1> QED
  BY <1>1, <1>2, <1>3, <1>4, <1>5 DEF RollBack

LEMMA FailureReference ==
    ASSUME ReferenceInv, Failure
    PROVE  ReferenceInv'
<1> USE ConstantsAssumption DEF ConstantsAssumption, ReferenceInv
<1>0. TypeOK'
  BY FailureType
<1> USE <1>0 DEF TypeOK
<1>1. CASE SetupFault
  BY <1>1 DEF OnlyCommittedReferences, SetupFault, Release, disk
<1>2. CASE RollForwardFault
  BY <1>2 DEF OnlyCommittedReferences, RollForwardFault, Put, Torn, Release
<1>3. CASE GenerationFault
  BY <1>3 DEF OnlyCommittedReferences, GenerationFault, Release
<1>4. CASE StagingFault
  BY <1>4 DEF OnlyCommittedReferences, StagingFault, Release
<1>5. CASE CommitTransactionFault
  BY <1>5 DEF OnlyCommittedReferences, CommitTransactionFault, Release
<1>6. CASE PublicationFault
  BY <1>6 DEF OnlyCommittedReferences, PublicationFault, Put, Torn, Undo, history
<1>7. CASE ExitFault
  BY <1>7 DEF OnlyCommittedReferences, ExitFault, Release, disk
<1>8. CASE RollbackFault
  BY <1>8 DEF OnlyCommittedReferences, RollbackFault, Put, Torn, Release, Restored,
         Restorable
<1> QED
  BY <1>1, <1>2, <1>3, <1>4, <1>5, <1>6, <1>7, <1>8 DEF Failure

LEMMA OutsideReference ==
    ASSUME ReferenceInv, Begin \/ Crash \/ UNCHANGED vars
    PROVE  ReferenceInv'
<1>1. TypeOK'
  BY BeginType, CrashType, StutterType DEF ReferenceInv
<1> QED
  BY <1>1 DEF ReferenceInv, OnlyCommittedReferences, Begin, BeginWrite, Crash, Release,
              vars, disk, writer

LEMMA OthersReference ==
    ASSUME ReferenceInv, Others
    PROVE  ReferenceInv'
<1> USE ConstantsAssumption DEF ConstantsAssumption, ReferenceInv
<1>0. TypeOK'
  BY OthersType
<1>1. PICK f \in Files : OtherProgram(f)
  BY DEF Others
<1> QED
  BY <1>0, <1>1 DEF TypeOK, OnlyCommittedReferences, OtherProgram, Put, writer, history

(* Whatever operations fail and wherever processes die, nothing on disk refers
   to a generation that was not completely written. *)
THEOREM ReferencesCommitted == Spec => []OnlyCommittedReferences
<1>1. ReferenceInv /\ [Next]_vars => ReferenceInv'
  BY RecoverReference, PrepareReference, PublishReference, RemoveTreeReference,
     RollBackReference, FailureReference, OthersReference, OutsideReference
  DEF Next, Progress
<1>2. ReferenceInv => OnlyCommittedReferences
  BY DEF ReferenceInv
<1> QED
  BY <1>1, <1>2, InitReference, PTL DEF Spec

-----------------------------------------------------------------------------
(***************************************************************************)
(* Process deaths alone.  The invariant follows a publication through its  *)
(* steps: which directory there is, which files are written and where      *)
(* active.json stands.  Repairable alone is not inductive: removing the    *)
(* transaction is safe only because pointer and files are in place by then.*)
(***************************************************************************)
Written(g, files) == \A f \in files : public[f] = g

DirectoryInv ==
    /\ pc \in {"check", "generate", "commit_gen", "stage_txn", "finish"} => txn = "none"
    /\ pc = "cleanup" => txn # "live"
    /\ pc = "commit_txn" => txn = "staging"
    /\ pc \in {"roll_forward", "point_forward"} => txn = "live"
    /\ pc \in {"clear", "project", "point", "mark"} => txn = "live" /\ journal = gen
    /\ pc \in {"sweep", "retire"} => txn = "live"
    /\ pc = "retire" => journal \in {gen, None}

FilesInv ==
    /\ pc = "roll_forward" =>
           todo \subseteq PlanOf[journal] /\ Written(journal, PlanOf[journal] \ todo)
    /\ pc = "point_forward" => Written(journal, PlanOf[journal])
    /\ pc = "project" =>
           todo \subseteq PlanOf[gen] /\ Written(gen, PlanOf[gen] \ todo)
    /\ pc \in {"point", "mark", "retire", "finish"} => Written(gen, PlanOf[gen])

PointerInv ==
    /\ pc \in {"project", "point"} => active = None
    /\ pc \in {"mark", "retire", "finish"} => active = gen
    /\ pc = "sweep" => Consistent /\ (journal # None => active = journal)

CrashInv ==
    /\ ReferenceInv
    /\ pc \notin Undoing
    /\ DirectoryInv
    /\ FilesInv
    /\ PointerInv
    /\ Repairable

LEMMA InitCrash ==
    ASSUME Init
    PROVE  CrashInv
BY InitReference, ConstantsAssumption
   DEF ConstantsAssumption, Init, CrashInv, DirectoryInv, FilesInv, PointerInv,
       Repairable, Consistent, active

LEMMA RecoverCrash ==
    ASSUME CrashInv, Recover
    PROVE  CrashInv'
<1> USE ConstantsAssumption DEF ConstantsAssumption, CrashInv
<1>0. ReferenceInv'
  BY RecoverReference
<1> USE <1>0 DEF ReferenceInv, TypeOK, OnlyCommittedReferences, DirectoryInv, FilesInv,
            PointerInv, Written, Repairable, Consistent, active
<1>1. CASE SkipRecovery
  BY <1>1 DEF SkipRecovery, Goto, disk, history, outside
<1>2. CASE RefuseRecovery
  BY <1>2 DEF RefuseRecovery, Release, Recoverable, disk, outside
<1>3. CASE StartRollForward
  BY <1>3 DEF StartRollForward, Recoverable, disk, history, outside
<1>4. ASSUME NEW f \in Files, RollForwardFile(f)
      PROVE  CrashInv'
  BY <1>4 DEF RollForwardFile, Put, history, outside
<1>5. CASE RollForwardPointer
  BY <1>5 DEF RollForwardPointer, Put, Goto, history, outside
<1>6. CASE CleanupStaging
  BY <1>6 DEF CleanupStaging, Goto, history, outside
<1> QED
  BY <1>1, <1>2, <1>3, <1>4, <1>5, <1>6 DEF Recover

LEMMA PrepareCrash ==
    ASSUME CrashInv, Prepare
    PROVE  CrashInv'
<1> USE ConstantsAssumption DEF ConstantsAssumption, CrashInv
<1>0. ReferenceInv'
  BY PrepareReference
<1> USE <1>0 DEF ReferenceInv, TypeOK, OnlyCommittedReferences, DirectoryInv, FilesInv,
            PointerInv, Written, Repairable, Consistent, active
<1>1. CASE Collide
  BY <1>1 DEF Collide, Release, disk, outside
<1>2. CASE PassCollisionCheck
  BY <1>2 DEF PassCollisionCheck, Goto, disk, outside
<1>3. CASE StageGeneration
  BY <1>3 DEF StageGeneration, Goto, history, outside
<1>4. CASE CommitGeneration
  BY <1>4 DEF CommitGeneration, Goto, outside
<1>5. CASE StageTransaction
  BY <1>5 DEF StageTransaction, Touched, history, outside
<1>6. CASE CommitTransaction
  BY <1>6 DEF CommitTransaction, Goto, history, outside
<1> QED
  BY <1>1, <1>2, <1>3, <1>4, <1>5, <1>6 DEF Prepare

LEMMA PublishCrash ==
    ASSUME CrashInv, Publish
    PROVE  CrashInv'
<1> USE ConstantsAssumption DEF ConstantsAssumption, CrashInv
<1>0. ReferenceInv'
  BY PublishReference
<1> USE <1>0 DEF ReferenceInv, TypeOK, OnlyCommittedReferences, DirectoryInv, FilesInv,
            PointerInv, Written, Repairable, Consistent, active
<1>1. CASE ClearPointer
  BY <1>1 DEF ClearPointer, Put, history, outside
<1>2. ASSUME NEW f \in Files, PublishFile(f)
      PROVE  CrashInv'
  BY <1>2 DEF PublishFile, Put, history, outside
<1>3. CASE MarkProjected
  BY <1>3 DEF MarkProjected, Goto, disk, history, outside
<1>4. CASE PublishPointer
  BY <1>4 DEF PublishPointer, Put, Goto, history, outside
<1>5. CASE MarkPointed
  BY <1>5 DEF MarkPointed, Goto, disk, history, outside
<1>6. CASE Finish
  BY <1>6 DEF Finish, Release, disk, outside
<1> QED
  BY <1>1, <1>2, <1>3, <1>4, <1>5, <1>6 DEF Publish

LEMMA RemoveTreeCrash ==
    ASSUME CrashInv, RemoveTree
    PROVE  CrashInv'
<1> USE ConstantsAssumption DEF ConstantsAssumption, CrashInv
<1>0. ReferenceInv'
  BY RemoveTreeReference
<1> USE <1>0 DEF ReferenceInv, TypeOK, OnlyCommittedReferences, DirectoryInv, FilesInv,
            PointerInv, Written, Repairable, Consistent, active
<1>1. ASSUME NEW t \in Targets, UnlinkBackup(t)
      PROVE  CrashInv'
  BY <1>1 DEF UnlinkBackup, Removing, writer, history, outside
<1>2. CASE UnlinkJournal
  BY <1>2 DEF UnlinkJournal, Removing, writer, history, outside
<1>3. CASE RemoveDirectory
  BY <1>3 DEF RemoveDirectory, Goto, history, outside
<1> QED
  BY <1>1, <1>2, <1>3 DEF RemoveTree

LEMMA OutsideCrash ==
    ASSUME CrashInv, Begin \/ Crash \/ UNCHANGED vars
    PROVE  CrashInv'
<1>1. ReferenceInv'
  BY OutsideReference DEF CrashInv
<1> QED
  BY <1>1 DEF CrashInv, DirectoryInv, FilesInv, PointerInv, Written, Repairable,
              Consistent, active, Begin, BeginWrite, Crash, Release, vars, disk, writer

LEMMA OthersCrash ==
    ASSUME CrashInv, Others
    PROVE  CrashInv'
<1> USE ConstantsAssumption DEF ConstantsAssumption, CrashInv
<1>0. ReferenceInv'
  BY OthersReference
<1>1. PICK f \in Files : OtherProgram(f)
  BY DEF Others
<1> QED
  BY <1>0, <1>1 DEF ReferenceInv, TypeOK, OnlyCommittedReferences, DirectoryInv, FilesInv,
            PointerInv, Written, Repairable, Consistent, active, OtherProgram, Put,
            writer, history

THEOREM CrashInvariant == CrashSpec => []CrashInv
<1>1. CrashInv /\ [CrashNext]_vars => CrashInv'
  BY RecoverCrash, PrepareCrash, PublishCrash, RemoveTreeCrash, OthersCrash, OutsideCrash
  DEF CrashNext
<1> QED
  BY <1>1, InitCrash, PTL DEF CrashSpec

(* Wherever processes die, stable files that disagree with active.json are
   repairable from a journaled, completely written generation. *)
THEOREM AlwaysRepairable == CrashSpec => []Repairable
BY CrashInvariant, PTL DEF CrashInv

-----------------------------------------------------------------------------
(***************************************************************************)
(* The refinement of AtomicPublication, step by step.                      *)
(***************************************************************************)
Same == UNCHANGED <<gens, Open, active, Stable>>

LEMMA InitPublishes ==
    ASSUME Init
    PROVE  Publication!Init
BY ConstantsAssumption
   DEF ConstantsAssumption, Init, Publication!Init, Open, Stable, active

LEMMA RecoverPublishes ==
    ASSUME CrashInv, Recover
    PROVE  [Publication!Next]_Publication!vars
<1> USE ConstantsAssumption DEF ConstantsAssumption, CrashInv, ReferenceInv, TypeOK,
        DirectoryInv, FilesInv, PointerInv, Written, Open, Stable, active
<1>1. ASSUME SkipRecovery PROVE Same
  BY <1>1 DEF SkipRecovery, Goto, disk, history, outside, Same
<1>2. ASSUME RefuseRecovery PROVE Same
  BY <1>2 DEF RefuseRecovery, Release, disk, outside, Same
<1>3. ASSUME StartRollForward PROVE Same
  BY <1>3 DEF StartRollForward, disk, history, outside, Same
<1>4. ASSUME NEW f \in Files, RollForwardFile(f)
      PROVE  Publication!Project(f)
  BY <1>4 DEF RollForwardFile, Put, history, outside, Publication!Project
<1>5. ASSUME RollForwardPointer PROVE Publication!Reveal
  BY <1>5 DEF RollForwardPointer, Put, Goto, history, outside, Publication!Reveal, Consistent
<1>6. ASSUME CleanupStaging PROVE Same
  BY <1>6 DEF CleanupStaging, Goto, history, outside, Same
<1> QED
  BY <1>1, <1>2, <1>3, <1>4, <1>5, <1>6
  DEF Recover, Publication!Next, Publication!vars, Same

LEMMA PreparePublishes ==
    ASSUME CrashInv, Prepare
    PROVE  [Publication!Next]_Publication!vars
<1> USE ConstantsAssumption DEF ConstantsAssumption, CrashInv, ReferenceInv, TypeOK,
        DirectoryInv, FilesInv, PointerInv, Written, Open, Stable, active
<1>1. ASSUME Collide PROVE Same
  BY <1>1 DEF Collide, Release, disk, outside, Same
<1>2. ASSUME PassCollisionCheck PROVE Same
  BY <1>2 DEF PassCollisionCheck, Goto, disk, outside, Same
<1>3. ASSUME StageGeneration PROVE Same
  BY <1>3 DEF StageGeneration, Goto, history, outside, Same
<1>4. ASSUME CommitGeneration PROVE gen \in Gens /\ Publication!Commit(gen)
  BY <1>4 DEF CommitGeneration, Goto, outside, Publication!Commit
<1>5. ASSUME StageTransaction PROVE Same
  BY <1>5 DEF StageTransaction, history, outside, Same
<1>6. ASSUME CommitTransaction PROVE gen \in Gens /\ Publication!Open(gen)
  BY <1>6 DEF CommitTransaction, Goto, history, outside, Publication!Open
<1> QED
  BY <1>1, <1>2, <1>3, <1>4, <1>5, <1>6
  DEF Prepare, Publication!Next, Publication!vars, Same

LEMMA PublishPublishes ==
    ASSUME CrashInv, Publish
    PROVE  [Publication!Next]_Publication!vars
<1> USE ConstantsAssumption DEF ConstantsAssumption, CrashInv, ReferenceInv, TypeOK,
        DirectoryInv, FilesInv, PointerInv, Written, Open, Stable, active
<1>1. ASSUME ClearPointer PROVE Publication!Hide
  BY <1>1 DEF ClearPointer, Put, history, outside, Publication!Hide
<1>2. ASSUME NEW f \in Files, PublishFile(f)
      PROVE  Publication!Project(f)
  BY <1>2 DEF PublishFile, Put, history, outside, Publication!Project
<1>3. ASSUME MarkProjected PROVE Same
  BY <1>3 DEF MarkProjected, Goto, disk, history, outside, Same
<1>4. ASSUME PublishPointer PROVE Publication!Reveal
  BY <1>4 DEF PublishPointer, Put, Goto, history, outside, Publication!Reveal, Consistent
<1>5. ASSUME MarkPointed PROVE Same
  BY <1>5 DEF MarkPointed, Goto, disk, history, outside, Same
<1>6. ASSUME Finish PROVE Same
  BY <1>6 DEF Finish, Release, disk, outside, Same
<1> QED
  BY <1>1, <1>2, <1>3, <1>4, <1>5, <1>6
  DEF Publish, Publication!Next, Publication!vars, Same

LEMMA RemoveTreePublishes ==
    ASSUME CrashInv, RemoveTree
    PROVE  [Publication!Next]_Publication!vars
<1> USE ConstantsAssumption DEF ConstantsAssumption, CrashInv, ReferenceInv, TypeOK,
        DirectoryInv, FilesInv, PointerInv, Written, Open, Stable, active
<1>1. ASSUME NEW t \in Targets, UnlinkBackup(t)
      PROVE  Same
  BY <1>1 DEF UnlinkBackup, Removing, writer, history, outside, Same
<1>2. ASSUME UnlinkJournal PROVE Publication!Close
  BY <1>2 DEF UnlinkJournal, Removing, writer, history, outside, Publication!Close,
         Consistent
<1>3. ASSUME RemoveDirectory PROVE Same
  BY <1>3 DEF RemoveDirectory, Goto, history, outside, Same
<1> QED
  BY <1>1, <1>2, <1>3
  DEF RemoveTree, Publication!Next, Publication!vars, Same

LEMMA OutsidePublishes ==
    ASSUME Begin \/ Crash \/ UNCHANGED vars
    PROVE  Same
BY DEF Begin, BeginWrite, Crash, disk, vars, Same, Open, Stable, active

LEMMA OthersPublishes ==
    ASSUME CrashInv, Others
    PROVE  [Publication!Next]_Publication!vars
<1> USE ConstantsAssumption DEF ConstantsAssumption, CrashInv, ReferenceInv, TypeOK
<1>1. PICK f \in Files : OtherProgram(f)
  BY DEF Others
<1>2. Publication!Intrude(f)
  BY <1>1 DEF OtherProgram, Put, Open, Stable, active, Publication!Intrude
<1> QED
  BY <1>2 DEF Publication!Next

(* The journaled transaction and its recovery implement the atomic publication,
   wherever processes die. *)
THEOREM Refinement == CrashSpec => PublishesAtomically
<1>1. CrashInv /\ [CrashNext]_vars => [Publication!Next]_Publication!vars
  <2> SUFFICES ASSUME CrashInv, [CrashNext]_vars
               PROVE  [Publication!Next]_Publication!vars
    OBVIOUS
  <2>1. CASE Begin \/ Crash \/ UNCHANGED vars
    BY <2>1, OutsidePublishes DEF Same, Publication!vars
  <2> QED
    BY <2>1, RecoverPublishes, PreparePublishes, PublishPublishes, RemoveTreePublishes,
       OthersPublishes
    DEF CrashNext
<1>2. CrashSpec => Publication!Init
  BY InitPublishes DEF CrashSpec
<1> QED
  BY <1>1, <1>2, CrashInvariant, PTL DEF CrashSpec, PublishesAtomically, Publication!Spec

-----------------------------------------------------------------------------
(***************************************************************************)
(* Failing operations and the rollbacks they cause.  What a write still    *)
(* guarantees rests on where public files stand between `before`, the state*)
(* it found, and its own generation, on the copies still being those of    *)
(* `before`, and on what the journal of another writer may overwrite.      *)
(***************************************************************************)
Committed == {"stage_txn", "commit_txn"} \cup Publishing \cup Undoing
Changing  == Publishing \cup Undoing

(* A write knows what it found, or what appeared since, and has leave for what it
   replaces. *)
Unchanged(t) == public[t] = before[t] \/ Appeared(t)

ConsentInv ==
    /\ pc \in {"generate", "commit_gen", "stage_txn", "commit_txn", "clear"} =>
           \A t \in Targets : Unchanged(t)
    /\ pc \in {"generate", "commit_gen"} \cup Committed =>
           over \/ \A t \in Touched(gen) : before[t] = None
    /\ pc \in Committed => (over => gen \in forced)

(* Until it ends, public files are as they were or of this write, and the
   copies that are left are of the state it found. *)
UndoInv ==
    /\ pc \in {"commit_txn"} \cup Changing =>
           /\ \A t \in Touched(gen) : before[t] # None => t \in saved
           /\ \A t \in saved : before[t] # None \/ t \in late
           /\ \A t \in Targets :
                  \/ backup[t] \in {before[t], None}
                  \/ before[t] = None /\ t \in late /\ backup[t] = Foreign
           /\ journal \in {gen, None}
    /\ pc \in Changing =>
           \A f \in Files : Unchanged(f) \/ (public[f] = gen /\ f \in PlanOf[gen])
    /\ pc = "rollback" =>
           todo \subseteq PlanOf[gen] /\ \A f \in Files \ todo : Unchanged(f)
    /\ pc = "discard" => \A t \in Targets : Unchanged(t)

(* The generations given up are committed, and nobody points to them. *)
AbandonedInv ==
    /\ abandoned \subseteq gens
    /\ AbandonedStaysHidden
    /\ \A t \in Targets : before[t] \notin abandoned
    /\ pc = "commit_gen" => gen \notin gens
    /\ pc \in Committed => gen \notin abandoned /\ \A t \in Targets : before[t] # gen

(* A journal replaces foreign files only where its writer asked to, or where they
   appeared after it had looked. *)
ForeignInv ==
    txn = "live" /\ journal # None =>
        \A f \in PlanOf[journal] :
            public[f] = Foreign => journal \in forced \/ f \in late

FaultInv ==
    /\ ReferenceInv
    /\ pc # "idle" => outcome = "running"
    /\ DirectoryInv
    /\ FilesInv
    /\ PointerInv
    /\ ConsentInv
    /\ UndoInv
    /\ AbandonedInv
    /\ ForeignInv

LEMMA InitFault ==
    ASSUME Init
    PROVE  FaultInv
BY InitReference, ConstantsAssumption
   DEF ConstantsAssumption, Init, FaultInv, DirectoryInv, FilesInv, PointerInv,
       ConsentInv, UndoInv, AbandonedInv, AbandonedStaysHidden, ForeignInv, Committed,
       Changing, Unchanged, Appeared

LEMMA RecoverFault ==
    ASSUME FaultInv, Recover
    PROVE  FaultInv'
<1> USE ConstantsAssumption DEF ConstantsAssumption, FaultInv
<1>0. ReferenceInv'
  BY RecoverReference
<1> USE <1>0 DEF ReferenceInv, TypeOK, OnlyCommittedReferences, DirectoryInv, FilesInv,
            PointerInv, Written, Consistent, active, Committed, Changing, ConsentInv,
            UndoInv, AbandonedInv, AbandonedStaysHidden, ForeignInv, Touched,
            Unchanged, Appeared
<1>1. CASE SkipRecovery
  BY <1>1 DEF SkipRecovery, Goto, disk, history, outside
<1>2. CASE RefuseRecovery
  BY <1>2 DEF RefuseRecovery, Release, disk, outside
<1>3. CASE StartRollForward
  BY <1>3 DEF StartRollForward, Recoverable, disk, history, outside
<1>4. ASSUME NEW f \in Files, RollForwardFile(f)
      PROVE  FaultInv'
  BY <1>4 DEF RollForwardFile, Put, history, outside
<1>5. CASE RollForwardPointer
  BY <1>5 DEF RollForwardPointer, Put, Goto, history, outside
<1>6. CASE CleanupStaging
  BY <1>6 DEF CleanupStaging, Goto, history, outside
<1> QED
  BY <1>1, <1>2, <1>3, <1>4, <1>5, <1>6 DEF Recover

LEMMA PrepareFault ==
    ASSUME FaultInv, Prepare
    PROVE  FaultInv'
<1> USE ConstantsAssumption DEF ConstantsAssumption, FaultInv
<1>0. ReferenceInv'
  BY PrepareReference
<1> USE <1>0 DEF ReferenceInv, TypeOK, OnlyCommittedReferences, DirectoryInv, FilesInv,
            PointerInv, Written, Consistent, active, Committed, Changing, ConsentInv,
            UndoInv, AbandonedInv, AbandonedStaysHidden, ForeignInv, Touched,
            Unchanged, Appeared
<1>1. CASE Collide
  BY <1>1 DEF Collide, Release, disk, outside
<1>2. CASE PassCollisionCheck
  BY <1>2 DEF PassCollisionCheck, Goto, Touched, Occupied, disk, outside
<1>3. CASE StageGeneration
  BY <1>3 DEF StageGeneration, Goto, history, outside
<1>4. CASE CommitGeneration
  BY <1>4 DEF CommitGeneration, Goto, outside
<1>5. CASE StageTransaction
  BY <1>5 DEF StageTransaction, Touched, history, outside
<1>6. CASE CommitTransaction
  BY <1>6 DEF CommitTransaction, Goto, history, outside
<1> QED
  BY <1>1, <1>2, <1>3, <1>4, <1>5, <1>6 DEF Prepare

LEMMA PublishFault ==
    ASSUME FaultInv, Publish
    PROVE  FaultInv'
<1> USE ConstantsAssumption DEF ConstantsAssumption, FaultInv
<1>0. ReferenceInv'
  BY PublishReference
<1> USE <1>0 DEF ReferenceInv, TypeOK, OnlyCommittedReferences, DirectoryInv, FilesInv,
            PointerInv, Written, Consistent, active, Committed, Changing, ConsentInv,
            UndoInv, AbandonedInv, AbandonedStaysHidden, ForeignInv, Touched,
            Unchanged, Appeared
<1>1. CASE ClearPointer
  BY <1>1 DEF ClearPointer, Put, history, outside
<1>2. ASSUME NEW f \in Files, PublishFile(f)
      PROVE  FaultInv'
  BY <1>2 DEF PublishFile, Put, history, outside
<1>3. CASE MarkProjected
  BY <1>3 DEF MarkProjected, Goto, disk, history, outside
<1>4. CASE PublishPointer
  BY <1>4 DEF PublishPointer, Put, Goto, history, outside
<1>5. CASE MarkPointed
  BY <1>5 DEF MarkPointed, Goto, disk, history, outside
<1>6. CASE Finish
  BY <1>6 DEF Finish, Release, disk, outside
<1> QED
  BY <1>1, <1>2, <1>3, <1>4, <1>5, <1>6 DEF Publish

LEMMA RemoveTreeFault ==
    ASSUME FaultInv, RemoveTree
    PROVE  FaultInv'
<1> USE ConstantsAssumption DEF ConstantsAssumption, FaultInv
<1>0. ReferenceInv'
  BY RemoveTreeReference
<1> USE <1>0 DEF ReferenceInv, TypeOK, OnlyCommittedReferences, DirectoryInv, FilesInv,
            PointerInv, Written, Consistent, active, Committed, Changing, ConsentInv,
            UndoInv, AbandonedInv, AbandonedStaysHidden, ForeignInv, Touched,
            Unchanged, Appeared
<1>1. ASSUME NEW t \in Targets, UnlinkBackup(t)
      PROVE  FaultInv'
  BY <1>1 DEF UnlinkBackup, Removing, writer, history, outside
<1>2. CASE UnlinkJournal
  BY <1>2 DEF UnlinkJournal, Removing, writer, history, outside
<1>3. CASE RemoveDirectory
  BY <1>3 DEF RemoveDirectory, Goto, history, outside
<1> QED
  BY <1>1, <1>2, <1>3 DEF RemoveTree

LEMMA RollBackFault ==
    ASSUME FaultInv, RollBack
    PROVE  FaultInv'
<1> USE ConstantsAssumption DEF ConstantsAssumption, FaultInv
<1>0. ReferenceInv'
  BY RollBackReference
<1> USE <1>0 DEF ReferenceInv, TypeOK, OnlyCommittedReferences, DirectoryInv, FilesInv,
            PointerInv, Written, Consistent, active, Committed, Changing, ConsentInv,
            UndoInv, AbandonedInv, AbandonedStaysHidden, ForeignInv, Touched,
            Unchanged, Appeared
<1>1. ASSUME NEW f \in Files, RestoreFile(f)
      PROVE  FaultInv'
  BY <1>1 DEF RestoreFile, Put, Restored, Restorable, history, outside
<1>2. CASE RestorePointer
  BY <1>2 DEF RestorePointer, Put, Goto, Restored, Restorable, history, outside
<1>3. CASE MissingBackup
  BY <1>3 DEF MissingBackup, Release, disk, outside
<1>4. CASE DiscardTransaction
  BY <1>4 DEF DiscardTransaction, Release, outside
<1>5. CASE NothingToDiscard
  BY <1>5 DEF NothingToDiscard, Release, disk, outside
<1> QED
  BY <1>1, <1>2, <1>3, <1>4, <1>5 DEF RollBack

LEMMA FailureFault ==
    ASSUME FaultInv, Failure
    PROVE  FaultInv'
<1> USE ConstantsAssumption DEF ConstantsAssumption, FaultInv
<1>0. ReferenceInv' /\ late' = late
  BY FailureReference, FaultType
  DEF ReferenceInv, Failure, SetupFault, RollForwardFault, GenerationFault, StagingFault,
      CommitTransactionFault, PublicationFault, ExitFault, RollbackFault
<1> USE <1>0 DEF ReferenceInv, TypeOK, OnlyCommittedReferences, DirectoryInv, FilesInv,
            PointerInv, Written, Consistent, active, Committed, Changing, ConsentInv,
            UndoInv, AbandonedInv, AbandonedStaysHidden, ForeignInv, Touched,
            Unchanged, Appeared
<1>1. CASE SetupFault
  BY <1>1 DEF SetupFault, Release, disk
<1>2. CASE RollForwardFault
  BY <1>2 DEF RollForwardFault, Put, Torn, Release
<1>3. CASE GenerationFault
  BY <1>3 DEF GenerationFault, Release
<1>4. CASE StagingFault
  BY <1>4 DEF StagingFault, Release
<1>5. CASE CommitTransactionFault
  BY <1>5 DEF CommitTransactionFault, Release
<1>6. CASE PublicationFault
  BY <1>6 DEF PublicationFault, Put, Torn, Undo, history
<1>7. CASE ExitFault
  BY <1>7 DEF ExitFault, Release, disk
<1>8. CASE RollbackFault
  BY <1>8 DEF RollbackFault, Put, Torn, Release, Restored, Restorable
<1> QED
  BY <1>1, <1>2, <1>3, <1>4, <1>5, <1>6, <1>7, <1>8 DEF Failure

LEMMA OutsideFault ==
    ASSUME FaultInv, Begin \/ Crash \/ UNCHANGED vars
    PROVE  FaultInv'
<1>1. ReferenceInv'
  BY OutsideReference DEF FaultInv
<1> USE <1>1 DEF FaultInv, DirectoryInv, FilesInv, PointerInv, Written, Consistent,
        active, ConsentInv, UndoInv, AbandonedInv, AbandonedStaysHidden, ForeignInv,
        Committed, Changing, Touched, Unchanged, Appeared
<1>2. CASE Begin
  BY <1>2 DEF Begin, BeginWrite, disk, outside
<1>3. CASE Crash
  BY <1>3, ConstantsAssumption DEF ConstantsAssumption, ReferenceInv, TypeOK, Crash,
         Release, disk
<1>4. CASE UNCHANGED vars
  BY <1>4 DEF vars, disk, writer, history, outside
<1> QED
  BY <1>2, <1>3, <1>4

LEMMA OthersFault ==
    ASSUME FaultInv, Others
    PROVE  FaultInv'
<1> USE ConstantsAssumption DEF ConstantsAssumption, FaultInv
<1>0. ReferenceInv'
  BY OthersReference
<1>1. PICK f \in Files : OtherProgram(f)
  BY DEF Others
<1> USE <1>0, <1>1 DEF ReferenceInv, TypeOK, OnlyCommittedReferences, OtherProgram, Put,
            writer, history, Committed, Changing, Touched, Unchanged, Appeared
<1>2. DirectoryInv' /\ FilesInv' /\ PointerInv'
  BY DEF DirectoryInv, FilesInv, PointerInv, Written, Consistent, active
<1>3. ConsentInv'
  BY DEF ConsentInv
<1>4. UndoInv'
  BY DEF UndoInv
<1>5. AbandonedInv' /\ ForeignInv'
  BY DEF AbandonedInv, AbandonedStaysHidden, ForeignInv
<1> QED
  BY <1>2, <1>3, <1>4, <1>5

(* The invariant holds whatever operations fail and wherever processes die. *)
THEOREM FaultInvariant == Spec => []FaultInv
<1>1. FaultInv /\ [Next]_vars => FaultInv'
  BY RecoverFault, PrepareFault, PublishFault, RemoveTreeFault, RollBackFault,
     FailureFault, OthersFault, OutsideFault
  DEF Next, Progress
<1> QED
  BY <1>1, InitFault, PTL DEF Spec

(* Whatever operations fail and wherever processes die, the generation of a
   write that was given up without a journal is never published, by no later
   recovery and by no later rollback. *)
THEOREM AbandonedHidden == Spec => []AbandonedStaysHidden
BY FaultInvariant, PTL DEF FaultInv, AbandonedInv

(* The ways a write ends, one for each outcome. *)
LEMMA OnlyFinishSucceeds ==
    ASSUME FaultInv, [Next]_vars, pc # "idle", outcome' = "ok"
    PROVE  Finish
<1> USE DEF FaultInv
<1>1. outcome # "ok"
  OBVIOUS
<1>2. ~Begin
  BY DEF Begin, BeginWrite
<1>3. ~Recover
  BY <1>1 DEF Recover, SkipRecovery, RefuseRecovery, StartRollForward, RollForwardFile,
         RollForwardPointer, CleanupStaging, Release, history
<1>4. ~Prepare
  BY <1>1 DEF Prepare, Collide, PassCollisionCheck, StageGeneration, CommitGeneration,
         StageTransaction, CommitTransaction, Release, history
<1>5. ~RemoveTree /\ ~RollBack
  BY <1>1 DEF RemoveTree, UnlinkBackup, UnlinkJournal, RemoveDirectory, RollBack,
         RestoreFile, RestorePointer, MissingBackup, DiscardTransaction,
         NothingToDiscard, Release, history
<1>6. ~Failure
  BY <1>1 DEF Failure, SetupFault, RollForwardFault, GenerationFault, StagingFault,
         CommitTransactionFault, PublicationFault, ExitFault, RollbackFault, Release,
         history
<1>7. ~Crash /\ ~Others /\ ~UNCHANGED vars
  BY <1>1 DEF Crash, Others, OtherProgram, Release, vars, history
<1>8. Publish
  BY <1>2, <1>3, <1>4, <1>5, <1>6, <1>7 DEF Next, Progress
<1> QED
  BY <1>1, <1>8 DEF Publish, ClearPointer, PublishFile, MarkProjected, PublishPointer,
         MarkPointed, history

(* A write that returns normally leaves its own generation in active.json and in
   every stable file of its plan, and no transaction directory. *)
THEOREM SuccessPublished == Spec => SuccessIsPublished
<1>1. ASSUME FaultInv, [Next]_vars, pc # "idle", outcome' = "ok"
      PROVE  /\ public'[Pointer] = gen
             /\ \A f \in PlanOf[gen] : public'[f] = gen
             /\ txn' = "none"
  BY <1>1, OnlyFinishSucceeds
  DEF FaultInv, DirectoryInv, FilesInv, PointerInv, Written, active, Finish, disk
<1> QED
  BY <1>1, FaultInvariant, PTL DEF Spec, SuccessIsPublished

LEMMA OnlyDiscardRollsBack ==
    ASSUME FaultInv, [Next]_vars, pc # "idle", outcome' = "rolled_back"
    PROVE  DiscardTransaction
<1> USE DEF FaultInv
<1>1. outcome # "rolled_back"
  OBVIOUS
<1>2. ~Begin
  BY DEF Begin, BeginWrite
<1>3. ~Recover
  BY <1>1 DEF Recover, SkipRecovery, RefuseRecovery, StartRollForward, RollForwardFile,
         RollForwardPointer, CleanupStaging, Release, history
<1>4. ~Prepare
  BY <1>1 DEF Prepare, Collide, PassCollisionCheck, StageGeneration, CommitGeneration,
         StageTransaction, CommitTransaction, Release, history
<1>5. ~Publish /\ ~RemoveTree
  BY <1>1 DEF Publish, ClearPointer, PublishFile, MarkProjected, PublishPointer,
         MarkPointed, Finish, RemoveTree, UnlinkBackup, UnlinkJournal, RemoveDirectory,
         Release, history
<1>6. ~Failure
  BY <1>1 DEF Failure, SetupFault, RollForwardFault, GenerationFault, StagingFault,
         CommitTransactionFault, PublicationFault, ExitFault, RollbackFault, Release,
         history
<1>7. ~Crash /\ ~Others /\ ~UNCHANGED vars
  BY <1>1 DEF Crash, Others, OtherProgram, Release, vars, history
<1>8. RollBack
  BY <1>2, <1>3, <1>4, <1>5, <1>6, <1>7 DEF Next, Progress
<1> QED
  BY <1>1, <1>8 DEF RollBack, RestoreFile, RestorePointer, MissingBackup,
         NothingToDiscard, Release, history

(* A rollback that reports no error of its own leaves the stable files and
   active.json as they were when the write passed its collision check, but for files
   another program created since, whatever failed before it. *)
THEOREM RollbackComplete == Spec => RollbackRestores
<1>1. ASSUME FaultInv, [Next]_vars, pc # "idle", outcome' = "rolled_back"
      PROVE  /\ public' = public
             /\ \A t \in Targets : public[t] = before[t] \/ Appeared(t)
  BY <1>1, OnlyDiscardRollsBack
  DEF FaultInv, UndoInv, Changing, DiscardTransaction, Unchanged
<1> QED
  BY <1>1, FaultInvariant, PTL DEF Spec, RollbackRestores

(* The steps that change a stable file, and whose generation they put there. *)
LEMMA ForeignKeptByRecovery ==
    ASSUME FaultInv, Recover \/ RollForwardFault, NEW f \in Files,
           public[f] = Foreign, public'[f] # Foreign
    PROVE  public'[f] \in forced \/ f \in late
<1> USE ConstantsAssumption
    DEF ConstantsAssumption, FaultInv, ReferenceInv, TypeOK, DirectoryInv, FilesInv,
        ForeignInv
<1>1. CASE Recover
  <2>1. ASSUME NEW g \in Files, RollForwardFile(g)
        PROVE  public'[f] \in forced \/ f \in late
    BY <1>1, <2>1 DEF RollForwardFile, Put
  <2>2. ASSUME RollForwardPointer
        PROVE  FALSE
    BY <2>2 DEF RollForwardPointer, Put
  <2> QED
    BY <1>1, <2>1, <2>2 DEF Recover, SkipRecovery, RefuseRecovery, StartRollForward,
           CleanupStaging, disk
<1>2. CASE RollForwardFault
  BY <1>2 DEF RollForwardFault, Torn, Put
<1> QED
  BY <1>1, <1>2

LEMMA ForeignKeptByPublication ==
    ASSUME FaultInv, Publish \/ PublicationFault, NEW f \in Files,
           public[f] = Foreign, public'[f] # Foreign
    PROVE  public'[f] \in forced \/ f \in late
<1> USE ConstantsAssumption
    DEF ConstantsAssumption, FaultInv, ReferenceInv, TypeOK, DirectoryInv, FilesInv,
        ForeignInv
<1>1. CASE Publish
  <2>1. ASSUME NEW g \in Files, PublishFile(g)
        PROVE  public'[f] \in forced \/ f \in late
    BY <1>1, <2>1 DEF PublishFile, Put
  <2>2. ASSUME ClearPointer \/ PublishPointer
        PROVE  FALSE
    BY <2>2 DEF ClearPointer, PublishPointer, Put
  <2> QED
    BY <1>1, <2>1, <2>2 DEF Publish, MarkProjected, MarkPointed, Finish, disk
<1>2. CASE PublicationFault
  BY <1>2 DEF PublicationFault, Torn, Put
<1> QED
  BY <1>1, <1>2

LEMMA ForeignKeptByRollback ==
    ASSUME FaultInv, RollBack \/ RollbackFault, NEW f \in Files,
           public[f] = Foreign
    PROVE  public'[f] = Foreign \/ f \in late
<1> USE ConstantsAssumption
    DEF ConstantsAssumption, FaultInv, ReferenceInv, TypeOK, UndoInv, Changing, Touched,
        Restored, Restorable, Put
<1>0. pc \in Undoing => before[f] = Foreign \/ f \in late
  BY DEF Unchanged, Appeared
<1>1. CASE RollBack
  <2>1. ASSUME NEW g \in Files, RestoreFile(g)
        PROVE  public'[f] = Foreign \/ f \in late
    BY <1>0, <2>1 DEF RestoreFile
  <2> QED
    BY <1>1, <2>1 DEF RollBack, RestorePointer, MissingBackup, DiscardTransaction,
           NothingToDiscard, disk
<1>2. CASE RollbackFault
  BY <1>0, <1>2 DEF RollbackFault, Torn
<1> QED
  BY <1>1, <1>2

(* A stable file the package did not write is replaced only by a generation whose
   own writer asked to overwrite, when a later writer repairs just as when the
   writer itself publishes, and whatever fails; the only files replaced unasked are
   those that another program created after that writer's collision check. *)
THEOREM ForeignKept == Spec => ForeignFilesKept
<1>1. ASSUME FaultInv, [Next]_vars
      PROVE  \A f \in Files : public[f] = Foreign /\ public'[f] # Foreign
                                 => public'[f] \in forced \/ f \in late
  <2> SUFFICES ASSUME NEW f \in Files, public[f] = Foreign, public'[f] # Foreign
               PROVE  public'[f] \in forced \/ f \in late
    OBVIOUS
  <2>1. CASE Begin \/ Prepare \/ RemoveTree \/ Crash \/ Others \/ UNCHANGED vars
    BY <1>1, <2>1 DEF Others, OtherProgram, Put, FaultInv, ReferenceInv, TypeOK, Begin, BeginWrite, Prepare, Collide, PassCollisionCheck,
           StageGeneration, CommitGeneration, StageTransaction, CommitTransaction,
           RemoveTree, UnlinkBackup, UnlinkJournal, RemoveDirectory, Crash, vars, disk
  <2>2. CASE Recover \/ Publish \/ RollBack
    BY <1>1, <2>2, ForeignKeptByRecovery, ForeignKeptByPublication, ForeignKeptByRollback
  <2>3. CASE Failure
    BY <1>1, <2>3, ForeignKeptByRecovery, ForeignKeptByPublication, ForeignKeptByRollback
    DEF Failure, SetupFault, GenerationFault, StagingFault, CommitTransactionFault,
        ExitFault, disk
  <2> QED
    BY <1>1, <2>1, <2>2, <2>3 DEF Next, Progress
<1> QED
  BY <1>1, FaultInvariant, PTL DEF Spec, ForeignFilesKept

=============================================================================
