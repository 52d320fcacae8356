-------------------------- MODULE ConversionProofs ---------------------------
(***************************************************************************)
(* What is proved of the two ends of a conversion that others wait for:    *)
(* the client's batches, and the worker processes that read a PDF.         *)
(***************************************************************************)
EXTENDS ClientCalls, PdfWorker, FiniteSetTheorems, TLAPS

(***************************************************************************)
(* The client: its batches, for every number of sources, every ceiling and *)
(* any cancellations.                                                      *)
(***************************************************************************)

USE DEF BatchStates, TaskStates, Open, clientVars, taskVars, closeVars

-----------------------------------------------------------------------------
(* The tasks of the batches.                                               *)

LEMMA TaskHasBatch ==
    ASSUME NEW t \in Tasks
    PROVE  t[1] \in Batches /\ t \in Mine(t[1])
BY DEF Tasks, Mine

LEMMA MineAreTasks ==
    ASSUME NEW b \in Batches, NEW t \in Mine(b)
    PROVE  t \in Tasks /\ t[1] = b
BY DEF Tasks, Mine

LEMMA MineIsFinite ==
    ASSUME ClientAssumption, NEW b \in Batches, NEW S \in SUBSET Mine(b)
    PROVE  IsFiniteSet(S) /\ Cardinality(S) \in Nat
<1>1. IsFiniteSet({b}) /\ IsFiniteSet(SourcesOf[b])
  BY FS_Singleton DEF ClientAssumption
<1>2. IsFiniteSet(Mine(b))
  BY <1>1, FS_Product DEF Mine
<1> QED
  BY <1>2, FS_Subset, FS_CardinalityType

-----------------------------------------------------------------------------
(***************************************************************************)
(* Tasks without counting: their types, what a batch has begun or ended,   *)
(* and where a thread can run.                                             *)
(***************************************************************************)
TaskTypes ==
    /\ batch \in [Batches -> BatchStates]
    /\ conversion \in [Tasks -> TaskStates]
    /\ thread \in [Tasks -> {"none", "running", "ended"}]
    /\ calls \in [Tasks -> 0 .. CallsNeeded]
    /\ given \in [Tasks -> {"none", "failed", "output"}]
    /\ bad \subseteq Tasks
    /\ closed \in BOOLEAN
    /\ closer \in [Closers -> {"new", "awaiting", "ended"}]

\* Before its batch is admitted a task is nothing; in a running batch a thread
\* runs for a task that waits for it; a batch ends after its tasks.
Settled(t) ==
    /\ batch[t[1]] = "new" => conversion[t] = "none" /\ thread[t] = "none"
    /\ batch[t[1]] = "running" /\ thread[t] = "running" => conversion[t] = "converting"
    /\ batch[t[1]] = "returned" => conversion[t] = "ended"
    /\ batch[t[1]] = "raised" => conversion[t] \notin Open

\* What a source gives is its own.
Answered(t) ==
    /\ conversion[t] = "calling" => calls[t] > 0
    /\ conversion[t] = "ended" => given[t] = IF t \in bad THEN "failed" ELSE "output"

TaskInv == TaskTypes /\ \A t \in Tasks : Settled(t) /\ Answered(t)

LEMMA InitTaskInv ==
    ASSUME ClientAssumption, ClientInit
    PROVE  TaskInv
<1>1. calls \in [Tasks -> 0 .. CallsNeeded]
  BY DEF ClientAssumption, ClientInit
<1>2. TaskTypes
  BY <1>1 DEF ClientInit, TaskTypes
<1>3. \A t \in Tasks : Settled(t) /\ Answered(t)
  BY TaskHasBatch DEF ClientInit, Settled, Answered
<1> QED
  BY <1>2, <1>3 DEF TaskInv

LEMMA BatchKeepsTaskInv ==
    ASSUME TaskInv, NEW b \in Batches,
           Refuse(b) \/ Admit(b) \/ ReturnBatch(b) \/ CancelBatch(b) \/ RaiseBatch(b)
    PROVE  TaskInv'
<1> USE DEF TaskInv, TaskTypes, Settled, Answered
<1>1. CASE Refuse(b)
  BY <1>1, TaskHasBatch DEF Refuse
<1>2. CASE Admit(b)
  BY <1>2, TaskHasBatch, MineAreTasks DEF Admit
<1>3. CASE ReturnBatch(b)
  BY <1>3, TaskHasBatch DEF ReturnBatch
<1>4. CASE CancelBatch(b)
  BY <1>4, TaskHasBatch DEF CancelBatch
<1>5. CASE RaiseBatch(b)
  BY <1>5, TaskHasBatch DEF RaiseBatch
<1> QED
  BY <1>1, <1>2, <1>3, <1>4, <1>5

LEMMA TaskKeepsTaskInv ==
    ASSUME ClientAssumption, TaskInv, NEW t \in Tasks, ConversionStep(t)
    PROVE  TaskInv'
<1> USE DEF ClientAssumption, TaskInv, TaskTypes, Settled, Answered
<1>1. CASE StartThread(t)
  BY <1>1 DEF StartThread, Running
<1>2. CASE ThreadEnds(t)
  BY <1>2 DEF ThreadEnds
<1>3. CASE Converted(t)
  BY <1>3 DEF Converted, Running, End
<1>4. CASE StartCall(t)
  BY <1>4 DEF StartCall, Running
<1>5. CASE EndCall(t)
  <2>1. calls[t] \in 0 .. CallsNeeded /\ calls[t] > 0
    BY <1>5 DEF EndCall
  <2>2. calls' \in [Tasks -> 0 .. CallsNeeded]
    BY <1>5, <2>1 DEF EndCall
  <2> QED
    BY <1>5, <2>2 DEF EndCall, Running
<1>6. CASE Extracted(t)
  BY <1>6 DEF Extracted, Running, End
<1>7. CASE Unwind(t)
  BY <1>7 DEF Unwind
<1> QED
  BY <1>1, <1>2, <1>3, <1>4, <1>5, <1>6, <1>7 DEF ConversionStep

LEMMA NextTaskInv ==
    ASSUME ClientAssumption, TaskInv, [ClientNext]_clientVars
    PROVE  TaskInv'
<1>1. ASSUME NEW c \in Closers, BeginClose(c) \/ EndClose(c)
      PROVE  TaskInv'
  <2>1. UNCHANGED <<batch, taskVars, bad>>
    BY <1>1 DEF BeginClose, EndClose
  <2>2. closed' \in BOOLEAN
    BY <1>1 DEF BeginClose, EndClose, TaskInv, TaskTypes
  <2>3. closer' \in [Closers -> {"new", "awaiting", "ended"}]
    BY <1>1 DEF BeginClose, EndClose, TaskInv, TaskTypes
  <2> QED
    BY <2>1, <2>2, <2>3 DEF TaskInv, TaskTypes, Settled, Answered
<1>2. CASE UNCHANGED clientVars
  BY <1>2 DEF TaskInv, TaskTypes, Settled, Answered
<1> QED
  BY <1>1, <1>2, BatchKeepsTaskInv, TaskKeepsTaskInv DEF ClientNext

-----------------------------------------------------------------------------
(* The slots of a batch.                                                   *)

\* The stages in which a task has a slot.
Slotted == {"converting", "calling"}

Holding(b) == {t \in Mine(b) : conversion[t] \in Slotted}

SlotInv ==
    /\ free \in [Batches -> Nat]
    /\ \A b \in Batches : free[b] + Cardinality(Holding(b)) = Limit

\* A task that takes a slot, gives it back or does neither changes what its own
\* batch holds by as much.
LEMMA HoldingGrows ==
    ASSUME ClientAssumption, TaskInv, NEW t \in Tasks, NEW s,
           conversion[t] \notin Slotted, s \in Slotted,
           conversion' = [conversion EXCEPT ![t] = s]
    PROVE  Cardinality(Holding(t[1])') = Cardinality(Holding(t[1])) + 1
<1>1. t[1] \in Batches /\ t \in Mine(t[1]) /\ Mine(t[1])' = Mine(t[1])
  BY TaskHasBatch DEF Mine
<1>2. Holding(t[1])' = Holding(t[1]) \cup {t} /\ t \notin Holding(t[1])
  BY <1>1, MineAreTasks DEF Holding, TaskInv, TaskTypes
<1>3. IsFiniteSet(Holding(t[1]))
  BY <1>1, MineIsFinite DEF Holding
<1> QED
  BY <1>2, <1>3, FS_AddElement

LEMMA HoldingShrinks ==
    ASSUME ClientAssumption, TaskInv, NEW t \in Tasks, NEW s,
           conversion[t] \in Slotted, s \notin Slotted,
           conversion' = [conversion EXCEPT ![t] = s]
    PROVE  Cardinality(Holding(t[1])') = Cardinality(Holding(t[1])) - 1
<1>1. t[1] \in Batches /\ t \in Mine(t[1]) /\ Mine(t[1])' = Mine(t[1])
  BY TaskHasBatch DEF Mine
<1>2. Holding(t[1])' = Holding(t[1]) \ {t} /\ t \in Holding(t[1])
  BY <1>1, MineAreTasks DEF Holding, TaskInv, TaskTypes
<1>3. IsFiniteSet(Holding(t[1]))
  BY <1>1, MineIsFinite DEF Holding
<1> QED
  BY <1>2, <1>3, FS_RemoveElement

LEMMA HoldingStays ==
    ASSUME TaskInv, NEW b \in Batches,
           \A u \in Mine(b) : (conversion'[u] \in Slotted)
                              <=> (conversion[u] \in Slotted)
    PROVE  Holding(b)' = Holding(b)
BY DEF Holding, Mine

LEMMA InitSlotInv ==
    ASSUME ClientAssumption, ClientInit
    PROVE  SlotInv
<1>1. ASSUME NEW b \in Batches
      PROVE  Cardinality(Holding(b)) = 0
  <2>1. Holding(b) = {}
    BY MineAreTasks DEF ClientInit, Holding, Slotted
  <2> QED
    BY <2>1, FS_EmptySet
<1> QED
  BY <1>1 DEF ClientAssumption, ClientInit, SlotInv

\* A step that takes or gives back a slot, and the task that goes with it.
LEMMA SlotMoves ==
    ASSUME ClientAssumption, TaskInv, SlotInv, NEW t \in Tasks, NEW s,
           conversion' = [conversion EXCEPT ![t] = s],
           \/ /\ conversion[t] \notin Slotted /\ s \in Slotted
              /\ TakeSlot(t)
           \/ /\ conversion[t] \in Slotted /\ s \notin Slotted
              /\ LeaveSlot(t)
    PROVE  SlotInv'
<1>1. t[1] \in Batches /\ free[t[1]] \in Nat
  BY TaskHasBatch DEF SlotInv
<1>2. free' \in [Batches -> Nat]
  BY <1>1 DEF SlotInv, TakeSlot, LeaveSlot
<1>3. ASSUME NEW b \in Batches, b # t[1]
      PROVE  free'[b] + Cardinality(Holding(b)') = Limit
  <2>1. Holding(b)' = Holding(b)
    BY <1>3, HoldingStays, MineAreTasks DEF TaskInv, TaskTypes
  <2>2. free'[b] = free[b]
    BY <1>3 DEF TakeSlot, LeaveSlot, SlotInv
  <2> QED
    BY <2>1, <2>2 DEF SlotInv
<1>4. free'[t[1]] + Cardinality(Holding(t[1])') = Limit
  <2>1. Cardinality(Holding(t[1])) \in Nat /\ Limit \in Nat
    BY <1>1, MineIsFinite DEF Holding, ClientAssumption
  <2>2. free[t[1]] + Cardinality(Holding(t[1])) = Limit
    BY <1>1 DEF SlotInv
  <2>3. \/ /\ free'[t[1]] = free[t[1]] - 1
           /\ Cardinality(Holding(t[1])') = Cardinality(Holding(t[1])) + 1
        \/ /\ free'[t[1]] = free[t[1]] + 1
           /\ Cardinality(Holding(t[1])') = Cardinality(Holding(t[1])) - 1
    <3>1. CASE conversion[t] \in Slotted
      <4>1. s \notin Slotted /\ LeaveSlot(t)
        BY <3>1
      <4>2. Cardinality(Holding(t[1])') = Cardinality(Holding(t[1])) - 1
        BY <3>1, <4>1, HoldingShrinks
      <4> QED
        BY <1>1, <4>1, <4>2 DEF LeaveSlot, SlotInv
    <3>2. CASE conversion[t] \notin Slotted
      <4>1. s \in Slotted /\ TakeSlot(t)
        BY <3>2
      <4>2. Cardinality(Holding(t[1])') = Cardinality(Holding(t[1])) + 1
        BY <3>2, <4>1, HoldingGrows
      <4> QED
        BY <1>1, <4>1, <4>2 DEF TakeSlot, SlotInv
    <3> QED
      BY <3>1, <3>2
  <2> QED
    BY <1>1, <2>1, <2>2, <2>3
<1> QED
  BY <1>2, <1>3, <1>4 DEF SlotInv

LEMMA SlotStays ==
    ASSUME TaskInv, SlotInv, UNCHANGED free,
           \A t \in Tasks : (conversion'[t] \in Slotted)
                            <=> (conversion[t] \in Slotted)
    PROVE  SlotInv'
<1>1. \A b \in Batches : Holding(b)' = Holding(b)
  BY HoldingStays, MineAreTasks
<1> QED
  BY <1>1 DEF SlotInv

LEMMA NextSlotInv ==
    ASSUME ClientAssumption, TaskInv, SlotInv, [ClientNext]_clientVars
    PROVE  SlotInv'
<1> USE DEF TaskInv, TaskTypes
<1>1. ASSUME NEW b \in Batches, Admit(b)
      PROVE  SlotInv'
  <2>1. \A t \in Tasks : t \in Mine(b) => conversion[t] = "none" /\ conversion'[t] = "queued"
    BY <1>1, MineAreTasks DEF Admit, Settled
  <2>2. \A t \in Tasks : t \notin Mine(b) => conversion'[t] = conversion[t]
    BY <1>1 DEF Admit
  <2>3. UNCHANGED free
    BY <1>1 DEF Admit
  <2> QED
    BY <2>1, <2>2, <2>3, SlotStays DEF Slotted
<1>2. ASSUME NEW t \in Tasks, StartThread(t) \/ StartCall(t)
      PROVE  SlotInv'
  BY <1>2, SlotMoves DEF StartThread, StartCall, Slotted
<1>3. ASSUME NEW t \in Tasks, Converted(t) \/ EndCall(t)
      PROVE  SlotInv'
  <2>1. \E s \in {"ended", "waiting"} : conversion' = [conversion EXCEPT ![t] = s]
    BY <1>3 DEF Converted, EndCall, End
  <2> QED
    BY <1>3, <2>1, SlotMoves DEF Converted, EndCall, Slotted
<1>4. ASSUME NEW t \in Tasks, Unwind(t)
      PROVE  SlotInv'
  <2>1. CASE conversion[t] \in Slotted
    BY <1>4, <2>1, SlotMoves DEF Unwind, Slotted
  <2>2. CASE conversion[t] \notin Slotted
    BY <1>4, <2>2, SlotStays DEF Unwind, Slotted
  <2> QED
    BY <2>1, <2>2
<1>5. ASSUME NEW t \in Tasks, ThreadEnds(t) \/ Extracted(t)
      PROVE  SlotInv'
  BY <1>5, SlotStays DEF ThreadEnds, Extracted, End, Slotted
<1>6. CASE \/ \E b \in Batches : Refuse(b) \/ ReturnBatch(b) \/ CancelBatch(b) \/ RaiseBatch(b)
           \/ \E c \in Closers : BeginClose(c) \/ EndClose(c)
           \/ UNCHANGED clientVars
  <2>1. UNCHANGED <<conversion, free>>
    BY <1>6 DEF Refuse, ReturnBatch, CancelBatch, RaiseBatch, BeginClose, EndClose
  <2> QED
    BY <2>1, SlotStays
<1> QED
  BY <1>1, <1>2, <1>3, <1>4, <1>5, <1>6 DEF ClientNext, ConversionStep

-----------------------------------------------------------------------------
(***************************************************************************)
(* Threads and calls.  While a batch runs they are among the tasks that    *)
(* hold a slot; once it is cancelled slots come back before threads end,   *)
(* but then nothing more is started.                                       *)
(***************************************************************************)
Busy(b) == {t \in Mine(b) : thread[t] = "running" \/ conversion[t] = "calling"}

BusyInv == \A b \in Batches : Cardinality(Busy(b)) <= Limit

LEMMA InitBusyInv ==
    ASSUME ClientAssumption, ClientInit
    PROVE  BusyInv
<1>1. ASSUME NEW b \in Batches
      PROVE  Cardinality(Busy(b)) = 0
  <2>1. Busy(b) = {}
    BY MineAreTasks DEF ClientInit, Busy
  <2> QED
    BY <2>1, FS_EmptySet
<1> QED
  BY <1>1 DEF ClientAssumption, BusyInv

LEMMA BusyInRunningBatch ==
    ASSUME ClientAssumption, TaskInv', SlotInv', NEW b \in Batches, batch'[b] = "running"
    PROVE  Cardinality(Busy(b)') <= Limit
<1>1. Busy(b)' \subseteq Holding(b)'
  <2>1. \A t \in Mine(b) : t \in Tasks /\ batch'[t[1]] = "running"
    BY MineAreTasks
  <2> QED
    BY <2>1 DEF Busy, Holding, Slotted, TaskInv, Settled, Mine
<1>2. Holding(b)' \in SUBSET Mine(b)
  BY DEF Holding, Mine
<1>3. IsFiniteSet(Holding(b)') /\ Cardinality(Holding(b)') \in Nat
  BY <1>2, MineIsFinite
<1>4. Cardinality(Busy(b)') <= Cardinality(Holding(b)') /\ Cardinality(Busy(b)') \in Nat
  BY <1>1, <1>3, FS_Subset, FS_CardinalityType
<1>5. free'[b] \in Nat /\ free'[b] + Cardinality(Holding(b)') = Limit
  BY DEF SlotInv
<1> QED
  BY <1>3, <1>4, <1>5 DEF ClientAssumption

LEMMA BusyElsewhereShrinks ==
    ASSUME TaskInv, [ClientNext]_clientVars, NEW b \in Batches, batch'[b] # "running"
    PROVE  Busy(b)' \subseteq Busy(b)
<1> SUFFICES ASSUME NEW u \in Mine(b)
             PROVE  /\ thread'[u] = "running" => thread[u] = "running"
                    /\ conversion'[u] = "calling" => conversion[u] = "calling"
  BY DEF Busy, Mine
<1>0. u \in Tasks /\ u[1] = b
  BY MineAreTasks
<1> USE DEF TaskInv, TaskTypes
<1>1. ASSUME NEW a \in Batches, Refuse(a) \/ Admit(a) \/ ReturnBatch(a) \/ CancelBatch(a) \/ RaiseBatch(a)
      PROVE  thread' = thread /\ (conversion'[u] = "calling" => conversion[u] = "calling")
  BY <1>0, <1>1 DEF Refuse, Admit, ReturnBatch, CancelBatch, RaiseBatch
<1>2. ASSUME NEW t \in Tasks, StartThread(t) \/ StartCall(t)
      PROVE  thread'[u] = thread[u] /\ conversion'[u] = conversion[u]
  <2>1. t # u
    BY <1>0, <1>2 DEF StartThread, StartCall, Running
  <2> QED
    BY <1>0, <1>2, <2>1 DEF StartThread, StartCall
<1>3. ASSUME NEW t \in Tasks, ThreadEnds(t)
      PROVE  conversion' = conversion /\ (thread'[u] = "running" => thread[u] = "running")
  BY <1>0, <1>3 DEF ThreadEnds
<1>4. ASSUME NEW t \in Tasks, Converted(t) \/ EndCall(t) \/ Extracted(t) \/ Unwind(t)
      PROVE  thread' = thread /\ (conversion'[u] = "calling" => conversion[u] = "calling")
  BY <1>0, <1>4 DEF Converted, EndCall, Extracted, Unwind, End
<1>5. ASSUME NEW c \in Closers, BeginClose(c) \/ EndClose(c)
      PROVE  thread' = thread /\ conversion' = conversion
  BY <1>5 DEF BeginClose, EndClose
<1> QED
  BY <1>1, <1>2, <1>3, <1>4, <1>5 DEF ClientNext, ConversionStep

LEMMA NextBusyInv ==
    ASSUME ClientAssumption, TaskInv, SlotInv, BusyInv, [ClientNext]_clientVars
    PROVE  BusyInv'
<1>1. TaskInv' /\ SlotInv'
  BY NextTaskInv, NextSlotInv
<1>2. ASSUME NEW b \in Batches, batch'[b] # "running"
      PROVE  Cardinality(Busy(b)') <= Limit
  <2>1. Busy(b) \in SUBSET Mine(b)
    BY DEF Busy
  <2>2. IsFiniteSet(Busy(b)) /\ Cardinality(Busy(b)) \in Nat
    BY <2>1, MineIsFinite
  <2>3. Cardinality(Busy(b)') <= Cardinality(Busy(b)) /\ Cardinality(Busy(b)') \in Nat
    BY <1>2, <2>2, BusyElsewhereShrinks, FS_Subset, FS_CardinalityType
  <2> QED
    BY <2>2, <2>3 DEF BusyInv, ClientAssumption
<1> QED
  BY <1>1, <1>2, BusyInRunningBatch DEF BusyInv

-----------------------------------------------------------------------------
(* Closing: the calls of the provider's aclose are those of the client's.   *)

Awaiting == {c \in Closers : closer[c] = "awaiting"}
Begun    == {c \in Closers : closer[c] # "new"}

CloseInv == closings \in Nat /\ Cardinality(Awaiting) <= closings /\ closings <= Cardinality(Begun)

LEMMA ClosersAreFinite ==
    ASSUME ClientAssumption
    PROVE  /\ IsFiniteSet(Awaiting) /\ Cardinality(Awaiting) \in Nat
           /\ IsFiniteSet(Begun) /\ Cardinality(Begun) \in Nat
           /\ Cardinality(Begun) <= Cardinality(Closers) /\ Cardinality(Closers) \in Nat
<1>1. Awaiting \in SUBSET Closers /\ Begun \in SUBSET Closers /\ IsFiniteSet(Closers)
  BY DEF Awaiting, Begun, ClientAssumption
<1> QED
  BY <1>1, FS_Subset, FS_CardinalityType

LEMMA InitCloseInv ==
    ASSUME ClientInit
    PROVE  CloseInv
<1>1. Awaiting = {} /\ Begun = {}
  BY DEF ClientInit, Awaiting, Begun
<1> QED
  BY <1>1, FS_EmptySet DEF ClientInit, CloseInv

LEMMA NextCloseInv ==
    ASSUME ClientAssumption, TaskInv, CloseInv, [ClientNext]_clientVars
    PROVE  CloseInv'
<1> USE ClosersAreFinite DEF TaskInv, TaskTypes
<1>1. ASSUME NEW c \in Closers, BeginClose(c)
      PROVE  CloseInv'
  <2>1. Begun' = Begun \cup {c} /\ c \notin Begun
    BY <1>1 DEF BeginClose, Begun
  <2>2. Cardinality(Begun') = Cardinality(Begun) + 1
    BY <2>1, FS_AddElement
  <2>3. CASE closed
    <3>1. Awaiting' = Awaiting /\ closings' = closings
      BY <1>1, <2>3 DEF BeginClose, Awaiting
    <3> QED
      BY <2>2, <3>1 DEF CloseInv
  <2>4. CASE ~closed
    <3>1. Awaiting' = Awaiting \cup {c} /\ c \notin Awaiting /\ closings' = closings + 1
      BY <1>1, <2>4 DEF BeginClose, Awaiting
    <3>2. Cardinality(Awaiting') = Cardinality(Awaiting) + 1
      BY <3>1, FS_AddElement
    <3> QED
      BY <2>2, <3>1, <3>2 DEF CloseInv
  <2> QED
    BY <2>3, <2>4
<1>2. ASSUME NEW c \in Closers, EndClose(c)
      PROVE  CloseInv'
  <2>1. Begun' = Begun /\ Awaiting' = Awaiting \ {c} /\ c \in Awaiting
    BY <1>2 DEF EndClose, Begun, Awaiting
  <2>2. Cardinality(Awaiting') = Cardinality(Awaiting) - 1
    BY <2>1, FS_RemoveElement
  <2>3. Cardinality(Awaiting) # 0
    BY <2>1, FS_EmptySet
  <2>4. closings' \in {closings, closings - 1}
    BY <1>2 DEF EndClose
  <2> QED
    BY <2>1, <2>2, <2>3, <2>4 DEF CloseInv
<1>3. CASE UNCHANGED <<closer, closings>>
  <2>1. Begun' = Begun /\ Awaiting' = Awaiting
    BY <1>3 DEF Begun, Awaiting
  <2> QED
    BY <1>3, <2>1 DEF CloseInv
<1>4. ASSUME NEW b \in Batches, Refuse(b) \/ Admit(b) \/ ReturnBatch(b) \/ CancelBatch(b) \/ RaiseBatch(b)
      PROVE  UNCHANGED <<closer, closings>>
  BY <1>4 DEF Refuse, Admit, ReturnBatch, CancelBatch, RaiseBatch
<1>5. ASSUME NEW t \in Tasks, ConversionStep(t)
      PROVE  UNCHANGED <<closer, closings>>
  BY <1>5 DEF ConversionStep, StartThread, ThreadEnds, Converted, StartCall, EndCall, Extracted,
         Unwind
<1> QED
  BY <1>1, <1>2, <1>3, <1>4, <1>5 DEF ClientNext

-----------------------------------------------------------------------------
(* The client's word.                                                      *)

ClientIInv == TaskInv /\ SlotInv /\ BusyInv /\ CloseInv

LEMMA ClientIInvKeepsWord ==
    ASSUME ClientAssumption, ClientIInv
    PROVE  ClientTypeOK /\ OneCeiling /\ ResultsIsolated
<1>1. ASSUME NEW b \in Batches
      PROVE  /\ free[b] \in 0 .. Limit
             /\ free[b] + Cardinality({t \in Mine(b) : conversion[t] \in {"converting", "calling"}}) = Limit
  <2>1. Cardinality(Holding(b)) \in Nat
    BY MineIsFinite DEF Holding
  <2>2. free[b] \in Nat /\ free[b] + Cardinality(Holding(b)) = Limit
    BY DEF ClientIInv, SlotInv
  <2> QED
    BY <2>1, <2>2 DEF Holding, Slotted, ClientAssumption
<1>2. free \in [Batches -> 0 .. Limit]
  BY <1>1 DEF ClientIInv, SlotInv
<1>3. closings \in 0 .. Cardinality(Closers)
  BY ClosersAreFinite DEF ClientIInv, CloseInv
<1>4. ClientTypeOK
  BY <1>2, <1>3 DEF ClientIInv, TaskInv, TaskTypes, ClientTypeOK
<1>5. OneCeiling
  BY <1>1 DEF ClientIInv, BusyInv, Busy, OneCeiling
<1>6. ResultsIsolated
  BY MineAreTasks DEF ClientIInv, TaskInv, TaskTypes, Settled, Answered, ResultsIsolated
<1> QED
  BY <1>4, <1>5, <1>6

LEMMA NextStaysClosed ==
    ASSUME TaskInv, [ClientNext]_clientVars
    PROVE  StaysClosed
<1> SUFFICES ASSUME closed
             PROVE  closed' /\ \A t \in Tasks : conversion[t] = "none" => conversion'[t] = "none"
  BY DEF StaysClosed
<1> USE DEF TaskInv, TaskTypes
<1>1. ASSUME NEW b \in Batches, Refuse(b) \/ Admit(b) \/ ReturnBatch(b) \/ CancelBatch(b) \/ RaiseBatch(b)
      PROVE  closed' /\ conversion' = conversion
  BY <1>1 DEF Refuse, Admit, ReturnBatch, CancelBatch, RaiseBatch
<1>2. ASSUME NEW t \in Tasks, ConversionStep(t)
      PROVE  /\ closed'
             /\ \A u \in Tasks : conversion[u] = "none" => conversion'[u] = "none"
  <2>1. conversion[t] # "none" \/ conversion' = conversion
    BY <1>2 DEF ConversionStep, StartThread, ThreadEnds, Converted, StartCall, EndCall, Extracted,
           Unwind
  <2>2. conversion' = conversion \/ \E s : conversion' = [conversion EXCEPT ![t] = s]
    BY <1>2 DEF ConversionStep, StartThread, ThreadEnds, Converted, StartCall, EndCall, Extracted,
           Unwind, End
  <2>3. closed'
    BY <1>2 DEF ConversionStep, StartThread, ThreadEnds, Converted, StartCall, EndCall, Extracted,
           Unwind
  <2> QED
    BY <2>1, <2>2, <2>3
<1>3. ASSUME NEW c \in Closers, BeginClose(c) \/ EndClose(c)
      PROVE  closed' /\ conversion' = conversion
  BY <1>3 DEF BeginClose, EndClose
<1> QED
  BY <1>1, <1>2, <1>3 DEF ClientNext

THEOREM ClientInvariant == ASSUME ClientAssumption PROVE ClientSpec => []ClientIInv
<1>1. ClientInit => ClientIInv
  BY InitTaskInv, InitSlotInv, InitBusyInv, InitCloseInv DEF ClientIInv
<1>2. ClientIInv /\ [ClientNext]_clientVars => ClientIInv'
  BY NextTaskInv, NextSlotInv, NextBusyInv, NextCloseInv DEF ClientIInv
<1> QED
  BY <1>1, <1>2, PTL DEF ClientSpec

(* At any limit and for any number of batches, sources and cancellations: the
   threads and calls of a batch stay under its limit, its slots are those its tasks
   hold, it returns one result for each source, whatever the others meet, and a
   closed client stays closed and admits nothing (SurveyScribe, client.py). *)
THEOREM ClientKeptItsWord == ASSUME ClientAssumption PROVE ClientSpec => ClientKeepsItsWord
<1>1. ClientIInv => ClientTypeOK /\ OneCeiling /\ ResultsIsolated
  BY ClientIInvKeepsWord
<1>2. ClientIInv /\ [ClientNext]_clientVars => StaysClosed
  BY NextStaysClosed DEF ClientIInv
<1> QED
  BY <1>1, <1>2, ClientInvariant, PTL DEF ClientSpec, KeepsItsWord, ClientKeepsItsWord


-----------------------------------------------------------------------------
(***************************************************************************)
(* A PDF conversion: what it leaves behind and returns, for every page     *)
(* limit, every size of answer and any number of interrupts.               *)
(***************************************************************************)


(* The definitions that say only what values there are. *)
USE DEF Stages, Callers, Children, Alive, Cleaning, Faults, NoPages, callerVars, childVars

Counts == [kind : {"counted"}, pages : 0 .. MaxPages]
Whole  == [kind : {"converted"}, answer : Conversions]
Errors == [kind : {"error"}, code : Faults]

-----------------------------------------------------------------------------
(* What a conversion says of its document's pages.                         *)

\* Its blocks and its failed pages lie on the pages it counts, which are those
\* its coverage spans.
Sound(a) ==
    /\ a.last <= a.pages
    /\ a.failed \subseteq 1 .. a.pages
    /\ a.units = IF a.pages = 0 THEN NoPages ELSE a.pages

LEMMA MaxIsMax ==
    ASSUME NEW m \in Int, NEW n \in Int
    PROVE  Max2(m, n) \in {m, n} /\ m <= Max2(m, n) /\ n <= Max2(m, n)
BY DEF Max2

LEMMA ConversionIsSound ==
    ASSUME PdfAssumption, NEW d \in Documents, ~Inconsistent(d)
    PROVE  ConversionOf(d) \in Conversions /\ Sound(ConversionOf(d))
<1> DEFINE n == PageCount(d)
<1>1. n \in 0 .. PageBound /\ d.last <= n
  BY MaxIsMax DEF PdfAssumption, Documents, PageCount
<1>2. d.errors \subseteq 1 .. n
  BY <1>1 DEF PdfAssumption, Documents, Inconsistent
<1>3. ConversionOf(d) = [pages |-> n, last |-> d.last, failed |-> d.errors,
                         units |-> IF n = 0 THEN NoPages ELSE n]
  BY DEF ConversionOf
<1> HIDE DEF n
<1> QED
  BY <1>1, <1>2, <1>3 DEF PdfAssumption, Documents, Conversions, Sound

\* The coverage of a document is its own, of every page that either child knows.
LEMMA CoverageIsTold ==
    ASSUME PdfAssumption, NEW a \in Conversions, Sound(a), counted \in 0 .. MaxPages,
           Checked(a) = "document"
    PROVE  LET total == Max2(counted, a.pages)
           IN  /\ CoverageOf(a) \in [units : NoPages .. PageBound, failed : SUBSET (1 .. PageBound)]
               /\ CoverageOf(a).units >= total \/ total = 0
               /\ a.failed \subseteq CoverageOf(a).failed
               /\ a.last <= total
               /\ CoverageOf(a).failed \subseteq 1 .. CoverageOf(a).units
<1> DEFINE total == Max2(counted, a.pages)
<1>1. total \in 0 .. PageBound /\ a.pages <= total
  BY MaxIsMax DEF PdfAssumption, Conversions
<1>2. /\ a.last <= total
      /\ a.units # NoPages => a.units = total
  BY <1>1 DEF Checked, Sound, PdfAssumption, Conversions
<1>3. CASE a.units # NoPages \/ total = 0
  <2>1. CoverageOf(a) = [units |-> a.units, failed |-> a.failed]
    BY <1>3 DEF CoverageOf
  <2> QED
    BY <1>1, <1>2, <1>3, <2>1 DEF Sound, PdfAssumption, Conversions
<1>4. CASE ~(a.units # NoPages \/ total = 0)
  <2>1. CoverageOf(a) = [units |-> total, failed |-> {}]
    BY <1>4 DEF CoverageOf
  <2>2. a.failed = {}
    BY <1>4 DEF Sound, PdfAssumption, Conversions
  <2> QED
    BY <1>1, <1>2, <1>4, <2>1, <2>2 DEF PdfAssumption, Conversions
<1> QED
  BY <1>3, <1>4

-----------------------------------------------------------------------------
(* The inductive invariant.                                                *)

\* What the child has done shows in the pipe.
ChildInv ==
    /\ child \in {"none", "running", "flushing"} => pipe = "empty"
    /\ child = "writing" => pipe = "part"
    /\ child = "exiting" => pipe = "whole"
    /\ child \in {"flushing", "writing"} \/ pipe # "empty" => message # Nothing
    /\ pipe = "empty" => ~inTime

\* Where the caller stands tells what has become of the child, and its verdict
\* what it has seen.
CallerInv ==
    /\ place = "idle" => child \in {"none", "dead"}
    /\ place \in {"looking", "checking"} => child = "dead"
    /\ place = "checking" => verdict = "answer" /\ received.kind # "error"
    /\ place # "ended" => outcome = "none"
    /\ verdict = "died" => child = "dead" /\ pipe = "empty"
    /\ verdict = "timeout" => expired /\ ~inTime
    /\ verdict = "interrupt" => interrupts > 0
    /\ outcome = "died" => verdict = "died"

\* A child answers what its stage asks for.
StageInv ==
    /\ message \in Whole => Sound(message.answer)
    /\ place = "idle" /\ stage = "inspect" => message = Nothing
    /\ place # "idle" =>
           message \in Errors \cup {Nothing} \cup (IF stage = "inspect" THEN Counts ELSE Whole)

PdfIInv ==
    /\ PdfTypeOK
    /\ ChildInv
    /\ CallerInv
    /\ StageInv
    /\ NoWorkerLeft
    /\ AnswerWins
    /\ AnswerIsWhole
    /\ CoverageTold

LEMMA MessagesAre == Messages = Counts \cup Whole \cup Errors
BY DEF Messages, Counts, Whole, Errors

LEMMA InitPdfIInv ==
    ASSUME PdfAssumption, PdfInit
    PROVE  PdfIInv
<1>1. NoCoverage \in [units : NoPages .. PageBound, failed : SUBSET (1 .. PageBound)]
  BY DEF PdfAssumption, NoCoverage
<1>2. Nothing \notin Whole
  BY DEF Nothing, Whole
<1>3. PdfTypeOK
  <2>1. counted \in 0 .. MaxPages /\ interrupts \in 0 .. MaxInterrupts
    BY DEF PdfAssumption, PdfInit
  <2>2. expired \in BOOLEAN /\ inTime \in BOOLEAN
    BY DEF PdfInit
  <2> QED
    BY <1>1, <2>1, <2>2 DEF PdfInit, PdfTypeOK
<1>4. ChildInv /\ CallerInv /\ StageInv
  BY <1>2 DEF PdfInit, ChildInv, CallerInv, StageInv
<1> QED
  BY <1>3, <1>4 DEF PdfInit, PdfIInv, NoWorkerLeft, AnswerWins, AnswerIsWhole, CoverageTold

LEMMA ChildKeepsPdfIInv ==
    ASSUME PdfAssumption, PdfIInv, Count \/ ConvertPages \/ Flush \/ ExitChild \/ DieAtWork
    PROVE  PdfIInv'
<1> USE DEF PdfIInv, ChildInv, CallerInv, StageInv, PdfTypeOK, NoWorkerLeft, AnswerWins,
        AnswerIsWhole, CoverageTold
<1>1. CASE Count
  <2>1. message' \in Counts \cup Errors /\ message' # Nothing /\ message' \notin Whole
    BY <1>1 DEF Count, Counts, Errors, Whole, Nothing
  <2>2. message' \in Messages
    BY <2>1, MessagesAre
  <2> QED
    BY <1>1, <2>1, <2>2 DEF Count
<1>2. CASE ConvertPages
  <2>1. /\ message' \in Whole \cup Errors /\ message' # Nothing
        /\ message' \in Whole => Sound(message'.answer)
    BY <1>2, ConversionIsSound DEF ConvertPages, Whole, Errors, Nothing
  <2>2. message' \in Messages
    BY <2>1, MessagesAre
  <2> QED
    BY <1>2, <2>1, <2>2 DEF ConvertPages
<1>3. CASE Flush
  <2>1. /\ inTime' \in BOOLEAN
        /\ inTime' => ~expired \/ inTime
    BY <1>3 DEF Flush
  <2>2. CASE child = "flushing" /\ child' = "writing" /\ pipe' = "part"
    BY <1>3, <2>1, <2>2 DEF Flush
  <2>3. CASE child \in {"flushing", "writing"} /\ child' = "exiting" /\ pipe' = "whole"
    BY <1>3, <2>1, <2>3 DEF Flush
  <2> QED
    BY <1>3, <2>2, <2>3 DEF Flush
<1>4. CASE ExitChild
  BY <1>4 DEF ExitChild
<1>5. CASE DieAtWork
  BY <1>5 DEF DieAtWork
<1> QED
  BY <1>1, <1>2, <1>3, <1>4, <1>5

LEMMA WaitingKeepsPdfIInv ==
    ASSUME PdfAssumption, PdfIInv,
           RefuseFile \/ Spawn \/ SeeAnswer \/ SeeDeath \/ LookAgain \/ TimeOut \/ Receive
    PROVE  PdfIInv'
<1> USE DEF PdfIInv, ChildInv, CallerInv, StageInv, PdfTypeOK, NoWorkerLeft, AnswerWins,
        AnswerIsWhole, CoverageTold
<1>1. CASE RefuseFile
  BY <1>1 DEF RefuseFile
<1>2. CASE Spawn
  <2>1. Nothing \notin Whole
    BY DEF Nothing, Whole
  <2> QED
    BY <1>2, <2>1 DEF Spawn
<1>3. CASE SeeAnswer
  BY <1>3 DEF SeeAnswer
<1>4. CASE SeeDeath
  BY <1>4 DEF SeeDeath
<1>5. CASE LookAgain
  BY <1>5 DEF LookAgain
<1>6. CASE TimeOut
  BY <1>6 DEF TimeOut
<1>7. CASE Receive
  BY <1>7 DEF Receive
<1> QED
  BY <1>1, <1>2, <1>3, <1>4, <1>5, <1>6, <1>7

LEMMA CleanupKeepsPdfIInv ==
    ASSUME PdfAssumption, PdfIInv, Joined \/ Escalate \/ GiveUpCleanup \/ Interrupt
    PROVE  PdfIInv'
<1> USE DEF PdfIInv, ChildInv, CallerInv, StageInv, PdfTypeOK, NoWorkerLeft, AnswerWins,
        AnswerIsWhole, CoverageTold
<1>1. CASE Joined
  <2>1. CASE verdict = "answer" /\ received.kind # "error"
    <3>1. place' = "checking" /\ outcome' = outcome
      BY <1>1, <2>1 DEF Joined, Conclude, Translated
    <3> QED
      BY <1>1, <2>1, <3>1 DEF Joined
  <2>2. CASE verdict = "answer" /\ received.kind = "error"
    <3>1. received \in Errors
      BY <2>2, MessagesAre DEF Counts, Whole, Nothing
    <3>2. place' = "ended" /\ outcome' \in Faults
      BY <1>1, <2>2, <3>1 DEF Joined, Conclude, Translated, RaiseError, Errors
    <3> QED
      BY <1>1, <2>2, <3>2 DEF Joined
  <2>3. CASE verdict # "answer"
    <3>1. place' = "ended" /\ outcome' = verdict
      BY <1>1, <2>3 DEF Joined, Conclude, RaiseError
    <3> QED
      BY <1>1, <2>3, <3>1 DEF Joined
  <2> QED
    BY <2>1, <2>2, <2>3
<1>2. CASE Escalate
  BY <1>2 DEF Escalate
<1>3. CASE GiveUpCleanup
  BY <1>3 DEF GiveUpCleanup, RaiseError
<1>4. CASE Interrupt
  BY <1>4 DEF Interrupt, RaiseError, PdfAssumption
<1> QED
  BY <1>1, <1>2, <1>3, <1>4

LEMMA CheckingKeepsPdfIInv ==
    ASSUME PdfAssumption, PdfIInv, NextStage \/ BuildDocument
    PROVE  PdfIInv'
<1> USE DEF PdfIInv, ChildInv, CallerInv, StageInv, PdfTypeOK, NoWorkerLeft, AnswerWins,
        AnswerIsWhole
<1>1. CASE NextStage
  <2>1. received \in Counts
    BY <1>1 DEF NextStage, Errors
  <2>2. received.pages \in 0 .. MaxPages
    BY <2>1 DEF Counts
  <2>3. outcome' # "document"
    BY <1>1 DEF NextStage, RaiseError
  <2> QED
    BY <1>1, <2>2, <2>3 DEF NextStage, RaiseError, CoverageTold
<1>2. CASE BuildDocument
  <2>1. received \in Whole /\ received = message
    BY <1>2 DEF BuildDocument, Errors
  <2>2. received.kind = "converted" /\ received.answer \in Conversions /\ Sound(received.answer)
    BY <2>1 DEF Whole
  <2>3. /\ outcome' = Checked(received.answer)
        /\ outcome' \in {"limit", "conversion", "document"}
        /\ place' = "ended"
    BY <1>2 DEF BuildDocument, RaiseError, Checked
  <2>4. /\ coverage' \in [units : NoPages .. PageBound, failed : SUBSET (1 .. PageBound)]
        /\ CoverageTold'
    <3>1. CASE Checked(received.answer) = "document"
      <4>1. coverage' = CoverageOf(received.answer) /\ UNCHANGED <<counted, received>>
        BY <1>2, <3>1 DEF BuildDocument
      <4> QED
        BY <2>2, <3>1, <4>1, CoverageIsTold DEF CoverageTold
    <3>2. CASE Checked(received.answer) # "document"
      <4>1. coverage' = NoCoverage
        BY <1>2, <3>2 DEF BuildDocument
      <4> QED
        BY <2>3, <3>2, <4>1 DEF CoverageTold, NoCoverage, PdfAssumption
    <3> QED
      BY <3>1, <3>2
  <2> QED
    BY <1>2, <2>2, <2>3, <2>4 DEF BuildDocument
<1> QED
  BY <1>1, <1>2

LEMMA NextPdfIInv ==
    ASSUME PdfAssumption, PdfIInv, [PdfNext]_pdfVars
    PROVE  PdfIInv'
<1> USE DEF PdfIInv, ChildInv, CallerInv, StageInv, PdfTypeOK, NoWorkerLeft, AnswerWins,
        AnswerIsWhole, CoverageTold
<1>1. CASE Expire
  BY <1>1 DEF Expire
<1>2. CASE UNCHANGED pdfVars
  BY <1>2 DEF pdfVars
<1> QED
  BY <1>1, <1>2, ChildKeepsPdfIInv, WaitingKeepsPdfIInv, CleanupKeepsPdfIInv, CheckingKeepsPdfIInv
  DEF PdfNext, Caller

(* Whatever its two workers do, die or take too long over, and whenever the user
   interrupts, a PDF conversion leaves no worker behind but for the two cases it
   gives up on, prefers an answer to a death and to the deadline, and returns
   only whole answers that tell every page (DoclingPdfAdapter.convert). *)
THEOREM PdfAnswers == ASSUME PdfAssumption PROVE PdfSpec => []PdfAnswerIsTrue
<1>1. PdfInit => PdfIInv
  BY InitPdfIInv
<1>2. PdfIInv /\ [PdfNext]_pdfVars => PdfIInv'
  BY NextPdfIInv
<1>3. PdfIInv => PdfAnswerIsTrue
  BY DEF PdfIInv, PdfAnswerIsTrue
<1> QED
  BY <1>1, <1>2, <1>3, PTL DEF PdfSpec

=============================================================================
