------------------------- MODULE ExtractionRunProofs -------------------------
(***************************************************************************)
(* What ExtractionRun promises of an extraction's result, proved for any   *)
(* number of chunks, surveys and units.  A result is made in one step from *)
(* the answers; so the invariant says that a round which is over without   *)
(* an exception has an answer of every chunk (RoundInv), the lemmas say    *)
(* what the operators make of the answers, and what a result says is kept  *)
(* because nothing it is about changes afterwards.                         *)
(***************************************************************************)
EXTENDS ExtractionRun, FiniteSetTheorems, WellFoundedInduction, TLAPS

-----------------------------------------------------------------------------
(* The elements of a finite set of numbers, each by how many are smaller.  *)

Below(W, c) == {d \in W : d < c}

\* Every set of numbers that is not empty has a least one.
LEMMA LeastNatural ==
    ASSUME NEW T \in SUBSET Nat, T # {}
    PROVE  \E x \in T : \A y \in T : x <= y
<1>1. IsWellFoundedOn(OpToRel(<, Nat), Nat)
  BY NatLessThanWellFounded
<1>2. PICK x \in T : \A y \in T : ~ (<<y, x>> \in OpToRel(<, Nat))
  BY <1>1, WFMin
<1>3. \A y \in T : ~(y < x)
  BY <1>2 DEF OpToRel
<1> QED BY <1>3

LEMMA BelowIsFinite ==
    ASSUME NEW W \in SUBSET Nat, IsFiniteSet(W), NEW c \in W
    PROVE  /\ IsFiniteSet(Below(W, c))
           /\ Cardinality(Below(W, c)) \in 0 .. Cardinality(W) - 1
<1>1. Below(W, c) \in SUBSET (W \ {c})
  BY DEF Below
<1>2. IsFiniteSet(W \ {c}) /\ Cardinality(W \ {c}) = Cardinality(W) - 1
  BY FS_RemoveElement
<1>3. IsFiniteSet(Below(W, c)) /\ Cardinality(Below(W, c)) <= Cardinality(W \ {c})
  BY <1>1, <1>2, FS_Subset
<1> DEFINE k == Cardinality(Below(W, c))
           m == Cardinality(W \ {c})
           n == Cardinality(W)
<1>4. k \in Nat /\ m \in Nat /\ n \in Nat
  BY <1>2, <1>3, FS_CardinalityType
<1>5. m = n - 1 /\ k <= m
  BY <1>2, <1>3
<1> HIDE DEF k, m, n
<1>6. k \in 0 .. n - 1
  BY <1>4, <1>5
<1> QED BY <1>3, <1>6 DEF k, n

LEMMA BelowGrows ==
    ASSUME NEW W \in SUBSET Nat, IsFiniteSet(W), NEW c \in W, NEW d \in W, c < d
    PROVE  Cardinality(Below(W, c)) < Cardinality(Below(W, d))
<1>1. Below(W, c) \in SUBSET Below(W, d) /\ c \in Below(W, d) /\ c \notin Below(W, c)
  <2>1. c \in Nat /\ d \in Nat /\ ~(c < c)
    OBVIOUS
  <2>2. ASSUME NEW e \in Below(W, c) PROVE e \in Below(W, d)
    <3>1. e \in W /\ e \in Nat /\ e < c
      BY DEF Below
    <3>2. e < d
      BY <2>1, <3>1
    <3> QED BY <3>1, <3>2 DEF Below
  <2> QED BY <2>1, <2>2 DEF Below
<1>2. IsFiniteSet(Below(W, d))
  BY BelowIsFinite
<1>3. /\ Cardinality(Below(W, c)) <= Cardinality(Below(W, d))
      /\ Cardinality(Below(W, d)) # Cardinality(Below(W, c))
  BY <1>1, <1>2, FS_Subset
<1>4. Cardinality(Below(W, c)) \in Nat /\ Cardinality(Below(W, d)) \in Nat
  BY BelowIsFinite, FS_CardinalityType
<1> QED BY <1>3, <1>4

\* No two elements have as many below them.
LEMMA RankIsUnique ==
    ASSUME NEW W \in SUBSET Nat, IsFiniteSet(W), NEW c \in W, NEW d \in W,
           Cardinality(Below(W, c)) = Cardinality(Below(W, d))
    PROVE  c = d
<1>1. IsFiniteSet(Below(W, c)) /\ IsFiniteSet(Below(W, d))
  BY BelowIsFinite
<1>2. PICK k \in Nat : k = Cardinality(Below(W, c)) /\ k = Cardinality(Below(W, d))
  BY <1>1, FS_CardinalityType
<1>3. ~(k < k)
  OBVIOUS
<1>4. ~(c < d) /\ ~(d < c)
  BY <1>2, <1>3, BelowGrows
<1>5. c \in Nat /\ d \in Nat
  OBVIOUS
<1> QED BY <1>4, <1>5

\* For each number smaller than the size there is the element with so many below it.
LEMMA EachRankIsTaken ==
    ASSUME NEW W \in SUBSET Nat, IsFiniteSet(W), NEW n \in 0 .. Cardinality(W) - 1
    PROVE  \E c \in W : Cardinality(Below(W, c)) = n
<1> DEFINE T == 0 .. Cardinality(W) - 1
           f == [c \in W |-> Cardinality(Below(W, c))]
<1>1. Cardinality(W) \in Nat
  BY FS_CardinalityType
<1>2. IsFiniteSet(T) /\ Cardinality(T) = Cardinality(W)
  BY <1>1, FS_Interval
<1>3. f \in [W -> T]
  BY BelowIsFinite
<1>4. ASSUME NEW c \in W, NEW d \in W, f[c] = f[d] PROVE c = d
  BY <1>4, RankIsUnique
<1> HIDE DEF f, T
<1>5. f \in Injection(W, T)
  BY <1>3, <1>4 DEF Injection, IsInjective
<1>6. f \in Surjection(W, T)
  BY <1>2, <1>5, FS_Injection
<1>7. \E c \in W : f[c] = n
  BY <1>6 DEF Surjection, T
<1> QED BY <1>7 DEF f

-----------------------------------------------------------------------------
(* The parts of a result.                                                  *)

LEMMA WrittenIsFinite ==
    ASSUME count \in Nat
    PROVE  Written \in SUBSET Nat /\ IsFiniteSet(Written) /\ Cardinality(Written) \in Nat
<1>1. IsFiniteSet(Active)
  BY FS_Interval DEF Active
<1>2. Written \in SUBSET Active
  BY DEF Written, Gave
<1>3. IsFiniteSet(Written)
  BY <1>1, <1>2, FS_Subset
<1>4. Written \in SUBSET Nat
  BY <1>2 DEF Active
<1> QED BY <1>3, <1>4, FS_CardinalityType

\* The parts are the chunks with variables, all of them, in the order of the document.
LEMMA PartsInOrder ==
    ASSUME count \in Nat
    PROVE  /\ ToSet(Parts) = Written
           /\ \A i, j \in DOMAIN Parts : i < j => Parts[i] < Parts[j]
<1>1. Written \in SUBSET Nat /\ IsFiniteSet(Written) /\ Cardinality(Written) \in Nat
  BY WrittenIsFinite
<1>2. DOMAIN Parts = 1 .. Cardinality(Written)
  BY DEF Parts
<1>3. ASSUME NEW i \in DOMAIN Parts
      PROVE  Parts[i] \in Written /\ Cardinality(Below(Written, Parts[i])) = i - 1
  <2>1. Parts[i] = CHOOSE c \in Written : Cardinality(Below(Written, c)) = i - 1
    BY <1>2, <1>3 DEF Parts, Below
  <2>2. \E c \in Written : Cardinality(Below(Written, c)) = i - 1
    BY <1>1, <1>2, EachRankIsTaken
  <2> QED BY <2>1, <2>2
<1>4. ASSUME NEW c \in Written PROVE c \in ToSet(Parts)
  <2>1. PICK n \in 0 .. Cardinality(Written) - 1 : n = Cardinality(Below(Written, c))
    BY <1>1, BelowIsFinite
  <2>2. PICK i \in DOMAIN Parts : i - 1 = n
    <3>1. n + 1 \in DOMAIN Parts /\ (n + 1) - 1 = n
      BY <1>1, <1>2
    <3> QED BY <3>1
  <2>3. PICK d \in Written : d = Parts[i] /\ Cardinality(Below(Written, d)) = n
    BY <1>3, <2>2
  <2>4. c = d
    BY <1>1, <2>1, <2>3, RankIsUnique
  <2> QED BY <2>3, <2>4 DEF ToSet
<1>5. ToSet(Parts) \subseteq Written
  BY <1>3 DEF ToSet
<1>6. ASSUME NEW i \in DOMAIN Parts, NEW j \in DOMAIN Parts, i < j
      PROVE  Parts[i] < Parts[j]
  <2>1. PICK c \in Written : c = Parts[i] /\ Cardinality(Below(Written, c)) = i - 1
    BY <1>3
  <2>2. PICK d \in Written : d = Parts[j] /\ Cardinality(Below(Written, d)) = j - 1
    BY <1>3
  <2>3. i - 1 < j - 1 /\ i - 1 # j - 1 /\ ~(j - 1 < i - 1)
    BY <1>1, <1>2, <1>6
  <2>4. c # d
    BY <2>1, <2>2, <2>3
  <2>5. ~(d < c)
    <3>1. d < c => j - 1 < i - 1
      BY <1>1, <2>1, <2>2, BelowGrows
    <3> QED BY <2>3, <3>1
  <2>6. c \in Nat /\ d \in Nat
    BY <1>1
  <2>7. c < d
    BY <2>4, <2>5, <2>6
  <2> QED BY <2>1, <2>2, <2>7
<1> QED BY <1>4, <1>5, <1>6

-----------------------------------------------------------------------------
(* The invariant.                                                          *)

\* A round without an exception has calls that run and calls that answered, and no
\* others; a result or an exception is the end.
RoundInv ==
    /\ pc = "start" => count = 0 /\ first = "none"
    /\ pc = "metadata" => pipeline = "svis"
    /\ pc = "blocks" /\ pipeline = "single" => count = 1
    /\ pc \in Rounds /\ first = "none" => \A c \in Active : task[c] \in {"running", "done"}
    /\ pc = "blocks" => \A c \in Active : task[c] = "done" => block[c] # Unset
    /\ Returned \/ raised # "none" => pc = "ended"

Report == NothingLost /\ SuccessIsWhole /\ OrderDoesNotShow

IInv == ExtractionTypeOK /\ RoundInv /\ Report /\ OnlyErrorsLeaveCalls

Answers == Usable \cup Failures

\* A round of blocks that is over without an exception has every chunk's answer.
LEMMA BlocksAnswered ==
    ASSUME RunAssumption, ExtractionTypeOK, RoundInv, RoundOver("blocks")
    PROVE  \A c \in Active : block[c] \in Answers
<1> SUFFICES ASSUME NEW c \in Active PROVE block[c] \in Answers
  OBVIOUS
<1>1. c \in Chunks
  BY DEF RunAssumption, ExtractionTypeOK, Active, Chunks
<1>2. task[c] = "done"
  BY <1>1 DEF RoundInv, RoundOver, Quiet, Rounds
<1>3. block[c] # Unset
  BY <1>2 DEF RoundInv, RoundOver
<1> QED BY <1>1, <1>3 DEF ExtractionTypeOK, Answers

\* The metadata of a survey are those of the first chunk that gave any.
LEMMA MetadataOfTheFirst ==
    ASSUME RunAssumption, ExtractionTypeOK, SurveyMetadata \in Surveys
    PROVE  \E m \in Answered : metadata[m] = SurveyMetadata /\ \A d \in Answered : m <= d
<1>1. Answered # {}
  BY DEF SurveyMetadata, RunAssumption
<1>2. Answered \in SUBSET Nat
  BY DEF Answered, Active, ExtractionTypeOK
<1>3. \E m \in Answered : \A d \in Answered : m <= d
  BY <1>1, <1>2, LeastNatural
<1> QED BY <1>1, <1>3 DEF SurveyMetadata

\* What was reported stays true: nothing it is about changes after the end.
LEMMA ReportStays ==
    ASSUME RoundInv, Report, result' = result,
           pc = "ended" => UNCHANGED <<document, count, answers>>
    PROVE  Report'
<1>1. CASE ~Returned
  <2>1. ~Returned'
    BY <1>1 DEF Returned
  <2> QED BY <2>1 DEF AllMade, Report, NothingLost, SuccessIsWhole, OrderDoesNotShow
<1>2. CASE Returned
  <2>1. UNCHANGED <<pipeline, partialOK, unreadable, count, metadata, block, result>>
    BY <1>2 DEF RoundInv, document, answers
  <2>2. NothingLost'
    BY <2>1 DEF Report, NothingLost, AllMade, Returned, Active, SourceFailures, ToSet
  <2>3. SuccessIsWhole'
    BY <2>1 DEF Report, SuccessIsWhole, Returned, Status, Active
  <2>4. OrderDoesNotShow'
    BY <2>1 DEF Report, OrderDoesNotShow, Returned, Active
  <2> QED BY <2>2, <2>3, <2>4 DEF Report
<1> QED BY <1>1, <1>2

-----------------------------------------------------------------------------
(* The steps that return a result.                                         *)

\* The end of extract leaves everything but the result and the exception alone.
LEMMA Ending ==
    ASSUME IInv, pc # "ended", pc' = "ended",
           UNCHANGED <<document, count, task, first, answers>>,
           result'.output \in {"pending", "none", "survey", "custom"},
           raised' \in {"none", "control", "error"}, raised' # "error" => Quiet
    PROVE  ExtractionTypeOK' /\ RoundInv' /\ OnlyErrorsLeaveCalls'
<1>1. UNCHANGED <<pipeline, partialOK, unreadable, count, task, first, metadata, block>>
  BY DEF document, answers
<1>2. ExtractionTypeOK'
  BY <1>1 DEF IInv, ExtractionTypeOK, Active, Rounds
<1>3. RoundInv'
  BY DEF RoundInv, Rounds
<1>4. OnlyErrorsLeaveCalls'
  BY <1>1 DEF OnlyErrorsLeaveCalls, Quiet
<1> QED BY <1>2, <1>3, <1>4

LEMMA CannotChunkStep ==
    ASSUME IInv, CannotChunk
    PROVE  IInv'
<1>1. /\ UNCHANGED <<document, count, task, first, answers>>
      /\ pc = "start" /\ pc' = "ended" /\ count = 0 /\ raised' = "none"
      /\ result' = FailedResult({}, "capability")
  BY DEF CannotChunk, Return, IInv, RoundInv, ExtractionTypeOK
<1>2. result'.output = "none"
  BY <1>1 DEF FailedResult, NoResult
<1>3. ExtractionTypeOK' /\ RoundInv' /\ OnlyErrorsLeaveCalls'
  <2>1. Quiet
    BY <1>1 DEF IInv, ExtractionTypeOK, Active, Quiet
  <2> QED BY <1>1, <1>2, <2>1, Ending
<1>4. NothingLost'
  BY <1>1 DEF NothingLost, AllMade
<1>5. SuccessIsWhole'
  BY <1>2 DEF SuccessIsWhole, Status
<1>6. OrderDoesNotShow'
  <2>1. result'.parts = <<>>
    BY <1>1 DEF FailedResult, NoResult
  <2>2. DOMAIN result'.parts = {}
    BY <2>1
  <2>3. Active' = {}
    BY <1>1 DEF Active
  <2> QED BY <2>2, <2>3 DEF OrderDoesNotShow
<1> QED BY <1>3, <1>4, <1>5, <1>6 DEF IInv, Report

LEMMA BlocksOverStep ==
    ASSUME RunAssumption, IInv, BlocksOver
    PROVE  IInv'
<1>1. /\ UNCHANGED <<document, count, task, first, answers>>
      /\ pc = "blocks" /\ pc' = "ended" /\ raised' = "none"
      /\ result' = SurveyResult
      /\ RoundOver("blocks")
  BY DEF BlocksOver, RoundOver, Return, IInv, RoundInv, ExtractionTypeOK
<1>2. UNCHANGED <<pipeline, unreadable, count, metadata, block>>
  BY <1>1 DEF document, answers
<1>3. /\ result'.output = (IF Parts = <<>> THEN "none" ELSE "survey")
      /\ result'.parts = Parts
      /\ result'.metadata = SurveyMetadata
      /\ result'.failed = SourceFailures \cup ChunkFailures
      /\ MetadataDiagnostics \subseteq result'.codes
  <2>1. PICK codes : codes = MetadataDiagnostics \cup SourceDiagnostics \cup BlockCodes
    OBVIOUS
  <2>2. result' = [output   |-> IF Parts = <<>> THEN "none" ELSE "survey",
                   parts    |-> Parts,
                   metadata |-> SurveyMetadata,
                   failed   |-> SourceFailures \cup ChunkFailures,
                   codes    |-> IF Parts = <<>> /\ codes = {} THEN {"block_failed"} ELSE codes]
    BY <1>1, <2>1 DEF SurveyResult
  <2> QED BY <2>1, <2>2
<1>4. ExtractionTypeOK' /\ RoundInv' /\ OnlyErrorsLeaveCalls'
  BY <1>1, <1>3, Ending DEF RoundOver
<1>5. \A c \in Active : block[c] \in Answers
  BY <1>1, BlocksAnswered DEF IInv
<1>6. count \in Nat
  BY DEF IInv, ExtractionTypeOK
<1>7. ToSet(Parts) = Written /\ \A i, j \in DOMAIN Parts : i < j => Parts[i] < Parts[j]
  BY <1>6, PartsInOrder
<1>8. NothingLost'
  <2>1. SourceFailures' \subseteq result'.failed
    BY <1>2, <1>3 DEF SourceFailures
  <2>2. ASSUME NEW c \in Active', block'[c] \in Failures \cup {"excluded"}
        PROVE  <<"chunk", c>> \in result'.failed
    BY <1>2, <1>3, <2>2 DEF ChunkFailures, Gave, Active
  <2>3. ASSUME NEW c \in Active', block'[c] = "variables"
        PROVE  c \in ToSet(result'.parts)
    BY <1>2, <1>3, <1>7, <2>3 DEF Written, Gave, Active
  <2> QED BY <2>1, <2>2, <2>3 DEF NothingLost
<1>9. SuccessIsWhole'
  <2> SUFFICES ASSUME Returned', Status(result)' = "success"
               PROVE  /\ unreadable' = {}
                      /\ \A c \in Active' : block'[c] \in {"variables", "nothing"}
                      /\ pipeline' = "svis" => \E t \in Surveys : \A c \in Active' : metadata'[c] = t
    BY DEF SuccessIsWhole
  <2>1. result'.failed = {} /\ "metadata_incomplete" \notin result'.codes
    BY DEF Status, PartialCodes
  <2>2. unreadable = {}
    BY <1>3, <2>1 DEF SourceFailures
  <2>3. ASSUME NEW c \in Active, block[c] \in Failures \cup {"excluded"} PROVE FALSE
    <3>1. <<"chunk", c>> \in ChunkFailures
      BY <2>3 DEF ChunkFailures, Gave
    <3> QED BY <1>3, <2>1, <3>1
  <2>4. \A c \in Active : block[c] \in {"variables", "nothing"}
    BY <1>5, <2>3 DEF Answers, Usable
  <2>5. Answered # {} /\ \A c \in Active : metadata[c] = SurveyMetadata
    BY <1>3, <2>1 DEF MetadataDiagnostics
  <2>6. SurveyMetadata \in Surveys
    BY <2>5 DEF Answered
  <2> QED BY <1>2, <2>2, <2>4, <2>5, <2>6 DEF Active
<1>10. OrderDoesNotShow'
  <2>1. ASSUME NEW c \in Active, SurveyMetadata \in Surveys, metadata[c] \in Surveys,
               metadata[c] # SurveyMetadata
        PROVE  \E d \in 1 .. c - 1 : metadata[d] = SurveyMetadata
    <3>1. PICK m \in Answered : metadata[m] = SurveyMetadata /\ \A d \in Answered : m <= d
      BY <2>1, MetadataOfTheFirst DEF IInv
    <3>2. c \in Answered
      BY <2>1 DEF Answered
    <3>3. m <= c /\ m # c
      BY <2>1, <3>1, <3>2
    <3>4. m \in Nat /\ c \in Nat /\ 1 <= m
      BY <1>6 DEF Answered, Active
    <3>5. m \in 1 .. c - 1
      BY <3>3, <3>4
    <3> QED BY <3>1, <3>5
  <2> QED BY <1>2, <1>3, <1>7, <2>1 DEF OrderDoesNotShow, Active
<1> QED BY <1>4, <1>8, <1>9, <1>10 DEF IInv, Report

\* A result with output of a custom pipeline: nothing failed but what it names.
LEMMA CustomOutput ==
    ASSUME RunAssumption, IInv, RoundOver("blocks"), pipeline # "svis", pc' = "ended",
           UNCHANGED <<document, count, task, first, answers, raised>>,
           result'.output = "custom", result'.parts = Parts, result'.metadata = Unset,
           result'.failed = SourceFailures \cup ChunkFailures
    PROVE  IInv'
<1>1. UNCHANGED <<pipeline, unreadable, count, metadata, block>>
  BY DEF document, answers
<1>2. pc # "ended" /\ raised' = "none"
  BY DEF IInv, RoundInv, ExtractionTypeOK, RoundOver
<1>3. ExtractionTypeOK' /\ RoundInv' /\ OnlyErrorsLeaveCalls'
  BY <1>2, Ending DEF RoundOver
<1>4. \A c \in Active : block[c] \in Answers
  BY BlocksAnswered DEF IInv
<1>5. count \in Nat
  BY DEF IInv, ExtractionTypeOK
<1>6. ToSet(Parts) = Written /\ \A i, j \in DOMAIN Parts : i < j => Parts[i] < Parts[j]
  BY <1>5, PartsInOrder
<1>7. NothingLost'
  <2>1. SourceFailures' \subseteq result'.failed
    BY <1>1 DEF SourceFailures
  <2>2. ASSUME NEW c \in Active', block'[c] \in Failures \cup {"excluded"}
        PROVE  <<"chunk", c>> \in result'.failed
    BY <1>1, <2>2 DEF ChunkFailures, Gave, Active
  <2>3. ASSUME NEW c \in Active', block'[c] = "variables"
        PROVE  c \in ToSet(result'.parts)
    BY <1>1, <1>6, <2>3 DEF Written, Gave, Active
  <2> QED BY <2>1, <2>2, <2>3 DEF NothingLost
<1>8. SuccessIsWhole'
  <2> SUFFICES ASSUME Returned', Status(result)' = "success"
               PROVE  /\ unreadable' = {}
                      /\ \A c \in Active' : block'[c] \in {"variables", "nothing"}
    BY <1>1 DEF SuccessIsWhole
  <2>1. result'.failed = {}
    BY DEF Status
  <2>2. unreadable = {}
    BY <2>1 DEF SourceFailures
  <2>3. \A c \in Active : block[c] \notin Failures \cup {"excluded"}
    BY <2>1 DEF ChunkFailures, Gave
  <2>4. \A c \in Active : block[c] \in {"variables", "nothing"}
    BY <1>4, <2>3 DEF Answers, Usable
  <2> QED BY <1>1, <2>2, <2>4 DEF Active
<1>9. OrderDoesNotShow'
  BY <1>6 DEF OrderDoesNotShow, RunAssumption
<1> QED BY <1>3, <1>7, <1>8, <1>9 DEF IInv, Report

\* A result without output: it names all the failures, if it is one that has to.
LEMMA NoOutput ==
    ASSUME RunAssumption, IInv, RoundOver("blocks"), pc' = "ended",
           UNCHANGED <<document, count, task, first, answers, raised>>,
           result'.output = "none", result'.parts = <<>>, result'.metadata = Unset,
           pipeline = "single" \/ result'.failed = SourceFailures \cup ChunkFailures
    PROVE  IInv'
<1>1. UNCHANGED <<pipeline, unreadable, count, metadata, block>>
  BY DEF document, answers
<1>2. pc # "ended" /\ raised' = "none"
  BY DEF IInv, RoundInv, ExtractionTypeOK, RoundOver
<1>3. ExtractionTypeOK' /\ RoundInv' /\ OnlyErrorsLeaveCalls'
  BY <1>2, Ending DEF RoundOver
<1>4. NothingLost'
  <2> SUFFICES ASSUME pipeline # "single"
               PROVE  /\ SourceFailures' \subseteq result'.failed
                      /\ \A c \in Active' : block'[c] \in Failures \cup {"excluded"}
                                            => <<"chunk", c>> \in result'.failed
    BY <1>1 DEF NothingLost
  <2> QED BY <1>1 DEF SourceFailures, ChunkFailures, Gave, Active
<1>5. SuccessIsWhole'
  BY DEF SuccessIsWhole, Status
<1>6. OrderDoesNotShow'
  <2>1. DOMAIN result'.parts = {}
    OBVIOUS
  <2> QED BY <2>1 DEF OrderDoesNotShow, RunAssumption
<1> QED BY <1>3, <1>4, <1>5, <1>6 DEF IInv, Report

LEMMA SingleOverStep ==
    ASSUME RunAssumption, IInv, SingleOver
    PROVE  IInv'
<1>1. /\ RoundOver("blocks") /\ pipeline = "single" /\ pc' = "ended"
      /\ UNCHANGED <<document, count, task, first, answers, raised>>
  BY DEF SingleOver, Return
<1>2. CASE block[1] = "variables"
  <2>1. result' = [NoResult EXCEPT !.output = "custom", !.parts = Parts,
                       !.failed = SourceFailures, !.codes = SourceDiagnostics]
    BY <1>2 DEF SingleOver, Return
  <2>2. /\ result'.output = "custom" /\ result'.parts = Parts /\ result'.metadata = Unset
        /\ result'.failed = SourceFailures
    BY <2>1 DEF NoResult
  <2>3. Active = {1}
    BY <1>1 DEF IInv, RoundInv, RoundOver, Active
  <2>4. ChunkFailures = {}
    BY <1>2, <2>3 DEF ChunkFailures, Gave, Failures
  <2> QED BY <1>1, <2>2, <2>4, CustomOutput
<1>3. CASE block[1] # "variables"
  <2>1. result' = FailedResult({}, "failed")
    BY <1>3 DEF SingleOver, Return
  <2>2. result'.output = "none" /\ result'.parts = <<>> /\ result'.metadata = Unset
    BY <2>1 DEF FailedResult, NoResult
  <2> QED BY <1>1, <2>2, NoOutput
<1> QED BY <1>2, <1>3

LEMMA StrictStep ==
    ASSUME RunAssumption, IInv, Strict
    PROVE  IInv'
<1>1. /\ RoundOver("blocks") /\ pc' = "ended"
      /\ UNCHANGED <<document, count, task, first, answers, raised>>
  BY DEF Strict, Return
<1>2. result' = [NoResult EXCEPT !.output = "none", !.codes = CustomCodes,
                  !.failed = SourceFailures \cup ChunkFailures]
  BY DEF Strict, Return
<1>3. /\ result'.output = "none" /\ result'.parts = <<>> /\ result'.metadata = Unset
      /\ result'.failed = SourceFailures \cup ChunkFailures
  BY <1>2 DEF NoResult
<1> QED BY <1>1, <1>3, NoOutput

LEMMA ReduceStep ==
    ASSUME RunAssumption, IInv, Reduce
    PROVE  IInv'
<1>1. /\ RoundOver("blocks") /\ pipeline # "svis" /\ pc' = "ended"
      /\ UNCHANGED <<document, count, task, first, answers>>
  BY DEF Reduce, Return
<1>2. CASE Return([NoResult EXCEPT !.output = "custom", !.parts = Parts,
                     !.codes = CustomCodes, !.failed = SourceFailures \cup ChunkFailures])
  <2>1. /\ result'.output = "custom" /\ result'.parts = Parts /\ result'.metadata = Unset
        /\ result'.failed = SourceFailures \cup ChunkFailures
        /\ raised' = raised
    BY <1>2 DEF Return, NoResult
  <2> QED BY <1>1, <2>1, CustomOutput
<1>3. CASE Return(FailedResult(SourceFailures \cup ChunkFailures, "failed"))
  <2>1. /\ result'.output = "none" /\ result'.parts = <<>> /\ result'.metadata = Unset
        /\ result'.failed = SourceFailures \cup ChunkFailures
        /\ raised' = raised
    BY <1>3 DEF Return, FailedResult, NoResult
  <2> QED BY <1>1, <2>1, NoOutput
<1>4. CASE raised' = "control" /\ UNCHANGED result
  <2>1. pc # "ended" /\ Quiet /\ result'.output \in {"pending", "none", "survey", "custom"}
    BY <1>1, <1>4 DEF RoundOver, IInv, ExtractionTypeOK
  <2>2. ExtractionTypeOK' /\ RoundInv' /\ OnlyErrorsLeaveCalls'
    BY <1>1, <1>4, <2>1, Ending
  <2>3. Report'
    BY <1>1, <1>4, ReportStays DEF IInv
  <2> QED BY <2>2, <2>3 DEF IInv
<1> QED BY <1>2, <1>3, <1>4 DEF Reduce

-----------------------------------------------------------------------------
(* The other steps.                                                        *)

LEMMA StartStep ==
    ASSUME RunAssumption, IInv, Start
    PROVE  IInv'
<1>1. /\ pc = "start" /\ count = 0 /\ first = "none" /\ raised = "none" /\ ~Returned
      /\ UNCHANGED <<pipeline, partialOK, unreadable, first, metadata, block, raised, result>>
  BY DEF Start, IInv, RoundInv, ExtractionTypeOK, document, answers
<1>2. /\ count' \in 0 .. MaxChunks
      /\ pipeline = "single" => count' = 1
      /\ pc' = IF pipeline = "svis" THEN "metadata" ELSE "blocks"
      /\ task' = [c \in Chunks |-> IF c <= count' THEN "running" ELSE "none"]
  BY DEF Start, Gather, RunAssumption
<1>3. Active' \subseteq Chunks /\ \A c \in Chunks : c \in Active' <=> c <= count'
  BY <1>2 DEF Active, Chunks, RunAssumption
<1>4. ExtractionTypeOK'
  <2>1. \A c \in Chunks \ Active' : task'[c] = "none" /\ block'[c] = Unset
    <3>1. Active = {}
      BY <1>1 DEF Active
    <3> QED BY <1>1, <1>2, <1>3, <3>1 DEF IInv, ExtractionTypeOK
  <2>2. task' \in [Chunks -> {"none", "running", "done", "control", "error", "cancelled"}]
    BY <1>2
  <2> QED BY <1>1, <1>2, <2>1, <2>2 DEF IInv, ExtractionTypeOK, Rounds
<1>5. RoundInv'
  <2>1. \A c \in Active' : task'[c] = "running"
    BY <1>2, <1>3
  <2>2. ~Returned'
    BY <1>1 DEF Returned
  <2> QED BY <1>1, <1>2, <2>1, <2>2 DEF RoundInv
<1>6. Report'
  BY <1>1, ReportStays DEF IInv
<1>7. OnlyErrorsLeaveCalls'
  BY <1>1, <1>2 DEF OnlyErrorsLeaveCalls
<1> QED BY <1>4, <1>5, <1>6, <1>7 DEF IInv

LEMMA MetadataOverStep ==
    ASSUME RunAssumption, IInv, MetadataOver
    PROVE  IInv'
<1>1. /\ pc = "metadata" /\ pc' = "blocks" /\ pipeline = "svis" /\ first = "none"
      /\ raised = "none" /\ ~Returned
      /\ UNCHANGED <<pipeline, partialOK, unreadable, count, first, metadata, block, raised, result>>
  BY DEF MetadataOver, RoundOver, Gather, IInv, RoundInv, ExtractionTypeOK, document, answers
<1>2. task' = [c \in Chunks |-> IF c <= count THEN "running" ELSE "none"]
  BY DEF MetadataOver, Gather
<1>3. /\ count \in 0 .. MaxChunks /\ Active' = Active
      /\ Active \subseteq Chunks /\ \A c \in Chunks : c \in Active <=> c <= count
  BY <1>1 DEF IInv, ExtractionTypeOK, Active, Chunks, RunAssumption
<1>4. ExtractionTypeOK'
  BY <1>1, <1>2, <1>3 DEF IInv, ExtractionTypeOK, Rounds
<1>5. RoundInv'
  <2>1. \A c \in Active' : task'[c] = "running"
    BY <1>2, <1>3
  <2>2. ~Returned'
    BY <1>1 DEF Returned
  <2> QED BY <1>1, <2>1, <2>2 DEF RoundInv
<1>6. Report'
  BY <1>1, ReportStays DEF IInv
<1>7. OnlyErrorsLeaveCalls'
  BY <1>1 DEF OnlyErrorsLeaveCalls
<1> QED BY <1>4, <1>5, <1>6, <1>7 DEF IInv

LEMMA MetadataAnswerStep ==
    ASSUME IInv, NEW c \in Chunks, MetadataAnswer(c)
    PROVE  IInv'
<1>1. /\ pc = "metadata" /\ pc' = "metadata" /\ raised = "none" /\ ~Returned
      /\ task[c] = "running" /\ task' = [task EXCEPT ![c] = "done"]
      /\ UNCHANGED <<pipeline, partialOK, unreadable, count, first, block, raised, result>>
  BY DEF MetadataAnswer, EndTask, IInv, RoundInv, ExtractionTypeOK, document
<1>2. PICK a \in Surveys \cup {"failed"} : metadata' = [metadata EXCEPT ![c] = a]
  BY DEF MetadataAnswer
<1>3. Active' = Active /\ c \in Active
  BY <1>1 DEF IInv, ExtractionTypeOK, Active
<1>4. ExtractionTypeOK'
  BY <1>1, <1>2, <1>3 DEF IInv, ExtractionTypeOK, Rounds
<1>5. RoundInv'
  <2>1. ~Returned'
    BY <1>1 DEF Returned
  <2> QED BY <1>1, <1>3, <2>1 DEF IInv, ExtractionTypeOK, RoundInv, Rounds
<1>6. Report'
  BY <1>1, ReportStays DEF IInv
<1>7. OnlyErrorsLeaveCalls'
  BY <1>1 DEF OnlyErrorsLeaveCalls
<1> QED BY <1>4, <1>5, <1>6, <1>7 DEF IInv

LEMMA BlockAnswerStep ==
    ASSUME RunAssumption, IInv, NEW c \in Chunks, BlockAnswer(c)
    PROVE  IInv'
<1>1. /\ pc = "blocks" /\ pc' = "blocks" /\ raised = "none" /\ ~Returned
      /\ task[c] = "running" /\ task' = [task EXCEPT ![c] = "done"]
      /\ UNCHANGED <<pipeline, partialOK, unreadable, count, first, metadata, raised, result>>
  BY DEF BlockAnswer, EndTask, IInv, RoundInv, ExtractionTypeOK, document
<1>2. PICK a \in Answers : block' = [block EXCEPT ![c] = a]
  BY DEF BlockAnswer, Answers
<1>3. Active' = Active /\ c \in Active /\ a # Unset
  BY <1>1 DEF IInv, ExtractionTypeOK, Active, Answers, Usable, Failures, Unset
<1>4. ExtractionTypeOK'
  BY <1>1, <1>2, <1>3 DEF IInv, ExtractionTypeOK, Rounds, Answers
<1>5. RoundInv'
  <2>1. ~Returned'
    BY <1>1 DEF Returned
  <2>2. \A d \in Active : d \in Chunks => task'[d] \in {"running", "done"} \/ task'[d] = task[d]
    BY <1>1 DEF IInv, ExtractionTypeOK
  <2>3. \A d \in Active : d \in Chunks /\ task'[d] = "done" => block'[d] # Unset
    BY <1>1, <1>2, <1>3 DEF IInv, ExtractionTypeOK, RoundInv
  <2>4. Active \subseteq Chunks
    BY DEF IInv, ExtractionTypeOK, Active, Chunks, RunAssumption
  <2> QED BY <1>1, <1>3, <2>1, <2>2, <2>3, <2>4 DEF IInv, RoundInv, Rounds
<1>6. Report'
  BY <1>1, ReportStays DEF IInv
<1>7. OnlyErrorsLeaveCalls'
  BY <1>1 DEF OnlyErrorsLeaveCalls
<1> QED BY <1>4, <1>5, <1>6, <1>7 DEF IInv

\* A step of the tasks alone, in a round that raised or is cancelled, or after the end.
LEMMA TaskEnds ==
    ASSUME IInv, NEW c \in Chunks, NEW how \in {"done", "control", "error", "cancelled"},
           EndTask(c, how), UNCHANGED <<document, count, pc, answers, raised, result>>,
           pc # "start", pc \in Rounds => how # "done" /\ first' # "none",
           first' \in {"none", "control", "error"}
    PROVE  IInv'
<1>1. /\ task[c] = "running" /\ task' = [task EXCEPT ![c] = how]
      /\ UNCHANGED <<pipeline, partialOK, unreadable, count, pc, metadata, block, raised, result>>
  BY DEF EndTask, document, answers
<1>2. Active' = Active /\ c \in Active
  BY <1>1 DEF IInv, ExtractionTypeOK, Active
<1>3. ExtractionTypeOK'
  BY <1>1, <1>2 DEF IInv, ExtractionTypeOK
<1>4. RoundInv'
  <2>1. pc = "blocks" => \A d \in Active : task'[d] = "done" => block[d] # Unset
    BY <1>1 DEF IInv, RoundInv, ExtractionTypeOK, Rounds
  <2>2. Returned' <=> Returned
    BY <1>1 DEF Returned
  <2> QED BY <1>1, <1>2, <2>1, <2>2 DEF IInv, RoundInv
<1>5. Report'
  BY <1>1, ReportStays DEF IInv, document, answers
<1>6. OnlyErrorsLeaveCalls'
  BY <1>1 DEF IInv, OnlyErrorsLeaveCalls, Quiet
<1> QED BY <1>3, <1>4, <1>5, <1>6 DEF IInv

LEMMA RaiseStep ==
    ASSUME IInv, NEW c \in Chunks, Raise(c)
    PROVE  IInv'
<1>1. PICK kind \in {"control", "error"} :
        EndTask(c, kind) /\ first' = IF first = "none" THEN kind ELSE first
  BY DEF Raise
<1>2. /\ pc \in Rounds /\ pc # "start"
      /\ UNCHANGED <<document, count, pc, answers, raised, result>>
  BY DEF Raise, Rounds
<1>3. first' \in {"control", "error"}
  BY <1>1 DEF IInv, ExtractionTypeOK
<1> QED BY <1>1, <1>2, <1>3, TaskEnds

LEMMA StopStep ==
    ASSUME IInv, NEW c \in Chunks, Stop(c)
    PROVE  IInv'
<1>1. /\ EndTask(c, "cancelled") /\ pc \notin Rounds /\ pc # "start"
      /\ UNCHANGED <<document, count, pc, first, answers, raised, result>>
  BY DEF Stop, Rounds
<1> QED BY <1>1, TaskEnds DEF IInv, ExtractionTypeOK

LEMMA EndUnseenStep ==
    ASSUME IInv, NEW c \in Chunks, EndUnseen(c)
    PROVE  IInv'
<1>1. /\ EndTask(c, "done") /\ pc \notin Rounds /\ pc # "start"
      /\ UNCHANGED <<document, count, pc, first, answers, raised, result>>
  BY DEF EndUnseen, Rounds
<1> QED BY <1>1, TaskEnds DEF IInv, ExtractionTypeOK

\* A step of the pipeline in a round that raised, or its cancellation.
LEMMA CancelStep ==
    ASSUME IInv, Cancel \/ CancelSiblings
    PROVE  IInv'
<1>1. /\ pc \in Rounds /\ pc' \in {pc, "cancelling"} /\ first' = "control"
      /\ UNCHANGED <<pipeline, partialOK, unreadable, count, task, metadata, block, raised, result>>
  BY DEF Cancel, CancelSiblings, document, answers
<1>2. raised = "none" /\ ~Returned /\ pc # "ended" /\ pc # "start" /\ pc' # "ended" /\ pc' # "start"
  BY <1>1 DEF IInv, RoundInv, ExtractionTypeOK, Rounds
<1>3. ExtractionTypeOK'
  BY <1>1 DEF IInv, ExtractionTypeOK, Active
<1>4. RoundInv'
  <2>1. ~Returned'
    BY <1>1, <1>2 DEF Returned
  <2> QED BY <1>1, <1>2, <2>1 DEF IInv, RoundInv, Active
<1>5. Report'
  BY <1>1, <1>2, ReportStays DEF IInv
<1>6. OnlyErrorsLeaveCalls'
  BY <1>1, <1>2 DEF OnlyErrorsLeaveCalls
<1> QED BY <1>3, <1>4, <1>5, <1>6 DEF IInv

LEMMA EscapeStep ==
    ASSUME IInv, Reraise \/ LetErrorEscape
    PROVE  IInv'
<1>1. /\ pc # "ended" /\ pc' = "ended" /\ UNCHANGED <<document, count, task, first, answers, result>>
      /\ raised' \in {"control", "error"} /\ (raised' # "error" => Quiet)
  BY DEF Reraise, LetErrorEscape, Rounds
<1>2. result'.output \in {"pending", "none", "survey", "custom"}
  BY <1>1 DEF IInv, ExtractionTypeOK
<1>3. ExtractionTypeOK' /\ RoundInv' /\ OnlyErrorsLeaveCalls'
  BY <1>1, <1>2, Ending
<1>4. Report'
  BY <1>1, ReportStays DEF IInv
<1> QED BY <1>3, <1>4 DEF IInv

LEMMA StutterStep ==
    ASSUME IInv, UNCHANGED extractionVars
    PROVE  IInv'
<1>1. UNCHANGED <<pipeline, partialOK, unreadable, count, pc, task, first, metadata, block, raised, result>>
  BY DEF extractionVars, document, answers
<1>2. ExtractionTypeOK'
  BY <1>1 DEF IInv, ExtractionTypeOK, Active
<1>3. RoundInv'
  <2>1. Returned' <=> Returned
    BY <1>1 DEF Returned
  <2> QED BY <1>1, <2>1 DEF IInv, RoundInv, Active
<1>4. Report'
  BY <1>1, ReportStays DEF IInv, extractionVars
<1>5. OnlyErrorsLeaveCalls'
  BY <1>1 DEF IInv, OnlyErrorsLeaveCalls, Quiet
<1> QED BY <1>2, <1>3, <1>4, <1>5 DEF IInv

-----------------------------------------------------------------------------
(* The theorems.                                                           *)

LEMMA InitInv ==
    ASSUME RunAssumption, ExtractionInit
    PROVE  IInv
<1>1. Active = {} /\ ~Returned /\ raised = "none"
  BY DEF ExtractionInit, Active, Returned, NoResult
<1>2. ExtractionTypeOK
  BY <1>1 DEF ExtractionInit, ExtractionTypeOK, NoResult, RunAssumption
<1>3. RoundInv
  BY <1>1 DEF ExtractionInit, RoundInv, Rounds
<1>4. Report
  BY <1>1 DEF Report, NothingLost, AllMade, SuccessIsWhole, OrderDoesNotShow
<1>5. OnlyErrorsLeaveCalls
  BY DEF ExtractionInit, OnlyErrorsLeaveCalls
<1> QED BY <1>2, <1>3, <1>4, <1>5 DEF IInv

LEMMA StepInv ==
    ASSUME RunAssumption, IInv, [ExtractionNext]_extractionVars
    PROVE  IInv'
<1>1. ASSUME NEW c \in Chunks, TaskStep(c) \/ Raise(c) PROVE IInv'
  BY <1>1, MetadataAnswerStep, BlockAnswerStep, StopStep, EndUnseenStep, RaiseStep DEF TaskStep
<1>2. CASE PipelineStep
  BY <1>2, CannotChunkStep, StartStep, CancelStep, EscapeStep, MetadataOverStep, BlocksOverStep,
     SingleOverStep, StrictStep, ReduceStep DEF PipelineStep
<1>3. CASE Cancel
  BY <1>3, CancelStep
<1>4. CASE UNCHANGED extractionVars
  BY <1>4, StutterStep
<1> QED BY <1>1, <1>2, <1>3, <1>4 DEF ExtractionNext

\* Always: what a round and a result are, and the properties, which are kept step by step.
THEOREM ExtractionInvariant == ASSUME RunAssumption PROVE ExtractionSpec => []IInv
<1>1. ExtractionInit => IInv
  BY InitInv
<1>2. IInv /\ [ExtractionNext]_extractionVars => IInv'
  BY StepInv
<1> QED BY <1>1, <1>2, PTL DEF ExtractionSpec

\* Always: in whatever order the chunks answer, fail or are cancelled, the result is the
\* same, has or names all there is, is a success only when nothing is missing, and only
\* an exception nothing expects leaves a call running.
THEOREM ExtractionTellsAllAlways == ASSUME RunAssumption PROVE ExtractionSpec => []ExtractionTellsAll
<1>1. IInv => ExtractionTellsAll
  BY DEF IInv, Report, ExtractionTellsAll
<1> QED BY <1>1, ExtractionInvariant, PTL
=============================================================================
