---------------------------- MODULE QualityPolicy ----------------------------
(***************************************************************************)
(* The quality policy over the extracted variables of a survey             *)
(* (pipeline.py apply_quality_policy).                                     *)
(*                                                                         *)
(* The records of all chunks are taken in source order.  One with an       *)
(* impossible numeric range is excluded and fails its chunk; one whose     *)
(* signature was seen in a block this chunk repeats is removed as a        *)
(* duplicate; the others are kept, and marked for review where anything    *)
(* about them is doubtful.  When all were taken, names used twice and      *)
(* similar questions are marked too.                                       *)
(*                                                                         *)
(* Simplifications.                                                        *)
(*  - A name is compared without case, a question as words and data type;  *)
(*    two different questions are similar when their pair is in Similar.   *)
(*  - Chunk c has the new block c and, if it overlaps, block c - 1.        *)
(***************************************************************************)
EXTENDS Naturals, Sequences, FiniteSets, SequencesExt

CONSTANTS
    Names, Questions,
    Similar,       \* pairs of questions that share most of their words
    MaxChunks,     \* bound on the chunks
    MaxRecords     \* bound on the records

PolicyAssumption ==
    /\ Similar \subseteq {q \in SUBSET Questions : Cardinality(q) = 2}
    /\ MaxChunks \in Nat \ {0}
    /\ MaxRecords \in Nat \ {0}

\* "doubtful": low confidence, a categorical without categories, or a module other
\* than the source's section.
Grades == {"good", "doubtful", "invalid"}

Chunks == 1 .. MaxChunks

VARIABLES
    overlapping,  \* the chunks that repeat the last block of the one before
    taken,        \* history: the records considered so far
    kept,         \* those retained, with their needs_review mark
    removed,      \* history: those removed as duplicates
    failed,       \* the chunks in failed_records
    done

policyVars == <<overlapping, taken, kept, removed, failed, done>>

Overlap(c) == IF c \in overlapping THEN {c - 1} ELSE {}
BlocksOf(c) == Overlap(c) \cup {c}

\* What the provider may return for a chunk: variables citing its blocks.
Records ==
    {r \in [chunk : Chunks, name : Names, question : Questions,
            cites : (SUBSET Chunks) \ {{}}, grade : Grades] :
        r.cites \subseteq BlocksOf(r.chunk)}

PolicyInit ==
    /\ overlapping \in SUBSET (2 .. MaxChunks)
    /\ taken = <<>>
    /\ kept = <<>>
    /\ removed = {}
    /\ failed = {}
    /\ done = FALSE

\* Records are sorted by the order of their chunks.
Follows(r) ==
    /\ ~done
    /\ Len(taken) < MaxRecords
    /\ taken # <<>> => r.chunk >= Last(taken).chunk
    /\ taken' = Append(taken, r)

Exclude(r) ==
    /\ Follows(r)
    /\ r.grade = "invalid"
    /\ failed' = failed \cup {r.chunk}
    /\ UNCHANGED <<overlapping, kept, removed, done>>

\* Mutant: any earlier record of the same signature makes a duplicate.
SeenAnywhere(r) ==
    \E i \in DOMAIN kept :
        kept[i].name = r.name /\ kept[i].question = r.question

\* An earlier record of the same signature cites a block this chunk repeats.
Duplicate(r) ==
    \E i \in DOMAIN kept :
        /\ kept[i].name = r.name
        /\ kept[i].question = r.question
        /\ kept[i].cites \cap Overlap(r.chunk) # {}

Dedupe(r) ==
    /\ Follows(r)
    /\ r.grade # "invalid"
    /\ Duplicate(r)
    /\ removed' = removed \cup {r}
    /\ UNCHANGED <<overlapping, kept, failed, done>>

Keep(r) ==
    /\ Follows(r)
    /\ r.grade # "invalid"
    /\ ~Duplicate(r)
    /\ kept' = Append(kept, [name |-> r.name, question |-> r.question, chunk |-> r.chunk,
                             cites |-> r.cites, review |-> r.grade = "doubtful"])
    /\ UNCHANGED <<overlapping, removed, failed, done>>

SameName(i, j) == kept[i].name = kept[j].name
Alike(i, j)    == {kept[i].question, kept[j].question} \in Similar

\* Another kept record has the same name or a similar question.
Twin(i) == \E j \in DOMAIN kept \ {i} : SameName(i, j) \/ Alike(i, j)

\* All records were considered: mark those that have a twin.
MarkTwins ==
    /\ ~done
    /\ done' = TRUE
    /\ kept' = [i \in DOMAIN kept |-> [kept[i] EXCEPT !.review = @ \/ Twin(i)]]
    /\ UNCHANGED <<overlapping, taken, removed, failed>>

PolicyNext == MarkTwins \/ \E r \in Records : Exclude(r) \/ Dedupe(r) \/ Keep(r)

PolicySpec == PolicyInit /\ [][PolicyNext]_policyVars

-----------------------------------------------------------------------------
(* Properties.                                                             *)

\* A question of a block is either in the output, or its chunk is reported as
\* failed: leaving one out never leaves no trace, and an excluded record does not
\* take the place of a later good one.
NoQuestionVanishes ==
    \A i \in DOMAIN taken :
        LET r == taken[i] IN
        \/ r.chunk \in failed
        \/ \E k \in DOMAIN kept : kept[k].name = r.name /\ kept[k].question = r.question

\* No block is counted twice by two chunks that share it: kept records of one name and question cite a block both
\* only when one chunk returned them, and then TwinsReviewed marks them.  And a record is removed only beside one
\* that is kept and cites a block the chunk of the removed one repeats.  Which block the removed record itself
\* cites the code does not ask (pipeline.py:1033): what a question asks again in the new block of such a chunk is
\* removed too, so the places of a question are not all counted.
BlocksCountOnce ==
    /\ \A i, j \in DOMAIN kept :
          i < j /\ SameName(i, j) /\ kept[i].question = kept[j].question /\ kept[i].chunk # kept[j].chunk =>
             kept[i].cites \cap kept[j].cites = {}
    /\ \A r \in removed : \E k \in DOMAIN kept :
          kept[k].name = r.name /\ kept[k].question = r.question /\ kept[k].cites \cap Overlap(r.chunk) # {}

\* In the output, variables with one name or with similar questions are all marked
\* for review, wherever in the survey they are.
TwinsReviewed ==
    done => \A i, j \in DOMAIN kept :
        i # j /\ (SameName(i, j) \/ Alike(i, j)) => kept[i].review /\ kept[j].review

\* All of it: an extracted question is in the output or its chunk is told as failed, no block two chunks share is
\* counted twice, what is removed has its like in the output, and what could be one variable is marked for review.
QuestionsAreKept == NoQuestionVanishes /\ BlocksCountOnce /\ TwinsReviewed
=============================================================================
