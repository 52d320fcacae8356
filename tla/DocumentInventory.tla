-------------------------- MODULE DocumentInventory ---------------------------
(***************************************************************************)
(* The logical items of a document without native routing, and which of    *)
(* them asks for which variable (routing/pipeline.py, _document_semantics  *)
(* and the helpers it calls).                                              *)
(*                                                                         *)
(* Simplifications: a line is the item number printed on it, if any, and   *)
(* the text after it; texts are compared as normalized, and normalization  *)
(* says which are the same.                                                *)
(***************************************************************************)
EXTENDS Integers, FiniteSets, Sequences, SequencesExt

CONSTANTS
    Documents, \* sequences of [number, text]: the lines with text, in order
    Surveys,   \* sequences of [name, texts, module]: the variables and what they may be called
    NormOf     \* the normalized form of names, numbers and texts

DocumentAssumption ==
    /\ Documents \subseteq Seq([number : STRING, text : STRING])
    /\ Surveys \subseteq Seq([name : STRING, texts : SUBSET STRING, module : STRING])
    /\ "" \notin DOMAIN NormOf

VARIABLES
    lines,      \* the document
    survey,     \* the variables
    at,         \* lines read
    candidates, \* positions of the lines that are candidate questions
    items       \* [kind, line, names, path, order]: the items, once built

documentVars == <<lines, survey, at, candidates, items>>

DocumentInit ==
    /\ lines \in Documents /\ survey \in Surveys
    /\ at = 0 /\ candidates = <<>> /\ items = <<>>

-----------------------------------------------------------------------------

Norm(x) == IF x = "" THEN "" ELSE NormOf[x]

\* _question_candidate_label: a number without a text is its own label.
Label(line) == IF line.text = "" THEN line.number ELSE line.text

ByNumber(line) == {v \in DOMAIN survey : line.number # "" /\ Norm(survey[v].name) = Norm(line.number)}

ByText(line) ==
    {v \in DOMAIN survey : Norm(Label(line)) \in {Norm(x) : x \in {survey[v].name} \cup survey[v].texts} \ {""}}

\* Mutant: a printed number does not come first.
MatchesTogether(line) ==
    LET names == {survey[v].name : v \in ByNumber(line) \cup ByText(line)}
    IN  IF Cardinality(names) = 1 THEN names ELSE {}

\* _matching_variable_names: the printed number first, then the text; one variable or none.
Matches(line) ==
    LET numbered == ByNumber(line)
        names    == {survey[v].name : v \in IF numbered # {} THEN numbered ELSE ByText(line)}
    IN  IF Cardinality(names) = 1 /\ Cardinality(numbered) <= 1 THEN names ELSE {}

\* _question_candidates, one line
ReadLine ==
    /\ items = <<>> /\ at < Len(lines)
    /\ at' = at + 1
    /\ candidates' = IF lines[at + 1].number # "" \/ Matches(lines[at + 1]) # {}
                     THEN Append(candidates, at + 1) ELSE candidates
    /\ UNCHANGED <<lines, survey, items>>

Claims(name) == Cardinality({k \in DOMAIN candidates : name \in Matches(lines[candidates[k]])})

\* The variables of a question: those no other candidate matches.
Linked(line) == {n \in Matches(line) : Claims(n) = 1}

\* The module all its variables are in, if there is one.
Section(line) ==
    LET modules == {survey[v].module : v \in {u \in DOMAIN survey : survey[u].name \in Linked(line)}} \ {""}
    IN  IF Cardinality(modules) = 1 THEN <<CHOOSE m \in modules : TRUE>> ELSE <<>>

Bare(kind, line, order) == [kind |-> kind, line |-> line, names |-> {}, path |-> <<>>, order |-> order]

\* _document_semantics; no line, no items
BuildItems ==
    /\ items = <<>> /\ at = Len(lines) /\ lines # <<>>
    /\ items' = <<Bare("entry", 1, 0)>>
                \o [k \in DOMAIN candidates |->
                      [Bare("question", candidates[k], k) EXCEPT
                          !.names = Linked(lines[candidates[k]]), !.path = Section(lines[candidates[k]])]]
                \o <<Bare("terminal", Len(lines), Len(candidates) + 1)>>
    /\ UNCHANGED <<lines, survey, at, candidates>>

DocumentNext == ReadLine \/ BuildItems

DocumentSpec == DocumentInit /\ [][DocumentNext]_documentVars

-----------------------------------------------------------------------------
(* Properties.                                                             *)

Links(i) == {v \in DOMAIN survey : survey[v].name \in items[i].names}

Mentions(line, v) ==
    \/ v \in ByNumber(line)
    \/ ByNumber(line) = {} /\ v \in ByText(line)

Rivals(line, v) == {u \in DOMAIN survey : Mentions(line, u) /\ survey[u].name # survey[v].name}

\* No variable is linked to two items, whatever the lines and the names are: the inventory of a document is
\* never refused for its links, which would fail the whole survey.
LinksAreSingle == \A i, j \in DOMAIN items : i # j => Links(i) \cap Links(j) = {}

Namesakes(v) == {u \in DOMAIN survey : survey[u].name = survey[v].name}

\* A variable is linked to a line only if the line names it or a namesake, by number or, where its number is
\* nobody's, by text, names no variable of another name, and no other line names that name alone.
LinksAreEarned ==
    \A i \in DOMAIN items : \A v \in Links(i) :
        /\ \E u \in Namesakes(v) : Mentions(lines[items[i].line], u)
        /\ Rivals(lines[items[i].line], v) = {}
        /\ \A l \in DOMAIN lines \ {items[i].line} :
               (\E u \in Namesakes(v) : Mentions(lines[l], u))
                   => Rivals(lines[l], v) # {} \/ Cardinality(ByNumber(lines[l])) > 1

\* A variable without namesakes that exactly one line names, where that line names no other, is linked to it.
UniqueNamesAreLinked ==
    items # <<>> =>
        \A v \in DOMAIN survey : \A l \in DOMAIN lines :
            /\ Namesakes(v) = {v}
            /\ \A u \in DOMAIN survey : Mentions(lines[l], u) <=> u = v
            /\ \A m \in DOMAIN lines \ {l} : ~Mentions(lines[m], v)
            => \E i \in DOMAIN items : items[i].line = l /\ v \in Links(i)

\* A question is put in a section only if none of its variables is in another module.
SectionsAreShared ==
    \A i \in DOMAIN items : \A v \in Links(i) :
        items[i].path # <<>> => survey[v].module \in {items[i].path[1], ""}

\* All of it: items and variables are linked one to one, for a reason, wherever a name is unique.
LinksAreSound == LinksAreSingle /\ LinksAreEarned /\ UniqueNamesAreLinked /\ SectionsAreShared
=============================================================================
