----------------------------- MODULE MCDocuments ------------------------------
(***************************************************************************)
(* Small instances of the components that read a source and take its       *)
(* extracted variables together: the file snapshot, the XLSForm parser and *)
(* its expressions, the chunker, the quality policy and the document       *)
(* inventory.  A behaviour is one of one component, chosen at the start:   *)
(* "part" says which.  The others rest.                                    *)
(***************************************************************************)
EXTENDS SourceSnapshot, QualityPolicy, DocumentInventory

VARIABLES
    part,
    step, row, form, lists, files, external, stack, repeats, names,      \* XlsForm
    parsed, seen, activations, diagnostics, flow, variables,
    tree, style, projection,                                             \* XlsExpression
    document, budget, stage, parts, chunks                               \* Chunking

formVars ==
    <<step, row, form, lists, files, external, stack, repeats, names, parsed, seen, activations, diagnostics, flow,
      variables>>
expressionVars == <<tree, style, projection>>
chunkingVars   == <<document, budget, stage, parts, chunks>>

all == <<part, snapshotVars, formVars, expressionVars, chunkingVars, policyVars, documentVars>>

Rest == "rest"

SnapshotRests == entry = "plain" /\ source = <<"main">> /\ SnapshotInit
FormRests ==
    /\ step = Rest /\ row = Rest /\ form = Rest /\ lists = Rest /\ files = Rest /\ external = Rest /\ stack = Rest
    /\ repeats = Rest /\ names = Rest /\ parsed = Rest /\ seen = Rest /\ activations = Rest /\ diagnostics = Rest
    /\ flow = Rest /\ variables = Rest
ExpressionRests == tree = Rest /\ style = Rest /\ projection = Rest
ChunkingRests   == document = Rest /\ budget = Rest /\ stage = Rest /\ parts = Rest /\ chunks = Rest
PolicyRests     == overlapping = {} /\ PolicyInit
DocumentRests   == lines = <<>> /\ survey = (CHOOSE s \in Surveys : TRUE) /\ DocumentInit

-----------------------------------------------------------------------------
(* The instances.                                                          *)

\* A file alone and four writes meanwhile; or with its companions in either order, or with one of them twice, and
\* two writes.
SomeSources == {<<"main">>, <<"main", "a">>, <<"main", "a", "b">>, <<"main", "b", "a">>, <<"main", "a", "a">>}

\* Survey sheets of up to six rows, enough for two containers inside one.
RowName == <<"n1", "n2", "n3", "n4", "n5", "n6">>

Plain(type, name) == [type |-> type, name |-> name, list |-> "", refs |-> {}]
Book(rows, choices, settings, companions) ==
    [rows |-> rows, choices |-> choices, settings |-> settings, companions |-> companions]

\* The rows that may stand at a position: a name of its own, now and then one taken before or none.
RowsAt(i) ==
    {Plain(t, RowName[i]) : t \in {"text", "begin group", "begin repeat"}}
        \cup IF i \in {2, 4} THEN {Plain("calculate", RowName[i])} ELSE {}
        \cup IF i = 3 THEN {Plain("note", RowName[i])} ELSE {}
        \cup {Plain(t, "") : t \in {"end group", "end repeat"}}
        \cup IF i = 3 THEN {Plain("rank", "n1"), Plain("text", ""), Plain("", "")} ELSE {}

Sheets ==
    LET upto[n \in 0 .. 6] ==
            IF n = 0 THEN {<<>>} ELSE LET less == upto[n - 1] IN {Append(s, r) : s \in less, r \in RowsAt(n)}
    IN  UNION {upto[n] : n \in 1 .. 6}

Shapes == {Book(s, <<>>, <<>>, <<>>) : s \in Sheets}

\* Two questions with choice lists of the form or of companion files, among them one outside the bundle.
Select(type, name, list) == [Plain(type, name) EXCEPT !.list = list]

Selects(metadata) ==
    {Book(<<Select(t, "n1", l), [Select(u, "n2", m) EXCEPT !.refs = r]>>, c, g, f) :
        t \in {"select", "select file", "text"}, l \in {"", "colours"},
        u \in {"select", "select file"}, m \in {"colours", "sizes", "../up"},
        r \in {{}, {"n1"}, {"n9"}},
        c \in {<<>>, <<[list |-> "colours", name |-> "red"], [list |-> "colours", name |-> "blue"]>>,
               <<[list |-> "colours", name |-> "red"], [list |-> "colours", name |-> "red"]>>},
        g \in {<<>>, <<metadata>>, <<{"year"}>>, <<metadata, metadata>>},
        f \in {[p \in {} |-> <<>>], [p \in {"colours"} |-> <<"red">>],
               [p \in {"colours", "sizes"} |-> <<"s", "m">>], [p \in {"colours", "sizes"} |-> <<"s", "s">>]}}

Paths == [f \in {"colours", "sizes", "../up"} |-> IF f = "../up" THEN "prohibited" ELSE f]

Shaped == INSTANCE XlsForm WITH
    phase <- step, at <- row, items <- parsed, Forms <- Shapes, PathOf <- Paths, MaxCells <- 20
Chosen == INSTANCE XlsForm WITH
    phase <- step, at <- row, items <- parsed, Forms <- Selects(Shaped!Metadata), PathOf <- Paths, MaxCells <- 7

\* One known name and an unknown one, two connectives deep; literals that hold a connective and a parenthesis,
\* a quote, or a backslash at the end.
Compared(op, name, value) == [op |-> op, ref |-> name, value |-> value]

SomeComparisons ==
    {Compared("equals", "a", v) : v \in {<<"1">>, <<"(", " ", "or", " ">>, <<"'">>, <<"1", "\\">>}}
        \cup {Compared("selected", "a", <<" ", "and", " ", ")">>), Compared("selected", "a", <<"1">>)}
        \cup {Compared("arithmetic", "a", <<"1">>), Compared("equals", "u", <<"1">>)}

Expression == INSTANCE XlsExpression WITH
    Known <- {"a"}, Unknown <- {"u"}, Comparisons <- SomeComparisons, Depth <- 2,
    Styles <- [spaced : BOOLEAN, wrapped : BOOLEAN, quote : {"'", "\""}]

\* Up to three blocks: texts of up to five letters and blanks, some with wide letters, and tables.
Block(kind, text) == [kind |-> kind, text |-> text]

SomeBlocks ==
    {Block("text", t) :
        t \in {<<>>, <<"a">>, <<"a", " ">>, <<"a", "a">>, <<"a", " ", "a">>, <<"a", "a", "a", "a", "a">>,
               <<"a", " ", "a", "a", "a">>, <<"w", "a">>, <<"a", "w", " ", "a">>}}
        \cup {Block("table", t) : t \in {<<"a">>, <<"a", "a", "a">>, <<"w", "w", "a">>}}

SomeBudgets == {[max |-> m, overlap |-> o] : m \in {2, 4, 7}, o \in {0, 1, 3}} \ {[max |-> 2, overlap |-> 3]}

Chunker == INSTANCE Chunking WITH Blocks <- SomeBlocks, MaxBlocks <- 3, Budgets <- SomeBudgets, Envelope <- 1

\* Three records of two chunks, two of three; the two questions are similar.
TwoAreSimilar == {{"q1", "q2"}}

\* Up to three lines and two variables; numbers and texts shared, spelled in two ways, or of nobody.
SomeLines == [number : {"", "Q1", "Q2"}, text : {"", "Age", "age.", "sex"}] \ {[number |-> "", text |-> ""]}

Var(name, texts, module) == [name |-> name, texts |-> texts, module |-> module]

SomeSurveys ==
    {<<Var("q1", {"Age"}, "roster"), Var(n, t, m)>> : n \in {"q1", "Q1", "q2", "age"}, t \in {{}, {"age."}, {"sex"}},
                                                     m \in {"", "roster", "health"}}

SomeNorm == [x \in {"Q1", "q1", "Q2", "q2", "Age", "age.", "age", "sex"} |->
                CASE x = "Q1" -> "q1" [] x = "Q2" -> "q2" [] x \in {"Age", "age."} -> "age" [] OTHER -> x]

SomeDocuments == UNION {[1 .. n -> SomeLines] : n \in 0 .. 3}

ASSUME SnapshotAssumption /\ PolicyAssumption /\ DocumentAssumption
ASSUME Shaped!FormAssumption /\ Chosen!FormAssumption /\ Expression!ExpressionAssumption /\ Chunker!ChunkingAssumption

-----------------------------------------------------------------------------

MCInit ==
    \/ /\ part \in {"snapshot", "alone"} /\ SnapshotInit /\ (part = "alone" => source = <<"main">>)
       /\ FormRests /\ ExpressionRests /\ ChunkingRests /\ PolicyRests /\ DocumentRests
    \/ /\ \/ part = "shapes" /\ Shaped!Init
          \/ part = "choices" /\ Chosen!Init
       /\ SnapshotRests /\ ExpressionRests /\ ChunkingRests /\ PolicyRests /\ DocumentRests
    \/ /\ part = "expression" /\ Expression!Init
       /\ SnapshotRests /\ FormRests /\ ChunkingRests /\ PolicyRests /\ DocumentRests
    \/ /\ part = "chunking" /\ Chunker!Init
       /\ SnapshotRests /\ FormRests /\ ExpressionRests /\ PolicyRests /\ DocumentRests
    \/ /\ part \in {"two chunks", "three chunks"} /\ PolicyInit /\ (part = "two chunks" => 3 \notin overlapping)
       /\ SnapshotRests /\ FormRests /\ ExpressionRests /\ ChunkingRests /\ DocumentRests
    \/ /\ part = "inventory" /\ DocumentInit
       /\ SnapshotRests /\ FormRests /\ ExpressionRests /\ ChunkingRests /\ PolicyRests

MCNext ==
    \/ /\ part \in {"snapshot", "alone"} /\ SnapshotNext
       /\ IF part = "alone" THEN source' = <<"main">> /\ \A f \in {"a", "b"} : disk'[f] = disk[f] ELSE writes' <= 2
       /\ UNCHANGED <<part, formVars, expressionVars, chunkingVars, policyVars, documentVars>>
    \/ /\ \/ part = "shapes" /\ Shaped!Next
          \/ part = "choices" /\ Chosen!Next
       /\ UNCHANGED <<part, snapshotVars, expressionVars, chunkingVars, policyVars, documentVars>>
    \/ /\ part = "expression" /\ Expression!Next
       /\ UNCHANGED <<part, snapshotVars, formVars, chunkingVars, policyVars, documentVars>>
    \/ /\ part = "chunking" /\ Chunker!Next
       /\ UNCHANGED <<part, snapshotVars, formVars, expressionVars, policyVars, documentVars>>
    \/ /\ part \in {"two chunks", "three chunks"} /\ PolicyNext
       /\ IF part = "two chunks" THEN \A i \in DOMAIN taken' : taken'[i].chunk < 3 ELSE Len(taken') < 3
       /\ UNCHANGED <<part, snapshotVars, formVars, expressionVars, chunkingVars, documentVars>>
    \/ /\ part = "inventory" /\ DocumentNext
       /\ UNCHANGED <<part, snapshotVars, formVars, expressionVars, chunkingVars, policyVars>>

MCSpec == MCInit /\ [][MCNext]_all

-----------------------------------------------------------------------------
(* The properties of the form and the chunking, each of behaviours of its  *)
(* own; those of the snapshot, the policy and the inventory hold of all.   *)

\* sources/xlsform.py: what is refused is what does not nest or is not named.
NestingIsChecked ==
    /\ part = "shapes" => Shaped!NestingIsChecked
    /\ part = "choices" => Chosen!NestingIsChecked

\* sources/xlsform.py: the containment of the items is the nesting of the rows.
ContainmentIsNesting ==
    /\ part = "shapes" => Shaped!ContainmentIsNesting
    /\ part = "choices" => Chosen!ContainmentIsNesting

\* sources/xlsform.py: the flow visits every item once, in the order of the rows.
FlowIsDocumentOrder ==
    /\ part = "shapes" => Shaped!FlowIsDocumentOrder
    /\ part = "choices" => Chosen!FlowIsDocumentOrder

\* sources/xlsform.py: both passes over the rows find the same questions in the same modules.
PassesAgree ==
    /\ part = "shapes" => Shaped!PassesAgree
    /\ part = "choices" => Chosen!PassesAgree

\* sources/xlsform.py: choices reach their variables, and missing ones are told.
MissingChoicesAreDisclosed == part = "choices" => Chosen!MissingChoicesAreDisclosed

\* sources/xlsform.py: a typed projection means what the expression means, as far as the adapter reads XPath.
ProjectionIsFaithful == part = "expression" => Expression!ProjectionIsFaithful

\* sources/xlsform.py: what can be projected is.
ProjectableIsProjected == part = "expression" => Expression!ProjectableIsProjected

\* docs/routing.md:168-170: and in every way XPath allows to write it.
ProjectsExactly == part = "expression" => Expression!ProjectsExactly

\* sources/chunking.py: the cores of the chunks, in order, are the document.
NothingDropped == part = "chunking" => Chunker!NothingDropped

\* sources/chunking.py: overlap is how the text of the chunk before ends; limits are kept.
OverlapFits == part = "chunking" => Chunker!OverlapFits

\* sources/chunking.py: only what cannot be divided is rejected.
RejectsOnlyTooLarge == part = "chunking" => Chunker!RejectsOnlyTooLarge

\* pipeline.py: repacking ends, each pass works on finer parts.
EachPassIsFiner == part = "chunking" => Chunker!Finer

-----------------------------------------------------------------------------
(* What is checked of each component, its parts above taken together.      *)

\* sources/xlsform.py: a form is refused when it does not nest and otherwise read as it is written, by both passes:
\* containment, flow, choices, and expressions as far as they can be typed.
FormIsTheSheet ==
    /\ part = "shapes" => Shaped!TypeOK
    /\ part = "choices" => Chosen!TypeOK
    /\ NestingIsChecked /\ ContainmentIsNesting /\ FlowIsDocumentOrder /\ PassesAgree
    /\ MissingChoicesAreDisclosed /\ ProjectionIsFaithful /\ ProjectableIsProjected

\* sources/chunking.py: the chunks are the document, in their limits, each repeating how the one before ends; a document is
\* rejected only when it cannot be divided, and repacking ends as each pass works on finer parts.
ChunksAreTheDocument == [][EachPassIsFiner /\ (NothingDropped /\ OverlapFits /\ RejectsOnlyTooLarge)']_all
=============================================================================
