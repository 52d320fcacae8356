------------------------------- MODULE XlsForm --------------------------------
(***************************************************************************)
(* The parser of XLSForm workbooks (sources/xlsform.py): the rows of the   *)
(* survey sheet become logical items, containment and sequential flow, and *)
(* a second pass over the same rows the survey's variables.                *)
(*                                                                         *)
(* Simplifications: a row is its type, its name, the list or file of its   *)
(* choices and the names its logic refers to; labels, languages, notes and *)
(* the diagnostics of single cells are left out.  Expressions are the      *)
(* subject of XlsExpression.  Every loop checks one deadline.              *)
(***************************************************************************)
EXTENDS Integers, FiniteSets, Sequences, SequencesExt

CONSTANTS
    Forms,     \* [rows, choices, settings, companions]: workbooks
    PathOf,    \* the path a file name of a form stands for, "prohibited" if it leaves the bundle
    MaxCells   \* bound on the cells of the workbook and its companions

FormAssumption == MaxCells \in Nat /\ "prohibited" \notin DOMAIN PathOf

VARIABLES
    form,        \* the workbook
    phase,       \* where the parser is, or how it ended
    at,          \* rows or files done in this phase
    lists,       \* choice lists referred to
    files,       \* files referred to, each once
    external,    \* [file, name]: choices read from companions, in order
    stack,       \* open containers, as positions in items
    repeats,     \* open repeats among them
    names,       \* names taken
    items,       \* logical items; the first is the entry
    seen,        \* containers that have a child
    activations, \* [item, refs]: conditions of applicability
    diagnostics, \* codes
    flow,        \* [src, tgt]: the transitions, in order
    variables    \* the survey's variables, in order

vars == <<form, phase, at, lists, files, external, stack, repeats, names, items, seen, activations,
          diagnostics, flow, variables>>

parsed == <<stack, repeats, names, items, seen, activations>>
tables == <<lists, files, external>>

Ended == {"done", "refused", "timeout"}

-----------------------------------------------------------------------------
(* Rows.                                                                   *)

Closes(type) == CASE type = "end group"  -> "section"
                  [] type = "end repeat" -> "repeat"
                  [] OTHER               -> "none"

KindOf(type) == CASE type = "begin repeat" -> "repeat"
                  [] type = "begin group"  -> "section"
                  [] OTHER                 -> "question"

Container == {"section", "repeat"}

Supported(type) == type \notin {"rank", ""}

Entry == [kind |-> "entry", name |-> "", path |-> <<>>, parent |-> 0, repeat |-> 0, first |-> FALSE]
Terminal == [Entry EXCEPT !.kind = "terminal"]

Row(i) == form.rows[i]

Init ==
    /\ form \in Forms
    /\ phase = "tables" /\ at = 0
    /\ lists = {} /\ files = <<>> /\ external = <<>>
    /\ stack = <<>> /\ repeats = <<>> /\ names = {} /\ items = <<Entry>> /\ seen = {} /\ activations = <<>>
    /\ diagnostics = {} /\ flow = <<>> /\ variables = <<>>

Go(p) == phase' = p /\ at' = 0

Refuse == phase' = "refused" /\ UNCHANGED <<form, at, tables, parsed, diagnostics, flow, variables>>

\* _check_deadline
TimeOut ==
    /\ phase \notin Ended \cup {"flow"}
    /\ phase' = "timeout" /\ UNCHANGED <<form, at, tables, parsed, diagnostics, flow, variables>>

-----------------------------------------------------------------------------
(* The tables and the features of the rows.                                *)

Repeated(s) == \E i, j \in DOMAIN s : i # j /\ s[i] = s[j]

Metadata == {"form_id", "form_title", "country_code", "year"}

ReadTables ==
    /\ phase = "tables"
    /\ \/ /\ Repeated(form.choices) \/ Len(form.settings) > 1
          /\ Refuse
       \/ /\ ~Repeated(form.choices) /\ Len(form.settings) <= 1
          /\ Go("rows")
          /\ diagnostics' = IF form.settings = <<>> \/ ~(Metadata \subseteq form.settings[1])
                            THEN {"METADATA_INCOMPLETE"} ELSE {}
          /\ UNCHANGED <<form, tables, parsed, flow, variables>>

SurveyNames == {Row(i).name : i \in DOMAIN form.rows} \ {""}

\* One row of the first loop of _parse_xlsform.
ScanRow ==
    /\ phase = "rows" /\ at < Len(form.rows)
    /\ LET row == Row(at + 1)
       IN  \/ row.type = "select file" /\ row.list = "" /\ Refuse
           \/ /\ ~(row.type = "select file" /\ row.list = "")
              /\ at' = at + 1
              /\ lists' = IF row.type = "select" /\ row.list # "" THEN lists \cup {row.list} ELSE lists
              /\ files' = IF row.type = "select file" /\ ~Contains(files, row.list)
                          THEN Append(files, row.list) ELSE files
              /\ diagnostics' = diagnostics \cup IF row.refs \subseteq SurveyNames THEN {}
                                                 ELSE {"XLSFORM_REFERENCE_UNRESOLVED"}
              /\ UNCHANGED <<form, phase, external, parsed, flow, variables>>

ListsMissing == lists \ {c.list : c \in ToSet(form.choices)}

RowsScanned ==
    /\ phase = "rows" /\ at = Len(form.rows)
    /\ Go("files")
    /\ diagnostics' = diagnostics \cup IF ListsMissing = {} THEN {}
                                       ELSE {"XLSFORM_CHOICE_LIST_MISSING"}
    /\ UNCHANGED <<form, tables, parsed, flow, variables>>

Cells == Len(form.rows) + Len(form.choices) + Len(external)

\* _external_choice_records and the limit on cells: what a companion must be.
Readable(path) ==
    /\ path \in DOMAIN form.companions
    /\ ~Repeated(form.companions[path])
    /\ Cells + Len(form.companions[path]) <= MaxCells

LoadFile ==
    /\ phase = "files" /\ at < Len(files)
    /\ LET path == PathOf[files[at + 1]]
       IN  \/ ~Readable(path) /\ Refuse
           \/ /\ Readable(path)
              /\ at' = at + 1
              /\ external' = external \o [i \in DOMAIN form.companions[path] |->
                                             [file |-> path, name |-> form.companions[path][i]]]
              /\ UNCHANGED <<form, phase, lists, files, parsed, diagnostics, flow, variables>>

FilesLoaded ==
    /\ phase = "files" /\ at = Len(files)
    /\ Go("items") /\ UNCHANGED <<form, tables, parsed, diagnostics, flow, variables>>

-----------------------------------------------------------------------------
(* The items.                                                              *)

Top(s)      == IF s = <<>> THEN 0 ELSE Last(s)
NamesOf(s)  == [i \in DOMAIN s |-> items[s[i]].name]

\* Whether an end marker closes the container that is open.
Matches(row) == stack # <<>> /\ items[Top(stack)].kind = Closes(row.type)

RepeatsAfter(row) == IF Closes(row.type) = "repeat" THEN Front(repeats) ELSE repeats

CloseContainer ==
    /\ phase = "items" /\ at < Len(form.rows)
    /\ LET row == Row(at + 1)
       IN  /\ Closes(row.type) # "none"
           /\ \/ ~Matches(row) /\ Refuse
              \/ /\ Matches(row)
                 /\ at' = at + 1
                 /\ stack' = Front(stack)
                 /\ repeats' = RepeatsAfter(row)
                 /\ UNCHANGED <<form, phase, tables, names, items, seen, activations, diagnostics, flow, variables>>

SkipRow ==
    /\ phase = "items" /\ at < Len(form.rows)
    /\ LET row == Row(at + 1)
       IN  /\ Closes(row.type) = "none"
           /\ \/ row.name \in names \cup {""} /\ ~(row.type = "" /\ row.name = "") /\ Refuse
              \/ /\ row.type = "" /\ row.name = ""
                 /\ at' = at + 1
                 /\ UNCHANGED <<form, phase, tables, parsed, diagnostics, flow, variables>>
              \/ /\ row.type = "calculate" /\ row.name \notin names \cup {""}
                 /\ at' = at + 1 /\ names' = names \cup {row.name}
                 /\ UNCHANGED <<form, phase, tables, stack, repeats, items, seen, activations, diagnostics, flow,
                                variables>>

\* The item a row makes in the containers that are open.
Item(row) ==
    [kind   |-> KindOf(row.type),
     name   |-> row.name,
     path   |-> NamesOf(stack),
     parent |-> Top(stack),
     repeat |-> Top(repeats),
     first  |-> stack # <<>> /\ Top(stack) \notin seen]

ReadItem ==
    /\ phase = "items" /\ at < Len(form.rows)
    /\ LET row == Row(at + 1)
           new == Len(items) + 1
           opens == KindOf(row.type) \in Container
       IN  /\ Closes(row.type) = "none" /\ row.type # "calculate" /\ row.name \notin names \cup {""}
           /\ at' = at + 1
           /\ names' = names \cup {row.name}
           /\ items' = Append(items, Item(row))
           /\ seen' = IF stack = <<>> THEN seen ELSE seen \cup {Top(stack)}
           /\ activations' = IF row.refs = {} THEN activations
                             ELSE Append(activations, [item |-> new, refs |-> row.refs])
           /\ stack' = IF opens THEN Append(stack, new) ELSE stack
           /\ repeats' = IF KindOf(row.type) = "repeat" THEN Append(repeats, new) ELSE repeats
           /\ diagnostics' = diagnostics \cup IF opens \/ Supported(row.type) THEN {}
                                              ELSE {"XLSFORM_TYPE_UNSUPPORTED"}
           /\ UNCHANGED <<form, phase, tables, flow, variables>>

Containers == {i \in DOMAIN items : items[i].kind \in Container}

CloseForm ==
    /\ phase = "items" /\ at = Len(form.rows)
    /\ \/ /\ stack # <<>> \/ ~(Containers \subseteq seen)
          /\ Refuse
       \/ /\ stack = <<>> /\ Containers \subseteq seen
          /\ Go("flow")
          /\ items' = Append(items, Terminal)
          /\ UNCHANGED <<form, tables, stack, repeats, names, seen, activations, diagnostics, flow, variables>>

-----------------------------------------------------------------------------
(* The flow between the items.                                             *)

Logical  == {i \in DOMAIN items : items[i].kind \notin {"entry", "terminal"}}
Children(p) == {i \in Logical : items[i].parent = p}
Least(S) == CHOOSE i \in S : \A j \in S : i <= j

\* The first of S, or the terminal.
FirstOf(S) == IF S = {} THEN Len(items) ELSE Least(S)

\* _next_logical: the next sibling, or the next of the container.
NextLogical[i \in Nat] ==
    LET later == {j \in Children(items[i].parent) : j > i}
    IN  IF later # {} THEN Least(later)
        ELSE IF items[i].parent = 0 THEN Len(items) ELSE NextLogical[items[i].parent]

\* Mutant: after the last child of a container its first child comes again.
AfterLooping(i) ==
    LET later == {j \in Children(items[i].parent) : j > i}
    IN  CASE items[i].kind = "entry"     -> FirstOf(Children(0))
          [] items[i].kind \in Container -> Least(Children(i))
          [] later = {} /\ items[i].parent # 0 -> Least(Children(items[i].parent))
          [] OTHER                       -> NextLogical[i]

After(i) ==
    CASE items[i].kind = "entry"       -> FirstOf(Children(0))
      [] items[i].kind \in Container   -> Least(Children(i))
      [] OTHER                         -> NextLogical[i]

\* _native_transitions
LinkItems ==
    /\ phase = "flow"
    /\ flow' = [i \in 1 .. Len(items) - 1 |-> [src |-> i, tgt |-> After(i)]]
    /\ Go("svis") /\ UNCHANGED <<form, tables, parsed, diagnostics, variables>>

-----------------------------------------------------------------------------
(* The second pass: the variables (_native_svis).                          *)

IsVariable(row) == Closes(row.type) = "none" /\ KindOf(row.type) = "question" /\ row.name # "" /\ row.type # "note"

ChoiceNames(s) == [i \in DOMAIN s |-> s[i].name]

CategoriesOf(row) ==
    CASE row.type = "select"      -> ChoiceNames(SelectSeq(form.choices, LAMBDA c : c.list = row.list))
      [] row.type = "select file" -> ChoiceNames(SelectSeq(external, LAMBDA c : c.file = row.list))
      [] OTHER                    -> <<>>

\* The open sections after a row.
Sections(open, row) ==
    IF Closes(row.type) # "none" THEN Front(open)
    ELSE IF KindOf(row.type) \in Container THEN Append(open, row.name) ELSE open

SectionsBefore[i \in Nat] == IF i <= 1 THEN <<>> ELSE LET open == SectionsBefore[i - 1] IN Sections(open, Row(i - 1))

Variable(i) ==
    [name       |-> Row(i).name,
     module     |-> LET open == SectionsBefore[i] IN IF open = <<>> THEN "" ELSE Last(open),
     categories |-> CategoriesOf(Row(i)),
     review     |-> \/ ~Supported(Row(i).type)
                    \/ Row(i).type \in {"select", "select file"} /\ CategoriesOf(Row(i)) = <<>>]

BuildSvis ==
    /\ phase = "svis"
    /\ variables' = LET rows == SelectSeq([i \in DOMAIN form.rows |-> i], LAMBDA i : IsVariable(Row(i)))
                    IN  [k \in DOMAIN rows |-> Variable(rows[k])]
    /\ Go("done") /\ UNCHANGED <<form, tables, parsed, diagnostics, flow>>

Next ==
    \/ ReadTables \/ ScanRow \/ RowsScanned \/ LoadFile \/ FilesLoaded
    \/ CloseContainer \/ SkipRow \/ ReadItem \/ CloseForm \/ LinkItems \/ BuildSvis
    \/ TimeOut

Spec == Init /\ [][Next]_vars

-----------------------------------------------------------------------------
(* Properties.  What a form means is said of its rows, not of a stack.     *)

Rows   == DOMAIN form.rows
Begins(i) == KindOf(Row(i).type) \in Container
Ends(i)   == Closes(Row(i).type) # "none"

\* The end marker that balances the begin marker b, or a row past the end.
MatchOf(b) ==
    LET level(j) == Cardinality({i \in b .. j : Begins(i)}) - Cardinality({i \in b .. j : Ends(i)})
        balanced == {j \in b .. Len(form.rows) : level(j) = 0}
    IN  IF balanced = {} THEN Len(form.rows) + 1 ELSE Least(balanced)

Around(i) == {b \in 1 .. i - 1 : Begins(b) /\ MatchOf(b) > i}
Nearest(S) == IF S = {} THEN 0 ELSE CHOOSE b \in S : \A c \in S : c <= b

IsItem(i) == ~Ends(i) /\ Row(i).name # "" /\ Row(i).type # "calculate"

WellNested ==
    /\ \A b \in Rows : Begins(b) =>
           /\ MatchOf(b) \in Rows /\ Closes(Row(MatchOf(b)).type) = KindOf(Row(b).type)
           /\ \E i \in Rows : IsItem(i) /\ Nearest(Around(i)) = b
    /\ \A e \in Rows : Ends(e) => \E b \in Rows : Begins(b) /\ MatchOf(b) = e

WellNamed ==
    /\ \A i \in Rows : ~Ends(i) /\ Row(i).type # "" => Row(i).name # ""
    /\ \A i, j \in Rows : i # j /\ ~Ends(i) /\ ~Ends(j) /\ Row(i).name = Row(j).name => Row(i).name = ""

\* The state stays in its types; open repeats are open containers, and what is open is an item.
TypeOK ==
    /\ phase \in {"tables", "rows", "files", "items", "flow", "svis"} \cup Ended
    /\ at \in 0 .. Len(form.rows) + Len(files)
    /\ ToSet(stack) \subseteq Containers /\ ToSet(repeats) \subseteq {i \in ToSet(stack) : items[i].kind = "repeat"}
    /\ seen \subseteq Containers
    /\ \A i \in DOMAIN flow : flow[i].src \in DOMAIN items /\ flow[i].tgt \in DOMAIN items

\* A form without choices, files or settings is refused exactly when its markers do not nest, a container
\* holds no item, or a name is missing or taken: what the stack of open containers accepts is what
\* balanced markers of matching kinds are.
NestingIsChecked ==
    form.choices = <<>> /\ files = <<>> /\ Len(form.settings) <= 1 =>
        /\ phase = "done" => WellNested /\ WellNamed
        /\ phase = "refused" /\ ~(\E i \in Rows : Row(i).type = "select file") => ~(WellNested /\ WellNamed)

RowOf(i) == CHOOSE r \in Rows : IsItem(r) /\ Row(r).name = items[i].name
ItemOf(b) == IF b = 0 THEN 0 ELSE CHOOSE i \in Logical : items[i].name = Row(b).name

\* Once the form is read, the containment of every item is the nesting of its row: its parent is the nearest
\* container around it, its repeat the nearest repeat, its section path all of them, and each container has
\* one entry child, its first item.
ContainmentIsNesting ==
    phase \in {"flow", "svis", "done"} =>
        \A i \in Logical :
            LET around == Around(RowOf(i))
            IN  /\ items[i].parent = ItemOf(Nearest(around))
                /\ items[i].repeat = ItemOf(Nearest({b \in around : Row(b).type = "begin repeat"}))
                /\ ToSet(items[i].path) = {Row(b).name : b \in around}
                /\ items[i].first <=> items[i].parent # 0 /\ i = Least(Children(items[i].parent))

\* The flow of a form visits every item, in the order of the rows, and ends at the terminal: the next sibling
\* or, after a last child, what follows its container; no item is skipped and none is visited twice.
FlowIsDocumentOrder ==
    flow # <<>> => flow = [i \in 1 .. Len(items) - 1 |-> [src |-> i, tgt |-> i + 1]]

\* The two passes over the rows agree: every variable that is not a calculation is an item with the innermost
\* open container as its module, in the same order, and every question that is not a note is a variable.
PassesAgree ==
    phase = "done" =>
        LET asked == SelectSeq(items, LAMBDA m : m.kind = "question" /\ \E r \in Rows : Row(r).name = m.name /\ IsVariable(Row(r)))
            kept  == SelectSeq(variables, LAMBDA v : \E i \in Logical : items[i].name = v.name)
            module(m) == IF m.path = <<>> THEN "" ELSE Last(m.path)
        IN  /\ [k \in DOMAIN asked |-> <<asked[k].name, module(asked[k])>>]
                   = [k \in DOMAIN kept |-> <<kept[k].name, kept[k].module>>]
            /\ \A v \in ToSet(variables) \ ToSet(kept) :
                   \E r \in Rows : Row(r).name = v.name /\ Row(r).type = "calculate"

\* Choices of a list defined in the form reach the variables that name it; a select question without any is
\* marked for review, and if it names a list a diagnostic says that the list is missing.
MissingChoicesAreDisclosed ==
    phase = "done" =>
        \A v \in ToSet(variables) : \A r \in Rows :
            Row(r).name = v.name /\ Row(r).type = "select" =>
                /\ v.review <=> v.categories = <<>>
                /\ v.categories = <<>> /\ Row(r).list # "" => "XLSFORM_CHOICE_LIST_MISSING" \in diagnostics
=============================================================================
