---------------------------- MODULE XlsExpression -----------------------------
(***************************************************************************)
(* How the XLSForm adapter reads the expression of a "relevant" cell       *)
(* (sources/xlsform.py, _project_expression and its helpers), beside what  *)
(* the expression means.                                                   *)
(*                                                                         *)
(* An expression is a tree; its text is a sequence of tokens, in one of    *)
(* the ways XPath lets one write it.  Simplifications: one comparison,     *)
(* numbers and empty literals left out, one value as the answer.           *)
(***************************************************************************)
EXTENDS Integers, FiniteSets, Sequences

CONSTANTS
    Known,       \* names of question items of the form
    Unknown,     \* names of anything else
    Comparisons, \* [op, ref, value]: the comparisons an expression is built from
    Depth,       \* how deep the connectives are nested
    Styles       \* [spaced, wrapped, quote]: blanks and parentheses at a connective, the quote preferred

Quotes == {"'", "\""}

ExpressionAssumption ==
    /\ Known \cap Unknown = {} /\ Depth \in Nat
    /\ \A c \in Comparisons : c.op \in {"equals", "selected", "arithmetic"} /\ c.ref \in Known \cup Unknown
    /\ Styles \subseteq [spaced : BOOLEAN, wrapped : BOOLEAN, quote : Quotes]

VARIABLES
    tree,       \* the expression
    style,      \* how it is written
    projection  \* what the adapter makes of it

vars == <<tree, style, projection>>

-----------------------------------------------------------------------------
(* Expressions, what they mean and how they are written.                   *)

Ref == Known \cup Unknown

Leaf(op, name, value) == [op |-> op, ref |-> name, value |-> value, args |-> <<>>]
Node(op, args)        == [op |-> op, ref |-> "", value |-> <<>>, args |-> args]

Leaves == {Leaf(c.op, c.ref, c.value) : c \in Comparisons}
Values == {c.value : c \in Comparisons}

Trees ==
    LET upto[d \in 0 .. Depth] ==
            IF d = 0 THEN Leaves
            ELSE LET less == upto[d - 1]
                 IN  less \cup {Node("not", <<t>>) : t \in less}
                          \cup {Node(op, <<t, u>>) : op \in {"and", "or"}, t \in less, u \in Leaves}
    IN  upto[Depth]

RECURSIVE Holds(_, _)
\* What a tree, or a projection, says of the answers; answers.sums are the arithmetic facts.
Holds(t, answers) ==
    CASE t.op \in {"equals", "selected"} -> t.value = answers.given[t.ref]
      [] t.op = "not_selected"           -> t.value # answers.given[t.ref]
      [] t.op = "arithmetic"             -> t.ref \in answers.sums
      [] t.op = "not"                    -> ~Holds(t.args[1], answers)
      [] t.op = "and"                    -> \A i \in 1 .. Len(t.args) : Holds(t.args[i], answers)
      [] t.op = "or"                     -> \E i \in 1 .. Len(t.args) : Holds(t.args[i], answers)
      [] OTHER                           -> FALSE

Answers == [given : [Ref -> Values], sums : SUBSET Ref]

Has(v, x) == \E i \in 1 .. Len(v) : v[i] = x

\* XPath has no escapes: a literal stands between quotes that do not occur in it, a backslash is a letter.
Quoted(x, s) ==
    LET q == IF Has(x, s.quote) THEN CHOOSE o \in Quotes : o # s.quote ELSE s.quote
    IN  <<q>> \o x \o <<q>>
Between(open, text, close) == open \o text \o close

RECURSIVE Text(_, _)
\* An "or" below an "and", and either below itself, needs its parentheses.
Text(t, s) ==
    LET gap == IF s.spaced THEN <<" ">> ELSE <<>>
        operand(u) == IF s.wrapped \/ u.op \in {"and", "or"} THEN Between(<<"(">>, Text(u, s), <<")">>) ELSE Text(u, s)
    IN  CASE t.op = "equals"     -> <<t.ref, "=">> \o Quoted(t.value, s)
          [] t.op = "selected"   -> <<"selected", "(", t.ref, ",">> \o Quoted(t.value, s) \o <<")">>
          [] t.op = "arithmetic" -> <<t.ref, "+", "n", "=">> \o Quoted(t.value, s)
          [] t.op = "not"        -> Between(<<"not", "(">>, Text(t.args[1], s), <<")">>)
          [] OTHER               -> operand(t.args[1]) \o gap \o <<t.op>> \o gap \o operand(t.args[2])

-----------------------------------------------------------------------------
(* Reading the text.                                                       *)

Cut(v, a, b) == SubSeq(v, a, b)

RECURSIVE Scan(_)
\* After each position: the quote that is open, and how many parentheses are.  The same quote closes it, but not
\* after a backslash.
Scan(v) ==
    IF v = <<>> THEN <<>>
    ELSE LET n    == Len(v)
             rest == Scan(Cut(v, 1, n - 1))
             last == IF n = 1 THEN [quote |-> "", depth |-> 0] ELSE rest[n - 1]
             c    == v[n]
             turn == CASE c = "(" -> 1 [] c = ")" -> -1 [] OTHER -> 0
         IN  Append(rest,
                 IF last.quote = "" THEN [quote |-> IF c \in Quotes THEN c ELSE "", depth |-> last.depth + turn]
                 ELSE IF c = last.quote /\ v[n - 1] # "\\" THEN [last EXCEPT !.quote = ""] ELSE last)

\* _strip_outer_parentheses: the first parenthesis closes with the text.
Enclosed(v) ==
    /\ Len(v) >= 2 /\ v[1] = "(" /\ v[Len(v)] = ")"
    /\ LET scan == Scan(v)
       IN  scan[Len(v)].depth = 0 /\ \A i \in 1 .. Len(v) - 1 : scan[i].depth # 0

Trim(v) ==
    LET solid == {i \in 1 .. Len(v) : v[i] # " "}
    IN  IF solid = {} THEN <<>>
        ELSE Cut(v, CHOOSE i \in solid : \A j \in solid : i <= j, CHOOSE i \in solid : \A j \in solid : j <= i)

RECURSIVE Stripped(_)
Stripped(v) == IF Enclosed(v) THEN Stripped(Trim(Cut(v, 2, Len(v) - 1))) ELSE v

\* _split_top_level: the keyword stands alone, outside quotes and parentheses.
Separates(v, scan, i, keyword) ==
    /\ v[i] = keyword /\ scan[i] = [quote |-> "", depth |-> 0]
    /\ i = 1 \/ v[i - 1] = " "
    /\ i = Len(v) \/ v[i + 1] = " "

Parts(v, keyword) ==
    LET scan == Scan(v)
        at   == {i \in 1 .. Len(v) : Separates(v, scan, i, keyword)}
        ends == {0} \cup at
        nth[k \in 1 .. Cardinality(ends)] ==
            LET a == CHOOSE i \in ends : Cardinality({j \in ends : j < i}) = k - 1
                b == IF \E j \in ends : j > a THEN CHOOSE j \in ends : j > a /\ \A m \in ends : m > a => j <= m
                     ELSE Len(v) + 1
            IN  Trim(Cut(v, a + 1, b - 1))
        all == [k \in 1 .. Cardinality(ends) |-> nth[k]]
    IN  IF (\E i \in 1 .. Len(v) : scan[i].depth < 0) \/ (\E k \in DOMAIN all : all[k] = <<>>)
        THEN <<v>> ELSE all

Opaque == Node("opaque", <<>>)

\* _scalar: what stands between a first and a last quote.
IsScalar(v) == Len(v) >= 2 /\ v[1] \in Quotes /\ v[Len(v)] = v[1]

\* _leaf
Read(op, name, v) ==
    IF IsScalar(v) /\ name \in Known THEN Leaf(op, name, Cut(v, 2, Len(v) - 1)) ELSE Opaque

\* The children of a connective; one opaque child makes the whole opaque.
Combined(op, kids) == IF \E i \in 1 .. Len(kids) : kids[i].op = "opaque" THEN Opaque ELSE Node(op, kids)

\* The negation of a projection.
Negated(p) ==
    CASE p.op = "selected" -> [p EXCEPT !.op = "not_selected"]
      [] p.op = "opaque"   -> Opaque
      [] OTHER             -> Node("not", <<p>>)

RECURSIVE Projected(_)
\* _project_expression
Projected(text) ==
    LET v     == Stripped(Trim(text))
        n     == Len(v)
        ors   == Parts(v, "or")
        ands  == Parts(v, "and")
    IN  IF Len(ors) >= 2 THEN Combined("or", [i \in 1 .. Len(ors) |-> Projected(ors[i])])
        ELSE IF Len(ands) >= 2 THEN Combined("and", [i \in 1 .. Len(ands) |-> Projected(ands[i])])
        ELSE IF n >= 3 /\ v[1] = "not" /\ v[2] = "(" /\ v[n] = ")" THEN Negated(Projected(Cut(v, 3, n - 1)))
        ELSE IF n >= 6 /\ v[1] = "selected" /\ v[2] = "(" /\ v[3] \in Ref /\ v[4] = "," /\ v[n] = ")"
             THEN Read("selected", v[3], Cut(v, 5, n - 1))
        ELSE IF n >= 3 /\ v[1] \in Ref /\ v[2] = "=" THEN Read("equals", v[1], Cut(v, 3, n))
        ELSE Opaque

-----------------------------------------------------------------------------

Pending == Node("pending", <<>>)

Init == tree \in Trees /\ style \in Styles /\ projection = Pending

\* _parse_expression
ParseExpression ==
    /\ projection = Pending
    /\ projection' = Projected(Text(tree, style))
    /\ UNCHANGED <<tree, style>>

Next == ParseExpression

Spec == Init /\ [][Next]_vars

-----------------------------------------------------------------------------
(* Properties.                                                             *)

Read_ == projection # Pending

RECURSIVE Within(_, _)
Within(t, S) == IF t.args = <<>> THEN t \in S ELSE \A i \in 1 .. Len(t.args) : Within(t.args[i], S)

(***************************************************************************)
(* How far the adapter reads what XPath allows: blanks on both sides of    *)
(* "and" and "or", and, where there is one of them, no literal that ends in*)
(* a backslash.                                                            *)
(***************************************************************************)
RECURSIVE Connects(_)
Connects(t) == t.op \in {"and", "or"} \/ \E i \in 1 .. Len(t.args) : Connects(t.args[i])

EndsInBackslash(t) == t.value # <<>> /\ t.value[Len(t.value)] = "\\"

WithinReach == Connects(tree) => style.spaced /\ Within(tree, {l \in Leaves : ~EndsInBackslash(l)})

\* Within that reach a projection that is not opaque says of every set of answers what the expression says,
\* whatever keywords, parentheses and quotes its literals contain and however it is nested: a condition on
\* arithmetic, on an unknown name, or one whose parts were taken apart in the wrong place is never given a
\* meaning of its own.  Beyond it see ProjectsExactly.
ProjectionIsFaithful ==
    Read_ /\ WithinReach /\ projection.op # "opaque" => \A a \in Answers : Holds(projection, a) = Holds(tree, a)

\* Within that reach comparisons and selected() of known questions, under "and", "or" and "not" however nested,
\* always have a typed projection: what stands in a literal never makes them opaque.
ProjectableIsProjected ==
    Read_ /\ WithinReach /\ Within(tree, {l \in Leaves : l.op # "arithmetic" /\ l.ref \in Known})
        => projection.op # "opaque"

\* docs/routing.md:168-170: supported comparisons, selected() and Boolean expressions project exactly, in every
\* way of writing them.
ProjectsExactly ==
    Read_ /\ projection.op # "opaque" => \A a \in Answers : Holds(projection, a) = Holds(tree, a)

=============================================================================
