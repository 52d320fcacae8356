------------------------------ MODULE Chunking ------------------------------
(***************************************************************************)
(* How a document is cut into chunks for the provider: chunk_document      *)
(* (sources/chunking.py) by the size of the text, then, when a serialized  *)
(* request would be too large, the repacking of _chunk_document            *)
(* (pipeline.py).                                                          *)
(*                                                                         *)
(* Simplifications.                                                        *)
(*  - A text is a short sequence of letters, blanks and wide letters; its  *)
(*    size is the default estimator's, and JSON makes a wide letter wider. *)
(*  - The search for the longest prefix that fits is its result.           *)
(***************************************************************************)
EXTENDS Integers, Sequences, SequencesExt, FiniteSets

CONSTANTS
    Blocks,     \* blocks a document may hold: [kind, text]
    MaxBlocks,  \* bound on the blocks of a document
    Budgets,    \* [max, overlap]: max_tokens and overlap_tokens
    Envelope    \* what the request adds for each part

ChunkingAssumption ==
    /\ MaxBlocks \in Nat
    /\ Envelope \in Nat
    /\ \A b \in Budgets : b.overlap \in 0 .. b.max - 1

Letter == "a"
Blank  == " "
Wide   == "w"
TooWide == <<"too wide">>

Width(ch)   == IF ch = Wide THEN 2 ELSE 1
Escaped(ch) == IF ch = Wide THEN 6 ELSE 1
Separator   == 2

Size(text) == FoldLeft(LAMBDA n, ch : n + Width(ch), 0, text)

\* Size of the texts of parts, joined.
JoinedSize(parts) ==
    FoldLeft(LAMBDA n, p : n + Size(p.text), 0, parts)
        + (IF parts = <<>> THEN 0 ELSE Separator * (Len(parts) - 1))

VARIABLES
    document,  \* the blocks
    budget,    \* the limits of this call
    stage,     \* where the call stands
    parts,     \* the parts being packed
    chunks     \* the chunks: new and overlap parts

vars == <<document, budget, stage, parts, chunks>>

Init ==
    /\ document \in UNION {[1 .. n -> Blocks] : n \in 0 .. MaxBlocks}
    /\ budget \in Budgets
    /\ stage = "document"
    /\ parts = <<>>
    /\ chunks = <<>>

-----------------------------------------------------------------------------
(* chunk_document.                                                         *)

\* The longest prefix that fits, back to the last blank if it is not the whole text.
Cut(text, limit) ==
    LET fitting == {k \in 0 .. Len(text) : Size(SubSeq(text, 1, k)) <= limit}
        longest == CHOOSE k \in fitting : \A j \in fitting : j <= k
        blanks  == {k \in 1 .. longest : text[k] = Blank}
    IN  IF longest = Len(text) \/ blanks = {} THEN longest
        ELSE CHOOSE k \in blanks : \A j \in blanks : j <= k

RECURSIVE Pieces(_, _)
Pieces(text, limit) ==
    IF text = <<>> THEN <<>>
    ELSE LET k == Cut(text, limit) IN
         IF k = 0 THEN <<TooWide>>
         ELSE <<SubSeq(text, 1, k)>> \o Pieces(SubSeq(text, k + 1, Len(text)), limit)

SplitText(text, limit) == IF Size(text) <= limit THEN <<text>> ELSE Pieces(text, limit)

TextBudget(b) == b.max - b.overlap

PartsOf(id, block, limit) ==
    LET texts == IF block.kind = "table" THEN <<block.text>> ELSE SplitText(block.text, limit)
    IN  [i \in DOMAIN texts |->
            [block |-> id, index |-> i, of |-> Len(texts), kind |-> block.kind, text |-> texts[i]]]

SplitBlocks == FlattenSeq([i \in DOMAIN document |-> PartsOf(i, document[i], TextBudget(budget))])

\* A table larger than the limit, or a letter wider than the text budget.
RejectBlock ==
    /\ stage = "document"
    /\ \/ \E i \in DOMAIN document : document[i].kind = "table" /\ Size(document[i].text) > budget.max
       \/ \E p \in ToSet(SplitBlocks) : p.text = TooWide
    /\ stage' = "rejected"
    /\ UNCHANGED <<document, budget, parts, chunks>>

Split ==
    /\ stage = "document"
    /\ \A i \in DOMAIN document : document[i].kind = "table" => Size(document[i].text) <= budget.max
    /\ parts' = SplitBlocks
    /\ \A p \in ToSet(parts') : p.text # TooWide
    /\ stage' = "split"
    /\ UNCHANGED <<document, budget, chunks>>

\* Parts join the current group while it stays within the limit.
GroupParts(ps, limit) ==
    LET add(g, p) ==
            LET separator == IF g.current = <<>> THEN 0 ELSE Separator IN
            IF g.current # <<>> /\ g.size + separator + Size(p.text) > limit
            THEN [done |-> Append(g.done, g.current), current |-> <<p>>, size |-> Size(p.text)]
            ELSE [g EXCEPT !.current = Append(@, p), !.size = @ + separator + Size(p.text)]
        g == FoldLeft(add, [done |-> <<>>, current |-> <<>>, size |-> 0], ps)
    IN  IF g.current = <<>> THEN g.done ELSE Append(g.done, g.current)

\* Mutant: a table may be repeated.
RepeatableAny(p) == p.kind \in {"text", "table"}

Repeatable(p) == p.kind = "text"

\* The tails of the repeatable parts, and the longest of some: more parts are never smaller, so the first that is
\* too long ends the search of the code.
Tails(ps) ==
    LET repeatable == SelectSeq(ps, Repeatable)
    IN  {SubSeq(repeatable, n, Len(repeatable)) : n \in DOMAIN repeatable}

Longest(tails) == IF tails = {} THEN <<>> ELSE CHOOSE t \in tails : \A u \in tails : Len(u) <= Len(t)

OverlapTail(previous, new) ==
    Longest({tail \in Tails(previous) :
        budget.overlap > 0 /\ JoinedSize(tail) <= budget.overlap /\ JoinedSize(tail \o new) <= budget.max})

ChunkDocument ==
    LET groups == GroupParts(parts, TextBudget(budget))
    IN  [i \in DOMAIN groups |->
            [new |-> groups[i],
             overlap |-> IF i = 1 THEN <<>> ELSE OverlapTail(groups[i - 1], groups[i])]]

All(chunk) == chunk.overlap \o chunk.new

\* The last check of chunk_document, on the chunks with their overlap.
Chunk ==
    /\ stage = "split"
    /\ LET made == ChunkDocument IN
       IF \A c \in ToSet(made) : JoinedSize(All(c)) <= budget.max
       THEN chunks' = made /\ stage' = "chunked"
       ELSE stage' = "overfull" /\ UNCHANGED chunks
    /\ UNCHANGED <<document, budget, parts>>

-----------------------------------------------------------------------------
(* _chunk_document: the chunks as requests.                                *)

WireSize(ps) ==
    FoldLeft(LAMBDA n, p : n + Envelope + FoldLeft(LAMBDA k, ch : k + Escaped(ch), 0, p.text), 0, ps)

\* A request may be larger than a text by a reserve: here, two envelopes.
FitsRequest(ps) == WireSize(ps) <= budget.max + 2 * Envelope

AllFit == \A c \in ToSet(chunks) : FitsRequest(All(c))

Accept ==
    /\ stage = "chunked"
    /\ AllFit
    /\ stage' = "packed"
    /\ UNCHANGED <<document, budget, parts, chunks>>

\* Each part's place among those of its block.
Renumber(ps) ==
    [i \in DOMAIN ps |->
        [ps[i] EXCEPT !.index = Cardinality({j \in 1 .. i : ps[j].block = ps[i].block}),
                      !.of    = Cardinality({j \in DOMAIN ps : ps[j].block = ps[i].block})]]

StartRepacking ==
    /\ stage = "chunked"
    /\ ~AllFit
    /\ parts' = Renumber(FlattenSeq([i \in DOMAIN chunks |-> chunks[i].new]))
    /\ stage' = "repacking"
    /\ UNCHANGED <<document, budget, chunks>>

OverlapFor(part, packed) ==
    IF packed = <<>> THEN <<>>
    ELSE Longest({tail \in Tails(Last(packed).new) :
            JoinedSize(tail) <= budget.overlap /\ FitsRequest(Append(tail, part))})

\* One pass over the parts.  It stops at the first that fits no request of its own.
Pass ==
    LET start(packed, p) == [new |-> <<p>>, overlap |-> OverlapFor(p, packed)]
        add(acc, p) ==
            IF acc.stuck # 0 THEN acc
            ELSE LET grown == [acc.current EXCEPT !.new = Append(@, p)]
                     joins == acc.current.new # <<>> /\ FitsRequest(All(grown))
                     packed == IF acc.current.new = <<>> \/ joins THEN acc.packed
                               ELSE Append(acc.packed, acc.current)
                     current == IF joins THEN grown ELSE start(packed, p)
                 IN  [packed |-> packed, current |-> current, seen |-> acc.seen + 1,
                      stuck |-> IF FitsRequest(All(current)) THEN 0 ELSE acc.seen + 1]
    IN  FoldLeft(add, [packed |-> <<>>, current |-> [new |-> <<>>, overlap |-> <<>>],
                       seen |-> 0, stuck |-> 0], parts)

Repacked ==
    /\ stage = "repacking"
    /\ LET pass == Pass IN
          /\ pass.stuck = 0
          /\ chunks' = IF pass.current.new = <<>> THEN pass.packed ELSE Append(pass.packed, pass.current)
    /\ stage' = "packed"
    /\ UNCHANGED <<document, budget, parts>>

Indivisible(p) == p.kind = "table" \/ Len(p.text) < 2

RejectPart ==
    /\ stage = "repacking"
    /\ LET i == Pass.stuck IN i # 0 /\ Indivisible(parts[i])
    /\ stage' = "rejected"
    /\ UNCHANGED <<document, budget, parts, chunks>>

Halves(p) ==
    LET middle == Len(p.text) \div 2
    IN  <<[p EXCEPT !.text = SubSeq(@, 1, middle)], [p EXCEPT !.text = SubSeq(@, middle + 1, Len(@))]>>

\* The part is halved, and packing begins anew.
Halve ==
    /\ stage = "repacking"
    /\ LET i == Pass.stuck IN
          /\ i # 0
          /\ ~Indivisible(parts[i])
          /\ parts' = Renumber(SubSeq(parts, 1, i - 1) \o Halves(parts[i]) \o SubSeq(parts, i + 1, Len(parts)))
    /\ UNCHANGED <<document, budget, stage, chunks>>

Next ==
    \/ RejectBlock \/ Split \/ Chunk \/ Accept
    \/ StartRepacking \/ Repacked \/ RejectPart \/ Halve

Spec == Init /\ [][Next]_vars

-----------------------------------------------------------------------------
(* Properties.                                                             *)

Core == FlattenSeq([i \in DOMAIN chunks |-> chunks[i].new])

\* The new parts of all chunks, in order, are the document: no letter is lost, none
\* is in two cores, and the parts of a block are numbered through.
NothingDropped ==
    stage \in {"chunked", "packed"} =>
        LET core == Core IN
        /\ \A b \in DOMAIN document :
              LET mine == SelectSeq(core, LAMBDA p : p.block = b) IN
              /\ FlattenSeq([i \in DOMAIN mine |-> mine[i].text]) = document[b].text
              /\ \A i \in DOMAIN mine : mine[i].index = i /\ mine[i].of = Len(mine)
              /\ document[b].kind = "table" => Len(mine) = 1
        /\ \A i \in 1 .. Len(core) - 1 : core[i].block <= core[i + 1].block

TextOf(ps) == SelectSeq(ps, LAMBDA p : p.kind = "text")

\* What a chunk repeats is how the text of the chunk just before it ends: its last text parts, all of them from
\* some part on and in their order, tables passed over, within the overlap budget; chunks and requests stay within
\* their limits.  A part may be a piece of a block that was split, whose other pieces the chunk does not hold.
\* The docstring (chunking.py:121) and docs/guides/sources.md:163 speak of complete blocks, _overlap_tail takes parts.
OverlapFits ==
    stage \in {"chunked", "packed"} =>
        \A i \in DOMAIN chunks :
            LET o == chunks[i].overlap IN
            /\ JoinedSize(o) <= budget.overlap
            /\ o # <<>> => i > 1 /\ IsSuffix(o, TextOf(chunks[i - 1].new))
            /\ stage = "packed" => FitsRequest(All(chunks[i]))

\* Only a document with a table or a letter too large for the limits is rejected:
\* chunk_document's last check never fires, and repacking gives up on no part that a
\* request of its own could hold.
RejectsOnlyTooLarge ==
    /\ stage # "overfull"
    /\ stage = "rejected" /\ parts # <<>> =>
           \E p \in ToSet(parts) : Indivisible(p) /\ ~FitsRequest(<<p>>)

Weight(ps) == FoldLeft(LAMBDA n, p : n + Len(p.text) * Len(p.text), 0, ps)

Finer == stage = "repacking" /\ stage' = "repacking" => Weight(parts') < Weight(parts)

\* Repacking comes to an end: each time it begins anew the parts are finer.
EachPassIsFiner == [][Finer]_vars
=============================================================================
