---------------------------- MODULE RoutingEvidence ----------------------------
(***************************************************************************)
(* How observations become evidence: quotes are verified against the       *)
(* blocks of the document, equal observations get one record, the records  *)
(* of the native source and of each answered region are merged, and native *)
(* priorities are attached (routing/identity.py, extraction.py, native.py).*)
(*                                                                         *)
(* Simplifications: a text is a sequence of words, and a quote is in it    *)
(* when its words follow each other there; the digests that name records   *)
(* and spans are what they are digests of.                                 *)
(***************************************************************************)
EXTENDS Integers, Sequences, SequencesExt, FiniteSets

CONSTANTS
    Blocks,     \* block -> [first, rows]: first row number, 0 for a paragraph, and the rows, each a sequence of words
    Natives,    \* what the native source may state, sequences of facts
    Replies,    \* what the provider may answer for a region, sequences of observations
    MaxBatches, \* bound on the answered regions
    MaxQuote    \* max_source_quote_chars

Span == [block : STRING, first : Nat, last : Nat, quote : Seq(STRING)]

\* The observer's name, what it observes but for the place, what it guesses of identities, and the place.
Observation == [local : STRING, meaning : STRING, hint : STRING, span : Span]

\* A native transition; priority 0 for none.
Fact == [local : STRING, meaning : STRING, hint : STRING, span : Span, priority : Nat]

\* A paragraph is one row.
EvidenceAssumption ==
    /\ \A b \in DOMAIN Blocks :
          /\ Blocks[b].first \in Nat /\ Blocks[b].rows \in Seq(Seq(STRING))
          /\ Blocks[b].first = 0 => Len(Blocks[b].rows) = 1
    /\ \A offered \in Natives : offered \in Seq(Fact)
    /\ \A batch \in Replies : batch \in Seq(Observation)
    /\ MaxBatches \in Nat /\ MaxQuote \in Nat

VARIABLES
    evidenceStage, \* "native", "priorities", "regions", "raised"
    facts,         \* the native transitions
    batches,       \* the answers of the regions
    records,       \* the evidence: [meaning, span, local]
    spans,         \* the stable spans
    priorities,    \* record -> priority, a set of pairs
    lost           \* places of the batches that failed

evidenceVars == <<evidenceStage, facts, batches, records, spans, priorities, lost>>

EvidenceInit ==
    /\ evidenceStage = "native" /\ facts = <<>> /\ batches = <<>>
    /\ records = <<>> /\ spans = <<>> /\ priorities = {} /\ lost = {}

-----------------------------------------------------------------------------
(* Verification.                                                           *)

OccursIn(quote, text) == \E k \in 0 .. Len(text) - Len(quote) : SubSeq(text, k + 1, k + Len(quote)) = quote

LastRow(block) == block.first + Len(block.rows) - 1

\* Mutant: the slice has no end.
RowsOnward(block, span) == FlattenSeq(SubSeq(block.rows, span.first - block.first + 1, Len(block.rows)))

\* The text of the rows a span names.
RowsOf(block, span) == FlattenSeq(SubSeq(block.rows, span.first - block.first + 1, span.last - block.first + 1))

\* verify_source_quote: rows of a table within its own, or else the same place as the block.
Verified(span) ==
    /\ span.block \in DOMAIN Blocks
    /\ LET block == Blocks[span.block]
       IN  /\ IF block.first > 0 /\ span.first > 0
              THEN span.first >= block.first /\ span.last <= LastRow(block)
              ELSE span.first = block.first /\ (block.first = 0 => span.last = 0)
           /\ span.quote # <<>> /\ OccursIn(span.quote, RowsOf(block, span))

\* What makes two observations one: neither the observer's name for it nor its hints.
Key(o) == <<o.meaning, o.span>>

Record(o) == [meaning |-> o.meaning, span |-> o.span, local |-> o.local]

\* What a dictionary takes of s: a member if none before it has its key.
FirstOf(s, key) ==
    LET taken[n \in 0 .. Len(s)] ==
            IF n = 0 THEN <<>>
            ELSE IF \E j \in 1 .. n - 1 : key[j] = key[n] THEN taken[n - 1]
            ELSE Append(taken[n - 1], s[n])
    IN  taken[Len(s)]

\* evidence_by_id
FirstOfEach(observations) ==
    FirstOf([k \in DOMAIN observations |-> Record(observations[k])], [k \in DOMAIN observations |-> Key(observations[k])])

\* spans_by_id
SpansOf(observations) ==
    LET at == [k \in DOMAIN observations |-> observations[k].span] IN FirstOf(at, at)

\* build_evidence_records raises at the first quote that does not stand.
AllVerified(observations) == \A k \in DOMAIN observations : Verified(observations[k].span)

-----------------------------------------------------------------------------
(* The native source.                                                      *)

Lookup(fact) == \E k \in DOMAIN records : records[k].local = fact.local

\* prepare_native_routing: the facts are distinct by their local identifiers.  An unverified quote is raised.
PrepareNative ==
    /\ evidenceStage = "native"
    /\ \E offered \in Natives :
           /\ \A j, k \in DOMAIN offered : offered[j].local = offered[k].local => j = k
           /\ facts' = offered
           /\ IF AllVerified(offered)
              THEN /\ records' = FirstOfEach(offered) /\ spans' = SpansOf(offered) /\ evidenceStage' = "priorities"
              ELSE evidenceStage' = "raised" /\ UNCHANGED <<records, spans>>
    /\ UNCHANGED <<batches, priorities, lost>>

\* Every fact with a priority is looked up under its local identifier among the records.
AttachPriorities ==
    /\ evidenceStage = "priorities"
    /\ LET ranked == {k \in DOMAIN facts : facts[k].priority > 0}
       IN  IF \A k \in ranked : Lookup(facts[k])
           THEN evidenceStage' = "regions" /\ priorities' = {<<Key(facts[k]), facts[k].priority>> : k \in ranked}
           ELSE evidenceStage' = "raised" /\ UNCHANGED priorities
    /\ UNCHANGED <<facts, batches, records, spans, lost>>

-----------------------------------------------------------------------------
(* The regions.                                                            *)

Short(batch) == \A k \in DOMAIN batch : Len(batch[k].span.quote) <= MaxQuote

\* One observation out of its limits or not verified rejects its whole batch.
Taken(batch) == Short(batch) /\ AllVerified(batch)

\* _verified_batches and _merge_verified, a batch at a time.
MergeBatch ==
    /\ evidenceStage = "regions" /\ Len(batches) < MaxBatches
    /\ \E batch \in Replies :
           LET merged == records \o (IF Taken(batch) THEN batch ELSE <<>>)
           IN  /\ batches' = Append(batches, batch)
               /\ records' = FirstOfEach(merged) /\ spans' = SpansOf(merged)
               /\ lost' = IF Taken(batch) THEN lost ELSE lost \cup {Len(batches) + 1}
    /\ UNCHANGED <<evidenceStage, facts, priorities>>

EvidenceNext == PrepareNative \/ AttachPriorities \/ MergeBatch

EvidenceSpec == EvidenceInit /\ [][EvidenceNext]_evidenceVars

-----------------------------------------------------------------------------
(* Properties.                                                             *)

\* The words of a block, each with its row.
Words(block) ==
    FlattenSeq([r \in DOMAIN block.rows |->
        [k \in DOMAIN block.rows[r] |-> [word |-> block.rows[r][k], row |-> IF block.first = 0 THEN 0 ELSE block.first + r - 1]]])

\* The quote of a record is found in the document, in the very rows its span names, however many rows a table has
\* and wherever its numbering begins.
QuotesStand ==
    \A k \in DOMAIN records :
        LET span  == records[k].span
            words == Words(Blocks[span.block])
        IN  \E at \in 0 .. Len(words) - Len(span.quote) :
                \A i \in 1 .. Len(span.quote) : /\ words[at + i].word = span.quote[i]
                                                /\ span.first > 0 => words[at + i].row \in span.first .. span.last

\* Every observation of the native source and of each region that did not fail is recorded, once, and nothing else
\* is: repeated claims under another name or hint, in one part or in several, neither vanish nor count twice.
EachClaimOnce ==
    evidenceStage \in {"priorities", "regions"} =>
        LET kept == {<<o.meaning, o.span>> : o \in ToSet(facts)}
                        \cup {<<o.meaning, o.span>> : o \in UNION {ToSet(batches[k]) : k \in DOMAIN batches \ lost}}
        IN  /\ {<<r.meaning, r.span>> : r \in ToSet(records)} = kept /\ Len(records) = Cardinality(kept)
            /\ ToSet(spans) = {r.span : r \in ToSet(records)} /\ Len(spans) = Cardinality(ToSet(spans))

\* What was observed is recorded, once, where it stands.
ClaimsAreRecorded == QuotesStand /\ EachClaimOnce
=============================================================================
