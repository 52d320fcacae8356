------------------------------ MODULE RegionPlan -------------------------------
(***************************************************************************)
(* What the provider is asked about, in routing/extraction.py: the         *)
(* inventory in stable chunks for the forward pass, the items that the     *)
(* answers make doubtful, and, for the incoming pass over these, the other *)
(* items and the source text each request shows.                           *)
(*                                                                         *)
(* Simplifications: an item is its place in the inventory, with its        *)
(* section, its repeat group and the block of its text.  A transition the  *)
(* provider found is the sets of items that its ends may be (the resolver  *)
(* is the subject of RoutingInventory) with what is dubious about it.      *)
(***************************************************************************)
EXTENDS Integers, Sequences, SequencesExt, FiniteSets

CONSTANTS
    Items,      \* what an item may be: [section, group]
    MaxItems,   \* bound on the inventory
    Limits,     \* max_inventory_items_per_call
    Answers,    \* transitions of the forward pass: [from, to, marks]
    MaxAnswers, \* bound on their number
    MaxTargets, \* max_candidate_targets_per_reference
    OutDegree,  \* unusual_out_degree_threshold
    InDegree    \* unusual_in_degree_threshold

PlanAssumption == MaxItems \in Nat /\ Limits \subseteq Nat \ {0} /\ MaxAnswers \in Nat

VARIABLES
    inventory, \* the items, in source order
    limit,     \* the limit of this run
    stage,     \* "inventory", "forward", "answered", "selected", "planned"
    forward,   \* chunks of the forward pass
    answers,   \* transitions found
    unsure,    \* chunks whose answer names an unresolved reference
    targets,   \* the items to verify, in source order
    incoming   \* chunks of the incoming pass

vars == <<inventory, limit, stage, forward, answers, unsure, targets, incoming>>

Init ==
    /\ inventory \in UNION {[1 .. n -> Items] : n \in 1 .. MaxItems}
    /\ limit \in Limits
    /\ stage = "inventory" /\ forward = <<>> /\ answers = {} /\ unsure = {} /\ targets = <<>> /\ incoming = <<>>

Everything == [i \in DOMAIN inventory |-> i]

SectionOf(i) == inventory[i].section

-----------------------------------------------------------------------------
(* Chunks.                                                                 *)

\* Runs of items with one section and repeat group.
Groups(items) ==
    LET starts == SelectSeq([k \in DOMAIN items |-> k], LAMBDA k : k = 1 \/ inventory[items[k]] # inventory[items[k - 1]])
        last(g) == IF g = Len(starts) THEN Len(items) ELSE starts[g + 1] - 1
    IN  [g \in DOMAIN starts |-> SubSeq(items, starts[g], last(g))]

Slices(group) ==
    [k \in 1 .. (Len(group) + limit - 1) \div limit |->
        SubSeq(group, (k - 1) * limit + 1, IF k * limit < Len(group) THEN k * limit ELSE Len(group))]

\* A part joins the pending chunk if it fits.
Pack(parts) ==
    LET full(p) == IF Len(p.pending) = limit THEN [done |-> Append(p.done, p.pending), pending |-> <<>>] ELSE p
        add(p, part) ==
            IF p.pending # <<>> /\ Len(p.pending) + Len(part) > limit
            THEN full([done |-> Append(p.done, p.pending), pending |-> part])
            ELSE full([p EXCEPT !.pending = @ \o part])
        packed == FoldLeft(add, [done |-> <<>>, pending |-> <<>>], parts)
    IN  IF packed.pending = <<>> THEN packed.done ELSE Append(packed.done, packed.pending)

Chunks(items) ==
    LET groups == Groups(items) IN Pack(FlattenSeq([g \in DOMAIN groups |-> Slices(groups[g])]))

PlanForward ==
    /\ stage = "inventory"
    /\ forward' = Chunks(Everything) /\ stage' = "forward"
    /\ UNCHANGED <<inventory, limit, answers, unsure, targets, incoming>>

\* The provider's answers.
Answer ==
    /\ stage = "forward"
    /\ \E n \in 0 .. MaxAnswers : \E found \in [1 .. n -> {a \in Answers : a.from \cup a.to \subseteq DOMAIN inventory}] :
           answers' = ToSet(found)
    /\ unsure' \in {{}} \cup {{k} : k \in DOMAIN forward}
    /\ stage' = "answered"
    /\ UNCHANGED <<inventory, limit, forward, targets, incoming>>

-----------------------------------------------------------------------------
(* The doubtful items.                                                     *)

Known(a)   == Cardinality(a.from) = 1
Source(a)  == IF Known(a) THEN a.from ELSE {}
Certain(a) == Known(a) /\ Cardinality(a.to) = 1
CrossSection(a) == Known(a) /\ \E s \in a.from, t \in a.to : SectionOf(s) # SectionOf(t)

\* Mutant: a transition to nowhere says nothing of its source.
FallbackTargets(a) == a.to

\* What is verified for a transition: its targets, or its source if it has none.
Fallback(a) == IF a.to # {} THEN a.to ELSE Source(a)

\* Of an ambiguous target the candidates, or the source if there are too many.
Bounded(a) == IF Cardinality(a.to) <= MaxTargets THEN a.to ELSE Source(a)

OfAnswer(a) ==
    (IF a.to = {} \/ CrossSection(a) \/ a.marks # {} THEN Fallback(a) ELSE {})
        \cup (IF Cardinality(a.to) > 1 THEN Bounded(a) ELSE {})

OfChunks == UNION {ToSet(forward[k]) : k \in unsure}

Moves == {a \in answers : Certain(a)}

Into(n) == {a \in Moves : a.to = {n}}
OutOf(n) == {a \in Moves : a.from = {n}}

OfDegrees ==
    UNION {UNION {a.to : a \in OutOf(n)} : n \in {m \in DOMAIN inventory : Cardinality(OutOf(m)) >= 2
                                                                        \/ Cardinality(OutOf(m)) >= OutDegree}}
        \cup {n \in DOMAIN inventory : Cardinality(Into(n)) >= InDegree}

\* A set that holds whatever certain moves lead to from n.
HoldsReachable(n, reached) == \A a \in Moves : a.from = {n} \/ a.from \subseteq reached => a.to \subseteq reached

OfCycles == {n \in DOMAIN inventory : \A reached \in SUBSET (DOMAIN inventory) : HoldsReachable(n, reached) => n \in reached}

Doubtful == (UNION {OfAnswer(a) : a \in answers}) \cup OfChunks \cup OfDegrees \cup OfCycles

\* select_pass_b_targets
Select ==
    /\ stage = "answered"
    /\ targets' = SetToSortSeq(Doubtful, <) /\ stage' = "selected"
    /\ UNCHANGED <<inventory, limit, forward, answers, unsure, incoming>>

-----------------------------------------------------------------------------
(* The incoming pass.                                                      *)

Preceding(t) == SubSeq(Everything, 1, t - 1)

\* The three items before a target, then the last one of every section before it, nearest first.
Close(t) == LET n == t - 1 IN Reverse(SubSeq(Everything, IF n > 3 THEN n - 2 ELSE 1, n))

LastOfSections(t) ==
    SelectSeq(Reverse(Preceding(t)), LAMBDA i : \A j \in i + 1 .. t - 1 : SectionOf(j) # SectionOf(i))

Siblings(chunk) == SelectSeq(Everything, LAMBDA i : \E t \in ToSet(chunk) : SectionOf(t) = SectionOf(i))

\* Each item where it is first named.
Distinct(items) ==
    LET first == SelectSeq([k \in DOMAIN items |-> k], LAMBDA k : \A j \in 1 .. k - 1 : items[j] # items[k])
    IN  [k \in DOMAIN first |-> items[first[k]]]

Shortened(items) == SubSeq(items, 1, IF Len(items) < limit THEN Len(items) ELSE limit)

ByPriority(chunk) ==
    FlattenSeq([k \in DOMAIN chunk |-> Close(chunk[k]) \o LastOfSections(chunk[k])]) \o Siblings(chunk)

\* The other items a request shows, up to the limit; the targets themselves when there is none.
Relevant(chunk) ==
    LET other == SelectSeq(Distinct(ByPriority(chunk)), LAMBDA i : i \notin ToSet(chunk))
    IN  ToSet(Shortened(IF other = <<>> THEN chunk ELSE other))

\* _stable_target_chunks
PlanIncoming ==
    /\ stage = "selected"
    /\ incoming' = Chunks(targets) /\ stage' = "planned"
    /\ UNCHANGED <<inventory, limit, forward, answers, unsure, targets>>

Next == PlanForward \/ Answer \/ Select \/ PlanIncoming

Spec == Init /\ [][Next]_vars

-----------------------------------------------------------------------------
(* Properties.                                                             *)

Planned == stage = "planned"

\* Every item is in one request of the forward pass, in source order, and every request is within the limit and
\* about something; the same for the doubtful items and the incoming pass.
EachItemOnce ==
    /\ stage # "inventory" =>
           FlattenSeq(forward) = Everything /\ \A k \in DOMAIN forward : Len(forward[k]) \in 1 .. limit
    /\ Planned =>
           /\ FlattenSeq(incoming) = targets
           /\ \A k \in DOMAIN incoming : Len(incoming[k]) \in 1 .. limit

\* A section or repeat group whose items fit one request is not divided between two.
GroupsStayTogether ==
    stage # "inventory" =>
        \A g \in ToSet(Groups(Everything)) :
            Len(g) <= limit => \E k \in DOMAIN forward : ToSet(g) \subseteq ToSet(forward[k])

\* A transition found by the forward pass that leads nowhere known, to one of several items, out of its section, or
\* is dubious for another reason, has an end that the incoming pass verifies, as long as its source is known.
DoubtsAreVerified ==
    Planned =>
        \A a \in answers :
            Known(a) /\ (~Certain(a) \/ CrossSection(a) \/ a.marks # {}) =>
                (a.from \cup a.to) \cap UNION {ToSet(incoming[k]) : k \in DOMAIN incoming} # {}

\* From where a target may be reached: the three items before it, and the last item of each section before it.
NearTo(t)     == {i \in DOMAIN inventory : i < t /\ t - i <= 3}
EndsBefore(t) == {i \in 1 .. t - 1 : \A j \in i + 1 .. t - 1 : SectionOf(j) # SectionOf(i)}

\* An item from where a target may be reached is left out of its request only because the limit is used up, and used
\* up by what goes before it: what the targets before this one may be reached from, and of this target the nearer
\* of the three items, and these before the ends of sections.  So siblings are shown only when all of these are.
\* It is not what goes before all others that comes first: the ends of sections of one target go before the
\* three items of the next, and a late target may find the limit used up and nothing before it shown.
CutAtTheLimit ==
    \A k \in DOMAIN incoming :
        LET chunk == incoming[k]
            asked == ToSet(chunk)
            shown == Relevant(chunk)
        IN  \A p \in DOMAIN chunk :
                LET earlier == UNION {NearTo(chunk[q]) \cup EndsBefore(chunk[q]) : q \in 1 .. p - 1}
                    near    == NearTo(chunk[p])
                    ends    == EndsBefore(chunk[p])
                IN  /\ \A i \in (near \ asked) \ shown :
                           /\ Cardinality(shown) = limit
                           /\ shown \subseteq earlier \cup {j \in near : j > i}
                    /\ \A i \in (ends \ asked) \ shown :
                           /\ Cardinality(shown) = limit
                           /\ shown \subseteq earlier \cup near \cup {j \in ends : j > i}

\* Other items are shown to a request whenever there are any before its targets, and never more than the limit.
OthersAreShown ==
    \A k \in DOMAIN incoming :
        LET asked == ToSet(incoming[k])
            shown == Relevant(incoming[k])
        IN  /\ Cardinality(shown) \in 1 .. limit
            /\ (1 .. Last(incoming[k])) \ asked # {} => shown \cap asked = {}
=============================================================================
