--------------------------- MODULE Reconciliation ----------------------------
(***************************************************************************)
(* reconcile_routing_graph (routing/reconcile.py): verified observations   *)
(* of the routes of a questionnaire become claims; an undisputed claim     *)
(* becomes an accepted edge, any other a candidate with its discrepancies. *)
(*                                                                         *)
(* Simplifications.                                                        *)
(*  - The items are numbered in source order.  A target or a condition is  *)
(*    what the identity resolver makes of it (RoutingInventory).           *)
(*  - An observation is its own evidence identifier and source span; the   *)
(*    order of observations, which shows only in the order of the results, *)
(*    and confidences are left out.                                        *)
(***************************************************************************)
EXTENDS Integers, FiniteSets

CONSTANTS
    Items,         \* 1 .. n, in source order
    Section,       \* the section path of each item
    Within,        \* the group each item is a member of
    Entry,         \* items of kind entry
    Conditions,    \* canonical conditions
    Observations,  \* transitions that may be observed
    Activations,   \* statements of applicability that may be observed
    Applicable,    \* the conditions of applicability the items may have before
    MaxObserved    \* bound on the observations of a questionnaire

Absent     == "none"
Ambiguous  == 0             \* a target with several exact matches
Unknown    == -1            \* a target with none
NoPriority == -1
Opaque     == "opaque"      \* a condition that cannot be parsed
Always     == "always"      \* the projection of a native route without a condition
Unresolved == "unresolved"  \* a condition on an item that cannot be resolved

EdgeKinds == {"conditional", "default", "unconditional", "sequential"}
Origins   == {"forward", "incoming", "native"}

Transitions ==
    [src : Items, tgt : Items \cup {Ambiguous, Unknown}, kind : EdgeKinds,
     cond : Conditions \cup {Absent, Opaque, Unresolved}, origin : Origins,
     explicit : BOOLEAN, fuzzy : BOOLEAN, prio : {NoPriority, 1, 2},
     native : Conditions \cup {Absent, Always, Opaque}]

\* What the models accept of a transition (TransitionEvidence, _validate_source_priorities)
\* and prepare_native_routing makes of a native one.
WellFormed(o) ==
    /\ (o.kind = "conditional") = (o.cond # Absent)
    /\ (o.native # Absent) = (o.origin = "native")
    /\ o.origin = "native" => o.explicit /\ ~o.fuzzy /\ (o.cond = Absent) = (o.native = Always)
    /\ o.prio # NoPriority => o.kind \in {"conditional", "default"} /\ o.origin = "native"

Statements ==
    [item : Items \cup {Ambiguous, Unknown}, cond : Conditions \cup {Opaque, Unresolved}, fuzzy : BOOLEAN]

ReconciliationAssumption ==
    /\ Activations \subseteq Statements
    /\ Applicable \subseteq [Items -> Conditions \cup {Absent}]
    /\ \A o \in Observations : o \in Transitions /\ WellFormed(o)
    /\ MaxObserved \in Nat

VARIABLES
    evidence,  \* the verified observations of transitions
    stated,    \* those of applicability
    when,      \* the condition of applicability of each item
    graph      \* the graph made of them

graphVars == <<evidence, stated, when, graph>>

NoGraph == [built |-> FALSE, failed |-> FALSE, edges |-> {}, status |-> <<>>, notes |-> <<>>,
            when |-> <<>>, unclear |-> {}]
NotBuilt == [NoGraph EXCEPT !.failed = TRUE]

ReconciliationInit ==
    /\ evidence \in SUBSET Observations /\ IsFiniteSet(evidence) /\ Cardinality(evidence) <= MaxObserved
    /\ stated \in SUBSET Activations /\ IsFiniteSet(stated) /\ Cardinality(stated) <= MaxObserved
    /\ when \in Applicable
    /\ graph = NoGraph

-----------------------------------------------------------------------------
(* Claims: the observations of one route.                                  *)

Route(o) == [src |-> o.src, tgt |-> o.tgt, kind |-> o.kind, cond |-> o.cond, fuzzy |-> o.fuzzy]

Claims(E) ==
    {[src |-> r.src, tgt |-> r.tgt, kind |-> r.kind, cond |-> r.cond, fuzzy |-> r.fuzzy,
      seen |-> {o \in E : Route(o) = r}] : r \in {Route(o) : o \in E}}

Priorities(c) == {o.prio : o \in c.seen} \ {NoPriority}
Priority(c)   == IF Cardinality(Priorities(c)) = 1 THEN CHOOSE p \in Priorities(c) : TRUE ELSE NoPriority

HasOutgoing(c) == \E o \in c.seen : o.origin \in {"forward", "native"}
HasIncoming(c) == \E o \in c.seen : o.origin = "incoming"
IsExplicit(c)  == \E o \in c.seen : o.explicit

When(condition, issue) == IF condition THEN {issue} ELSE {}

\* _mark_local_claim_issues, _validate_native_projection
LocalIssues(c) ==
    When(c.tgt = Ambiguous, "AMBIGUOUS_TARGET")
        \cup When(c.tgt = Unknown, "UNRESOLVED_TARGET")
        \cup When(c.fuzzy, "FUZZY_TARGET")
        \cup When(c.cond = Opaque \/ \E o \in c.seen : o.native = Opaque, "OPAQUE_CONDITION")
        \cup When(c.cond = Unresolved, "AMBIGUOUS_CONDITION_REFERENCE")
        \cup When(/\ c.kind # "sequential"
                  /\ \E o \in c.seen : ~o.explicit /\ o.origin # "native", "SEQUENTIAL_UNCLEAR")
        \cup When(Cardinality(Priorities(c)) > 1, "CONFLICTING_PRIORITY")
        \cup When(/\ c.cond \in Conditions \cup {Opaque}
                  /\ \E o \in c.seen : o.native \notin {Absent, Always, Opaque, c.cond}, "CONFLICTING_CONDITION")

Branch(c) == <<c.src, c.kind, c.cond, Priority(c)>>

\* Mutant: an incoming claim is compared and otherwise left alone.
IncomingIssuesMatched(c, C) ==
    LET outgoingOnly(d) == HasOutgoing(d) /\ ~HasIncoming(d)
        incomingOnly(d) == HasIncoming(d) /\ ~HasOutgoing(d)
        opposed == \E d \in C : /\ Branch(d) = Branch(c)
                                /\ \/ outgoingOnly(c) /\ incomingOnly(d)
                                   \/ incomingOnly(c) /\ outgoingOnly(d)
    IN  When(opposed, "CONFLICTING_TARGET")

\* _mark_incoming_disagreements
IncomingIssues(c, C) ==
    LET outgoingOnly(d) == HasOutgoing(d) /\ ~HasIncoming(d)
        incomingOnly(d) == HasIncoming(d) /\ ~HasOutgoing(d)
        opposed == \E d \in C : /\ Branch(d) = Branch(c)
                                /\ \/ outgoingOnly(c) /\ incomingOnly(d)
                                   \/ incomingOnly(c) /\ outgoingOnly(d)
    IN  When(opposed, "CONFLICTING_TARGET") \cup When(incomingOnly(c) /\ ~opposed, "INCOMING_ONLY")

\* _mark_default_and_priority_conflicts
OrderIssues(c, C) ==
    LET siblings == {d \in C : d.src = c.src /\ d # c}
    IN  When(c.kind = "default" /\ \E d \in siblings : d.kind = "default", "MULTIPLE_DEFAULTS")
            \cup When(Priority(c) # NoPriority /\ \E d \in siblings : Priority(d) = Priority(c), "CONFLICTING_PRIORITY")

\* The item that follows i in its section and its group, or Unknown.
Successor(i) ==
    LET later == {j \in Items : j > i /\ Section[j] = Section[i] /\ Within[j] = Within[i] /\ j \notin Entry}
    IN  IF later = {} THEN Unknown ELSE CHOOSE j \in later : \A k \in later : j <= k

\* _mark_sequential_inference_issues
SequenceIssues(c, C) ==
    IF c.kind # "sequential" \/ IsExplicit(c) \/ c.tgt \notin Items THEN {}
    ELSE IF c.tgt <= c.src THEN {"INFERRED_CYCLE"}
    ELSE IF c.tgt # Successor(c.src) THEN {"SEQUENTIAL_UNCLEAR"}
    ELSE When(\E d \in C : /\ d # c /\ d.src = c.src /\ d.tgt # c.tgt
                           /\ HasOutgoing(d) /\ IsExplicit(d)
                           /\ d.kind \in {"default", "sequential", "unconditional"}, "SEQUENTIAL_BYPASSED")

Issues(c, C) == LocalIssues(c) \cup IncomingIssues(c, C) \cup OrderIssues(c, C) \cup SequenceIssues(c, C)

-----------------------------------------------------------------------------
(* Edges, candidates and discrepancies.                                    *)

HumanIssues == {"AMBIGUOUS_TARGET", "FUZZY_TARGET", "INFERRED_CYCLE", "UNRESOLVED_TARGET"}

Kind(issue) ==
    CASE issue \in {"AMBIGUOUS_CONDITION_REFERENCE", "CONFLICTING_CONDITION", "CONFLICTING_PRIORITY"} -> "condition"
      [] issue \in {"AMBIGUOUS_TARGET", "FUZZY_TARGET"} -> "ambiguous target"
      [] issue = "CONFLICTING_TARGET" -> "target"
      [] issue = "INCOMING_ONLY" -> "incoming"
      [] issue = "INFERRED_CYCLE" -> "cycle"
      [] issue = "MULTIPLE_DEFAULTS" -> "defaults"
      [] issue = "OPAQUE_CONDITION" -> "opaque"
      [] issue = "UNRESOLVED_TARGET" -> "unresolved"
      [] OTHER -> "other"

Edge(c, evid, review) ==
    [src |-> c.src, tgt |-> c.tgt, kind |-> c.kind, cond |-> c.cond, prio |-> Priority(c),
     seen |-> evid, review |-> review]

Accepted(C) == {Edge(c, c.seen, 0) : c \in {d \in C : Issues(d, C) = {} /\ HasOutgoing(d)}}

Candidates(C) == {c \in C : Issues(c, C) # {}}

FirstStatus(c, C) == IF Issues(c, C) \cap HumanIssues # {} THEN "human" ELSE "agent"

\* One discrepancy for each issue of an item.
Disputes(C) ==
    UNION {{[issue |-> i, cands |-> {d \in C : d.src = c.src /\ i \in Issues(d, C)}] : i \in Issues(c, C)} : c \in C}

\* Its identifier does not name the issue.
NoteId(d) == <<Kind(d.issue), d.cands>>

\* Two discrepancies with one identifier: the audit is not valid.
Collide(D) == \E d, e \in D : d # e /\ NoteId(d) = NoteId(e)

FirstNote(d, C) == [human |-> \E c \in d.cands : Issues(c, C) \cap HumanIssues # {}, by |-> 0]

-----------------------------------------------------------------------------
(* Applicability: the statements of one item must agree with each other    *)
(* and with what the item has already.                                     *)

\* The code of the diagnostic a statement gets by itself, or None.
Unclear(a) ==
    IF a.item = Ambiguous THEN "AMBIGUOUS_ACTIVATION_REFERENCE"
    ELSE IF a.item = Unknown THEN "UNRESOLVED_ACTIVATION_REFERENCE"
    ELSE IF a.fuzzy THEN "FUZZY_ACTIVATION_REFERENCE"
    ELSE IF a.cond = Unresolved THEN "AMBIGUOUS_ACTIVATION_REFERENCE"
    ELSE IF a.cond = Opaque THEN "OPAQUE_ACTIVATION_CONDITION" ELSE Absent

Clear(S, i) == {a \in S : a.item = i /\ Unclear(a) = Absent}

Said(S, i) == {a.cond : a \in Clear(S, i)} \cup ({when[i]} \ {Absent})

Disagreed(S) == {i \in Items : Clear(S, i) # {} /\ Cardinality(Said(S, i)) > 1}

\* _reconcile_activation_evidence
Agreed(S) ==
    [i \in Items |-> IF Clear(S, i) # {} /\ i \notin Disagreed(S) THEN CHOOSE k \in Said(S, i) : TRUE
                     ELSE when[i]]

ActivationNotes(S) ==
    {<<Unclear(a), {a}>> : a \in {b \in S : Unclear(b) # Absent}}
        \cup {<<"ACTIVATION_CONFLICT", Clear(S, i)>> : i \in Disagreed(S)}

Reconcile ==
    /\ graph = NoGraph
    /\ LET C == Claims(evidence)
           D == Disputes(C)
       IN  graph' = IF Collide(D) THEN NotBuilt
                    ELSE [built |-> TRUE, failed |-> FALSE, edges |-> Accepted(C),
                          status |-> [c \in Candidates(C) |-> FirstStatus(c, C)],
                          notes |-> [n \in {NoteId(d) : d \in D} |->
                                        FirstNote(CHOOSE d \in D : NoteId(d) = n, C)],
                          when |-> Agreed(stated), unclear |-> ActivationNotes(stated)]
    /\ UNCHANGED <<evidence, stated, when>>

ReconciliationSpec == ReconciliationInit /\ [][Reconcile]_graphVars

-----------------------------------------------------------------------------
(* Properties.                                                             *)

GraphTypeOK ==
    /\ evidence \subseteq Observations
    /\ graph.built =>
          /\ \A e \in graph.edges : e.tgt \in Items /\ e.cond \in Conditions \cup {Absent} /\ e.seen # {}
          /\ \A c \in DOMAIN graph.status : graph.status[c] \in {"agent", "human"}
          /\ \A n \in DOMAIN graph.notes : n[2] # {} /\ graph.notes[n].human \in BOOLEAN

\* No observation is lost and none is used twice: each is evidence of one accepted edge
\* or of one candidate, and each candidate is in a discrepancy that a reviewer is given.
NothingVanishes ==
    graph.built =>
        /\ \A o \in evidence :
              Cardinality({e \in graph.edges : o \in e.seen})
                  + Cardinality({c \in DOMAIN graph.status : o \in c.seen}) = 1
        /\ \A c \in DOMAIN graph.status : \E n \in DOMAIN graph.notes : c \in n[2]

\* docs/routing.md, "Graph layers": "A disputed, rejected, ambiguous, or unresolved route
\* never enters accepted adjacency".  An accepted route was seen from its source, exactly,
\* it shares its order of evaluation with no other route of the item, and no inferred
\* sequence stays beside an explicit route that always leaves it.
AcceptedIsUndisputed ==
    graph.built =>
        \A e \in graph.edges :
            /\ \E o \in e.seen : o.origin # "incoming"
            /\ \A o \in e.seen : ~o.fuzzy
            /\ \A f \in graph.edges : f # e /\ f.src = e.src =>
                  /\ e.prio = NoPriority \/ f.prio # e.prio
                  /\ ~(e.kind = "default" /\ f.kind = "default")
                  /\ ~/\ e.kind = "sequential" /\ \A o \in e.seen : ~o.explicit
                      /\ f.kind \in {"default", "unconditional"} /\ f.tgt # e.tgt

\* An item's condition of applicability is one that all its exact statements give, and never
\* replaces another; a statement the graph does not follow has a diagnostic.
ApplicabilityIsAgreed ==
    graph.built =>
        /\ \A i \in Items : when[i] # Absent => graph.when[i] = when[i]
        /\ \A a \in stated : \/ (a.item \in Items /\ ~a.fuzzy /\ graph.when[a.item] = a.cond)
                              \/ \E n \in graph.unclear : a \in n[2]
=============================================================================
