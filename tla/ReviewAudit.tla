----------------------------- MODULE ReviewAudit -----------------------------
(***************************************************************************)
(* The review of what reconciliation left in dispute: the discrepancies    *)
(* that share candidates are put before a reviewer together                *)
(* (routing/review.py), the decisions are appended to the audit and the    *)
(* accepted edges made again from the source's and the decisions'          *)
(* (append_review_decisions), and the models check the result              *)
(* (models/routing.py).  A refused append leaves the graph as it was.      *)
(*                                                                         *)
(* Simplifications: a decision is named by its position; it cites all the  *)
(* evidence of its candidates; a packet is any union of whole groups of    *)
(* overlapping discrepancies that fits.                                    *)
(***************************************************************************)
EXTENDS Reconciliation, Sequences

CONSTANTS
    MaxNotes,     \* max_discrepancies_per_review_call
    MaxDecisions  \* bound on the decisions of an audit

VARIABLES
    decisions,  \* the review decisions, in order
    refused     \* the decisions of an append that was refused

reviewVars == <<graphVars, decisions, refused>>

ReviewInit == ReconciliationInit /\ decisions = <<>> /\ refused = <<>>

NoEdge == [kind |-> Absent]

-----------------------------------------------------------------------------
(* Packets and the decisions of a response.                                *)

Open == {n \in DOMAIN graph.notes : graph.notes[n].by = 0}

\* The open discrepancies that share candidates with n, directly or not.
Component(n) ==
    LET near(N) == N \cup {m \in Open : \E k \in N : m[2] \cap k[2] # {}}
        grow[i \in Nat] == IF i = 0 THEN {n} ELSE near(grow[i - 1])
    IN  grow[Cardinality(Open)]

Packets ==
    {N \in (SUBSET Open) \ {{}} : Cardinality(N) <= MaxNotes /\ \A n \in N : Component(n) \subseteq N}

\* The ways to decide a packet, by one or two decisions: each discrepancy by exactly one.
Coverings(N) == {<<N>>} \cup {<<M, N \ M>> : M \in (SUBSET N) \ {{}, N}}

CandidatesOf(N) == UNION {n[2] : n \in N}
EvidenceOf(K)   == UNION {c.seen : c \in K}

Replacements(K) ==
    {[src |-> c.src, tgt |-> t, kind |-> c.kind, cond |-> c.cond, prio |-> Priority(c), seen |-> evid, review |-> 0] :
        c \in K, t \in Items, evid \in (SUBSET EvidenceOf(K)) \ {{}}}

Decision(N, K, action, repl, human, over) ==
    [notes |-> N, cands |-> K, action |-> action, repl |-> repl, human |-> human, over |-> over]

\* The decisions D whose successor is not among them.
Superseded(D) == {D[i].over : i \in DOMAIN D}

\* Mutant: a decision stays active whatever came after.
ActiveEver(D) == DOMAIN D

\* _active_review_decisions
Active(D) == DOMAIN D \ Superseded(D)

\* The decision each candidate of K was last in.
Latest(D, K) == {i \in Active(D) : D[i].cands \cap K # {}}

\* build_review_decisions: a decision follows the latest of its candidates, which must be one
\* that decided the same.
Chained(D, K) ==
    /\ Cardinality(Latest(D, K)) <= 1
    /\ \A i \in Latest(D, K) : D[i].cands = K

Predecessor(D, K) == IF Latest(D, K) = {} THEN 0 ELSE CHOOSE i \in Latest(D, K) : TRUE

-----------------------------------------------------------------------------
(* append_review_decisions.                                                *)

Exact(c) == c.tgt \in Items /\ c.cond \notin {Opaque, Unresolved}

SameRoute(e, f) == e.src = f.src /\ e.tgt = f.tgt /\ e.kind = f.kind /\ e.cond = f.cond

\* The edges decision i of D adds.
Decided(D, i) ==
    CASE D[i].action = "confirm" -> {Edge(c, c.seen, i) : c \in D[i].cands}
      [] D[i].action = "replace" -> {[D[i].repl EXCEPT !.review = i]}
      [] OTHER -> {}

\* _merge_and_sort_edges: edges of one identity become one.
Merge(E) ==
    LET twins(e) == {f \in E : SameRoute(e, f) /\ e.prio = f.prio}
        last(F)  == CHOOSE i \in {f.review : f \in F} : \A f \in F : f.review <= i
    IN  {[e EXCEPT !.seen = UNION {f.seen : f \in twins(e)}, !.review = last(twins(e))] : e \in E}

Kept == {e \in graph.edges : e.review = 0}

EdgesOf(D) == Merge(Kept \cup UNION {Decided(D, i) : i \in Active(D)})

\* _edge_from_replacement: its condition must resolve exactly.
Replaceable(e) == e.cond \notin {Opaque, Unresolved}

\* _transition_evidence_matches_edge
Describes(o, e) == SameRoute(o, e)

\* _validate_edge_support
Supported(e, D) ==
    /\ \A o \in e.seen : Describes(o, e)
    /\ e.review # 0 =>
          \/ /\ D[e.review].action = "confirm"
             /\ Cardinality({c \in D[e.review].cands :
                   Exact(c) /\ SameRoute(c, e) /\ c.seen = e.seen /\ Priority(c) = e.prio}) = 1
          \/ D[e.review].action = "replace" /\ e = [D[e.review].repl EXCEPT !.review = e.review]

Acceptable(D) ==
    /\ \A i \in Active(D) : D[i].action = "confirm" => \A c \in D[i].cands : Exact(c)
    /\ \A i \in Active(D) : D[i].action = "replace" => Replaceable(D[i].repl)
    /\ \A e, f \in EdgesOf(D) : e.kind = "default" /\ f.kind = "default" /\ e.src = f.src => e = f
    /\ \A e \in EdgesOf(D) : Supported(e, D)

\* The last active decision of D that satisfies a test, or 0.
LastOf(I) == IF I = {} THEN 0 ELSE CHOOSE i \in I : \A j \in I : j <= i

\* _apply_candidate_statuses
StatusOf(c, D) ==
    LET i == LastOf({j \in Active(D) : c \in D[j].cands})
    IN  IF i = 0 THEN graph.status[c]
        ELSE CASE D[i].action = "confirm" -> "accepted"
               [] D[i].action = "unresolved" -> "human"
               [] OTHER -> "rejected"

\* _apply_discrepancy_resolutions
NoteOf(n, D) ==
    LET i == LastOf({j \in Active(D) : n \in D[j].notes})
    IN  IF i = 0 THEN [graph.notes[n] EXCEPT !.by = 0]
        ELSE [human |-> D[i].human, by |-> IF D[i].action = "unresolved" THEN 0 ELSE i]

Apply(D) ==
    IF Acceptable(D)
    THEN /\ decisions' = D
         /\ graph' = [graph EXCEPT !.edges = EdgesOf(D),
                                   !.status = [c \in DOMAIN graph.status |-> StatusOf(c, D)],
                                   !.notes = [n \in DOMAIN graph.notes |-> NoteOf(n, D)]]
         /\ UNCHANGED refused
    ELSE refused' = D /\ UNCHANGED <<graph, decisions>>

Verdicts(N, K, over) ==
    {Decision(N, K, v.action, NoEdge, v.human, over) : v \in [action : {"confirm", "reject"}, human : BOOLEAN]}
        \cup {Decision(N, K, "unresolved", NoEdge, TRUE, over)}
        \cup {Decision(N, K, "replace", r, FALSE, over) : r \in Replacements(K)}

Decide(D, N) ==
    UNION {{Append(D, v) : v \in Verdicts(N, K, Predecessor(D, K))} :
              K \in {S \in (SUBSET CandidatesOf(N)) \ {{}} : Chained(D, S)}}

\* The decisions D followed by one for each part of a packet.
Followed(D, parts) ==
    IF Len(parts) = 1 THEN Decide(D, parts[1])
    ELSE UNION {Decide(E, parts[2]) : E \in Decide(D, parts[1])}

CanReview == graph.built /\ refused = <<>>

\* A reviewer's response to a packet.
Review ==
    /\ CanReview
    /\ \E N \in Packets : \E parts \in Coverings(N) :
          /\ Len(decisions) + Len(parts) <= MaxDecisions
          /\ \E D \in Followed(decisions, parts) : Apply(D)
    /\ UNCHANGED <<evidence, stated, when>>

\* A caller decides again what was decided.
Redecide ==
    /\ CanReview
    /\ Len(decisions) < MaxDecisions
    /\ \E i \in Active(decisions) :
          \E v \in Verdicts(decisions[i].notes, decisions[i].cands, i) : Apply(Append(decisions, v))
    /\ UNCHANGED <<evidence, stated, when>>

ReviewNext ==
    \/ Reconcile /\ UNCHANGED <<decisions, refused>>
    \/ Review
    \/ Redecide

ReviewSpec == ReviewInit /\ [][ReviewNext]_reviewVars

-----------------------------------------------------------------------------
(* Properties.                                                             *)

ReviewTypeOK ==
    graph.built =>
        /\ \A c \in DOMAIN graph.status : graph.status[c] \in {"agent", "human", "accepted", "rejected"}
        /\ \A n \in DOMAIN graph.notes : graph.notes[n].by \in 0 .. Len(decisions)
        /\ \A e \in graph.edges : e.tgt \in Items /\ e.review \in 0 .. Len(decisions)

\* A route the source supports by itself is in the graph whatever is decided, and decided
\* again, about its rivals: no decision takes it, its evidence or its standing over.
SourceRoutesStay == graph.built => Accepted(Claims(evidence)) \subseteq graph.edges

\* What is in the graph by review is what an active decision put there, and a candidate is
\* marked accepted exactly while an edge of its own stands for it.
ReviewedRoutesAreDecided ==
    graph.built =>
        /\ \A e \in graph.edges : e.review # 0 => e.review \in Active(decisions)
        /\ \A c \in DOMAIN graph.status :
              graph.status[c] = "accepted" <=>
                  \E e \in graph.edges : /\ e.review # 0 /\ SameRoute(c, e) /\ e.seen = c.seen
                                         /\ decisions[e.review].action = "confirm"
                                         /\ c \in decisions[e.review].cands

\* However the decisions follow, an item has at most one default route.
OneDefault ==
    graph.built => \A e, f \in graph.edges : e.src = f.src /\ e.kind = "default" /\ f.kind = "default" => e = f

\* A discrepancy counts as resolved only by a decision that is about it, settles it and
\* has not been superseded.
ResolutionIsCurrent ==
    graph.built =>
        \A n \in DOMAIN graph.notes : graph.notes[n].by # 0 =>
            /\ graph.notes[n].by \in Active(decisions)
            /\ n \in decisions[graph.notes[n].by].notes
            /\ decisions[graph.notes[n].by].action # "unresolved"

\* As long as no decision is applied the graph is what reconciliation made of the observations: each is an edge, a
\* candidate or a discrepancy, and what is accepted, edge or condition, nobody disputes.
ReconciliationIsFair ==
    decisions = <<>> => GraphTypeOK /\ NothingVanishes /\ AcceptedIsUndisputed /\ ApplicabilityIsAgreed

\* However decisions supersede each other, the source's routes stay, a route by review has a decision in force, and
\* so has every resolution; an item keeps one default.
ReviewIsInForce ==
    ReviewTypeOK /\ SourceRoutesStay /\ ReviewedRoutesAreDecided /\ OneDefault /\ ResolutionIsCurrent
=============================================================================
