-------------------------- MODULE RoutingValidation --------------------------
(***************************************************************************)
(* The analysis of a routing graph (routing/validate.py) beside the        *)
(* invariants the models enforce when the graph is constructed             *)
(* (QuestionnaireRoutingGraph, LoopDefinition in models/routing.py).       *)
(*                                                                         *)
(* Simplifications: nodes are their positions; the accepted edges are      *)
(* those reconciliation can make (canonical ends, no duplicates, derived   *)
(* adjacency), so the diagnostics of malformed tables are left out, as are *)
(* those that only repeat open discrepancies.  What conditions refer to is *)
(* left out, and with it the models' refusal of a reference to anything but*)
(* a question (models/routing.py:702-718).  Reachability and components    *)
(* are by definition: GraphTraversal is about how they are computed.       *)
(***************************************************************************)
EXTENDS Integers, FiniteSets, Reachability

CONSTANTS
    Nodes,       \* 1 .. n, in order
    NodeKind,    \* the kind of each node
    Hierarchies, \* [parent, first]: the parent and the entry child of each node, or 0
    PossibleEdges, \* edges that may be accepted
    MaxEdges,    \* bound on their number
    Categories,  \* the answer codes of the questions with known categories
    Branches,    \* conditions of the conditional edges of one question
    MaxBranches  \* bound on their number

\* _validate_hierarchy of the inventory lets through no parent that is not a section or repeat group.
ValidationAssumption ==
    /\ IsFiniteSet(Nodes) /\ Nodes \subseteq Nat \ {0}
    /\ NodeKind \in [Nodes -> {"entry", "question", "section", "repeat", "terminal"}]
    /\ \A h \in Hierarchies :
          /\ h.parent \in [Nodes -> Nat] /\ h.first \in [Nodes -> Nat]
          /\ \A n \in Nodes : h.parent[n] \in Nodes => NodeKind[h.parent[n]] \in {"section", "repeat"}
    /\ \A t \in PossibleEdges : t.src \in Nodes /\ t.tgt \in Nodes
    /\ MaxEdges \in Nat /\ MaxBranches \in Nat

ASSUME ValidationAssumption

VARIABLES
    edges,      \* the accepted edges
    hierarchy,  \* the containment
    branches,   \* the conditions of one question's conditional edges
    default,    \* whether that question has a default edge
    report      \* what the analysis finds

validationVars == <<edges, hierarchy, branches, default, report>>

\* The sets of at most n members of S.
Upto(S, n) == {{}} \cup {{f[i] : i \in 1 .. n} : f \in [1 .. n -> S]}

EdgeSets   == Upto(PossibleEdges, MaxEdges)
BranchSets == Upto(Branches, MaxBranches)

Pending == [done |-> FALSE]

ValidationInit ==
    /\ edges \in EdgeSets
    /\ hierarchy \in Hierarchies
    /\ branches \in BranchSets
    /\ default \in BOOLEAN /\ (branches = {} => ~default)
    /\ report = Pending

-----------------------------------------------------------------------------
(* Containment.                                                            *)

Parent(n)     == hierarchy.parent[n]
FirstChild(n) == hierarchy.first[n]
Children(n)   == {m \in Nodes : Parent(m) = n}

Ancestors(n) == Closure([m \in Nodes |-> {Parent(m)}], {Parent(n)}) \ {0}

EntryEdges(n) == {e \in edges : e.src = n /\ e.tgt = FirstChild(n)}

EnteredWell(n) == FirstChild(n) = 0 \/ \E e \in edges : EntryEdges(n) = {e} /\ e.kind = "unconditional"

Container(n) == NodeKind[n] \in {"section", "repeat"}

\* validate_containment, _diagnose_containment_entries
ContainmentErrors ==
    {<<"CONTAINMENT_DANGLING_PARENT", n>> : n \in {m \in Nodes : Parent(m) \notin Nodes \cup {0}}}
        \cup {<<"CONTAINMENT_CYCLE", n>> : n \in {m \in Nodes : m \in Ancestors(m)}}
        \cup {<<"CONTAINMENT_ENTRY_INVALID", n>> : n \in {m \in Nodes :
                 \/ Container(m) /\ FirstChild(m) \notin Children(m)
                 \/ ~Container(m) /\ FirstChild(m) # 0
                 \/ ~EnteredWell(m)}}

-----------------------------------------------------------------------------
(* Flow.                                                                   *)

Targets(n) == {e.tgt : e \in {f \in edges : f.src = n}}

From(S) == Closure([n \in Nodes |-> Targets(n)], S)

Entries   == {n \in Nodes : NodeKind[n] = "entry"}
Terminals == {n \in Nodes : NodeKind[n] = "terminal"}

FlowErrors ==
    {<<"TERMINAL_OUTGOING", e.src>> : e \in {f \in edges : f.src \in Terminals}}
        \cup {<<"MULTIPLE_DEFAULTS", e.src>> : e \in {f \in edges :
                 f.kind = "default" /\ \E g \in edges : g # f /\ g.src = f.src /\ g.kind = "default"}}

Unreachable == Nodes \ From(Entries)
DeadEnds    == {n \in From(Entries) \ Terminals : Targets(n) = {}}

\* _diagnose_terminal_paths
WithoutPath == {n \in From(Entries) : From({n}) \cap Terminals = {}}

-----------------------------------------------------------------------------
(* Loops.                                                                  *)

\* _declared_regions: a repeat group and what it contains.
Region(r) == {r} \cup {n \in Nodes : r \in Ancestors(n)}

Declared == IF ContainmentErrors = {} THEN {r \in Nodes : NodeKind[r] = "repeat"} ELSE {}

Inside(e, S) == e.src \in S /\ e.tgt \in S

\* The first of the smallest regions.
Innermost(regions, size) ==
    CHOOSE r \in regions : \A s \in regions : size[r] < size[s] \/ (size[r] = size[s] /\ r <= s)

\* The innermost declared region an edge is in, or 0.
Owner(e) ==
    LET holders == {r \in Declared : Inside(e, Region(r))}
    IN  IF holders = {} THEN 0 ELSE Innermost(holders, [r \in holders |-> Cardinality(Region(r))])

Backward(e) == e.tgt <= e.src

\* _loop_edge_roles, _make_loop; group is 0 for a region that is not declared.
Loop(group, S) ==
    LET own == {e \in edges : Inside(e, S) /\ (group = 0 \/ Owner(e) \in {0, group})}
    IN  [group |-> group, members |-> S,
         entry |-> {e \in edges : e.src \notin S /\ e.tgt \in S},
         inner |-> {e \in own : ~Backward(e)},
         back  |-> {e \in own : Backward(e)},
         exit  |-> {e \in edges : e.src \in S /\ e.tgt \notin S}]

StrongComponent(n) == {m \in Nodes : m \in From({n}) /\ n \in From({m})}

\* Mutant: a node that follows itself is no cycle.
CyclicPlural == {StrongComponent(n) : n \in {m \in Nodes : Cardinality(StrongComponent(m)) > 1}}

\* _component_is_cyclic
Cyclic ==
    {StrongComponent(n) : n \in {m \in Nodes : \/ Cardinality(StrongComponent(m)) > 1
                                              \/ \E e \in edges : e.src = m /\ e.tgt = m}}

Undeclared == {S \in Cyclic : \A r \in Declared : ~(S \subseteq Region(r))}

\* _edge_is_source_supported
SourceSupported(S) ==
    Loop(0, S).back # {} /\ \A e \in Loop(0, S).back : e.reviewed \/ e.explicit

Loops ==
    {Loop(r, Region(r)) : r \in Declared}
        \cup {Loop(0, S) : S \in {T \in Undeclared : SourceSupported(T)}}

Unsupported == {S \in Undeclared : ~SourceSupported(S)}

-----------------------------------------------------------------------------
(* Branches: a condition [of, op, codes] on a question of known categories. *)

\* _condition_category_set: what a condition selects, or none.
Proven(b) == b.op \in {"in", "not in"} /\ b.codes \subseteq Categories

Selected(b) == IF b.op = "in" THEN b.codes ELSE Categories \ b.codes

AllProven == \A b \in branches : Proven(b)

OneQuestion == \E q \in {b.of : b \in branches} : \A b \in branches : b.of = q

\* _diagnose_branch_coverage
Uncovered ==
    /\ branches # {} /\ ~default
    /\ ~(AllProven /\ OneQuestion /\ Categories # {} /\ UNION {Selected(b) : b \in branches} = Categories)

Overlap ==
    /\ Cardinality(branches) > 1
    /\ ~AllProven \/ \E a, b \in branches : a # b /\ Selected(a) \cap Selected(b) # {}

\* analyze_routing_components
Analyze ==
    /\ report = Pending
    /\ report' = [done |-> TRUE,
                  errors |-> ContainmentErrors \cup FlowErrors,
                  unreachable |-> Unreachable, deadEnds |-> DeadEnds, withoutPath |-> WithoutPath,
                  loops |-> Loops, unsupported |-> Unsupported,
                  noExit |-> {l \in Loops : l.exit = {}},
                  uncovered |-> Uncovered, overlap |-> Overlap]
    /\ UNCHANGED <<edges, hierarchy, branches, default>>

ValidationSpec == ValidationInit /\ [][Analyze]_validationVars

-----------------------------------------------------------------------------
(* What the models accept when the graph is constructed.                   *)

\* LoopDefinition
LoopShape(l) ==
    /\ l.members # {}
    /\ l.entry \cup l.inner \cup l.back \cup l.exit # {}
    /\ \A e \in l.entry \cup l.exit : e \notin l.inner \cup l.back
    /\ l.entry \cap l.exit = {} /\ l.inner \cap l.back = {}
    /\ l.group = 0 => l.back # {}

\* _validate_loops
LoopFits(l) ==
    /\ l.group # 0 => NodeKind[l.group] = "repeat"
    /\ \A e \in l.entry : e.src \notin l.members /\ e.tgt \in l.members
    /\ \A e \in l.inner \cup l.back : Inside(e, l.members)
    /\ \A e \in l.exit : e.src \in l.members /\ e.tgt \notin l.members

\* _validate_adjacency, _validate_containment and the check of defaults
GraphAccepted ==
    /\ \A e \in edges : e.src \notin Terminals
    /\ \A n \in Nodes : /\ Parent(n) \in Nodes \cup {0}
                        /\ n \notin Ancestors(n)
                        /\ Children(n) # {} => Container(n)
                        /\ EnteredWell(n)
    /\ \A e, f \in edges : e.src = f.src /\ e.kind = "default" /\ f.kind = "default" => e = f

-----------------------------------------------------------------------------
(* Properties.                                                             *)

\* validate.py: components are analysed "before final graph construction can reject them".
\* When the analysis has no error, the models accept the graph with the loops it made.
NoErrorMeansValid ==
    report.done /\ report.errors = {} =>
        GraphAccepted /\ \A l \in report.loops : LoopShape(l) /\ LoopFits(l)

\* A graph the models accept can always be given its loops: the analysis makes none they refuse.
LoopsCanBeMade == report.done /\ GraphAccepted => \A l \in report.loops : LoopShape(l)

\* Nobody can go round in accepted edges unnoticed: a node on a cycle is in a loop that is
\* recorded or in a cycle that is reported, and an edge goes back in at most one declared loop.
CyclesAreAccounted ==
    report.done =>
        /\ \A n \in Nodes : n \in UNION {From({m}) : m \in Targets(n)} =>
              n \in UNION ({l.members : l \in report.loops} \cup report.unsupported)
        /\ \A e \in edges : Cardinality({l \in report.loops : l.group # 0 /\ e \in l.inner \cup l.back}) <= 1

\* The reports agree: a reachable recorded loop without an exit and a terminal has no terminal
\* path, a dead end has none, and what the analysis says nothing of ends.
ReportsAgree ==
    report.done =>
        /\ \A l \in report.noExit : l.members \cap Terminals = {} =>
              l.members \subseteq report.withoutPath \cup report.unreachable
        /\ report.deadEnds \subseteq report.withoutPath
        /\ \A n \in Nodes \ (report.withoutPath \cup report.unreachable) : From({n}) \cap Terminals # {}

\* Whether b holds when question q is answered by answers[q].
Holds(b, answers) ==
    CASE b.op = "in" -> answers[b.of] \in b.codes
      [] b.op = "not in" -> answers[b.of] \notin b.codes
      [] OTHER -> FALSE

Answers == [{b.of : b \in branches} -> Categories]

\* Conditional edges that are not reported as incomplete leave the question whatever is answered.
CoverageIsProven ==
    report.done /\ branches # {} /\ ~default /\ ~report.uncovered =>
        \A answers \in Answers : \E b \in branches : Holds(b, answers)

\* routing/validate.py: a graph without errors is one the models accept and its loops can be made;
\* cycles, paths and coverage are reported as they are.
ReportsAreTrue == NoErrorMeansValid /\ LoopsCanBeMade /\ CyclesAreAccounted /\ ReportsAgree /\ CoverageIsProven
=============================================================================
