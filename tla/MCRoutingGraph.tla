---------------------------- MODULE MCRoutingGraph ----------------------------
(***************************************************************************)
(* A router's call (RouterRun) and small instances of the components its   *)
(* graph is made by: inventory, region plan, evidence, reconciliation and  *)
(* review, validation, traversal.  A behaviour is one of one component,    *)
(* chosen at the start: "part" says which.  The variables of the others    *)
(* rest; a name two components use is one variable here.                   *)
(***************************************************************************)
EXTENDS RouterRun, RoutingEvidence, ReviewAudit, RoutingValidation, GraphTraversal

VARIABLES
    part,
    step,                                                       \* phase of RoutingInventory
    stage,                                                      \* of RegionPlan
    inventory,                                                  \* of RoutingInventory and RegionPlan
    items, reported, linked, nodes,                             \* RoutingInventory
    limit, forward, answers, unsure, targets, incoming          \* RegionPlan

inventoryVars  == <<items, reported, linked, nodes>>
planVars       == <<limit, forward, answers, unsure, targets, incoming>>

all == <<part, routerVars, step, stage, inventory, inventoryVars, planVars, evidenceVars, reviewVars, validationVars,
         traversalVars>>

Rest == "rest"

Flat == [parent |-> <<0, 0, 0, 0, 0, 0>>, first |-> <<0, 0, 0, 0, 0, 0>>]

Nowhere == [i \in Items |-> Absent]

RouterRests ==
    /\ survey = [id |-> CHOOSE i \in Ids : TRUE, rest |-> 1] /\ file = 1
    /\ binding = [id |-> survey.id, file |-> 1] /\ provider = FALSE /\ phase = "called" /\ copy = survey
    /\ document = NoFile /\ unlinked = FALSE /\ asked = {} /\ failed = {} /\ result = NoResult
InventoryRests  == items = Rest /\ reported = Rest /\ linked = Rest /\ nodes = Rest
PlanRests       == limit = Rest /\ forward = Rest /\ answers = Rest /\ unsure = Rest /\ targets = Rest /\ incoming = Rest
EvidenceRests   == EvidenceInit
ReviewRests     == evidence = {} /\ stated = {} /\ when = Nowhere /\ ReviewInit
ValidationRests == edges = {} /\ hierarchy = Flat /\ branches = {} /\ ValidationInit
TraversalRests  == adj = [n \in Vertices |-> {}] /\ TraversalInit

-----------------------------------------------------------------------------
(* RoutingInventory: hierarchies of three items supplied in any order, or  *)
(* three questions with names that normalize to the same, in a section or  *)
(* outside.                                                                *)

Make(local, printed, path, order, kind, parent, repeat, first) ==
    [local |-> local, printed |-> printed, raw |-> local, path |-> path, order |-> order, kind |-> kind,
     parent |-> parent, repeat |-> repeat, first |-> first, links |-> {}]

SomeHierarchies ==
    {<<Make("a", "", <<>>, 3, k1, p1, r1, f1), [Make("b", "q1", <<>>, o, "repeat", p2, r2, f2) EXCEPT !.links = l],
       [Make("c", "q1", <<"G">>, 1, "question", p3, r3, f3) EXCEPT !.links = {"q1"}]>> :
        k1 \in {"section", "question"}, p1 \in {"", "b"}, r1 \in {"", "b"}, f1 \in BOOLEAN,
        o \in {2, 3}, p2 \in {"", "a", "c"}, r2 \in {"", "b"}, f2 \in BOOLEAN, l \in {{}, {"q2"}},
        p3 \in {"a", "b"}, r3 \in {"", "b", "a"}, f3 \in BOOLEAN}

Asked(local, printed, path, order) == Make(local, printed, path, order, "question", "", "", FALSE)

Questions(printed, paths) ==
    {<<Asked("a", n1, p1, 2), [Asked("b", n2, p2, 1) EXCEPT !.links = l], [Asked("c", n3, p3, 3) EXCEPT !.links = k]>> :
        n1, n2, n3 \in printed, p1, p2, p3 \in paths, l \in {{}, {"q1"}}, k \in {{}, {"q1", "q2"}}}

SomeNames ==
    Questions({"", "q1", "Q_1"}, {<<>>, <<"g">>, <<"G">>}) \cup Questions({"q1", "--"}, {<<>>, <<"g">>})
        \cup Questions({"", "q1"}, {<<"g">>, <<"g", "--">>})
        \cup {<<[s[1] EXCEPT !.raw = "--"]>> : s \in Questions({""}, {<<>>})}

Alias == [n \in {"a", "b", "c", "d", "q1", "Q_1", "q2", "--"} |->
             CASE n = "Q_1" -> "q1" [] n = "--" -> "" [] OTHER -> n]
Slug  == [n \in {"G", "g", "root", "--"} |-> CASE n = "G" -> "g" [] n = "--" -> "" [] OTHER -> n]

Inventory == INSTANCE RoutingInventory WITH
    phase <- step, Extractions <- SomeHierarchies \cup SomeNames, Variables <- <<"q1", "q2">>,
    AliasOf <- Alias, SlugOf <- Slug, Defaults <- {<<>>, <<"g">>, <<"G">>, <<"root">>}

-----------------------------------------------------------------------------
(* RegionPlan: items of two sections, one with a repeat group; an answer   *)
(* of the forward pass with known, unknown and ambiguous ends.             *)

Item(section, group) == [section |-> section, group |-> group]

SomeAnswers ==
    {[from |-> from, to |-> to, marks |-> marks] :
        from \in {{}, {1}, {2}, {1, 2}}, to \in {{}, {1}, {3}, {4}, {2, 3}, {1, 2, 4}}, marks \in {{}, {"opaque"}}}

Forward == INSTANCE RegionPlan WITH
    Items <- {Item("A", "none"), Item("A", "g"), Item("B", "none")}, MaxItems <- 6, Limits <- {1, 2, 3, 4},
    Answers <- {}, MaxAnswers <- 0, MaxTargets <- 2, OutDegree <- 3, InDegree <- 2

Incoming == INSTANCE RegionPlan WITH
    Items <- {Item("A", "none"), Item("B", "none")}, MaxItems <- 5, Limits <- {1, 2, 3},
    Answers <- SomeAnswers, MaxAnswers <- 1, MaxTargets <- 2, OutDegree <- 3, InDegree <- 2

Crossing == INSTANCE RegionPlan WITH
    Items <- {Item("A", "none"), Item("B", "none")}, MaxItems <- 3, Limits <- {1, 2},
    Answers <- SomeAnswers, MaxAnswers <- 2, MaxTargets <- 2, OutDegree <- 3, InDegree <- 2

\* Two or three targets in one request, with more before each than the limit lets in.
Distant == {[from |-> {}, to |-> to, marks |-> {}] : to \in {{2, 6}, {4, 7}, {5, 7}, {6, 7}, {5, 6, 7}}}

Sharing == INSTANCE RegionPlan WITH
    Items <- {Item("A", "none"), Item("B", "none")}, MaxItems <- 7, Limits <- {3, 4},
    Answers <- Distant, MaxAnswers <- 1, MaxTargets <- 3, OutDegree <- 3, InDegree <- 2

-----------------------------------------------------------------------------
(* RoutingEvidence: a paragraph and a table of three rows that begins at   *)
(* row two; spans that stand, that name the wrong rows or place, that are  *)
(* too long.                                                               *)

Doc == [p |-> [first |-> 0, rows |-> <<<<"a", "b">>>>],
        t |-> [first |-> 2, rows |-> <<<<"a">>, <<"b", "a">>, <<"c">>>>]]

At(block, first, last, quote) == [block |-> block, first |-> first, last |-> last, quote |-> quote]

SomeSpans ==
    {At("p", 0, 0, <<"a", "b">>), At("p", 1, 1, <<"a">>), At("q", 0, 0, <<"a">>)}
        \cup {At("t", f, l, q) : f \in {2, 3}, l \in {3, 4}, q \in {<<"c">>, <<"a", "b">>}}
        \cup {At("t", 3, 3, <<"b">>), At("t", 1, 2, <<"a">>), At("t", 3, 5, <<"a">>)}

FewSpans == {At("p", 0, 0, <<"a", "b">>), At("t", 3, 3, <<"b", "a">>), At("t", 3, 3, <<"c">>), At("t", 2, 4, <<"a", "b", "a">>)}

Told(from) == [local : {"z"}, meaning : {"m"}, hint : {"none", "h"}, span : from]

Known(locals, from, ranks) == [local : locals, meaning : {"native"}, hint : {"none"}, span : from, priority : ranks]

SomeReplies == UNION {[1 .. n -> Told(FewSpans)] : n \in 0 .. 2} \cup [1 .. 1 -> Told(SomeSpans)]

SomeNatives == UNION {[1 .. n -> Known({"x", "y"}, FewSpans, {0, 1})] : n \in 0 .. 2} \cup [1 .. 1 -> Known({"x"}, SomeSpans, {0})]

-----------------------------------------------------------------------------
(* Reconciliation: five items, the third in another section, the fourth in *)
(* a group, and up to three observations of the routes from the first and  *)
(* second, or up to four statements of applicability.  ReviewAudit:        *)
(* disputes of up to two observations of routes from one item, up to three *)
(* decisions, packets of up to two discrepancies.                          *)

Seen(src, tgt, kind, cond, origin, explicit) ==
    [src |-> src, tgt |-> tgt, kind |-> kind, cond |-> cond, origin |-> origin, explicit |-> explicit,
     fuzzy |-> FALSE, prio |-> -1, native |-> Absent]

Fuzzy(seenOne) == [seenOne EXCEPT !.fuzzy = TRUE]

Native(tgt, kind, cond, prio, native) ==
    [Seen(1, tgt, kind, cond, "native", TRUE) EXCEPT !.prio = prio, !.native = native]

SomeObservations ==
    {Seen(1, t, k, Absent, g, TRUE) : t \in {2, 3}, k \in {"default", "unconditional", "sequential"}, g \in {"forward", "incoming"}}
        \cup {Seen(1, t, "sequential", Absent, "forward", FALSE) : t \in {1, 2, 4}}
        \cup {Seen(2, t, "sequential", Absent, "forward", FALSE) : t \in {4, 5}}
        \cup {Seen(2, 3, "default", Absent, "forward", FALSE)}
        \cup {Seen(1, t, "conditional", "p", g, TRUE) : t \in {2, 3}, g \in {"forward", "incoming"}}
        \cup {Seen(1, 2, "conditional", c, "forward", TRUE) : c \in {Opaque, Unresolved}}
        \cup {Seen(1, t, "unconditional", Absent, "forward", TRUE) : t \in {Ambiguous, Unknown}}
        \cup {Fuzzy(Seen(1, t, "unconditional", Absent, "forward", TRUE)) : t \in {2, Ambiguous}}
        \cup {Native(t, "conditional", "p", p, "p") : t \in {2, 4}, p \in {1, 2}}
        \cup {Native(t, "default", Absent, 1, "always") : t \in {2, 3}}
        \cup {Native(2, "conditional", Unresolved, -1, Opaque)}

SomeActivations ==
    [item : {1, 2}, cond : {"p", "q"}, fuzzy : {FALSE}]
        \cup {[item |-> 1, cond |-> "p", fuzzy |-> TRUE]}
        \cup {[item |-> i, cond |-> "p", fuzzy |-> FALSE] : i \in {Ambiguous, Unknown}}
        \cup {[item |-> 1, cond |-> c, fuzzy |-> FALSE] : c \in {Opaque, Unresolved}}

SomeApplicable == {[i \in Items |-> IF i = 1 THEN c ELSE Absent] : c \in {Absent, "p", "q"}}

SomeDisputes ==
    {Seen(1, 2, "default", Absent, "forward", TRUE),
     Seen(1, 3, "default", Absent, "forward", TRUE),
     Seen(1, 3, "default", Absent, "incoming", TRUE),
     Fuzzy(Seen(1, 2, "default", Absent, "forward", TRUE)),
     Seen(1, 2, "unconditional", Absent, "forward", TRUE),
     Fuzzy(Seen(1, 2, "unconditional", Absent, "forward", TRUE)),
     Fuzzy(Seen(1, 2, "unconditional", Absent, "forward", FALSE)),
     Seen(1, Unknown, "unconditional", Absent, "forward", TRUE),
     Seen(1, 3, "conditional", Opaque, "forward", TRUE)}

AllObservations == SomeObservations \cup SomeDisputes

SomeSections == <<"s", "s", "t", "s", "s">>
SomeGroups   == <<"none", "none", "none", "g", "none">>

-----------------------------------------------------------------------------
(* RoutingValidation: an entry, two questions, two repeat groups that may  *)
(* be nested, and a terminal; or the branches of one question.             *)

Go(s, t, k, x) == [src |-> s, tgt |-> t, kind |-> k, explicit |-> x, reviewed |-> FALSE]

SomeTransitions ==
    {Go(1, 2, "unconditional", TRUE), Go(2, 3, "unconditional", TRUE), Go(2, 4, "unconditional", TRUE),
     Go(4, 5, "unconditional", TRUE), Go(3, 4, "default", FALSE), Go(3, 2, "conditional", TRUE),
     Go(3, 3, "conditional", FALSE), Go(5, 4, "conditional", TRUE), Go(5, 3, "conditional", FALSE),
     Go(5, 2, "default", TRUE), Go(3, 6, "default", TRUE), Go(5, 6, "unconditional", TRUE),
     Go(6, 1, "unconditional", TRUE), [Go(4, 3, "unconditional", FALSE) EXCEPT !.reviewed = TRUE]}

Nested ==
    {[parent |-> p, first |-> f] :
        p \in {<<0, 0, 2, 0, 4, 0>>, <<0, 0, 2, 2, 4, 0>>, <<0, 4, 2, 2, 4, 0>>, <<0, 0, 0, 2, 4, 0>>},
        f \in {<<0, 3, 0, 5, 0, 0>>, <<0, 4, 0, 5, 0, 0>>, <<0, 0, 0, 5, 0, 0>>}}

SomeBranches ==
    [of : {"q1", "q2"}, op : {"in", "not in"}, codes : (SUBSET {"a", "b", "c"}) \ {{}}]
        \cup [of : {"q1"}, op : {"in"}, codes : {{"x"}, {"a", "x"}}]
        \cup [of : {"q1"}, op : {"opaque"}, codes : {{"a"}}]

NodeKinds == <<"entry", "repeat", "question", "repeat", "question", "terminal">>

SomeNodes       == 1 .. 6
SomeContainment == Nested \cup {Flat}

LoopingInit   == branches = {} /\ hierarchy \in Nested /\ ValidationInit
BranchingInit == edges = {} /\ hierarchy = Flat /\ ValidationInit

-----------------------------------------------------------------------------
(* GraphTraversal: all graphs of four nodes with at most two edges out of  *)
(* each and one out of the last.                                           *)

SomeGraphs == {f \in [1 .. 4 -> {S \in SUBSET (1 .. 4) : Cardinality(S) <= 2}] : Cardinality(f[4]) <= 1}

SomeVertices == 1 .. 4

ASSUME Inventory!InventoryAssumption
ASSUME Forward!PlanAssumption /\ Incoming!PlanAssumption /\ Crossing!PlanAssumption /\ Sharing!PlanAssumption
ASSUME EvidenceAssumption
ASSUME ReconciliationAssumption

-----------------------------------------------------------------------------

MCInit ==
    \/ /\ part = "router" /\ RouterInit
       /\ InventoryRests /\ PlanRests /\ EvidenceRests /\ ReviewRests /\ ValidationRests /\ TraversalRests
       /\ step = Rest /\ stage = Rest /\ inventory = Rest
    \/ /\ part = "inventory" /\ Inventory!Init
       /\ RouterRests /\ PlanRests /\ EvidenceRests /\ ReviewRests /\ ValidationRests /\ TraversalRests
       /\ stage = Rest
    \/ /\ \/ part = "forward" /\ Forward!Init
          \/ part = "incoming" /\ Incoming!Init
          \/ part = "crossing" /\ Crossing!Init
          \/ part = "sharing" /\ Sharing!Init
       /\ RouterRests /\ InventoryRests /\ EvidenceRests /\ ReviewRests /\ ValidationRests /\ TraversalRests
       /\ step = Rest
    \/ /\ part = "evidence" /\ EvidenceInit
       /\ RouterRests /\ InventoryRests /\ PlanRests /\ ReviewRests /\ ValidationRests /\ TraversalRests
       /\ step = Rest /\ stage = Rest /\ inventory = Rest
    \/ /\ \/ part = "routes" /\ evidence \in Upto(SomeObservations, 3) /\ stated = {} /\ when = Nowhere
          \/ part = "applies" /\ evidence = {} /\ stated \in Upto(SomeActivations, 4) /\ when \in SomeApplicable
          \/ part = "reviewed" /\ evidence \in Upto(SomeDisputes, 2) /\ stated = {} /\ when = Nowhere
       /\ ReviewInit
       /\ RouterRests /\ InventoryRests /\ PlanRests /\ EvidenceRests /\ ValidationRests /\ TraversalRests
       /\ step = Rest /\ stage = Rest /\ inventory = Rest
    \/ /\ \/ part = "looping" /\ LoopingInit
          \/ part = "branching" /\ BranchingInit
       /\ RouterRests /\ InventoryRests /\ PlanRests /\ EvidenceRests /\ ReviewRests /\ TraversalRests
       /\ step = Rest /\ stage = Rest /\ inventory = Rest
    \/ /\ part = "traversal" /\ TraversalInit
       /\ RouterRests /\ InventoryRests /\ PlanRests /\ EvidenceRests /\ ReviewRests /\ ValidationRests
       /\ step = Rest /\ stage = Rest /\ inventory = Rest

TraversalStep ==
    /\ part = "traversal" /\ TraversalNext
    /\ UNCHANGED <<part, routerVars, step, stage, inventory, inventoryVars, planVars, evidenceVars, reviewVars,
                   validationVars>>

MCNext ==
    \/ /\ part = "router" /\ RouterNext
       /\ UNCHANGED <<part, step, stage, inventory, inventoryVars, planVars, evidenceVars, reviewVars,
                      validationVars, traversalVars>>
    \/ /\ part = "inventory" /\ Inventory!Next
       /\ UNCHANGED <<part, routerVars, stage, planVars, evidenceVars, reviewVars, validationVars, traversalVars>>
    \/ /\ \/ part = "forward" /\ Forward!Next
          \/ part = "incoming" /\ Incoming!Next
          \/ part = "crossing" /\ Crossing!Next
          \/ part = "sharing" /\ Sharing!Next
       /\ UNCHANGED <<part, routerVars, step, inventoryVars, evidenceVars, reviewVars, validationVars, traversalVars>>
    \/ /\ part = "evidence" /\ EvidenceNext
       /\ UNCHANGED <<part, routerVars, step, stage, inventory, inventoryVars, planVars, reviewVars, validationVars,
                      traversalVars>>
    \/ /\ part \in {"routes", "applies", "reviewed"}
       /\ part = "reviewed" \/ graph = NoGraph
       /\ ReviewNext
       /\ UNCHANGED <<part, routerVars, step, stage, inventory, inventoryVars, planVars, evidenceVars, validationVars,
                      traversalVars>>
    \/ /\ part \in {"looping", "branching"} /\ Analyze
       /\ UNCHANGED <<part, routerVars, step, stage, inventory, inventoryVars, planVars, evidenceVars, reviewVars,
                      traversalVars>>
    \/ TraversalStep

MCSpec == MCInit /\ [][MCNext]_all

-----------------------------------------------------------------------------
(* The properties of the components, each of the behaviours of its own;    *)
(* those of the modules extended hold of all, also while they rest.        *)

\* routing/inventory.py: what the builder lets through, the models accept.
ModelsAccept == part = "inventory" => Inventory!ModelsAccept

\* routing/pipeline.py: every node has the containment of its item, whatever the order.
NodesDescribeTheirItems == part = "inventory" => Inventory!NodesDescribeTheirItems

\* routing/identity.py and audit.py: the two resolvers agree.
AuditAgrees == part = "inventory" => Inventory!AuditAgrees

\* routing/identity.py: a reference that names a section is exact or resolves to nothing.
SectionReferencesAreExact == part = "inventory" => Inventory!SectionReferencesAreExact

\* routing/inventory.py: an identity told apart by its position is reported.
AmbiguityIsReported == part = "inventory" => Inventory!AmbiguityIsReported

\* routing/extraction.py: the forward pass asks for every item once.
EachItemOnce == part = "forward" => Forward!EachItemOnce

\* routing/extraction.py: a group that fits is not divided.
GroupsStayTogether == part = "forward" => Forward!GroupsStayTogether

\* routing/extraction.py: a dubious transition has an end that is verified.
DoubtsAreVerified ==
    /\ part = "incoming" => Incoming!DoubtsAreVerified
    /\ part = "crossing" => Crossing!DoubtsAreVerified

\* routing/extraction.py: what a target may be reached from is left out only for what goes before it, at the limit.
CutAtTheLimit ==
    /\ part = "incoming" => Incoming!CutAtTheLimit
    /\ part = "crossing" => Crossing!CutAtTheLimit
    /\ part = "sharing" => Sharing!CutAtTheLimit

\* routing/extraction.py: other items are shown, never more than the limit.
OthersAreShown ==
    /\ part = "incoming" => Incoming!OthersAreShown
    /\ part = "crossing" => Crossing!OthersAreShown
    /\ part = "sharing" => Sharing!OthersAreShown

-----------------------------------------------------------------------------
(* What is checked of each component, its parts above taken together.      *)

\* routing/inventory.py, identity.py and pipeline.py: the inventory is one the models accept and every node is its
\* item's, in whatever order the items came; a reference resolves to what it names or to nothing, for both resolvers.
InventoryIsExact ==
    ModelsAccept /\ NodesDescribeTheirItems /\ AuditAgrees /\ SectionReferencesAreExact /\ AmbiguityIsReported

\* routing/extraction.py: every item is asked about once and every doubt again, with the items it may be about.
PlanIsComplete == EachItemOnce /\ GroupsStayTogether /\ DoubtsAreVerified /\ CutAtTheLimit /\ OthersAreShown

\* What the regions ask about is what the inventory has: every item and every doubt, under the identity that is its own.
InventoryIsAsked == InventoryIsExact /\ PlanIsComplete
=============================================================================
