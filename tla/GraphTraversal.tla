--------------------------- MODULE GraphTraversal ----------------------------
(***************************************************************************)
(* The iterative graph algorithms of routing/algorithms.py, one step of    *)
(* each loop at a time: iterative_reachable, then the two passes of        *)
(* iterative_strongly_connected_components (Kosaraju).  The nodes are      *)
(* their positions in source order.                                        *)
(***************************************************************************)
EXTENDS Integers, Sequences, FiniteSets, Reachability

CONSTANTS
    Vertices,  \* the nodes, 1 .. n
    Edges,     \* the adjacency relations considered: functions from nodes to sets of nodes
    Starts     \* the start nodes of iterative_reachable

TraversalAssumption ==
    /\ IsFiniteSet(Vertices) /\ Vertices = 1 .. Cardinality(Vertices)
    /\ Edges \subseteq [Vertices -> SUBSET Vertices]
    /\ Starts \subseteq Vertices

ASSUME TraversalAssumption

VARIABLES
    adj,         \* the adjacency
    loop,        \* the loop that runs
    seen,        \* visited, or assigned in the last pass
    stack,       \* nodes to visit; in the second loop <<node, neighbours done>>
    reached,     \* what iterative_reachable returns
    finished,    \* nodes in the order they were finished
    members,     \* the component being gathered
    components   \* the components found

traversalVars == <<adj, loop, seen, stack, reached, finished, members, components>>

\* S in source order.
InOrder(S) == CHOOSE s \in [1 .. Cardinality(S) -> S] : \A i, j \in DOMAIN s : i < j => s[i] < s[j]

Backwards(s) == [i \in DOMAIN s |-> s[Len(s) + 1 - i]]

Top      == stack[Len(stack)]
Below    == SubSeq(stack, 1, Len(stack) - 1)
Elems(s) == {s[i] : i \in DOMAIN s}

TraversalInit ==
    /\ adj \in Edges
    /\ loop = "reach" /\ seen = {} /\ stack = Backwards(InOrder(Starts))
    /\ reached = {} /\ finished = <<>> /\ members = {} /\ components = {}

\* iterative_reachable: the next node on the stack.
Discover ==
    /\ loop = "reach" /\ stack # <<>>
    /\ IF Top \in seen THEN stack' = Below /\ UNCHANGED <<seen, reached>>
       ELSE /\ seen' = seen \cup {Top}
            /\ reached' = reached \cup {Top}
            /\ stack' = Below \o Backwards(InOrder(adj[Top] \ seen'))
    /\ UNCHANGED <<adj, loop, finished, members, components>>

Reached ==
    /\ loop = "reach" /\ stack = <<>>
    /\ loop' = "finish" /\ seen' = {}
    /\ UNCHANGED <<adj, stack, reached, finished, members, components>>

\* The first unvisited node starts a traversal.
VisitRoot ==
    /\ loop = "finish" /\ stack = <<>> /\ seen # Vertices
    /\ LET root == CHOOSE n \in Vertices \ seen : \A m \in Vertices \ seen : n <= m
       IN  seen' = seen \cup {root} /\ stack' = <<<<root, 0>>>>
    /\ UNCHANGED <<adj, loop, reached, finished, members, components>>

\* The next neighbour of the node on top, or the end of the node.
Visit ==
    /\ loop = "finish" /\ stack # <<>>
    /\ LET node == Top[1]  next == Top[2] + 1  targets == InOrder(adj[node])
       IN  IF Top[2] < Len(targets)
           THEN LET target == targets[next]
                IN  /\ seen' = seen \cup {target}
                    /\ stack' = Below \o <<<<node, next>>>> \o (IF target \in seen THEN <<>> ELSE <<<<target, 0>>>>)
                    /\ UNCHANGED finished
           ELSE stack' = Below /\ finished' = Append(finished, node) /\ UNCHANGED seen
    /\ UNCHANGED <<adj, loop, reached, members, components>>

Finished ==
    /\ loop = "finish" /\ stack = <<>> /\ seen = Vertices
    /\ loop' = "gather" /\ seen' = {}
    /\ UNCHANGED <<adj, stack, reached, finished, members, components>>

\* Mutant: the second pass goes along the edges, not against them.
SourcesAhead(n) == adj[n]

Sources(n) == {m \in Vertices : n \in adj[m]}

\* The last finished node that has no component starts one.
GatherRoot ==
    /\ loop = "gather" /\ stack = <<>> /\ members = {} /\ seen # Vertices
    /\ LET i == CHOOSE i \in DOMAIN finished :
                    finished[i] \notin seen /\ \A j \in DOMAIN finished : j > i => finished[j] \in seen
       IN  seen' = seen \cup {finished[i]} /\ stack' = <<finished[i]>>
    /\ UNCHANGED <<adj, loop, reached, finished, members, components>>

Gather ==
    /\ loop = "gather" /\ stack # <<>>
    /\ members' = members \cup {Top}
    /\ seen' = seen \cup Sources(Top)
    /\ stack' = Below \o Backwards(InOrder(Sources(Top) \ seen))
    /\ UNCHANGED <<adj, loop, reached, finished, components>>

Gathered ==
    /\ loop = "gather" /\ stack = <<>> /\ members # {}
    /\ components' = components \cup {members}
    /\ members' = {}
    /\ UNCHANGED <<adj, loop, seen, stack, reached, finished>>

Done ==
    /\ loop = "gather" /\ stack = <<>> /\ members = {} /\ seen = Vertices
    /\ loop' = "done"
    /\ UNCHANGED <<adj, seen, stack, reached, finished, members, components>>

TraversalNext ==
    \/ Discover \/ Reached
    \/ VisitRoot \/ Visit \/ Finished
    \/ GatherRoot \/ Gather \/ Gathered \/ Done

TraversalSpec == TraversalInit /\ [][TraversalNext]_traversalVars

-----------------------------------------------------------------------------
(* Properties.                                                             *)

TraversalTypeOK ==
    /\ loop \in {"reach", "finish", "gather", "done"}
    /\ seen \subseteq Vertices /\ reached \subseteq Vertices /\ members \subseteq Vertices
    /\ \A i \in DOMAIN finished : finished[i] \in Vertices
    /\ Len(finished) <= Cardinality(Vertices)

\* There is a path from m to n.
Reaches(m, n) == n \in Closure(adj, {m})

\* iterative_reachable finds exactly what is reachable, whatever is put on the stack twice.
ReachedIsReachable == loop # "reach" => reached = Closure(adj, Starts)

\* What the second pass rests on: when a node reaches another that does not reach it, a node
\* of its own component is finished after the other; and every node is finished once.
SourcesFinishLast ==
    loop \in {"gather", "done"} =>
        /\ Len(finished) = Cardinality(Vertices)
        /\ \A i, j \in DOMAIN finished :
              Reaches(finished[i], finished[j]) /\ ~Reaches(finished[j], finished[i]) =>
                  \E k \in DOMAIN finished : /\ k > j
                                            /\ Reaches(finished[i], finished[k])
                                            /\ Reaches(finished[k], finished[i])

\* The components are the classes of nodes that reach each other.
ComponentsAreMutual ==
    loop = "done" => components = {{m \in Vertices : Reaches(n, m) /\ Reaches(m, n)} : n \in Vertices}

\* In the second loop, what is left of every node: its visit, its neighbours and its end.
Left ==
    {p \in Vertices \X (0 .. Cardinality(Vertices) + 1) :
        p[1] \notin seen \/ \E i \in DOMAIN stack : stack[i][1] = p[1] /\ stack[i][2] < p[2]}

\* What is left to do in the loop that runs.
Work ==
    CASE loop = "reach"  -> Cardinality(Vertices \ seen) * (Cardinality(Vertices) + 1) + Len(stack)
      [] loop = "finish" -> Cardinality(Left)
      [] loop = "gather" -> 3 * Cardinality(Vertices \ seen) + 2 * Len(stack) + (IF members = {} THEN 0 ELSE 1)
      [] OTHER -> 0

\* The loops end, on every graph, self-edges and cycles included: every step of one leaves less to do.
LessWork == loop' = loop => Work' < Work

\* routing/algorithms.py: traversals end, find what is reachable, and make the components of mutual reachability.
TraversalIsExact ==
    [][ /\ LessWork
        /\ (TraversalTypeOK /\ ReachedIsReachable /\ SourcesFinishLast /\ ComponentsAreMutual)' ]_traversalVars
=============================================================================
