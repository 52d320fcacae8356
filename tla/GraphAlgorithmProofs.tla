------------------------- MODULE GraphAlgorithmProofs -------------------------
(***************************************************************************)
(* The iterative traversals compute reachability and its components, and   *)
(* the analysis of a routing graph reports what the graph has, for every   *)
(* finite graph, hierarchy and set of conditions: GraphTraversal,          *)
(* RoutingValidation.                                                      *)
(***************************************************************************)
EXTENDS RoutingValidation, GraphTraversal, FiniteSetTheorems, WellFoundedInduction, TLAPS

-----------------------------------------------------------------------------
(* Reachability.                                                           *)

\* A set of numbers that is not empty has a least one.
LEMMA LeastNatural ==
  ASSUME NEW T \in SUBSET Nat, T # {}
  PROVE  \E x \in T : \A y \in T : x <= y
<1>1. IsWellFoundedOn(OpToRel(<, Nat), Nat)
  BY NatLessThanWellFounded
<1>2. PICK x \in T : \A y \in T : ~ (<<y, x>> \in OpToRel(<, Nat))
  BY <1>1, WFMin
<1>3. \A y \in T : ~(y < x)
  BY <1>2 DEF OpToRel
<1>. QED BY <1>3

\* A set of numbers up to a bound that is not empty has a greatest one.
LEMMA Greatest ==
  ASSUME NEW n \in Nat, NEW T \in SUBSET (0 .. n), T # {}
  PROVE  \E x \in T : \A y \in T : y <= x
<1> DEFINE U == {n - x : x \in T}
<1>0. \A x \in T : x \in 0 .. n /\ n - x \in Nat
  OBVIOUS
<1>1. U \in SUBSET Nat /\ U # {}
  BY <1>0
<1>2. PICK u \in U : \A v \in U : u <= v
  BY <1>1, LeastNatural
<1>3. PICK x \in T : u = n - x
  BY <1>2
<1>4. \A y \in T : n - x <= n - y
  BY <1>2, <1>3
<1>. QED BY <1>0, <1>3, <1>4

\* What the first steps of the closure find, as far as step n.
Grown(next, S, n, g) ==
    g = [i \in 0 .. n |-> IF i = 0 THEN S ELSE g[i - 1] \cup UNION {next[m] : m \in g[i - 1] \cap DOMAIN next}]

\* The steps exist, as far as any step.
LEMMA GrownExists ==
  ASSUME NEW next, NEW S, NEW c \in Nat
  PROVE  \E g : Grown(next, S, c, g)
<1> DEFINE T == {n \in Nat : ~ \E g : Grown(next, S, n, g)}
<1>1. SUFFICES ASSUME T # {} PROVE FALSE
  OBVIOUS
<1>2. PICK n \in T : \A m \in T : n <= m
  BY <1>1, LeastNatural
<1>3. n # 0
  <2>1. SUFFICES ASSUME n = 0 PROVE FALSE
    OBVIOUS
  <2>2. Grown(next, S, 0, [i \in 0 .. 0 |-> S])
    BY DEF Grown
  <2>. QED BY <1>2, <2>1, <2>2
<1>4. n - 1 \in Nat /\ n - 1 \notin T
  BY <1>2, <1>3
<1>5. PICK g : Grown(next, S, n - 1, g)
  BY <1>4
<1> DEFINE h == [i \in 0 .. n |-> IF i = n THEN g[n - 1] \cup UNION {next[m] : m \in g[n - 1] \cap DOMAIN next} ELSE g[i]]
<1>6. \A i \in 0 .. n - 1 :
        g[i] = IF i = 0 THEN S ELSE g[i - 1] \cup UNION {next[m] : m \in g[i - 1] \cap DOMAIN next}
  BY <1>4, <1>5 DEF Grown
<1>7. \A i \in 0 .. n - 1 : h[i] = g[i]
  BY <1>4
<1>8. ASSUME NEW i \in 0 .. n
      PROVE  h[i] = IF i = 0 THEN S ELSE h[i - 1] \cup UNION {next[m] : m \in h[i - 1] \cap DOMAIN next}
  <2>1. CASE i = n
    <3>1. h[i] = g[n - 1] \cup UNION {next[m] : m \in g[n - 1] \cap DOMAIN next}
      BY <2>1
    <3>2. h[i - 1] = g[n - 1]
      BY <1>4, <1>7, <2>1
    <3>. QED BY <1>3, <2>1, <3>1, <3>2
  <2>2. CASE i # n
    <3>1. i \in 0 .. n - 1 /\ h[i] = g[i]
      BY <1>7, <2>2
    <3>2. i # 0 => i - 1 \in 0 .. n - 1
      BY <3>1
    <3>. QED BY <1>6, <1>7, <3>1, <3>2
  <2>. QED BY <2>1, <2>2
<1>9. Grown(next, S, n, h)
  <2> DEFINE k == [i \in 0 .. n |-> IF i = 0 THEN S ELSE h[i - 1] \cup UNION {next[m] : m \in h[i - 1] \cap DOMAIN next}]
  <2>1. h = k
    <3>1. \A i \in 0 .. n : h[i] = k[i]
      BY <1>8
    <3>2. DOMAIN h = 0 .. n /\ h = [i \in 0 .. n |-> h[i]]
      OBVIOUS
    <3>3. k = [i \in 0 .. n |-> k[i]]
      OBVIOUS
    <3> HIDE DEF h, k
    <3>. QED BY <3>1, <3>2, <3>3
  <2>. QED BY <2>1 DEF Grown
<1>. QED BY <1>2, <1>9

\* The closure is closed, holds what it started from, and is in every closed set that does.
LEMMA ClosureIsLeast ==
  ASSUME NEW next, IsFiniteSet(DOMAIN next), NEW S
  PROVE  /\ S \subseteq Closure(next, S)
         /\ Closed(next, Closure(next, S))
         /\ \A C : S \subseteq C /\ Closed(next, C) => Closure(next, S) \subseteq C
<1> DEFINE N == DOMAIN next
           c == Cardinality(N)
           g == CHOOSE f : f = [i \in 0 .. c |-> IF i = 0 THEN S ELSE f[i - 1] \cup UNION {next[m] : m \in f[i - 1] \cap N}]
<1>1. c \in Nat
  BY FS_CardinalityType
<1>2. Closure(next, S) = g[c]
  BY DEF Closure
<1>3. g = [i \in 0 .. c |-> IF i = 0 THEN S ELSE g[i - 1] \cup UNION {next[m] : m \in g[i - 1] \cap N}]
  <2>1. \E f : f = [i \in 0 .. c |-> IF i = 0 THEN S ELSE f[i - 1] \cup UNION {next[m] : m \in f[i - 1] \cap N}]
    <3>1. PICK f : Grown(next, S, c, f)
      BY <1>1, GrownExists
    <3>. QED BY <3>1 DEF Grown
  <2>. QED BY <2>1
<1> HIDE DEF g
<1>4. g[0] = S /\ \A i \in 1 .. c : g[i] = g[i - 1] \cup UNION {next[m] : m \in g[i - 1] \cap N}
  BY <1>1, <1>3
<1> HIDE DEF c
<1>5. \A i \in 0 .. c : S \subseteq g[i]
  <2> DEFINE T == {i \in 0 .. c : ~(S \subseteq g[i])}
  <2>1. SUFFICES ASSUME T # {} PROVE FALSE
    OBVIOUS
  <2>2. T \in SUBSET Nat
    BY <1>1
  <2>3. PICK i \in T : \A j \in T : i <= j
    BY <2>1, <2>2, LeastNatural
  <2>4. i # 0 /\ i \in 1 .. c
    BY <1>1, <1>4, <2>3
  <2>5. i - 1 \notin T /\ i - 1 \in 0 .. c
    BY <1>1, <2>3, <2>4
  <2>. QED BY <1>4, <2>3, <2>4, <2>5
<1>6. ASSUME NEW C, S \subseteq C, Closed(next, C)
      PROVE  \A i \in 0 .. c : g[i] \subseteq C
  <2> DEFINE T == {i \in 0 .. c : ~(g[i] \subseteq C)}
  <2>1. SUFFICES ASSUME T # {} PROVE FALSE
    OBVIOUS
  <2>2. T \in SUBSET Nat
    BY <1>1
  <2>3. PICK i \in T : \A j \in T : i <= j
    BY <2>1, <2>2, LeastNatural
  <2>4. i # 0 /\ i \in 1 .. c
    BY <1>1, <1>4, <1>6, <2>3
  <2>5. i - 1 \notin T /\ i - 1 \in 0 .. c
    BY <1>1, <2>3, <2>4
  <2>6. g[i - 1] \subseteq C
    BY <2>5
  <2>. QED BY <1>4, <1>6, <2>3, <2>4, <2>6 DEF Closed
<1> DEFINE Fits(i) == \/ Closed(next, g[i])
                      \/ Cardinality(g[i] \cap N) >= i + 1
<1>7. \A i \in 0 .. c : IsFiniteSet(g[i] \cap N) /\ Cardinality(g[i] \cap N) \in Nat
                        /\ Cardinality(g[i] \cap N) <= c
  <2>1. \A T \in SUBSET N : IsFiniteSet(T) /\ Cardinality(T) \in Nat /\ Cardinality(T) <= Cardinality(N)
    BY FS_Subset, FS_CardinalityType
  <2>. QED BY <2>1 DEF c
<1>8. \A i \in 0 .. c : Fits(i)
  <2> DEFINE T == {i \in 0 .. c : ~Fits(i)}
  <2>1. SUFFICES ASSUME T # {} PROVE FALSE
    OBVIOUS
  <2>2. T \in SUBSET Nat
    BY <1>1
  <2> HIDE DEF T
  <2>3. PICK i \in T : \A j \in T : i <= j
    BY <2>1, <2>2, LeastNatural
  <2>4. i \in 0 .. c /\ ~Fits(i)
    BY <2>3 DEF T
  <2>5. CASE i = 0
    <3>1. g[0] \cap N # {}
      BY <2>4, <2>5 DEF Closed
    <3>2. 0 \in 0 .. c
      BY <1>1
    <3>3. Cardinality(g[0] \cap N) # 0
      BY <1>7, <3>1, <3>2, FS_EmptySet
    <3>. QED BY <1>7, <2>4, <2>5, <3>2, <3>3
  <2>6. CASE i # 0
    <3>1. i \in 1 .. c /\ i - 1 \in 0 .. c /\ i - 1 < i
      BY <1>1, <2>4, <2>6
    <3>2. i - 1 \notin T
      BY <1>1, <2>3, <3>1
    <3>3. Fits(i - 1)
      BY <3>1, <3>2 DEF T
    <3>4. g[i] = g[i - 1] \cup UNION {next[m] : m \in g[i - 1] \cap N}
      BY <1>4, <3>1
    <3>5. ~Closed(next, g[i - 1])
      <4>1. SUFFICES ASSUME Closed(next, g[i - 1]) PROVE FALSE
        OBVIOUS
      <4>2. g[i] = g[i - 1]
        BY <3>4, <4>1 DEF Closed
      <4>. QED BY <2>4, <4>1, <4>2
    <3>6. Cardinality(g[i - 1] \cap N) >= i
      BY <1>1, <3>1, <3>3, <3>5
    <3>7. g[i - 1] \cap N # g[i] \cap N
      <4>1. SUFFICES ASSUME g[i - 1] \cap N = g[i] \cap N PROVE FALSE
        OBVIOUS
      <4>2. Closed(next, g[i])
        BY <3>4, <4>1 DEF Closed
      <4>. QED BY <2>4, <4>2
    <3>8. g[i - 1] \cap N \subseteq g[i] \cap N
      BY <3>4
    <3>9. Cardinality(g[i - 1] \cap N) < Cardinality(g[i] \cap N)
      BY <1>7, <2>4, <3>1, <3>7, <3>8, FS_Subset
    <3>10. Cardinality(g[i] \cap N) \in Nat /\ Cardinality(g[i - 1] \cap N) \in Nat /\ i \in Nat
      BY <1>7, <3>1
    <3>11. Cardinality(g[i] \cap N) >= i + 1
      BY <3>6, <3>9, <3>10
    <3>. QED BY <2>4, <3>11
  <2>. QED BY <2>5, <2>6
<1>9. c \in 0 .. c
  BY <1>1
<1>10. Closed(next, g[c])
  <2>1. Fits(c) /\ Cardinality(g[c] \cap N) \in Nat /\ Cardinality(g[c] \cap N) <= c
    BY <1>7, <1>8, <1>9
  <2>. QED BY <1>1, <2>1
<1>. QED BY <1>2, <1>5, <1>6, <1>9, <1>10

\* There are ways from what is found to all that is found from it.
LEMMA ClosureOfFound ==
  ASSUME NEW next, IsFiniteSet(DOMAIN next), NEW S, NEW T, T \subseteq Closure(next, S)
  PROVE  Closure(next, T) \subseteq Closure(next, S)
  BY ClosureIsLeast

-----------------------------------------------------------------------------
(* The analysis: containment and flow.                                     *)

\* What was constructed: edges that may be accepted, in one of the hierarchies.
Constructed == ValidationAssumption /\ edges \subseteq PossibleEdges /\ hierarchy \in Hierarchies

\* What the flow finds.
LEMMA FlowFacts ==
  ASSUME Constructed, NEW S
  PROVE  /\ S \subseteq From(S)
         /\ \A n \in From(S) \cap Nodes : Targets(n) \subseteq From(S)
         /\ \A C : S \subseteq C /\ (\A n \in C \cap Nodes : Targets(n) \subseteq C) => From(S) \subseteq C
         /\ S \subseteq Nodes => From(S) \subseteq Nodes
<1> DEFINE flow == [n \in Nodes |-> Targets(n)]
<1>1. DOMAIN flow = Nodes /\ IsFiniteSet(DOMAIN flow)
  BY DEF Constructed, ValidationAssumption
<1>2. From(S) = Closure(flow, S)
  BY DEF From
<1>3. \A C : Closed(flow, C) <=> \A n \in C \cap Nodes : Targets(n) \subseteq C
  BY DEF Closed
<1>4. \A n \in Nodes : Targets(n) \subseteq Nodes
  BY DEF Targets, Constructed, ValidationAssumption
<1> HIDE DEF flow
<1>5. /\ S \subseteq Closure(flow, S)
      /\ Closed(flow, Closure(flow, S))
      /\ \A C : S \subseteq C /\ Closed(flow, C) => Closure(flow, S) \subseteq C
  BY <1>1, ClosureIsLeast
<1>6. Closed(flow, Nodes)
  BY <1>3, <1>4
<1>. QED BY <1>2, <1>3, <1>5, <1>6

\* The ways from what is found.
LEMMA FlowGoesOn ==
  ASSUME Constructed, NEW S, NEW n \in From(S)
  PROVE  From({n}) \subseteq From(S)
<1>1. \A m \in From(S) \cap Nodes : Targets(m) \subseteq From(S)
  BY FlowFacts
<1>2. {n} \subseteq From(S)
  OBVIOUS
<1>. QED BY <1>1, <1>2, FlowFacts

\* The parent of a node is one of its ancestors, and so are the ancestors of these.
LEMMA AncestorFacts ==
  ASSUME Constructed, NEW n \in Nodes
  PROVE  /\ Parent(n) # 0 => Parent(n) \in Ancestors(n)
         /\ \A m \in Ancestors(n) \cap Nodes : Ancestors(m) \subseteq Ancestors(n)
<1> DEFINE up == [m \in Nodes |-> {Parent(m)}]
<1>1. DOMAIN up = Nodes /\ IsFiniteSet(DOMAIN up)
  BY DEF Constructed, ValidationAssumption
<1>2. \A m \in Nodes : Ancestors(m) = Closure(up, {Parent(m)}) \ {0}
  BY DEF Ancestors
<1>3. \A C : Closed(up, C) <=> \A m \in C \cap Nodes : Parent(m) \in C
  BY DEF Closed
<1> HIDE DEF up
<1>4. {Parent(n)} \subseteq Closure(up, {Parent(n)}) /\ Closed(up, Closure(up, {Parent(n)}))
  BY <1>1, ClosureIsLeast
<1>5. ASSUME NEW m \in Ancestors(n) \cap Nodes
      PROVE  Ancestors(m) \subseteq Ancestors(n)
  <2>1. Parent(m) \in Closure(up, {Parent(n)})
    BY <1>2, <1>3, <1>4
  <2>2. Closure(up, {Parent(m)}) \subseteq Closure(up, {Parent(n)})
    BY <1>1, <2>1, ClosureOfFound
  <2>. QED BY <1>2, <2>2
<1>. QED BY <1>2, <1>4, <1>5

\* What a hierarchy without errors is.
LEMMA NoContainmentError ==
  ASSUME ContainmentErrors = {}, NEW n \in Nodes
  PROVE  /\ Parent(n) \in Nodes \cup {0}
         /\ n \notin Ancestors(n)
         /\ Container(n) => FirstChild(n) \in Children(n)
         /\ EnteredWell(n)
<1>1. <<"CONTAINMENT_DANGLING_PARENT", n>> \notin ContainmentErrors /\ <<"CONTAINMENT_CYCLE", n>> \notin ContainmentErrors
      /\ <<"CONTAINMENT_ENTRY_INVALID", n>> \notin ContainmentErrors
  OBVIOUS
<1>. QED BY <1>1 DEF ContainmentErrors

\* A region inside another is smaller.
LEMMA RegionsNest ==
  ASSUME Constructed, NEW r \in Nodes, NEW s \in Nodes, s \in Ancestors(r), s \notin Ancestors(s)
  PROVE  /\ Region(r) \subseteq Region(s)
         /\ Cardinality(Region(r)) \in Nat /\ Cardinality(Region(s)) \in Nat
         /\ Cardinality(Region(r)) < Cardinality(Region(s))
<1>1. Region(r) \subseteq Region(s)
  BY AncestorFacts DEF Region
<1>2. s \in Region(s) /\ s \notin Region(r)
  <2>1. r # s
    OBVIOUS
  <2>2. r \notin Ancestors(s)
    BY AncestorFacts
  <2>. QED BY <2>1, <2>2 DEF Region
<1>3. Region(s) \subseteq Nodes /\ IsFiniteSet(Nodes)
  BY DEF Region, Constructed, ValidationAssumption
<1>4. IsFiniteSet(Region(s)) /\ IsFiniteSet(Region(r))
  BY <1>1, <1>3, FS_Subset
<1>5. Cardinality(Region(r)) \in Nat /\ Cardinality(Region(s)) \in Nat
  BY <1>4, FS_CardinalityType
<1>6. Cardinality(Region(r)) <= Cardinality(Region(s)) /\ Cardinality(Region(r)) # Cardinality(Region(s))
  BY <1>1, <1>2, <1>4, FS_Subset
<1>. QED BY <1>1, <1>5, <1>6

\* Whether region r is before s when the innermost is looked for.
Before(r, s) ==
    \/ Cardinality(Region(r)) < Cardinality(Region(s))
    \/ Cardinality(Region(r)) = Cardinality(Region(s)) /\ r <= s

\* The owner of an edge that is in a declared region is such a region, and the first of them.
LEMMA OwnerIsFirst ==
  ASSUME Constructed, NEW e, NEW s \in Declared, Inside(e, Region(s))
  PROVE  Owner(e) \in Declared /\ Inside(e, Region(Owner(e))) /\ Before(Owner(e), s)
<1> DEFINE holders == {r \in Declared : Inside(e, Region(r))}
           sizes == {Cardinality(Region(r)) : r \in holders}
<1>1. holders \subseteq Nodes /\ s \in holders
  BY DEF Declared
<1>2. \A r \in Nodes : r \in Nat /\ Cardinality(Region(r)) \in Nat
  <2>1. IsFiniteSet(Nodes) /\ Nodes \subseteq Nat
    BY DEF Constructed, ValidationAssumption
  <2>2. \A r \in Nodes : Region(r) \subseteq Nodes
    BY DEF Region
  <2>3. \A r \in Nodes : IsFiniteSet(Region(r))
    BY <2>1, <2>2, FS_Subset
  <2>. QED BY <2>1, <2>3, FS_CardinalityType
<1>3. PICK size \in sizes : \A x \in sizes : size <= x
  <2>1. sizes \in SUBSET Nat /\ sizes # {}
    BY <1>1, <1>2
  <2> HIDE DEF sizes
  <2>. QED BY <2>1, LeastNatural
<1> DEFINE small == {r \in holders : Cardinality(Region(r)) = size}
<1>4. PICK least \in small : \A r \in small : least <= r
  <2>1. small \in SUBSET Nat /\ small # {}
    BY <1>1, <1>2, <1>3
  <2> HIDE DEF small
  <2>. QED BY <2>1, LeastNatural
<1>5. least \in holders /\ \A r \in holders : Before(least, r)
  <2>1. ASSUME NEW r \in holders PROVE Before(least, r)
    <3>1. size <= Cardinality(Region(r)) /\ Cardinality(Region(least)) = size
      BY <1>3, <1>4
    <3>2. Cardinality(Region(r)) = size => least <= r
      BY <1>4
    <3>3. size \in Nat /\ Cardinality(Region(r)) \in Nat
      BY <1>1, <1>2, <3>1, <1>4
    <3>. QED BY <3>1, <3>2, <3>3 DEF Before
  <2>. QED BY <1>4, <2>1
<1> DEFINE sizeOf == [r \in holders |-> Cardinality(Region(r))]
<1>6. Owner(e) = Innermost(holders, sizeOf) /\ \A r \in holders : sizeOf[r] = Cardinality(Region(r))
  BY <1>1 DEF Owner
<1> HIDE DEF holders, sizeOf
<1>7. Owner(e) \in holders /\ \A t \in holders : Before(Owner(e), t)
  <2>1. \A r, t \in holders : Before(r, t) <=> sizeOf[r] < sizeOf[t] \/ (sizeOf[r] = sizeOf[t] /\ r <= t)
    BY <1>6 DEF Before
  <2>2. \E r \in holders : \A t \in holders : sizeOf[r] < sizeOf[t] \/ (sizeOf[r] = sizeOf[t] /\ r <= t)
    BY <1>5, <2>1
  <2>3. LET o == Innermost(holders, sizeOf)
        IN  o \in holders /\ \A t \in holders : sizeOf[o] < sizeOf[t] \/ (sizeOf[o] = sizeOf[t] /\ o <= t)
    BY <2>2 DEF Innermost
  <2>. QED BY <1>6, <2>1, <2>3
<1>. QED BY <1>1, <1>7 DEF holders

-----------------------------------------------------------------------------
(* The analysis: loops.                                                    *)

\* What a loop is made of.
LEMMA LoopParts ==
  ASSUME NEW group, NEW S
  PROVE  LET l == Loop(group, S)
         IN  /\ l.group = group /\ l.members = S
             /\ l.entry = {e \in edges : e.src \notin S /\ e.tgt \in S}
             /\ l.inner \cup l.back = {e \in edges : Inside(e, S) /\ (group = 0 \/ Owner(e) \in {0, group})}
             /\ l.inner \cap l.back = {}
             /\ l.exit = {e \in edges : e.src \in S /\ e.tgt \notin S}
  BY DEF Loop

\* The components are of nodes, and a node is in its own.
LEMMA ComponentFacts ==
  ASSUME Constructed, NEW n \in Nodes
  PROVE  StrongComponent(n) \subseteq Nodes /\ n \in StrongComponent(n)
<1>1. n \in From({n})
  BY FlowFacts
<1>. QED BY <1>1 DEF StrongComponent

\* The loops that are recorded.
LEMMA LoopsAre ==
  ASSUME Constructed, NEW l \in Loops
  PROVE  \/ \E r \in Declared : l = Loop(r, Region(r))
         \/ \E n \in Nodes : l = Loop(0, StrongComponent(n)) /\ SourceSupported(StrongComponent(n))
<1>1. CASE l \in {Loop(r, Region(r)) : r \in Declared}
  BY <1>1
<1>2. CASE l \in {Loop(0, S) : S \in {T \in Undeclared : SourceSupported(T)}}
  <2>1. PICK S \in Undeclared : SourceSupported(S) /\ l = Loop(0, S)
    BY <1>2
  <2>2. PICK n \in Nodes : S = StrongComponent(n)
    BY <2>1 DEF Undeclared, Cyclic
  <2>. QED BY <2>1, <2>2
<1>. QED BY <1>1, <1>2 DEF Loops

\* The edges of a recorded loop are where their roles say.
LEMMA LoopsFit ==
  ASSUME Constructed, NEW l \in Loops
  PROVE  LoopFits(l)
<1>1. ASSUME NEW group, NEW S, l = Loop(group, S), group # 0 => NodeKind[group] = "repeat"
      PROVE  LoopFits(l)
  <2>1. l.group = group /\ l.members = S /\ l.entry = {e \in edges : e.src \notin S /\ e.tgt \in S}
        /\ l.inner \cup l.back = {e \in edges : Inside(e, S) /\ (group = 0 \/ Owner(e) \in {0, group})}
        /\ l.exit = {e \in edges : e.src \in S /\ e.tgt \notin S}
    BY <1>1, LoopParts
  <2>2. \A e \in l.entry : e.src \notin l.members /\ e.tgt \in l.members
    BY <2>1
  <2>3. \A e \in l.inner \cup l.back : Inside(e, l.members)
    BY <2>1
  <2>4. \A e \in l.exit : e.src \in l.members /\ e.tgt \notin l.members
    BY <2>1
  <2>. QED BY <1>1, <2>1, <2>2, <2>3, <2>4 DEF LoopFits
<1>2. CASE \E r \in Declared : l = Loop(r, Region(r))
  BY <1>1, <1>2 DEF Declared
<1>3. CASE \E n \in Nodes : l = Loop(0, StrongComponent(n)) /\ SourceSupported(StrongComponent(n))
  BY <1>1, <1>3
<1>. QED BY <1>2, <1>3, LoopsAre

\* The models can make every loop that is recorded: a repeat group of a hierarchy without errors has the edge to its
\* first child, which is in no smaller region.
LEMMA LoopsHaveShape ==
  ASSUME Constructed, NEW l \in Loops
  PROVE  LoopShape(l)
<1>1. ASSUME NEW group, NEW S, l = Loop(group, S), S # {}, l.inner \cup l.back # {}, group = 0 => l.back # {}
      PROVE  LoopShape(l)
  <2>1. l.group = group /\ l.members = S /\ l.entry = {e \in edges : e.src \notin S /\ e.tgt \in S}
        /\ l.inner \cup l.back = {e \in edges : Inside(e, S) /\ (group = 0 \/ Owner(e) \in {0, group})}
        /\ l.inner \cap l.back = {}
        /\ l.exit = {e \in edges : e.src \in S /\ e.tgt \notin S}
    BY <1>1, LoopParts
  <2>2. \A e \in l.entry \cup l.exit : e \notin l.inner \cup l.back
    BY <2>1 DEF Inside
  <2>3. l.entry \cap l.exit = {}
    BY <2>1
  <2>4. l.entry \cup l.inner \cup l.back \cup l.exit # {}
    BY <1>1
  <2>. QED BY <1>1, <2>1, <2>2, <2>3, <2>4 DEF LoopShape
<1>2. ASSUME NEW r \in Declared, l = Loop(r, Region(r))
      PROVE  LoopShape(l)
  <2>1. ContainmentErrors = {} /\ r \in Nodes /\ Container(r) /\ 0 \notin Nodes
    BY DEF Declared, Container, Constructed, ValidationAssumption
  <2>2. FirstChild(r) \in Children(r) /\ EnteredWell(r)
    BY <2>1, NoContainmentError
  <2>3. FirstChild(r) \in Nodes /\ Parent(FirstChild(r)) = r
    BY <2>2 DEF Children
  <2>4. PICK e \in edges : e.src = r /\ e.tgt = FirstChild(r)
    BY <2>1, <2>2, <2>3 DEF EnteredWell, EntryEdges
  <2>5. r \in Region(r) /\ FirstChild(r) \in Region(r)
    BY <2>1, <2>3, AncestorFacts DEF Region
  <2>6. Inside(e, Region(r))
    BY <2>4, <2>5 DEF Inside
  <2>7. Owner(e) \in Declared /\ Inside(e, Region(Owner(e))) /\ Before(Owner(e), r)
    BY <2>6, OwnerIsFirst
  <2>8. Owner(e) = r
    <3>1. SUFFICES ASSUME Owner(e) # r PROVE FALSE
      OBVIOUS
    <3>2. Owner(e) \in Nodes /\ Owner(e) \in Ancestors(r)
      BY <2>4, <2>7, <3>1 DEF Inside, Region, Declared
    <3>3. Owner(e) \notin Ancestors(Owner(e))
      BY <2>1, <3>2, NoContainmentError
    <3>4. Cardinality(Region(r)) < Cardinality(Region(Owner(e)))
          /\ Cardinality(Region(r)) \in Nat /\ Cardinality(Region(Owner(e))) \in Nat
      BY <2>1, <3>2, <3>3, RegionsNest
    <3>. QED BY <2>7, <3>4 DEF Before
  <2>9. e \in l.inner \cup l.back
    BY <1>2, <2>6, <2>8, LoopParts
  <2>. QED BY <1>1, <1>2, <2>1, <2>5, <2>9
<1>3. ASSUME NEW n \in Nodes, l = Loop(0, StrongComponent(n)), SourceSupported(StrongComponent(n))
      PROVE  LoopShape(l)
  <2>1. l.back # {}
    BY <1>3 DEF SourceSupported
  <2>2. StrongComponent(n) # {}
    BY ComponentFacts
  <2>. QED BY <1>1, <1>3, <2>1, <2>2
<1>. QED BY <1>2, <1>3, LoopsAre

\* A node on a cycle is in a loop that is recorded or in a cycle that is reported.
LEMMA CycleIsSeen ==
  ASSUME Constructed, NEW n \in Nodes, NEW m \in Targets(n), n \in From({m})
  PROVE  n \in UNION ({l.members : l \in Loops} \cup Unsupported)
<1>1. m \in From({n}) /\ m \in Nodes
  <2>1. n \in From({n}) /\ Targets(n) \subseteq From({n})
    BY FlowFacts
  <2>. QED BY <2>1, FlowFacts
<1>2. m \in StrongComponent(n) /\ n \in StrongComponent(n)
  BY <1>1, ComponentFacts DEF StrongComponent
<1>3. StrongComponent(n) \in Cyclic
  <2>1. CASE m = n
    <3>1. \E e \in edges : e.src = n /\ e.tgt = n
      BY <2>1 DEF Targets
    <3>. QED BY <3>1 DEF Cyclic
  <2>2. CASE m # n
    <3>1. IsFiniteSet(StrongComponent(n))
      BY ComponentFacts, FS_Subset DEF Constructed, ValidationAssumption
    <3>2. Cardinality(StrongComponent(n)) \in Nat /\ Cardinality(StrongComponent(n)) # 0 /\ Cardinality(StrongComponent(n)) # 1
      BY <1>2, <2>2, <3>1, FS_CardinalityType, FS_EmptySet, FS_Singleton
    <3>3. Cardinality(StrongComponent(n)) > 1
      BY <3>2
    <3>. QED BY <3>3 DEF Cyclic
  <2>. QED BY <2>1, <2>2
<1>4. ASSUME NEW r \in Declared, StrongComponent(n) \subseteq Region(r)
      PROVE  n \in UNION ({l.members : l \in Loops} \cup Unsupported)
  <2>1. Loop(r, Region(r)) \in Loops /\ Loop(r, Region(r)).members = Region(r)
    BY LoopParts DEF Loops
  <2>. QED BY <1>2, <1>4, <2>1
<1>5. ASSUME StrongComponent(n) \in Undeclared
      PROVE  n \in UNION ({l.members : l \in Loops} \cup Unsupported)
  <2>1. CASE SourceSupported(StrongComponent(n))
    <3>1. Loop(0, StrongComponent(n)) \in Loops /\ Loop(0, StrongComponent(n)).members = StrongComponent(n)
      BY <1>5, <2>1, LoopParts DEF Loops
    <3>. QED BY <1>2, <3>1
  <2>2. CASE ~SourceSupported(StrongComponent(n))
    BY <1>2, <1>5, <2>2 DEF Unsupported
  <2>. QED BY <2>1, <2>2
<1>. QED BY <1>3, <1>4, <1>5 DEF Undeclared

\* An edge goes back, or on, in at most one declared loop.
LEMMA OneLoopForEach ==
  ASSUME Constructed, NEW e \in edges
  PROVE  Cardinality({l \in Loops : l.group # 0 /\ e \in l.inner \cup l.back}) <= 1
<1> DEFINE those == {l \in Loops : l.group # 0 /\ e \in l.inner \cup l.back}
           own == Loop(Owner(e), Region(Owner(e)))
<1>1. ASSUME NEW l \in those PROVE l = own
  <2>1. PICK r \in Declared : l = Loop(r, Region(r))
    BY LoopsAre, LoopParts
  <2>2. Inside(e, Region(r)) /\ (r = 0 \/ Owner(e) \in {0, r}) /\ r \in Nodes /\ 0 \notin Nodes
    BY <2>1, LoopParts DEF Declared, Constructed, ValidationAssumption
  <2>3. Owner(e) \in Declared
    BY <2>2, OwnerIsFirst
  <2>4. Owner(e) = r
    BY <2>2, <2>3 DEF Declared
  <2>. QED BY <2>1, <2>4
<1>2. those \subseteq {own}
  BY <1>1
<1>3. IsFiniteSet({own}) /\ Cardinality({own}) = 1
  BY FS_Singleton
<1> HIDE DEF own
<1>4. Cardinality(those) <= 1
  BY <1>2, <1>3, FS_Subset
<1>. QED BY <1>4

\* From a recorded loop without an exit nothing else is found.
LEMMA NoExitIsClosed ==
  ASSUME Constructed, NEW l \in Loops, l.exit = {}, NEW n \in l.members
  PROVE  From({n}) \subseteq l.members /\ l.members \subseteq Nodes
<1>1. PICK group, S : l = Loop(group, S) /\ S \subseteq Nodes
  <2>1. \A r \in Declared : Region(r) \subseteq Nodes
    BY DEF Declared, Region
  <2>. QED BY <2>1, LoopsAre, ComponentFacts
<1>2. l.members = S /\ l.exit = {e \in edges : e.src \in S /\ e.tgt \notin S}
  BY <1>1, LoopParts
<1>3. \A m \in S \cap Nodes : Targets(m) \subseteq S
  BY <1>2 DEF Targets
<1>4. {n} \subseteq S
  BY <1>2
<1>. QED BY <1>1, <1>2, <1>3, <1>4, FlowFacts

-----------------------------------------------------------------------------
(* The analysis: its report.                                               *)

\* The report an analysis makes.
Analysis ==
    [done |-> TRUE,
     errors |-> ContainmentErrors \cup FlowErrors,
     unreachable |-> Unreachable, deadEnds |-> DeadEnds, withoutPath |-> WithoutPath,
     loops |-> Loops, unsupported |-> Unsupported,
     noExit |-> {l \in Loops : l.exit = {}},
     uncovered |-> Uncovered, overlap |-> Overlap]

\* What was constructed stays, and the report, once made, is of it.
ReportInv == Constructed /\ (report = Pending \/ report = Analysis)

\* A graph without errors is one the models accept, with its loops.
LEMMA NoErrorMeansValidOf ==
  ASSUME Constructed, report = Analysis
  PROVE  NoErrorMeansValid
<1>1. SUFFICES ASSUME ContainmentErrors = {}, FlowErrors = {}
               PROVE  GraphAccepted /\ \A l \in Loops : LoopShape(l) /\ LoopFits(l)
  BY DEF NoErrorMeansValid, Analysis
<1>2. \A e \in edges : e.src \notin Terminals
  BY <1>1 DEF FlowErrors
<1>3. \A e, f \in edges : e.src = f.src /\ e.kind = "default" /\ f.kind = "default" => e = f
  BY <1>1 DEF FlowErrors
<1>4. ASSUME NEW n \in Nodes
      PROVE  Parent(n) \in Nodes \cup {0} /\ n \notin Ancestors(n) /\ (Children(n) # {} => Container(n)) /\ EnteredWell(n)
  <2>1. ASSUME NEW m \in Children(n) PROVE Container(n)
    <3>1. hierarchy.parent[m] = n /\ m \in Nodes
      BY DEF Children, Parent
    <3>. QED BY <3>1 DEF Container, Constructed, ValidationAssumption
  <2>. QED BY <1>1, <2>1, NoContainmentError
<1>5. GraphAccepted
  BY <1>2, <1>3, <1>4 DEF GraphAccepted
<1>. QED BY <1>5, LoopsHaveShape, LoopsFit

\* Cycles are in loops or reported.
LEMMA CyclesAreAccountedOf ==
  ASSUME Constructed, report = Analysis
  PROVE  CyclesAreAccounted
<1>1. report.loops = Loops /\ report.unsupported = Unsupported
  BY DEF Analysis
<1>2. ASSUME NEW n \in Nodes, n \in UNION {From({m}) : m \in Targets(n)}
      PROVE  n \in UNION ({l.members : l \in report.loops} \cup report.unsupported)
  BY <1>1, <1>2, CycleIsSeen
<1>. QED BY <1>1, <1>2, OneLoopForEach DEF CyclesAreAccounted

\* The reports of exits, dead ends and paths agree.
LEMMA ReportsAgreeOf ==
  ASSUME Constructed, report = Analysis
  PROVE  ReportsAgree
<1>1. report.noExit = {l \in Loops : l.exit = {}} /\ report.withoutPath = WithoutPath
      /\ report.unreachable = Unreachable /\ report.deadEnds = DeadEnds
  BY DEF Analysis
<1>2. ASSUME NEW l \in report.noExit, l.members \cap Terminals = {}, NEW n \in l.members
      PROVE  n \in report.withoutPath \cup report.unreachable
  <2>1. From({n}) \subseteq l.members /\ n \in Nodes
    BY <1>1, <1>2, NoExitIsClosed
  <2>. QED BY <1>1, <1>2, <2>1 DEF WithoutPath, Unreachable
<1>3. ASSUME NEW n \in report.deadEnds
      PROVE  n \in report.withoutPath
  <2>1. n \in From(Entries) \ Terminals /\ Targets(n) = {}
    BY <1>1 DEF DeadEnds
  <2>2. {n} \subseteq {n} /\ \A m \in {n} \cap Nodes : Targets(m) \subseteq {n}
    BY <2>1
  <2>3. From({n}) \subseteq {n}
    BY <2>2, FlowFacts
  <2>. QED BY <1>1, <2>1, <2>3 DEF WithoutPath
<1>4. ASSUME NEW n \in Nodes \ (report.withoutPath \cup report.unreachable)
      PROVE  From({n}) \cap Terminals # {}
  BY <1>1 DEF WithoutPath, Unreachable
<1>. QED BY <1>2, <1>3, <1>4 DEF ReportsAgree

\* Branches that are not reported leave the question whatever is answered.
LEMMA CoverageIsProvenOf ==
  ASSUME report = Analysis
  PROVE  CoverageIsProven
<1>1. SUFFICES ASSUME branches # {}, ~default, ~Uncovered, NEW answers \in Answers
               PROVE  \E b \in branches : Holds(b, answers)
  BY DEF CoverageIsProven, Analysis
<1>2. AllProven /\ OneQuestion /\ UNION {Selected(b) : b \in branches} = Categories
  BY <1>1 DEF Uncovered
<1>3. PICK q \in {b.of : b \in branches} : \A b \in branches : b.of = q
  BY <1>2 DEF OneQuestion
<1>4. answers[q] \in Categories
  BY <1>1, <1>3 DEF Answers
<1>5. PICK b \in branches : answers[q] \in Selected(b)
  BY <1>2, <1>4
<1>6. b.op \in {"in", "not in"} /\ b.of = q
  BY <1>2, <1>3 DEF AllProven, Proven
<1>7. Holds(b, answers)
  BY <1>5, <1>6 DEF Selected, Holds
<1>. QED BY <1>7

\* Each step keeps the invariant.
LEMMA ReportInvariant == ASSUME ValidationAssumption PROVE ValidationSpec => []ReportInv
<1>1. ValidationInit => ReportInv
  <2>1. ASSUME NEW T \in Upto(PossibleEdges, MaxEdges) PROVE T \subseteq PossibleEdges
    <3>1. CASE T = {}
      BY <3>1
    <3>2. CASE \E f \in [1 .. MaxEdges -> PossibleEdges] : T = {f[i] : i \in 1 .. MaxEdges}
      BY <3>2
    <3>. QED BY <3>1, <3>2 DEF Upto
  <2>. QED BY <2>1 DEF ValidationInit, EdgeSets, ReportInv, Constructed
<1>2. ReportInv /\ [Analyze]_validationVars => ReportInv'
  <2>1. SUFFICES ASSUME ReportInv, [Analyze]_validationVars PROVE ReportInv'
    OBVIOUS
  <2>2. edges' = edges /\ hierarchy' = hierarchy /\ branches' = branches /\ default' = default
    BY <2>1 DEF Analyze, validationVars
  <2>3. Constructed'
    BY <2>1, <2>2 DEF ReportInv, Constructed
  <2>4. report' = report \/ report' = Analysis
    BY <2>1 DEF Analyze, Analysis, validationVars
  <2>5. Analysis' = Analysis
    <3>1. \A n : Targets(n)' = Targets(n) /\ Parent(n)' = Parent(n) /\ FirstChild(n)' = FirstChild(n)
      BY <2>2 DEF Targets, Parent, FirstChild
    <3>2. \A n : Children(n)' = Children(n) /\ EntryEdges(n)' = EntryEdges(n) /\ Ancestors(n)' = Ancestors(n)
      BY <2>2, <3>1 DEF Children, EntryEdges, Ancestors
    <3>3. \A S : From(S)' = From(S)
      BY <3>1 DEF From
    <3>4. \A n : Region(n)' = Region(n) /\ EnteredWell(n)' = EnteredWell(n) /\ StrongComponent(n)' = StrongComponent(n)
      BY <2>2, <3>1, <3>2, <3>3 DEF Region, EnteredWell, StrongComponent
    <3>5. ContainmentErrors' = ContainmentErrors
      BY <3>1, <3>2, <3>4 DEF ContainmentErrors, Container
    <3>6. Declared' = Declared
      BY <3>5 DEF Declared
    <3>7. \A e : Owner(e)' = Owner(e)
      BY <3>4, <3>6 DEF Owner, Inside
    <3>8. \A g, S : Loop(g, S)' = Loop(g, S)
      BY <2>2, <3>7 DEF Loop, Inside, Backward
    <3>9. \A S : SourceSupported(S)' = SourceSupported(S)
      BY <3>8 DEF SourceSupported
    <3>10. Undeclared' = Undeclared
      BY <2>2, <3>4, <3>6 DEF Undeclared, Cyclic
    <3>11. Loops' = Loops /\ Unsupported' = Unsupported
      BY <3>4, <3>6, <3>8, <3>9, <3>10 DEF Loops, Unsupported
    <3>12. FlowErrors' = FlowErrors /\ Unreachable' = Unreachable /\ DeadEnds' = DeadEnds /\ WithoutPath' = WithoutPath
      BY <2>2, <3>1, <3>3 DEF FlowErrors, Unreachable, DeadEnds, WithoutPath, Entries, Terminals
    <3>13. Uncovered' = Uncovered /\ Overlap' = Overlap
      BY <2>2 DEF Uncovered, Overlap, AllProven, OneQuestion, Selected, Proven
    <3>. QED BY <3>5, <3>11, <3>12, <3>13 DEF Analysis
  <2>. QED BY <2>1, <2>3, <2>4, <2>5 DEF ReportInv, Pending
<1>. QED BY <1>1, <1>2, PTL DEF ValidationSpec

\* For any finite graph, hierarchy and conditions: a graph without errors is one the models accept with the loops the
\* analysis makes, every cycle is in a loop or reported, and exits, dead ends, paths and coverage are as reported.
THEOREM ReportsAreTrueAlways == ASSUME ValidationAssumption PROVE ValidationSpec => []ReportsAreTrue
<1>1. ReportInv => ReportsAreTrue
  <2>1. SUFFICES ASSUME ReportInv PROVE ReportsAreTrue
    OBVIOUS
  <2>2. CASE report = Pending
    <3>1. ~report.done
      BY <2>2 DEF Pending
    <3>. QED BY <3>1 DEF ReportsAreTrue, NoErrorMeansValid, LoopsCanBeMade, CyclesAreAccounted, ReportsAgree, CoverageIsProven
  <2>3. CASE report = Analysis
    <3>1. Constructed /\ report.loops = Loops
      BY <2>1, <2>3 DEF ReportInv, Analysis
    <3>2. LoopsCanBeMade
      BY <3>1, LoopsHaveShape DEF LoopsCanBeMade
    <3>. QED BY <2>3, <3>1, <3>2, NoErrorMeansValidOf, CyclesAreAccountedOf, ReportsAgreeOf, CoverageIsProvenOf
             DEF ReportsAreTrue
  <2>. QED BY <2>1, <2>2, <2>3 DEF ReportInv
<1>. QED BY <1>1, ReportInvariant, PTL

-----------------------------------------------------------------------------
(* The traversals: sequences of nodes.                                     *)

\* A stack without its top.
LEMMA WithoutTop ==
  ASSUME NEW T, NEW s \in Seq(T), s # <<>>
  PROVE  LET b == SubSeq(s, 1, Len(s) - 1)
         IN  /\ b \in Seq(T) /\ Len(b) = Len(s) - 1 /\ Len(s) \in Nat \ {0} /\ s[Len(s)] \in T
             /\ \A i \in 1 .. Len(s) - 1 : b[i] = s[i]
             /\ Elems(s) = Elems(b) \cup {s[Len(s)]}
<1> DEFINE b == SubSeq(s, 1, Len(s) - 1)
<1>1. Len(s) \in Nat \ {0} /\ DOMAIN s = 1 .. Len(s) /\ s[Len(s)] \in T
  OBVIOUS
<1>2. b \in Seq(T) /\ Len(b) = Len(s) - 1 /\ \A i \in 1 .. Len(s) - 1 : b[i] = s[i]
  BY <1>1
<1>3. DOMAIN b = 1 .. Len(s) - 1
  BY <1>1, <1>2
<1> HIDE DEF b
<1>4. Elems(s) = Elems(b) \cup {s[Len(s)]}
  BY <1>1, <1>2, <1>3 DEF Elems
<1>. QED BY <1>1, <1>2, <1>4 DEF b

\* A stack and what is put on it.
LEMMA PutOn ==
  ASSUME NEW T, NEW s \in Seq(T), NEW t \in Seq(T)
  PROVE  s \o t \in Seq(T) /\ Len(s \o t) = Len(s) + Len(t) /\ Elems(s \o t) = Elems(s) \cup Elems(t)
<1>1. s \o t \in Seq(T) /\ Len(s \o t) = Len(s) + Len(t) /\ Len(s) \in Nat /\ Len(t) \in Nat
  OBVIOUS
<1>2. /\ \A i \in 1 .. Len(s) : (s \o t)[i] = s[i]
      /\ \A i \in 1 .. Len(t) : (s \o t)[Len(s) + i] = t[i]
  OBVIOUS
<1>3. DOMAIN (s \o t) = 1 .. Len(s) + Len(t) /\ DOMAIN s = 1 .. Len(s) /\ DOMAIN t = 1 .. Len(t)
  OBVIOUS
<1>4. ASSUME NEW x \in Elems(s \o t) PROVE x \in Elems(s) \cup Elems(t)
  <2>1. PICK i \in 1 .. Len(s) + Len(t) : x = (s \o t)[i]
    BY <1>3 DEF Elems
  <2>2. CASE i <= Len(s)
    BY <1>1, <1>2, <1>3, <2>1, <2>2 DEF Elems
  <2>3. CASE i > Len(s)
    <3>1. i - Len(s) \in 1 .. Len(t) /\ i = Len(s) + (i - Len(s))
      BY <1>1, <2>3
    <3>. QED BY <1>2, <1>3, <2>1, <3>1 DEF Elems
  <2>. QED BY <1>1, <2>2, <2>3
<1>5. Elems(s) \cup Elems(t) \subseteq Elems(s \o t)
  <2>1. ASSUME NEW i \in 1 .. Len(s) PROVE s[i] \in Elems(s \o t)
    BY <1>1, <1>2, <1>3 DEF Elems
  <2>2. ASSUME NEW i \in 1 .. Len(t) PROVE t[i] \in Elems(s \o t)
    <3>1. Len(s) + i \in DOMAIN (s \o t)
      BY <1>1, <1>3
    <3>. QED BY <1>2, <3>1 DEF Elems
  <2>. QED BY <1>3, <2>1, <2>2 DEF Elems
<1>. QED BY <1>1, <1>4, <1>5

\* The vertices are numbers up to their number.
LEMMA VerticesAre ==
  ASSUME TraversalAssumption
  PROVE  /\ IsFiniteSet(Vertices) /\ Cardinality(Vertices) \in Nat
         /\ Vertices = 1 .. Cardinality(Vertices)
         /\ \A S \in SUBSET Vertices : IsFiniteSet(S) /\ Cardinality(S) \in Nat /\ Cardinality(S) <= Cardinality(Vertices)
  BY FS_CardinalityType, FS_Subset DEF TraversalAssumption

Increasing(s) == \A i, j \in DOMAIN s : i < j => s[i] < s[j]

\* There is a sequence of the members of any set of vertices in source order.
LEMMA OrderExists ==
  ASSUME TraversalAssumption, NEW S \in SUBSET Vertices
  PROVE  \E s \in [1 .. Cardinality(S) -> S] : Increasing(s)
<1> DEFINE Bad(n) == \E A \in SUBSET Vertices : Cardinality(A) = n /\ ~ \E s \in [1 .. n -> A] : Increasing(s)
           T == {n \in Nat : Bad(n)}
<1>1. SUFFICES ASSUME T # {} PROVE FALSE
  BY VerticesAre
<1>2. PICK n \in T : \A m \in T : n <= m
  BY <1>1, LeastNatural
<1>3. PICK A \in SUBSET Vertices : Cardinality(A) = n /\ ~ \E s \in [1 .. n -> A] : Increasing(s)
  BY <1>2
<1>4. IsFiniteSet(A) /\ n \in Nat /\ A \in SUBSET (0 .. Cardinality(Vertices)) /\ A \subseteq Nat
  BY <1>3, VerticesAre
<1>5. n # 0
  <2>1. SUFFICES ASSUME n = 0 PROVE FALSE
    OBVIOUS
  <2>2. [i \in 1 .. n |-> 0] \in [1 .. n -> A] /\ Increasing([i \in 1 .. n |-> 0])
    BY <2>1 DEF Increasing
  <2>. QED BY <1>3, <2>2
<1>6. A # {}
  BY <1>3, <1>5, FS_EmptySet
<1>7. PICK x \in A : \A y \in A : y <= x
  BY <1>4, <1>6, VerticesAre, Greatest
<1>8. Cardinality(A \ {x}) = n - 1 /\ n - 1 \in Nat
  <2>1. Cardinality(A \ {x}) = n - 1
    BY <1>3, <1>4, FS_RemoveElement
  <2> HIDE DEF T
  <2>. QED BY <1>4, <1>5, <2>1
<1>9. n - 1 \notin T
  BY <1>2, <1>4
<1>10. PICK s \in [1 .. n - 1 -> A \ {x}] : Increasing(s)
  BY <1>8, <1>9
<1> DEFINE t == [i \in 1 .. n |-> IF i = n THEN x ELSE s[i]]
<1>11. t \in [1 .. n -> A]
  BY <1>4, <1>8, <1>10
<1>12. ASSUME NEW i \in 1 .. n, NEW j \in 1 .. n, i < j PROVE t[i] < t[j]
  <2>1. i \in 1 .. n - 1 /\ t[i] = s[i] /\ s[i] \in A \ {x}
    BY <1>4, <1>10, <1>12
  <2>2. CASE j = n
    <3>1. s[i] \in Nat /\ x \in Nat
      BY <1>4, <2>1
    <3>2. s[i] <= x /\ s[i] # x
      BY <1>7, <2>1
    <3>. QED BY <2>1, <2>2, <3>1, <3>2
  <2>3. CASE j # n
    <3>1. j \in 1 .. n - 1 /\ t[j] = s[j]
      BY <1>4, <1>10, <2>3
    <3>. QED BY <1>10, <1>12, <2>1, <3>1 DEF Increasing
  <2>. QED BY <2>2, <2>3
<1>13. Increasing(t)
  BY <1>11, <1>12 DEF Increasing
<1>. QED BY <1>3, <1>11, <1>13

\* The sequence of a set of vertices in source order has each of them, and no other, once.
LEMMA InOrderIs ==
  ASSUME TraversalAssumption, NEW S \in SUBSET Vertices
  PROVE  /\ InOrder(S) \in Seq(S) /\ Len(InOrder(S)) = Cardinality(S) /\ Elems(InOrder(S)) = S
         /\ Cardinality(S) \in Nat
<1> DEFINE s == InOrder(S)
           n == Cardinality(S)
<1>1. IsFiniteSet(S) /\ n \in Nat /\ S \subseteq Nat
  BY VerticesAre
<1>2. s \in [1 .. n -> S] /\ Increasing(s)
  BY OrderExists DEF InOrder, Increasing
<1> HIDE DEF s, n
<1>3. s \in Seq(S) /\ Len(s) = n /\ DOMAIN s = 1 .. n
  BY <1>1, <1>2
<1>4. s \in Injection(1 .. n, S)
  <2>1. ASSUME NEW i \in 1 .. n, NEW j \in 1 .. n, s[i] = s[j] PROVE i = j
    <3>1. s[i] \in S /\ s[j] \in S
      BY <1>2
    <3>2. s[i] \in Nat /\ s[j] \in Nat /\ i \in Nat /\ j \in Nat
      <4>1. s[i] \in Nat /\ s[j] \in Nat
        BY <1>1, <3>1
      <4>. QED BY <1>1, <4>1
    <3>3. (i < j => s[i] < s[j]) /\ (j < i => s[j] < s[i])
      BY <1>2, <1>3 DEF Increasing
    <3>. QED BY <2>1, <3>2, <3>3
  <2>. QED BY <1>2, <2>1 DEF Injection, IsInjective
<1>5. Cardinality(1 .. n) = n
  BY <1>1, FS_Interval
<1>6. s \in Surjection(1 .. n, S)
  BY <1>1, <1>4, <1>5, FS_Injection DEF n
<1>7. Elems(s) = S
  BY <1>2, <1>3, <1>6 DEF Elems, Surjection
<1>. QED BY <1>1, <1>3, <1>7 DEF s, n

\* Backwards is the same.
LEMMA BackwardsIs ==
  ASSUME NEW T, NEW s \in Seq(T)
  PROVE  Backwards(s) \in Seq(T) /\ Len(Backwards(s)) = Len(s) /\ Elems(Backwards(s)) = Elems(s)
<1>1. Len(s) \in Nat /\ DOMAIN s = 1 .. Len(s)
  OBVIOUS
<1>2. \A i \in 1 .. Len(s) : Len(s) + 1 - i \in 1 .. Len(s) /\ Len(s) + 1 - (Len(s) + 1 - i) = i
  BY <1>1
<1>3. Backwards(s) = [i \in 1 .. Len(s) |-> s[Len(s) + 1 - i]]
  BY <1>1 DEF Backwards
<1>4. Backwards(s) \in Seq(T) /\ Len(Backwards(s)) = Len(s) /\ DOMAIN Backwards(s) = 1 .. Len(s)
  BY <1>1, <1>2, <1>3
<1>5. \A i \in 1 .. Len(s) : Backwards(s)[i] = s[Len(s) + 1 - i] /\ Backwards(s)[Len(s) + 1 - i] = s[i]
  BY <1>2, <1>3
<1>6. Elems(Backwards(s)) = Elems(s)
  BY <1>1, <1>2, <1>4, <1>5 DEF Elems
<1>. QED BY <1>4, <1>6

\* What is pushed for a set of vertices.
LEMMA Pushed ==
  ASSUME TraversalAssumption, NEW S \in SUBSET Vertices
  PROVE  LET p == Backwards(InOrder(S))
         IN  p \in Seq(Vertices) /\ Len(p) = Cardinality(S) /\ Elems(p) = S
<1>1. InOrder(S) \in Seq(Vertices) /\ Len(InOrder(S)) = Cardinality(S) /\ Elems(InOrder(S)) = S
  BY InOrderIs
<1>. QED BY <1>1, BackwardsIs

-----------------------------------------------------------------------------
(* The traversals: the invariant.                                          *)

\* In the first loop: the starts are seen or on the stack, as are the neighbours of what is seen, and all are reachable.
ReachInv ==
    loop = "reach" =>
        /\ stack \in Seq(Vertices) /\ reached = seen
        /\ finished = <<>> /\ members = {} /\ components = {}
        /\ Starts \subseteq seen \cup Elems(stack)
        /\ seen \cup Elems(stack) \subseteq Closure(adj, Starts)
        /\ \A n \in seen : adj[n] \subseteq seen \cup Elems(stack)

\* The nodes on the stack of the second loop.
OnStack == {stack[i][1] : i \in DOMAIN stack}

\* The first i nodes finished.
First(i) == {finished[h] : h \in 1 .. i}

\* The nodes that reach n and are reached by it.
Mutual(n) == {m \in Vertices : Reaches(n, m) /\ Reaches(m, n)}

\* The i-th finished node reaches nodes finished by then only, or is in a component with one that was not.
Settled(i) == Closure(adj, {finished[i]}) \subseteq First(i) \/ \E g \in Vertices \ First(i) : g \in Mutual(finished[i])

Distinct(s) == \A i, j \in DOMAIN s : s[i] = s[j] => i = j

\* In the second loop: a node seen is on the stack or finished, once; the stack is a path; the neighbours a node has
\* passed are seen, those of a finished node all; and every finished node is settled.
FinishInv ==
    loop = "finish" =>
        /\ members = {} /\ components = {}
        /\ stack \in Seq(Vertices \X Nat) /\ finished \in Seq(Vertices) /\ Distinct(finished)
        /\ \A i, j \in DOMAIN stack : stack[i][1] = stack[j][1] => i = j
        /\ seen = OnStack \cup Elems(finished) /\ OnStack \cap Elems(finished) = {}
        /\ \A i \in 1 .. Len(stack) - 1 : stack[i + 1][1] \in adj[stack[i][1]]
        /\ \A i \in DOMAIN stack :
              /\ stack[i][2] <= Cardinality(adj[stack[i][1]])
              /\ \A j \in 1 .. stack[i][2] : InOrder(adj[stack[i][1]])[j] \in seen
        /\ \A n \in Elems(finished) : adj[n] \subseteq seen
        /\ \A i \in DOMAIN finished : Settled(i)

\* The nodes that have their component, and those of the one being gathered.
Assigned == UNION components
Current  == members \cup Elems(stack)

\* In the third loop: the components made are whole; the nodes of the current one reach each other, and reach every
\* node without a component that reaches them; what leads to a node that was taken is seen.
GatherInv ==
    loop \in {"gather", "done"} =>
        /\ finished \in Seq(Vertices) /\ Elems(finished) = Vertices /\ Distinct(finished)
        /\ SourcesFinishLast
        /\ stack \in Seq(Vertices) /\ members \subseteq Vertices /\ Assigned \subseteq Vertices
        /\ components = {Mutual(n) : n \in Assigned}
        /\ seen = Assigned \cup Current /\ Assigned \cap Current = {}
        /\ \A x, y \in Current : Reaches(x, y)
        /\ \A x \in Current, m \in Vertices \ Assigned : Reaches(m, x) => Reaches(x, m)
        /\ \A n \in Assigned \cup members : Sources(n) \subseteq seen
        /\ loop = "done" => Current = {} /\ seen = Vertices

TraversalInv ==
    /\ adj \in [Vertices -> SUBSET Vertices] /\ loop \in {"reach", "finish", "gather", "done"}
    /\ ReachedIsReachable /\ ReachInv /\ FinishInv /\ GatherInv

\* What follows from the adjacency.
Graph == TraversalAssumption /\ adj \in [Vertices -> SUBSET Vertices]

\* Paths: they start at the node itself, go along the edges, and join; a set that nothing leads out of keeps them.
LEMMA PathFacts ==
  ASSUME Graph
  PROVE  /\ \A n : Reaches(n, n)
         /\ \A m, n \in Vertices : n \in adj[m] => Reaches(m, n)
         /\ \A l, m, n : Reaches(l, m) /\ Reaches(m, n) => Reaches(l, n)
         /\ \A m \in Vertices : \A n : Reaches(m, n) => n \in Vertices
         /\ \A C \in SUBSET Vertices : \A m \in C : \A n : (\A k \in C : adj[k] \subseteq C) /\ Reaches(m, n) => n \in C
<1>1. DOMAIN adj = Vertices /\ IsFiniteSet(DOMAIN adj)
  BY DEF Graph, TraversalAssumption
<1>2. \A S : /\ S \subseteq Closure(adj, S)
             /\ Closed(adj, Closure(adj, S))
             /\ \A C : S \subseteq C /\ Closed(adj, C) => Closure(adj, S) \subseteq C
  BY <1>1, ClosureIsLeast
<1>3. \A C \in SUBSET Vertices : Closed(adj, C) <=> \A k \in C : adj[k] \subseteq C
  BY <1>1 DEF Closed
<1>4. \A n : Reaches(n, n)
  BY <1>2 DEF Reaches
<1>5. ASSUME NEW l, NEW m, NEW n, Reaches(l, m), Reaches(m, n) PROVE Reaches(l, n)
  BY <1>1, <1>5, ClosureOfFound DEF Reaches
<1>6. ASSUME NEW m \in Vertices, NEW n \in Vertices, n \in adj[m] PROVE Reaches(m, n)
  <2>1. m \in Closure(adj, {m}) /\ Closed(adj, Closure(adj, {m}))
    BY <1>2
  <2>. QED BY <1>1, <1>6, <2>1 DEF Reaches, Closed
<1>7. ASSUME NEW C \in SUBSET Vertices, NEW m \in C, NEW n, \A k \in C : adj[k] \subseteq C, Reaches(m, n)
      PROVE  n \in C
  <2>1. {m} \subseteq C /\ Closed(adj, C)
    BY <1>3, <1>7
  <2>. QED BY <1>2, <1>7, <2>1 DEF Reaches
<1>8. ASSUME NEW m \in Vertices, NEW n, Reaches(m, n) PROVE n \in Vertices
  <2>1. \A k \in Vertices : adj[k] \subseteq Vertices
    BY DEF Graph
  <2>. QED BY <1>7, <1>8, <2>1
<1>. QED BY <1>4, <1>5, <1>6, <1>7, <1>8

\* A node reached from outside a set that holds every node with an edge into it is not in the set.
LEMMA BackwardClosed ==
  ASSUME Graph, NEW B \in SUBSET Vertices, \A n \in B : Sources(n) \subseteq B,
         NEW m \in Vertices, NEW n \in B, Reaches(m, n)
  PROVE  m \in B
<1> DEFINE C == Vertices \ B
<1>1. \A k \in C : adj[k] \subseteq C
  BY DEF Sources, Graph
<1>2. C \in SUBSET Vertices
  OBVIOUS
<1> HIDE DEF C
<1>3. m \in C => n \in C
  BY <1>1, <1>2, PathFacts
<1>. QED BY <1>3 DEF C

\* The components are classes: two that share a node are one.
LEMMA MutualFacts ==
  ASSUME Graph, NEW m \in Vertices, NEW n \in Vertices
  PROVE  /\ n \in Mutual(n)
         /\ n \in Mutual(m) <=> m \in Mutual(n)
         /\ n \in Mutual(m) => Mutual(n) = Mutual(m)
<1>1. n \in Mutual(n) /\ (n \in Mutual(m) <=> m \in Mutual(n))
  BY PathFacts DEF Mutual
<1>2. ASSUME n \in Mutual(m) PROVE Mutual(n) = Mutual(m)
  <2>1. Reaches(m, n) /\ Reaches(n, m)
    BY <1>2 DEF Mutual
  <2>2. \A k : Reaches(n, k) <=> Reaches(m, k)
    BY <2>1, PathFacts
  <2>3. \A k : Reaches(k, n) <=> Reaches(k, m)
    BY <2>1, PathFacts
  <2>. QED BY <2>2, <2>3 DEF Mutual
<1>. QED BY <1>1, <1>2

-----------------------------------------------------------------------------
(* The traversals: the first loop.                                         *)

\* A step that only the first loop's part of the invariant is about.
LEMMA ReachInvSuffices ==
  ASSUME TraversalInv, adj' = adj, loop = "reach", loop' = "reach", ReachInv'
  PROVE  TraversalInv'
  BY DEF TraversalInv, ReachedIsReachable, FinishInv, GatherInv

\* The top of the stack is discovered, or was before.
LEMMA DiscoverStep ==
  ASSUME TraversalAssumption, TraversalInv, Discover
  PROVE  TraversalInv' /\ LessWork
<1> DEFINE p == Backwards(InOrder(adj[Top] \ seen'))
           N == Cardinality(Vertices)
<1>1. adj \in [Vertices -> SUBSET Vertices] /\ adj' = adj /\ loop = "reach" /\ loop' = "reach" /\ stack # <<>>
      /\ finished' = finished /\ members' = members /\ components' = components
  BY DEF TraversalInv, Discover
<1>2. /\ stack \in Seq(Vertices) /\ reached = seen
      /\ finished = <<>> /\ members = {} /\ components = {}
      /\ Starts \subseteq seen \cup Elems(stack)
      /\ seen \cup Elems(stack) \subseteq Closure(adj, Starts)
      /\ \A n \in seen : adj[n] \subseteq seen \cup Elems(stack)
  BY <1>1 DEF TraversalInv, ReachInv
<1>3. Below \in Seq(Vertices) /\ Top \in Vertices /\ Elems(stack) = Elems(Below) \cup {Top}
      /\ Len(Below) = Len(stack) - 1 /\ Len(stack) \in Nat \ {0}
  BY <1>1, <1>2, WithoutTop DEF Top, Below
<1>4. Closed(adj, Closure(adj, Starts)) /\ DOMAIN adj = Vertices /\ Starts \subseteq Closure(adj, Starts)
      /\ Closure(adj, Starts) \subseteq Vertices
  <2>1. IsFiniteSet(DOMAIN adj) /\ DOMAIN adj = Vertices /\ Closed(adj, Vertices) /\ Starts \subseteq Vertices
    BY <1>1 DEF TraversalAssumption, Closed
  <2>. QED BY <2>1, ClosureIsLeast
<1>5. adj[Top] \subseteq Closure(adj, Starts)
  BY <1>2, <1>3, <1>4 DEF Closed
<1>6. seen \in SUBSET Vertices /\ IsFiniteSet(Vertices \ seen) /\ Cardinality(Vertices \ seen) \in Nat /\ N \in Nat
  BY <1>2, <1>4, VerticesAre
<1>7. CASE Top \in seen
  <2>1. stack' = Below /\ seen' = seen /\ reached' = reached
    BY <1>7 DEF Discover
  <2>2. ReachInv'
    BY <1>1, <1>2, <1>3, <1>7, <2>1 DEF ReachInv
  <2>3. Work' < Work
    BY <1>1, <1>3, <1>6, <2>1 DEF Work
  <2>. QED BY <1>1, <2>2, <2>3, ReachInvSuffices DEF LessWork
<1>8. CASE Top \notin seen
  <2>1. seen' = seen \cup {Top} /\ reached' = reached \cup {Top} /\ stack' = Below \o p
    BY <1>8 DEF Discover
  <2>2. p \in Seq(Vertices) /\ Len(p) = Cardinality(adj[Top] \ seen') /\ Elems(p) = adj[Top] \ seen'
    <3>1. adj[Top] \ seen' \in SUBSET Vertices
      BY <1>1, <1>3
    <3>. QED BY <3>1, Pushed
  <2> HIDE DEF p
  <2>3. stack' \in Seq(Vertices) /\ Elems(stack') = Elems(Below) \cup (adj[Top] \ seen')
        /\ Len(stack') = Len(stack) - 1 + Cardinality(adj[Top] \ seen')
    <3>1. Below \o p \in Seq(Vertices) /\ Len(Below \o p) = Len(Below) + Len(p) /\ Elems(Below \o p) = Elems(Below) \cup Elems(p)
      BY <1>3, <2>2, PutOn
    <3>. QED BY <1>3, <2>1, <2>2, <3>1
  <2>4. ReachInv'
    <3>1. Starts \subseteq seen' \cup Elems(stack')
      BY <1>2, <1>3, <2>1, <2>3
    <3>2. seen' \cup Elems(stack') \subseteq Closure(adj, Starts)
      BY <1>2, <1>3, <1>5, <2>1, <2>3
    <3>3. \A n \in seen' : adj[n] \subseteq seen' \cup Elems(stack')
      BY <1>2, <1>3, <2>1, <2>3
    <3>. QED BY <1>1, <1>2, <2>1, <2>3, <3>1, <3>2, <3>3 DEF ReachInv
  <2>5. Work' < Work
    <3> DEFINE u == Cardinality(Vertices \ seen)
               k == Cardinality(adj[Top] \ seen')
    <3>1. Vertices \ seen' = (Vertices \ seen) \ {Top} /\ Top \in Vertices \ seen
      BY <1>3, <1>8, <2>1
    <3>2. Cardinality(Vertices \ seen') = u - 1
      <4>1. Cardinality((Vertices \ seen) \ {Top}) = Cardinality(Vertices \ seen) - 1
        BY <1>6, <3>1, FS_RemoveElement
      <4>. QED BY <3>1, <4>1
    <3>3. k \in Nat /\ k <= N
      <4>1. adj[Top] \ seen' \in SUBSET Vertices
        BY <1>1, <1>3
      <4>. QED BY <4>1, VerticesAre
    <3>4. Work = u * (N + 1) + Len(stack) /\ Work' = (u - 1) * (N + 1) + (Len(stack) - 1 + k)
      BY <1>1, <2>3, <3>2 DEF Work
    <3> HIDE DEF u, k, N
    <3>5. (u - 1) * (N + 1) = u * (N + 1) - (N + 1)
      BY <1>6 DEF u, N
    <3>6. u * (N + 1) \in Int
      BY <1>6 DEF u, N
    <3>. QED BY <1>3, <1>6, <3>3, <3>4, <3>5, <3>6 DEF N
  <2>. QED BY <1>1, <2>4, <2>5, ReachInvSuffices DEF LessWork
<1>. QED BY <1>7, <1>8

\* When the stack is empty what was seen is closed.
LEMMA ReachedStep ==
  ASSUME TraversalAssumption, TraversalInv, Reached
  PROVE  TraversalInv' /\ LessWork
<1>1. adj \in [Vertices -> SUBSET Vertices] /\ adj' = adj /\ loop = "reach" /\ loop' = "finish" /\ stack = <<>> /\ stack' = <<>>
      /\ seen' = {} /\ reached' = reached /\ finished' = finished /\ members' = members /\ components' = components
  BY DEF TraversalInv, Reached
<1>2. reached = seen /\ finished = <<>> /\ members = {} /\ components = {}
      /\ Starts \subseteq seen \cup Elems(stack)
      /\ seen \cup Elems(stack) \subseteq Closure(adj, Starts)
      /\ \A n \in seen : adj[n] \subseteq seen \cup Elems(stack)
  BY <1>1 DEF TraversalInv, ReachInv
<1>3. Elems(stack) = {}
  BY <1>1 DEF Elems
<1>4. reached = Closure(adj, Starts)
  <2>1. IsFiniteSet(DOMAIN adj) /\ Closed(adj, seen)
    BY <1>1, <1>2, <1>3 DEF TraversalAssumption, Closed
  <2>2. Closure(adj, Starts) \subseteq seen
    BY <1>2, <1>3, <2>1, ClosureIsLeast
  <2>. QED BY <1>2, <2>2
<1>5. FinishInv'
  <2>1. stack' \in Seq(Vertices \X Nat) /\ finished' \in Seq(Vertices) /\ DOMAIN stack' = {} /\ DOMAIN finished' = {} /\ Len(stack') = 0
    BY <1>1, <1>2
  <2>2. OnStack' = {} /\ Elems(finished') = {} /\ Distinct(finished')
    BY <2>1 DEF OnStack, Elems, Distinct
  <2>. QED BY <1>1, <1>2, <2>1, <2>2 DEF FinishInv
<1>6. TraversalInv'
  BY <1>1, <1>4, <1>5 DEF TraversalInv, ReachedIsReachable, ReachInv, GatherInv
<1>. QED BY <1>1, <1>6 DEF LessWork

-----------------------------------------------------------------------------
(* The traversals: the second loop.                                        *)

\* A step that only the second loop's part of the invariant is about.
LEMMA FinishInvSuffices ==
  ASSUME TraversalInv, adj' = adj, reached' = reached, loop = "finish", loop' = "finish", FinishInv'
  PROVE  TraversalInv'
  BY DEF TraversalInv, ReachedIsReachable, ReachInv, GatherInv

\* What is left is less when something is left no more.
LEMMA FewerLeft ==
  ASSUME TraversalAssumption, loop = "finish", loop' = "finish", Left' \subseteq Left, NEW q \in Left, q \notin Left'
  PROVE  Work' < Work
<1> DEFINE pairs == Vertices \X (0 .. Cardinality(Vertices) + 1)
<1>1. IsFiniteSet(pairs)
  <2>1. IsFiniteSet(0 .. Cardinality(Vertices) + 1)
    BY VerticesAre, FS_Interval
  <2>. QED BY <2>1, VerticesAre, FS_Product
<1>2. Left \subseteq pairs
  BY DEF Left
<1>3. IsFiniteSet(Left)
  BY <1>1, <1>2, FS_Subset
<1>4. IsFiniteSet(Left') /\ Cardinality(Left') <= Cardinality(Left) /\ Cardinality(Left') # Cardinality(Left)
  BY <1>3, FS_Subset
<1>5. Cardinality(Left') \in Nat /\ Cardinality(Left) \in Nat
  BY <1>3, <1>4, FS_CardinalityType
<1>6. Work = Cardinality(Left) /\ Work' = Cardinality(Left')
  BY DEF Work
<1>. QED BY <1>4, <1>5, <1>6

\* A finished node stays settled, when others are finished after it.
LEMMA SettledStays ==
  ASSUME adj' = adj, NEW i \in Nat, \A h \in 1 .. i : finished'[h] = finished[h], i \in 1 .. i, Settled(i)
  PROVE  Settled(i)'
<1>1. First(i)' = First(i) /\ finished'[i] = finished[i]
  BY DEF First
<1>2. \A m, n : Reaches(m, n)' = Reaches(m, n)
  BY DEF Reaches
<1>3. \A n : Mutual(n)' = Mutual(n)
  BY <1>2 DEF Mutual
<1>4. Closure(adj, {finished[i]})' = Closure(adj, {finished[i]})
  BY <1>1
<1>. QED BY <1>1, <1>3, <1>4 DEF Settled

\* The nodes on the stack reach the one on top.
LEMMA StackIsPath ==
  ASSUME Graph, stack \in Seq(Vertices \X Nat), \A i \in 1 .. Len(stack) - 1 : stack[i + 1][1] \in adj[stack[i][1]],
         NEW i \in 1 .. Len(stack)
  PROVE  Reaches(stack[i][1], stack[Len(stack)][1])
<1> DEFINE top == stack[Len(stack)][1]
           T == {h \in 1 .. Len(stack) : ~Reaches(stack[h][1], top)}
<1>1. SUFFICES ASSUME T # {} PROVE FALSE
  OBVIOUS
<1>2. Len(stack) \in Nat /\ T \in SUBSET (0 .. Len(stack))
  OBVIOUS
<1> HIDE DEF T
<1>3. PICK h \in T : \A k \in T : k <= h
  BY <1>1, <1>2, Greatest
<1>4. h \in 1 .. Len(stack) /\ ~Reaches(stack[h][1], top)
  BY <1>3 DEF T
<1>5. h # Len(stack)
  BY <1>4, PathFacts
<1>6. h + 1 \in 1 .. Len(stack) /\ h \in 1 .. Len(stack) - 1 /\ ~(h + 1 <= h)
  BY <1>2, <1>4, <1>5
<1>7. Reaches(stack[h + 1][1], top)
  BY <1>3, <1>6 DEF T
<1>8. stack[h] \in Vertices \X Nat /\ stack[h + 1] \in Vertices \X Nat
  BY <1>4, <1>6
<1>9. Reaches(stack[h][1], stack[h + 1][1])
  BY <1>6, <1>8, PathFacts
<1>. QED BY <1>4, <1>7, <1>9, PathFacts

\* When all nodes are finished and settled, a node that reaches another that does not reach it has one of its component
\* finished after the other: the last of its component.
LEMMA SettledOrder ==
  ASSUME Graph, finished \in Seq(Vertices), Elems(finished) = Vertices, Distinct(finished),
         \A i \in DOMAIN finished : Settled(i)
  PROVE  /\ Len(finished) = Cardinality(Vertices)
         /\ \A i, j \in DOMAIN finished :
              Reaches(finished[i], finished[j]) /\ ~Reaches(finished[j], finished[i]) =>
                  \E k \in DOMAIN finished : /\ k > j
                                            /\ Reaches(finished[i], finished[k])
                                            /\ Reaches(finished[k], finished[i])
<1> DEFINE L == Len(finished)
<1>1. L \in Nat /\ DOMAIN finished = 1 .. L /\ \A i \in 1 .. L : finished[i] \in Vertices
  OBVIOUS
<1>2. IsFiniteSet(Vertices) /\ Cardinality(Vertices) \in Nat
  BY VerticesAre DEF Graph
<1>3. L = Cardinality(Vertices)
  <2>1. finished \in Injection(1 .. L, Vertices)
    BY <1>1 DEF Injection, IsInjective, Distinct
  <2>2. finished \in Surjection(1 .. L, Vertices)
    BY <1>1 DEF Surjection, Elems
  <2>3. Cardinality(1 .. L) = Cardinality(Vertices)
    BY <1>2, <2>1, <2>2, FS_Injection
  <2>. QED BY <1>1, <2>3, FS_Interval
<1>4. ASSUME NEW i \in DOMAIN finished, NEW j \in DOMAIN finished,
             Reaches(finished[i], finished[j]), ~Reaches(finished[j], finished[i])
      PROVE  \E k \in DOMAIN finished : k > j /\ Reaches(finished[i], finished[k]) /\ Reaches(finished[k], finished[i])
  <2> DEFINE T == {k \in 1 .. L : Reaches(finished[i], finished[k]) /\ Reaches(finished[k], finished[i])}
  <2>1. i \in T /\ T \in SUBSET (0 .. L)
    BY <1>1, PathFacts
  <2>2. PICK k \in T : \A h \in T : h <= k
    BY <1>1, <2>1, Greatest
  <2>3. k \in DOMAIN finished /\ Reaches(finished[i], finished[k]) /\ Reaches(finished[k], finished[i]) /\ k \in Nat /\ j \in Nat
    BY <1>1, <2>2
  <2>4. ~ \E g \in Vertices \ First(k) : g \in Mutual(finished[k])
    <3>1. SUFFICES ASSUME NEW g \in Vertices \ First(k), g \in Mutual(finished[k]) PROVE FALSE
      OBVIOUS
    <3>2. PICK h \in 1 .. L : finished[h] = g
      BY <1>1 DEF Elems
    <3>3. Reaches(finished[k], g) /\ Reaches(g, finished[k])
      BY <3>1 DEF Mutual
    <3>4. h \in T
      BY <2>3, <3>2, <3>3, PathFacts
    <3>5. h \in 1 .. k
      BY <1>1, <2>2, <2>3, <3>2, <3>4
    <3>. QED BY <3>1, <3>2, <3>5 DEF First
  <2>5. Closure(adj, {finished[k]}) \subseteq First(k)
    BY <2>3, <2>4 DEF Settled
  <2>6. Reaches(finished[k], finished[j])
    BY <1>4, <2>3, PathFacts
  <2>7. finished[j] \in First(k)
    BY <2>5, <2>6 DEF Reaches
  <2>8. PICK h \in 1 .. k : finished[h] = finished[j]
    BY <2>7 DEF First
  <2>9. h = j
    BY <1>1, <1>4, <2>3, <2>8 DEF Distinct
  <2>10. k # j
    BY <1>4, <2>3
  <2>11. k > j
    BY <2>3, <2>8, <2>9, <2>10
  <2>. QED BY <2>3, <2>11
<1>. QED BY <1>3, <1>4

\* The second loop's part of the invariant, where it applies.
LEMMA InSecondLoop ==
  ASSUME TraversalAssumption, TraversalInv, loop = "finish"
  PROVE  /\ Graph
         /\ members = {} /\ components = {}
         /\ stack \in Seq(Vertices \X Nat) /\ finished \in Seq(Vertices) /\ Distinct(finished)
         /\ \A i, j \in DOMAIN stack : stack[i][1] = stack[j][1] => i = j
         /\ seen = OnStack \cup Elems(finished) /\ OnStack \cap Elems(finished) = {}
         /\ \A i \in 1 .. Len(stack) - 1 : stack[i + 1][1] \in adj[stack[i][1]]
         /\ \A i \in DOMAIN stack :
               /\ stack[i][2] <= Cardinality(adj[stack[i][1]])
               /\ \A j \in 1 .. stack[i][2] : InOrder(adj[stack[i][1]])[j] \in seen
         /\ \A n \in Elems(finished) : adj[n] \subseteq seen
         /\ \A i \in DOMAIN finished : Settled(i)
         /\ Len(stack) \in Nat /\ DOMAIN stack = 1 .. Len(stack)
         /\ Len(finished) \in Nat /\ DOMAIN finished = 1 .. Len(finished)
         /\ \A i \in 1 .. Len(stack) : stack[i] = <<stack[i][1], stack[i][2]>> /\ stack[i][1] \in Vertices /\ stack[i][2] \in Nat
         /\ seen \subseteq Vertices
<1>1. stack \in Seq(Vertices \X Nat) /\ finished \in Seq(Vertices) /\ seen = OnStack \cup Elems(finished)
  BY DEF TraversalInv, FinishInv
<1>2. Len(stack) \in Nat /\ DOMAIN stack = 1 .. Len(stack) /\ Len(finished) \in Nat /\ DOMAIN finished = 1 .. Len(finished)
  BY <1>1
<1>3. \A i \in 1 .. Len(stack) : stack[i] = <<stack[i][1], stack[i][2]>> /\ stack[i][1] \in Vertices /\ stack[i][2] \in Nat
  <2>1. \A i \in 1 .. Len(stack) : stack[i] \in Vertices \X Nat
    BY <1>1
  <2>. QED BY <2>1
<1>4. Elems(finished) \subseteq Vertices
  BY <1>1, <1>2 DEF Elems
<1>5. seen \subseteq Vertices
  BY <1>1, <1>2, <1>3, <1>4 DEF OnStack
<1>. QED BY <1>1, <1>2, <1>3, <1>5 DEF TraversalInv, FinishInv, Graph

\* A node that was not seen starts a path.
LEMMA VisitRootStep ==
  ASSUME TraversalAssumption, TraversalInv, VisitRoot
  PROVE  TraversalInv' /\ LessWork
<1> DEFINE root == CHOOSE n \in Vertices \ seen : \A m \in Vertices \ seen : n <= m
<1>1. adj' = adj /\ loop = "finish" /\ loop' = "finish" /\ stack = <<>> /\ seen # Vertices /\ reached' = reached
      /\ finished' = finished /\ members' = members /\ components' = components
      /\ seen' = seen \cup {root} /\ stack' = <<<<root, 0>>>>
  BY DEF VisitRoot
<1>2. /\ Graph
      /\ members = {} /\ components = {}
      /\ finished \in Seq(Vertices) /\ Distinct(finished)
      /\ seen = OnStack \cup Elems(finished)
      /\ \A n \in Elems(finished) : adj[n] \subseteq seen
      /\ \A i \in DOMAIN finished : Settled(i)
      /\ DOMAIN finished = 1 .. Len(finished) /\ Len(finished) \in Nat
      /\ seen \subseteq Vertices
  BY <1>1, InSecondLoop
<1>3. OnStack = {} /\ seen = Elems(finished)
  <2>1. DOMAIN stack = {}
    BY <1>1
  <2>. QED BY <1>2, <2>1 DEF OnStack
<1>4. root \in Vertices \ seen
  <2>1. Vertices \ seen \in SUBSET Nat /\ Vertices \ seen # {}
    BY <1>1, <1>2, VerticesAre
  <2>. QED BY <2>1, LeastNatural
<1> HIDE DEF root
<1>5. /\ stack' \in Seq(Vertices \X Nat) /\ Len(stack') = 1 /\ DOMAIN stack' = {1}
      /\ stack'[1] = <<root, 0>> /\ stack'[1][1] = root /\ stack'[1][2] = 0
  BY <1>1, <1>4
<1>6. OnStack' = {root}
  BY <1>5 DEF OnStack
<1>7. \A i \in DOMAIN finished' : Settled(i)'
  <2>1. \A i \in DOMAIN finished' : i \in Nat /\ i \in 1 .. i /\ Settled(i)
    BY <1>1, <1>2
  <2>. QED BY <1>1, <2>1, SettledStays
<1>8. FinishInv'
  <2>1. \A i, j \in DOMAIN stack' : stack'[i][1] = stack'[j][1] => i = j
    BY <1>5
  <2>2. \A i \in 1 .. Len(stack') - 1 : stack'[i + 1][1] \in adj'[stack'[i][1]]
    BY <1>5
  <2>3. \A i \in DOMAIN stack' : stack'[i][2] <= Cardinality(adj'[stack'[i][1]])
    <3>1. adj[root] \in SUBSET Vertices
      BY <1>2, <1>4 DEF Graph
    <3>2. Cardinality(adj[root]) \in Nat
      BY <3>1, VerticesAre
    <3>. QED BY <1>1, <1>5, <3>2
  <2>4. \A i \in DOMAIN stack' : \A j \in 1 .. stack'[i][2] : InOrder(adj'[stack'[i][1]])[j] \in seen'
    BY <1>5
  <2>5. seen' = OnStack' \cup Elems(finished') /\ OnStack' \cap Elems(finished') = {}
    BY <1>1, <1>3, <1>4, <1>6
  <2>6. \A n \in Elems(finished') : adj'[n] \subseteq seen'
    BY <1>1, <1>2
  <2>. QED BY <1>1, <1>2, <1>5, <1>7, <2>1, <2>2, <2>3, <2>4, <2>5, <2>6 DEF FinishInv
<1>9. Work' < Work
  <2>1. <<root, 0>> \in Left
    BY <1>4, VerticesAre DEF Left
  <2>2. <<root, 0>> \notin Left'
    BY <1>1, <1>5 DEF Left
  <2>3. Left' \subseteq Left
    BY <1>1, <1>4, <1>5 DEF Left
  <2>. QED BY <1>1, <2>1, <2>2, <2>3, FewerLeft
<1>. QED BY <1>1, <1>8, <1>9, FinishInvSuffices DEF LessWork

\* s with a for its top.
Swapped(s, a) == SubSeq(s, 1, Len(s) - 1) \o <<a>>

\* s with a for its top, and b on it.
Raised(s, a, b) == Swapped(s, a) \o <<b>>

\* A stack whose top is replaced, and another put on it.
LEMMA Replaced ==
  ASSUME NEW T, NEW s \in Seq(T), s # <<>>, NEW a \in T, NEW b \in T
  PROVE  /\ Swapped(s, a) \in Seq(T) /\ Len(Swapped(s, a)) = Len(s)
         /\ \A i \in 1 .. Len(s) - 1 : Swapped(s, a)[i] = s[i]
         /\ Swapped(s, a)[Len(s)] = a
         /\ Swapped(s, a) \o <<>> = Swapped(s, a)
         /\ Raised(s, a, b) \in Seq(T) /\ Len(Raised(s, a, b)) = Len(s) + 1
         /\ \A i \in 1 .. Len(s) - 1 : Raised(s, a, b)[i] = s[i]
         /\ Raised(s, a, b)[Len(s)] = a /\ Raised(s, a, b)[Len(s) + 1] = b
<1> DEFINE c == SubSeq(s, 1, Len(s) - 1)
           r == c \o <<a>>
<1>1. c \in Seq(T) /\ Len(c) = Len(s) - 1 /\ Len(s) \in Nat \ {0} /\ \A i \in 1 .. Len(s) - 1 : c[i] = s[i]
  BY WithoutTop
<1> HIDE DEF c
<1>2. r \in Seq(T) /\ Len(r) = Len(s) /\ r[Len(s)] = a /\ \A i \in 1 .. Len(s) - 1 : r[i] = s[i]
  BY <1>1
<1> HIDE DEF r
<1>3. r \o <<>> = r
  BY <1>2
<1>4. /\ r \o <<b>> \in Seq(T) /\ Len(r \o <<b>>) = Len(s) + 1
      /\ \A i \in 1 .. Len(s) : (r \o <<b>>)[i] = r[i]
      /\ (r \o <<b>>)[Len(s) + 1] = b
  BY <1>1, <1>2
<1>5. Len(s) \in 1 .. Len(s) /\ \A i \in 1 .. Len(s) - 1 : i \in 1 .. Len(s)
  BY <1>1
<1>. QED BY <1>2, <1>3, <1>4, <1>5 DEF r, c, Swapped, Raised

\* The next neighbour of the node on top: it is seen, and put on the stack when it was not.
LEMMA VisitNeighbourStep ==
  ASSUME TraversalAssumption, TraversalInv, Visit, Top[2] < Len(InOrder(adj[Top[1]]))
  PROVE  TraversalInv' /\ LessWork
<1> DEFINE L == Len(stack)
           node == Top[1]
           k == Top[2]
           targets == InOrder(adj[node])
           target == targets[k + 1]
<1>1. adj' = adj /\ loop = "finish" /\ loop' = "finish" /\ stack # <<>> /\ reached' = reached
      /\ finished' = finished /\ members' = members /\ components' = components
      /\ seen' = seen \cup {target}
      /\ stack' = Below \o <<<<node, k + 1>>>> \o (IF target \in seen THEN <<>> ELSE <<<<target, 0>>>>)
  BY DEF Visit
<1>2. /\ Graph
      /\ members = {} /\ components = {}
      /\ stack \in Seq(Vertices \X Nat) /\ finished \in Seq(Vertices) /\ Distinct(finished)
      /\ \A i, j \in DOMAIN stack : stack[i][1] = stack[j][1] => i = j
      /\ seen = OnStack \cup Elems(finished) /\ OnStack \cap Elems(finished) = {}
      /\ \A i \in 1 .. Len(stack) - 1 : stack[i + 1][1] \in adj[stack[i][1]]
      /\ \A i \in DOMAIN stack :
            /\ stack[i][2] <= Cardinality(adj[stack[i][1]])
            /\ \A j \in 1 .. stack[i][2] : InOrder(adj[stack[i][1]])[j] \in seen
      /\ \A n \in Elems(finished) : adj[n] \subseteq seen
      /\ \A i \in DOMAIN finished : Settled(i)
      /\ L \in Nat /\ DOMAIN stack = 1 .. L
      /\ Len(finished) \in Nat /\ DOMAIN finished = 1 .. Len(finished)
      /\ \A i \in 1 .. L : stack[i] = <<stack[i][1], stack[i][2]>> /\ stack[i][1] \in Vertices /\ stack[i][2] \in Nat
      /\ seen \subseteq Vertices
  BY <1>1, InSecondLoop
<1>3. L \in Nat \ {0} /\ L \in 1 .. L
  BY <1>1, <1>2
<1>4. node \in Vertices /\ k \in Nat /\ stack[L][1] = node /\ stack[L][2] = k /\ adj[node] \in SUBSET Vertices
  BY <1>2, <1>3 DEF Top, Graph
<1>5. Len(targets) = Cardinality(adj[node]) /\ Cardinality(adj[node]) \in Nat /\ k < Cardinality(adj[node]) /\ target \in adj[node]
      /\ Cardinality(adj[node]) <= Cardinality(Vertices)
  <2>1. targets \in Seq(adj[node]) /\ Len(targets) = Cardinality(adj[node]) /\ Cardinality(adj[node]) \in Nat
    BY <1>4, InOrderIs
  <2>2. Cardinality(adj[node]) <= Cardinality(Vertices)
    BY <1>4, VerticesAre
  <2> HIDE DEF targets
  <2>3. k < Len(targets)
    BY DEF targets
  <2>. QED BY <1>4, <2>1, <2>2, <2>3
<1>6. target \in Vertices
  BY <1>4, <1>5
<1> HIDE DEF target
<1>7. /\ stack' \in Seq(Vertices \X Nat)
      /\ \A i \in 1 .. L - 1 : stack'[i] = stack[i]
      /\ stack'[L] = <<node, k + 1>>
      /\ target \in seen => Len(stack') = L
      /\ target \notin seen => Len(stack') = L + 1 /\ stack'[L + 1] = <<target, 0>>
  <2> DEFINE a == <<node, k + 1>>
             b == <<target, 0>>
             r == Swapped(stack, a)
             T == Vertices \X Nat
  <2>1. a \in T /\ b \in T /\ stack \in Seq(T) /\ stack # <<>>
    BY <1>1, <1>2, <1>4, <1>6
  <2>2. stack' = r \o (IF target \in seen THEN <<>> ELSE <<b>>)
    BY <1>1 DEF Below, Swapped
  <2> HIDE DEF a, b, T
  <2>3. /\ r \in Seq(T) /\ Len(r) = L
        /\ \A i \in 1 .. L - 1 : r[i] = stack[i]
        /\ r[L] = a
        /\ r \o <<>> = r
    BY <2>1, Replaced
  <2>4. /\ Raised(stack, a, b) \in Seq(T) /\ Len(Raised(stack, a, b)) = L + 1
        /\ \A i \in 1 .. L - 1 : Raised(stack, a, b)[i] = stack[i]
        /\ Raised(stack, a, b)[L] = a /\ Raised(stack, a, b)[L + 1] = b
    BY <2>1, Replaced
  <2>5. CASE target \in seen
    <3>1. stack' = r
      BY <2>2, <2>3, <2>5
    <3> HIDE DEF r
    <3>. QED BY <2>3, <2>5, <3>1 DEF a, T
  <2>6. CASE target \notin seen
    <3>1. stack' = Raised(stack, a, b)
      BY <2>2, <2>6 DEF Raised
    <3>. QED BY <2>4, <2>6, <3>1 DEF a, b, T
  <2>. QED BY <2>5, <2>6
<1> HIDE DEF node, k, L
<1>8. DOMAIN stack' = 1 .. Len(stack') /\ \A i \in DOMAIN stack' : i \in 1 .. L \/ (i = L + 1 /\ target \notin seen)
  BY <1>3, <1>7
<1>9. 1 .. L \subseteq DOMAIN stack' /\ \A i \in 1 .. L : stack'[i][1] = stack[i][1]
  <2>1. \A i \in 1 .. L : i = L \/ i \in 1 .. L - 1
    BY <1>3
  <2>2. 1 .. L \subseteq 1 .. Len(stack')
    BY <1>3, <1>7
  <2>. QED BY <1>4, <1>7, <1>8, <2>1, <2>2
<1>10. target \notin seen => L + 1 \in DOMAIN stack' /\ stack'[L + 1][1] = target /\ stack'[L + 1][2] = 0
  BY <1>3, <1>7, <1>8
<1>11. OnStack' = OnStack \cup (IF target \in seen THEN {} ELSE {target})
  <2>1. OnStack \subseteq OnStack'
    <3>1. ASSUME NEW i \in DOMAIN stack PROVE stack[i][1] \in OnStack'
      <4>1. i \in DOMAIN stack' /\ stack'[i][1] = stack[i][1]
        BY <1>2, <1>9
      <4>. QED BY <4>1 DEF OnStack
    <3>. QED BY <3>1 DEF OnStack
  <2>2. target \notin seen => target \in OnStack'
    BY <1>10 DEF OnStack
  <2>3. OnStack' \subseteq OnStack \cup (IF target \in seen THEN {} ELSE {target})
    <3>1. ASSUME NEW i \in DOMAIN stack' PROVE stack'[i][1] \in OnStack \cup (IF target \in seen THEN {} ELSE {target})
      BY <1>2, <1>8, <1>9, <1>10 DEF OnStack
    <3>. QED BY <3>1 DEF OnStack
  <2>. QED BY <2>1, <2>2, <2>3
<1>12. FinishInv'
  <2>1. ASSUME NEW i \in DOMAIN stack', NEW j \in DOMAIN stack', stack'[i][1] = stack'[j][1] PROVE i = j
    <3>1. \A h \in 1 .. L : stack'[h][1] \in OnStack
      BY <1>2, <1>9 DEF OnStack
    <3>2. target \notin seen => target \notin OnStack
      BY <1>2
    <3>. QED BY <1>2, <1>8, <1>9, <1>10, <2>1, <3>1, <3>2
  <2>2. ASSUME NEW i \in 1 .. Len(stack') - 1 PROVE stack'[i + 1][1] \in adj'[stack'[i][1]]
    <3>1. CASE i \in 1 .. L - 1
      <4>1. i \in 1 .. L /\ i + 1 \in 1 .. L
        BY <1>3, <3>1
      <4>. QED BY <1>1, <1>2, <1>9, <3>1, <4>1 DEF L
    <3>2. CASE i \notin 1 .. L - 1
      <4>1. i = L /\ target \notin seen
        BY <1>3, <1>7, <3>2
      <4>. QED BY <1>1, <1>3, <1>4, <1>5, <1>9, <1>10, <4>1
    <3>. QED BY <3>1, <3>2
  <2>3. ASSUME NEW i \in DOMAIN stack'
        PROVE  /\ stack'[i][2] <= Cardinality(adj'[stack'[i][1]])
               /\ \A j \in 1 .. stack'[i][2] : InOrder(adj'[stack'[i][1]])[j] \in seen'
    <3>1. CASE i \in 1 .. L - 1
      <4>1. i \in 1 .. L /\ stack'[i] = stack[i]
        BY <1>3, <1>7, <3>1
      <4>. QED BY <1>1, <1>2, <4>1
    <3>2. CASE i = L
      <4>1. stack'[i][1] = node /\ stack'[i][2] = k + 1 /\ k + 1 <= Cardinality(adj[node])
        BY <1>4, <1>5, <1>7, <3>2
      <4>2. ASSUME NEW j \in 1 .. k + 1 PROVE InOrder(adj[node])[j] \in seen'
        <5>1. CASE j = k + 1
          BY <1>1, <5>1 DEF target
        <5>2. CASE j # k + 1
          <6>1. j \in 1 .. k
            BY <1>4, <5>2
          <6>. QED BY <1>1, <1>2, <1>3, <1>4, <6>1
        <5>. QED BY <5>1, <5>2
      <4>. QED BY <1>1, <4>1, <4>2
    <3>3. CASE i = L + 1 /\ target \notin seen
      <4>1. stack'[i][1] = target /\ stack'[i][2] = 0
        BY <1>10, <3>3
      <4>2. adj[target] \in SUBSET Vertices
        BY <1>2, <1>6 DEF Graph
      <4>3. Cardinality(adj[target]) \in Nat
        BY <4>2, VerticesAre
      <4>. QED BY <1>1, <4>1, <4>3
    <3>4. i \in 1 .. L - 1 \/ i = L \/ (i = L + 1 /\ target \notin seen)
      BY <1>3, <1>8
    <3>. QED BY <3>1, <3>2, <3>3, <3>4
  <2>4. \A i \in DOMAIN finished' : Settled(i)'
    <3>1. \A i \in DOMAIN finished' : i \in Nat /\ i \in 1 .. i /\ Settled(i)
      BY <1>1, <1>2
    <3>. QED BY <1>1, <3>1, SettledStays
  <2>5. seen' = OnStack' \cup Elems(finished') /\ OnStack' \cap Elems(finished') = {}
    BY <1>1, <1>2, <1>11
  <2>6. \A n \in Elems(finished') : adj'[n] \subseteq seen'
    BY <1>1, <1>2
  <2>. QED BY <1>1, <1>2, <1>7, <2>1, <2>2, <2>3, <2>4, <2>5, <2>6 DEF FinishInv
<1>13. Work' < Work
  <2>1. k + 1 \in 0 .. Cardinality(Vertices) + 1 /\ k < k + 1
    BY <1>4, <1>5, VerticesAre
  <2>2. <<node, k + 1>> \in Left
    BY <1>2, <1>3, <1>4, <2>1 DEF Left
  <2>3. <<node, k + 1>> \notin Left'
    <3>1. node \in seen'
      <4>1. node \in OnStack
        BY <1>2, <1>3, <1>4 DEF OnStack
      <4>. QED BY <1>1, <1>2, <4>1
    <3>2. ASSUME NEW i \in DOMAIN stack', stack'[i][1] = node, stack'[i][2] < k + 1 PROVE FALSE
      <4>1. L \in DOMAIN stack' /\ stack'[L][1] = node
        BY <1>3, <1>4, <1>9
      <4>2. i = L
        BY <1>12, <1>1, <3>2, <4>1 DEF FinishInv
      <4>3. stack'[i][2] = k + 1
        BY <1>7, <4>2
      <4>. QED BY <1>4, <3>2, <4>3
    <3>. QED BY <3>1, <3>2 DEF Left
  <2>4. Left' \subseteq Left
    <3>1. ASSUME NEW p \in Left' PROVE p \in Left
      <4>1. p \in Vertices \X (0 .. Cardinality(Vertices) + 1) /\ p[2] \in Nat
        BY VerticesAre DEF Left
      <4>2. CASE p[1] \notin seen'
        BY <1>1, <4>1, <4>2 DEF Left
      <4>3. ASSUME NEW i \in DOMAIN stack', stack'[i][1] = p[1], stack'[i][2] < p[2] PROVE p \in Left
        <5>1. CASE i \in 1 .. L - 1
          <6>1. i \in DOMAIN stack /\ stack[i] = stack'[i]
            BY <1>2, <1>3, <1>7, <5>1
          <6>. QED BY <4>1, <4>3, <6>1 DEF Left
        <5>2. CASE i = L
          <6>1. i \in DOMAIN stack /\ stack[i][1] = p[1]
            BY <1>2, <1>3, <1>9, <4>3, <5>2
          <6>2. stack'[i][2] = k + 1 /\ stack[i][2] = k
            BY <1>4, <1>7, <5>2
          <6>3. stack[i][2] < p[2]
            BY <1>4, <4>1, <4>3, <6>2
          <6>. QED BY <4>1, <6>1, <6>3 DEF Left
        <5>3. CASE i = L + 1 /\ target \notin seen
          BY <1>10, <4>1, <4>3, <5>3 DEF Left
        <5>4. i \in 1 .. L - 1 \/ i = L \/ (i = L + 1 /\ target \notin seen)
          BY <1>3, <1>8
        <5>. QED BY <5>1, <5>2, <5>3, <5>4
      <4>. QED BY <4>2, <4>3 DEF Left
    <3>. QED BY <3>1
  <2>. QED BY <1>1, <2>2, <2>3, <2>4, FewerLeft
<1>. QED BY <1>1, <1>12, <1>13, FinishInvSuffices DEF LessWork

\* The end of the node on top: its neighbours are all seen.  What it reaches is finished, or leads to a node below it
\* on the stack, which reaches it: the node is settled.
LEMMA VisitEndStep ==
  ASSUME TraversalAssumption, TraversalInv, Visit, ~(Top[2] < Len(InOrder(adj[Top[1]])))
  PROVE  TraversalInv' /\ LessWork
<1> DEFINE L == Len(stack)
           k == Top[2]
<1>1. adj' = adj /\ loop = "finish" /\ loop' = "finish" /\ stack # <<>> /\ reached' = reached
      /\ finished' = Append(finished, Top[1]) /\ members' = members /\ components' = components
      /\ seen' = seen /\ stack' = Below
  BY DEF Visit
<1>2. /\ Graph
      /\ members = {} /\ components = {}
      /\ stack \in Seq(Vertices \X Nat) /\ finished \in Seq(Vertices) /\ Distinct(finished)
      /\ \A i, j \in DOMAIN stack : stack[i][1] = stack[j][1] => i = j
      /\ seen = OnStack \cup Elems(finished) /\ OnStack \cap Elems(finished) = {}
      /\ \A i \in 1 .. Len(stack) - 1 : stack[i + 1][1] \in adj[stack[i][1]]
      /\ \A i \in DOMAIN stack :
            /\ stack[i][2] <= Cardinality(adj[stack[i][1]])
            /\ \A j \in 1 .. stack[i][2] : InOrder(adj[stack[i][1]])[j] \in seen
      /\ \A n \in Elems(finished) : adj[n] \subseteq seen
      /\ \A i \in DOMAIN finished : Settled(i)
      /\ L \in Nat /\ DOMAIN stack = 1 .. L
      /\ Len(finished) \in Nat /\ DOMAIN finished = 1 .. Len(finished)
      /\ \A i \in 1 .. L : stack[i] = <<stack[i][1], stack[i][2]>> /\ stack[i][1] \in Vertices /\ stack[i][2] \in Nat
      /\ seen \subseteq Vertices
  BY <1>1, InSecondLoop
<1>3. L \in Nat \ {0} /\ L \in 1 .. L
  BY <1>1, <1>2
<1>4a. Top[1] \in Vertices
  BY <1>2, <1>3 DEF Top
<1>4b. PICK node \in Vertices : node = Top[1]
  BY <1>4a
<1>4c. PICK M \in Nat : M = Len(finished)
  BY <1>2
<1> DEFINE C == Elems(finished) \cup {node}
<1>4. node \in Vertices /\ k \in Nat /\ stack[L][1] = node /\ stack[L][2] = k /\ adj[node] \in SUBSET Vertices
  BY <1>2, <1>3, <1>4b DEF Top, Graph
<1>5. k = Cardinality(adj[node]) /\ k <= Cardinality(Vertices)
  <2>1. Len(InOrder(adj[node])) = Cardinality(adj[node]) /\ Cardinality(adj[node]) \in Nat
        /\ Cardinality(adj[node]) <= Cardinality(Vertices)
    BY <1>4, InOrderIs, VerticesAre
  <2>2. k <= Cardinality(adj[node])
    BY <1>2, <1>3, <1>4
  <2>3. ~(k < Cardinality(adj[node]))
    BY <1>4b, <2>1
  <2>. QED BY <1>4, <2>1, <2>2, <2>3
<1>6. adj[node] \subseteq seen
  <2>1. InOrder(adj[node]) \in Seq(adj[node]) /\ Len(InOrder(adj[node])) = k /\ Elems(InOrder(adj[node])) = adj[node]
    BY <1>4, <1>5, InOrderIs
  <2>2. \A j \in 1 .. k : InOrder(adj[node])[j] \in seen
    BY <1>2, <1>3, <1>4
  <2>3. DOMAIN InOrder(adj[node]) = 1 .. k
    BY <2>1
  <2>. QED BY <2>1, <2>2, <2>3 DEF Elems
<1>7. /\ stack' \in Seq(Vertices \X Nat) /\ Len(stack') = L - 1 /\ DOMAIN stack' = 1 .. L - 1
      /\ \A i \in 1 .. L - 1 : stack'[i] = stack[i]
  <2>1. Below \in Seq(Vertices \X Nat) /\ Len(Below) = L - 1 /\ \A i \in 1 .. L - 1 : Below[i] = stack[i]
    BY <1>1, <1>2, WithoutTop DEF Below
  <2>2. stack' \in Seq(Vertices \X Nat) /\ Len(stack') = L - 1 /\ \A i \in 1 .. L - 1 : stack'[i] = stack[i]
    BY <1>1, <2>1
  <2> HIDE DEF L
  <2>. QED BY <2>2
<1> HIDE DEF k, L
<1>8. /\ finished' \in Seq(Vertices) /\ Len(finished') = M + 1 /\ DOMAIN finished' = 1 .. M + 1
      /\ \A i \in 1 .. M : finished'[i] = finished[i]
      /\ finished'[M + 1] = node
  BY <1>1, <1>2, <1>4c, <1>4, <1>4b, <1>4c
<1>9. \A i \in 1 .. L : i = L \/ i \in 1 .. L - 1
  BY <1>3
<1>10. \A i \in 1 .. L - 1 : i \in 1 .. L /\ i # L
  BY <1>3
<1>11. \A i \in 1 .. M + 1 : i = M + 1 \/ i \in 1 .. M
  BY <1>2, <1>4c
<1>12. \A i \in 1 .. M : i \in 1 .. M + 1 /\ i # M + 1
  BY <1>2, <1>4c
<1>13. node \in OnStack /\ OnStack = OnStack' \cup {node} /\ node \notin OnStack'
  <2>1. node \in OnStack
    BY <1>2, <1>4c, <1>3, <1>4 DEF OnStack
  <2>2. \A i \in DOMAIN stack' : i \in DOMAIN stack /\ stack'[i] = stack[i] /\ i # L
    BY <1>2, <1>4c, <1>7, <1>10
  <2>3. OnStack' \subseteq OnStack /\ node \notin OnStack'
    <3>1. ASSUME NEW i \in DOMAIN stack' PROVE stack'[i][1] \in OnStack /\ stack'[i][1] # node
      <4>1. i \in DOMAIN stack /\ stack'[i][1] = stack[i][1] /\ i # L /\ L \in DOMAIN stack
        BY <1>2, <1>3, <2>2
      <4>2. stack[i][1] # stack[L][1]
        BY <1>2, <4>1
      <4>. QED BY <1>4, <4>1, <4>2 DEF OnStack
    <3>. QED BY <3>1 DEF OnStack
  <2>4. \A i \in DOMAIN stack : i = L \/ (i \in DOMAIN stack' /\ stack'[i] = stack[i])
    BY <1>2, <1>4c, <1>7, <1>9
  <2>5. OnStack \subseteq OnStack' \cup {node}
    <3>1. ASSUME NEW i \in DOMAIN stack PROVE stack[i][1] \in OnStack' \cup {node}
      BY <1>4, <2>4 DEF OnStack
    <3>. QED BY <3>1 DEF OnStack
  <2>. QED BY <2>1, <2>3, <2>5
<1>14. Elems(finished') = C /\ node \notin Elems(finished) /\ First(M + 1)' = C
  <2>1. Elems(finished') = C
    <3>1. Elems(finished) \subseteq Elems(finished')
      BY <1>2, <1>4c, <1>8, <1>12 DEF Elems
    <3>2. M + 1 \in 1 .. M + 1
      BY <1>2, <1>4c
    <3>3. node \in Elems(finished')
      BY <1>8, <3>2 DEF Elems
    <3>4. Elems(finished') \subseteq C
      BY <1>2, <1>4c, <1>8, <1>11 DEF Elems
    <3>. QED BY <3>1, <3>3, <3>4
  <2>2. First(M + 1)' = Elems(finished')
    BY <1>8 DEF First, Elems
  <2>. QED BY <1>2, <1>4c, <1>13, <2>1, <2>2
<1>15. Distinct(finished')
  <2>1. ASSUME NEW i \in DOMAIN finished', NEW j \in DOMAIN finished', finished'[i] = finished'[j] PROVE i = j
    <3>1. \A h \in 1 .. M : finished'[h] \in Elems(finished)
      BY <1>2, <1>4c, <1>8 DEF Elems
    <3>2. \A h \in 1 .. M : finished'[h] # node
      BY <1>14, <3>1
    <3>. QED BY <1>2, <1>4c, <1>8, <1>11, <2>1, <3>2 DEF Distinct
  <2>. QED BY <2>1 DEF Distinct
<1>16. \A i \in 1 .. M : Settled(i)'
  <2>1. ASSUME NEW i \in 1 .. M PROVE Settled(i)'
    <3>1. i \in Nat /\ i \in 1 .. i /\ \A h \in 1 .. i : h \in 1 .. M
      BY <1>2, <1>4c
    <3>. QED BY <1>1, <1>2, <1>4c, <1>8, <3>1, SettledStays
  <2>. QED BY <2>1
<1>17. C \subseteq Vertices /\ seen = OnStack' \cup C /\ \A n \in C : adj[n] \subseteq seen
  BY <1>2, <1>4c, <1>4, <1>6, <1>13
<1>18. Closure(adj, {node}) \subseteq C \/ \E g \in Vertices \ C : g \in Mutual(node)
  <2> DEFINE D == {n \in C : Reaches(node, n)}
  <2>1. CASE \A n \in D : adj[n] \subseteq D
    <3>1. D \in SUBSET Vertices /\ node \in D
      BY <1>2, <1>4c, <1>17, PathFacts
    <3> HIDE DEF D
    <3>2. \A n : Reaches(node, n) => n \in D
      BY <1>2, <1>4c, <2>1, <3>1, PathFacts
    <3>. QED BY <3>2 DEF D, Reaches
  <2>2. CASE ~ \A n \in D : adj[n] \subseteq D
    <3>1. PICK n \in D : ~(adj[n] \subseteq D)
      BY <2>2
    <3>2. PICK g \in adj[n] : g \notin D
      BY <3>1
    <3>3. n \in C /\ n \in Vertices /\ g \in seen /\ g \in Vertices /\ Reaches(node, n)
      BY <1>2, <1>4c, <1>17, <3>1, <3>2
    <3>4. Reaches(n, g)
      BY <1>2, <1>4c, <3>2, <3>3, PathFacts
    <3>5. Reaches(node, g)
      BY <1>2, <1>4c, <3>3, <3>4, PathFacts
    <3>6. g \notin C /\ g \in OnStack
      BY <1>13, <1>17, <3>2, <3>3, <3>5
    <3>7. PICK i \in 1 .. L : stack[i][1] = g
      BY <1>2, <1>4c, <3>6 DEF OnStack
    <3>8. Reaches(g, node)
      BY <1>2, <1>4c, <1>4, <3>7, StackIsPath DEF L
    <3>. QED BY <3>3, <3>5, <3>6, <3>8 DEF Mutual
  <2>. QED BY <2>1, <2>2
<1>19. Settled(M + 1)'
  <2>1. \A m, n : Reaches(m, n)' = Reaches(m, n)
    BY <1>1 DEF Reaches
  <2>3. Mutual(finished[M + 1])' = Mutual(node)
    BY <1>8, <2>1 DEF Mutual
  <2>4. Closure(adj, {finished[M + 1]})' = Closure(adj, {node})
    BY <1>1, <1>8
  <2> HIDE DEF C
  <2>. QED BY <1>14, <1>18, <2>3, <2>4 DEF Settled
<1>20. FinishInv'
  <2>1. \A i, j \in DOMAIN stack' : stack'[i][1] = stack'[j][1] => i = j
    <3>1. \A i \in DOMAIN stack' : i \in DOMAIN stack /\ stack'[i] = stack[i]
      BY <1>2, <1>7, <1>10
    <3>. QED BY <1>2, <3>1
  <2>2. ASSUME NEW i \in 1 .. Len(stack') - 1 PROVE stack'[i + 1][1] \in adj'[stack'[i][1]]
    <3>1. i \in 1 .. L - 1 /\ i + 1 \in 1 .. L - 1
      BY <1>3, <1>7
    <3>. QED BY <1>1, <1>2, <1>4c, <1>7, <3>1 DEF L
  <2>3. \A i \in DOMAIN stack' :
            /\ stack'[i][2] <= Cardinality(adj'[stack'[i][1]])
            /\ \A j \in 1 .. stack'[i][2] : InOrder(adj'[stack'[i][1]])[j] \in seen'
    BY <1>1, <1>2, <1>4c, <1>7, <1>10
  <2>4. \A i \in DOMAIN finished' : Settled(i)'
    BY <1>8, <1>11, <1>16, <1>19
  <2>5. seen' = OnStack' \cup Elems(finished') /\ OnStack' \cap Elems(finished') = {}
    BY <1>1, <1>2, <1>4c, <1>13, <1>14, <1>17
  <2>6. \A n \in Elems(finished') : adj'[n] \subseteq seen'
    BY <1>1, <1>14, <1>17
  <2>. QED BY <1>1, <1>2, <1>4c, <1>7, <1>8, <1>15, <2>1, <2>2, <2>3, <2>4, <2>5, <2>6 DEF FinishInv
<1>21. Work' < Work
  <2>1. k + 1 \in 0 .. Cardinality(Vertices) + 1 /\ k < k + 1
    BY <1>4, <1>5, VerticesAre
  <2>2. <<node, k + 1>> \in Left
    BY <1>2, <1>4c, <1>3, <1>4, <2>1 DEF Left
  <2>3. <<node, k + 1>> \notin Left'
    <3>1. node \in seen'
      BY <1>1, <1>2, <1>4c, <1>13
    <3>2. \A i \in DOMAIN stack' : stack'[i][1] # node
      BY <1>13 DEF OnStack
    <3>. QED BY <3>1, <3>2 DEF Left
  <2>4. Left' \subseteq Left
    <3>1. \A i \in DOMAIN stack' : i \in DOMAIN stack /\ stack'[i] = stack[i]
      BY <1>2, <1>4c, <1>7, <1>10
    <3>. QED BY <1>1, <3>1 DEF Left
  <2>. QED BY <1>1, <2>2, <2>3, <2>4, FewerLeft
<1>. QED BY <1>1, <1>20, <1>21, FinishInvSuffices DEF LessWork

\* When every node is finished, the components can be made.
LEMMA FinishedStep ==
  ASSUME TraversalAssumption, TraversalInv, Finished
  PROVE  TraversalInv' /\ LessWork
<1>1. adj' = adj /\ loop = "finish" /\ loop' = "gather" /\ stack = <<>> /\ stack' = <<>> /\ seen = Vertices /\ reached' = reached
      /\ finished' = finished /\ members' = members /\ components' = components /\ seen' = {}
  BY DEF Finished
<1>2. /\ Graph
      /\ members = {} /\ components = {}
      /\ finished \in Seq(Vertices) /\ Distinct(finished)
      /\ seen = OnStack \cup Elems(finished)
      /\ \A i \in DOMAIN finished : Settled(i)
  BY <1>1, InSecondLoop
<1>3. DOMAIN stack = {} /\ DOMAIN stack' = {} /\ stack' \in Seq(Vertices)
  BY <1>1
<1>4. Elems(finished) = Vertices
  BY <1>1, <1>2, <1>3 DEF OnStack
<1>5. SourcesFinishLast'
  <2>1. /\ Len(finished) = Cardinality(Vertices)
        /\ \A i, j \in DOMAIN finished :
             Reaches(finished[i], finished[j]) /\ ~Reaches(finished[j], finished[i]) =>
                 \E k \in DOMAIN finished : /\ k > j
                                           /\ Reaches(finished[i], finished[k])
                                           /\ Reaches(finished[k], finished[i])
    BY <1>2, <1>4, SettledOrder
  <2>2. \A m, n : Reaches(m, n)' = Reaches(m, n)
    BY <1>1 DEF Reaches
  <2>. QED BY <1>1, <2>1, <2>2 DEF SourcesFinishLast
<1>6. Elems(stack') = {} /\ Current' = {} /\ Assigned' = {} /\ components' = {}
  BY <1>1, <1>2, <1>3 DEF Elems, Current, Assigned
<1>7. GatherInv'
  <2>1. components' = {Mutual(n)' : n \in Assigned'}
    BY <1>6
  <2>. QED BY <1>1, <1>2, <1>3, <1>4, <1>5, <1>6, <2>1 DEF GatherInv
<1>8. TraversalInv'
  BY <1>1, <1>7 DEF TraversalInv, ReachedIsReachable, ReachInv, FinishInv
<1>. QED BY <1>1, <1>8 DEF LessWork

-----------------------------------------------------------------------------
(* The traversals: the third loop.                                         *)

\* A step that only the third loop's part of the invariant is about.
LEMMA GatherInvSuffices ==
  ASSUME TraversalInv, adj' = adj, reached' = reached, loop = "gather", loop' \in {"gather", "done"}, GatherInv'
  PROVE  TraversalInv'
  BY DEF TraversalInv, ReachedIsReachable, ReachInv, FinishInv

\* The order of the finished nodes stays.
LEMMA OrderStays ==
  ASSUME adj' = adj, finished' = finished, loop \in {"gather", "done"}, SourcesFinishLast
  PROVE  SourcesFinishLast'
<1>1. \A m, n : Reaches(m, n)' = Reaches(m, n)
  BY DEF Reaches
<1>. QED BY <1>1 DEF SourcesFinishLast

\* The third loop's part of the invariant, where it applies.
LEMMA InThirdLoop ==
  ASSUME TraversalAssumption, TraversalInv, loop = "gather"
  PROVE  /\ Graph
         /\ finished \in Seq(Vertices) /\ Elems(finished) = Vertices /\ Distinct(finished)
         /\ SourcesFinishLast
         /\ stack \in Seq(Vertices) /\ members \subseteq Vertices /\ Assigned \subseteq Vertices
         /\ components = {Mutual(n) : n \in Assigned}
         /\ seen = Assigned \cup Current /\ Assigned \cap Current = {}
         /\ \A x, y \in Current : Reaches(x, y)
         /\ \A x \in Current, m \in Vertices \ Assigned : Reaches(m, x) => Reaches(x, m)
         /\ \A n \in Assigned \cup members : Sources(n) \subseteq seen
         /\ Elems(stack) \subseteq Vertices /\ Len(stack) \in Nat /\ DOMAIN stack = 1 .. Len(stack)
         /\ Len(finished) \in Nat /\ DOMAIN finished = 1 .. Len(finished)
         /\ IsFiniteSet(Vertices \ seen) /\ Cardinality(Vertices \ seen) \in Nat
<1>1. stack \in Seq(Vertices) /\ finished \in Seq(Vertices)
  BY DEF TraversalInv, GatherInv
<1>2. Len(stack) \in Nat /\ DOMAIN stack = 1 .. Len(stack) /\ Len(finished) \in Nat /\ DOMAIN finished = 1 .. Len(finished)
  BY <1>1
<1>3. Elems(stack) \subseteq Vertices
  BY <1>1, <1>2 DEF Elems
<1>4. Vertices \ seen \in SUBSET Vertices
  OBVIOUS
<1>5. IsFiniteSet(Vertices \ seen) /\ Cardinality(Vertices \ seen) \in Nat
  BY <1>4, VerticesAre
<1>. QED BY <1>1, <1>2, <1>3, <1>5 DEF TraversalInv, GatherInv, Graph

\* With a node that has its component goes its whole component.
LEMMA AssignedWhole ==
  ASSUME Graph, Assigned \subseteq Vertices, components = {Mutual(n) : n \in Assigned},
         NEW a \in Assigned, NEW m \in Mutual(a)
  PROVE  m \in Assigned
<1>1. Mutual(a) \in components
  OBVIOUS
<1>. QED BY <1>1 DEF Assigned

\* The last finished node without a component: a node that reaches it and has no component is reached by it, for else one
\* of that node's component would be finished later, and would have its component.
LEMMA GatherRootStep ==
  ASSUME TraversalAssumption, TraversalInv, GatherRoot
  PROVE  TraversalInv' /\ LessWork
<1> DEFINE IsLast(i) == finished[i] \notin seen /\ \A j \in DOMAIN finished : j > i => finished[j] \in seen
           last == CHOOSE i \in DOMAIN finished : IsLast(i)
<1>1. adj' = adj /\ loop = "gather" /\ loop' = "gather" /\ stack = <<>> /\ members = {} /\ seen # Vertices /\ reached' = reached
      /\ finished' = finished /\ members' = members /\ components' = components
      /\ seen' = seen \cup {finished[last]} /\ stack' = <<finished[last]>>
  BY DEF GatherRoot
<1>2. /\ Graph
      /\ finished \in Seq(Vertices) /\ Elems(finished) = Vertices /\ Distinct(finished)
      /\ SourcesFinishLast
      /\ Assigned \subseteq Vertices
      /\ components = {Mutual(n) : n \in Assigned}
      /\ seen = Assigned \cup Current
      /\ \A n \in Assigned \cup members : Sources(n) \subseteq seen
      /\ Len(finished) \in Nat /\ DOMAIN finished = 1 .. Len(finished)
      /\ IsFiniteSet(Vertices \ seen) /\ Cardinality(Vertices \ seen) \in Nat
  BY <1>1, InThirdLoop
<1>3. Current = {} /\ seen = Assigned
  <2>1. DOMAIN stack = {}
    BY <1>1
  <2>. QED BY <1>1, <1>2, <2>1 DEF Current, Elems
<1>4. last \in DOMAIN finished /\ IsLast(last)
  <2> DEFINE T == {i \in DOMAIN finished : finished[i] \notin seen}
  <2>1. T \in SUBSET (0 .. Len(finished))
    BY <1>2
  <2>2. T # {}
    <3>1. PICK n \in Vertices : n \notin seen
      BY <1>1, <1>2, <1>3
    <3>. QED BY <1>2, <3>1 DEF Elems
  <2>3. PICK i \in T : \A j \in T : j <= i
    BY <1>2, <2>1, <2>2, Greatest
  <2>4. \A j \in DOMAIN finished : j > i => finished[j] \in seen
    BY <1>2, <2>3
  <2>5. i \in DOMAIN finished /\ IsLast(i)
    BY <2>3, <2>4
  <2> HIDE DEF IsLast
  <2>. QED BY <2>5
<1>5. PICK root \in Vertices : root = finished[last] /\ root \notin seen
  BY <1>2, <1>4
<1>6. /\ stack' \in Seq(Vertices) /\ Len(stack') = 1 /\ Elems(stack') = {root}
      /\ seen' = seen \cup {root} /\ Current' = {root} /\ Assigned' = Assigned
  <2>1. stack' = <<root>> /\ seen' = seen \cup {root}
    BY <1>1, <1>5
  <2>2. stack' \in Seq(Vertices) /\ Len(stack') = 1 /\ DOMAIN stack' = {1} /\ stack'[1] = root
    BY <2>1
  <2>3. Elems(stack') = {root}
    BY <2>2 DEF Elems
  <2>. QED BY <1>1, <2>1, <2>2, <2>3 DEF Current, Assigned
<1>7. ASSUME NEW m \in Vertices \ Assigned, Reaches(m, root) PROVE Reaches(root, m)
  <2>1. SUFFICES ASSUME ~Reaches(root, m) PROVE FALSE
    OBVIOUS
  <2>2. PICK h \in DOMAIN finished : finished[h] = m
    BY <1>2 DEF Elems
  <2>3. PICK k \in DOMAIN finished : k > last /\ Reaches(m, finished[k]) /\ Reaches(finished[k], m)
    BY <1>1, <1>2, <1>4, <1>5, <1>7, <2>1, <2>2 DEF SourcesFinishLast
  <2>4. finished[k] \in Assigned
    BY <1>3, <1>4, <2>3
  <2>5. m \in Mutual(finished[k])
    BY <2>3 DEF Mutual
  <2>. QED BY <1>2, <2>4, <2>5, AssignedWhole
<1> HIDE DEF last, IsLast
<1>8. GatherInv'
  <2>1. \A m, n : Reaches(m, n)' = Reaches(m, n)
    BY <1>1 DEF Reaches
  <2>2. \A n : Mutual(n)' = Mutual(n) /\ Sources(n)' = Sources(n)
    BY <1>1, <2>1 DEF Mutual, Sources
  <2>3. components' = {Mutual(n)' : n \in Assigned'}
    BY <1>1, <1>2, <1>6, <2>2
  <2>4. SourcesFinishLast'
    BY <1>1, <1>2, OrderStays
  <2>5. \A x, y \in Current' : Reaches(x, y)'
    BY <1>2, <1>6, <2>1, PathFacts
  <2>6. \A x \in Current', m \in Vertices \ Assigned' : Reaches(m, x)' => Reaches(x, m)'
    BY <1>6, <1>7, <2>1
  <2>7. \A n \in Assigned' \cup members' : Sources(n)' \subseteq seen'
    BY <1>1, <1>2, <1>6, <2>2
  <2>8. seen' = Assigned' \cup Current' /\ Assigned' \cap Current' = {}
    BY <1>3, <1>5, <1>6
  <2>. QED BY <1>1, <1>2, <1>6, <2>3, <2>4, <2>5, <2>6, <2>7, <2>8 DEF GatherInv
<1>9. Work' < Work
  <2>1. Vertices \ seen' = (Vertices \ seen) \ {root} /\ root \in Vertices \ seen
    BY <1>5, <1>6
  <2>2. Cardinality(Vertices \ seen') = Cardinality(Vertices \ seen) - 1
    BY <1>2, <2>1, FS_RemoveElement
  <2>3. Work = 3 * Cardinality(Vertices \ seen) /\ Work' = 3 * Cardinality(Vertices \ seen') + 2
    BY <1>1, <1>2, <1>6, <2>2 DEF Work
  <2>. QED BY <1>2, <2>2, <2>3
<1>. QED BY <1>1, <1>8, <1>9, GatherInvSuffices DEF LessWork

\* The node on top joins the component, and the nodes with an edge to it that were not seen go on the stack: they reach
\* the component, and so are reached by it.
LEMMA GatherStep ==
  ASSUME TraversalAssumption, TraversalInv, Gather
  PROVE  TraversalInv' /\ LessWork
<1> DEFINE Q == Sources(Top) \ seen
           p == Backwards(InOrder(Q))
<1>1. adj' = adj /\ loop = "gather" /\ loop' = "gather" /\ stack # <<>> /\ reached' = reached
      /\ finished' = finished /\ members' = members \cup {Top} /\ components' = components
      /\ seen' = seen \cup Sources(Top) /\ stack' = Below \o p
  BY DEF Gather
<1>2. /\ Graph
      /\ finished \in Seq(Vertices) /\ Elems(finished) = Vertices /\ Distinct(finished)
      /\ SourcesFinishLast
      /\ stack \in Seq(Vertices) /\ members \subseteq Vertices /\ Assigned \subseteq Vertices
      /\ components = {Mutual(n) : n \in Assigned}
      /\ seen = Assigned \cup Current /\ Assigned \cap Current = {}
      /\ \A x, y \in Current : Reaches(x, y)
      /\ \A x \in Current, m \in Vertices \ Assigned : Reaches(m, x) => Reaches(x, m)
      /\ \A n \in Assigned \cup members : Sources(n) \subseteq seen
      /\ Elems(stack) \subseteq Vertices /\ Len(stack) \in Nat
      /\ IsFiniteSet(Vertices \ seen) /\ Cardinality(Vertices \ seen) \in Nat
  BY <1>1, InThirdLoop
<1>3. /\ Top \in Vertices /\ Below \in Seq(Vertices) /\ Elems(stack) = Elems(Below) \cup {Top}
      /\ Len(Below) = Len(stack) - 1 /\ Len(stack) \in Nat \ {0}
  BY <1>1, <1>2, WithoutTop DEF Top, Below
<1>4. PICK top \in Vertices : top = Top
  BY <1>3
<1>5. Q = Sources(top) \ seen /\ Q \in SUBSET Vertices /\ top \in Current
  BY <1>3, <1>4 DEF Sources, Current
<1>6. p \in Seq(Vertices) /\ Len(p) = Cardinality(Q) /\ Elems(p) = Q /\ Cardinality(Q) \in Nat
  BY <1>5, Pushed, VerticesAre
<1>7. PICK R \in SUBSET Vertices : R = Q
  BY <1>5
<1>8. stack' \in Seq(Vertices) /\ Elems(stack') = Elems(Below) \cup R /\ Len(stack') = Len(stack) - 1 + Cardinality(R)
  <2> HIDE DEF p, Q
  <2>1. Below \o p \in Seq(Vertices) /\ Len(Below \o p) = Len(Below) + Len(p) /\ Elems(Below \o p) = Elems(Below) \cup Elems(p)
    BY <1>3, <1>6, PutOn
  <2>. QED BY <1>1, <1>3, <1>6, <1>7, <2>1
<1>9. R = Sources(top) \ seen /\ Cardinality(R) \in Nat /\ members' = members \cup {top} /\ seen' = seen \cup Sources(top)
  BY <1>1, <1>4, <1>5, <1>6, <1>7
<1> HIDE DEF p, Q
<1>10. Current' = Current \cup R /\ Assigned' = Assigned
  BY <1>1, <1>3, <1>4, <1>8, <1>9 DEF Current, Assigned
<1>11. \A x \in Current \cup R : x \in Vertices \ Assigned /\ Reaches(top, x) /\ Reaches(x, top)
  <2>1. ASSUME NEW x \in Current PROVE x \in Vertices \ Assigned /\ Reaches(top, x) /\ Reaches(x, top)
    BY <1>2, <1>5, <2>1 DEF Current
  <2>2. ASSUME NEW x \in R PROVE x \in Vertices \ Assigned /\ Reaches(top, x) /\ Reaches(x, top)
    <3>1. x \in Vertices \ Assigned /\ top \in adj[x]
      BY <1>2, <1>9 DEF Sources
    <3>2. Reaches(x, top)
      BY <1>2, <3>1, PathFacts
    <3>. QED BY <1>2, <1>5, <3>1, <3>2
  <2>. QED BY <2>1, <2>2
<1>12. GatherInv'
  <2>1. \A m, n : Reaches(m, n)' = Reaches(m, n)
    BY <1>1 DEF Reaches
  <2>2. \A n : Mutual(n)' = Mutual(n) /\ Sources(n)' = Sources(n)
    BY <1>1, <2>1 DEF Mutual, Sources
  <2>3. components' = {Mutual(n)' : n \in Assigned'}
    BY <1>1, <1>2, <1>10, <2>2
  <2>4. SourcesFinishLast'
    BY <1>1, <1>2, OrderStays
  <2>5. \A x, y \in Current' : Reaches(x, y)'
    BY <1>2, <1>10, <1>11, <2>1, PathFacts
  <2>6. ASSUME NEW x \in Current', NEW m \in Vertices \ Assigned', Reaches(m, x)' PROVE Reaches(x, m)'
    <3>1. Reaches(m, x) /\ Reaches(x, top) /\ m \in Vertices \ Assigned
      BY <1>10, <1>11, <2>1, <2>6
    <3>2. Reaches(m, top)
      BY <1>2, <3>1, PathFacts
    <3>3. Reaches(top, m)
      BY <1>2, <1>5, <3>1, <3>2
    <3>4. Reaches(x, m)
      BY <1>2, <3>1, <3>3, PathFacts
    <3>. QED BY <2>1, <3>4
  <2>7. \A n \in Assigned' \cup members' : Sources(n)' \subseteq seen'
    BY <1>2, <1>9, <1>10, <2>2
  <2>8. seen' = Assigned' \cup Current' /\ Assigned' \cap Current' = {}
    BY <1>2, <1>9, <1>10, <1>11
  <2>9. members' \subseteq Vertices
    BY <1>2, <1>9
  <2>. QED BY <1>1, <1>2, <1>8, <1>10, <2>3, <2>4, <2>5, <2>6, <2>7, <2>8, <2>9 DEF GatherInv
<1>13. Work' < Work
  <2> DEFINE u == Cardinality(Vertices \ seen)
             q == Cardinality(R)
  <2>1. Vertices \ seen' = (Vertices \ seen) \ R /\ (Vertices \ seen) \cap R = R
    BY <1>9
  <2>2. Cardinality(Vertices \ seen') = u - q
    <3>1. Cardinality((Vertices \ seen) \ R) = Cardinality(Vertices \ seen) - Cardinality((Vertices \ seen) \cap R)
      BY <1>2, FS_Difference
    <3>. QED BY <2>1, <3>1
  <2>3. members' # {}
    BY <1>9
  <2>4. Work' = 3 * (u - q) + 2 * (Len(stack) - 1 + q) + 1 /\ Work = 3 * u + 2 * Len(stack) + (IF members = {} THEN 0 ELSE 1)
    BY <1>1, <1>8, <2>2, <2>3 DEF Work
  <2>5. u \in Nat /\ q \in Nat
    BY <1>2, <1>9
  <2> HIDE DEF u, q
  <2>. QED BY <1>3, <2>4, <2>5
<1>. QED BY <1>1, <1>12, <1>13, GatherInvSuffices DEF LessWork

\* When the stack is empty the component is whole: what reaches it was seen, and has no other component.
LEMMA GatheredStep ==
  ASSUME TraversalAssumption, TraversalInv, Gathered
  PROVE  TraversalInv' /\ LessWork
<1>1. adj' = adj /\ loop = "gather" /\ loop' = "gather" /\ stack = <<>> /\ stack' = stack /\ members # {} /\ reached' = reached
      /\ finished' = finished /\ members' = {} /\ components' = components \cup {members} /\ seen' = seen
  BY DEF Gathered
<1>2. /\ Graph
      /\ finished \in Seq(Vertices) /\ Elems(finished) = Vertices /\ Distinct(finished)
      /\ SourcesFinishLast
      /\ stack \in Seq(Vertices) /\ members \subseteq Vertices /\ Assigned \subseteq Vertices
      /\ components = {Mutual(n) : n \in Assigned}
      /\ seen = Assigned \cup Current /\ Assigned \cap Current = {}
      /\ \A x, y \in Current : Reaches(x, y)
      /\ \A n \in Assigned \cup members : Sources(n) \subseteq seen
      /\ IsFiniteSet(Vertices \ seen) /\ Cardinality(Vertices \ seen) \in Nat
  BY <1>1, InThirdLoop
<1>3. Elems(stack) = {} /\ Current = members
  <2>1. DOMAIN stack = {}
    BY <1>1
  <2>. QED BY <2>1 DEF Elems, Current
<1>4. \A n \in members : Mutual(n) = members
  <2>1. ASSUME NEW n \in members, NEW m \in Mutual(n) PROVE m \in members
    <3>1. n \in Vertices /\ m \in Vertices /\ Reaches(m, n)
      BY <1>2, <2>1 DEF Mutual
    <3>2. m \in seen
      <4>1. seen \in SUBSET Vertices /\ n \in seen /\ \A b \in seen : Sources(b) \subseteq seen
        BY <1>2, <1>3
      <4>. QED BY <1>2, <3>1, <4>1, BackwardClosed
    <3>3. m \notin Assigned
      <4>1. n \in Mutual(m)
        BY <1>2, <3>1, MutualFacts
      <4>2. m \in Assigned => n \in Assigned
        BY <1>2, <4>1, AssignedWhole
      <4>. QED BY <1>2, <1>3, <4>2
    <3>. QED BY <1>2, <1>3, <3>2, <3>3
  <2>2. ASSUME NEW n \in members, NEW m \in members PROVE m \in Mutual(n)
    BY <1>2, <1>3 DEF Mutual
  <2>. QED BY <2>1, <2>2
<1>5. Elems(stack') = {} /\ Current' = {} /\ Assigned' = Assigned \cup members
  <2>1. Elems(stack') = {}
    BY <1>1, <1>3
  <2>. QED BY <1>1, <2>1 DEF Current, Assigned
<1>6. GatherInv'
  <2>1. \A m, n : Reaches(m, n)' = Reaches(m, n)
    BY <1>1 DEF Reaches
  <2>2. \A n : Mutual(n)' = Mutual(n) /\ Sources(n)' = Sources(n)
    BY <1>1, <2>1 DEF Mutual, Sources
  <2>3. components' = {Mutual(n)' : n \in Assigned'}
    <3>1. {Mutual(n) : n \in members} = {members}
      BY <1>1, <1>4
    <3>2. components \cup {members} = {Mutual(n) : n \in Assigned \cup members}
      BY <1>2, <3>1
    <3>. QED BY <1>1, <1>5, <2>2, <3>2
  <2>4. SourcesFinishLast'
    BY <1>1, <1>2, OrderStays
  <2>5. \A n \in Assigned' \cup members' : Sources(n)' \subseteq seen'
    BY <1>1, <1>2, <1>5, <2>2
  <2>. QED BY <1>1, <1>2, <1>3, <1>5, <2>3, <2>4, <2>5 DEF GatherInv
<1>7. Work' < Work
  <2>1. Work = 3 * Cardinality(Vertices \ seen) + 1 /\ Work' = 3 * Cardinality(Vertices \ seen)
    BY <1>1, <1>2 DEF Work
  <2>. QED BY <1>2, <2>1
<1>. QED BY <1>1, <1>6, <1>7, GatherInvSuffices DEF LessWork

\* When every node has its component, they are done.
LEMMA DoneStep ==
  ASSUME TraversalAssumption, TraversalInv, Done
  PROVE  TraversalInv' /\ LessWork
<1>1. adj' = adj /\ loop = "gather" /\ loop' = "done" /\ stack = <<>> /\ stack' = stack /\ members = {} /\ seen = Vertices
      /\ reached' = reached /\ finished' = finished /\ members' = members /\ components' = components /\ seen' = seen
  BY DEF Done
<1>2. DOMAIN stack = {}
  BY <1>1
<1>3. Current = {} /\ Current' = Current /\ Assigned' = Assigned
  BY <1>1, <1>2 DEF Current, Elems, Assigned
<1>4. GatherInv'
  <2>1. /\ finished \in Seq(Vertices) /\ Elems(finished) = Vertices /\ Distinct(finished)
        /\ SourcesFinishLast
        /\ stack \in Seq(Vertices) /\ Assigned \subseteq Vertices
        /\ components = {Mutual(n) : n \in Assigned}
        /\ seen = Assigned \cup Current
        /\ \A n \in Assigned \cup members : Sources(n) \subseteq seen
    BY <1>1, InThirdLoop
  <2>2. \A m, n : Reaches(m, n)' = Reaches(m, n)
    BY <1>1 DEF Reaches
  <2>3. \A n : Mutual(n)' = Mutual(n) /\ Sources(n)' = Sources(n)
    BY <1>1, <2>2 DEF Mutual, Sources
  <2>4. components' = {Mutual(n)' : n \in Assigned'}
    BY <1>1, <1>3, <2>1, <2>3
  <2>5. SourcesFinishLast'
    BY <1>1, <2>1, OrderStays
  <2>. QED BY <1>1, <1>3, <2>1, <2>3, <2>4, <2>5 DEF GatherInv
<1>5. TraversalInv'
  BY <1>1, <1>4, GatherInvSuffices
<1>. QED BY <1>1, <1>5 DEF LessWork

-----------------------------------------------------------------------------
(* The traversals: the theorem.                                            *)

\* The starts are pushed, backwards.
LEMMA TraversalStarts == ASSUME TraversalAssumption PROVE TraversalInit => TraversalInv
<1>1. SUFFICES ASSUME TraversalInit PROVE TraversalInv
  OBVIOUS
<1>2. adj \in [Vertices -> SUBSET Vertices] /\ Starts \in SUBSET Vertices
  BY <1>1 DEF TraversalInit, TraversalAssumption
<1>3. loop = "reach" /\ seen = {} /\ stack = Backwards(InOrder(Starts)) /\ reached = {} /\ finished = <<>> /\ members = {}
      /\ components = {}
  BY <1>1 DEF TraversalInit
<1>4. stack \in Seq(Vertices) /\ Elems(stack) = Starts
  BY <1>2, <1>3, Pushed
<1>5. IsFiniteSet(DOMAIN adj)
  BY <1>2 DEF TraversalAssumption
<1>6. Starts \subseteq Closure(adj, Starts)
  BY <1>5, ClosureIsLeast
<1>7. ReachInv
  BY <1>2, <1>3, <1>4, <1>6 DEF ReachInv
<1>. QED BY <1>2, <1>3, <1>7 DEF TraversalInv, ReachedIsReachable, FinishInv, GatherInv

\* Every step keeps the invariant and leaves less to do.
LEMMA TraversalStep ==
  ASSUME TraversalAssumption, TraversalInv, TraversalNext
  PROVE  TraversalInv' /\ LessWork
<1>1. CASE Discover
  BY <1>1, DiscoverStep
<1>2. CASE Reached
  BY <1>2, ReachedStep
<1>3. CASE VisitRoot
  BY <1>3, VisitRootStep
<1>4. CASE Visit
  BY <1>4, VisitNeighbourStep, VisitEndStep
<1>5. CASE Finished
  BY <1>5, FinishedStep
<1>6. CASE GatherRoot
  BY <1>6, GatherRootStep
<1>7. CASE Gather
  BY <1>7, GatherStep
<1>8. CASE Gathered
  BY <1>8, GatheredStep
<1>9. CASE Done
  BY <1>9, DoneStep
<1>. QED BY <1>1, <1>2, <1>3, <1>4, <1>5, <1>6, <1>7, <1>8, <1>9 DEF TraversalNext

\* What the invariant says of the results.
LEMMA TraversalResults ==
  ASSUME TraversalAssumption, TraversalInv
  PROVE  TraversalTypeOK /\ ReachedIsReachable /\ SourcesFinishLast /\ ComponentsAreMutual
<1>1. adj \in [Vertices -> SUBSET Vertices] /\ loop \in {"reach", "finish", "gather", "done"} /\ ReachedIsReachable
  BY DEF TraversalInv
<1>2. Graph /\ IsFiniteSet(Vertices) /\ Cardinality(Vertices) \in Nat
  BY <1>1, VerticesAre DEF Graph
<1>3. Closure(adj, Starts) \subseteq Vertices
  <2>1. IsFiniteSet(DOMAIN adj) /\ Closed(adj, Vertices) /\ Starts \subseteq Vertices
    BY <1>1 DEF TraversalAssumption, Closed
  <2>. QED BY <2>1, ClosureIsLeast
<1>4. seen \subseteq Vertices /\ reached \subseteq Vertices /\ members \subseteq Vertices
      /\ finished \in Seq(Vertices) /\ Distinct(finished)
  <2>1. CASE loop = "reach"
    <3>1. seen \subseteq Vertices /\ reached = seen /\ members = {} /\ finished = <<>>
      BY <1>3, <2>1 DEF TraversalInv, ReachInv
    <3>. QED BY <3>1 DEF Distinct
  <2>2. CASE loop = "finish"
    <3>1. seen \subseteq Vertices /\ members = {} /\ finished \in Seq(Vertices) /\ Distinct(finished)
      BY <2>2, InSecondLoop
    <3>. QED BY <1>1, <1>3, <2>2, <3>1 DEF ReachedIsReachable
  <2>3. CASE loop \in {"gather", "done"}
    <3>1. members \subseteq Vertices /\ finished \in Seq(Vertices) /\ Distinct(finished) /\ stack \in Seq(Vertices)
          /\ Assigned \subseteq Vertices /\ seen = Assigned \cup Current
      BY <2>3 DEF TraversalInv, GatherInv
    <3>2. DOMAIN stack = 1 .. Len(stack)
      BY <3>1
    <3>3. Elems(stack) \subseteq Vertices
      BY <3>1, <3>2 DEF Elems
    <3>. QED BY <1>1, <1>3, <2>3, <3>1, <3>3 DEF ReachedIsReachable, Current
  <2>. QED BY <1>1, <2>1, <2>2, <2>3
<1>5. \A i \in DOMAIN finished : finished[i] \in Vertices
  BY <1>4
<1>6. Len(finished) <= Cardinality(Vertices)
  <2> DEFINE n == Len(finished)
  <2>1. n \in Nat /\ DOMAIN finished = 1 .. n
    BY <1>4
  <2>2. finished \in Injection(1 .. n, Vertices)
    BY <1>4, <2>1 DEF Injection, IsInjective, Distinct
  <2> HIDE DEF n
  <2>3. Cardinality(1 .. n) = n
    BY <2>1, FS_Interval
  <2>4. Cardinality(1 .. n) <= Cardinality(Vertices)
    BY <1>2, <2>2, FS_Injection
  <2>. QED BY <2>3, <2>4 DEF n
<1>7. TraversalTypeOK
  BY <1>1, <1>4, <1>5, <1>6 DEF TraversalTypeOK
<1>8. SourcesFinishLast
  BY DEF TraversalInv, GatherInv, SourcesFinishLast
<1>9. ComponentsAreMutual
  <2>1. SUFFICES ASSUME loop = "done" PROVE components = {Mutual(n) : n \in Vertices}
    BY DEF ComponentsAreMutual, Mutual
  <2>2. components = {Mutual(n) : n \in Assigned} /\ seen = Assigned \cup Current /\ Current = {} /\ seen = Vertices
    BY <2>1 DEF TraversalInv, GatherInv
  <2>. QED BY <2>2
<1>. QED BY <1>1, <1>7, <1>8, <1>9

\* A state that stays keeps the invariant.
LEMMA TraversalStays == ASSUME TraversalInv, UNCHANGED traversalVars PROVE TraversalInv'
<1>1. adj' = adj /\ loop' = loop /\ seen' = seen /\ stack' = stack /\ reached' = reached /\ finished' = finished
      /\ members' = members /\ components' = components
  BY DEF traversalVars
<1>2. \A m, n : Reaches(m, n)' = Reaches(m, n)
  BY <1>1 DEF Reaches
<1>3. \A n : Mutual(n)' = Mutual(n) /\ Sources(n)' = Sources(n)
  BY <1>1, <1>2 DEF Mutual, Sources
<1>4. OnStack' = OnStack /\ Current' = Current /\ Assigned' = Assigned
  BY <1>1 DEF OnStack, Current, Assigned
<1>5. \A i : First(i)' = First(i) /\ Settled(i)' = Settled(i)
  BY <1>1, <1>3 DEF First, Settled
<1>6. SourcesFinishLast' = SourcesFinishLast
  BY <1>1, <1>2 DEF SourcesFinishLast
<1>7. ReachInv'
  BY <1>1 DEF TraversalInv, ReachInv
<1>8. FinishInv'
  BY <1>1, <1>4, <1>5 DEF TraversalInv, FinishInv
<1>9. GatherInv'
  BY <1>1, <1>2, <1>3, <1>4, <1>6 DEF TraversalInv, GatherInv
<1>. QED BY <1>1, <1>7, <1>8, <1>9 DEF TraversalInv, ReachedIsReachable

\* In every state of every traversal, of every graph: what was seen, what is on the stack and what is finished hold
\* together as the proofs of the results need.
THEOREM TraversalInvariant == ASSUME TraversalAssumption PROVE TraversalSpec => []TraversalInv
<1>1. TraversalInit => TraversalInv
  BY TraversalStarts
<1>2. TraversalInv /\ [TraversalNext]_traversalVars => TraversalInv'
  BY TraversalStep, TraversalStays
<1>. QED BY <1>1, <1>2, PTL DEF TraversalSpec

\* routing/algorithms.py: on every graph, self-edges and cycles included, every step of a traversal leaves less to do, so
\* the loops end; iterative_reachable returns what is reachable, and the components returned by
\* iterative_strongly_connected_components are the classes of nodes that reach each other.
THEOREM TraversalIsExactAlways == ASSUME TraversalAssumption PROVE TraversalSpec => TraversalIsExact
<1>1. TraversalInv => TraversalTypeOK /\ ReachedIsReachable /\ SourcesFinishLast /\ ComponentsAreMutual
  BY TraversalResults
<1>2. TraversalInv /\ [TraversalNext]_traversalVars => [LessWork]_traversalVars
  BY TraversalStep
<1>. QED BY <1>1, <1>2, TraversalInvariant, PTL DEF TraversalSpec, TraversalIsExact
=============================================================================
