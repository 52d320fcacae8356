---------------------------- MODULE Reachability -----------------------------
(***************************************************************************)
(* What is reachable in a graph, the reference for every traversal of the  *)
(* code: next gives the successors of the nodes it is defined on.          *)
(***************************************************************************)
EXTENDS Integers, FiniteSets

\* S and what follows from it, as many times as there are nodes to follow.
Closure(next, S) ==
    LET grow[i \in 0 .. Cardinality(DOMAIN next)] ==
            IF i = 0 THEN S
            ELSE LET found == grow[i - 1] IN found \cup UNION {next[n] : n \in found \cap DOMAIN next}
    IN  grow[Cardinality(DOMAIN next)]

\* Nothing in S leads out of S.
Closed(next, S) == \A n \in S \cap DOMAIN next : next[n] \subseteq S
=============================================================================
