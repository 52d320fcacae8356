------------------------- MODULE AtomicPublication -------------------------
(***************************************************************************)
(* What publishing promises, without directories, journals, locks, writers *)
(* or recovery: at most one publication is open at a time; while it is     *)
(* open the pointer is the old one, missing or the new one, and the stable *)
(* files of its plan turn into its own; it can only close when pointer and *)
(* files all are the new generation's.  A process death is no step here: a *)
(* publication that was opened is never taken back by one.  Other programs *)
(* may create stable files where there are none.                           *)
(***************************************************************************)
CONSTANTS Gens, Files, PlanOf, None, Foreign

VARIABLES
    committed,  \* immutable generations
    pending,    \* the generation whose publication is open
    current,    \* the generation named by the pointer
    stable      \* content of the stable files

vars == <<committed, pending, current, stable>>

Init ==
    /\ committed = {}
    /\ pending = None
    /\ current = None
    /\ stable \in [Files -> {None, Foreign}]

Commit(g) ==
    /\ committed' = committed \cup {g}
    /\ UNCHANGED <<pending, current, stable>>

Open(g) ==
    /\ pending = None
    /\ g \in committed
    /\ pending' = g
    /\ UNCHANGED <<committed, current, stable>>

Hide ==
    /\ pending # None
    /\ current' = None
    /\ UNCHANGED <<committed, pending, stable>>

Project(f) ==
    /\ pending # None
    /\ f \in PlanOf[pending]
    /\ stable' = [stable EXCEPT ![f] = pending]
    /\ UNCHANGED <<committed, pending, current>>

Reveal ==
    /\ pending # None
    /\ \A f \in PlanOf[pending] : stable[f] = pending
    /\ current' = pending
    /\ UNCHANGED <<committed, pending, stable>>

Close ==
    /\ pending # None
    /\ current = pending
    /\ \A f \in PlanOf[pending] : stable[f] = pending
    /\ pending' = None
    /\ UNCHANGED <<committed, current, stable>>

Intrude(f) ==
    /\ stable[f] = None
    /\ stable' = [stable EXCEPT ![f] = Foreign]
    /\ UNCHANGED <<committed, pending, current>>

Next ==
    \/ \E g \in Gens : Commit(g) \/ Open(g)
    \/ \E f \in Files : Project(f) \/ Intrude(f)
    \/ Hide
    \/ Reveal
    \/ Close

Spec == Init /\ [][Next]_vars

=============================================================================
