-------------------------- MODULE RoutingGraphProofs --------------------------
(***************************************************************************)
(* What a routing call returns and sends, what is recorded of its answers, *)
(* and what reconciliation and review make of a questionnaire's            *)
(* observations, for every document and every set of surveys, units,       *)
(* regions, items and observations, any number of changes by others and    *)
(* any sequence of decisions: RouterRun, ReviewAudit, RoutingEvidence.     *)
(***************************************************************************)
EXTENDS RouterRun, ReviewAudit, RoutingEvidence, SequenceTheorems, FiniteSetTheorems, WellFoundedInduction, TLAPS

-----------------------------------------------------------------------------
(* RouterRun.                                                              *)

\* The copy is the survey of the call; from the preparation on the document is the bound one; what was sent is of
\* that document, which then lacks complete native semantics; an output holds the copy and names the document.
IInv ==
    /\ copy \in [id : Ids, rest : {1}]
    /\ phase = "called" => document = NoFile
    /\ phase \in {"called", "converted", "prepared"} => asked = {}
    /\ phase = "asking" => document.native # "complete"
    /\ phase \in {"prepared", "asking", "graph"} => Bound
    /\ asked # {} => asked = {document.file} /\ Bound /\ document.native # "complete"
    /\ result.output # NoOutput =>
           /\ phase = "returned" /\ Bound
           /\ result.output.survey = copy /\ result.output.source = document.file

\* The invariant holds at the start.
LEMMA InitIInv == RouterInit => IInv
  BY DEF RouterInit, IInv, NoFile, NoResult, NoOutput

\* A failing call returns no output.
LEMMA FailHasNoOutput ==
  ASSUME NEW codes, Fail(codes)
  PROVE  phase' = "returned" /\ result'.output = NoOutput
  BY DEF Fail, Return, NoResult

\* Every step of the call and of others keeps the invariant.
LEMMA NextIInv == IInv /\ [RouterNext]_routerVars => IInv'
<1> SUFFICES ASSUME IInv, [RouterNext]_routerVars PROVE IInv'
  OBVIOUS
<1>1. CASE Convert
  <2>1. phase = "called" /\ asked = {} /\ asked' = asked /\ copy' = copy /\ binding' = binding
    BY <1>1 DEF Convert, IInv, others
  <2>2. CASE /\ \E code \in {"SOURCE_ERROR", "ROUTING_SOURCE_MISMATCH"} : Fail({code})
             /\ UNCHANGED <<others, copy, document, unlinked, asked, failed>>
    BY <2>1, <2>2, FailHasNoOutput DEF IInv
  <2>3. CASE phase' = "converted" /\ result' = result
    BY <2>1, <2>3 DEF IInv
  <2>. QED BY <1>1, <2>2, <2>3 DEF Convert
<1>2. CASE Prepare
  <2>1. phase = "converted" /\ UNCHANGED <<binding, copy, document, asked>>
    BY <1>2 DEF Prepare, others
  <2>2. Bound' = Bound
    BY <2>1 DEF Bound
  <2>3. CASE \E codes : Fail(codes)
    BY <2>1, <2>2, <2>3, FailHasNoOutput DEF IInv
  <2>4. CASE Bound /\ phase' \in {"raised", "prepared"} /\ result' = result
    BY <2>1, <2>2, <2>4 DEF IInv
  <2>. QED BY <1>2, <2>3, <2>4 DEF Prepare
<1>3. CASE ReconcileNative
  <2>1. phase = "prepared" /\ UNCHANGED <<binding, copy, document, asked>>
    BY <1>3 DEF ReconcileNative, others
  <2>2. Bound' = Bound
    BY <2>1 DEF Bound
  <2>3. CASE \E codes : Fail(codes)
    BY <2>1, <2>2, <2>3, FailHasNoOutput DEF IInv
  <2>4. CASE phase' = "graph" /\ result' = result
    BY <2>1, <2>2, <2>4 DEF IInv
  <2>. QED BY <1>3, <2>3, <2>4 DEF ReconcileNative
<1>4. CASE AskProvider
  <2>1. /\ phase = "prepared" /\ phase' = "asking" /\ document.native # "complete"
        /\ asked' = asked \cup {document.file} /\ UNCHANGED <<binding, copy, document, result>>
    BY <1>4 DEF AskProvider, others
  <2>. QED BY <2>1 DEF IInv, Bound
<1>5. CASE EndExtraction
  <2>1. phase = "asking" /\ UNCHANGED <<binding, copy, document, asked>>
    BY <1>5 DEF EndExtraction, others
  <2>2. Bound' = Bound
    BY <2>1 DEF Bound
  <2>3. CASE \E codes : Fail(codes)
    BY <2>1, <2>2, <2>3, FailHasNoOutput DEF IInv
  <2>4. CASE phase' \in {"raised", "graph"} /\ result' = result
    BY <2>1, <2>2, <2>4 DEF IInv
  <2>. QED BY <1>5, <2>3, <2>4 DEF EndExtraction
<1>6. CASE Assemble
  <2>1. phase = "graph" /\ Bound /\ UNCHANGED <<binding, copy, document, asked>>
    BY <1>6 DEF Assemble, others, IInv
  <2>2. Bound'
    BY <2>1 DEF Bound
  <2>3. CASE Fail({"ROUTING_GRAPH_INVALID"})
    BY <2>1, <2>2, <2>3, FailHasNoOutput DEF IInv
  <2>4. CASE Return([output |-> [survey |-> Routed, source |-> document.file], codes |-> Codes, failed |-> failed])
    <3>1. phase' = "returned" /\ result'.output.survey = copy /\ result'.output.source = document.file
      BY <2>4 DEF Return, Routed
    <3>. QED BY <2>1, <2>2, <3>1 DEF IInv
  <2>. QED BY <1>6, <2>3, <2>4 DEF Assemble
<1>7. CASE Cancel \/ EditSurvey \/ RewriteFile \/ UNCHANGED routerVars
  <2>1. UNCHANGED <<binding, copy, document, asked, result>> /\ (phase' = phase \/ (phase' = "cancelled" /\ phase # "returned"))
    BY <1>7 DEF Cancel, EditSurvey, RewriteFile, routerVars, others
  <2>. QED BY <2>1 DEF IInv, Bound
<1>. QED BY <1>1, <1>2, <1>3, <1>4, <1>5, <1>6, <1>7 DEF RouterNext

\* A routed survey is the one of the call, on the source its binding names (aroute, routing/pipeline.py).
THEOREM ResultIsOfTheCallAlways == RouterSpec => []ResultIsOfTheCall
<1>1. IInv => ResultIsOfTheCall
  BY DEF IInv, ResultIsOfTheCall, Returned, Bound
<1>. QED BY <1>1, InitIInv, NextIInv, PTL DEF RouterSpec

\* Nothing is sent of another source, and nothing at all when the native semantics are complete.
THEOREM NothingUnboundIsSentAlways == RouterSpec => []NothingUnboundIsSent
<1>1. IInv => NothingUnboundIsSent
  BY DEF IInv, NothingUnboundIsSent, Bound
<1>. QED BY <1>1, InitIInv, NextIInv, PTL DEF RouterSpec

-----------------------------------------------------------------------------
(* The status.                                                             *)

\* What failed to convert is kept until the result names it, and the result holds the codes of its document.
StatusInv ==
    /\ phase \in {"prepared", "asking", "graph"} => document.units \subseteq failed
    /\ result.output # NoOutput =>
           phase = "returned" /\ document.units \subseteq result.failed /\ result.codes = Codes

\* Every step of the call and of others keeps it.
LEMMA NextStatus == StatusInv /\ [RouterNext]_routerVars => StatusInv'
<1> SUFFICES ASSUME StatusInv, [RouterNext]_routerVars PROVE StatusInv'
  OBVIOUS
<1>0. ASSUME NEW codes, Fail(codes)
      PROVE  StatusInv'
  BY <1>0, FailHasNoOutput DEF StatusInv
<1>1. CASE Convert
  <2>1. CASE phase = "called" /\ phase' = "converted" /\ result' = result
    BY <2>1 DEF StatusInv
  <2>. QED BY <1>0, <1>1, <2>1 DEF Convert
<1>2. CASE Prepare
  <2>1. CASE phase = "converted" /\ phase' = "raised" /\ result' = result
    BY <2>1 DEF StatusInv
  <2>2. CASE /\ phase = "converted" /\ phase' = "prepared"
             /\ failed' = document.units /\ document' = document /\ result' = result
    BY <2>2 DEF StatusInv
  <2>. QED BY <1>0, <1>2, <2>1, <2>2 DEF Prepare
<1>3. CASE ReconcileNative
  <2>1. CASE phase = "prepared" /\ phase' = "graph" /\ UNCHANGED <<document, failed, result>>
    BY <2>1 DEF StatusInv
  <2>. QED BY <1>0, <1>3, <2>1 DEF ReconcileNative
<1>4. CASE AskProvider
  BY <1>4 DEF AskProvider, StatusInv
<1>5. CASE EndExtraction
  <2>1. CASE phase = "asking" /\ phase' = "raised" /\ result' = result
    BY <2>1 DEF StatusInv
  <2>2. CASE /\ phase = "asking" /\ phase' = "graph" /\ UNCHANGED <<document, result>>
             /\ \E regions \in SUBSET Regions : failed' = AllFailed(regions)
    BY <2>2 DEF AllFailed, StatusInv
  <2>. QED BY <1>0, <1>5, <2>1, <2>2 DEF EndExtraction
<1>6. CASE Assemble
  <2>1. CASE Return([output |-> [survey |-> Routed, source |-> document.file], codes |-> Codes, failed |-> failed])
    BY <1>6, <2>1 DEF Assemble, Return, Codes, StatusInv
  <2>. QED BY <1>0, <1>6, <2>1 DEF Assemble
<1>7. CASE Cancel \/ EditSurvey \/ RewriteFile \/ UNCHANGED routerVars
  BY <1>7 DEF Cancel, EditSurvey, RewriteFile, routerVars, others, Codes, StatusInv
<1>. QED BY <1>1, <1>2, <1>3, <1>4, <1>5, <1>6, <1>7 DEF RouterNext

\* A returned graph names every unit that could not be converted, and the status of the result tells of those, of
\* failed regions, of unlinked variables and of errors of the native source (_result_diagnostics, RoutingResult).
THEOREM StatusIsAsDocumentedAlways == RouterSpec => []StatusIsAsDocumented
<1>1. RouterInit => StatusInv
  BY DEF RouterInit, NoFile, NoResult, NoOutput, StatusInv
<1>2. StatusInv => StatusIsAsDocumented
  BY DEF StatusInv, StatusIsAsDocumented, Returned, Status, PartialCodes, Codes
<1>. QED BY <1>1, <1>2, NextStatus, PTL DEF RouterSpec

-----------------------------------------------------------------------------
(* ReviewAudit.  Claims divide the observations, so an edge with the       *)
(* evidence of a claim belongs to it: neither the source's edges nor those *)
(* of one decision merge with another's.  The decisions in force are about *)
(* different candidates, and each application makes the edges anew from    *)
(* the source's and theirs.                                                *)

\* A set of one member, with its cardinality.
LEMMA OneMember ==
  ASSUME NEW S, IsFiniteSet(S)
  PROVE  /\ Cardinality(S) = 1 <=> \E x : S = {x}
         /\ Cardinality(S) <= 1 <=> \A x, y \in S : x = y
<1>1. Cardinality(S) = 1 <=> \E x : S = {x}
  BY FS_Singleton
<1>2. Cardinality(S) = 0 <=> S = {}
  BY FS_EmptySet
<1>3. Cardinality(S) \in Nat
  BY FS_CardinalityType
<1>4. (\A x, y \in S : x = y) <=> S = {} \/ \E x : S = {x}
  OBVIOUS
<1> DEFINE c == Cardinality(S)
<1>5. c \in Nat /\ (c = 1 <=> \E x : S = {x}) /\ (c = 0 <=> S = {})
  BY <1>1, <1>2, <1>3
<1> HIDE DEF c
<1>6. c <= 1 <=> c = 0 \/ c = 1
  BY <1>5
<1>7. (c <= 1) <=> (\A x, y \in S : x = y)
  BY <1>4, <1>5, <1>6
<1>. QED BY <1>1, <1>7 DEF c

\* What reconciliation makes of the observations, when no two discrepancies share an identifier.
Reconciled ==
    LET C == Claims(evidence)
    IN  [built |-> TRUE, failed |-> FALSE, edges |-> Accepted(C),
         status |-> [c \in Candidates(C) |-> FirstStatus(c, C)],
         notes |-> [n \in {NoteId(d) : d \in Disputes(C)} |->
                       FirstNote(CHOOSE d \in Disputes(C) : NoteId(d) = n, C)],
         when |-> Agreed(stated), unclear |-> ActivationNotes(stated)]

Observed == evidence \subseteq Observations /\ stated \subseteq Activations /\ IsFiniteSet(stated) /\ when \in Applicable

\* A claim is the route of its observations, of which it has one at least.
IsClaim(c, E) ==
    /\ c = [src |-> c.src, tgt |-> c.tgt, kind |-> c.kind, cond |-> c.cond, fuzzy |-> c.fuzzy, seen |-> c.seen]
    /\ c.seen # {} /\ c.seen \subseteq E
    /\ \A o \in E : o \in c.seen <=> /\ o.src = c.src /\ o.tgt = c.tgt /\ o.kind = c.kind
                                     /\ o.cond = c.cond /\ o.fuzzy = c.fuzzy

\* A claim is the route of its observations, of which it has one at least.
LEMMA ClaimsAreRoutes ==
  ASSUME NEW E, NEW c \in Claims(E)
  PROVE  IsClaim(c, E)
<1>1. PICK p \in E : c = [src |-> p.src, tgt |-> p.tgt, kind |-> p.kind, cond |-> p.cond, fuzzy |-> p.fuzzy,
                          seen |-> {o \in E : Route(o) = Route(p)}]
  BY DEF Claims, Route
<1>2. \A o \in E : Route(o) = Route(p) <=> /\ o.src = p.src /\ o.tgt = p.tgt /\ o.kind = p.kind
                                           /\ o.cond = p.cond /\ o.fuzzy = p.fuzzy
  BY DEF Route
<1>. QED BY <1>1, <1>2 DEF IsClaim

\* Every observation is of one claim.
LEMMA OneClaimEach ==
  ASSUME NEW E
  PROVE  /\ \A o \in E : \E c \in Claims(E) : o \in c.seen
         /\ \A c, d \in Claims(E) : c.seen \cap d.seen # {} => c = d
<1>1. ASSUME NEW p \in E
      PROVE  \E c \in Claims(E) : p \in c.seen
  <2> DEFINE c == [src |-> p.src, tgt |-> p.tgt, kind |-> p.kind, cond |-> p.cond, fuzzy |-> p.fuzzy,
                   seen |-> {o \in E : Route(o) = Route(p)}]
  <2>1. c \in Claims(E) /\ p \in c.seen
    <3> DEFINE r == Route(p)
    <3>1. r \in {Route(o) : o \in E}
      OBVIOUS
    <3>2. r.src = p.src /\ r.tgt = p.tgt /\ r.kind = p.kind /\ r.cond = p.cond /\ r.fuzzy = p.fuzzy
      BY DEF Route
    <3> HIDE DEF r
    <3>3. [src |-> r.src, tgt |-> r.tgt, kind |-> r.kind, cond |-> r.cond, fuzzy |-> r.fuzzy,
           seen |-> {o \in E : Route(o) = r}] \in Claims(E)
      BY <3>1 DEF Claims
    <3>. QED BY <3>2, <3>3 DEF r
  <2>. QED BY <2>1
<1>2. ASSUME NEW c \in Claims(E), NEW d \in Claims(E), NEW o \in c.seen \cap d.seen
      PROVE  c = d
  <2>1. IsClaim(c, E) /\ IsClaim(d, E)
    BY ClaimsAreRoutes
  <2>2. o \in E
    BY <2>1 DEF IsClaim
  <2>3. c.src = d.src /\ c.tgt = d.tgt /\ c.kind = d.kind /\ c.cond = d.cond /\ c.fuzzy = d.fuzzy
    BY <2>1, <2>2 DEF IsClaim
  <2>4. c.seen = d.seen
    BY <2>1, <2>3 DEF IsClaim
  <2>. QED BY <2>1, <2>3, <2>4 DEF IsClaim
<1>. QED BY <1>1, <1>2

\* What it takes to have no issue.
LEMMA Undisputed ==
  ASSUME ReconciliationAssumption, evidence \subseteq Observations,
         NEW c \in Claims(evidence), Issues(c, Claims(evidence)) = {}
  PROVE  /\ c.tgt \in Items /\ c.cond \in Conditions \cup {Absent} /\ ~c.fuzzy
         /\ HasOutgoing(c)
         /\ c.kind # "sequential" => IsExplicit(c)
<1> DEFINE C == Claims(evidence)
<1>1. IsClaim(c, evidence)
  BY ClaimsAreRoutes
<1>2. LocalIssues(c) = {} /\ IncomingIssues(c, C) = {}
  BY DEF Issues
<1>3. \A o \in c.seen : o \in Transitions /\ WellFormed(o)
  BY <1>1 DEF IsClaim, ReconciliationAssumption
<1>4. PICK p \in c.seen : p \in Transitions /\ WellFormed(p)
  BY <1>1, <1>3 DEF IsClaim
<1>5. p.src = c.src /\ p.tgt = c.tgt /\ p.kind = c.kind /\ p.cond = c.cond /\ p.fuzzy = c.fuzzy
  BY <1>1, <1>4 DEF IsClaim
<1>6. ~(c.tgt = Ambiguous) /\ ~(c.tgt = Unknown) /\ ~c.fuzzy /\ ~(c.cond = Opaque) /\ ~(c.cond = Unresolved)
      /\ ~(c.kind # "sequential" /\ \E o \in c.seen : ~o.explicit /\ o.origin # "native")
  BY <1>2 DEF LocalIssues, When
<1>7. c.tgt \in Items /\ c.cond \in Conditions \cup {Absent}
  BY <1>4, <1>5, <1>6 DEF Transitions
<1>8. HasOutgoing(c)
  <2>1. ASSUME ~HasOutgoing(c)
        PROVE  FALSE
    <3>1. HasIncoming(c)
      BY <1>4, <2>1 DEF HasOutgoing, HasIncoming, Transitions, Origins
    <3>2. IncomingIssues(c, C) # {}
      BY <2>1, <3>1 DEF IncomingIssues, When
    <3>. QED BY <1>2, <3>2
  <2>. QED BY <2>1
<1>9. c.kind # "sequential" => IsExplicit(c)
  BY <1>3, <1>4, <1>6 DEF IsExplicit, WellFormed
<1>. QED BY <1>6, <1>7, <1>8, <1>9
-----------------------------------------------------------------------------
(* What is accepted, and what stays a candidate.                           *)

\* An accepted edge is an undisputed claim that was seen from its source.
LEMMA AcceptedEdge ==
  ASSUME NEW C, NEW e \in Accepted(C)
  PROVE  \E c \in C : /\ Issues(c, C) = {} /\ HasOutgoing(c)
                      /\ e = [src |-> c.src, tgt |-> c.tgt, kind |-> c.kind, cond |-> c.cond, prio |-> Priority(c),
                              seen |-> c.seen, review |-> 0]
  BY DEF Accepted, Edge

\* The kinds of routes an accepted edge may be beside.
LEMMA AcceptedPair ==
  ASSUME ReconciliationAssumption, evidence \subseteq Observations,
         NEW c \in Claims(evidence), Issues(c, Claims(evidence)) = {},
         NEW d \in Claims(evidence), Issues(d, Claims(evidence)) = {}, c # d, c.src = d.src
  PROVE  /\ Priority(c) = NoPriority \/ Priority(d) # Priority(c)
         /\ ~(c.kind = "default" /\ d.kind = "default")
         /\ ~(/\ c.kind = "sequential" /\ \A o \in c.seen : ~o.explicit
              /\ d.kind \in {"default", "unconditional"} /\ d.tgt # c.tgt)
<1> DEFINE C == Claims(evidence)
           siblings == {x \in C : x.src = c.src /\ x # c}
<1>1. OrderIssues(c, C) = {} /\ SequenceIssues(c, C) = {}
  BY DEF Issues
<1>2. d \in siblings
  OBVIOUS
<1>3. /\ When(c.kind = "default" /\ \E x \in siblings : x.kind = "default", "MULTIPLE_DEFAULTS") = {}
      /\ When(Priority(c) # NoPriority /\ \E x \in siblings : Priority(x) = Priority(c), "CONFLICTING_PRIORITY") = {}
  BY <1>1 DEF OrderIssues
<1> HIDE DEF siblings
<1>4. ~(c.kind = "default" /\ d.kind = "default")
  BY <1>2, <1>3 DEF When
<1>5. ~(Priority(c) # NoPriority /\ Priority(d) = Priority(c))
  BY <1>2, <1>3 DEF When
<1>6. ASSUME c.kind = "sequential", \A o \in c.seen : ~o.explicit,
             d.kind \in {"default", "unconditional"}, d.tgt # c.tgt
      PROVE  FALSE
  <2>1. ~IsExplicit(c) /\ c.tgt \in Items
    BY <1>6, Undisputed DEF IsExplicit
  <2>2. HasOutgoing(d) /\ IsExplicit(d)
    BY <1>6, Undisputed
  <2>3. When(\E x \in C : /\ x # c /\ x.src = c.src /\ x.tgt # c.tgt
                          /\ HasOutgoing(x) /\ IsExplicit(x)
                          /\ x.kind \in {"default", "sequential", "unconditional"}, "SEQUENTIAL_BYPASSED") = {}
    BY <1>1, <1>6, <2>1 DEF SequenceIssues
  <2>4. \E x \in C : /\ x # c /\ x.src = c.src /\ x.tgt # c.tgt
                     /\ HasOutgoing(x) /\ IsExplicit(x)
                     /\ x.kind \in {"default", "sequential", "unconditional"}
    BY <1>6, <2>2
  <2>. QED BY <2>3, <2>4 DEF When
<1>. QED BY <1>4, <1>5, <1>6

\* What is accepted, nobody disputes.
LEMMA FairEdges ==
  ASSUME ReconciliationAssumption, evidence \subseteq Observations, graph = Reconciled
  PROVE  AcceptedIsUndisputed
<1> DEFINE C == Claims(evidence)
<1>1. graph.edges = Accepted(C)
  BY DEF Reconciled
<1>2. ASSUME NEW e \in graph.edges
      PROVE  /\ \E o \in e.seen : o.origin # "incoming"
             /\ \A o \in e.seen : ~o.fuzzy
             /\ \A f \in graph.edges : f # e /\ f.src = e.src =>
                  /\ e.prio = NoPriority \/ f.prio # e.prio
                  /\ ~(e.kind = "default" /\ f.kind = "default")
                  /\ ~(/\ e.kind = "sequential" /\ \A o \in e.seen : ~o.explicit
                       /\ f.kind \in {"default", "unconditional"} /\ f.tgt # e.tgt)
  <2>1. PICK c \in C : /\ Issues(c, C) = {} /\ HasOutgoing(c)
                       /\ e = [src |-> c.src, tgt |-> c.tgt, kind |-> c.kind, cond |-> c.cond, prio |-> Priority(c),
                               seen |-> c.seen, review |-> 0]
    BY <1>1, <1>2, AcceptedEdge
  <2>2. \E o \in e.seen : o.origin # "incoming"
    BY <2>1 DEF HasOutgoing
  <2>3. ASSUME NEW o \in e.seen
        PROVE  ~o.fuzzy
    <3>1. IsClaim(c, evidence) /\ ~c.fuzzy
      BY <2>1, ClaimsAreRoutes, Undisputed
    <3>2. o \in evidence /\ o.fuzzy = c.fuzzy
      BY <2>1, <3>1 DEF IsClaim
    <3>. QED BY <3>1, <3>2
  <2>4. ASSUME NEW f \in graph.edges, f # e, f.src = e.src
        PROVE  /\ e.prio = NoPriority \/ f.prio # e.prio
               /\ ~(e.kind = "default" /\ f.kind = "default")
               /\ ~(/\ e.kind = "sequential" /\ \A o \in e.seen : ~o.explicit
                    /\ f.kind \in {"default", "unconditional"} /\ f.tgt # e.tgt)
    <3>1. PICK d \in C : /\ Issues(d, C) = {}
                         /\ f = [src |-> d.src, tgt |-> d.tgt, kind |-> d.kind, cond |-> d.cond, prio |-> Priority(d),
                                 seen |-> d.seen, review |-> 0]
      BY <1>1, AcceptedEdge
    <3>2. c # d /\ c.src = d.src
      BY <2>1, <2>4, <3>1
    <3>3. /\ Priority(c) = NoPriority \/ Priority(d) # Priority(c)
          /\ ~(c.kind = "default" /\ d.kind = "default")
          /\ ~(/\ c.kind = "sequential" /\ \A o \in c.seen : ~o.explicit
               /\ d.kind \in {"default", "unconditional"} /\ d.tgt # c.tgt)
      BY <2>1, <3>1, <3>2, AcceptedPair
    <3>. QED BY <2>1, <3>1, <3>3
  <2>. QED BY <2>2, <2>3, <2>4
<1>. QED BY <1>2 DEF AcceptedIsUndisputed

\* Each observation is of one edge or one candidate, and each candidate is in a discrepancy.
LEMMA FairEvidence ==
  ASSUME ReconciliationAssumption, evidence \subseteq Observations, graph = Reconciled
  PROVE  NothingVanishes
<1> DEFINE C == Claims(evidence)
<1>1. /\ graph.edges = Accepted(C) /\ DOMAIN graph.status = Candidates(C)
      /\ DOMAIN graph.notes = {NoteId(d) : d \in Disputes(C)}
  BY DEF Reconciled
<1>2. ASSUME NEW o \in evidence
      PROVE  Cardinality({e \in graph.edges : o \in e.seen}) + Cardinality({c \in DOMAIN graph.status : o \in c.seen}) = 1
  <2>1. PICK c \in C : o \in c.seen
    BY OneClaimEach
  <2>2. \A d \in C : o \in d.seen => d = c
    BY <2>1, OneClaimEach
  <2>3. CASE Issues(c, C) = {}
    <3>1. HasOutgoing(c)
      BY <2>3, Undisputed
    <3>2. Edge(c, c.seen, 0) \in Accepted(C) /\ Edge(c, c.seen, 0).seen = c.seen
      BY <2>3, <3>1 DEF Accepted, Edge
    <3>3. ASSUME NEW e \in Accepted(C), o \in e.seen
          PROVE  e = Edge(c, c.seen, 0)
      BY <2>2, <3>3 DEF Accepted, Edge
    <3>4. {e \in graph.edges : o \in e.seen} = {Edge(c, c.seen, 0)}
      BY <1>1, <2>1, <3>2, <3>3
    <3>5. {d \in DOMAIN graph.status : o \in d.seen} = {}
      BY <1>1, <2>2, <2>3 DEF Candidates
    <3>6. Cardinality({e \in graph.edges : o \in e.seen}) = 1
      BY <3>4, FS_Singleton
    <3>7. Cardinality({d \in DOMAIN graph.status : o \in d.seen}) = 0
      BY <3>5, FS_EmptySet
    <3>. QED BY <3>6, <3>7
  <2>4. CASE Issues(c, C) # {}
    <3>1. {e \in graph.edges : o \in e.seen} = {}
      BY <1>1, <2>2, <2>4 DEF Accepted, Edge
    <3>2. {d \in DOMAIN graph.status : o \in d.seen} = {c}
      BY <1>1, <2>1, <2>2, <2>4 DEF Candidates
    <3>3. Cardinality({e \in graph.edges : o \in e.seen}) = 0
      BY <3>1, FS_EmptySet
    <3>4. Cardinality({d \in DOMAIN graph.status : o \in d.seen}) = 1
      BY <3>2, FS_Singleton
    <3>. QED BY <3>3, <3>4
  <2>. QED BY <2>3, <2>4
<1>3. ASSUME NEW c \in DOMAIN graph.status
      PROVE  \E n \in DOMAIN graph.notes : c \in n[2]
  <2>1. c \in C /\ Issues(c, C) # {}
    BY <1>1 DEF Candidates
  <2>2. PICK i \in Issues(c, C) : TRUE
    BY <2>1
  <2> DEFINE d == [issue |-> i, cands |-> {x \in C : x.src = c.src /\ i \in Issues(x, C)}]
  <2>3. d \in Disputes(C) /\ c \in d.cands
    <3> DEFINE these == {[issue |-> k, cands |-> {x \in C : x.src = c.src /\ k \in Issues(x, C)}] : k \in Issues(c, C)}
    <3>1. d \in these
      OBVIOUS
    <3>2. these \in {{[issue |-> k, cands |-> {x \in C : x.src = y.src /\ k \in Issues(x, C)}] : k \in Issues(y, C)} : y \in C}
      BY <2>1
    <3> HIDE DEF these
    <3>3. d \in Disputes(C)
      BY <3>1, <3>2 DEF Disputes
    <3>4. c \in d.cands
      BY <2>1, <2>2
    <3>. QED BY <3>3, <3>4
  <2>4. d.cands = NoteId(d)[2] /\ NoteId(d) \in DOMAIN graph.notes
    BY <1>1, <2>3 DEF NoteId
  <2>. QED BY <2>3, <2>4
<1>. QED BY <1>2, <1>3 DEF NothingVanishes

\* A discrepancy is of candidates, one at least.
LEMMA DisputesAreOfCandidates ==
  ASSUME NEW C, NEW d \in Disputes(C)
  PROVE  d.cands # {} /\ d.cands \subseteq Candidates(C)
<1>1. PICK c \in C : \E i \in Issues(c, C) : d = [issue |-> i, cands |-> {x \in C : x.src = c.src /\ i \in Issues(x, C)}]
  BY DEF Disputes
<1>. QED BY <1>1 DEF Candidates

\* What reconciliation makes has its types.
LEMMA FairTypes ==
  ASSUME ReconciliationAssumption, evidence \subseteq Observations, graph = Reconciled
  PROVE  GraphTypeOK
<1> DEFINE C == Claims(evidence)
<1>1. ASSUME NEW e \in graph.edges
      PROVE  e.tgt \in Items /\ e.cond \in Conditions \cup {Absent} /\ e.seen # {}
  <2>1. PICK c \in C : /\ Issues(c, C) = {}
                       /\ e = [src |-> c.src, tgt |-> c.tgt, kind |-> c.kind, cond |-> c.cond, prio |-> Priority(c),
                               seen |-> c.seen, review |-> 0]
    BY <1>1, AcceptedEdge DEF Reconciled
  <2>2. c.tgt \in Items /\ c.cond \in Conditions \cup {Absent}
    BY <2>1, Undisputed
  <2>3. c.seen # {}
    BY ClaimsAreRoutes DEF IsClaim
  <2>. QED BY <2>1, <2>2, <2>3
<1>2. \A c \in DOMAIN graph.status : graph.status[c] \in {"agent", "human"}
  BY DEF Reconciled, FirstStatus
<1>3. ASSUME NEW n \in DOMAIN graph.notes
      PROVE  n[2] # {} /\ graph.notes[n].human \in BOOLEAN
  <2>1. PICK d \in Disputes(C) : n = NoteId(d)
    BY <1>3 DEF Reconciled
  <2>2. n[2] # {}
    BY <2>1, DisputesAreOfCandidates DEF NoteId
  <2> DEFINE first == CHOOSE x \in Disputes(C) : NoteId(x) = n
  <2>3. graph.notes[n] = FirstNote(first, C)
    BY <1>3 DEF Reconciled
  <2> HIDE DEF first
  <2>4. FirstNote(first, C).human \in BOOLEAN
    BY DEF FirstNote
  <2>. QED BY <2>2, <2>3, <2>4
<1>. QED BY <1>1, <1>2, <1>3 DEF GraphTypeOK

\* The conditions of applicability are those that all exact statements give.
LEMMA FairConditions ==
  ASSUME ReconciliationAssumption, Observed, graph = Reconciled
  PROVE  ApplicabilityIsAgreed
<1>1. graph.when = Agreed(stated) /\ graph.unclear = ActivationNotes(stated)
  BY DEF Reconciled
<1>2. ASSUME NEW i \in Items
      PROVE  i \notin Disagreed(stated) /\ Clear(stated, i) # {} => \A x, y \in Said(stated, i) : x = y
  <2> DEFINE said == {a.cond : a \in Clear(stated, i)}
             f == [a \in Clear(stated, i) |-> a.cond]
  <2>1. IsFiniteSet(Clear(stated, i))
    BY FS_Subset DEF Clear, Observed
  <2>2. f \in Surjection(Clear(stated, i), said)
    BY DEF Surjection
  <2>3. IsFiniteSet(said)
    BY <2>1, <2>2, FS_Surjection
  <2>4. IsFiniteSet({when[i]} \ {Absent})
    BY FS_Singleton, FS_Subset
  <2> HIDE DEF said
  <2>5. IsFiniteSet(said \cup ({when[i]} \ {Absent}))
    BY <2>3, <2>4, FS_Union
  <2>6. Said(stated, i) = said \cup ({when[i]} \ {Absent})
    BY DEF Said, said
  <2>7. Cardinality(Said(stated, i)) <= 1 <=> \A x, y \in Said(stated, i) : x = y
    BY <2>5, <2>6, OneMember
  <2>8. Cardinality(Said(stated, i)) \in Nat
    BY <2>5, <2>6, FS_CardinalityType
  <2>. QED BY <2>7, <2>8 DEF Disagreed
<1>3. ASSUME NEW i \in Items, when[i] # Absent
      PROVE  graph.when[i] = when[i]
  <2>1. CASE Clear(stated, i) # {} /\ i \notin Disagreed(stated)
    <3>1. when[i] \in Said(stated, i)
      BY <1>3 DEF Said
    <3>2. (CHOOSE k \in Said(stated, i) : TRUE) = when[i]
      BY <1>2, <2>1, <3>1
    <3>. QED BY <1>1, <2>1, <3>2 DEF Agreed
  <2>. QED BY <1>1, <2>1 DEF Agreed
<1>4. ASSUME NEW a \in stated
      PROVE  \/ a.item \in Items /\ ~a.fuzzy /\ graph.when[a.item] = a.cond
             \/ \E n \in graph.unclear : a \in n[2]
  <2>1. CASE Unclear(a) # Absent
    <3>1. <<Unclear(a), {a}>> \in graph.unclear
      BY <1>1, <2>1 DEF ActivationNotes
    <3>. QED BY <3>1
  <2>2. CASE Unclear(a) = Absent
    <3>1. a.item \in Items /\ ~a.fuzzy
      BY <2>2 DEF Unclear, Absent, Observed, ReconciliationAssumption, Statements
    <3>2. a \in Clear(stated, a.item)
      BY <2>2 DEF Clear
    <3>3. CASE a.item \in Disagreed(stated)
      <4>1. <<"ACTIVATION_CONFLICT", Clear(stated, a.item)>> \in graph.unclear
        BY <1>1, <3>3 DEF ActivationNotes
      <4>. QED BY <3>2, <4>1
    <3>4. CASE a.item \notin Disagreed(stated)
      <4>1. a.cond \in Said(stated, a.item)
        BY <3>2 DEF Said
      <4>2. (CHOOSE k \in Said(stated, a.item) : TRUE) = a.cond
        BY <1>2, <3>1, <3>2, <3>4, <4>1
      <4>3. graph.when[a.item] = a.cond
        BY <1>1, <3>1, <3>2, <3>4, <4>2 DEF Agreed
      <4>. QED BY <3>1, <4>3
    <3>. QED BY <3>3, <3>4
  <2>. QED BY <2>1, <2>2
<1>. QED BY <1>3, <1>4 DEF ApplicabilityIsAgreed

-----------------------------------------------------------------------------
(* Decisions, and the audit they make.                                     *)

\* A set of numbers that is not empty has a least one.
LEMMA LeastNatural ==
  ASSUME NEW T \in SUBSET Nat, T # {}
  PROVE  \E x \in T : \A y \in T : x <= y
<1>1. IsWellFoundedOn(OpToRel(<, Nat), Nat)
  BY NatLessThanWellFounded
<1>2. PICK x \in T : \A y \in T : ~ (<<y, x>> \in OpToRel(<, Nat))
  BY <1>1, WFMin
<1>3. \A y \in T : ~(y < x)
  BY <1>2 DEF OpToRel
<1>. QED BY <1>3

\* A set of numbers up to a bound that is not empty has a greatest one.
LEMMA Greatest ==
  ASSUME NEW n \in Nat, NEW T \in SUBSET (0 .. n), T # {}
  PROVE  \E x \in T : \A y \in T : y <= x
<1> DEFINE U == {k \in Nat : \A y \in T : y <= k}
<1>1. n \in U /\ U \in SUBSET Nat
  OBVIOUS
<1>2. PICK x \in U : \A y \in U : x <= y
  BY <1>1, LeastNatural
<1>3. \A y \in T : y <= x /\ y \in Nat
  BY <1>2
<1>4. CASE x \in T
  BY <1>3, <1>4
<1>5. CASE x \notin T
  <2>1. \A y \in T : y < x
    BY <1>2, <1>3, <1>5
  <2>2. PICK y \in T : y \in Nat /\ y < x
    BY <1>3, <2>1
  <2>3. x \in Nat /\ x # 0
    BY <1>2, <2>2
  <2>4. x - 1 \in U /\ x - 1 < x
    BY <1>3, <2>1, <2>3
  <2>. QED BY <1>2, <2>3, <2>4
<1>. QED BY <1>4, <1>5

\* The decisions that can be taken of candidates K about discrepancies in N.
VerdictsOf(K, N) ==
    UNION {UNION {UNION {Verdicts(M, S, over) : over \in Nat} : S \in (SUBSET K) \ {{}}} : M \in SUBSET N}

Actions == {"confirm", "reject", "unresolved", "replace"}

\* What a replacement is.
IsReplacement(r, K) ==
    \E c \in K : \E t \in Items : \E evid \in SUBSET EvidenceOf(K) :
        r = [src |-> c.src, tgt |-> t, kind |-> c.kind, cond |-> c.cond, prio |-> Priority(c), seen |-> evid, review |-> 0]

\* What a decision about given discrepancies and candidates says.
LEMMA VerdictShape ==
  ASSUME NEW N, NEW K, NEW over, NEW v \in Verdicts(N, K, over)
  PROVE  /\ v.notes = N /\ v.cands = K /\ v.over = over /\ v.action \in Actions
         /\ v.action = "replace" => IsReplacement(v.repl, K)
<1>1. CASE v \in {Decision(N, K, x.action, NoEdge, x.human, over) : x \in [action : {"confirm", "reject"}, human : BOOLEAN]}
  BY <1>1 DEF Decision, Actions
<1>2. CASE v = Decision(N, K, "unresolved", NoEdge, TRUE, over)
  BY <1>2 DEF Decision, Actions
<1>3. CASE v \in {Decision(N, K, "replace", r, FALSE, over) : r \in Replacements(K)}
  <2>1. PICK r \in Replacements(K) : v = Decision(N, K, "replace", r, FALSE, over)
    BY <1>3
  <2>2. IsReplacement(r, K)
    BY DEF Replacements, IsReplacement
  <2>. QED BY <2>1, <2>2 DEF Decision, Actions
<1>4. \/ v \in {Decision(N, K, x.action, NoEdge, x.human, over) : x \in [action : {"confirm", "reject"}, human : BOOLEAN]}
      \/ v = Decision(N, K, "unresolved", NoEdge, TRUE, over)
      \/ v \in {Decision(N, K, "replace", r, FALSE, over) : r \in Replacements(K)}
  <2> DEFINE A == {Decision(N, K, x.action, NoEdge, x.human, over) : x \in [action : {"confirm", "reject"}, human : BOOLEAN]}
             B == {Decision(N, K, "replace", r, FALSE, over) : r \in Replacements(K)}
  <2>1. v \in A \cup {Decision(N, K, "unresolved", NoEdge, TRUE, over)} \cup B
    BY DEF Verdicts
  <2> HIDE DEF A, B
  <2>2. v \in A \/ v = Decision(N, K, "unresolved", NoEdge, TRUE, over) \/ v \in B
    BY <2>1
  <2>. QED BY <2>2 DEF A, B
<1>. QED BY <1>1, <1>2, <1>3, <1>4

\* What a decision says.
LEMMA VerdictOf ==
  ASSUME NEW N, NEW K, NEW v \in VerdictsOf(K, N)
  PROVE  /\ v.notes \subseteq N /\ v.cands \subseteq K /\ v.cands # {} /\ v.over \in Nat /\ v.action \in Actions
         /\ v.action = "replace" => IsReplacement(v.repl, v.cands)
<1>1. PICK M \in SUBSET N : v \in UNION {UNION {Verdicts(M, S, over) : over \in Nat} : S \in (SUBSET K) \ {{}}}
  BY DEF VerdictsOf
<1>2. PICK S \in (SUBSET K) \ {{}} : v \in UNION {Verdicts(M, S, over) : over \in Nat}
  BY <1>1
<1>3. PICK over \in Nat : v \in Verdicts(M, S, over)
  BY <1>2
<1>. QED BY <1>2, <1>3, VerdictShape

\* The decisions in force are about different candidates, and whatever was decided still is by one of them.
AuditInv(D, K, N) ==
    /\ D \in Seq(VerdictsOf(K, N))
    /\ \A i \in DOMAIN D : D[i].over \in 0 .. Len(D)
    /\ \A i, j \in Active(D) : D[i].cands \cap D[j].cands # {} => i = j
    /\ \A i \in DOMAIN D : \E j \in Active(D) : D[j].cands = D[i].cands

Follows(E, D) == \A i \in DOMAIN D : i \in DOMAIN E /\ E[i] = D[i]

\* A decision about candidates nobody decided about, or in the place of one about the same.
LEMMA AuditGrows ==
  ASSUME NEW K, NEW N, NEW D, AuditInv(D, K, N),
         NEW M \in SUBSET N, NEW S \in SUBSET K, S # {}, NEW over, NEW v \in Verdicts(M, S, over),
         \/ over = 0 /\ \A i \in Active(D) : D[i].cands \cap S = {}
         \/ over \in Active(D) /\ D[over].cands = S
  PROVE  AuditInv(Append(D, v), K, N) /\ Follows(Append(D, v), D) /\ Append(D, v) # <<>>
<1> DEFINE E == Append(D, v)
           V == VerdictsOf(K, N)
           n == Len(D)
<1>1. D \in Seq(V) /\ n \in Nat /\ DOMAIN D = 1 .. n
  BY DEF AuditInv
<1>2. over \in Nat /\ over \in 0 .. n
  BY <1>1 DEF Active
<1>3. v \in V /\ v.cands = S /\ v.over = over
  <2>1. v \in UNION {Verdicts(M, S, o) : o \in Nat}
    BY <1>2
  <2>2. v \in UNION {UNION {Verdicts(M, Q, o) : o \in Nat} : Q \in (SUBSET K) \ {{}}}
    BY <2>1
  <2>3. v \in V
    BY <2>2 DEF VerdictsOf
  <2>. QED BY <2>3, VerdictShape
<1> HIDE DEF V
<1>4. E \in Seq(V) /\ Len(E) = n + 1 /\ DOMAIN E = 1 .. n + 1 /\ E[n + 1] = v /\ E # <<>> /\ \A i \in 1 .. n : E[i] = D[i]
  BY <1>1, <1>3
<1> HIDE DEF E, n
<1>5. DOMAIN E = DOMAIN D \cup {n + 1} /\ n + 1 \notin DOMAIN D /\ n + 1 # over /\ over # n + 1
  BY <1>1, <1>2, <1>4
<1>6. Superseded(E) = Superseded(D) \cup {over}
  BY <1>1, <1>3, <1>4, <1>5 DEF Superseded
<1>7. n + 1 \notin Superseded(D)
  <2>1. \A i \in DOMAIN D : D[i].over \in 0 .. n
    BY DEF AuditInv, n
  <2>2. \A i \in DOMAIN D : D[i].over # n + 1
    BY <1>1, <2>1
  <2>. QED BY <2>2 DEF Superseded
<1>8. Active(E) = (Active(D) \ {over}) \cup {n + 1}
  BY <1>5, <1>6, <1>7 DEF Active
<1>9. \A i \in Active(D) : i \in DOMAIN D /\ E[i] = D[i]
  BY <1>1, <1>4 DEF Active
<1>10. \A i \in DOMAIN E : E[i].over \in 0 .. Len(E)
  <2>1. \A i \in DOMAIN D : D[i].over \in 0 .. n
    BY DEF AuditInv, n
  <2>2. 0 .. n \subseteq 0 .. n + 1
    BY <1>1
  <2>. QED BY <1>1, <1>2, <1>3, <1>4, <1>5, <2>1, <2>2
<1>11. \A i \in Active(D) \ {over} : D[i].cands \cap S = {}
  BY DEF AuditInv
<1>12. \A i, j \in Active(E) : E[i].cands \cap E[j].cands # {} => i = j
  <2>1. \A i, j \in Active(D) : D[i].cands \cap D[j].cands # {} => i = j
    BY DEF AuditInv
  <2>2. E[n + 1].cands = S
    BY <1>3, <1>4
  <2>3. \A i \in Active(D) \ {over} : E[i].cands \cap S = {}
    BY <1>9, <1>11
  <2>. QED BY <1>8, <1>9, <2>1, <2>2, <2>3
<1>13. ASSUME NEW i \in DOMAIN E
       PROVE  \E j \in Active(E) : E[j].cands = E[i].cands
  <2>1. CASE i = n + 1
    BY <1>8, <2>1
  <2>2. CASE i \in DOMAIN D
    <3>1. PICK j \in Active(D) : D[j].cands = D[i].cands
      BY <2>2 DEF AuditInv
    <3>2. E[i] = D[i] /\ E[j] = D[j]
      BY <1>1, <1>4, <1>9, <2>2
    <3>3. CASE j # over
      BY <1>8, <3>1, <3>2, <3>3
    <3>4. CASE j = over
      <4>1. over # 0
        BY <1>1, <3>4 DEF Active
      <4>2. D[over].cands = S
        BY <4>1
      <4>3. E[n + 1].cands = E[i].cands
        BY <1>3, <1>4, <3>1, <3>2, <3>4, <4>2
      <4>. QED BY <1>8, <4>3
    <3>. QED BY <3>3, <3>4
  <2>. QED BY <1>5, <2>1, <2>2
<1>14. Follows(E, D)
  BY <1>1, <1>4, <1>5 DEF Follows
<1>. QED BY <1>4, <1>10, <1>12, <1>13, <1>14 DEF AuditInv, E, V

\* A response to a packet: each of its decisions is about new candidates or replaces the one about the same.
LEMMA DecideGrows ==
  ASSUME NEW K, NEW N, \A n \in N : n[2] \subseteq K, NEW D, AuditInv(D, K, N),
         NEW M \in SUBSET N, NEW E \in Decide(D, M)
  PROVE  AuditInv(E, K, N) /\ Follows(E, D) /\ E # <<>>
<1>1. PICK S \in (SUBSET CandidatesOf(M)) \ {{}} : /\ Chained(D, S)
                                                 /\ E \in {Append(D, v) : v \in Verdicts(M, S, Predecessor(D, S))}
  BY DEF Decide
<1>2. PICK v \in Verdicts(M, S, Predecessor(D, S)) : E = Append(D, v)
  BY <1>1
<1>3. S \in SUBSET K /\ S # {}
  BY <1>1 DEF CandidatesOf
<1>4. CASE Latest(D, S) = {}
  <2>1. Predecessor(D, S) = 0 /\ \A i \in Active(D) : D[i].cands \cap S = {}
    BY <1>4 DEF Predecessor, Latest
  <2>2. v \in Verdicts(M, S, 0)
    BY <1>2, <2>1
  <2>. QED BY <1>2, <1>3, <2>1, <2>2, AuditGrows
<1>5. CASE Latest(D, S) # {}
  <2>1. Predecessor(D, S) \in Latest(D, S)
    BY <1>5 DEF Predecessor
  <2>2. Predecessor(D, S) \in Active(D) /\ D[Predecessor(D, S)].cands = S
    BY <1>1, <2>1 DEF Chained, Latest
  <2> DEFINE p == Predecessor(D, S)
  <2>3. v \in Verdicts(M, S, p) /\ p \in Active(D) /\ D[p].cands = S
    BY <1>2, <2>2
  <2> HIDE DEF p
  <2>. QED BY <1>2, <1>3, <2>3, AuditGrows
<1>. QED BY <1>4, <1>5

\* A response has one decision or two.
LEMMA FollowedGrows ==
  ASSUME NEW K, NEW N, \A n \in N : n[2] \subseteq K, NEW D, AuditInv(D, K, N),
         NEW M \in SUBSET N, NEW parts \in Coverings(M), NEW E \in Followed(D, parts)
  PROVE  AuditInv(E, K, N) /\ Follows(E, D) /\ E # <<>>
<1>1. CASE parts = <<M>>
  <2>1. E \in Decide(D, M)
    BY <1>1 DEF Followed
  <2>. QED BY <2>1, DecideGrows
<1>2. ASSUME NEW P \in SUBSET M, parts = <<P, M \ P>>
      PROVE  AuditInv(E, K, N) /\ Follows(E, D) /\ E # <<>>
  <2>1. Len(parts) # 1 /\ parts[1] = P /\ parts[2] = M \ P
    BY <1>2
  <2>2. PICK F \in Decide(D, P) : E \in Decide(F, M \ P)
    BY <2>1 DEF Followed
  <2>3. P \in SUBSET N /\ M \ P \in SUBSET N
    OBVIOUS
  <2>4. AuditInv(F, K, N) /\ Follows(F, D)
    BY <2>2, <2>3, DecideGrows
  <2>5. AuditInv(E, K, N) /\ Follows(E, F) /\ E # <<>>
    BY <2>2, <2>3, <2>4, DecideGrows
  <2>. QED BY <2>4, <2>5 DEF Follows
<1>. QED BY <1>1, <1>2 DEF Coverings
-----------------------------------------------------------------------------
(* The edges made of the source's routes and the decisions in force.       *)

IsEdge(e) ==
    /\ e = [src |-> e.src, tgt |-> e.tgt, kind |-> e.kind, cond |-> e.cond, prio |-> e.prio,
            seen |-> e.seen, review |-> e.review]

Twins(b, E) == {f \in E : SameRoute(b, f) /\ b.prio = f.prio}

\* What merging makes of an edge b of E.
Merged(b, E) ==
    [b EXCEPT !.seen = UNION {f.seen : f \in Twins(b, E)},
              !.review = CHOOSE i \in {f.review : f \in Twins(b, E)} : \A f \in Twins(b, E) : f.review <= i]

\* Merging makes one edge of each edge and its twins.
LEMMA MergeIsOfEach ==
  ASSUME NEW E
  PROVE  Merge(E) = {Merged(b, E) : b \in E}
  BY DEF Merge, Merged, Twins

\* A merged edge has the route of the edge, all the evidence of its twins and the last of their decisions.
LEMMA MergedEdge ==
  ASSUME NEW n \in Nat, NEW E, \A e \in E : IsEdge(e) /\ e.review \in 0 .. n, NEW b \in E
  PROVE  /\ IsEdge(Merged(b, E)) /\ SameRoute(b, Merged(b, E)) /\ Merged(b, E).prio = b.prio
         /\ b.seen \subseteq Merged(b, E).seen /\ \A o \in Merged(b, E).seen : \E f \in Twins(b, E) : o \in f.seen
         /\ \E f \in Twins(b, E) : f.review = Merged(b, E).review
         /\ \A f \in Twins(b, E) : f.review <= Merged(b, E).review
<1> DEFINE T == Twins(b, E)
           reviews == {f.review : f \in T}
           seen == UNION {f.seen : f \in T}
           last == CHOOSE i \in reviews : \A f \in T : f.review <= i
<1>1. b \in T /\ T \subseteq E
  BY DEF Twins, SameRoute
<1>2. reviews \in SUBSET (0 .. n) /\ reviews # {}
  BY <1>1
<1>3. last \in reviews /\ \A f \in T : f.review <= last
  <2>1. PICK i \in reviews : \A k \in reviews : k <= i
    BY <1>2, Greatest
  <2>2. \A f \in T : f.review <= i
    BY <2>1
  <2>. QED BY <2>1, <2>2
<1>4. b.seen \subseteq seen
  BY <1>1
<1>5. Merged(b, E) = [b EXCEPT !.seen = seen, !.review = last]
  BY DEF Merged
<1> HIDE DEF seen, last
<1>6. Merged(b, E) = [src |-> b.src, tgt |-> b.tgt, kind |-> b.kind, cond |-> b.cond, prio |-> b.prio,
                      seen |-> seen, review |-> last]
  BY <1>5 DEF IsEdge
<1>7. IsEdge(Merged(b, E)) /\ SameRoute(b, Merged(b, E)) /\ Merged(b, E).prio = b.prio
      /\ Merged(b, E).seen = seen /\ Merged(b, E).review = last
  BY <1>6 DEF IsEdge, SameRoute
<1>8. (\E f \in T : f.review = last) /\ \A o \in seen : \E f \in T : o \in f.seen
  BY <1>3 DEF seen
<1>. QED BY <1>3, <1>4, <1>7, <1>8

\* The edges before they are merged: those of A, the source's, and those of the decisions in force.
Base(A, D) == A \cup UNION {Decided(D, i) : i \in Active(D)}

\* They are edges, and those that no decision added are the source's.
LEMMA BaseEdge ==
  ASSUME ReconciliationAssumption, evidence \subseteq Observations, NEW N, NEW D,
         AuditInv(D, Candidates(Claims(evidence)), N),
         \A i \in Active(D) : D[i].action = "confirm" => \A c \in D[i].cands : Exact(c),
         NEW b \in Base(Accepted(Claims(evidence)), D)
  PROVE  /\ IsEdge(b) /\ b.tgt \in Items /\ b.review \in 0 .. Len(D)
         /\ b.review = 0 => b \in Accepted(Claims(evidence))
         /\ b.review # 0 => b.review \in Active(D)
<1> DEFINE C == Claims(evidence)
           V == VerdictsOf(Candidates(C), N)
<1>1. Len(D) \in Nat /\ DOMAIN D = 1 .. Len(D) /\ D \in Seq(V)
  BY DEF AuditInv
<1>2. CASE b \in Accepted(C)
  <2>1. PICK c \in C : /\ Issues(c, C) = {}
                       /\ b = [src |-> c.src, tgt |-> c.tgt, kind |-> c.kind, cond |-> c.cond, prio |-> Priority(c),
                               seen |-> c.seen, review |-> 0]
    BY <1>2, AcceptedEdge
  <2>2. c.tgt \in Items
    BY <2>1, Undisputed
  <2>. QED BY <1>1, <1>2, <2>1, <2>2 DEF IsEdge
<1>3. ASSUME NEW i \in Active(D), b \in Decided(D, i)
      PROVE  IsEdge(b) /\ b.tgt \in Items /\ b.review = i
  <2>1. CASE D[i].action = "confirm"
    <3>1. PICK c \in D[i].cands : b = Edge(c, c.seen, i)
      BY <1>3, <2>1 DEF Decided
    <3>2. c.tgt \in Items
      BY <2>1 DEF Exact
    <3>. QED BY <3>1, <3>2 DEF Edge, IsEdge
  <2>2. CASE D[i].action = "replace"
    <3>1. b = [D[i].repl EXCEPT !.review = i]
      BY <1>3, <2>2 DEF Decided
    <3>2. D[i] \in V
      BY <1>1 DEF Active
    <3>3. IsReplacement(D[i].repl, D[i].cands)
      BY <2>2, <3>2, VerdictOf
    <3>. QED BY <3>1, <3>3 DEF IsReplacement, IsEdge
  <2>. QED BY <1>3, <2>1, <2>2 DEF Decided
<1>4. \A i \in Active(D) : i \in 1 .. Len(D) /\ i # 0 /\ i \in 0 .. Len(D)
  BY <1>1 DEF Active
<1>. QED BY <1>2, <1>3, <1>4 DEF Base

\* A supported edge with a decision has the evidence of the candidates that were decided, and of no other claim.
LEMMA Owned ==
  ASSUME NEW N, NEW D, AuditInv(D, Candidates(Claims(evidence)), N),
         NEW m, m.review \in Active(D), Supported(m, D),
         NEW c \in Claims(evidence), c.seen \subseteq m.seen
  PROVE  /\ c \in D[m.review].cands
         /\ D[m.review].action = "confirm" => m.seen = c.seen
         /\ D[m.review].action \in {"confirm", "replace"}
<1> DEFINE C == Claims(evidence)
           j == m.review
           V == VerdictsOf(Candidates(C), N)
<1>1. Len(D) \in Nat /\ DOMAIN D = 1 .. Len(D) /\ D \in Seq(V)
  BY DEF AuditInv
<1>2. D[j] \in V /\ j # 0
  BY <1>1 DEF Active
<1>3. /\ D[j].cands \subseteq C
      /\ D[j].action = "replace" => IsReplacement(D[j].repl, D[j].cands)
  BY <1>2, VerdictOf DEF Candidates
<1>4. PICK o : o \in c.seen
  BY ClaimsAreRoutes DEF IsClaim
<1>5. \A d \in C : o \in d.seen => d = c
  BY <1>4, OneClaimEach
<1>6. CASE /\ D[j].action = "confirm"
           /\ Cardinality({d \in D[j].cands :
                 Exact(d) /\ SameRoute(d, m) /\ d.seen = m.seen /\ Priority(d) = m.prio}) = 1
  <2>1. PICK d \in D[j].cands : d.seen = m.seen
    BY <1>6, FS_EmptySet
  <2>2. d = c
    BY <1>3, <1>4, <1>5, <2>1
  <2>. QED BY <1>6, <2>1, <2>2
<1>7. CASE D[j].action = "replace" /\ m = [D[j].repl EXCEPT !.review = j]
  <2> DEFINE r == D[j].repl
  <2>1. PICK x \in D[j].cands : \E t \in Items : \E evid \in SUBSET EvidenceOf(D[j].cands) :
           r = [src |-> x.src, tgt |-> t, kind |-> x.kind, cond |-> x.cond, prio |-> Priority(x), seen |-> evid,
                review |-> 0]
    BY <1>3, <1>7 DEF IsReplacement
  <2>2. r = [src |-> r.src, tgt |-> r.tgt, kind |-> r.kind, cond |-> r.cond, prio |-> r.prio, seen |-> r.seen,
             review |-> 0] /\ r.seen \subseteq EvidenceOf(D[j].cands)
    BY <2>1
  <2>3. \E k : m = [r EXCEPT !.review = k]
    BY <1>7
  <2> HIDE DEF r
  <2>4. m.seen \subseteq EvidenceOf(D[j].cands)
    BY <2>2, <2>3
  <2>5. PICK d \in D[j].cands : o \in d.seen
    BY <1>4, <2>4 DEF EvidenceOf
  <2>6. d = c
    BY <1>3, <1>5, <2>5
  <2>. QED BY <1>7, <2>5, <2>6
<1>. QED BY <1>2, <1>6, <1>7 DEF Supported
\* An edge of the source has the evidence of a claim nobody disputes, and no decision's edge is its twin.
LEMMA SourceEdgeStays ==
  ASSUME ReconciliationAssumption, evidence \subseteq Observations, NEW N, NEW D,
         AuditInv(D, Candidates(Claims(evidence)), N),
         \A i \in Active(D) : D[i].action = "confirm" => \A c \in D[i].cands : Exact(c),
         NEW a \in Accepted(Claims(evidence)),
         Supported(Merged(a, Base(Accepted(Claims(evidence)), D)), D)
  PROVE  Merged(a, Base(Accepted(Claims(evidence)), D)) = a
<1> DEFINE C == Claims(evidence)
           E == Base(Accepted(C), D)
           n == Len(D)
           V == VerdictsOf(Candidates(C), N)
           m == Merged(a, E)
           T == Twins(a, E)
<1>1. n \in Nat /\ D \in Seq(V) /\ DOMAIN D = 1 .. n
  BY DEF AuditInv
<1>2. \A b \in E : /\ IsEdge(b) /\ b.review \in 0 .. n
                   /\ b.review = 0 => b \in Accepted(C)
                   /\ b.review # 0 => b.review \in Active(D)
  BY BaseEdge
<1>3. a \in E
  BY DEF Base
<1> HIDE DEF n, E
<1>4. /\ IsEdge(m) /\ SameRoute(a, m) /\ m.prio = a.prio
      /\ a.seen \subseteq m.seen /\ \A o \in m.seen : \E f \in T : o \in f.seen
      /\ \E f \in T : f.review = m.review
      /\ \A f \in T : f.review <= m.review
  BY <1>1, <1>2, <1>3, MergedEdge
<1>5. PICK c \in C : /\ Issues(c, C) = {}
                     /\ a = [src |-> c.src, tgt |-> c.tgt, kind |-> c.kind, cond |-> c.cond, prio |-> Priority(c),
                             seen |-> c.seen, review |-> 0]
  BY AcceptedEdge
<1> HIDE DEF m
<1>6. m.review = 0
  <2>1. SUFFICES ASSUME m.review # 0 PROVE FALSE
    OBVIOUS
  <2>2. m.review \in Active(D) /\ Supported(m, D)
    BY <1>2, <1>4, <2>1 DEF Twins, m, E
  <2>3. c \in D[m.review].cands
    BY <1>4, <1>5, <2>2, Owned
  <2>4. D[m.review] \in V
    BY <1>1, <2>2 DEF Active
  <2>5. D[m.review].cands \subseteq Candidates(C)
    BY <2>4, VerdictOf
  <2>. QED BY <1>5, <2>3, <2>5 DEF Candidates
<1>7. \A f \in T : f = a
  <2>1. SUFFICES ASSUME NEW f \in T PROVE f = a
    OBVIOUS
  <2>2. f \in E /\ f.review <= 0 /\ f.review \in 0 .. n
    BY <1>2, <1>4, <1>6 DEF Twins
  <2>3. f.review = 0
    BY <1>1, <2>2
  <2>4. PICK d \in C : /\ Issues(d, C) = {}
                       /\ f = [src |-> d.src, tgt |-> d.tgt, kind |-> d.kind, cond |-> d.cond, prio |-> Priority(d),
                               seen |-> d.seen, review |-> 0]
    BY <1>2, <2>2, <2>3, AcceptedEdge
  <2>5. ~c.fuzzy /\ ~d.fuzzy
    BY <1>5, <2>4, Undisputed
  <2>6. c.src = d.src /\ c.tgt = d.tgt /\ c.kind = d.kind /\ c.cond = d.cond
    BY <1>5, <2>1, <2>4 DEF Twins, SameRoute
  <2>7. IsClaim(c, evidence) /\ IsClaim(d, evidence)
    BY ClaimsAreRoutes
  <2>8. c.seen = d.seen
    <3>1. PICK p \in c.seen : p \in evidence /\ p.fuzzy = c.fuzzy
      BY <2>7 DEF IsClaim
    <3>2. PICK q \in d.seen : q \in evidence /\ q.fuzzy = d.fuzzy
      BY <2>7 DEF IsClaim
    <3>3. p.fuzzy \in BOOLEAN /\ q.fuzzy \in BOOLEAN
      BY <3>1, <3>2 DEF ReconciliationAssumption, Transitions
    <3>4. c.fuzzy = FALSE /\ d.fuzzy = FALSE
      BY <2>5, <3>1, <3>2, <3>3, Zenon
    <3>. QED BY <2>6, <2>7, <3>4 DEF IsClaim
  <2>9. c = d
    BY <2>7, <2>8, OneClaimEach DEF IsClaim
  <2>. QED BY <1>5, <2>4, <2>9
<1>8. T = {a}
  BY <1>4, <1>7
<1>9. m.seen = a.seen
  BY <1>4, <1>8
<1>10. a.review = 0
  BY <1>5
<1>11. IsEdge(a)
  BY <1>2, <1>3
<1>12. m = a
  BY <1>4, <1>6, <1>9, <1>10, <1>11 DEF IsEdge, SameRoute
<1>. QED BY <1>12 DEF m, E

\* With an audit that is acceptable the source's edges are there as they are, every other is by a decision in force,
\* and each leads to an item.
LEMMA EdgesMade ==
  ASSUME ReconciliationAssumption, evidence \subseteq Observations, Kept = Accepted(Claims(evidence)), NEW N, NEW D,
         AuditInv(D, Candidates(Claims(evidence)), N), Acceptable(D)
  PROVE  /\ {e \in EdgesOf(D) : e.review = 0} = Accepted(Claims(evidence))
         /\ \A e \in EdgesOf(D) : /\ e.tgt \in Items /\ e.review \in 0 .. Len(D)
                                  /\ e.review # 0 => e.review \in Active(D)
         /\ \A b \in Base(Accepted(Claims(evidence)), D) : \E e \in EdgesOf(D) :
               SameRoute(b, e) /\ b.seen \subseteq e.seen /\ b.review <= e.review
<1> DEFINE C == Claims(evidence)
           n == Len(D)
           E == Base(Accepted(C), D)
<1>1. n \in Nat
  BY DEF AuditInv
<1>2. \A i \in Active(D) : D[i].action = "confirm" => \A c \in D[i].cands : Exact(c)
  BY DEF Acceptable
<1>3. \A b \in E : /\ IsEdge(b) /\ b.tgt \in Items /\ b.review \in 0 .. n
                   /\ b.review = 0 => b \in Accepted(C)
                   /\ b.review # 0 => b.review \in Active(D)
  BY <1>2, BaseEdge
<1>4. EdgesOf(D) = {Merged(b, E) : b \in E}
  BY MergeIsOfEach DEF EdgesOf, Base
<1>5. \A e \in EdgesOf(D) : Supported(e, D)
  BY DEF Acceptable
<1> HIDE DEF n, E
<1>6. ASSUME NEW b \in E
      PROVE  /\ SameRoute(b, Merged(b, E)) /\ b.seen \subseteq Merged(b, E).seen
             /\ \E f \in Twins(b, E) : f.review = Merged(b, E).review
             /\ \A f \in Twins(b, E) : f.review <= Merged(b, E).review
  BY <1>1, <1>3, MergedEdge
<1>7. ASSUME NEW a \in Accepted(C)
      PROVE  a \in EdgesOf(D) /\ Merged(a, E) = a /\ a.review = 0
  <2>1. a \in E /\ a.review = 0
    BY AcceptedEdge DEF E, Base
  <2>2. Merged(a, E) \in EdgesOf(D)
    BY <1>4, <2>1
  <2>3. Merged(a, E) = a
    BY <1>2, <1>5, <2>2, SourceEdgeStays DEF E
  <2>. QED BY <2>1, <2>2, <2>3
<1>8. ASSUME NEW e \in EdgesOf(D)
      PROVE  /\ e.tgt \in Items /\ e.review \in 0 .. n
             /\ e.review # 0 => e.review \in Active(D)
             /\ e.review = 0 => e \in Accepted(C)
  <2>1. PICK b \in E : e = Merged(b, E)
    BY <1>4
  <2>2. SameRoute(b, e) /\ b.tgt \in Items
    BY <1>3, <1>6, <2>1
  <2>3. PICK f \in Twins(b, E) : f.review = e.review
    BY <1>6, <2>1
  <2>4. f \in E
    BY DEF Twins
  <2>5. ASSUME e.review = 0
        PROVE  e \in Accepted(C)
    <3>1. b \in Twins(b, E)
      BY DEF Twins, SameRoute
    <3>2. b.review <= 0 /\ b.review \in 0 .. n
      BY <1>3, <1>6, <2>1, <2>5, <3>1
    <3>3. b.review = 0
      BY <1>1, <3>2
    <3>4. b \in Accepted(C)
      BY <1>3, <3>3
    <3>. QED BY <1>7, <2>1, <3>4
  <2>. QED BY <1>3, <2>2, <2>3, <2>4, <2>5 DEF SameRoute
<1>9. ASSUME NEW b \in E
      PROVE  \E e \in EdgesOf(D) : SameRoute(b, e) /\ b.seen \subseteq e.seen /\ b.review <= e.review
  <2>1. Merged(b, E) \in EdgesOf(D)
    BY <1>4
  <2>2. b \in Twins(b, E)
    BY DEF Twins, SameRoute
  <2>. QED BY <1>6, <2>1, <2>2
<1>10. {e \in EdgesOf(D) : e.review = 0} = Accepted(C)
  BY <1>7, <1>8
<1>. QED BY <1>8, <1>9, <1>10 DEF n, E
\* Among some decisions there is a last one, if there is any.
LEMMA LastIsOne ==
  ASSUME NEW n \in Nat, NEW I \in SUBSET (1 .. n)
  PROVE  /\ I = {} => LastOf(I) = 0
         /\ I # {} => LastOf(I) \in I
<1>1. I \in SUBSET (0 .. n) /\ \A i \in I : i # 0
  OBVIOUS
<1>2. ASSUME I # {}
      PROVE  LastOf(I) \in I
  <2>1. PICK x \in I : \A y \in I : y <= x
    BY <1>1, <1>2, Greatest
  <2>. QED BY <2>1 DEF LastOf
<1>. QED BY <1>2 DEF LastOf

\* The decisions in force about a candidate.
About(c, D) == {j \in Active(D) : c \in D[j].cands}

\* A candidate is marked accepted by the decision that confirms it; its edge then is not another's.
LEMMA AcceptedMarks ==
  ASSUME ReconciliationAssumption, evidence \subseteq Observations, Kept = Accepted(Claims(evidence)), NEW N, NEW D,
         AuditInv(D, Candidates(Claims(evidence)), N), Acceptable(D), NEW c \in Candidates(Claims(evidence)),
         About(c, D) = {} => graph.status[c] \in {"agent", "human"}
  PROVE  StatusOf(c, D) = "accepted" <=>
            \E e \in EdgesOf(D) : /\ e.review # 0 /\ SameRoute(c, e) /\ e.seen = c.seen
                                  /\ D[e.review].action = "confirm" /\ c \in D[e.review].cands
<1> DEFINE C == Claims(evidence)
           n == Len(D)
           I == About(c, D)
<1>1. n \in Nat /\ DOMAIN D = 1 .. n /\ c \in C
  BY DEF AuditInv, Candidates
<1>2. I \in SUBSET (1 .. n) /\ \A i, j \in I : i = j
  <2>1. \A i, j \in Active(D) : D[i].cands \cap D[j].cands # {} => i = j
    BY DEF AuditInv
  <2>. QED BY <1>1, <2>1 DEF About, Active
<1> HIDE DEF n
<1>3. (I = {} => LastOf(I) = 0) /\ (I # {} => LastOf(I) \in I)
  BY <1>1, <1>2, LastIsOne
<1>4. StatusOf(c, D) = IF LastOf(I) = 0 THEN graph.status[c]
                       ELSE CASE D[LastOf(I)].action = "confirm" -> "accepted"
                              [] D[LastOf(I)].action = "unresolved" -> "human"
                              [] OTHER -> "rejected"
  BY DEF StatusOf, About
<1>5. ASSUME NEW e \in EdgesOf(D), e.review # 0, D[e.review].action = "confirm", c \in D[e.review].cands
      PROVE  StatusOf(c, D) = "accepted"
  <2>1. e.review \in Active(D)
    BY <1>5, EdgesMade
  <2>2. LastOf(I) = e.review
    BY <1>2, <1>3, <1>5, <2>1 DEF About
  <2>. QED BY <1>4, <1>5, <2>2
<1>6. ASSUME StatusOf(c, D) = "accepted"
      PROVE  \E e \in EdgesOf(D) : /\ e.review # 0 /\ SameRoute(c, e) /\ e.seen = c.seen
                                   /\ D[e.review].action = "confirm" /\ c \in D[e.review].cands
  <2>1. I # {}
    <3>1. SUFFICES ASSUME I = {} PROVE FALSE
      OBVIOUS
    <3>2. StatusOf(c, D) \in {"agent", "human"}
      BY <1>3, <1>4, <3>1
    <3>. QED BY <1>6, <3>2
  <2> DEFINE j == LastOf(I)
  <2>2. j \in I /\ j \in 1 .. n /\ j \in Active(D) /\ c \in D[j].cands
    BY <1>2, <1>3, <2>1 DEF About
  <2>3. D[j].action = "confirm"
    BY <1>1, <1>4, <1>6, <2>2
  <2> HIDE DEF j
  <2>4. Edge(c, c.seen, j) \in Base(Accepted(C), D)
    BY <2>2, <2>3 DEF Base, Decided
  <2>5. PICK e \in EdgesOf(D) : SameRoute(c, e) /\ c.seen \subseteq e.seen /\ j <= e.review
    <3>1. PICK e \in EdgesOf(D) : /\ SameRoute(Edge(c, c.seen, j), e) /\ Edge(c, c.seen, j).seen \subseteq e.seen
                                  /\ Edge(c, c.seen, j).review <= e.review
      BY <2>4, EdgesMade
    <3>. QED BY <3>1 DEF Edge, SameRoute
  <2>6. e.review \in 0 .. n /\ (e.review # 0 => e.review \in Active(D))
    BY EdgesMade DEF n
  <2>7. e.review # 0 /\ e.review \in Active(D)
    BY <1>1, <2>2, <2>5, <2>6
  <2>8. Supported(e, D)
    BY DEF Acceptable
  <2>9. /\ c \in D[e.review].cands
        /\ D[e.review].action = "confirm" => e.seen = c.seen
    BY <1>1, <2>5, <2>7, <2>8, Owned
  <2>10. e.review = j
    BY <1>2, <2>2, <2>7, <2>9 DEF About
  <2>. QED BY <2>3, <2>5, <2>7, <2>9, <2>10
<1>. QED BY <1>5, <1>6

-----------------------------------------------------------------------------
(* The invariant: what the graph has is the source's and the decisions'.   *)

IsGraph(g) ==
    g = [built |-> g.built, failed |-> g.failed, edges |-> g.edges, status |-> g.status, notes |-> g.notes,
         when |-> g.when, unclear |-> g.unclear]

\* A built graph with the audit so far, of the claims C.
BuiltInv(C) ==
    /\ IsGraph(graph)
    /\ DOMAIN graph.status = Candidates(C)
    /\ \A n \in DOMAIN graph.notes :
          /\ n[2] \subseteq Candidates(C)
          /\ graph.notes[n] = [human |-> graph.notes[n].human, by |-> graph.notes[n].by]
    /\ AuditInv(decisions, Candidates(C), DOMAIN graph.notes)
    /\ Kept = Accepted(C)
    /\ \A c \in Candidates(C) : (\A i \in DOMAIN decisions : c \notin decisions[i].cands)
                                    => graph.status[c] \in {"agent", "human"}

GraphInv ==
    /\ Observed
    /\ ~graph.built => decisions = <<>>
    /\ graph.built /\ decisions = <<>> => graph = Reconciled
    /\ graph.built => BuiltInv(Claims(evidence)) /\ ReviewIsInForce

\* Nothing changes that the invariant is about.
LEMMA GraphStutter ==
  ASSUME GraphInv, UNCHANGED graphVars, decisions' = decisions
  PROVE  GraphInv'
<1>1. UNCHANGED <<evidence, stated, when, graph, decisions>>
  BY DEF graphVars
<1>2. Observed' = Observed
  BY <1>1 DEF Observed
<1>3. Reconciled' = Reconciled
  <2>1. ASSUME NEW i
        PROVE  Said(stated, i)' = Said(stated, i)
    BY <1>1 DEF Said
  <2>2. Disagreed(stated)' = Disagreed(stated)
    BY <1>1, <2>1 DEF Disagreed
  <2>3. Agreed(stated)' = Agreed(stated)
    BY <1>1 DEF Agreed, Disagreed, Said
  <2>4. ActivationNotes(stated)' = ActivationNotes(stated)
    BY <1>1, <2>2 DEF ActivationNotes
  <2>. QED BY <1>1, <2>3, <2>4 DEF Reconciled
<1>4. Kept' = Kept
  BY <1>1 DEF Kept
<1>5. BuiltInv(Claims(evidence))' <=> BuiltInv(Claims(evidence))
  BY <1>1, <1>4 DEF BuiltInv
<1>6. ReviewTypeOK' <=> ReviewTypeOK
  BY <1>1 DEF ReviewTypeOK
<1>7. (SourceRoutesStay' <=> SourceRoutesStay) /\ (OneDefault' <=> OneDefault)
  BY <1>1 DEF SourceRoutesStay, OneDefault
<1>8. ReviewedRoutesAreDecided' <=> ReviewedRoutesAreDecided
  BY <1>1 DEF ReviewedRoutesAreDecided
<1>9. ResolutionIsCurrent' <=> ResolutionIsCurrent
  BY <1>1 DEF ResolutionIsCurrent
<1>. QED BY <1>1, <1>2, <1>3, <1>5, <1>6, <1>7, <1>8, <1>9 DEF GraphInv, ReviewIsInForce

\* An acceptable audit makes the edges, marks and resolutions that are promised.
LEMMA Applied ==
  ASSUME ReconciliationAssumption, GraphInv, graph.built, UNCHANGED <<evidence, stated, when>>,
         NEW D, AuditInv(D, Candidates(Claims(evidence)), DOMAIN graph.notes), Follows(D, decisions), D # <<>>,
         Apply(D)
  PROVE  GraphInv'
<1> DEFINE C == Claims(evidence)
           K == Candidates(C)
           N == DOMAIN graph.notes
           n == Len(D)
<1>1. CASE UNCHANGED <<graph, decisions>>
  BY <1>1, GraphStutter DEF graphVars
<1>2. CASE /\ Acceptable(D) /\ decisions' = D
           /\ graph' = [graph EXCEPT !.edges = EdgesOf(D),
                                     !.status = [c \in DOMAIN graph.status |-> StatusOf(c, D)],
                                     !.notes = [m \in DOMAIN graph.notes |-> NoteOf(m, D)]]
  <2>1. /\ BuiltInv(C) /\ Observed /\ ReviewTypeOK
        /\ Kept = Accepted(C) /\ DOMAIN graph.status = K
    BY DEF GraphInv, BuiltInv, ReviewIsInForce
  <2>2. n \in Nat /\ DOMAIN D = 1 .. n
    BY DEF AuditInv
  <2> DEFINE edges == EdgesOf(D)
             status == [c \in K |-> StatusOf(c, D)]
             notes == [m \in N |-> NoteOf(m, D)]
  <2>3. graph' = [graph EXCEPT !.edges = edges, !.status = status, !.notes = notes]
    BY <1>2, <2>1
  <2> HIDE DEF edges, status, notes, n
  <2>4. /\ graph'.built = graph.built /\ graph'.edges = edges /\ graph'.status = status /\ graph'.notes = notes
        /\ IsGraph(graph')
    BY <2>1, <2>3 DEF BuiltInv, IsGraph
  <2>5. evidence' = evidence /\ Claims(evidence)' = C
    OBVIOUS
  <2>6. DOMAIN status = K /\ DOMAIN notes = N
    BY DEF status, notes
  <2>7. /\ {e \in edges : e.review = 0} = Accepted(C)
        /\ \A e \in edges : /\ e.tgt \in Items /\ e.review \in 0 .. n
                            /\ e.review # 0 => e.review \in Active(D)
    BY <1>2, <2>1, EdgesMade DEF Observed, edges, n
  <2>8. ASSUME NEW c \in K, \A i \in DOMAIN decisions : c \notin decisions[i].cands
        PROVE  graph.status[c] \in {"agent", "human"}
    BY <2>1, <2>8 DEF BuiltInv
  <2>9. ASSUME NEW c \in K, About(c, D) = {}
        PROVE  graph.status[c] \in {"agent", "human"}
    <3>1. \A i \in DOMAIN D : c \notin D[i].cands
      <4>1. \A i \in DOMAIN D : \E j \in Active(D) : D[j].cands = D[i].cands
        BY DEF AuditInv
      <4>. QED BY <2>9, <4>1 DEF About
    <3>2. \A i \in DOMAIN decisions : c \notin decisions[i].cands
      BY <3>1 DEF Follows
    <3>. QED BY <2>8, <3>2
  <2>10. ASSUME NEW c \in K
         PROVE  /\ status[c] = StatusOf(c, D)
                /\ status[c] \in {"agent", "human", "accepted", "rejected"}
                /\ status[c] = "accepted" <=>
                      \E e \in edges : /\ e.review # 0 /\ SameRoute(c, e) /\ e.seen = c.seen
                                       /\ D[e.review].action = "confirm" /\ c \in D[e.review].cands
                /\ About(c, D) = {} => status[c] \in {"agent", "human"}
    <3>1. status[c] = StatusOf(c, D)
      BY DEF status
    <3>2. graph.status[c] \in {"agent", "human", "accepted", "rejected"}
      BY <2>1 DEF ReviewTypeOK
    <3>3. StatusOf(c, D) \in {"agent", "human", "accepted", "rejected"}
      BY <3>2 DEF StatusOf
    <3>4. About(c, D) = {} => StatusOf(c, D) \in {"agent", "human"}
      <4>1. StatusOf(c, D) = IF LastOf(About(c, D)) = 0 THEN graph.status[c]
                             ELSE CASE D[LastOf(About(c, D))].action = "confirm" -> "accepted"
                                    [] D[LastOf(About(c, D))].action = "unresolved" -> "human"
                                    [] OTHER -> "rejected"
        BY DEF StatusOf, About
      <4>2. About(c, D) = {} => LastOf(About(c, D)) = 0
        BY DEF LastOf
      <4>. QED BY <2>9, <4>1, <4>2
    <3>5. StatusOf(c, D) = "accepted" <=>
             \E e \in EdgesOf(D) : /\ e.review # 0 /\ SameRoute(c, e) /\ e.seen = c.seen
                                   /\ D[e.review].action = "confirm" /\ c \in D[e.review].cands
      BY <1>2, <2>1, <2>9, AcceptedMarks DEF Observed
    <3>. QED BY <3>1, <3>3, <3>4, <3>5 DEF edges
  <2>11. ASSUME NEW m \in N
         PROVE  /\ notes[m] = [human |-> notes[m].human, by |-> notes[m].by]
                /\ notes[m].by \in 0 .. n
                /\ notes[m].by # 0 => /\ notes[m].by \in Active(D) /\ m \in D[notes[m].by].notes
                                      /\ D[notes[m].by].action # "unresolved"
    <3> DEFINE J == {j \in Active(D) : m \in D[j].notes}
               i == LastOf(J)
    <3>1. notes[m] = IF i = 0 THEN [graph.notes[m] EXCEPT !.by = 0]
                     ELSE [human |-> D[i].human, by |-> IF D[i].action = "unresolved" THEN 0 ELSE i]
      BY DEF notes, NoteOf
    <3>2. J \in SUBSET (1 .. n)
      BY <2>2 DEF Active
    <3>3. (J = {} => i = 0) /\ (J # {} => i \in J)
      BY <2>2, <3>2, LastIsOne
    <3> HIDE DEF i
    <3>4. i = 0 \/ (i \in Active(D) /\ m \in D[i].notes /\ i \in 1 .. n)
      BY <3>2, <3>3
    <3> HIDE DEF J
    <3>5. graph.notes[m] = [human |-> graph.notes[m].human, by |-> graph.notes[m].by]
      BY <2>1 DEF BuiltInv
    <3>6. CASE i = 0
      <4>1. notes[m] = [human |-> graph.notes[m].human, by |-> 0]
        BY <3>1, <3>5, <3>6
      <4>. QED BY <2>2, <4>1
    <3>7. CASE i # 0 /\ D[i].action = "unresolved"
      <4>1. notes[m] = [human |-> D[i].human, by |-> 0]
        BY <3>1, <3>7
      <4>. QED BY <2>2, <4>1
    <3>8. CASE i # 0 /\ D[i].action # "unresolved"
      <4>1. notes[m] = [human |-> D[i].human, by |-> i]
        BY <3>1, <3>8
      <4>2. notes[m].by = i /\ i \in 0 .. n
        BY <2>2, <3>4, <3>8, <4>1
      <4>. QED BY <3>4, <3>8, <4>1, <4>2
    <3>. QED BY <3>6, <3>7, <3>8
  <2>12. (ReviewTypeOK)'
    BY <1>2, <2>4, <2>6, <2>7, <2>10, <2>11 DEF ReviewTypeOK, n
  <2>13. (SourceRoutesStay)'
    BY <2>4, <2>5, <2>7 DEF SourceRoutesStay
  <2>14. (ReviewedRoutesAreDecided)'
    BY <1>2, <2>4, <2>6, <2>7, <2>10 DEF ReviewedRoutesAreDecided
  <2>15. (OneDefault)'
    BY <1>2, <2>4 DEF OneDefault, Acceptable, edges
  <2>16. (ResolutionIsCurrent)'
    BY <1>2, <2>4, <2>6, <2>11 DEF ResolutionIsCurrent
  <2>17. (BuiltInv(Claims(evidence)))'
    <3>1. (Kept = Accepted(C))'
      BY <2>4, <2>5, <2>7 DEF Kept
    <3>2. ASSUME NEW c \in K, \A i \in DOMAIN D : c \notin D[i].cands
          PROVE  status[c] \in {"agent", "human"}
      <4>1. About(c, D) = {}
        BY <3>2 DEF About, Active
      <4>. QED BY <2>10, <4>1
    <3>3. \A m \in N : m[2] \subseteq K
      BY <2>1 DEF BuiltInv
    <3>. QED BY <1>2, <2>4, <2>5, <2>6, <2>11, <3>1, <3>2, <3>3 DEF BuiltInv
  <2>18. (Observed)'
    BY <2>1 DEF Observed
  <2>19. decisions' # <<>> /\ (graph.built)'
    BY <1>2, <2>4
  <2>. QED BY <2>12, <2>13, <2>14, <2>15, <2>16, <2>17, <2>18, <2>19 DEF GraphInv, ReviewIsInForce
<1>. QED BY <1>1, <1>2 DEF Apply
\* What reconciliation makes of the observations is as promised, before any decision.
LEMMA ReconciledIsFair ==
  ASSUME ReconciliationAssumption, Observed, graph = Reconciled, decisions = <<>>
  PROVE  BuiltInv(Claims(evidence)) /\ ReviewIsInForce
<1> DEFINE C == Claims(evidence)
           K == Candidates(C)
           status == [c \in K |-> FirstStatus(c, C)]
           notes == [n \in {NoteId(d) : d \in Disputes(C)} |->
                       FirstNote(CHOOSE d \in Disputes(C) : NoteId(d) = n, C)]
<1>1. /\ graph = [built |-> TRUE, failed |-> FALSE, edges |-> Accepted(C), status |-> status, notes |-> notes,
                  when |-> Agreed(stated), unclear |-> ActivationNotes(stated)]
      /\ DOMAIN status = K
  BY DEF Reconciled
<1>2. \A c \in K : status[c] \in {"agent", "human"}
  BY DEF FirstStatus
<1>3. ASSUME NEW n \in DOMAIN notes
      PROVE  n[2] \subseteq K /\ \E h : notes[n] = [human |-> h, by |-> 0]
  <2>1. PICK d \in Disputes(C) : n = NoteId(d)
    BY <1>3
  <2>2. n[2] \subseteq K
    BY <2>1, DisputesAreOfCandidates DEF NoteId
  <2> DEFINE first == CHOOSE x \in Disputes(C) : NoteId(x) = n
  <2>3. notes[n] = FirstNote(first, C)
    BY <1>3
  <2> HIDE DEF first
  <2>4. \E h : FirstNote(first, C) = [human |-> h, by |-> 0]
    BY DEF FirstNote
  <2>. QED BY <2>2, <2>3, <2>4
<1> HIDE DEF status, notes
<1>4. IsGraph(graph) /\ graph.edges = Accepted(C) /\ graph.status = status /\ graph.notes = notes
  BY <1>1 DEF IsGraph
<1>5. \A e \in Accepted(C) : e.review = 0 /\ e.tgt \in Items
  <2>1. SUFFICES ASSUME NEW e \in Accepted(C) PROVE e.review = 0 /\ e.tgt \in Items
    OBVIOUS
  <2>2. PICK c \in C : /\ Issues(c, C) = {}
                       /\ e = [src |-> c.src, tgt |-> c.tgt, kind |-> c.kind, cond |-> c.cond, prio |-> Priority(c),
                               seen |-> c.seen, review |-> 0]
    BY AcceptedEdge
  <2>. QED BY <2>2, Undisputed DEF Observed
<1>6. Kept = Accepted(C)
  BY <1>4, <1>5 DEF Kept
<1>7. \A N : AuditInv(<<>>, K, N)
  BY DEF AuditInv, Active
<1>8. \A n \in DOMAIN notes : /\ notes[n] = [human |-> notes[n].human, by |-> notes[n].by]
                              /\ notes[n].by = 0
  BY <1>3
<1>9. BuiltInv(C)
  BY <1>1, <1>2, <1>3, <1>4, <1>6, <1>7, <1>8 DEF BuiltInv
<1>10. ReviewTypeOK
  <2>1. Len(decisions) = 0 /\ 0 \in 0 .. 0
    OBVIOUS
  <2>. QED BY <1>1, <1>2, <1>4, <1>5, <1>8, <2>1 DEF ReviewTypeOK
<1>11. SourceRoutesStay /\ ResolutionIsCurrent
  BY <1>4, <1>8 DEF SourceRoutesStay, ResolutionIsCurrent
<1>12. ReviewedRoutesAreDecided
  <2>1. \A c \in DOMAIN graph.status : graph.status[c] # "accepted"
    BY <1>1, <1>2, <1>4
  <2>. QED BY <1>4, <1>5, <2>1 DEF ReviewedRoutesAreDecided
<1>13. OneDefault
  <2>1. AcceptedIsUndisputed /\ NothingVanishes
    BY FairEdges, FairEvidence DEF Observed
  <2>. QED BY <2>1 DEF OneDefault, AcceptedIsUndisputed
<1>. QED BY <1>9, <1>10, <1>11, <1>12, <1>13 DEF ReviewIsInForce

\* Reconciliation is of an empty audit.
LEMMA Reconciles ==
  ASSUME ReconciliationAssumption, GraphInv, Reconcile, decisions' = decisions
  PROVE  GraphInv'
<1>1. ~graph.built /\ decisions = <<>>
  BY DEF Reconcile, NoGraph, GraphInv
<1>2. UNCHANGED <<evidence, stated, when>>
  BY DEF Reconcile
<1>3. Observed'
  BY <1>2 DEF GraphInv, Observed
<1>4. CASE graph' = NotBuilt
  <2>1. ~graph'.built
    BY <1>4 DEF NotBuilt, NoGraph
  <2>. QED BY <1>1, <1>3, <2>1 DEF GraphInv
<1>5. CASE graph' = Reconciled
  <2>1. Reconciled' = Reconciled
    <3>1. Agreed(stated)' = Agreed(stated)
      BY <1>2 DEF Agreed, Disagreed, Said
    <3>2. ActivationNotes(stated)' = ActivationNotes(stated)
      BY <1>2 DEF ActivationNotes, Disagreed, Said
    <3>. QED BY <1>2, <3>1, <3>2 DEF Reconciled
  <2>2. (graph = Reconciled)' /\ (decisions = <<>>)'
    BY <1>1, <1>5, <2>1
  <2>3. (BuiltInv(Claims(evidence)) /\ ReviewIsInForce)'
    BY <1>3, <2>2, ReconciledIsFair, PTL
  <2>. QED BY <1>3, <2>2, <2>3 DEF GraphInv
<1>. QED BY <1>4, <1>5 DEF Reconcile, Reconciled

\* The invariant holds at the start.
LEMMA InitGraph == ReconciliationAssumption /\ ReviewInit => GraphInv
<1> SUFFICES ASSUME ReconciliationAssumption, ReviewInit PROVE GraphInv
  OBVIOUS
<1>1. Observed
  BY DEF ReviewInit, ReconciliationInit, Observed
<1>2. ~graph.built /\ decisions = <<>>
  BY DEF ReviewInit, ReconciliationInit, NoGraph
<1>. QED BY <1>1, <1>2 DEF GraphInv

\* Every step keeps the invariant.
LEMMA NextGraph == ReconciliationAssumption /\ GraphInv /\ [ReviewNext]_reviewVars => GraphInv'
<1> SUFFICES ASSUME ReconciliationAssumption, GraphInv, [ReviewNext]_reviewVars PROVE GraphInv'
  OBVIOUS
<1> DEFINE K == Candidates(Claims(evidence))
           N == DOMAIN graph.notes
<1>1. CASE Reconcile /\ UNCHANGED <<decisions, refused>>
  BY <1>1, Reconciles
<1>2. CASE Review
  <2>1. graph.built /\ UNCHANGED <<evidence, stated, when>>
    BY <1>2 DEF Review, CanReview
  <2>2. PICK P \in Packets : \E parts \in Coverings(P) : \E D \in Followed(decisions, parts) : Apply(D)
    BY <1>2 DEF Review
  <2>3. PICK parts \in Coverings(P) : \E D \in Followed(decisions, parts) : Apply(D)
    BY <2>2
  <2>4. PICK D \in Followed(decisions, parts) : Apply(D)
    BY <2>3
  <2>5. P \in SUBSET N
    BY DEF Packets, Open
  <2>6. AuditInv(decisions, K, N) /\ \A n \in N : n[2] \subseteq K
    BY <2>1 DEF GraphInv, BuiltInv
  <2>7. AuditInv(D, K, N) /\ Follows(D, decisions) /\ D # <<>>
    BY <2>5, <2>6, FollowedGrows
  <2>. QED BY <2>1, <2>4, <2>7, Applied
<1>3. CASE Redecide
  <2>1. graph.built /\ UNCHANGED <<evidence, stated, when>>
    BY <1>3 DEF Redecide, CanReview
  <2>2. PICK i \in Active(decisions) :
           \E v \in Verdicts(decisions[i].notes, decisions[i].cands, i) : Apply(Append(decisions, v))
    BY <1>3 DEF Redecide
  <2>3. PICK v \in Verdicts(decisions[i].notes, decisions[i].cands, i) : Apply(Append(decisions, v))
    BY <2>2
  <2>4. AuditInv(decisions, K, N)
    BY <2>1 DEF GraphInv, BuiltInv
  <2>5. decisions[i] \in VerdictsOf(K, N)
    BY <2>4 DEF AuditInv, Active
  <2>6. decisions[i].notes \in SUBSET N /\ decisions[i].cands \in SUBSET K /\ decisions[i].cands # {}
    BY <2>5, VerdictOf
  <2> DEFINE D == Append(decisions, v)
  <2>7. AuditInv(D, K, N) /\ Follows(D, decisions) /\ D # <<>>
    BY <2>4, <2>6, AuditGrows
  <2> HIDE DEF D
  <2>8. Apply(D)
    BY <2>3 DEF D
  <2>. QED BY <2>1, <2>7, <2>8, Applied
<1>4. CASE UNCHANGED reviewVars
  BY <1>4, GraphStutter DEF reviewVars
<1>. QED BY <1>1, <1>2, <1>3, <1>4 DEF ReviewNext

\* routing/reconcile.py: as long as no decision is applied, each observation is an accepted edge or a candidate with a
\* discrepancy, and nobody disputes what is accepted.
THEOREM ReconciliationIsFairAlways == ASSUME ReconciliationAssumption PROVE ReviewSpec => []ReconciliationIsFair
<1>1. GraphInv => ReconciliationIsFair
  <2> SUFFICES ASSUME GraphInv, decisions = <<>>
               PROVE  GraphTypeOK /\ NothingVanishes /\ AcceptedIsUndisputed /\ ApplicabilityIsAgreed
    BY DEF ReconciliationIsFair
  <2>1. Observed
    BY DEF GraphInv
  <2>2. CASE graph = Reconciled
    BY <2>1, <2>2, FairTypes, FairEvidence, FairEdges, FairConditions DEF Observed
  <2>3. CASE ~graph.built
    BY <2>1, <2>3 DEF GraphTypeOK, NothingVanishes, AcceptedIsUndisputed, ApplicabilityIsAgreed, Observed
  <2>. QED BY <2>2, <2>3 DEF GraphInv
<1>. QED BY <1>1, InitGraph, NextGraph, PTL DEF ReviewSpec

\* routing/review.py, append_review_decisions: however decisions supersede each other, the source's routes stay, and a
\* route by review, an accepted candidate and a resolution each have a decision in force.
THEOREM ReviewIsInForceAlways == ASSUME ReconciliationAssumption PROVE ReviewSpec => []ReviewIsInForce
<1>1. GraphInv => ReviewIsInForce
  BY DEF GraphInv, ReviewIsInForce, ReviewTypeOK, SourceRoutesStay, ReviewedRoutesAreDecided, OneDefault,
         ResolutionIsCurrent
<1>. QED BY <1>1, InitGraph, NextGraph, PTL DEF ReviewSpec

-----------------------------------------------------------------------------
(* RoutingEvidence: dictionaries.                                          *)

\* What a loop has collected after each of its rounds: what round i adds, unless it is one to skip.
Collected(skip, e, n, g) ==
    g = [i \in 0 .. n |-> IF i = 0 THEN <<>> ELSE IF i \in skip THEN g[i - 1] ELSE Append(g[i - 1], e[i])]

\* The rounds exist, as far as any.
LEMMA CollectedExists ==
  ASSUME NEW skip, NEW e, NEW c \in Nat
  PROVE  \E g : Collected(skip, e, c, g)
<1> DEFINE T == {n \in Nat : ~ \E g : Collected(skip, e, n, g)}
<1>1. SUFFICES ASSUME T # {} PROVE FALSE
  OBVIOUS
<1>2. PICK n \in T : \A m \in T : n <= m
  BY <1>1, LeastNatural
<1>3. n # 0
  <2>1. SUFFICES ASSUME n = 0 PROVE FALSE
    OBVIOUS
  <2>2. Collected(skip, e, 0, [i \in 0 .. 0 |-> <<>>])
    BY DEF Collected
  <2>. QED BY <1>2, <2>1, <2>2
<1>4. n - 1 \in Nat /\ n - 1 \notin T
  BY <1>2, <1>3
<1>5. PICK g : Collected(skip, e, n - 1, g)
  BY <1>4
<1> DEFINE h == [i \in 0 .. n |-> IF i # n THEN g[i] ELSE IF n \in skip THEN g[n - 1] ELSE Append(g[n - 1], e[n])]
<1>6. \A i \in 0 .. n - 1 :
        g[i] = IF i = 0 THEN <<>> ELSE IF i \in skip THEN g[i - 1] ELSE Append(g[i - 1], e[i])
  BY <1>4, <1>5 DEF Collected
<1>7. \A i \in 0 .. n - 1 : h[i] = g[i]
  BY <1>4
<1>8. ASSUME NEW i \in 0 .. n
      PROVE  h[i] = IF i = 0 THEN <<>> ELSE IF i \in skip THEN h[i - 1] ELSE Append(h[i - 1], e[i])
  <2>1. CASE i = n
    <3>1. h[i] = IF n \in skip THEN g[n - 1] ELSE Append(g[n - 1], e[n])
      BY <2>1
    <3>2. h[i - 1] = g[n - 1]
      BY <1>4, <1>7, <2>1
    <3>. QED BY <1>3, <2>1, <3>1, <3>2
  <2>2. CASE i # n
    <3>1. i \in 0 .. n - 1 /\ h[i] = g[i]
      BY <1>7, <2>2
    <3>2. i # 0 => i - 1 \in 0 .. n - 1
      BY <3>1
    <3>. QED BY <1>6, <1>7, <3>1, <3>2
  <2>. QED BY <2>1, <2>2
<1>9. Collected(skip, e, n, h)
  <2> DEFINE k == [i \in 0 .. n |-> IF i = 0 THEN <<>> ELSE IF i \in skip THEN h[i - 1] ELSE Append(h[i - 1], e[i])]
  <2>1. h = k
    <3>1. \A i \in 0 .. n : h[i] = k[i]
      BY <1>8
    <3>2. DOMAIN h = 0 .. n /\ h = [i \in 0 .. n |-> h[i]]
      OBVIOUS
    <3>3. k = [i \in 0 .. n |-> k[i]]
      OBVIOUS
    <3> HIDE DEF h, k
    <3>. QED BY <3>1, <3>2, <3>3
  <2>. QED BY <2>1 DEF Collected
<1>. QED BY <1>2, <1>9

\* s has, in order or not, what the rounds up to n add that are not to skip, each once.
Takes(s, skip, e, n) ==
    \E p \in [1 .. Len(s) -> (1 .. n) \ skip] :
        /\ \A k \in 1 .. Len(s) : s[k] = e[p[k]]
        /\ \A k, l \in 1 .. Len(s) : p[k] = p[l] => k = l
        /\ \A i \in (1 .. n) \ skip : \E k \in 1 .. Len(s) : p[k] = i

\* What is collected.
LEMMA CollectedTakes ==
  ASSUME NEW skip, NEW e, NEW c \in Nat, NEW g, Collected(skip, e, c, g), NEW X, \A i \in 1 .. c : e[i] \in X
  PROVE  g[c] \in Seq(X) /\ Takes(g[c], skip, e, c)
<1> DEFINE Good(n) == g[n] \in Seq(X) /\ Takes(g[n], skip, e, n)
           T == {n \in 0 .. c : ~Good(n)}
<1>1. SUFFICES ASSUME T # {} PROVE FALSE
  OBVIOUS
<1>2. T \in SUBSET Nat
  OBVIOUS
<1> HIDE DEF T
<1>3. PICK n \in T : \A m \in T : n <= m
  BY <1>1, <1>2, LeastNatural
<1>4. \A i \in 0 .. c : g[i] = IF i = 0 THEN <<>> ELSE IF i \in skip THEN g[i - 1] ELSE Append(g[i - 1], e[i])
  BY DEF Collected
<1>5. n \in 0 .. c /\ ~Good(n)
  BY <1>3 DEF T
<1>6. CASE n = 0
  <2>1. g[0] = <<>>
    BY <1>4
  <2>2. <<>> \in Seq(X) /\ Len(<<>>) = 0
    OBVIOUS
  <2>3. Takes(<<>>, skip, e, 0)
    <3>1. 1 .. 0 = {} /\ Len(<<>>) = 0
      OBVIOUS
    <3>2. [k \in {} |-> k] \in [{} -> {} \ skip]
      OBVIOUS
    <3>. QED BY <3>1, <3>2 DEF Takes
  <2>. QED BY <1>5, <1>6, <2>1, <2>2, <2>3
<1>7. CASE n # 0
  <2>1. n \in 1 .. c /\ n - 1 \in 0 .. c /\ n - 1 \notin T
    BY <1>3, <1>5, <1>7
  <2>2. Good(n - 1)
    BY <2>1 DEF T
  <2> DEFINE s == g[n - 1]
             m == Len(s)
  <2>3. s \in Seq(X) /\ m \in Nat
    BY <2>2
  <2>4. PICK p \in [1 .. m -> (1 .. n - 1) \ skip] :
               /\ \A k \in 1 .. m : s[k] = e[p[k]]
               /\ \A k, l \in 1 .. m : p[k] = p[l] => k = l
               /\ \A i \in (1 .. n - 1) \ skip : \E k \in 1 .. m : p[k] = i
    BY <2>2 DEF Takes
  <2>5. CASE n \in skip
    <3>1. g[n] = s
      BY <1>4, <2>1, <2>5
    <3>2. (1 .. n) \ skip = (1 .. n - 1) \ skip
      BY <2>1, <2>5
    <3> HIDE DEF s, m
    <3>. QED BY <1>5, <2>2, <3>1, <3>2 DEF Takes, s
  <2>6. CASE n \notin skip
    <3>1. g[n] = Append(s, e[n])
      <4>1. g[n] = IF n = 0 THEN <<>> ELSE IF n \in skip THEN g[n - 1] ELSE Append(g[n - 1], e[n])
        BY <1>4, <1>5, Zenon
      <4>. QED BY <1>7, <2>6, <4>1, Zenon
    <3>2. e[n] \in X
      BY <2>1
    <3> DEFINE q == [k \in 1 .. m + 1 |-> IF k = m + 1 THEN n ELSE p[k]]
    <3> HIDE DEF s, m
    <3>3. /\ Append(s, e[n]) \in Seq(X) /\ Len(Append(s, e[n])) = m + 1
          /\ \A k \in 1 .. m + 1 : Append(s, e[n])[k] = IF k = m + 1 THEN e[n] ELSE s[k]
      BY <2>3, <3>2 DEF m
    <3>4. n \in (1 .. n) \ skip /\ (1 .. n) \ skip = ((1 .. n - 1) \ skip) \cup {n} /\ n \notin 1 .. n - 1
      BY <2>1, <2>6
    <3>5. q \in [1 .. m + 1 -> (1 .. n) \ skip]
      <4>1. \A k \in 1 .. m + 1 : q[k] \in (1 .. n) \ skip
        BY <2>3, <2>4, <3>4
      <4>. QED BY <4>1
    <3>6. \A k \in 1 .. m + 1 : Append(s, e[n])[k] = e[q[k]]
      BY <2>3, <2>4, <3>3
    <3>7. \A k, l \in 1 .. m + 1 : q[k] = q[l] => k = l
      <4>1. \A k \in 1 .. m + 1 : k # m + 1 => k \in 1 .. m /\ q[k] = p[k] /\ p[k] # n
        BY <2>3, <2>4, <3>4
      <4>2. q[m + 1] = n
        BY <2>3
      <4> HIDE DEF q
      <4>. QED BY <2>4, <4>1, <4>2
    <3>8. \A i \in (1 .. n) \ skip : \E k \in 1 .. m + 1 : q[k] = i
      <4>1. ASSUME NEW i \in (1 .. n) \ skip, i # n
            PROVE  \E k \in 1 .. m + 1 : q[k] = i
        <5>1. PICK k \in 1 .. m : p[k] = i
          BY <2>4, <3>4, <4>1
        <5>2. k \in 1 .. m + 1 /\ q[k] = p[k]
          BY <2>3
        <5>. QED BY <5>1, <5>2
      <4>2. m + 1 \in 1 .. m + 1 /\ q[m + 1] = n
        BY <2>3
      <4> HIDE DEF q
      <4>. QED BY <4>1, <4>2
    <3> HIDE DEF q
    <3>9. Takes(Append(s, e[n]), skip, e, n)
      BY <3>3, <3>5, <3>6, <3>7, <3>8 DEF Takes
    <3>. QED BY <1>5, <3>1, <3>3, <3>9
  <2>. QED BY <2>5, <2>6
<1>. QED BY <1>6, <1>7

\* The places up to c whose key was there before.
Again(key, c) == {n \in 1 .. c : \E j \in 1 .. n - 1 : key[j] = key[n]}

\* t has a member of s for each key there, and none twice.
Firsts(t, s, c, key) ==
    \E p \in [1 .. Len(t) -> 1 .. c] :
        /\ \A k \in 1 .. Len(t) : t[k] = s[p[k]]
        /\ \A k, l \in 1 .. Len(t) : key[p[k]] = key[p[l]] => k = l
        /\ \A i \in 1 .. c : \E k \in 1 .. Len(t) : key[p[k]] = key[i]

\* Skipping what has a key that was there before leaves the first of each.
LEMMA SkippingLeavesFirsts ==
  ASSUME NEW c \in Nat, NEW key, NEW e, NEW s, Len(s) \in Nat, Takes(s, Again(key, c), e, c)
  PROVE  Firsts(s, e, c, key)
<1> DEFINE skip == Again(key, c)
<1>0. skip = {n \in 1 .. c : \E j \in 1 .. n - 1 : key[j] = key[n]}
  BY DEF Again
<1>1. PICK p \in [1 .. Len(s) -> (1 .. c) \ skip] :
             /\ \A k \in 1 .. Len(s) : s[k] = e[p[k]]
             /\ \A k, l \in 1 .. Len(s) : p[k] = p[l] => k = l
             /\ \A i \in (1 .. c) \ skip : \E k \in 1 .. Len(s) : p[k] = i
  BY DEF Takes
<1> HIDE DEF skip
<1>2. p \in [1 .. Len(s) -> 1 .. c]
  BY <1>1
<1>3. ASSUME NEW i \in (1 .. c) \ skip, NEW j \in (1 .. c) \ skip, key[i] = key[j]
      PROVE  i = j
  <2>1. i \in 1 .. c /\ j \in 1 .. c
    OBVIOUS
  <2>2. ~(i \in 1 .. j - 1) /\ ~(j \in 1 .. i - 1)
    BY <1>0, <1>3
  <2>. QED BY <2>1, <2>2
<1>4. ASSUME NEW k \in 1 .. Len(s), NEW l \in 1 .. Len(s), key[p[k]] = key[p[l]]
      PROVE  k = l
  <2>1. p[k] \in (1 .. c) \ skip /\ p[l] \in (1 .. c) \ skip
    BY <1>1
  <2>2. p[k] = p[l]
    BY <1>3, <1>4, <2>1
  <2>. QED BY <1>1, <2>2
<1>5. ASSUME NEW i \in 1 .. c
      PROVE  \E k \in 1 .. Len(s) : key[p[k]] = key[i]
  <2> DEFINE T == {j \in 1 .. c : key[j] = key[i]}
  <2>1. T \in SUBSET Nat /\ T # {}
    OBVIOUS
  <2>2. PICK j \in T : \A m \in T : j <= m
    BY <2>1, LeastNatural
  <2>3. j \in 1 .. c /\ key[j] = key[i]
    OBVIOUS
  <2>4. j \notin skip
    <3>1. SUFFICES ASSUME NEW m \in 1 .. j - 1, key[m] = key[j] PROVE FALSE
      BY <1>0, <2>3
    <3>2. m \in 1 .. c /\ m < j /\ key[m] = key[i]
      BY <2>3, <3>1
    <3>3. m \in T
      BY <3>2
    <3>. QED BY <2>2, <2>3, <3>2, <3>3
  <2>. QED BY <1>1, <2>3, <2>4
<1>. QED BY <1>1, <1>2, <1>4, <1>5 DEF Firsts

\* The first of each, and nothing else.
LEMMA FirstOfFacts ==
  ASSUME NEW X, NEW s \in Seq(X), NEW key
  PROVE  FirstOf(s, key) \in Seq(X) /\ Firsts(FirstOf(s, key), s, Len(s), key)
<1> DEFINE c == Len(s)
           skip == Again(key, c)
           step(f) == [n \in 0 .. c |->
                         IF n = 0 THEN <<>>
                         ELSE IF \E j \in 1 .. n - 1 : key[j] = key[n] THEN f[n - 1]
                         ELSE Append(f[n - 1], s[n])]
           g == CHOOSE f : f = step(f)
           t == FirstOf(s, key)
<1>1. c \in Nat /\ \A n \in 1 .. c : s[n] \in X
  OBVIOUS
<1>2. t = g[c]
  BY DEF FirstOf
<1>3. \A n \in 1 .. c : n \in skip <=> \E j \in 1 .. n - 1 : key[j] = key[n]
  BY DEF Again
<1> HIDE DEF skip
<1>4. ASSUME NEW f
      PROVE  step(f) = [i \in 0 .. c |-> IF i = 0 THEN <<>> ELSE IF i \in skip THEN f[i - 1] ELSE Append(f[i - 1], s[i])]
  <2> DEFINE other == [i \in 0 .. c |-> IF i = 0 THEN <<>> ELSE IF i \in skip THEN f[i - 1] ELSE Append(f[i - 1], s[i])]
  <2>1. ASSUME NEW i \in 0 .. c
        PROVE  step(f)[i] = other[i]
    <3>1. i # 0 => i \in 1 .. c
      BY <1>1
    <3>. QED BY <1>3, <3>1
  <2>2. step(f) = [i \in 0 .. c |-> step(f)[i]] /\ other = [i \in 0 .. c |-> other[i]]
    OBVIOUS
  <2> HIDE DEF step, other
  <2>3. step(f) = other
    BY <2>1, <2>2
  <2>. QED BY <2>3 DEF other
<1>5. Collected(skip, s, c, g)
  <2>1. PICK f : Collected(skip, s, c, f)
    BY <1>1, CollectedExists
  <2>2. f = step(f)
    BY <1>4, <2>1 DEF Collected
  <2> HIDE DEF step
  <2>3. g = step(g)
    BY <2>2
  <2> HIDE DEF g
  <2>. QED BY <1>4, <2>3 DEF Collected
<1> HIDE DEF g, step, c, t
<1>6. t \in Seq(X) /\ Takes(t, skip, s, c)
  <2>1. g[c] \in Seq(X) /\ Takes(g[c], skip, s, c)
    BY <1>1, <1>5, CollectedTakes
  <2>. QED BY <1>2, <2>1
<1>7. Len(t) \in Nat /\ Takes(t, Again(key, c), s, c)
  BY <1>6 DEF skip
<1>8. Firsts(t, s, c, key)
  BY <1>1, <1>7, SkippingLeavesFirsts
<1>. QED BY <1>6, <1>8 DEF t, c

\* What a sequence of observations or records claims.
Claimed(o) == {Key(x) : x \in ToSet(o)}

\* A sequence of a length has that many members if none is there twice.
LEMMA LengthOfDistinct ==
  ASSUME NEW X, NEW s \in Seq(X), \A k, l \in 1 .. Len(s) : s[k] = s[l] => k = l
  PROVE  Len(s) = Cardinality(ToSet(s))
<1>1. Len(s) \in Nat /\ DOMAIN s = 1 .. Len(s) /\ s = [k \in 1 .. Len(s) |-> s[k]]
  OBVIOUS
<1>2. ToSet(s) = {s[k] : k \in 1 .. Len(s)}
  BY <1>1 DEF ToSet
<1>3. s \in Bijection(1 .. Len(s), ToSet(s))
  BY <1>1, <1>2 DEF Bijection, Injection, IsInjective, Surjection
<1>. QED BY <1>1, <1>3, FS_CountingElements DEF ExistsBijection

\* Records are of what was observed, each claim once.
LEMMA RecordFacts ==
  ASSUME NEW X, NEW o \in Seq(X)
  PROVE  /\ FirstOfEach(o) \in Seq({Record(x) : x \in X})
         /\ Claimed(FirstOfEach(o)) = Claimed(o)
         /\ Len(FirstOfEach(o)) = Cardinality(Claimed(o))
         /\ \A k \in 1 .. Len(FirstOfEach(o)) : \E i \in 1 .. Len(o) : FirstOfEach(o)[k] = Record(o[i])
<1> DEFINE R == {Record(x) : x \in X}
           c == Len(o)
           made == [k \in DOMAIN o |-> Record(o[k])]
           key == [k \in DOMAIN o |-> Key(o[k])]
           s == FirstOfEach(o)
<1>1. c \in Nat /\ DOMAIN o = 1 .. c /\ \A k \in 1 .. c : o[k] \in X
  OBVIOUS
<1>2. /\ made \in Seq(R) /\ Len(made) = c
      /\ \A k \in 1 .. c : made[k] = Record(o[k]) /\ key[k] = Key(o[k])
  <2>1. made \in [1 .. c -> R]
    BY <1>1
  <2>. QED BY <1>1, <2>1
<1>3. s = FirstOf(made, key)
  BY DEF FirstOfEach
<1> HIDE DEF R, made, key, s
<1>4. s \in Seq(R) /\ Firsts(s, made, c, key)
  BY <1>2, <1>3, FirstOfFacts
<1>5. PICK p \in [1 .. Len(s) -> 1 .. c] :
            /\ \A k \in 1 .. Len(s) : s[k] = made[p[k]]
            /\ \A k, l \in 1 .. Len(s) : key[p[k]] = key[p[l]] => k = l
            /\ \A i \in 1 .. c : \E k \in 1 .. Len(s) : key[p[k]] = key[i]
  BY <1>4 DEF Firsts
<1> HIDE DEF c
<1>6. \A k \in 1 .. Len(s) : p[k] \in 1 .. c /\ s[k] = Record(o[p[k]]) /\ Key(s[k]) = key[p[k]]
  <2>1. \A k \in 1 .. Len(s) : p[k] \in 1 .. c
    BY <1>5
  <2>2. \A x : Key(Record(x)) = Key(x)
    BY DEF Key, Record
  <2>. QED BY <1>2, <1>5, <2>1, <2>2
<1>7. Len(s) \in Nat /\ DOMAIN s = 1 .. Len(s)
  BY <1>4
<1>8. Claimed(s) = {Key(s[k]) : k \in 1 .. Len(s)} /\ Claimed(o) = {Key(o[i]) : i \in 1 .. c}
  BY <1>1, <1>7 DEF Claimed, ToSet
<1>9. Claimed(s) \subseteq Claimed(o)
  BY <1>2, <1>6, <1>8
<1>10. Claimed(o) \subseteq Claimed(s)
  <2>1. ASSUME NEW i \in 1 .. c
        PROVE  Key(o[i]) \in Claimed(s)
    <3>1. PICK k \in 1 .. Len(s) : key[p[k]] = key[i]
      BY <1>5
    <3>. QED BY <1>2, <1>6, <1>8, <3>1
  <2>. QED BY <1>8, <2>1
<1>11. Len(s) = Cardinality(Claimed(s))
  <2> DEFINE ks == [k \in 1 .. Len(s) |-> Key(s[k])]
  <2>1. ks \in Seq(Claimed(s)) /\ Len(ks) = Len(s) /\ DOMAIN ks = 1 .. Len(s)
    BY <1>7, <1>8
  <2>2. \A k \in 1 .. Len(s) : ks[k] = key[p[k]]
    BY <1>6
  <2>3. ToSet(ks) = Claimed(s)
    BY <1>8 DEF ToSet
  <2> HIDE DEF ks
  <2>4. \A k, l \in 1 .. Len(ks) : ks[k] = ks[l] => k = l
    BY <1>5, <2>1, <2>2
  <2>. QED BY <2>1, <2>3, <2>4, LengthOfDistinct
<1>12. \A k \in 1 .. Len(s) : \E i \in 1 .. c : s[k] = Record(o[i])
  BY <1>6
<1>. QED BY <1>4, <1>9, <1>10, <1>11, <1>12 DEF s, R, c

\* Spans are those observed, each once.
LEMMA SpanFacts ==
  ASSUME NEW X, NEW o \in Seq(X)
  PROVE  /\ ToSet(SpansOf(o)) = {x.span : x \in ToSet(o)}
         /\ Len(SpansOf(o)) = Cardinality(ToSet(SpansOf(o)))
<1> DEFINE R == {x.span : x \in X}
           c == Len(o)
           at == [k \in DOMAIN o |-> o[k].span]
           s == SpansOf(o)
<1>1. c \in Nat /\ DOMAIN o = 1 .. c /\ \A k \in 1 .. c : o[k] \in X
  OBVIOUS
<1>2. /\ at \in Seq(R) /\ Len(at) = c
      /\ \A k \in 1 .. c : at[k] = o[k].span
  <2>1. at \in [1 .. c -> R]
    BY <1>1
  <2>. QED BY <1>1, <2>1
<1>3. s = FirstOf(at, at)
  BY DEF SpansOf
<1> HIDE DEF R, at, s
<1>4. s \in Seq(R) /\ Firsts(s, at, c, at)
  BY <1>2, <1>3, FirstOfFacts
<1>5. PICK p \in [1 .. Len(s) -> 1 .. c] :
            /\ \A k \in 1 .. Len(s) : s[k] = at[p[k]]
            /\ \A k, l \in 1 .. Len(s) : at[p[k]] = at[p[l]] => k = l
            /\ \A i \in 1 .. c : \E k \in 1 .. Len(s) : at[p[k]] = at[i]
  BY <1>4 DEF Firsts
<1> HIDE DEF c
<1>6. \A k \in 1 .. Len(s) : p[k] \in 1 .. c
  BY <1>5
<1>7. ToSet(s) = {s[k] : k \in 1 .. Len(s)} /\ {x.span : x \in ToSet(o)} = {o[i].span : i \in 1 .. c}
  BY <1>1, <1>4 DEF ToSet
<1>8. ToSet(s) = {x.span : x \in ToSet(o)}
  <2>1. \A k \in 1 .. Len(s) : s[k] = o[p[k]].span
    BY <1>2, <1>5, <1>6
  <2>2. ASSUME NEW i \in 1 .. c
        PROVE  \E k \in 1 .. Len(s) : s[k] = o[i].span
    <3>1. PICK k \in 1 .. Len(s) : at[p[k]] = at[i]
      BY <1>5
    <3>2. s[k] = at[p[k]] /\ at[i] = o[i].span
      BY <1>2, <1>5
    <3>. QED BY <3>1, <3>2
  <2>3. ToSet(s) \subseteq {x.span : x \in ToSet(o)}
    BY <1>6, <1>7, <2>1
  <2>4. {x.span : x \in ToSet(o)} \subseteq ToSet(s)
    BY <1>7, <2>2
  <2>. QED BY <2>3, <2>4
<1>9. \A k, l \in 1 .. Len(s) : s[k] = s[l] => k = l
  BY <1>5
<1>10. Len(s) = Cardinality(ToSet(s))
  BY <1>4, <1>9, LengthOfDistinct
<1>. QED BY <1>8, <1>10 DEF s

-----------------------------------------------------------------------------
(* Flattening.                                                             *)

\* The rounds of FlattenSeq.
Rounds(r, n, F) == F = [i \in 1 .. n |-> IF i = 1 THEN r[i] ELSE F[i - 1] \o r[i]]

\* The rounds exist, as far as any.
LEMMA RoundsExist ==
  ASSUME NEW r, NEW c \in Nat
  PROVE  \E F : Rounds(r, c, F)
<1> DEFINE T == {n \in Nat : ~ \E F : Rounds(r, n, F)}
<1>1. SUFFICES ASSUME T # {} PROVE FALSE
  OBVIOUS
<1>2. PICK n \in T : \A m \in T : n <= m
  BY <1>1, LeastNatural
<1>3. n # 0
  <2>1. Rounds(r, 0, [i \in 1 .. 0 |-> r[i]])
    <3>1. 1 .. 0 = {}
      OBVIOUS
    <3> DEFINE F == [i \in 1 .. 0 |-> r[i]]
    <3>2. F = [i \in 1 .. 0 |-> IF i = 1 THEN r[i] ELSE F[i - 1] \o r[i]]
      BY <3>1, Zenon
    <3>. QED BY <3>2 DEF Rounds
  <2>. QED BY <1>2, <2>1
<1>4. n - 1 \in Nat /\ n - 1 \notin T
  BY <1>2, <1>3
<1>5. PICK g : Rounds(r, n - 1, g)
  BY <1>4
<1> DEFINE h == [i \in 1 .. n |-> IF i # n THEN g[i] ELSE IF n = 1 THEN r[n] ELSE g[n - 1] \o r[n]]
<1>6. \A i \in 1 .. n - 1 : g[i] = IF i = 1 THEN r[i] ELSE g[i - 1] \o r[i]
  BY <1>5, Zenon DEF Rounds
<1>7. \A i \in 1 .. n - 1 : h[i] = g[i]
  BY <1>4
<1>8. ASSUME NEW i \in 1 .. n
      PROVE  h[i] = IF i = 1 THEN r[i] ELSE h[i - 1] \o r[i]
  <2>1. CASE i = n
    <3>1. h[n] = IF n = 1 THEN r[n] ELSE g[n - 1] \o r[n]
      BY <1>4
    <3>2. n # 1 => h[n - 1] = g[n - 1]
      BY <1>4, <1>7
    <3> HIDE DEF h
    <3>3. CASE n = 1
      BY <2>1, <3>1, <3>3, Zenon
    <3>4. CASE n # 1
      BY <2>1, <3>1, <3>2, <3>4, Zenon
    <3>. QED BY <3>3, <3>4
  <2>2. CASE i # n
    <3>1. i \in 1 .. n - 1 /\ h[i] = g[i]
      BY <1>4, <1>7, <2>2
    <3>2. g[i] = IF i = 1 THEN r[i] ELSE g[i - 1] \o r[i]
      BY <1>6, <3>1, Zenon
    <3>3. i # 1 => h[i - 1] = g[i - 1]
      BY <1>4, <1>7, <3>1
    <3> HIDE DEF h
    <3>4. CASE i = 1
      BY <3>1, <3>2, <3>4, Zenon
    <3>5. CASE i # 1
      BY <3>1, <3>2, <3>3, <3>5, Zenon
    <3>. QED BY <3>4, <3>5
  <2>. QED BY <2>1, <2>2
<1>9. Rounds(r, n, h)
  <2> DEFINE k == [i \in 1 .. n |-> IF i = 1 THEN r[i] ELSE h[i - 1] \o r[i]]
  <2>1. \A i \in 1 .. n : k[i] = IF i = 1 THEN r[i] ELSE h[i - 1] \o r[i]
    BY Zenon
  <2>2. h = [i \in 1 .. n |-> h[i]] /\ k = [i \in 1 .. n |-> k[i]]
    OBVIOUS
  <2> HIDE DEF h, k
  <2>3. \A i \in 1 .. n : h[i] = k[i]
    BY <1>8, <2>1, Zenon
  <2>4. h = k
    BY <2>2, <2>3, Zenon
  <2>. QED BY <2>4 DEF Rounds, k
<1>. QED BY <1>2, <1>9

\* The rounds make sequences of what the parts are sequences of.
LEMMA RoundsAreSequences ==
  ASSUME NEW A, NEW r \in Seq(Seq(A)), NEW F, Rounds(r, Len(r), F)
  PROVE  \A i \in 1 .. Len(r) : F[i] \in Seq(A)
<1> DEFINE T == {i \in 1 .. Len(r) : F[i] \notin Seq(A)}
<1>1. SUFFICES ASSUME T # {} PROVE FALSE
  OBVIOUS
<1>2. Len(r) \in Nat /\ T \in SUBSET Nat
  OBVIOUS
<1> HIDE DEF T
<1>3. PICK n \in T : \A m \in T : n <= m
  BY <1>1, <1>2, LeastNatural
<1>4. n \in 1 .. Len(r) /\ F[n] \notin Seq(A)
  BY <1>3 DEF T
<1>5. F[n] = IF n = 1 THEN r[n] ELSE F[n - 1] \o r[n]
  BY <1>4, Zenon DEF Rounds
<1>6. r[n] \in Seq(A)
  BY <1>4, ElementOfSeq
<1>7. CASE n = 1
  BY <1>4, <1>5, <1>6, <1>7, Zenon
<1>8. CASE n # 1
  <2>1. n - 1 \in 1 .. Len(r) /\ n - 1 \notin T
    BY <1>2, <1>3, <1>4, <1>8
  <2>2. F[n - 1] \in Seq(A)
    BY <2>1 DEF T
  <2>3. F[n - 1] \o r[n] \in Seq(A)
    BY <1>6, <2>2, ConcatProperties
  <2>. QED BY <1>4, <1>5, <1>8, <2>3, Zenon
<1>. QED BY <1>7, <1>8

\* Flattening is the last round.
LEMMA FlattenIsLastRound ==
  ASSUME NEW A, NEW r \in Seq(Seq(A)), r # <<>>
  PROVE  \E F : Rounds(r, Len(r), F) /\ FlattenSeq(r) = F[Len(r)]
<1> DEFINE F == CHOOSE f : Rounds(r, Len(r), f)
<1>1. Len(r) \in Nat /\ Len(r) # 0
  BY EmptySeq
<1>2. Rounds(r, Len(r), F)
  BY <1>1, RoundsExist
<1>3. F = CHOOSE f : f = [i \in 1 .. Len(r) |-> IF i = 1 THEN r[i] ELSE f[i - 1] \o r[i]]
  BY Zenon DEF Rounds
<1>4. FlattenSeq(r) = F[Len(r)]
  BY <1>1, <1>3, Zenon DEF FlattenSeq
<1>. QED BY <1>2, <1>4

LEMMA FlattenEmpty == FlattenSeq(<<>>) = <<>>
  BY DEF FlattenSeq

\* One part more.
LEMMA FlattenAppend ==
  ASSUME NEW A, NEW r \in Seq(Seq(A)), NEW x \in Seq(A)
  PROVE  FlattenSeq(r) \in Seq(A) /\ FlattenSeq(Append(r, x)) = FlattenSeq(r) \o x
<1> DEFINE q == Append(r, x)
           n == Len(r)
<1>1. /\ q \in Seq(Seq(A)) /\ q # <<>> /\ Len(q) = n + 1 /\ n \in Nat
      /\ q[n + 1] = x /\ \A i \in 1 .. n : q[i] = r[i]
  BY AppendProperties, LenProperties
<1> HIDE DEF q
<1>2. PICK G : Rounds(q, n + 1, G) /\ FlattenSeq(q) = G[n + 1]
  BY <1>1, FlattenIsLastRound
<1>3. \A i \in 1 .. n + 1 : G[i] = IF i = 1 THEN q[i] ELSE G[i - 1] \o q[i]
  BY <1>2, Zenon DEF Rounds
<1>4. CASE r = <<>>
  <2>1. n = 0 /\ FlattenSeq(r) = <<>> /\ <<>> \in Seq(A)
    BY <1>4, FlattenEmpty, EmptySeq
  <2>2. 1 \in 1 .. n + 1
    BY <2>1
  <2>3. G[1] = q[1]
    BY <1>3, <2>2, Zenon
  <2>4. FlattenSeq(q) = x
    BY <1>1, <1>2, <2>1, <2>3
  <2>. QED BY <2>1, <2>4, ConcatEmptySeq DEF q
<1>5. CASE r # <<>>
  <2>1. PICK F : Rounds(r, n, F) /\ FlattenSeq(r) = F[n]
    BY <1>5, FlattenIsLastRound
  <2>2. n # 0 /\ \A i \in 1 .. n : F[i] = IF i = 1 THEN r[i] ELSE F[i - 1] \o r[i]
    <3>1. n # 0
      BY <1>1, <1>5, EmptySeq
    <3>. QED BY <2>1, <3>1, Zenon DEF Rounds
  <2>3. \A i \in 1 .. n : F[i] = G[i]
    <3> DEFINE T == {i \in 1 .. n : F[i] # G[i]}
    <3>1. SUFFICES ASSUME T # {} PROVE FALSE
      OBVIOUS
    <3>2. T \in SUBSET Nat
      BY <1>1
    <3> HIDE DEF T
    <3>3. PICK m \in T : \A k \in T : m <= k
      BY <3>1, <3>2, LeastNatural
    <3>4. m \in 1 .. n /\ F[m] # G[m]
      BY <3>3 DEF T
    <3>5. m \in 1 .. n + 1 /\ q[m] = r[m]
      BY <1>1, <3>4
    <3>6. F[m] = IF m = 1 THEN r[m] ELSE F[m - 1] \o r[m]
      BY <2>2, <3>4, Zenon
    <3>7. G[m] = IF m = 1 THEN r[m] ELSE G[m - 1] \o r[m]
      BY <1>3, <3>5, Zenon
    <3>8. CASE m = 1
      BY <3>4, <3>6, <3>7, <3>8, Zenon
    <3>9. CASE m # 1
      <4>1. m - 1 \in 1 .. n /\ m - 1 \notin T
        BY <1>1, <3>3, <3>4, <3>9
      <4>2. F[m - 1] = G[m - 1]
        BY <4>1 DEF T
      <4>. QED BY <3>4, <3>6, <3>7, <3>9, <4>2, Zenon
    <3>. QED BY <3>8, <3>9
  <2>4. n \in 1 .. n /\ n + 1 \in 1 .. n + 1 /\ n + 1 # 1 /\ (n + 1) - 1 = n
    BY <1>1, <2>2
  <2>5. G[n + 1] = G[n] \o x
    <3>1. G[n + 1] = G[(n + 1) - 1] \o q[n + 1]
      BY <1>3, <2>4, Zenon
    <3>. QED BY <1>1, <2>4, <3>1, Zenon
  <2>6. FlattenSeq(r) \in Seq(A)
    BY <2>1, <2>4, RoundsAreSequences
  <2>7. FlattenSeq(q) = FlattenSeq(r) \o x
    BY <1>2, <2>1, <2>3, <2>4, <2>5, Zenon
  <2>. QED BY <2>6, <2>7 DEF q
<1>. QED BY <1>4, <1>5

\* Flattening makes a sequence.
LEMMA FlattenType ==
  ASSUME NEW A, NEW r \in Seq(Seq(A))
  PROVE  FlattenSeq(r) \in Seq(A)
  BY FlattenAppend, EmptySeq

\* What is flattened may be put together from either end.
LEMMA FlattenAssociative ==
  ASSUME NEW A, NEW s \in Seq(Seq(A)), NEW v \in Seq(Seq(A)), NEW x \in Seq(A)
  PROVE  (FlattenSeq(s) \o FlattenSeq(v)) \o x = FlattenSeq(s) \o (FlattenSeq(v) \o x)
<1> DEFINE a == FlattenSeq(s)
           b == FlattenSeq(v)
<1>1. a \in Seq(A) /\ b \in Seq(A)
  BY FlattenType
<1> HIDE DEF a, b
<1>2. (a \o b) \o x = a \o (b \o x)
  BY <1>1, ConcatAssociative, SMTT(30)
<1>. QED BY <1>2, Zenon DEF a, b

\* If it is the same to flatten two sequences at once or one after the other, so it is with one part more.
LEMMA FlattenConcatAppend ==
  ASSUME NEW A, NEW s \in Seq(Seq(A)), NEW v \in Seq(Seq(A)), NEW x \in Seq(A),
         FlattenSeq(s \o v) = FlattenSeq(s) \o FlattenSeq(v)
  PROVE  FlattenSeq(s \o Append(v, x)) = FlattenSeq(s) \o FlattenSeq(Append(v, x))
<1>1. s \o Append(v, x) = Append(s \o v, x) /\ s \o v \in Seq(Seq(A))
  <2>1. Append(v, x) = v \o <<x>> /\ <<x>> \in Seq(Seq(A)) /\ s \o v \in Seq(Seq(A))
    BY AppendIsConcat, ConcatProperties
  <2>2. s \o (v \o <<x>>) = (s \o v) \o <<x>>
    BY <2>1, ConcatAssociative
  <2>3. Append(s \o v, x) = (s \o v) \o <<x>>
    BY <2>1, AppendIsConcat
  <2>. QED BY <2>1, <2>2, <2>3, Zenon
<1>2. /\ FlattenSeq(Append(s \o v, x)) = FlattenSeq(s \o v) \o x
      /\ FlattenSeq(Append(v, x)) = FlattenSeq(v) \o x
  BY <1>1, FlattenAppend, Zenon
<1>3. (FlattenSeq(s) \o FlattenSeq(v)) \o x = FlattenSeq(s) \o (FlattenSeq(v) \o x)
  BY FlattenAssociative
<1>. QED BY <1>1, <1>2, <1>3, Zenon

\* Flattening two sequences at once or one after the other.
LEMMA FlattenConcat ==
  ASSUME NEW A, NEW s \in Seq(Seq(A)), NEW t \in Seq(Seq(A))
  PROVE  FlattenSeq(s \o t) = FlattenSeq(s) \o FlattenSeq(t)
<1> DEFINE T == {n \in Nat : \E u \in Seq(Seq(A)) : Len(u) = n /\ FlattenSeq(s \o u) # FlattenSeq(s) \o FlattenSeq(u)}
<1>1. SUFFICES ASSUME FlattenSeq(s \o t) # FlattenSeq(s) \o FlattenSeq(t) PROVE FALSE
  OBVIOUS
<1>2. Len(t) \in T /\ T \in SUBSET Nat
  BY <1>1, LenProperties
<1>0. ASSUME NEW u \in Seq(Seq(A)), FlattenSeq(s \o u) # FlattenSeq(s) \o FlattenSeq(u)
      PROVE  Len(u) \in T
  BY <1>0, LenProperties
<1>3. PICK n \in T : \A m \in T : n <= m
  BY <1>2, LeastNatural
<1>4. PICK u \in Seq(Seq(A)) : Len(u) = n /\ FlattenSeq(s \o u) # FlattenSeq(s) \o FlattenSeq(u)
  BY <1>3
<1>5. u # <<>>
  <2>1. SUFFICES ASSUME u = <<>> PROVE FALSE
    OBVIOUS
  <2>2. s \o u = s /\ FlattenSeq(u) = <<>>
    BY <2>1, FlattenEmpty, ConcatEmptySeq
  <2>3. FlattenSeq(s) \o <<>> = FlattenSeq(s)
    BY FlattenType, ConcatEmptySeq
  <2>. QED BY <1>4, <2>2, <2>3, Zenon
<1>6. PICK v \in Seq(Seq(A)), x \in Seq(A) : u = Append(v, x)
  BY <1>5, SequenceEmptyOrAppend
<1>7. FlattenSeq(s \o v) = FlattenSeq(s) \o FlattenSeq(v)
  <2>1. SUFFICES ASSUME FlattenSeq(s \o v) # FlattenSeq(s) \o FlattenSeq(v) PROVE FALSE
    OBVIOUS
  <2>2. Len(v) \in Nat /\ Len(u) = Len(v) + 1
    BY <1>6, AppendProperties, LenProperties
  <2>3. Len(v) \in T
    BY <1>0, <2>1
  <2> HIDE DEF T
  <2>4. n <= Len(v) /\ n = Len(v) + 1
    BY <1>3, <1>4, <2>2, <2>3
  <2>. QED BY <2>2, <2>4
<1>8. FlattenSeq(s \o Append(v, x)) = FlattenSeq(s) \o FlattenSeq(Append(v, x))
  BY <1>7, FlattenConcatAppend
<1>. QED BY <1>4, <1>6, <1>8, Zenon

\* Sequences of the same shape, flattened, correspond member by member.
SameShape(s, t) == Len(s) = Len(t) /\ \A r \in 1 .. Len(s) : Len(s[r]) = Len(t[r])

Corresponding(s, t, f, g) ==
    /\ Len(f) = Len(g)
    /\ \A i \in 1 .. Len(f) : \E r \in 1 .. Len(s) : \E k \in 1 .. Len(s[r]) : f[i] = s[r][k] /\ g[i] = t[r][k]

LEMMA FlattenShape ==
  ASSUME NEW A, NEW B, NEW s \in Seq(Seq(A)), NEW t \in Seq(Seq(B)), SameShape(s, t)
  PROVE  Corresponding(s, t, FlattenSeq(s), FlattenSeq(t))
<1> DEFINE Good(u, w) == Corresponding(u, w, FlattenSeq(u), FlattenSeq(w))
           T == {n \in Nat : \E u \in Seq(Seq(A)), w \in Seq(Seq(B)) : Len(u) = n /\ SameShape(u, w) /\ ~Good(u, w)}
<1>1. SUFFICES ASSUME ~Good(s, t) PROVE FALSE
  OBVIOUS
<1> HIDE DEF Good
<1>2. Len(s) \in T /\ T \in SUBSET Nat
  BY <1>1, LenProperties
<1>0. ASSUME NEW u \in Seq(Seq(A)), NEW w \in Seq(Seq(B)), SameShape(u, w), ~Good(u, w)
      PROVE  Len(u) \in T
  BY <1>0, LenProperties
<1>3. PICK n \in T : \A m \in T : n <= m
  BY <1>2, LeastNatural
<1>4. PICK u \in Seq(Seq(A)), w \in Seq(Seq(B)) : Len(u) = n /\ SameShape(u, w) /\ ~Good(u, w)
  BY <1>3
<1> HIDE DEF T
<1>5. u # <<>> /\ w # <<>>
  <2>1. Len(u) = Len(w)
    BY <1>4 DEF SameShape
  <2>2. u = <<>> <=> w = <<>>
    BY <2>1, EmptySeq
  <2>3. SUFFICES ASSUME u = <<>>, w = <<>> PROVE FALSE
    BY <2>2
  <2>4. FlattenSeq(u) = <<>> /\ FlattenSeq(w) = <<>> /\ Len(<<>>) = 0 /\ 1 .. 0 = {}
    BY <2>3, FlattenEmpty
  <2>5. Good(u, w)
    BY <2>4 DEF Good, Corresponding
  <2>. QED BY <1>4, <2>5
<1>6. PICK v \in Seq(Seq(A)), x \in Seq(A) : u = Append(v, x)
  BY <1>5, SequenceEmptyOrAppend
<1>7. PICK z \in Seq(Seq(B)), y \in Seq(B) : w = Append(z, y)
  BY <1>5, SequenceEmptyOrAppend
<1>8. /\ Len(v) \in Nat /\ Len(u) = Len(v) + 1 /\ u[Len(v) + 1] = x /\ \A i \in 1 .. Len(v) : u[i] = v[i]
      /\ Len(z) \in Nat /\ Len(w) = Len(z) + 1 /\ w[Len(z) + 1] = y /\ \A i \in 1 .. Len(z) : w[i] = z[i]
  BY <1>6, <1>7, AppendProperties, LenProperties
<1>9. SameShape(v, z) /\ Len(x) = Len(y) /\ Len(v) = Len(z)
  <2>1. Len(v) = Len(z)
    <3>1. Len(u) = Len(w)
      BY <1>4 DEF SameShape
    <3>. QED BY <1>8, <3>1
  <2>2. \A r \in 1 .. Len(v) + 1 : Len(u[r]) = Len(w[r])
    BY <1>4, <1>8 DEF SameShape
  <2>3. Len(x) = Len(y)
    BY <1>8, <2>1, <2>2
  <2>4. ASSUME NEW r \in 1 .. Len(v) PROVE Len(v[r]) = Len(z[r])
    <3>1. r \in 1 .. Len(v) + 1 /\ u[r] = v[r] /\ w[r] = z[r]
      BY <1>8, <2>1
    <3>. QED BY <2>2, <3>1
  <2>. QED BY <2>1, <2>3, <2>4 DEF SameShape
<1>10. Good(v, z)
  <2>1. SUFFICES ASSUME ~Good(v, z) PROVE FALSE
    OBVIOUS
  <2>2. Len(v) \in T
    BY <1>0, <1>9, <2>1
  <2>3. n <= Len(v) /\ n = Len(v) + 1
    BY <1>3, <1>4, <1>8, <2>2
  <2>. QED BY <1>8, <2>3
<1> DEFINE f == FlattenSeq(v)
           g == FlattenSeq(z)
<1>11. f \in Seq(A) /\ g \in Seq(B) /\ FlattenSeq(u) = f \o x /\ FlattenSeq(w) = g \o y
  BY <1>6, <1>7, FlattenAppend
<1>12. Corresponding(v, z, f, g)
  BY <1>10 DEF Good
<1> HIDE DEF f, g
<1>13. Len(f) \in Nat /\ Len(x) \in Nat /\ Len(f) = Len(g)
  BY <1>11, <1>12, LenProperties DEF Corresponding
<1>14. /\ Len(f \o x) = Len(f) + Len(x) /\ Len(g \o y) = Len(f) + Len(x)
       /\ \A i \in 1 .. Len(f) + Len(x) : (f \o x)[i] = IF i <= Len(f) THEN f[i] ELSE x[i - Len(f)]
       /\ \A i \in 1 .. Len(f) + Len(x) : (g \o y)[i] = IF i <= Len(f) THEN g[i] ELSE y[i - Len(f)]
  <2>1. /\ Len(f \o x) = Len(f) + Len(x)
        /\ \A i \in 1 .. Len(f) + Len(x) : (f \o x)[i] = IF i <= Len(f) THEN f[i] ELSE x[i - Len(f)]
    BY <1>11, ConcatProperties
  <2>2. /\ Len(g \o y) = Len(g) + Len(y)
        /\ \A i \in 1 .. Len(g) + Len(y) : (g \o y)[i] = IF i <= Len(g) THEN g[i] ELSE y[i - Len(g)]
    BY <1>11, ConcatProperties
  <2>. QED BY <1>9, <1>13, <2>1, <2>2
<1>15. ASSUME NEW i \in 1 .. Len(f) + Len(x)
       PROVE  \E r \in 1 .. Len(u) : \E k \in 1 .. Len(u[r]) : (f \o x)[i] = u[r][k] /\ (g \o y)[i] = w[r][k]
  <2>1. CASE i <= Len(f)
    <3>1. i \in 1 .. Len(f)
      BY <1>13, <2>1
    <3>2. PICK r \in 1 .. Len(v) : \E k \in 1 .. Len(v[r]) : f[i] = v[r][k] /\ g[i] = z[r][k]
      BY <1>12, <3>1 DEF Corresponding
    <3>3. r \in 1 .. Len(u) /\ u[r] = v[r] /\ w[r] = z[r]
      BY <1>8, <1>9
    <3>4. (f \o x)[i] = f[i] /\ (g \o y)[i] = g[i]
      BY <1>14, <2>1
    <3>. QED BY <3>2, <3>3, <3>4
  <2>2. CASE ~(i <= Len(f))
    <3>1. i - Len(f) \in 1 .. Len(x)
      BY <1>13, <2>2
    <3>2. (f \o x)[i] = x[i - Len(f)] /\ (g \o y)[i] = y[i - Len(f)]
      BY <1>14, <2>2
    <3>3. Len(u) \in 1 .. Len(u) /\ u[Len(u)] = x /\ w[Len(u)] = y
      BY <1>8, <1>9
    <3>. QED BY <3>1, <3>2, <3>3
  <2>. QED BY <2>1, <2>2
<1>16. Good(u, w)
  <2>1. Corresponding(u, w, f \o x, g \o y)
    BY <1>14, <1>15 DEF Corresponding
  <2>. QED BY <1>11, <2>1, Zenon DEF Good
<1>. QED BY <1>4, <1>16

\* The parts from one place to another, flattened, are found together in the whole flattened.
LEMMA PartsAreTogether ==
  ASSUME NEW A, NEW r \in Seq(Seq(A)), NEW a \in 1 .. Len(r), NEW b \in a .. Len(r)
  PROVE  LET part == FlattenSeq(SubSeq(r, a, b))
             whole == FlattenSeq(r)
         IN  /\ part \in Seq(A) /\ whole \in Seq(A)
             /\ \E off \in Nat : /\ off + Len(part) <= Len(whole)
                                 /\ \A i \in 1 .. Len(part) : whole[off + i] = part[i]
<1> DEFINE before == SubSeq(r, 1, a - 1)
           within == SubSeq(r, a, b)
           after == SubSeq(r, b + 1, Len(r))
           x == FlattenSeq(before)
           y == FlattenSeq(within)
           z == FlattenSeq(after)
<1>1. /\ Len(r) \in Nat /\ a \in 1 .. Len(r) + 1 /\ b \in a - 1 .. Len(r) /\ Len(r) \in b .. Len(r)
      /\ 1 \in 1 .. Len(r) + 1 /\ a - 1 \in 0 .. Len(r) /\ Len(r) \in a - 1 .. Len(r)
      /\ a \in Int /\ b \in Int /\ a - 1 \in 1 - 1 .. Len(r)
  BY LenProperties
<1>2. \A i \in 1 .. Len(r) : r[i] \in Seq(A)
  BY ElementOfSeq
<1>3. before \in Seq(Seq(A)) /\ within \in Seq(Seq(A)) /\ after \in Seq(Seq(A))
  <2>1. before \in Seq(Seq(A))
    BY <1>1, <1>2, SubSeqProperties
  <2>2. within \in Seq(Seq(A))
    BY <1>1, <1>2, SubSeqProperties
  <2>3. after \in Seq(Seq(A))
    BY <1>1, <1>2, SubSeqProperties
  <2>. QED BY <2>1, <2>2, <2>3
<1>4. SubSeq(r, a, Len(r)) = within \o after
  BY <1>1, ConcatAdjacentSubSeq, Zenon
<1>5. r = before \o (within \o after)
  <2>1. before \o SubSeq(r, (a - 1) + 1, Len(r)) = SubSeq(r, 1, Len(r))
    BY <1>1, ConcatAdjacentSubSeq
  <2>2. SubSeq(r, 1, Len(r)) = r /\ (a - 1) + 1 = a
    BY <1>1, SubSeqFull
  <2> HIDE DEF before, within, after
  <2>. QED BY <1>4, <2>1, <2>2, Zenon
<1> HIDE DEF before, within, after
<1>6. x \in Seq(A) /\ y \in Seq(A) /\ z \in Seq(A) /\ FlattenSeq(r) \in Seq(A)
  BY <1>3, FlattenType
<1>7. FlattenSeq(r) = x \o (y \o z)
  <2>1. within \o after \in Seq(Seq(A))
    BY <1>3, ConcatProperties
  <2>2. FlattenSeq(within \o after) = y \o z
    BY <1>3, FlattenConcat
  <2>3. FlattenSeq(before \o (within \o after)) = x \o FlattenSeq(within \o after)
    BY <1>3, <2>1, FlattenConcat
  <2> HIDE DEF x, y, z
  <2>. QED BY <1>5, <2>2, <2>3, Zenon
<1> DEFINE w == FlattenSeq(r)
<1> HIDE DEF x, y, z, w
<1>8. Len(x) \in Nat /\ Len(y) \in Nat /\ Len(z) \in Nat
  BY <1>6, LenProperties
<1>9. /\ y \o z \in Seq(A) /\ Len(y \o z) = Len(y) + Len(z)
      /\ \A i \in 1 .. Len(y) + Len(z) : (y \o z)[i] = IF i <= Len(y) THEN y[i] ELSE z[i - Len(y)]
  BY <1>6, ConcatProperties
<1>10. /\ Len(w) = Len(x) + (Len(y) + Len(z))
       /\ \A i \in 1 .. Len(x) + (Len(y) + Len(z)) : w[i] = IF i <= Len(x) THEN x[i] ELSE (y \o z)[i - Len(x)]
  <2>1. w = x \o (y \o z)
    BY <1>7 DEF w
  <2>2. /\ Len(x \o (y \o z)) = Len(x) + Len(y \o z)
        /\ \A i \in 1 .. Len(x) + Len(y \o z) : (x \o (y \o z))[i] = IF i <= Len(x) THEN x[i] ELSE (y \o z)[i - Len(x)]
    BY <1>6, <1>9, ConcatProperties
  <2>. QED BY <1>9, <2>1, <2>2, Zenon
<1>11. ASSUME NEW i \in 1 .. Len(y)
       PROVE  w[Len(x) + i] = y[i]
  <2>1. Len(x) + i \in 1 .. Len(x) + (Len(y) + Len(z)) /\ ~(Len(x) + i <= Len(x)) /\ (Len(x) + i) - Len(x) = i
    BY <1>8
  <2>2. i \in 1 .. Len(y) + Len(z) /\ i <= Len(y)
    BY <1>8
  <2>3. w[Len(x) + i] = (y \o z)[(Len(x) + i) - Len(x)]
    BY <1>10, <2>1, Zenon
  <2>. QED BY <1>9, <2>1, <2>2, <2>3, Zenon
<1>12. Len(x) + Len(y) <= Len(w)
  BY <1>8, <1>10
<1>. QED BY <1>6, <1>8, <1>11, <1>12 DEF w, y, within

-----------------------------------------------------------------------------
(* Verification.                                                           *)

\* The rows of a verified span are rows of its block.
LEMMA RowsOfVerified ==
  ASSUME EvidenceAssumption, NEW span \in Span, Verified(span)
  PROVE  LET block == Blocks[span.block]
             a == span.first - block.first + 1
             b == span.last - block.first + 1
         IN  /\ span.block \in DOMAIN Blocks /\ block.first \in Nat /\ block.rows \in Seq(Seq(STRING))
             /\ span.first \in Nat /\ span.last \in Nat /\ span.quote \in Seq(STRING)
             /\ a \in 1 .. Len(block.rows) /\ b \in a .. Len(block.rows)
             /\ span.first > 0 => block.first > 0
<1> DEFINE block == Blocks[span.block]
           rows == block.rows
           a == span.first - block.first + 1
           b == span.last - block.first + 1
<1>1. span.block \in DOMAIN Blocks
  BY DEF Verified
<1>2. block.first \in Nat /\ rows \in Seq(Seq(STRING)) /\ (block.first = 0 => Len(rows) = 1)
  BY <1>1, Zenon DEF EvidenceAssumption
<1>3. span.first \in Nat /\ span.last \in Nat /\ span.quote \in Seq(STRING)
  BY DEF Span
<1>4. IF block.first > 0 /\ span.first > 0
      THEN span.first >= block.first /\ span.last <= block.first + Len(rows) - 1
      ELSE span.first = block.first /\ (block.first = 0 => span.last = 0)
  BY DEF Verified, LastRow
<1>5. span.quote # <<>> /\ OccursIn(span.quote, FlattenSeq(SubSeq(rows, a, b)))
  BY DEF Verified, RowsOf
<1> HIDE DEF block
<1>6. Len(rows) \in Nat
  BY <1>2, LenProperties
<1>7. a >= 1 /\ b <= Len(rows) /\ (span.first > 0 => block.first > 0)
  <2>1. ASSUME NEW f \in Nat, NEW n \in Nat, NEW x \in Nat, NEW y \in Nat, f = 0 => n = 1,
               IF f > 0 /\ x > 0 THEN x >= f /\ y <= f + n - 1 ELSE x = f /\ (f = 0 => y = 0)
        PROVE  x - f + 1 >= 1 /\ y - f + 1 <= n /\ (x > 0 => f > 0)
    BY <2>1
  <2>. QED BY <1>2, <1>3, <1>4, <1>6, <2>1
<1>8. a \in Int /\ b \in Int
  BY <1>2, <1>3
<1> HIDE DEF a, b
<1>9. a <= b
  <2>1. SUFFICES ASSUME b < a PROVE FALSE
    BY <1>8
  <2>2. FlattenSeq(SubSeq(rows, a, b)) = <<>>
    BY <1>8, <2>1, SubSeqEmpty, FlattenEmpty
  <2>3. Len(span.quote) \in Nat /\ Len(span.quote) # 0 /\ Len(<<>>) = 0
    BY <1>3, <1>5, EmptySeq, LenProperties
  <2>4. PICK k \in 0 .. Len(<<>>) - Len(span.quote) : TRUE
    BY <1>5, <2>2 DEF OccursIn
  <2>. QED BY <2>3, <2>4
<1>. QED BY <1>1, <1>2, <1>3, <1>6, <1>7, <1>8, <1>9 DEF a, b, block

\* Where a record's quote stands.
QuoteStands(span) ==
    LET words == Words(Blocks[span.block])
    IN  \E at \in 0 .. Len(words) - Len(span.quote) :
            \A i \in 1 .. Len(span.quote) : /\ words[at + i].word = span.quote[i]
                                            /\ span.first > 0 => words[at + i].row \in span.first .. span.last

\* A verified quote is in its rows.
LEMMA VerifiedStands ==
  ASSUME EvidenceAssumption, NEW span \in Span, Verified(span)
  PROVE  QuoteStands(span)
<1> DEFINE block == Blocks[span.block]
           rows == block.rows
           a == span.first - block.first + 1
           b == span.last - block.first + 1
           row(r) == IF block.first = 0 THEN 0 ELSE block.first + r - 1
           tag(r) == [k \in DOMAIN rows[r] |-> [word |-> rows[r][k], row |-> row(r)]]
           tagged == [r \in DOMAIN rows |-> tag(r)]
           R == [word : STRING, row : Int]
           quote == span.quote
<1>1. /\ block.first \in Nat /\ rows \in Seq(Seq(STRING))
      /\ span.first \in Nat /\ span.last \in Nat /\ quote \in Seq(STRING)
      /\ a \in 1 .. Len(rows) /\ b \in a .. Len(rows)
      /\ span.first > 0 => block.first > 0
  BY RowsOfVerified
<1>2. Words(block) = FlattenSeq(tagged)
  BY DEF Words
<1>3. OccursIn(quote, FlattenSeq(SubSeq(rows, a, b)))
  BY DEF Verified, RowsOf
<1> HIDE DEF block, R
<1>4. /\ Len(rows) \in Nat /\ DOMAIN rows = 1 .. Len(rows)
      /\ \A r \in 1 .. Len(rows) : rows[r] \in Seq(STRING)
  BY <1>1, LenProperties, ElementOfSeq
<1>5. ASSUME NEW r \in 1 .. Len(rows)
      PROVE  /\ tag(r) \in Seq(R) /\ Len(tag(r)) = Len(rows[r])
             /\ \A k \in 1 .. Len(rows[r]) : tag(r)[k] = [word |-> rows[r][k], row |-> row(r)]
  <2>1. row(r) \in Int
    BY <1>1, <1>4
  <2>2. DOMAIN rows[r] = 1 .. Len(rows[r]) /\ Len(rows[r]) \in Nat /\ \A k \in 1 .. Len(rows[r]) : rows[r][k] \in STRING
    BY <1>4
  <2> HIDE DEF row
  <2>3. tag(r) \in [1 .. Len(rows[r]) -> R]
    BY <2>1, <2>2 DEF R
  <2>. QED BY <2>2, <2>3
<1>6. tagged \in Seq(Seq(R)) /\ Len(tagged) = Len(rows) /\ \A r \in 1 .. Len(rows) : tagged[r] = tag(r)
  <2> HIDE DEF tag
  <2>1. tagged \in [1 .. Len(rows) -> Seq(R)]
    BY <1>4, <1>5
  <2>. QED BY <1>4, <2>1
<1> HIDE DEF tagged, tag, a, b, rows
<1> DEFINE s == SubSeq(rows, a, b)
           t == SubSeq(tagged, a, b)
           n == b - a + 1
<1>7. a \in Int /\ b \in Int /\ n \in Nat /\ a <= b /\ \A r \in 1 .. n : a + r - 1 \in 1 .. Len(rows)
  BY <1>1, <1>4
<1>8. s \in Seq(Seq(STRING)) /\ Len(s) = n /\ \A r \in 1 .. n : s[r] = rows[a + r - 1]
  <2>1. \A i \in a .. b : rows[i] \in Seq(STRING)
    BY <1>1, <1>4
  <2>. QED BY <1>7, <2>1, SubSeqProperties
<1>9. t \in Seq(Seq(R)) /\ Len(t) = n /\ \A r \in 1 .. n : t[r] = tag(a + r - 1)
  <2>1. \A i \in a .. b : tagged[i] \in Seq(R)
    BY <1>1, <1>4, <1>5, <1>6
  <2>2. t \in Seq(Seq(R)) /\ Len(t) = n /\ \A r \in 1 .. n : t[r] = tagged[a + r - 1]
    BY <1>7, <2>1, SubSeqProperties
  <2>. QED BY <1>6, <1>7, <2>2
<1> HIDE DEF s, t, n
<1>10. SameShape(s, t)
  BY <1>5, <1>7, <1>8, <1>9 DEF SameShape
<1> DEFINE text == FlattenSeq(s)
           told == FlattenSeq(t)
           words == FlattenSeq(tagged)
<1>11. Corresponding(s, t, text, told)
  BY <1>8, <1>9, <1>10, FlattenShape
<1>12. PICK off \in Nat : off + Len(told) <= Len(words) /\ \A i \in 1 .. Len(told) : words[off + i] = told[i]
  <2>1. a \in 1 .. Len(tagged) /\ b \in a .. Len(tagged)
    BY <1>1, <1>6
  <2>. QED BY <1>6, <2>1, PartsAreTogether DEF t
<1>13. text \in Seq(STRING) /\ words \in Seq(R)
  BY <1>6, <1>8, FlattenType
<1> HIDE DEF text, told, words
<1>14. Len(text) \in Nat /\ Len(told) = Len(text) /\ Len(quote) \in Nat /\ Len(words) \in Nat
  BY <1>1, <1>11, <1>13, LenProperties DEF Corresponding
<1>15. PICK k \in 0 .. Len(text) - Len(quote) : SubSeq(text, k + 1, k + Len(quote)) = quote
  BY <1>3 DEF OccursIn, text, s
<1>16. ASSUME NEW i \in 1 .. Len(quote)
       PROVE  k + i \in 1 .. Len(text) /\ text[k + i] = quote[i]
  <2>1. k + i \in 1 .. Len(text) /\ k + 1 \in Int /\ k + Len(quote) \in Int
    BY <1>14, <1>15
  <2>2. \A j \in k + 1 .. k + Len(quote) : text[j] \in STRING
    BY <1>13, <1>14, <1>15, ElementOfSeq
  <2>3. \A j \in 1 .. (k + Len(quote)) - (k + 1) + 1 : SubSeq(text, k + 1, k + Len(quote))[j] = text[(k + 1) + j - 1]
    BY <2>1, <2>2, SubSeqProperties
  <2>4. i \in 1 .. (k + Len(quote)) - (k + 1) + 1 /\ (k + 1) + i - 1 = k + i
    BY <1>14, <1>15
  <2>. QED BY <1>15, <2>1, <2>3, <2>4
<1>17. ASSUME NEW j \in 1 .. Len(text)
       PROVE  told[j].word = text[j] /\ (span.first > 0 => told[j].row \in span.first .. span.last)
  <2>1. PICK r \in 1 .. Len(s) : \E m \in 1 .. Len(s[r]) : text[j] = s[r][m] /\ told[j] = t[r][m]
    BY <1>11 DEF Corresponding
  <2>2. PICK m \in 1 .. Len(s[r]) : text[j] = s[r][m] /\ told[j] = t[r][m]
    BY <2>1
  <2>3. r \in 1 .. n /\ a + r - 1 \in 1 .. Len(rows) /\ s[r] = rows[a + r - 1] /\ t[r] = tag(a + r - 1)
    BY <1>7, <1>8, <1>9
  <2>4. told[j] = [word |-> rows[a + r - 1][m], row |-> row(a + r - 1)]
    BY <1>5, <2>2, <2>3
  <2>5. span.first > 0 => row(a + r - 1) \in span.first .. span.last
    <3>1. r \in 1 .. b - a + 1
      BY <2>3 DEF n
    <3>2. /\ block.first \in Nat /\ span.first \in Nat /\ span.last \in Nat
          /\ r \in Nat /\ 1 <= r /\ r <= b - a + 1
          /\ span.first > 0 => block.first # 0
      BY <1>1, <1>7, <3>1
    <3>3. ASSUME NEW f \in Nat, NEW x \in Nat, NEW y \in Nat, f # 0, r <= (y - f + 1) - (x - f + 1) + 1
          PROVE  f + ((x - f + 1) + r - 1) - 1 \in x .. y
      BY <3>2, <3>3
    <3>4. span.first > 0 => block.first + (a + r - 1) - 1 \in span.first .. span.last
      BY <3>2, <3>3 DEF a, b
    <3>. QED BY <3>2, <3>4
  <2> HIDE DEF row
  <2>. QED BY <2>2, <2>3, <2>4, <2>5
<1>18. ASSUME NEW i \in 1 .. Len(quote)
       PROVE  words[(off + k) + i] = told[k + i]
  BY <1>12, <1>14, <1>15, <1>16
<1>19. off + k \in 0 .. Len(words) - Len(quote)
  BY <1>12, <1>14, <1>15
<1>20. \E at \in 0 .. Len(words) - Len(quote) :
          \A i \in 1 .. Len(quote) : /\ words[at + i].word = quote[i]
                                     /\ span.first > 0 => words[at + i].row \in span.first .. span.last
  BY <1>16, <1>17, <1>18, <1>19
<1>. QED BY <1>2, <1>20 DEF QuoteStands, words, block

-----------------------------------------------------------------------------
(* Every claim is recorded, once, where it stands.                         *)

EvidenceRecord == [meaning : STRING, span : Span, local : STRING]

EvidenceSource == EvidenceRecord \cup Observation \cup Fact

\* A claim names its span.
LEMMA SpansOfClaims ==
  ASSUME NEW o
  PROVE  {x.span : x \in ToSet(o)} = {c[2] : c \in Claimed(o)}
<1> DEFINE T == ToSet(o)
<1>1. \A x : Key(x)[2] = x.span
  BY DEF Key
<1>2. Claimed(o) = {Key(x) : x \in T}
  BY DEF Claimed
<1> HIDE DEF T
<1>3. {c[2] : c \in {Key(x) : x \in T}} = {x.span : x \in T}
  <2>1. ASSUME NEW c \in {Key(x) : x \in T} PROVE c[2] \in {x.span : x \in T}
    BY <1>1
  <2>2. ASSUME NEW x \in T PROVE \E c \in {Key(y) : y \in T} : c[2] = x.span
    <3>1. Key(x) \in {Key(y) : y \in T}
      OBVIOUS
    <3>. QED BY <1>1, <3>1
  <2>. QED BY <2>1, <2>2
<1>. QED BY <1>2, <1>3 DEF T

\* A sequence of what is observed, put in a dictionary.
LEMMA DictionaryFacts ==
  ASSUME NEW o \in Seq(EvidenceSource), AllVerified(o)
  PROVE  /\ FirstOfEach(o) \in Seq(EvidenceRecord)
         /\ AllVerified(FirstOfEach(o))
         /\ Claimed(FirstOfEach(o)) = Claimed(o)
         /\ Len(FirstOfEach(o)) = Cardinality(Claimed(o))
         /\ ToSet(SpansOf(o)) = {c[2] : c \in Claimed(o)}
         /\ Len(SpansOf(o)) = Cardinality(ToSet(SpansOf(o)))
<1> DEFINE s == FirstOfEach(o)
<1>1. /\ s \in Seq({Record(x) : x \in EvidenceSource})
      /\ Claimed(s) = Claimed(o)
      /\ Len(s) = Cardinality(Claimed(o))
      /\ \A k \in 1 .. Len(s) : \E i \in 1 .. Len(o) : s[k] = Record(o[i])
  BY RecordFacts
<1>2. /\ ToSet(SpansOf(o)) = {x.span : x \in ToSet(o)}
      /\ Len(SpansOf(o)) = Cardinality(ToSet(SpansOf(o)))
  BY SpanFacts
<1> HIDE DEF s
<1>3. DOMAIN s = 1 .. Len(s) /\ DOMAIN o = 1 .. Len(o) /\ Len(s) \in Nat
  BY <1>1
<1>4. ASSUME NEW x \in EvidenceSource
      PROVE  Record(x) \in EvidenceRecord
  <2>1. x \in EvidenceRecord \/ x \in Observation \/ x \in Fact
    BY DEF EvidenceSource
  <2>2. x.meaning \in STRING /\ x.span \in Span /\ x.local \in STRING
    BY <2>1 DEF EvidenceRecord, Observation, Fact
  <2>. QED BY <2>2 DEF Record, EvidenceRecord
<1>5. s \in Seq(EvidenceRecord)
  <2>1. \A k \in 1 .. Len(s) : s[k] \in EvidenceRecord
    BY <1>1, <1>4, ElementOfSeq
  <2>. QED BY <1>1, <1>3, <2>1, SeqDef
<1>6. AllVerified(s)
  <2>1. ASSUME NEW k \in DOMAIN s
        PROVE  Verified(s[k].span)
    <3>1. PICK i \in 1 .. Len(o) : s[k] = Record(o[i])
      BY <1>1, <1>3
    <3>2. s[k].span = o[i].span
      BY <3>1 DEF Record
    <3>3. Verified(o[i].span)
      BY <1>3 DEF AllVerified
    <3>. QED BY <3>2, <3>3
  <2>. QED BY <2>1 DEF AllVerified
<1>7. {x.span : x \in ToSet(o)} = {c[2] : c \in Claimed(o)}
  BY SpansOfClaims
<1>. QED BY <1>1, <1>2, <1>5, <1>6, <1>7 DEF s

\* What is to be in evidence.
ClaimsKept == Claimed(facts) \cup UNION {Claimed(batches[k]) : k \in DOMAIN batches \ lost}

Dictionaries ==
    /\ Claimed(records) = ClaimsKept /\ Len(records) = Cardinality(ClaimsKept)
    /\ ToSet(spans) = {c[2] : c \in ClaimsKept} /\ Len(spans) = Cardinality(ToSet(spans))

EvidenceInv ==
    /\ evidenceStage \in {"native", "priorities", "regions", "raised"}
    /\ facts \in Seq(Fact) /\ batches \in Seq(Seq(Observation)) /\ lost \subseteq DOMAIN batches
    /\ records \in Seq(EvidenceRecord) /\ AllVerified(records)
    /\ evidenceStage \in {"native", "priorities"} => batches = <<>>
    /\ evidenceStage \in {"priorities", "regions"} => Dictionaries

LEMMA EvidenceInitInv == EvidenceInit => EvidenceInv
<1> SUFFICES ASSUME EvidenceInit PROVE EvidenceInv
  OBVIOUS
<1>1. <<>> \in Seq(Fact) /\ <<>> \in Seq(Seq(Observation)) /\ <<>> \in Seq(EvidenceRecord) /\ DOMAIN <<>> = {}
  OBVIOUS
<1>. QED BY <1>1, Zenon DEF EvidenceInit, EvidenceInv, AllVerified

LEMMA PrepareNativeInv == EvidenceAssumption /\ EvidenceInv /\ PrepareNative => EvidenceInv'
<1> SUFFICES ASSUME EvidenceAssumption, EvidenceInv, PrepareNative PROVE EvidenceInv'
  OBVIOUS
<1>1. PICK offered \in Natives :
            /\ facts' = offered
            /\ IF AllVerified(offered)
               THEN records' = FirstOfEach(offered) /\ spans' = SpansOf(offered) /\ evidenceStage' = "priorities"
               ELSE evidenceStage' = "raised" /\ UNCHANGED <<records, spans>>
  BY Zenon DEF PrepareNative
<1>2. batches = <<>> /\ UNCHANGED batches /\ UNCHANGED lost
  BY DEF PrepareNative, EvidenceInv
<1>3. offered \in Seq(Fact)
  BY Zenon DEF EvidenceAssumption
<1>4. CASE AllVerified(offered)
  <2>1. records' = FirstOfEach(offered) /\ spans' = SpansOf(offered) /\ evidenceStage' = "priorities"
    BY <1>1, <1>4
  <2>2. offered \in Seq(EvidenceSource)
    BY <1>3 DEF EvidenceSource
  <2>3. ClaimsKept' = Claimed(offered)
    <3>1. DOMAIN batches' \ lost' = {}
      BY <1>2
    <3>2. ClaimsKept' = Claimed(facts') \cup UNION {Claimed(batches'[k]) : k \in DOMAIN batches' \ lost'}
      BY DEF ClaimsKept, Claimed
    <3> DEFINE C == Claimed(offered)
    <3> HIDE DEF C
    <3>3. ClaimsKept' = C \cup UNION {Claimed(batches'[k]) : k \in {}}
      BY <1>1, <3>1, <3>2, Zenon DEF C
    <3>. QED BY <3>3 DEF C
  <2>4. Dictionaries'
    <3>1. /\ Claimed(records') = ClaimsKept' /\ Len(records') = Cardinality(ClaimsKept')
          /\ ToSet(spans') = {c[2] : c \in ClaimsKept'} /\ Len(spans') = Cardinality(ToSet(spans'))
      BY <1>4, <2>1, <2>2, <2>3, DictionaryFacts
    <3>. QED BY <3>1, Zenon DEF Dictionaries, Claimed
  <2>5. records' \in Seq(EvidenceRecord) /\ AllVerified(records')
    BY <1>4, <2>1, <2>2, DictionaryFacts
  <2>6. AllVerified(records)'
    BY <2>5 DEF AllVerified, Verified
  <2>. QED BY <1>1, <1>2, <1>3, <2>1, <2>4, <2>5, <2>6 DEF EvidenceInv
<1>5. CASE ~AllVerified(offered)
  <2>1. evidenceStage' = "raised" /\ UNCHANGED records
    BY <1>1, <1>5
  <2>2. AllVerified(records)'
    BY <2>1 DEF EvidenceInv, AllVerified, Verified
  <2>. QED BY <1>1, <1>2, <1>3, <2>1, <2>2 DEF EvidenceInv
<1>. QED BY <1>4, <1>5

LEMMA UnchangedInv ==
  EvidenceInv /\ UNCHANGED <<facts, batches, records, spans, lost>> /\ evidenceStage \in {"priorities", "regions"}
     /\ evidenceStage' \in {"regions", "raised"} => EvidenceInv'
<1> SUFFICES ASSUME EvidenceInv, UNCHANGED <<facts, batches, records, spans, lost>>,
                    evidenceStage \in {"priorities", "regions"}, evidenceStage' \in {"regions", "raised"}
             PROVE  EvidenceInv'
  OBVIOUS
<1>1. Dictionaries'
  BY DEF EvidenceInv, Dictionaries, ClaimsKept, Claimed
<1>2. AllVerified(records)'
  BY DEF EvidenceInv, AllVerified, Verified
<1>. QED BY <1>1, <1>2 DEF EvidenceInv

LEMMA MergeBatchInv == EvidenceAssumption /\ EvidenceInv /\ MergeBatch => EvidenceInv'
<1> SUFFICES ASSUME EvidenceAssumption, EvidenceInv, MergeBatch PROVE EvidenceInv'
  OBVIOUS
<1>1. PICK batch \in Replies :
            LET merged == records \o (IF Taken(batch) THEN batch ELSE <<>>)
            IN  /\ batches' = Append(batches, batch)
                /\ records' = FirstOfEach(merged) /\ spans' = SpansOf(merged)
                /\ lost' = IF Taken(batch) THEN lost ELSE lost \cup {Len(batches) + 1}
  BY Zenon DEF MergeBatch
<1>2. evidenceStage = "regions" /\ UNCHANGED evidenceStage /\ UNCHANGED facts
  BY DEF MergeBatch
<1>3. batch \in Seq(Observation)
  BY Zenon DEF EvidenceAssumption
<1> DEFINE added == IF Taken(batch) THEN batch ELSE <<>>
           merged == records \o added
           n == Len(batches)
<1>4. added \in Seq(EvidenceSource) /\ AllVerified(added)
  <2>1. CASE Taken(batch)
    <3>1. added = batch
      BY <2>1
    <3>2. AllVerified(batch)
      BY <2>1 DEF Taken
    <3>. QED BY <1>3, <3>1, <3>2 DEF EvidenceSource
  <2>2. CASE ~Taken(batch)
    <3>1. added = <<>>
      BY <2>2
    <3>2. DOMAIN <<>> = {} /\ <<>> \in Seq(EvidenceSource)
      OBVIOUS
    <3> HIDE DEF added
    <3>3. AllVerified(<<>>)
      BY <3>2, Zenon DEF AllVerified
    <3>. QED BY <3>1, <3>2, <3>3
  <2>. QED BY <2>1, <2>2
<1>5. records \in Seq(EvidenceSource) /\ AllVerified(records) /\ Dictionaries
  BY <1>2 DEF EvidenceInv, EvidenceSource
<1> HIDE DEF added
<1>6. merged \in Seq(EvidenceSource) /\ AllVerified(merged) /\ Claimed(merged) = Claimed(records) \cup Claimed(added)
  <2>1. /\ merged \in Seq(EvidenceSource) /\ Len(merged) = Len(records) + Len(added)
        /\ \A i \in 1 .. Len(merged) : merged[i] = IF i <= Len(records) THEN records[i] ELSE added[i - Len(records)]
    BY <1>4, <1>5, ConcatProperties
  <2>2. /\ Len(records) \in Nat /\ Len(added) \in Nat
        /\ DOMAIN merged = 1 .. Len(merged) /\ DOMAIN records = 1 .. Len(records) /\ DOMAIN added = 1 .. Len(added)
    BY <1>4, <1>5, <2>1
  <2> HIDE DEF merged
  <2>3. \A i \in 1 .. Len(records) : i \in 1 .. Len(merged) /\ merged[i] = records[i]
    BY <2>1, <2>2
  <2>4. \A i \in 1 .. Len(added) : Len(records) + i \in 1 .. Len(merged) /\ merged[Len(records) + i] = added[i]
    <3>1. ASSUME NEW i \in 1 .. Len(added)
          PROVE  /\ Len(records) + i \in 1 .. Len(merged) /\ ~(Len(records) + i <= Len(records))
                 /\ (Len(records) + i) - Len(records) = i
      BY <2>1, <2>2
    <3>. QED BY <2>1, <3>1
  <2>5. \A i \in 1 .. Len(merged) : \/ i \in 1 .. Len(records) /\ merged[i] = records[i]
                                    \/ i - Len(records) \in 1 .. Len(added) /\ merged[i] = added[i - Len(records)]
    BY <2>1, <2>2
  <2>6. AllVerified(merged)
    BY <1>4, <1>5, <2>2, <2>5 DEF AllVerified
  <2>7. /\ Claimed(merged) = {Key(merged[i]) : i \in 1 .. Len(merged)}
        /\ Claimed(records) = {Key(records[i]) : i \in 1 .. Len(records)}
        /\ Claimed(added) = {Key(added[i]) : i \in 1 .. Len(added)}
    BY <2>2 DEF Claimed, ToSet
  <2>8. Claimed(merged) \subseteq Claimed(records) \cup Claimed(added)
    BY <2>5, <2>7
  <2>9. Claimed(records) \subseteq Claimed(merged)
    BY <2>3, <2>7
  <2>10. Claimed(added) \subseteq Claimed(merged)
    <3>1. ASSUME NEW i \in 1 .. Len(added)
          PROVE  Key(added[i]) \in Claimed(merged)
      BY <2>4, <2>7
    <3>. QED BY <2>7, <3>1
  <2>. QED BY <2>1, <2>6, <2>8, <2>9, <2>10
<1>7. records' = FirstOfEach(merged) /\ spans' = SpansOf(merged) /\ batches' = Append(batches, batch)
  BY <1>1, Zenon DEF added
<1>8. lost' = IF Taken(batch) THEN lost ELSE lost \cup {n + 1}
  BY <1>1, Zenon
<1> HIDE DEF merged
<1>9. /\ batches' \in Seq(Seq(Observation)) /\ DOMAIN batches' = 1 .. n + 1 /\ n \in Nat /\ DOMAIN batches = 1 .. n
      /\ batches'[n + 1] = batch /\ \A k \in 1 .. n : batches'[k] = batches[k]
  <2>1. batches \in Seq(Seq(Observation))
    BY DEF EvidenceInv
  <2>. QED BY <1>3, <1>7, <2>1, AppendProperties, LenProperties
<1>10. lost \subseteq 1 .. n /\ lost' \subseteq DOMAIN batches'
  <2>1. lost \subseteq 1 .. n
    BY <1>9 DEF EvidenceInv
  <2>2. lost' \subseteq lost \cup {n + 1}
    BY <1>8
  <2>. QED BY <1>9, <2>1, <2>2
<1>11. ClaimsKept' = ClaimsKept \cup Claimed(added)
  <2> DEFINE good == DOMAIN batches \ lost
             goodAfter == DOMAIN batches' \ lost'
  <2>1. ClaimsKept = Claimed(facts) \cup UNION {Claimed(batches[k]) : k \in good}
    BY DEF ClaimsKept
  <2>2. ClaimsKept' = Claimed(facts) \cup UNION {Claimed(batches'[k]) : k \in goodAfter}
    BY <1>2 DEF ClaimsKept, Claimed
  <2>3. good \subseteq 1 .. n /\ \A k \in good : batches'[k] = batches[k]
    BY <1>9
  <2>4. CASE Taken(batch)
    <3>1. goodAfter = good \cup {n + 1}
      BY <1>8, <1>9, <1>10, <2>4
    <3>2. added = batch
      BY <2>4 DEF added
    <3> HIDE DEF good, goodAfter
    <3>3. UNION {Claimed(batches'[k]) : k \in goodAfter} = (UNION {Claimed(batches[k]) : k \in good}) \cup Claimed(batch)
      BY <1>9, <2>3, <3>1
    <3>. QED BY <2>1, <2>2, <3>2, <3>3
  <2>5. CASE ~Taken(batch)
    <3>1. goodAfter = good
      BY <1>8, <1>9, <1>10, <2>5
    <3>2. Claimed(added) = {}
      BY <2>5 DEF added, Claimed, ToSet
    <3> HIDE DEF good, goodAfter
    <3>3. UNION {Claimed(batches'[k]) : k \in goodAfter} = UNION {Claimed(batches[k]) : k \in good}
      BY <2>3, <3>1
    <3>. QED BY <2>1, <2>2, <3>2, <3>3
  <2>. QED BY <2>4, <2>5
<1>12. Claimed(merged) = ClaimsKept'
  BY <1>5, <1>6, <1>11 DEF Dictionaries
<1>13. Dictionaries'
  <2>1. /\ Claimed(records') = ClaimsKept' /\ Len(records') = Cardinality(ClaimsKept')
        /\ ToSet(spans') = {c[2] : c \in ClaimsKept'} /\ Len(spans') = Cardinality(ToSet(spans'))
    BY <1>6, <1>7, <1>12, DictionaryFacts
  <2>. QED BY <2>1, Zenon DEF Dictionaries, Claimed
<1>14. records' \in Seq(EvidenceRecord) /\ AllVerified(records')
  BY <1>6, <1>7, DictionaryFacts
<1>15. AllVerified(records)'
  BY <1>14 DEF AllVerified, Verified
<1>16. facts' \in Seq(Fact)
  BY <1>2 DEF EvidenceInv
<1>. QED BY <1>2, <1>9, <1>10, <1>13, <1>14, <1>15, <1>16 DEF EvidenceInv

\* The records of the states the invariant holds in.
LEMMA EvidenceInvImplies == EvidenceAssumption /\ EvidenceInv => ClaimsAreRecorded
<1> SUFFICES ASSUME EvidenceAssumption, EvidenceInv PROVE ClaimsAreRecorded
  OBVIOUS
<1>1. QuotesStand
  <2>1. ASSUME NEW k \in DOMAIN records
        PROVE  QuoteStands(records[k].span)
    <3>1. records[k] \in EvidenceRecord /\ Verified(records[k].span)
      BY DEF EvidenceInv, AllVerified
    <3>2. records[k].span \in Span
      BY <3>1 DEF EvidenceRecord
    <3>. QED BY <3>1, <3>2, VerifiedStands
  <2>. QED BY <2>1, Zenon DEF QuotesStand, QuoteStands
<1>2. EachClaimOnce
  <2>1. SUFFICES ASSUME evidenceStage \in {"priorities", "regions"}
                 PROVE  EachClaimOnce
    BY DEF EachClaimOnce
  <2>2. Dictionaries
    BY <2>1 DEF EvidenceInv
  <2> DEFINE kept == {<<o.meaning, o.span>> : o \in ToSet(facts)}
                        \cup {<<o.meaning, o.span>> : o \in UNION {ToSet(batches[k]) : k \in DOMAIN batches \ lost}}
  <2>3. kept = ClaimsKept
    BY DEF ClaimsKept, Claimed, Key
  <2>4. {<<r.meaning, r.span>> : r \in ToSet(records)} = Claimed(records)
    BY DEF Claimed, Key
  <2>5. {r.span : r \in ToSet(records)} = {c[2] : c \in Claimed(records)}
    BY SpansOfClaims
  <2> HIDE DEF kept
  <2>6. /\ {<<r.meaning, r.span>> : r \in ToSet(records)} = kept /\ Len(records) = Cardinality(kept)
        /\ ToSet(spans) = {r.span : r \in ToSet(records)} /\ Len(spans) = Cardinality(ToSet(spans))
    BY <2>2, <2>3, <2>4, <2>5, Zenon DEF Dictionaries
  <2>. QED BY <2>6, Zenon DEF EachClaimOnce, kept
<1>. QED BY <1>1, <1>2 DEF ClaimsAreRecorded

\* The records are what the native source and the regions that did not fail have observed: every claim once, none
\* that was not made, each with a quote that stands in the rows of the document its span names.
THEOREM ClaimsAreRecordedAlways == EvidenceAssumption => (EvidenceSpec => []ClaimsAreRecorded)
<1> SUFFICES ASSUME EvidenceAssumption PROVE EvidenceSpec => []ClaimsAreRecorded
  OBVIOUS
<1>1. EvidenceInv /\ [EvidenceNext]_evidenceVars => EvidenceInv'
  <2> SUFFICES ASSUME EvidenceInv, [EvidenceNext]_evidenceVars PROVE EvidenceInv'
    OBVIOUS
  <2>1. CASE PrepareNative
    BY <2>1, PrepareNativeInv
  <2>2. CASE AttachPriorities
    BY <2>2, UnchangedInv DEF AttachPriorities
  <2>3. CASE MergeBatch
    BY <2>3, MergeBatchInv
  <2>4. CASE UNCHANGED evidenceVars
    <3>1. UNCHANGED <<evidenceStage, facts, batches, records, spans, lost>>
      BY <2>4 DEF evidenceVars
    <3>2. AllVerified(records)'
      BY <3>1 DEF EvidenceInv, AllVerified, Verified
    <3>3. Dictionaries' = Dictionaries
      BY <3>1 DEF Dictionaries, ClaimsKept, Claimed
    <3>. QED BY <3>1, <3>2, <3>3 DEF EvidenceInv
  <2>. QED BY <2>1, <2>2, <2>3, <2>4 DEF EvidenceNext
<1>2. EvidenceInv => ClaimsAreRecorded
  BY EvidenceInvImplies
<1>. QED BY <1>1, <1>2, EvidenceInitInv, PTL DEF EvidenceSpec
=============================================================================
