--------------------------- MODULE RoutingInventory ---------------------------
(***************************************************************************)
(* From the logical items of a source to canonical routing nodes: the      *)
(* inventory and its hierarchy (routing/inventory.py), the identities and  *)
(* the resolution of references (routing/identity.py), the nodes           *)
(* (routing/native.py), beside the second resolver of the audit and the    *)
(* invariants the models enforce (models/routing.py).                      *)
(*                                                                         *)
(* Simplifications: an identity is a name, and normalization says which    *)
(* names are the same; digests of different inputs differ.  Labels, blocks *)
(* and quotes are left out (RoutingEvidence is about those).               *)
(***************************************************************************)
EXTENDS Integers, FiniteSets, Sequences, SequencesExt

CONSTANTS
    Extractions, \* sequences of [local, printed, raw, path, order, kind, parent, repeat, first, links]
    Variables,   \* the names of the survey's variables, in order
    AliasOf,     \* the normalized form of an item name; "" if nothing is left of it
    SlugOf,      \* the normalized form of a part of a section path; "" if nothing is left of it
    Defaults     \* section paths of the items that refer to others

InventoryAssumption == "" \notin DOMAIN AliasOf /\ Variables \in Seq(STRING)

VARIABLES
    phase,      \* "extracted", "refused", "built", "prepared", "escaped"
    items,      \* the items as supplied
    inventory,  \* [id, local, printed, raw, path, kind, parent, repeat, first, links], in source order
    reported,   \* the sets of nodes with an ambiguous printed identity
    linked,     \* the node of each variable, or NoNode
    nodes       \* [id, item, parent, children, entry]

vars == <<phase, items, inventory, reported, linked, nodes>>

NoNode == [form |-> "none", kind |-> "", space |-> <<>>, alias |-> "", ordinal |-> 0]

Init ==
    /\ items \in Extractions
    /\ phase = "extracted" /\ inventory = <<>> /\ reported = {} /\ linked = <<>> /\ nodes = <<>>

-----------------------------------------------------------------------------
(* What the builder refuses.                                               *)

Container == {"section", "repeat"}

All == ToSet(items)
Named(local) == CHOOSE m \in All : m.local = local

\* _validate_unique_inputs
UniqueInputs ==
    /\ Cardinality({m.local : m \in All}) = Len(items)
    /\ Cardinality({m.order : m \in All}) = Len(items)

Above(m) ==
    LET up[n \in 0 .. Len(items)] ==
            IF n = 0 THEN {m.parent} ELSE LET found == up[n - 1] IN found \cup {Named(p).parent : p \in found \ {""}}
    IN  up[Len(items)] \ {""}

\* _validate_hierarchy
Hierarchy ==
    /\ \A m \in All :
          /\ m.parent # "" => \E p \in All : p.local = m.parent /\ p.kind \in Container
          /\ m.repeat # "" => \E r \in All : r.local = m.repeat /\ r.kind = "repeat"
    /\ \A m \in All :
          /\ m.first => m.parent # ""
          /\ m.local \notin Above(m)
          /\ m.repeat # "" => m.repeat \in Above(m)
          /\ m.kind \in Container => Cardinality({c \in All : c.parent = m.local /\ c.first}) = 1

Indices(m) == {i \in DOMAIN Variables : Variables[i] \in m.links}

\* Only questions link to variables, and no two to the same.
Linkable ==
    /\ \A m \in All : Indices(m) # {} => m.kind = "question"
    /\ \A m, n \in All : m # n => Indices(m) \cap Indices(n) = {}

\* Something must be left of every printed identity and of every part of a section path.
Identifiable ==
    \A m \in All :
        /\ m.printed # "" => AliasOf[m.printed] # ""
        /\ \A i \in DOMAIN m.path : SlugOf[m.path[i]] # ""

-----------------------------------------------------------------------------
(* Identities.                                                             *)

InOrder == SortSeq(items, LAMBDA a, b : a.order < b.order)

Slugs(path) == [i \in DOMAIN path |-> SlugOf[path[i]]]

\* Base of a printed identity: its namespace, "root" without one.
Base(m) ==
    [form  |-> "printed",
     kind  |-> m.kind,
     space |-> IF m.path = <<>> THEN <<"root">> ELSE Slugs(m.path),
     alias |-> AliasOf[m.printed],
     ordinal |-> 0]

SameBase(s, i) == {j \in DOMAIN s : s[j].printed # "" /\ Base(s[j]) = Base(s[i])}

\* assign_node_ids: printed identity, with its position if several share it, or a digest of what there is.
Id(s, i) ==
    IF s[i].printed = ""
    THEN [form |-> "fallback", kind |-> s[i].kind, space |-> Slugs(s[i].path), alias |-> s[i].raw, ordinal |-> i]
    ELSE [Base(s[i]) EXCEPT !.ordinal = IF SameBase(s, i) = {i} THEN 0 ELSE i]

\* printed_identity_key
Key(m) == <<Slugs(m.path), m.kind, AliasOf[m.printed]>>

-----------------------------------------------------------------------------
(* The inventory.                                                          *)

IdOf(s, local) ==
    IF local = "" THEN NoNode ELSE LET i == CHOOSE i \in DOMAIN s : s[i].local = local IN Id(s, i)

Record(s, i) ==
    [id |-> Id(s, i), local |-> s[i].local, printed |-> s[i].printed, raw |-> s[i].raw, path |-> s[i].path,
     kind |-> s[i].kind, parent |-> IdOf(s, s[i].parent), repeat |-> IdOf(s, s[i].repeat),
     first |-> s[i].first, links |-> Indices(s[i])]

Refuse ==
    /\ phase = "extracted"
    /\ items = <<>> \/ ~UniqueInputs \/ ~Hierarchy \/ ~Linkable \/ ~Identifiable
    /\ phase' = "refused" /\ UNCHANGED <<items, inventory, reported, linked, nodes>>

\* build_inventory
BuildInventory ==
    /\ phase = "extracted"
    /\ items # <<>> /\ UniqueInputs /\ Hierarchy /\ Linkable /\ Identifiable
    /\ LET s == InOrder
           sharing(i) == {j \in DOMAIN s : s[j].printed # "" /\ Key(s[j]) = Key(s[i])}
           printed == {i \in DOMAIN s : s[i].printed # ""}
           linking(v) == {i \in DOMAIN s : v \in Indices(s[i])}
       IN  /\ inventory' = [i \in DOMAIN s |-> Record(s, i)]
           /\ reported' = {{Id(s, j) : j \in sharing(i)} : i \in {k \in printed : sharing(k) # {k}}}
           /\ linked' = [v \in DOMAIN Variables |->
                            IF linking(v) = {} THEN NoNode ELSE Id(s, CHOOSE i \in linking(v) : TRUE)]
    /\ phase' = "built" /\ UNCHANGED <<items, nodes>>

-----------------------------------------------------------------------------
(* References.                                                             *)

Identity(m) == AliasOf[IF m.printed # "" THEN m.printed ELSE m.raw]

Matching(r, scope) ==
    {i \in DOMAIN inventory :
        /\ inventory[i].kind = r.kind /\ Identity(inventory[i]) = Identity(r)
        /\ scope # <<>> => Slugs(inventory[i].path) = Slugs(scope)}

Only(S) == IF Cardinality(S) = 1 THEN inventory[CHOOSE i \in S : TRUE].id ELSE NoNode

\* Mutant: a reference that is not found in its own section is looked for everywhere.
ResolveWidely(r, default) ==
    LET section == IF r.path # <<>> THEN r.path ELSE default
        here    == Matching(r, section)
    IN  Only(IF here = {} THEN Matching(r, <<>>) ELSE here)

\* IdentityResolver.resolve
Resolve(r, default) ==
    LET section == IF r.path # <<>> THEN r.path ELSE default
        here    == Matching(r, section)
    IN  Only(IF here = {} /\ r.path = <<>> THEN Matching(r, <<>>) ELSE here)

\* _resolve_audit_reference
ResolveInAudit(r, default) ==
    LET section == IF r.path # <<>> THEN r.path ELSE default
        same    == SelectSeq(inventory, LAMBDA m : m.kind = r.kind /\ Identity(m) = Identity(r))
        within  == SelectSeq(same, LAMBDA m : section = <<>> \/ Slugs(m.path) = Slugs(section))
        found   == IF within = <<>> /\ section # <<>> /\ r.path = <<>> THEN same ELSE within
    IN  IF Len(found) = 1 THEN found[1].id ELSE NoNode

\* A condition is projected only if each of its references is exact.
Project(refs, default) ==
    IF \E r \in refs : Resolve(r, default) = NoNode THEN {NoNode} ELSE {Resolve(r, default) : r \in refs}

BindingKey(r) == <<r.path, IF r.printed # "" THEN r.printed ELSE r.raw, r.kind>>

\* _project_audit_condition, project_extracted_condition: bindings by key, one reference standing for all of a key
ProjectInAudit(refs, default) ==
    LET bound(r) == CHOOSE s \in refs : BindingKey(s) = BindingKey(r)
    IN  IF \E r \in refs : ResolveInAudit(r, default) = NoNode THEN {NoNode}
        ELSE {ResolveInAudit(bound(r), default) : r \in refs}

\* _item_reference, and the references of an expression: an item as others name it
Reference(m) == [printed |-> m.printed, raw |-> m.raw, path |-> m.path, kind |-> m.kind]

-----------------------------------------------------------------------------
(* Nodes.                                                                  *)

\* prepare_native_routing: the items in source order beside the inventory.
Canonical(local) == inventory[CHOOSE i \in DOMAIN InOrder : InOrder[i].local = local]

\* _build_nodes
NodeOf(record) ==
    [id       |-> record.id,
     item     |-> (CHOOSE m \in All : Canonical(m.local).id = record.id).local,
     kind     |-> record.kind,
     parent   |-> record.parent,
     children |-> LET own == SelectSeq(inventory, LAMBDA m : m.parent = record.id) IN [i \in DOMAIN own |-> own[i].id],
     entry    |-> LET ways == {i \in DOMAIN inventory : inventory[i].first /\ inventory[i].parent = record.id}
                  IN  IF ways = {} THEN NoNode ELSE inventory[CHOOSE i \in ways : TRUE].id]

\* The resolver normalizes every item's name; one of which nothing is left raises past the router.
PrepareNative ==
    /\ phase = "built"
    /\ nodes' = [i \in DOMAIN inventory |-> NodeOf(inventory[i])]
    /\ phase' = IF \E i \in DOMAIN inventory : Identity(inventory[i]) = "" THEN "escaped" ELSE "prepared"
    /\ UNCHANGED <<items, inventory, reported, linked>>

Next == Refuse \/ BuildInventory \/ PrepareNative

Spec == Init /\ [][Next]_vars

-----------------------------------------------------------------------------
(* Properties.                                                             *)

Unique(s) == Cardinality(ToSet(s)) = Len(s)

\* InventoryItem, InventoryBuildResult and the links of RoutingAudit and RoutedSurveySVIS.
InventoryFits ==
    /\ Unique([i \in DOMAIN inventory |-> inventory[i].id])
    /\ \A i \in DOMAIN inventory : inventory[i].id \notin {inventory[i].parent, inventory[i].repeat}
    /\ \A i, j \in DOMAIN inventory : i # j => inventory[i].links \cap inventory[j].links = {}
    /\ \A v \in DOMAIN linked :
          \A i \in DOMAIN inventory : v \in inventory[i].links <=> linked[v] = inventory[i].id

\* Containment, RoutingNode and QuestionnaireRoutingGraph._validate_containment, but for the edges.
NodesFit ==
    LET parentOf(id) == (CHOOSE n \in ToSet(nodes) : n.id = id).parent
        up[k \in 0 .. Len(nodes), n \in DOMAIN nodes] ==
            IF k = 0 THEN nodes[n].parent
            ELSE LET p == up[k - 1, n] IN IF p = NoNode THEN NoNode ELSE parentOf(p)
    IN  \A n \in DOMAIN nodes :
            /\ nodes[n].kind \in Container <=> nodes[n].entry # NoNode
            /\ nodes[n].entry \in ToSet(nodes[n].children) \cup {NoNode}
            /\ Unique(nodes[n].children)
            /\ nodes[n].children # <<>> => nodes[n].kind \in Container
            /\ up[Len(nodes), n] = NoNode

\* What the builder lets through, the models accept: identities are unique, containment is a forest of
\* containers each entered by one child, links are one to one.  A ValidationError there is not caught, where
\* a refusal by the builder becomes a failed result.
ModelsAccept ==
    /\ phase \in {"built", "prepared", "escaped"} => InventoryFits
    /\ phase \in {"prepared", "escaped"} => NodesFit

\* Items and inventory are joined by position: whatever order the items came in, each node has the kind, the
\* parent and the children of the item it was made of.
NodesDescribeTheirItems ==
    phase \in {"prepared", "escaped"} =>
        \A n \in ToSet(nodes) :
            LET m == Named(n.item)
            IN  /\ n.kind = m.kind
                /\ (n.parent = NoNode) = (m.parent = "")
                /\ n.parent # NoNode => \E p \in ToSet(nodes) : p.id = n.parent /\ p.item = m.parent
                /\ {c.item : c \in {d \in ToSet(nodes) : d.id \in ToSet(n.children)}}
                       = {c.local : c \in {d \in All : d.parent = m.local}}

References == {[Reference(m) EXCEPT !.path = p] : m \in All, p \in Defaults}

\* The two resolvers agree on every reference and every condition of two references, from wherever it is
\* made: what reconciliation accepted, the audit of the graph can prove again, and no more.
AuditAgrees ==
    phase = "prepared" =>
        \A d \in Defaults, r, s \in References :
            /\ Resolve(r, d) = ResolveInAudit(r, d)
            /\ Project({r, s}, d) = ProjectInAudit({r, s}, d)

Exact(r, m, d) == Resolve(r, d) \in {NoNode, (CHOOSE i \in ToSet(inventory) : i.local = m.local).id}

\* A reference that names the section of its item resolves to that item or to none, whatever other items
\* have names that normalize to the same.
SectionReferencesAreExact ==
    phase = "prepared" => \A m \in All, d \in Defaults : m.path # <<>> => Exact(Reference(m), m, d)

Repeated(i) == inventory[i].id.form = "printed" /\ inventory[i].id.ordinal # 0

SharedAreReported ==
    phase = "built" => \A i \in DOMAIN inventory : Repeated(i) <=> inventory[i].id \in UNION reported

NoRootSection == \A m \in All : m.path # <<>> => Slugs(m.path) # <<"root">>

\* An identity that had to be told apart by its position is reported as an ambiguous printed identifier, and
\* no other is; unless a section is called "root".
AmbiguityIsReported == NoRootSection => SharedAreReported
=============================================================================
