------------------------------- MODULE Merge -------------------------------
(***************************************************************************)
(* The three-way merge (package merge): two branches of one document are   *)
(* merged, facet by facet, over the document they forked from.             *)
(* A node's style record holds two of the six style sub-fields, which all  *)
(* merge alike, and the traits the node keeps beside its kind; equality    *)
(* stands for equal canonical encodings.                                   *)
(* RECURSIVE operators: this module is for TLC.                            *)
(***************************************************************************)
EXTENDS FlatTree, FiniteSets

CONSTANTS
    IdsInOrder,     \* every id, in code-point order
    Unencodable     \* the values that have no canonical encoding: none at all,
                    \* and one of a type the encoder does not know

Style(tone, direction, accessibility, tooltip, motion) ==
    [tone |-> tone, direction |-> direction, accessibility |-> accessibility,
     tooltip |-> tooltip, motion |-> motion]

StyleFields == {"tone", "direction"}
FacetOrder == <<"kind", "tone", "direction", "state", "accessibility", "tooltip">>
Facets == ToSet(FacetOrder)
Sides == {"a", "b"}

-----------------------------------------------------------------------------
(* Authors.  A pin is the side whose branch is the primary's, or "none".   *)

Pin(authorA, authorB) ==
    IF authorA = "primary" /\ authorB = "secondary" THEN "a"
    ELSE IF authorA = "secondary" /\ authorB = "primary" THEN "b"
    ELSE "none"

\* A resolution that falls back on the ancestor.
FavouredBase(pin) == "base"

Favoured(pin) == IF pin = "none" THEN "base" ELSE pin

-----------------------------------------------------------------------------
(* Facets.  v is a record of three nodes or values: base, a and b.         *)

ChildrenOf(n) == IF IsLayout(n) THEN n.kids ELSE <<>>

KindOf(n) == [kind |-> n.kind, text |-> n.text,
              kids |-> IF IsLayout(n) THEN <<>> ELSE n.kids]

FacetOf(n, facet) ==
    CASE facet = "kind" -> KindOf(n)
      [] facet = "state" -> n.state
      [] OTHER -> n.style[facet]

\* The unencodable values in a node, in the order the encoder meets them; a
\* style's tone and direction are strings and always encode.
RECURSIVE Faults(_)
Faults(n) ==
    LET FaultOf(value) == SelectSeq(<<value>>, LAMBDA x : x \in Unencodable)
        Below(list) == FlattenSeq([i \in DOMAIN list |-> Faults(list[i])])
    IN FaultOf(n.style.accessibility) \o Below(n.kids) \o FaultOf(n.text)
         \o FaultOf(n.style.motion) \o Below(n.state) \o FaultOf(n.style.tooltip)

Encodes(n) == Faults(n) = <<>>

\* A probe is the side's node with every other facet left out: the extras that
\* are no facet, such as motion, stay in it, on the base's childless kind.
Probe(v, side, facet) ==
    LET kind == KindOf(IF facet = "kind" THEN v[side] ELSE v.base)
        Trait(name) == IF facet = name THEN v[side].style[name] ELSE "none"
    IN Node(v[side].id, kind.kind, kind.text,
            Style("Default", "auto", Trait("accessibility"), Trait("tooltip"), v[side].style.motion),
            kind.kids, IF facet = "state" THEN v[side].state ELSE <<>>)

Three(v, Of(_)) == [side \in DOMAIN v |-> Of(v[side])]

Disagree(v) == v.a # v.base /\ v.b # v.base /\ v.a # v.b

\* A pick that takes the second branch's value when both changed it.
PickLater(v, pin) ==
    IF v.b # v.base THEN "b" ELSE IF v.a # v.base THEN "a" ELSE "base"

\* pickField, pickCanonical: the side whose value is kept
Pick(v, pin) ==
    IF Disagree(v) THEN Favoured(pin)
    ELSE IF v.a # v.base THEN "a" ELSE IF v.b # v.base THEN "b" ELSE "base"

-----------------------------------------------------------------------------
(* The refusal envelope: a list of cells, the value of each side in both.  *)

\* the value of a side that has no such node
Gone == Node("", "Gone", "", Style("", "", "", "", ""), <<>>, <<>>)

Cell(id, facet, class, v, pin) ==
    [nodeId |-> id, facet |-> facet, class |-> class, base |-> v.base,
     a |-> v.a, b |-> v.b, held |-> pin # "none"]

\* Both sides hold the text of the first encoding error.
UnencodableCell(id, facet, faults) ==
    [nodeId |-> id, facet |-> facet, class |-> "UnencodableFacet", base |-> Gone,
     a |-> Head(faults), b |-> Head(faults), held |-> FALSE]

\* the encoding errors of three nodes, the ancestor's first
FaultsOf(v) == Faults(v.base) \o Faults(v.a) \o Faults(v.b)

\* a cell of the whole node, when a condition holds and all three encode
NodeCell(id, facet, class, v, pin, condition) ==
    IF FaultsOf(v) # <<>> THEN <<UnencodableCell(id, facet, FaultsOf(v))>>
    ELSE IF condition THEN <<Cell(id, facet, class, v, pin)>> ELSE <<>>

\* one facet of a node: the side it is taken from and the cells it adds
FacetMerge(facet, v, pin) ==
    LET values == [side \in DOMAIN v |-> IF facet \in StyleFields THEN FacetOf(v[side], facet)
                                         ELSE Probe(v, side, facet)]
        faults == IF facet \in StyleFields THEN <<>> ELSE FaultsOf(values)
    IN IF faults # <<>>
         THEN [from |-> "base", cells |-> <<UnencodableCell(v.base.id, facet, faults)>>]
         ELSE [from |-> Pick(values, pin),
               cells |-> IF Disagree(values)
                           THEN <<Cell(v.base.id, facet, "ConcurrentEdit", values, pin)>>
                           ELSE <<>>]

-----------------------------------------------------------------------------
(* Where every node lives (indexPlacement, nodeIndex).                     *)

RECURSIVE Seats(_, _)
Seats(n, parent) ==
    <<[node |-> n, parent |-> parent]>>
      \o FlattenSeq([i \in DOMAIN ChildrenOf(n) |-> Seats(ChildrenOf(n)[i], n.id)])

\* by id: the node and the id of its parent
Placement(n) ==
    LET seats == Seats(n, "")
    IN [id \in {s.node.id : s \in ToSet(seats)} |->
          seats[SelectLastInSeq(seats, LAMBDA s : s.node.id = id)]]

\* A detection that refuses whenever the two branches disagree on the parent.
ContestedAlways(p) == p.a.parent # p.b.parent

\* A detection that forgets two moves of an unedited node.
ContestedByEdit(p) == p.a.parent # p.b.parent /\ p.a.node # p.b.node

Contested(p) ==
    /\ p.a.parent # p.b.parent
    /\ \/ p.a.parent # p.base.parent /\ p.b.parent # p.base.parent
       \/ p.a.node # p.b.node

\* detectConcurrentMoves, for one id
MoveCells(id, places, pin) ==
    IF \E side \in DOMAIN places : id \notin DOMAIN places[side] THEN <<>>
    ELSE LET p == Three(places, LAMBDA placement : placement[id])
             parents == Three(p, LAMBDA seat : seat.parent)
             nodes == Three(p, LAMBDA seat : seat.node)
             faults == Faults(nodes.a) \o Faults(nodes.b) \o Faults(nodes.base)
         IN IF parents.a = parents.b THEN <<>>
            ELSE IF faults # <<>> THEN <<UnencodableCell(id, "node", faults)>>
            ELSE IF ~Contested(p) THEN <<>>
            ELSE <<Cell(id, "move", "ConcurrentMove", parents, pin)>>
                   \o IF nodes.a = nodes.b THEN <<>>
                      ELSE <<Cell(id, "node", "ConcurrentMove", nodes, pin)>>

DetectConcurrentMoves(places, pin) ==
    FlattenSeq([i \in DOMAIN IdsInOrder |-> MoveCells(IdsInOrder[i], places, pin)])

-----------------------------------------------------------------------------
(* The recursive merge.                                                    *)

KidIds(n) == Ids(ChildrenOf(n))
HasKid(n, id) == id \in ToSet(KidIds(n))
Kid(n, id) == ChildrenOf(n)[SelectLastInSeq(ChildrenOf(n), LAMBDA c : c.id = id)]

\* A merge that lets a removal win over an edit.
NoDeleteModify(id, v, places, pin) == <<>>

\* a child of the base that one side has edited and the other removed
DeleteModify(id, v, places, pin) ==
    IF \/ HasKid(v.a, id) = HasKid(v.b, id)
       \/ \E side \in Sides : ~HasKid(v[side], id) /\ id \in DOMAIN places[side]
      THEN <<>>
      ELSE LET nodes == Three(v, LAMBDA n : IF HasKid(n, id) THEN Kid(n, id) ELSE Gone)
               survivor == IF nodes.a = Gone THEN nodes.b ELSE nodes.a
           IN NodeCell(id, "node", "DeleteModify", nodes, pin, survivor # nodes.base)

IsPureAddition(ids, head) ==
    /\ ToSet(ids) \subseteq ToSet(head)
    /\ SelectSeq(head, LAMBDA id : id \in ToSet(ids)) = ids

Additions(n, v) == ToSet(KidIds(n)) \ ToSet(KidIds(v.base))

\* the ids of the merged child list, and the cell when the lists conflict
MergeChildIds(v, pin) ==
    LET ids == Three(v, KidIds)
        fresh == [side \in Sides |-> Additions(v[side], v)]
        disjoint == /\ \A side \in Sides : IsPureAddition(ids.base, ids[side])
                    /\ fresh.a \cap fresh.b = {}
    IN IF ~Disagree(ids) THEN [ids |-> ids[Pick(ids, pin)], cells |-> <<>>]
       ELSE IF disjoint
         THEN [ids |-> ids.base \o SelectSeq(IdsInOrder, LAMBDA id : id \in fresh.a \cup fresh.b),
               cells |-> <<>>]
       ELSE [ids |-> ids[Favoured(pin)],
             cells |-> <<Cell(v.base.id, "children", "ReorderVsStructural", ids, pin)>>]

\* A child neither branch has from the base: the node itself, or the one of the
\* two that sorts first when both branches brought one.
MergeInserted(id, v, pin) ==
    IF HasKid(v.a, id) /\ HasKid(v.b, id)
      THEN LET nodes == [base |-> Gone, a |-> Kid(v.a, id), b |-> Kid(v.b, id)]
               cells == NodeCell(id, "insert", "ConcurrentEdit", nodes, pin, nodes.a # nodes.b)
           IN [node |-> IF \A side \in Sides : Encodes(nodes[side])
                          THEN CHOOSE n \in {nodes.a, nodes.b} : TRUE ELSE nodes.a,
               cells |-> cells]
      ELSE [node |-> IF HasKid(v.a, id) THEN Kid(v.a, id) ELSE Kid(v.b, id), cells |-> <<>>]

\* a node and its cells, from the merges of its facets and of its child list
Assembled(v, facet, list, children, removals) ==
    LET From(f) == v[facet[f].from]
        kindNode == From("kind")
    IN [node |-> [v.base EXCEPT
                    !.kind = kindNode.kind, !.text = kindNode.text,
                    !.kids = IF IsLayout(kindNode) THEN [i \in DOMAIN children |-> children[i].node]
                                                   ELSE kindNode.kids,
                    !.state = From("state").state,
                    !.style = [@ EXCEPT !.tone = From("tone").style.tone,
                                        !.direction = From("direction").style.direction,
                                        !.accessibility = From("accessibility").style.accessibility,
                                        !.tooltip = From("tooltip").style.tooltip]],
        cells |-> removals
                  \o FlattenSeq([i \in DOMAIN FacetOrder |-> facet[FacetOrder[i]].cells])
                  \o list.cells
                  \o FlattenSeq([i \in DOMAIN children |-> children[i].cells])]

\* merge3: the merged node and the cells found below it
RECURSIVE MergeNode(_, _, _)
MergeNode(v, places, pin) ==
    LET MergeChild(id) ==
            IF HasKid(v.base, id)
              THEN MergeNode(Three(v, LAMBDA n : IF HasKid(n, id) THEN Kid(n, id)
                                                 ELSE Kid(v.base, id)), places, pin)
              ELSE MergeInserted(id, v, pin)
        WithChildren(list) ==
            Assembled(v, [f \in Facets |-> FacetMerge(f, v, pin)], list,
                      <<>> \o [i \in DOMAIN list.ids |-> MergeChild(list.ids[i])],
                      FlattenSeq([i \in DOMAIN KidIds(v.base) |->
                                    DeleteModify(KidIds(v.base)[i], v, places, pin)]))
    IN WithChildren(MergeChildIds(v, pin))

\* what the caller gets: the tree, and whether every cell is held by the pin
Outcome(moveCells, merged) ==
    LET cells == moveCells \o merged.cells
    IN [tree |-> merged.node, cells |-> cells,
        ok |-> \A i \in DOMAIN cells : cells[i].held]

\* Merge3WayWithAuthor; Merge3Way is the merge without a pin
MergeTrees(v, pin) ==
    LET Placed(places) == Outcome(DetectConcurrentMoves(places, pin), MergeNode(v, places, pin))
    IN Placed(Three(v, Placement))
=============================================================================
