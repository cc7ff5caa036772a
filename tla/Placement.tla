------------------------------ MODULE Placement ------------------------------
(***************************************************************************)
(* The placement algebra (ops/placement.go): inserting, moving, nudging    *)
(* and cloning nodes at a position the caller names, over an op vocabulary *)
(* that only appends and reorders.  Pure operators; their laws are stated  *)
(* of the documents of Document, at whatever state editing has reached.    *)
(***************************************************************************)
EXTENDS Document, FiniteSetsExt, TLC

CONSTANTS
    Incoming,   \* subtrees to insert or paste
    Asked       \* ids a caller may name, in the tree or not

Kinds == {"Last", "First", "Before", "After", ""}

\* Anchors matter for Before and After only.
Target(parentId, kind, anchor) == [parentId |-> parentId, kind |-> kind, anchor |-> anchor]

Targets == {Target(p, k, a) : p \in Asked, k \in {"Before", "After"}, a \in Asked}
             \cup {Target(p, k, "none") : p \in Asked, k \in Kinds \ {"Before", "After"}}

\* What a verb answers with: a value (an op, an order), or a PlaceError's code.
Answer(value) == [value |-> value, error |-> "none"]
Refusal(code) == [value |-> <<>>, error |-> code]

InsertChildOp(parentId, child) == [tag |-> "InsertChild", parentId |-> parentId, child |-> child]
MoveNodeOp(target, parentId) == [tag |-> "MoveNode", target |-> target, newParentId |-> parentId]
ReorderChildrenOp(parentId, order) ==
    [tag |-> "ReorderChildren", parentId |-> parentId, newOrder |-> order]
BatchOp(a, b) == [tag |-> "Batch", ops |-> <<a, b>>]

-----------------------------------------------------------------------------
(* Shared derivation.                                                      *)

ContainerChildren(root, parentId) ==
    IF ~Holds(root, parentId) THEN Refusal("ParentNotFound")
    ELSE IF ~IsLayout(FindNode(parentId, root)) THEN Refusal("ChildlessKind")
    ELSE Answer(Ids(FindNode(parentId, root).kids))

\* An order whose anchor is looked for with the moved node still in its old place.
RepositionFromOldIndex(order, moved, target) ==
    LET rest == Without(order, moved)
        at == SelectInSeq(order, LAMBDA id : id = target.anchor)
        AnchoredAt(i) == IF at = 0 THEN Refusal("UnknownAnchor") ELSE Answer(InsertAt(rest, Min({i, Len(rest) + 1}), moved))
    IN CASE target.kind = "Last" -> Answer(Append(rest, moved))
         [] target.kind = "First" -> Answer(<<moved>> \o rest)
         [] target.kind = "Before" -> AnchoredAt(at)
         [] target.kind = "After" -> AnchoredAt(at + 1)
         [] OTHER -> Refusal("UnknownPlacement")

\* the order with moved taken out and put where the target says
Reposition(order, moved, target) ==
    LET rest == Without(order, moved)
        at == SelectInSeq(rest, LAMBDA id : id = target.anchor)
        AnchoredAt(i) == IF at = 0 THEN Refusal("UnknownAnchor") ELSE Answer(InsertAt(rest, i, moved))
    IN CASE target.kind = "Last" -> Answer(Append(rest, moved))
         [] target.kind = "First" -> Answer(<<moved>> \o rest)
         [] target.kind = "Before" -> AnchoredAt(at)
         [] target.kind = "After" -> AnchoredAt(at + 1)
         [] OTHER -> Refusal("UnknownPlacement")

StructurallyPresent(id, root) == root.id = id \/ LayoutParents(id, root) # <<>>

PostMoveMembership(siblings, moved) == Append(Without(siblings, moved), moved)

\* the op alone when appending already gives the order, else with the reorder
Placed(op, parentId, appended, wanted) ==
    IF wanted.error # "none" THEN wanted
    ELSE IF wanted.value = appended THEN Answer(op)
    ELSE Answer(BatchOp(op, ReorderChildrenOp(parentId, wanted.value)))

-----------------------------------------------------------------------------
(* The verbs.                                                              *)

\* the code, or "none"
CanPlace(root, moved, target) ==
    LET siblings == ContainerChildren(root, target.parentId) IN
    IF ~StructurallyPresent(moved, root) THEN "NodeNotFound"
    ELSE IF target.parentId = moved THEN "MoveIntoSelf"
    ELSE IF IsAncestor(moved, target.parentId, root) THEN "MoveIntoDescendant"
    ELSE IF siblings.error # "none" THEN siblings.error
    ELSE Reposition(PostMoveMembership(siblings.value, moved), moved, target).error

PlaceOp(root, child, target) ==
    LET siblings == ContainerChildren(root, target.parentId) IN
    IF siblings.error # "none" THEN siblings
    ELSE IF IdSet(root) \cap IdSet(child) # {} THEN Refusal("DuplicateNodeId")
    ELSE LET appended == Append(siblings.value, child.id)
         IN Placed(InsertChildOp(target.parentId, child), target.parentId, appended,
                   Reposition(appended, child.id, target))

MoveOp(root, moved, target) ==
    IF CanPlace(root, moved, target) # "none" THEN Refusal(CanPlace(root, moved, target))
    ELSE LET appended == PostMoveMembership(ContainerChildren(root, target.parentId).value, moved)
         IN Placed(MoveNodeOp(moved, target.parentId), target.parentId, appended,
                   Reposition(appended, moved, target))

NudgeOp(root, id, delta) ==
    IF root.id = id THEN Refusal("CannotNudgeRoot")
    ELSE IF LayoutParents(id, root) = <<>> THEN Refusal("NodeNotFound")
    ELSE LET parent == Head(LayoutParents(id, root))
             ids == Ids(parent.kids)
             index == SelectLastInSeq(ids, LAMBDA o : o = id)
             other == index + delta
         IN IF other \notin DOMAIN ids THEN Refusal("NudgeOutOfRange")
            ELSE Answer(ReorderChildrenOp(parent.id,
                                          [ids EXCEPT ![index] = ids[other], ![other] = id]))

-----------------------------------------------------------------------------
(* The clone verbs.                                                        *)

\* DerivedIDs: the first of id-copy, id-copy-2, ... that is not taken
Candidate(id, n) == id \o "-copy" \o (IF n = 1 THEN "" ELSE "-" \o ToString(n))

DerivedID(id, taken) ==
    Candidate(id, Min({n \in 1 .. Cardinality(taken) + 1 : Candidate(id, n) \notin taken}))

RECURSIVE RemapNodeIDs(_, _)
RemapNodeIDs(n, rename) ==
    [n EXCEPT !.id = IF @ \in DOMAIN rename THEN rename[@] ELSE @,
              !.kids = [i \in DOMAIN @ |-> RemapNodeIDs(@[i], rename)],
              !.state = [i \in DOMAIN @ |-> RemapNodeIDs(@[i], rename)]]

\* fresh ids for a list of ids, each avoiding the ones minted before it
RenameAvoiding(ids, taken) ==
    FoldLeft(LAMBDA rename, id :
                IF id \in DOMAIN rename THEN rename
                ELSE (id :> DerivedID(id, taken \cup {rename[o] : o \in DOMAIN rename})) @@ rename,
             <<>>, ids)

RemapForInsert(root, incoming) ==
    RemapNodeIDs(incoming,
        RenameAvoiding(SelectSeq(AllIDs(incoming), LAMBDA id : Holds(root, id)),
                       IdSet(root) \cup IdSet(incoming)))

PasteOp(root, incoming, target) == PlaceOp(root, RemapForInsert(root, incoming), target)

DuplicateOp(root, source, target) ==
    IF ~Holds(root, source) THEN Refusal("NodeNotFound")
    ELSE PlaceOp(root, RemapForInsert(root, FindNode(source, root)), target)

-----------------------------------------------------------------------------
(* Properties, of a document with unique ids.                              *)

\* The children of the target's parent, the node among them where it was asked
\* for and the others in the order they had.
SitsAsAsked(id, target, before, after) ==
    LET kids == Ids(FindNode(target.parentId, after).kids)
        at == SelectInSeq(kids, LAMBDA o : o = id)
    IN /\ at # 0
       /\ Without(kids, id) = Without(Ids(FindNode(target.parentId, before).kids), id)
       /\ CASE target.kind = "First" -> at = 1
            [] target.kind = "Last" -> at = Len(kids)
            [] target.kind = "Before" -> at < Len(kids) /\ kids[at + 1] = target.anchor
            [] target.kind = "After" -> at > 1 /\ kids[at - 1] = target.anchor

\* An op a verb hands out is one Apply takes, unless the document would grow past
\* a limit, and the node then sits where it was asked for.
Honours(answer, id, target) ==
    answer.error = "none" =>
      \A applied \in {Apply(answer.value, tree)} :
        \/ applied.error = "LimitExceeded"
        \/ applied.error = "none" /\ SitsAsAsked(id, target, tree, applied.tree)

\* MoveOp and PlaceOp never hand out an op that Apply refuses or that puts the
\* node anywhere else, a move within one parent included.
PlacedWhereAsked ==
    UniqueIds(tree) => \A target \in Targets :
        /\ \A id \in Asked : Honours(MoveOp(tree, id, target), id, target)
        /\ \A child \in Incoming : Honours(PlaceOp(tree, child, target), child.id, target)

\* The verbs refuse the moves and inserts that applying the bare op would refuse,
\* and no others ("no false permit, no false refuse"): an anchor or a placement
\* kind that cannot be honoured is only refused of an op that would apply.
Mirrors(answer, op) ==
    ApplyOne(op, tree).error = "none"
      <=> answer.error \in {"none", "UnknownAnchor", "UnknownPlacement"}

RefusedAsApply ==
    UniqueIds(tree) => \A target \in Targets :
        /\ \A id \in Asked : Mirrors(MoveOp(tree, id, target), MoveNodeOp(id, target.parentId))
        /\ \A child \in Incoming :
             Mirrors(PlaceOp(tree, child, target), InsertChildOp(target.parentId, child))

\* A nudge moves a node past its neighbours and back again: it and its inverse
\* leave the document as it was.
NudgesUndo ==
    UniqueIds(tree) => \A id \in Asked, delta \in {-2, -1, 1, 2} :
        \A there \in {NudgeOp(tree, id, delta)} :
          there.error = "none" =>
            \A moved \in {Apply(there.value, tree)} :
              \A back \in {NudgeOp(moved.tree, id, -delta)} :
               /\ moved.error = "none" /\ moved.tree # tree
               /\ back.error = "none" /\ Apply(back.value, moved.tree) = Done(tree)

RECURSIVE Shape(_)
Shape(n) == [n EXCEPT !.id = "", !.kids = [i \in DOMAIN @ |-> Shape(@[i])],
                      !.state = [i \in DOMAIN @ |-> Shape(@[i])]]

\* A duplicate, and a subtree pasted from another tree, keeps its shape and
\* brings no id the tree or the subtree itself already has, however often it is
\* copied: Apply refuses it on a limit only.
ClonesAreFresh ==
    UniqueIds(tree) => \A p \in Asked :
        LET target == Target(p, "Last", "none")
            Fresh(answer, source) ==
                answer.error = "none" =>
                  \A applied \in {Apply(answer.value, tree)} :
                    \/ applied.error = "LimitExceeded"
                    \/ /\ applied.error = "none" /\ UniqueIds(applied.tree)
                       /\ Shape(Last(FindNode(p, applied.tree).kids)) = Shape(source)
        IN /\ \A id \in Asked : Holds(tree, id) =>
                Fresh(DuplicateOp(tree, id, target), FindNode(id, tree))
           /\ \A incoming \in Incoming : Fresh(PasteOp(tree, incoming, target), incoming)

\* What the placement verbs answer is what Apply then does, on every document a
\* history of ops reaches.
VerbsKeepTheirWord == PlacedWhereAsked /\ RefusedAsApply /\ NudgesUndo /\ ClonesAreFresh
=============================================================================
