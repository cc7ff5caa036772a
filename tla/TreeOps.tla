------------------------------- MODULE TreeOps -------------------------------
(***************************************************************************)
(* The tree-op apply engine (package ops): Apply over nested node trees.   *)
(* Every operator here is pure, as the engine is.                          *)
(*                                                                         *)
(* A node keeps its id, its kind tag, one token for everything else in its *)
(* kind record, a record of its style and traits, its immediate sub-nodes  *)
(* in the kind (an ordered child list for a layout kind, single-node arms  *)
(* for any other) and those in its state block (onLoading, onEmpty).       *)
(* RECURSIVE operators: this module is for TLC.                            *)
(***************************************************************************)
EXTENDS Integers, Sequences, SequencesExt

CONSTANTS
    LayoutKinds,    \* the kinds idl.OrderedChildren gives a child list
    MaxNodeDepth,   \* wire.MaxNodeDepth
    MaxNodes        \* wire.MaxNodes

Node(id, kind, text, style, kids, state) ==
    [id |-> id, kind |-> kind, text |-> text, style |-> style,
     kids |-> kids, state |-> state]

IsLayout(n) == n.kind \in LayoutKinds

-----------------------------------------------------------------------------
(* Traversal (ops/traverse.go).                                            *)

\* childSlots: every immediate sub-node position, in order
ChildSlots(n) == n.kids \o n.state

\* a slot's rebuild closure: n with its i-th slot holding child
Rebuild(n, i, child) ==
    IF i <= Len(n.kids) THEN [n EXCEPT !.kids[i] = child]
                        ELSE [n EXCEPT !.state[i - Len(n.kids)] = child]

\* every node of the tree, in the order findNode and allIDs visit them
RECURSIVE NodesIn(_)
NodesIn(list) ==
    IF list = <<>> THEN <<>>
    ELSE <<Head(list)>> \o NodesIn(ChildSlots(Head(list)) \o Tail(list))

NodesOf(n) == NodesIn(<<n>>)

AllIDs(n) == LET nodes == NodesOf(n) IN [i \in DOMAIN nodes |-> nodes[i].id]

RECURSIVE IdSet(_)
IdSet(n) == {n.id} \cup UNION {IdSet(c) : c \in ToSet(ChildSlots(n))}

Holds(n, id) == id \in IdSet(n)

\* findNode: the first node with that id
FindNode(id, root) == Head(SelectSeq(NodesOf(root), LAMBDA n : n.id = id))

\* mapNode: the first node with that id replaced, the spine above rebuilt
RECURSIVE Put(_, _, _)
Put(id, new, n) ==
    IF n.id = id THEN new
    ELSE LET i == SelectInSeq(ChildSlots(n), LAMBDA c : Holds(c, id))
         IN IF i = 0 THEN n ELSE Rebuild(n, i, Put(id, new, ChildSlots(n)[i]))

\* findLayoutParent's answers: the layout nodes whose child list holds the id
LayoutParents(id, root) ==
    SelectSeq(NodesOf(root),
              LAMBDA n : IsLayout(n) /\ \E i \in DOMAIN n.kids : n.kids[i].id = id)

IsAncestor(ancestor, descendant, root) ==
    /\ Holds(root, ancestor)
    /\ \E c \in ToSet(ChildSlots(FindNode(ancestor, root))) : Holds(c, descendant)

-----------------------------------------------------------------------------
(* Answers: the tree to go on with, and an error code or "none".           *)

Done(tree) == [tree |-> tree, error |-> "none"]
Fail(tree, code) == [tree |-> tree, error |-> code]

\* the tree with the node named target rewritten, or NodeNotFound
Edited(root, target, Rewrite(_)) ==
    IF Holds(root, target)
      THEN Done(Put(target, Rewrite(FindNode(target, root)), root))
      ELSE Fail(root, "NodeNotFound")

\* The first node of that id gets the list, which need not be the node the list
\* was read from; a kind without a child list keeps its slots.
WithKids(parentId, kids, root) ==
    LET n == FindNode(parentId, root)
    IN Put(parentId, IF IsLayout(n) THEN [n EXCEPT !.kids = kids] ELSE n, root)

\* The checks InsertChild, MoveNode and ReorderChildren make of a parent
ParentError(parentId, root) ==
    IF ~Holds(root, parentId) THEN "ParentNotFound"
    ELSE IF ~IsLayout(FindNode(parentId, root)) THEN "ChildlessKind"
    ELSE "none"

-----------------------------------------------------------------------------
(* Single-op apply (applyOne), one operator per structural case.           *)

InsertChild(parentId, child, root) ==
    IF ParentError(parentId, root) # "none"
      THEN Fail(root, ParentError(parentId, root))
    ELSE IF IdSet(child) \cap IdSet(root) # {}
      THEN Fail(root, "DuplicateNodeId")
    ELSE Done(WithKids(parentId, Append(FindNode(parentId, root).kids, child), root))

RemoveNode(target, root) ==
    IF root.id = target THEN Fail(root, "KindMismatch")
    ELSE IF LayoutParents(target, root) = <<>> THEN Fail(root, "NodeNotFound")
    ELSE LET parent == Head(LayoutParents(target, root))
         IN Done(WithKids(parent.id,
                          SelectSeq(parent.kids, LAMBDA c : c.id # target), root))

\* A move that inserts the node at its new place before taking it from the old.
MoveInsertingFirst(target, newParentId, root) ==
    IF target = newParentId \/ ~Holds(root, target) \/ ParentError(newParentId, root) # "none"
      THEN Fail(root, "KindMismatch")
    ELSE LET inserted == InsertChild(newParentId, FindNode(target, root), root)
         IN IF inserted.error # "none" THEN inserted ELSE RemoveNode(target, inserted.tree)

MoveNode(target, newParentId, root) ==
    LET Reinsert(removed) ==
          IF removed.error # "none" THEN Fail(root, removed.error)
          ELSE InsertChild(newParentId, FindNode(target, root), removed.tree)
    IN
    IF target = newParentId \/ IsAncestor(target, newParentId, root)
      THEN Fail(root, "KindMismatch")
    ELSE IF ~Holds(root, target) THEN Fail(root, "NodeNotFound")
    ELSE IF ParentError(newParentId, root) # "none"
      THEN Fail(root, ParentError(newParentId, root))
    ELSE Reinsert(RemoveNode(target, root))

\* sameIDMultiset
SameIds(kids, order) ==
    /\ Len(kids) = Len(order)
    /\ \A id \in ToSet(order) :
         Len(SelectSeq(order, LAMBDA o : o = id))
           <= Len(SelectSeq(kids, LAMBDA c : c.id = id))

ReorderChildren(parentId, order, root) ==
    IF ParentError(parentId, root) # "none"
      THEN Fail(root, ParentError(parentId, root))
    ELSE LET kids == FindNode(parentId, root).kids
             \* byID: the last child of that id
             ById(id) == kids[SelectLastInSeq(kids, LAMBDA c : c.id = id)]
         IN IF ~SameIds(kids, order) THEN Fail(root, "OrderingMismatch")
            ELSE Done(WithKids(parentId, [i \in DOMAIN order |-> ById(order[i])], root))

RECURSIVE ApplyOne(_, _)
ApplyOne(op, root) ==
    CASE op.tag = "EditNode" ->
            Edited(root, op.target, LAMBDA n :
                [n EXCEPT !.kind = op.kind, !.text = op.text, !.kids = op.kids])
      [] op.tag = "UpdateProp" ->     \* and ReplaceBinding: one field of the kind
            Edited(root, op.target, LAMBDA n : [n EXCEPT !.text = op.text])
      [] op.tag = "UpdateStyle" ->    \* and PatchStyle, UpdateAccessibility, UpdateTooltip:
            \* the members the op names; none of the four names motion
            Edited(root, op.target, LAMBDA n : [n EXCEPT !.style = op.style @@ @])
      [] op.tag = "UpdateState" ->
            Edited(root, op.target, LAMBDA n : [n EXCEPT !.state = op.state])
      [] op.tag = "InsertChild" -> InsertChild(op.parentId, op.child, root)
      [] op.tag = "RemoveNode" -> RemoveNode(op.target, root)
      [] op.tag = "MoveNode" -> MoveNode(op.target, op.newParentId, root)
      [] op.tag = "ReorderChildren" -> ReorderChildren(op.parentId, op.newOrder, root)
      [] op.tag = "ReplaceRoot" -> Done(op.node)
      [] op.tag = "Batch" ->
            LET Member(answer, inner) ==
                  IF answer.error = "none" THEN ApplyOne(inner, answer.tree) ELSE answer
                final == FoldLeft(Member, Done(root), op.ops)
            IN IF final.error = "none" THEN final ELSE Fail(root, "BatchAborted")

-----------------------------------------------------------------------------
(* The guards on the result (ops/limits.go, checkInstalledIDs).            *)

RECURSIVE Depth(_)
Depth(n) ==
    LET depths == {0} \cup {Depth(c) : c \in ToSet(ChildSlots(n))}
    IN 1 + CHOOSE d \in depths : \A e \in depths : e <= d

WithinLimits(tree) ==
    Depth(tree) <= MaxNodeDepth /\ Len(NodesOf(tree)) <= MaxNodes

\* The subtree roots an op puts into the tree
RECURSIVE InsertedNodes(_)
InsertedNodes(op) ==
    CASE op.tag = "InsertChild" -> <<op.child>>
      [] op.tag = "ReplaceRoot" -> <<op.node>>
      [] op.tag = "EditNode" -> op.kids
      [] op.tag = "UpdateState" -> op.state
      [] op.tag = "Batch" ->
            FlattenSeq([i \in DOMAIN op.ops |-> InsertedNodes(op.ops[i])])
      [] OTHER -> <<>>

\* A limit check made only for the ops that carry nodes.
CarriesNodes(op) == InsertedNodes(op) # <<>>

RECURSIVE OpCanGrow(_)
OpCanGrow(op) ==
    CASE op.tag = "MoveNode" -> TRUE
      [] op.tag = "Batch" -> \E i \in DOMAIN op.ops : OpCanGrow(op.ops[i])
      [] OTHER -> InsertedNodes(op) # <<>>


\* checkInstalledIDs: no id the op installed is held twice by the result
InstalledOnce(op, result) ==
    LET ids == AllIDs(result)
    IN \A n \in ToSet(InsertedNodes(op)) : \A id \in IdSet(n) :
         Len(SelectSeq(ids, LAMBDA o : o = id)) <= 1

Guarded(op, tree, answer) ==
    IF answer.error # "none" THEN Fail(tree, answer.error)
    ELSE IF OpCanGrow(op) /\ ~WithinLimits(answer.tree) THEN Fail(tree, "LimitExceeded")
    ELSE IF ~InstalledOnce(op, answer.tree) THEN Fail(tree, "DuplicateNodeId")
    ELSE answer

Apply(op, tree) == Guarded(op, tree, ApplyOne(op, tree))
=============================================================================
