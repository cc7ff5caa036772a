------------------------------ MODULE FlatTree ------------------------------
(***************************************************************************)
(* A reference definition of the structural tree ops, independent of how   *)
(* the engine walks and rebuilds a nested tree: a document with unique ids *)
(* is a table from id to the node's own content and the ids below it, and  *)
(* an op edits the few rows it names.  Used to check TreeOps.              *)
(***************************************************************************)
EXTENDS TreeOps, Functions

Ids(seq) == [i \in DOMAIN seq |-> seq[i].id]

Row(n) == [kind |-> n.kind, text |-> n.text, style |-> n.style,
           kids |-> Ids(n.kids), state |-> Ids(n.state)]

Table(n) == [id \in IdSet(n) |-> Row(FindNode(id, n))]

Flat(n) == [root |-> n.id, rows |-> Table(n)]

NoDoc == [root |-> "none", rows |-> <<>>]    \* the op is refused

UniqueIds(n) == IsInjective(AllIDs(n))

-----------------------------------------------------------------------------
Under(rows, id) == ToSet(rows[id].kids) \cup ToSet(rows[id].state)

\* an id and everything below it: the least set closed under Under
Subtree(rows, id) ==
    {x \in DOMAIN rows :
       \A S \in SUBSET DOMAIN rows :
         (id \in S /\ \A y \in S : Under(rows, y) \subseteq S) => x \in S}

\* the rows reachable from the root once some have been edited
Pruned(doc) ==
    [doc EXCEPT !.rows = Restrict(doc.rows, Subtree(doc.rows, doc.root))]

ListsAsChild(rows, p, id) == rows[p].kind \in LayoutKinds /\ id \in ToSet(rows[p].kids)

Without(seq, id) == SelectSeq(seq, LAMBDA o : o # id)

AcceptsChildren(doc, p) == p \in DOMAIN doc.rows /\ doc.rows[p].kind \in LayoutKinds

-----------------------------------------------------------------------------
FlatInsert(doc, p, child) ==
    IF AcceptsChildren(doc, p) /\ IdSet(child) \cap DOMAIN doc.rows = {}
      THEN LET rows == Table(child) @@ doc.rows
           IN [doc EXCEPT !.rows = [rows EXCEPT ![p].kids = Append(@, child.id)]]
      ELSE NoDoc

FlatDetach(doc, id) ==
    [doc EXCEPT !.rows = [p \in DOMAIN @ |->
        IF ListsAsChild(@, p, id) THEN [@[p] EXCEPT !.kids = Without(@, id)] ELSE @[p]]]

FlatRemove(doc, id) ==
    IF \E p \in DOMAIN doc.rows : ListsAsChild(doc.rows, p, id)
      THEN Pruned(FlatDetach(doc, id)) ELSE NoDoc

\* a move edits two child lists and nothing else
FlatMove(doc, id, p) ==
    IF /\ \E q \in DOMAIN doc.rows : ListsAsChild(doc.rows, q, id)
       /\ AcceptsChildren(doc, p)
       /\ p \notin Subtree(doc.rows, id)
      THEN [FlatDetach(doc, id) EXCEPT !.rows[p].kids = Append(@, id)]
      ELSE NoDoc

FlatReorder(doc, p, order) ==
    IF AcceptsChildren(doc, p) /\ Len(order) = Len(doc.rows[p].kids)
                               /\ ToSet(order) = ToSet(doc.rows[p].kids)
      THEN [doc EXCEPT !.rows[p].kids = order] ELSE NoDoc

\* an edit of one row whose new sub-nodes replace the ones it had
FlatEdit(doc, id, row, nodes) ==
    LET kept == [doc EXCEPT !.rows[id] = row]
        added == UNION {IdSet(nodes[i]) : i \in DOMAIN nodes}
        fresh == [x \in added |-> LET i == CHOOSE j \in DOMAIN nodes : Holds(nodes[j], x)
                                  IN Row(FindNode(x, nodes[i]))]
    IN Pruned([kept EXCEPT !.rows = fresh @@ @])

FlatApply(op, doc) ==
    CASE op.tag = "InsertChild" -> FlatInsert(doc, op.parentId, op.child)
      [] op.tag = "RemoveNode" -> FlatRemove(doc, op.target)
      [] op.tag = "MoveNode" -> FlatMove(doc, op.target, op.newParentId)
      [] op.tag = "ReorderChildren" -> FlatReorder(doc, op.parentId, op.newOrder)
      [] op.tag = "ReplaceRoot" -> Flat(op.node)
      [] op.target \notin DOMAIN doc.rows -> NoDoc
      [] op.tag = "EditNode" ->
            FlatEdit(doc, op.target, [doc.rows[op.target] EXCEPT
                       !.kind = op.kind, !.text = op.text, !.kids = Ids(op.kids)], op.kids)
      [] op.tag = "UpdateState" ->
            FlatEdit(doc, op.target, [doc.rows[op.target] EXCEPT !.state = Ids(op.state)], op.state)
      [] op.tag = "UpdateProp" -> [doc EXCEPT !.rows[op.target].text = op.text]
      [] op.tag = "UpdateStyle" -> [doc EXCEPT !.rows[op.target].style = op.style @@ @]

\* the simple ops of a list, nested Batches opened
RECURSIVE Members(_)
Members(ops) ==
    FlattenSeq([i \in DOMAIN ops |->
                  IF ops[i].tag = "Batch" THEN Members(ops[i].ops) ELSE <<ops[i]>>])

\* all of them in turn, or none
FlatApplyAll(ops, doc) ==
    FoldLeft(LAMBDA d, op : IF d = NoDoc THEN NoDoc ELSE FlatApply(op, d), doc, Members(ops))
=============================================================================
