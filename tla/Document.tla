------------------------------ MODULE Document ------------------------------
(***************************************************************************)
(* One document edited through ops.Apply: any op of OpSet, one at a time,  *)
(* in any order.  The engine is pure; the hazards are in long sequences of *)
(* individually reasonable ops.                                            *)
(***************************************************************************)
EXTENDS FlatTree

CONSTANTS
    StartTrees, \* the documents editing may start from
    OpSet       \* the ops a caller may apply

VARIABLE tree   \* the caller's current tree

Init == tree \in StartTrees

\* A refused op answers with the tree it was given: a stuttering step.
ApplyOp(op) == tree' = Apply(op, tree).tree

Next == \E op \in OpSet : ApplyOp(op)

Spec == Init /\ [][Next]_tree

-----------------------------------------------------------------------------
(* Properties.                                                             *)

Holders(n, id) == Len(SelectSeq(AllIDs(n), LAMBDA o : o = id))

\* No id is held by two nodes of which one has sub-nodes.  On other documents,
\* which a decoder admits, RemoveNode may write the list of one holder into
\* another, and ReorderChildren put the last child of an id in the place of all:
\* both can repeat what was single, and neither is checked for size.
OnlyLeavesRepeat(n) ==
    \A m \in ToSet(NodesOf(n)) : Holders(n, m.id) > 1 => ChildSlots(m) = <<>>

\* A tree within the wire limits never grows past them, however the ops that
\* build it are sequenced or batched (ops/limits.go): what this host holds,
\* every host can decode.
StaysWithinLimits ==
    [][OnlyLeavesRepeat(tree) /\ WithinLimits(tree) => WithinLimits(tree')]_tree


\* No document on the way through a list of ops repeats an id.
UniqueThroughout(ops) ==
    \A k \in DOMAIN ops :
        UniqueIds(ApplyOne([tag |-> "Batch", ops |-> SubSeq(ops, 1, k)], tree).tree)

\* On a document with unique ids, applyOne agrees with the reference
\* definition over flat tables: it accepts the same ops (a result that would
\* repeat an id aside, which Apply refuses later) and gives the same document;
\* and a Batch, however nested, is its members in turn or nothing at all.
AgreesWithFlat ==
    UniqueIds(tree) =>
      \A doc \in {Flat(tree)}, op \in OpSet :
        \A answer \in {ApplyOne(op, tree)}, ops \in {Members(<<op>>)} :
          \A flat \in {FlatApplyAll(ops, doc)} :
            UniqueThroughout(SubSeq(ops, 1, Len(ops) - 1)) =>
             /\ answer.error = "none" <=> flat # NoDoc
             /\ answer.error = "none" /\ UniqueIds(answer.tree) => Flat(answer.tree) = flat
             /\ answer.error # "none" => answer.tree = tree
=============================================================================
