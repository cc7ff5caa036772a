------------------------------ MODULE TreeDiff ------------------------------
(***************************************************************************)
(* Package diff: a service derives the op script that takes one tree to    *)
(* another, and a host replays it through ops.Apply, op by op or as one    *)
(* Batch.                                                                  *)
(* RECURSIVE operators: this module is for TLC.                            *)
(***************************************************************************)
EXTENDS Merge

-----------------------------------------------------------------------------
(* The producer.                                                           *)

\* encode drops the error: every node that does not encode reads as "".
Encoding(n) == IF Encodes(n) THEN n ELSE Gone

SameEncoding(a, b) == Encoding(a) = Encoding(b)

WithFacetsOf(n, src) == [n EXCEPT !.style = [src.style EXCEPT !.motion = n.style.motion]]

\* One op for the style members that moved, one for each trait that did; an
\* unencodable value is never the same.
FacetEdits(a, b) ==
    LET Moved(members) == {m \in members : a.style[m] # b.style[m] \/ b.style[m] \in Unencodable}
        Edit(members) ==
            IF Moved(members) = {} THEN <<>>
            ELSE <<[tag |-> "UpdateStyle", target |-> b.id,
                    style |-> Restrict(b.style, Moved(members))]>>
    IN Edit(StyleFields) \o Edit({"accessibility"}) \o Edit({"tooltip"})

StripStructuralChildren(n) == IF IsLayout(n) THEN [n EXCEPT !.kids = <<>>] ELSE n

OwnContentSame(a, b) == SameEncoding(StripStructuralChildren(a), StripStructuralChildren(b))

\* A seat is the node's place in its parent's child list; the root has none.
NoSeat == <<>>

\* A replacement that leaves the node where InsertChild appends it.
ReplaceLast(seat, b) ==
    IF seat = NoSeat THEN <<[tag |-> "ReplaceRoot", node |-> b]>>
    ELSE <<[tag |-> "RemoveNode", target |-> b.id],
           [tag |-> "InsertChild", parentId |-> seat.parentId, child |-> b]>>

\* the whole-node replacement: the seat's order is restated unless it is last
ReplaceSeat(seat, b) ==
    IF seat = NoSeat THEN <<[tag |-> "ReplaceRoot", node |-> b]>>
    ELSE <<[tag |-> "RemoveNode", target |-> b.id],
           [tag |-> "InsertChild", parentId |-> seat.parentId, child |-> b]>>
         \o IF seat.position = Len(seat.siblings) THEN <<>>
            ELSE <<[tag |-> "ReorderChildren", parentId |-> seat.parentId,
                    newOrder |-> seat.siblings]>>

RECURSIVE DiffNode(_, _, _)
DiffNode(a, b, seat) ==
    IF SameEncoding(a, b) THEN <<>>
    ELSE IF SameEncoding(WithFacetsOf(a, b), b) THEN FacetEdits(a, b)
    ELSE IF /\ IsLayout(a) /\ IsLayout(b)
            /\ OwnContentSame(WithFacetsOf(a, b), b)
            /\ Ids(a.kids) = Ids(b.kids)
      THEN FacetEdits(a, b) \o
           FlattenSeq([i \in DOMAIN a.kids |->
             DiffNode(a.kids[i], b.kids[i],
                      [parentId |-> a.id, position |-> i, siblings |-> Ids(b.kids)])])
    ELSE ReplaceSeat(seat, b)

Diff(before, to) ==
    IF before.id # to.id THEN ReplaceSeat(NoSeat, to) ELSE DiffNode(before, to, NoSeat)

DiffBatched(before, to) ==
    LET Wrapped(ops) == IF Len(ops) >= 2 THEN <<[tag |-> "Batch", ops |-> ops]>> ELSE ops
    IN Wrapped(Diff(before, to))

-----------------------------------------------------------------------------
(* The replay: the host applies the ops in turn and stops at a refusal.    *)

Replay(script, tree) ==
    LET ReplayOp(answer, op) ==
          IF answer.error = "none" THEN Apply(op, answer.tree) ELSE answer
    IN FoldLeft(ReplayOp, Done(tree), script)
=============================================================================
