----------------------------- MODULE MCDocument -----------------------------
(* Small instances of Document: ids r, p, q, x, y; Stack is a layout kind, *)
(* Boundary holds single-node arms, Text holds nothing.                    *)
EXTENDS Placement

Plain == [weight |-> "Standard", tooltip |-> "none"]
Leaf(id) == Node(id, "Text", "t", Plain, <<>>, <<>>)
Stack(id, kids) == Node(id, "Stack", "t", Plain, kids, <<>>)
Boundary(id, kids) == Node(id, "Boundary", "t", Plain, kids, <<>>)
Loading(n, nodes) == [n EXCEPT !.state = nodes]

Names == {"r", "p", "q", "x"}

Starts ==
    {Stack("r", <<Stack("p", <<>>), Leaf("q")>>),
     Stack("r", <<Boundary("p", <<Leaf("x")>>), Loading(Stack("q", <<>>), <<Leaf("y")>>)>>)}

\* A decoder admits a document that repeats an id, a leaf's, a layout node's or
\* both a layout node's and an arm's.
RepeatingStarts ==
    Starts \cup {Stack("r", <<Stack("p", <<Leaf("x")>>), Leaf("x")>>),
                 Stack("r", <<Stack("p", <<>>), Stack("p", <<Leaf("x"), Leaf("y")>>)>>),
                 Stack("r", <<Boundary("p", <<Leaf("q")>>), Stack("p", <<Leaf("x")>>)>>)}

Subtrees == {Leaf("x"), Stack("q", <<Leaf("y")>>), Boundary("p", <<Leaf("q")>>)}

Orders == {<<"p", "q">>, <<"q", "p">>, <<"x", "q", "p">>, <<"x", "p">>, <<"q", "q">>}

Inserts == {[tag |-> "InsertChild", parentId |-> p, child |-> c] : p \in Names, c \in Subtrees}
Removes == {[tag |-> "RemoveNode", target |-> t] : t \in Names \cup {"y"}}
Moves == {[tag |-> "MoveNode", target |-> t, newParentId |-> p] : t, p \in Names}
Reorders == {[tag |-> "ReorderChildren", parentId |-> p, newOrder |-> o] :
               p \in {"r", "q"}, o \in Orders}
Edits == {[tag |-> "EditNode", target |-> t, kind |-> "Stack", text |-> "e", kids |-> k] :
            t \in {"p", "q"}, k \in {<<>>, <<Leaf("x")>>, <<Stack("q", <<>>)>>}}
       \cup {[tag |-> "EditNode", target |-> t, kind |-> "Text", text |-> "t", kids |-> <<>>] :
            t \in {"x", "q"}}
States == {[tag |-> "UpdateState", target |-> t, state |-> k] :
             t \in {"p", "q"}, k \in {<<>>, <<Leaf("y")>>, <<Leaf("x"), Leaf("y")>>}}
Replaces == {[tag |-> "ReplaceRoot", node |-> n] :
               n \in {Stack("r", <<Leaf("x"), Leaf("x")>>), Stack("r", <<Leaf("q"), Stack("p", <<>>)>>)}}
Contents == {[tag |-> "UpdateProp", target |-> "q", text |-> "u"],
             [tag |-> "UpdateStyle", target |-> "p", style |-> [weight |-> "Bold"]]}

BatchOf(list) == [tag |-> "Batch", ops |-> list]

\* Batches whose members only apply together, grow past a limit in the middle,
\* install an id twice, or fail at their last member.
Batches ==
    LET ins(p, c) == [tag |-> "InsertChild", parentId |-> p, child |-> c]
        rem(t) == [tag |-> "RemoveNode", target |-> t]
        mov(t, p) == [tag |-> "MoveNode", target |-> t, newParentId |-> p]
        edit(t, k) == [tag |-> "EditNode", target |-> t, kind |-> "Stack", text |-> "e", kids |-> k]
    IN {BatchOf(<<rem("x"), ins("p", Leaf("x"))>>),
        BatchOf(<<ins("q", Leaf("x")), mov("q", "p")>>),
        BatchOf(<<edit("p", <<Leaf("q")>>), rem("q")>>),
        BatchOf(<<BatchOf(<<edit("p", <<Leaf("q")>>)>>), rem("x")>>),
        BatchOf(<<ins("r", Leaf("x")), rem("nobody")>>)}

StructuralOps == Inserts \cup Removes \cup Moves \cup Reorders

AllOps == StructuralOps \cup Edits \cup States \cup Replaces \cup Contents \cup Batches

\* What callers of the placement verbs name and bring, among it a subtree that
\* already uses the first id a copy of its root would get.
AskedIds == {"r", "p", "q", "x", "nobody"}
IncomingTrees == {Leaf("x"), Stack("p", <<Leaf("p-copy"), Leaf("n")>>), Loading(Leaf("n"), <<Leaf("y")>>)}
=============================================================================
