----------------------------- MODULE MCBranches ------------------------------
EXTENDS Branches

Plain == Style("Default", "auto", "none", "none", "still")
Leaf(id, text) == Node(id, "Text", text, Plain, <<>>, <<>>)
Stack(id, kids) == Node(id, "Stack", "t", Plain, kids, <<>>)

\* p a layout over x, or a node with x as its single arm; q with a state block
Forks == {Stack("r", <<Stack("p", <<Leaf("x", "t")>>), Stack("q", <<>>)>>),
          Stack("r", <<Node("p", "Boundary", "t", Plain, <<Leaf("x", "t")>>, <<>>),
                       Node("q", "Stack", "t", Plain, <<>>, <<Leaf("w", "t")>>)>>)}

ins(p, c) == [tag |-> "InsertChild", parentId |-> p, child |-> c]
rem(t) == [tag |-> "RemoveNode", target |-> t]
mov(t, p) == [tag |-> "MoveNode", target |-> t, newParentId |-> p]
sty(t, s) == [tag |-> "UpdateStyle", target |-> t, style |-> s]
Ops == {ins("q", Leaf("y", "t")), ins("q", Leaf("y", "u")), ins("p", Leaf("y", "t")), ins("q", Leaf("n", "t")),
        rem("x"), rem("q"), mov("x", "q"), mov("x", "r"), mov("q", "p"), mov("p", "q"),
        sty("x", [tone |-> "Danger"]), sty("x", [direction |-> "rtl"]),
        sty("x", [tone |-> "Brand", tooltip |-> "tip"]), sty("q", [accessibility |-> "label"]),
        [tag |-> "UpdateProp", target |-> "x", text |-> "u"],
        [tag |-> "UpdateProp", target |-> "x", text |-> "nil"], [tag |-> "UpdateProp", target |-> "x", text |-> "foreign"],
        [tag |-> "ReplaceRoot", node |-> Stack("r", <<[Stack("p", <<Leaf("x", "t")>>) EXCEPT !.style.motion = "fade"], Stack("q", <<>>)>>)],
        [tag |-> "EditNode", target |-> "p", kind |-> "Boundary", text |-> "t", kids |-> <<Leaf("x", "u")>>],
        [tag |-> "EditNode", target |-> "q", kind |-> "Text", text |-> "t", kids |-> <<>>],
        [tag |-> "UpdateState", target |-> "q", state |-> <<Leaf("w", "t")>>],
        [tag |-> "ReorderChildren", parentId |-> "r", newOrder |-> <<"q", "p">>]}
OrderedIds == <<"n", "p", "q", "r", "w", "x", "y">>
Edits21 == [a |-> 2, b |-> 1]
=============================================================================
