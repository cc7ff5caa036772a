---------------------------- MODULE MCConnection ----------------------------
(* Small instances of Connection: a Tabs root that takes clicks, a Button  *)
(* and a granted Mount (the panel) that come and go, and a Mount whose     *)
(* capability the gate withholds.                                          *)
EXTENDS Connection

KindTable == [n \in Nodes |-> CASE n = "root" -> "Tabs"
                                [] n = "button" -> "Button"
                                [] n \in {"mount", "panel"} -> "Mount"]

DeclaresTable == [n \in Nodes |-> CASE n = "mount" -> {"storage.read", "theme.read"}
                                    [] n = "panel" -> {"theme.read"}
                                    [] OTHER -> {}]

\* No op, one op, two dependent ops, a list whose second op fails, and the
\* three ways of introducing the ungranted Mount.
HandlerAnswers ==
    {<<>>, <<InsertChild("panel")>>, <<RemoveNode("button")>>,
     <<RemoveNode("button"), InsertChild("button")>>, <<InsertChild("button"), InsertChild("button")>>,
     <<BatchOf(<<RemoveNode("panel"), InsertChild("button")>>)>>,
     <<InsertChild("mount")>>, <<BatchOf(<<InsertChild("mount")>>)>>, <<ReplaceRoot({"root", "mount"})>>}

\* A handler that redraws the root in place instead.
EditingAnswers == {<<EditRoot({"root", "button"})>>, <<EditRoot({"root", "mount"})>>}

\* A refusal shown with an element of its own.
BannerProjection == {<<InsertChild("panel")>>}

NoProjection == {}
=============================================================================
