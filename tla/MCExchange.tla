----------------------------- MODULE MCExchange -----------------------------
(***************************************************************************)
(* Every kind, the members of a node and every operation as drafts.  Types *)
(* are spelled out two deep where the interesting ones lie below another   *)
(* (shapes, columns, fields, bindings), one deep elsewhere; pairs of       *)
(* members are written specially for a kind, for an operation and for a    *)
(* node.                                                                   *)
(***************************************************************************)
EXTENDS Exchange

MCSubjects ==
  {KindSubject(tag) : tag \in DOMAIN Kinds} \cup {TraitSubject} \cup {OpSubject(tag) : tag \in DOMAIN OpRows}
MCPaired == {KindSubject("Callout"), OpSubject("MoveNode"), TraitSubject}
MCDepth(tag) ==
  CASE tag \in {"Drawing", "DataGrid", "Chart", "Form", "Filters", "Tree", "SummaryList", "ReplaceBinding"} -> 2
    [] tag \in {s.tag : s \in MCPaired} -> 0
    [] OTHER -> 1
=============================================================================
