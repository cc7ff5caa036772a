------------------------------- MODULE Session -------------------------------
(***************************************************************************)
(* serverdriven.Session.Step: the verdict on one client event and the tree *)
(* it leaves.                                                              *)
(*                                                                         *)
(* The tree is abstracted to the set of node ids it holds: the checks Step *)
(* makes and the applicability of an op depend on which ids are present,   *)
(* the shape of the tree is the subject of TreeOps.  What the host handler *)
(* answers is a parameter: it is host code, and may answer anything.       *)
(***************************************************************************)
EXTENDS Integers, Sequences, FiniteSets, SequencesExt

CONSTANTS
    Nodes,      \* node ids, the root's included
    Root,       \* the id of the root, which every tree holds
    Kind,       \* [Nodes -> kind tag]
    Declares,   \* [Nodes -> set of capability ids]: a Mount's "capabilities"
    Gated,      \* WithCapabilityGate was called
    Grants      \* the capability ids the gate grants

ASSUME SessionAssumption ==
    /\ Root \in Nodes
    /\ Gated \in BOOLEAN
    /\ \A n \in Nodes : Declares[n] # {} => Kind[n] = "Mount"

Trees == {t \in SUBSET Nodes : Root \in t}

-----------------------------------------------------------------------------
\* The event names a kind accepts; a kind not listed accepts none.
LegitimateEvents(kind) ==
    CASE kind = "Button"     -> {"click"}
      [] kind = "Select"     -> {"change"}
      [] kind = "Form"       -> {"submit", "change", "input"}
      [] kind = "Filters"    -> {"change", "input", "click"}
      [] kind = "FileUpload" -> {"change", "file-read"}
      [] kind \in {"Tabs", "Stepper"} -> {"click", "change"}
      [] kind = "Disclosure" -> {"click", "change", "toggle"}
      [] OTHER -> {}

-----------------------------------------------------------------------------
(* Ops: a Batch holds simple ops only (one level of nesting).              *)

InsertChild(n) == [tag |-> "InsertChild", nodes |-> {n}]
RemoveNode(n) == [tag |-> "RemoveNode", nodes |-> {n}]
ReplaceRoot(t) == [tag |-> "ReplaceRoot", nodes |-> t]
\* EditNode of the root: a kind of the same tag, holding the rest of t
EditRoot(t) == [tag |-> "EditNode", nodes |-> t]
BatchOf(list) == [tag |-> "Batch", ops |-> list]

SimpleOps == [tag: {"InsertChild", "RemoveNode"}, nodes: SUBSET Nodes]
                \cup [tag: {"ReplaceRoot", "EditNode"}, nodes: Trees]
FrameOps == SimpleOps \cup [tag: {"Batch"}, ops: Seq(SimpleOps)]

NoTree == {}    \* an op that does not apply; no tree is empty

\* ops.Apply of a simple op, or NoTree
ApplySimple(tree, op) ==
    IF tree = NoTree THEN NoTree
    ELSE CASE op.tag = "InsertChild" ->
                IF op.nodes \cap tree = {} THEN tree \cup op.nodes ELSE NoTree
           [] op.tag = "RemoveNode" ->
                IF op.nodes \subseteq tree \ {Root} THEN tree \ op.nodes ELSE NoTree
           [] op.tag \in {"ReplaceRoot", "EditNode"} -> op.nodes

Flatten(op) == IF op.tag = "Batch" THEN op.ops ELSE <<op>>

\* The loop over the simple ops of one op of a frame
ApplyEach(tree, list) ==
    LET after[i \in 0 .. Len(list)] ==
            IF i = 0 THEN tree ELSE ApplySimple(after[i - 1], list[i])
    IN  after[Len(list)]

\* The loop over a frame's ops: all of them apply in turn, or none does
ApplyAll(tree, list) ==
    LET after[i \in 0 .. Len(list)] ==
            IF i = 0 THEN tree ELSE ApplyEach(after[i - 1], Flatten(list[i]))
    IN  after[Len(list)]

-----------------------------------------------------------------------------
(* The authority gate.                                                     *)

\* DecideMount: what the gate withholds from one node
Withheld(n) == IF Kind[n] = "Mount" THEN Declares[n] \ Grants ELSE {}

\* A gate that does not look inside a Batch.
MissingOutsideBatch(op) ==
    IF op.tag \in {"InsertChild", "ReplaceRoot"} THEN UNION {Withheld(n) : n \in op.nodes} ELSE {}

\* opMissingCapabilities: over the nodes an op introduces, through a Batch
MissingCapabilities(op) ==
    UNION {Withheld(n) :
             n \in UNION {o.nodes : o \in {p \in ToSet(Flatten(op)) :
                                             p.tag \in {"InsertChild", "ReplaceRoot"}}}}

GateRefuses(list) ==
    Gated /\ \E i \in DOMAIN list : MissingCapabilities(list[i]) # {}

-----------------------------------------------------------------------------
(* One step.  answer is what the handler did: "panic", "error" or "ops"    *)
(* together with the op list it returned.                                  *)

Verdict(tree, ev, answer) ==
    IF ev.node \notin tree THEN "UnknownNode"
    ELSE IF ev.event \notin LegitimateEvents(Kind[ev.node]) THEN "IllegitimateEvent"
    ELSE IF answer.did = "panic" THEN "HandlerPanicked"
    ELSE IF answer.did = "error" THEN "DispatchDenied"
    ELSE IF GateRefuses(answer.ops) THEN "CapabilityDenied"
    ELSE IF ApplyAll(tree, answer.ops) = NoTree THEN "DispatchDenied"
    ELSE "applied"

RejectReasons == {"UnknownNode", "IllegitimateEvent", "HandlerPanicked",
                  "DispatchDenied", "CapabilityDenied"}
=============================================================================
