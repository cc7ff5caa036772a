------------------------------ MODULE Exchange ------------------------------
(***************************************************************************)
(* Documents on their way through the codec.  A writer spells a tree or an *)
(* operation with members written in one of the ways the format admits, or *)
(* wrongly; the decoder reads it member by member on its own call stack;   *)
(* the writer takes back what a refusal names and sends the document       *)
(* again; what was read is written out in the canonical form, after the    *)
(* host has perhaps touched it, and read once more.                        *)
(***************************************************************************)
EXTENDS Specimens

\* The documents written: what they are about, how deep the types of a member are spelled
\* out, the subjects that may have more than one member written specially, and how many.
CONSTANTS Subjects, Depth(_), Paired, MaxEdits

VARIABLES
  subject,   \* what the draft is about
  edits,     \* the members written specially
  stage,     \* "draft", "sent", "reading", "answered" or "held"
  message,   \* what was sent, what its writer means by it, and the faults it knows of
  frames,    \* the decoder's calls
  nodes,     \* the nodes it has entered
  answer     \* its answer, << >> until there is one

vars == <<subject, edits, stage, message, frames, nodes, answer>>

-----------------------------------------------------------------------------
(***************************************************************************)
(* Subjects: a kind (as the kind of node "a"), the members of a node, or   *)
(* an operation.                                                           *)
(***************************************************************************)
KindSubject(tag) == [sort |-> "kind", tag |-> tag]
TraitSubject     == [sort |-> "trait", tag |-> "Node"]
OpSubject(tag)   == [sort |-> "op", tag |-> tag]

RowsOf(s) ==
  CASE s.sort = "kind" -> Kinds[s.tag] [] s.sort = "trait" -> NodeFields [] OTHER -> OpRows[s.tag]

CaseFor(s)  == Case(s.tag, s.tag, RowsOf(s))
PlainFor ==
  [s \in Subjects |-> IF s.sort = "trait" THEN Leaf("a").obj ELSE PlainCase(CaseFor(s))]

TypeSent(s)  == IF s.sort = "op" THEN TreeOp ELSE Subtree
Place(s)     == IF s.sort = "kind" THEN <<"kind">> ELSE << >>
Enclosing(s, obj) ==
  IF s.sort = "kind" THEN Object("id" :> Str("a") @@ "kind" :> Object(obj)) ELSE Object(obj)

\* A member no row names is kept on a kind, except on a Box, and dropped elsewhere.
KeepsUnknown(s) == s.sort = "kind" /\ s.tag # "Box"
Unknown(s) == Edit(s.tag, "zzz", "zzz" :> Num(1), IF KeepsUnknown(s) THEN <<Num(1)>> ELSE << >>, << >>)

\* Trees, item lists and batches at and beyond the bounds on depth and size, and texts at and
\* beyond the bounds on values.
OneItem           == "id" :> Str("a") @@ "label" :> Str("a")
Nest(box, inner)  == Object("id" :> Str("b") @@ "kind" :> Object("children" :> List(inner) @@ box))
Leaves(n)         == [i \in 1..n |-> Leaf(<<"b", "c", "d", "e", "f">>[i])]
Nesting(box, n)    == FoldLeft(LAMBDA inner, i : <<Nest(box, inner)>>, <<Leaf("c")>>, [i \in 1..n |-> i])
Crowded(n)        == List([i \in 1..n |-> Num(1)])
Items(n)          == FoldLeft(LAMBDA inner, i : List(<<Object("children" :> inner @@ OneItem)>>),
                              List(<<Object(OneItem)>>), [i \in 1..n |-> i])
Batches(n)        == FoldLeft(LAMBDA inner, i : List(<<Typed("Batch", "ops" :> inner)>>), List(<<PlainLeaf(TreeOp)>>),
                              [i \in 1..n |-> i])
Refusing(s, key, raw, code, at) == Edit(s.tag, key, key :> raw, << >>, <<[code |-> code, at |-> at]>>)

Bounds(s, plain) ==
  CASE s = KindSubject("Box") ->
         {Edit("Box", "children", "children" :> List(v), <<List(v)>>, << >>) :
            v \in {Leaves(MaxNodes - 1), Nesting(plain, MaxNodeDepth - 2)}}
         \cup {Refusing(s, "children", List(Leaves(MaxNodes)), OverLimit, <<"kind", "children", Seg(MaxNodes)>>),
               Refusing(s, "children", List(Nesting(plain, MaxNodeDepth - 1)), OverLimit,
                        Joined([i \in 1..MaxNodeDepth |-> <<"kind", "children", "[0]">>]))}
    [] s = KindSubject("Badge") ->
         {Edit("Badge", "zzz", "zzz" :> Crowded(MaxArrayLength), <<Crowded(MaxArrayLength)>>, << >>),
          Refusing(s, "zzz", Crowded(MaxArrayLength + 1), OverLimit, << >>),
          Refusing(s, "zzz", Negated(MaxJSONDepth, Num(1)), OverLimit, << >>),
          Refusing(s, "zzz", Num(PayloadMax + 4), InvalidJSON, << >>),
          Edit("Badge", "zzz", "zzz" :> Num(PayloadMax + 3), <<Num(PayloadMax + 3)>>, << >>)}
    [] s = KindSubject("Tree") ->
         {Edit("Tree", "items", "items" :> v, <<v>>, << >>) : v \in {Items(MaxNodeDepth - 1)}}
         \cup {Refusing(s, "items", Items(MaxNodeDepth), OverLimit,
                        <<"kind", "items", "[0]">> \o Joined([i \in 1..MaxNodeDepth |-> <<"children", "[0]">>]))}
    [] s = OpSubject("Batch") ->
         {Edit("Batch", "ops", "ops" :> v, <<v>>, << >>) : v \in {Batches(MaxNodeDepth - 2)}}
         \cup {Refusing(s, "ops", Batches(MaxNodeDepth - 1), OverLimit,
                        Joined([i \in 1..MaxNodeDepth |-> <<"ops", "[0]">>]))}
    [] OTHER -> {}

Placed(s, e) == [e EXCEPT !.bad = [i \in DOMAIN @ |-> [@[i] EXCEPT !.at = Place(s) \o @]]]

EditsOf ==
  [s \in Subjects |->
     {Placed(s, e) : e \in EditsTo(CaseFor(s), Depth(s.tag)) \cup {Unknown(s)}} \cup Bounds(s, PlainFor[s])]

-----------------------------------------------------------------------------
\* A draft with its edits made, what is meant by it, and what is wrong with it.
Disjoint(e, f) == (DOMAIN e.put \cup e.cut) \cap (DOMAIN f.put \cup f.cut) = {}

Everything(s, es, M(_, _)) == FoldSet(LAMBDA e, obj : M(obj, e), PlainFor[s], es)
Faults(es) == UNION {SetOf(e.bad) : e \in es}

Message(type, doc, meant, faults) == [type |-> type, doc |-> doc, meant |-> meant, faults |-> faults]
Draft(s, es) ==
  Message(TypeSent(s), Enclosing(s, Everything(s, es, Made)), Enclosing(s, Everything(s, es, Meant)), Faults(es))

Nothing == Message(Subtree, Null, Null, {})
Relayed == [sort |-> "relayed", tag |-> ""]

-----------------------------------------------------------------------------
Init ==
  /\ subject \in Subjects /\ edits = {} /\ stage = "draft" /\ message = Nothing
  /\ frames = << >> /\ nodes = 0 /\ answer = << >>

Write ==
  /\ stage = "draft"
  /\ Cardinality(edits) < (IF subject \in Paired THEN MaxEdits ELSE 1)
  /\ \E e \in EditsOf[subject] :
       /\ \A f \in edits : Disjoint(e, f)
       /\ edits' = edits \cup {e}
  /\ UNCHANGED <<subject, stage, message, frames, nodes, answer>>

Send ==
  /\ stage = "draft" /\ stage' = "sent" /\ message' = Draft(subject, edits)
  /\ UNCHANGED <<subject, edits, frames, nodes, answer>>

-----------------------------------------------------------------------------
(***************************************************************************)
(* The decoder: the text is checked whole, then its calls run one job at a *)
(* time (DecodeNode, DecodeOp).                                            *)
(***************************************************************************)
Answers(a) == stage' = "answered" /\ answer' = <<a>> /\ frames' = << >> /\ nodes' = 0
Goes(fs)   == frames' = fs /\ UNCHANGED <<stage, answer>>

Receive ==
  /\ stage = "sent"
  /\ \E faults \in {TextFaults(Levels({message.doc}))} :
       IF faults # << >> THEN Answers(Rejected(faults[1], << >>))
       ELSE stage' = "reading" /\ frames' = ReadAs(message.type, message.doc) /\ UNCHANGED <<nodes, answer>>
  /\ UNCHANGED <<subject, edits, message>>

\* A member's value is read: at once when it is a leaf, by a call of its own otherwise.
ReadMember ==
  /\ stage = "reading" /\ ~Idle(frames)
  /\ \E job \in {Current(frames)}, w \in {Last(frames).w} :
       /\ job.do \in {"read", "check"}
       /\ \E plan \in Orders(PlanFor(job.type, job.raw, job.at, w, nodes)) :
            \/ plan.as = "fail" /\ Answers(Rejected(plan.code, plan.at))
            \/ plan.as = "done" /\ Goes(Took(frames, plan.v)) /\ UNCHANGED nodes
            \/ /\ plan.as \notin {"fail", "done"}
               /\ Goes(Called(frames, plan, Entered(job.type.t, w)))
               /\ nodes' = nodes + (IF job.type.t = "node" THEN 1 ELSE 0)
  /\ UNCHANGED <<subject, edits, message>>

SetMember ==
  /\ stage = "reading" /\ ~Idle(frames) /\ Current(frames).do = "set"
  /\ Goes(Took(frames, Current(frames).v))
  /\ UNCHANGED <<subject, edits, message, nodes>>

RefuseMember ==
  /\ stage = "reading" /\ ~Idle(frames) /\ Current(frames).do = "fail"
  /\ Answers(Rejected(Current(frames).code, Current(frames).at))
  /\ UNCHANGED <<subject, edits, message>>

CheckRule ==
  /\ stage = "reading" /\ ~Idle(frames) /\ Current(frames).do = "rule"
  /\ \E bad \in {Broken(Current(frames).rule, Current(frames).on, Last(frames).got, Current(frames).at)} :
       IF bad # << >> THEN Answers(Rejected(WrongType, bad[1])) ELSE Goes(Passed(frames)) /\ UNCHANGED nodes
  /\ UNCHANGED <<subject, edits, message>>

Return ==
  /\ stage = "reading" /\ Idle(frames)
  /\ IF Len(frames) = 1 THEN Answers(Accepted(Outcome(frames)))
     ELSE Goes(Returned(frames)) /\ UNCHANGED nodes
  /\ UNCHANGED <<subject, edits, message>>

Decoding == ReadMember \/ SetMember \/ RefuseMember \/ CheckRule \/ Return

-----------------------------------------------------------------------------
\* The writer takes back a member the refusal names, and sends the document again.
Repair ==
  /\ stage = "answered" /\ ~answer[1].ok
  /\ \E e \in edits : /\ [code |-> answer[1].code, at |-> answer[1].at] \in SetOf(e.bad)
                      /\ edits' = edits \ {e}
  /\ stage' = "sent" /\ message' = Draft(subject, edits') /\ answer' = << >>
  /\ UNCHANGED <<subject, frames, nodes>>

\* A tree is written out by the host that holds it; tree is what a reader should find.
WriteOut(tree, held) ==
  /\ subject' = Relayed /\ edits' = {} /\ answer' = << >>
  /\ \E out \in {Encode(tree, message.type)} :
       IF out = << >> THEN stage' = "held" /\ message' = Message(message.type, Null, tree, {})
       ELSE stage' = "sent" /\ message' = Message(message.type, out[1], held, {})
  /\ UNCHANGED <<frames, nodes>>

Accepting == stage = "answered" /\ answer[1].ok /\ subject # Relayed

Relay == Accepting /\ WriteOut(answer[1].v, answer[1].v)

\* The host first sets a member back to its default, by hand or by an operation.
Kind == answer[1].v.obj["kind"]
With(key, v) == Object([answer[1].v.obj EXCEPT !["kind"] = Object(key :> v @@ @.obj)])

RelayDefaulted ==
  /\ Accepting /\ subject.sort = "kind"
  /\ \E i \in DOMAIN RowsOf(subject) :
       \E row \in {RowsOf(subject)[i]} :
         /\ row.opt = "omitDefault" /\ ~Has(Kind, row.key)
         /\ WriteOut(With(row.key, row.default), answer[1].v)

\* The host fills a row feed with whole numbers of its own.
RelayRows ==
  /\ Accepting /\ subject.sort = "kind" /\ subject.tag \in {"DataGrid", "Chart"} /\ edits = {}
  /\ \E n \in {PayloadMax, PayloadMax + 1, PayloadMax + 2, -PayloadMax - 2} :
       \E tree \in {With("source", Static(List(<<Object("a" :> Num(n))>>)))} : WriteOut(tree, tree)

\* A document was read twice, or is not written out.
Finished == stage = "held" \/ (stage = "answered" /\ subject = Relayed)
Rest     == Finished /\ UNCHANGED vars

Next ==
  \/ Write \/ Send \/ Receive \/ Decoding \/ Repair \/ Relay \/ RelayDefaulted \/ RelayRows \/ Rest

Spec == Init /\ [][Next]_vars

-----------------------------------------------------------------------------
\* A document in which nothing is wrong decodes to what its writer meant, whichever spelling of
\* each member was used (aliases, bare scalars for envelopes, omitted defaults, members in any
\* order of the kind's own), singly and in pairs: the leniencies of decode.go and table.go never
\* change a meaning and never leak into one another.
MeaningKept ==
  stage = "answered" /\ subject # Relayed /\ message.faults = {} =>
    answer[1] = Accepted(message.meant)

\* A document with one or more things wrong is refused, and the code and path of the refusal are
\* those of one of them: no fault slips through a lenient reading, none is reported elsewhere
\* than where it is, so the writer who takes back what is named always gets further.
FaultNamed ==
  stage = "answered" /\ message.faults # {} =>
    ~answer[1].ok /\ [code |-> answer[1].code, at |-> answer[1].at] \in message.faults

\* What the codec writes out it reads back as the tree that was held, whatever spelling it first
\* came in, with a default the host put back in or with cells of the host's own: encoding drops
\* only what decoding supplies, and a number is written only when it comes back as itself.
CanonicalStable ==
  stage = "answered" /\ subject = Relayed => answer[1] = Accepted(message.meant)

\* The decoder's calls never grow but with the depth of the text: of every four calls in a row one
\* is deeper in the document, so the bound on the text's depth (limits.go) bounds the recursion of
\* decode.go, where a value is often handed to another decoder of the same value.
CallsPerValue == 3
StackFollowsDepth ==
  \A i \in DOMAIN frames : i > CallsPerValue => Len(frames[i].at) > Len(frames[i - CallsPerValue].at)
=============================================================================
