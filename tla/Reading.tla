------------------------------ MODULE Reading ------------------------------
(***************************************************************************)
(* How the wire decoder reads a value (wire/decode.go, wire/table.go).     *)
(* Every decoder is given as a plan: the jobs it does in their order and   *)
(* what it makes of the results.  A job reads a member at a type, sets a   *)
(* member outright, refuses the document, or checks a rule over what was   *)
(* read so far.  Reading stops at the first refusal, so the order of the   *)
(* jobs is the order the code reports defects in.  Module Wire runs plans. *)
(*                                                                         *)
(* Numbers are scaled down: IntSlotMax stands for 2^31 - 1 and PayloadMax  *)
(* for 2^53 - 1.  A literal is an integer ("int"), a whole number written  *)
(* with a point or an exponent ("whole"), or k and a half ("frac").        *)
(***************************************************************************)
EXTENDS Vocabulary, SequencesExt

CONSTANTS IntSlotMax, PayloadMax

WrongType    == "WRONG_TYPE"
MissingField == "MISSING_FIELD"
UnknownCase  == "UNKNOWN_DU_CASE"
UnknownKind  == "WRONG_NODE_KIND"
OverLimit    == "LIMIT_EXCEEDED"

Sentinel == Str("<closure>")
Opaque   == Str("<opaque>")

Is(kind, j)     == kind \in DOMAIN j
Has(j, key)     == Is("obj", j) /\ key \in DOMAIN j.obj
TagOf(j)        == IF Has(j, "$type") /\ Is("str", j.obj["$type"]) THEN j.obj["$type"].str ELSE ""
Seg(i)          == "[" \o ToString(i - 1) \o "]"
InOrder(keys)   == IF keys = {} THEN << >> ELSE SelectSeq(Ordinal, LAMBDA k : k \in keys)
Joined(seqs)    == FoldLeft(LAMBDA a, b : a \o b, << >>, seqs)
SetOf(seq)      == {seq[i] : i \in DOMAIN seq}

-----------------------------------------------------------------------------
\* Plans and jobs.

Done(v)        == [as |-> "done", v |-> v, jobs |-> << >>]
Fail(code, at) == [as |-> "fail", code |-> code, at |-> at, jobs |-> << >>]

Job(key, type, raw, at) ==
  [do |-> "read", key |-> key, type |-> type, raw |-> raw, at |-> at, drop |-> << >>]
DropIf(job, v)        == [job EXCEPT !.drop = <<v>>]
SetTo(key, v)         == [do |-> "set", key |-> key, v |-> v]
Refuse(code, at)      == [do |-> "fail", code |-> code, at |-> at]
NoJob                 == [do |-> "none"]
Rule(name, on, at)    == [do |-> "rule", rule |-> name, on |-> on, at |-> at]

\* Another decoder reads the whole value.
Same(type, raw, at)   == [as |-> "same", jobs |-> <<Job("it", type, raw, at)>>]
\* ... and its result becomes a Static binding's value.
InStatic(type, raw, at) == [as |-> "static", jobs |-> <<Job("it", type, raw, at)>>]

AndThen(plan, jobs)  == [plan EXCEPT !.jobs = @ \o jobs]

Each(type, items, at) ==
  [as |-> "list", jobs |-> [i \in DOMAIN items |-> Job(i, type, items[i], at \o <<Seg(i)>>)]]

\* expectArray, then every item at the item type (listDecoder and the array decoders).
EachOf(type, j, at) == IF Is("arr", j) THEN Each(type, j.arr, at) ELSE Fail(WrongType, at)

\* expectObject, then every member in key order (mapDecoder, fromJSONStrict).
Members(type, obj, at) ==
  LET keys == InOrder(DOMAIN obj)
  IN  [as |-> "obj", tag |-> "",
       jobs |-> [i \in DOMAIN keys |-> Job(keys[i], type, obj[keys[i]], at \o <<keys[i]>>)]]
MembersOf(type, j, at) == IF Is("obj", j) THEN Members(type, j.obj, at) ELSE Fail(WrongType, at)

\* The arguments of an I18n text or binding: a Go map is walked in any order.
InAnyOrder(plan) == IF plan.as = "obj" THEN [plan EXCEPT !.as = "walk"] ELSE plan
Orders(plan) ==
  IF plan.as # "walk" THEN {plan}
  ELSE {[plan EXCEPT !.as = "obj", !.jobs = jobs] : jobs \in SetToSeqs(SetOf(plan.jobs))}

-----------------------------------------------------------------------------
\* Leaves.

\* unwrapStaticAny: a scalar slot reads through a Static envelope.
Unwrapped(j) == IF TagOf(j) = "Static" /\ Has(j, "value") THEN j.obj["value"] ELSE j

\* numberValue: an integer literal beyond the exact range is read as the nearest double,
\* and the encoder writes a whole double without a point.
Canonical(n) ==
  IF n.form = "frac" THEN n
  ELSE IF n.num \in -PayloadMax..PayloadMax THEN Num(n.num) ELSE Num(n.num - (n.num % 2))

NonFinite == {Str("NaN"), Str("Infinity"), Str("-Infinity")}

Scalar(kind, j, at) == IF Is(kind, j) THEN Done(j) ELSE Fail(WrongType, at)

\* expectInt: 2.0 is an integer, a fraction or a value outside the slot is refused.
IntPlan(j, at) ==
  IF Is("num", j) /\ j.form # "frac" /\ j.num \in (-IntSlotMax - 1)..IntSlotMax
  THEN Done(Num(j.num)) ELSE Fail(WrongType, at)

\* expectNumber
RealPlan(j, at) ==
  IF Is("num", j) THEN Done(Canonical(j))
  ELSE IF j \in NonFinite THEN Done(j) ELSE Fail(WrongType, at)

\* fromJSON, and fromJSONStrict, which has no null.
LoosePlan(j, at) ==
  IF Is("num", j) THEN Done(Canonical(j))
  ELSE IF Is("arr", j) THEN Each(Loose, j.arr, at)
  ELSE IF Is("obj", j) THEN Members(Loose, j.obj, at) ELSE Done(j)

StrictPlan(j, at) ==
  IF Is("null", j) THEN Fail(WrongType, at)
  ELSE IF Is("num", j) THEN Done(Canonical(j))
  ELSE IF Is("arr", j) THEN Each(Json, j.arr, at)
  ELSE IF Is("obj", j) THEN Members(Json, j.obj, at) ELSE Done(j)

-----------------------------------------------------------------------------
\* Enumerations and discriminators.

EnumAliases ==
  [ ToneVariant |-> [Positive |-> "Success", Danger |-> "Critical", Negative |-> "Critical",
                     Neutral |-> "Default"],
    Emphasis |-> [Strong |-> "Loud", Bold |-> "Loud", Subtle |-> "Quiet", Muted |-> "Quiet"],
    Orientation |-> [Row |-> "Horizontal", row |-> "Horizontal", Column |-> "Vertical",
                     column |-> "Vertical"],
    BadgeVariant |-> [Default |-> "Neutral", Danger |-> "Critical"],
    ButtonVariant |-> [Danger |-> "Destructive"],
    HeadingVariant |-> [Default |-> "Standard"] ]

\* enumStr: an alias is mapped before the case is looked up.
Mapped(n, s) ==
  IF n \in DOMAIN EnumAliases /\ s \in DOMAIN EnumAliases[n] THEN EnumAliases[n][s] ELSE s

EnumPlan(n, j, at) ==
  IF ~Is("str", j) THEN Fail(WrongType, at)
  ELSE IF Mapped(n, j.str) \in Enums[n] THEN Done(Str(Mapped(n, j.str)))
  ELSE Fail(UnknownCase, at)

\* dispatch: an object whose discriminator names a case is read by that case's plan.
Dispatch(j, cases, code, at, plan) ==
  IF ~Is("obj", j) THEN Fail(WrongType, at)
  ELSE IF ~Has(j, "$type") THEN Fail(MissingField, at \o <<"$type">>)
  ELSE IF ~Is("str", j.obj["$type"]) THEN Fail(WrongType, at \o <<"$type">>)
  ELSE IF TagOf(j) \notin cases THEN Fail(code, at \o <<"$type">>)
  ELSE plan

-----------------------------------------------------------------------------
(***************************************************************************)
(* Specs (decode.go newSpec, take, build; table.go field, has, absent,     *)
(* decodeRemainingRows).  A hand decoder is the sequence of members it     *)
(* reads before the table reads the remaining rows.                        *)
(***************************************************************************)

\* One reading step: the key, its aliases, the type it is read at, and how: "field" drops a
\* value equal to the row's default, "raw" keeps it, "unlessNull" takes null for absence,
\* "orNull" reads an absent member as null and drops a null result, "unless" drops the value
\* v, "else" sets v when the member is absent, "sentinel" keeps no more than its presence,
\* "discard" reads a value for its defects alone.
Valued(key, aliases, type, how, v) ==
  [do |-> "member", key |-> key, aliases |-> aliases, type |-> type, how |-> how, v |-> v]
Reads(key, aliases, type, how) == Valued(key, aliases, type, how, EmptyList)
Field(key, type)              == Reads(key, << >>, type, "field")
AlsoAs(key, aliases, type)    == Reads(key, aliases, type, "field")
InTurn(keys)                  == [i \in DOMAIN keys |-> Field(keys[i], T("row"))]
Raw(key, type)                == Reads(key, << >>, type, "raw")
Marks(key)                    == Reads(key, << >>, Closure, "sentinel")

\* Steps that look at which members are present, and rules over what was read.
NotBoth(a, b)  == [do |-> "notBoth", key |-> a, other |-> b]
OneAtLeast(a, b) == [do |-> "oneAtLeast", key |-> a, other |-> b]
Retired(keys)  == [do |-> "retired", keys |-> keys]
Obeys(rule)    == [do |-> "obeys", rule |-> rule, on |-> ""]
ObeysOn(rule, key) == [do |-> "obeys", rule |-> rule, on |-> key]

RowNamed(rows, key) == SelectSeq(rows, LAMBDA r : r.key = key)

\* A take that lets an alias win over the canonical key.
TakenAliasFirst(obj, step) == SelectSeq(step.aliases \o <<step.key>>, LAMBDA k : k \in DOMAIN obj)

\* take: the canonical key wins over its aliases, and over them in their order.
Taken(obj, step) == SelectSeq(<<step.key>> \o step.aliases, LAMBDA k : k \in DOMAIN obj)

\* absentLeniency: the required members whose absence stands for a value.
Leniency(owner, key) ==
  IF <<owner, key>> \in {<<"Binding.Computed", "fn">>, <<"Binding.Local", "format">>,
                         <<"Binding.Local", "parse">>, <<"CellFormat.Custom", "fn">>,
                         <<"CellKindErased.Checkbox", "get">>, <<"CellKindErased.Custom", "fn">>,
                         <<"CellKindErased.Link", "hrefFn">>, <<"CellKindErased.Link", "labelFn">>,
                         <<"CellKindErased.Pill", "labelFn">>, <<"CellKindErased.Pill", "toneFn">>,
                         <<"CellKindErased.Progress", "fractionFn">>}
  THEN <<Sentinel>>
  ELSE IF <<owner, key>> = <<"Binding.Local", "flushOn">> THEN <<Bare("OnBlur")>>
  ELSE IF <<owner, key>> = <<"TextSource.I18n", "args">> THEN <<Empty>>
  ELSE IF key = "style" /\ owner \in {"Shape." \o tag : tag \in DOMAIN Unions.Shape} THEN <<Empty>>
  ELSE << >>

\* absent: only a required row refuses, unless its absence is read as a value.
Absent(key, row, lenient, at) ==
  IF row = << >> \/ row[1].opt # "required" THEN NoJob
  ELSE IF lenient # << >> THEN SetTo(key, lenient[1])
  ELSE Refuse(MissingField, at \o <<key>>)

\* The type of a step, which may be the one its row declares.
TypeOf(step, row) == IF step.type.t = "row" THEN row[1].type ELSE step.type

\* The job of a present member; a refusal names the canonical key, whatever was written.
Present(step, row, raw, at) ==
  LET job == Job(step.key, TypeOf(step, row), raw, at \o <<step.key>>) IN
  CASE step.how = "sentinel" -> SetTo(step.key, Sentinel)
    [] step.how = "unlessNull" /\ raw = Null -> NoJob
    [] step.how = "unless" -> DropIf(job, step.v)
    [] step.how = "orNull" -> DropIf(job, Null)
    [] step.how = "discard" -> [job EXCEPT !.do = "check"]
    [] step.how = "field" /\ row # << >> /\ row[1].opt = "omitDefault" -> DropIf(job, row[1].default)
    [] OTHER -> job

MemberJob(step, row, keys, obj, owner, at) ==
  IF keys # << >> THEN Present(step, row, obj[keys[1]], at)
  ELSE IF step.how = "orNull" THEN Present(step, row, Null, at)
  ELSE IF step.how = "else" THEN SetTo(step.key, step.v)
  ELSE Absent(step.key, row, Leniency(owner, step.key), at)

\* A retired member refuses at the first that is present.
RetiredJob(found, at) == IF found = << >> THEN NoJob ELSE Refuse(WrongType, at \o <<found[1]>>)

StepJob(step, obj, rows, owner, at) ==
  CASE step.do = "member" -> MemberJob(step, RowNamed(rows, step.key), Taken(obj, step), obj, owner, at)
    [] step.do = "notBoth" /\ {step.key, step.other} \subseteq DOMAIN obj -> Refuse(WrongType, at \o <<step.other>>)
    [] step.do = "oneAtLeast" /\ {step.key, step.other} \cap DOMAIN obj = {} ->
         Refuse(MissingField, at \o <<step.key>>)
    [] step.do = "retired" -> RetiredJob(SelectSeq(step.keys, LAMBDA k : k \in DOMAIN obj), at)
    [] step.do = "obeys" -> Rule(step.rule, step.on, at)
    [] OTHER -> NoJob

JobsOf(jobs) == SelectSeq(jobs, LAMBDA job : job # NoJob)

\* The keys the hand steps read, aliases with them.
Claimed(steps) ==
  UNION {IF steps[i].do = "member" THEN {steps[i].key} \cup SetOf(steps[i].aliases) ELSE {} :
         i \in DOMAIN steps}

Carried(rows)  == SelectSeq(rows, LAMBDA r : r.opt # "hostOnly")
KeysOf(rows)   == {rows[i].key : i \in DOMAIN rows}
AsSteps(rows)  == [i \in DOMAIN rows |-> Field(rows[i].key, rows[i].type)]
ByKey(rows)    == LET keys == InOrder(KeysOf(rows))
                  IN  [i \in DOMAIN keys |-> RowNamed(rows, keys[i])[1]]

\* decodeRemainingRows; readRowsOrdinal takes them in key order.
Remaining(rows, claimed) == SelectSeq(Carried(rows), LAMBDA r : r.key \notin claimed)

\* build keeps the members no row names as they are, buildStrict drops them.  A host-only
\* row claims nothing: such a member is kept like an unknown one.
Kept(obj, rows, claimed) ==
  InOrder(DOMAIN obj \ (claimed \cup KeysOf(Carried(rows)) \cup {"$type"}))

SpecPlan(obj, rows, owner, steps, tag, strict, at) ==
  [as |-> "obj", tag |-> tag,
   jobs |-> JobsOf([i \in DOMAIN steps |-> StepJob(steps[i], obj, rows, owner, at)])
            \o (IF strict THEN << >>
                ELSE LET kept == Kept(obj, rows, Claimed(steps))
                     IN  [i \in DOMAIN kept |->
                            Job(kept[i], Loose, obj[kept[i]], at \o <<kept[i]>>)])]

\* The hand steps, then the rows they leave, in the table's order or in key order.
RowsPlan(obj, rows, owner, steps, tag, strict, at) ==
  SpecPlan(obj, rows, owner, steps \o AsSteps(Remaining(rows, Claimed(steps))), tag, strict, at)
ByKeyPlan(obj, rows, owner, steps, tag, at) ==
  SpecPlan(obj, rows, owner, steps \o AsSteps(ByKey(Remaining(rows, Claimed(steps)))), tag, TRUE, at)

\* newCaseSpec and newRecordSpec with their build and buildStrict.
CasePlan(u, tag, j, steps, strict, at) ==
  RowsPlan(j.obj, Unions[u][tag], u \o "." \o tag, steps, tag, strict, at)
CaseByKeyPlan(u, tag, j, steps, at) == ByKeyPlan(j.obj, Unions[u][tag], u \o "." \o tag, steps, tag, at)
RecordPlan(r, j, steps, strict, at) ==
  IF Is("obj", j) THEN RowsPlan(j.obj, Records[r], r, steps, "", strict, at) ELSE Fail(WrongType, at)
RecordByKeyPlan(r, j, at) ==
  IF Is("obj", j) THEN ByKeyPlan(j.obj, Records[r], r, << >>, "", at) ELSE Fail(WrongType, at)

\* unionDecoder without a hand arm: tableCase.
UnionPlan(u, j, at) ==
  Dispatch(j, DOMAIN Unions[u], UnknownCase, at, CasePlan(u, TagOf(j), j, << >>, FALSE, at))
=============================================================================
