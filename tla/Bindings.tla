------------------------------ MODULE Bindings ------------------------------
(***************************************************************************)
(* The decoders of text sources, bindings, transform parameters, range     *)
(* values and actions, of formats, styles on a value, switch cases, chart  *)
(* annotations, guest channels and drawings, as plans of module Reading.   *)
(***************************************************************************)
EXTENDS Reading

\* decodeTextSource: a bare string is canonical, a Literal envelope is read down to it.
TextSourcePlan(j, at) ==
  CASE Is("str", j) -> Done(j)
    [] TagOf(j) \notin DOMAIN Unions.TextSource -> Dispatch(j, {}, UnknownCase, at, Done(j))
    [] TagOf(j) = "Literal" ->
         IF Has(j, "text") THEN Same(Text, j.obj["text"], at \o <<"text">>)
         ELSE Fail(MissingField, at \o <<"text">>)
    [] TagOf(j) = "I18n" ->
         CasePlan("TextSource", "I18n", j, <<Field("key", Text), Field("args", T("i18nArgs"))>>, TRUE, at)
    [] OTHER -> CasePlan("TextSource", TagOf(j), j, <<Field("binding", BindingOf(Loose))>>, TRUE, at)

\* decodeI18nArgs: a literal, a Static envelope (read down to its value) or a binding.
I18nArgPlan(j, at) ==
  IF ~Has(j, "$type") THEN StrictPlan(j, at)
  ELSE IF TagOf(j) # "Static" THEN Same(BindingOf(Loose), j, at)
  ELSE IF Has(j, "value") /\ j.obj["value"] # Null
       THEN Same(Json, j.obj["value"], at \o <<"value">>) ELSE Done(Bare("Static"))

-----------------------------------------------------------------------------
\* The parsers of a Static binding's value that are not plain leaves.

\* A list parser reads null as no items, and the opaque sentinel as opaque says.
ListStatic(elem, opaque, j, at) ==
  IF Is("null", j) THEN Done(EmptyList)
  ELSE IF j = Opaque THEN Done(opaque) ELSE EachOf(elem, j, at)

StringOptPlan(j, at) == IF Is("null", j) THEN Done(j) ELSE Scalar("str", j, at)

\* decodeSelectOption: a bare string is its own label.
SelectOptionPlan(j, at) ==
  IF Is("str", j) THEN Done(Object("label" :> j @@ "value" :> j))
  ELSE RecordPlan("SelectOption", j, <<Field("label", Union("TextSource")), Field("value", Text)>>,
                  TRUE, at)

OptionsPlan(j, at) ==
  ListStatic(T("selectOption"), List(<<Object("label" :> Opaque @@ "value" :> Opaque)>>), j, at)

MarkerPlan(j, at) ==
  RecordPlan("MapMarker", j,
             <<Field("label", Union("TextSource")), Field("latitude", Real), Field("longitude", Real)>>,
             TRUE, at)

\* decodeRow: a null cell is left out, and a cell that is no scalar becomes the sentinel.
RowPlan(j, at) ==
  IF ~Is("obj", j) THEN Fail(WrongType, at)
  ELSE Members(T("cell"), [k \in {k \in DOMAIN j.obj : ~Is("null", j.obj[k])} |-> j.obj[k]], at)

CellPlan(j) ==
  Done(IF Is("num", j) THEN Canonical(j) ELSE IF Is("bool", j) \/ Is("str", j) THEN j ELSE Opaque)

FlushPlan(j, at) ==
  Dispatch(j, DOMAIN Unions.LocalFlushTrigger, UnknownCase, at,
           CasePlan("LocalFlushTrigger", TagOf(j), j, << >>, TRUE, at))

InvokeArgPlan(j, at) ==
  RecordPlan("InvokeArg", j, <<Field("addr", Text), Field("value", Text)>>, TRUE, at)

-----------------------------------------------------------------------------
\* decodeBindingTyped: what each case reads; parse reads a Static value, and a default too
\* when the position has typed defaults.
DefaultOf(type) == IF type.typed THEN type.parse ELSE Loose

BindingSteps(tag, type) ==
  CASE tag = "Static" -> <<Reads("value", << >>, type.parse, "orNull")>>
    [] tag = "Query" ->
         <<Field("name", Text),
           Reads("dependsOn", <<"deps", "dependencies">>, ListOf(Text), "unless")>>
    [] tag = "Filter" -> <<Field("name", Text), Raw("defaultValue", DefaultOf(type))>>
    [] tag = "Selection" ->
         <<Field("nodeId", Text), Raw("defaultValue", DefaultOf(type)), Field("field", Text)>>
    [] tag = "State" ->
         <<Field("key", Text),
           Reads("defaultValue", <<"initialValue", "default">>, DefaultOf(type), "unlessNull")>>
    [] tag = "Now" -> <<Field("grain", OneOf("TimeGrain"))>>
    [] tag = "Computed" -> <<Field("fn", Closure)>>
    [] tag = "I18n" -> <<Field("key", Text), Raw("args", T("bindingArgs"))>>
    [] tag = "Local" ->
         <<Field("format", Closure), Field("parse", Closure), Raw("codec", T("codec")),
           NotBoth("onCommit", "commitTo"), Raw("commitTo", Text), Marks("onCommit"),
           Raw("initialFrom", BindingOf(type.parse)), Field("flushOn", T("flush"))>>
    [] tag = "Format" ->
         <<Raw("format", T("formatOf")), Raw("locale", Loose), Raw("source", BindingOf(Real))>>
    [] tag = "Transform" ->
         <<Raw("source", T("frameSource")), Raw("pipeline", T("pipeline")),
           Reads("params", << >>, T("params"), "unless")>>
    [] tag = "Expr" ->
         <<Raw("expr", T("scalarExpr")), Reads("params", << >>, T("params"), "unless"),
           Obeys("everyParamBound")>>
    [] OTHER -> <<Field("capabilityId", Text), Field("args", ListOf(T("invokeArg")))>>

\* A bare scalar or list is a Static value; a Bound envelope is read through, and inside it
\* the defaults are not typed.
BindingPlan(type, j, at) ==
  CASE ~Is("obj", j) /\ ~Is("null", j) -> InStatic(type.parse, j, at)
    [] TagOf(j) = "Bound" ->
         IF Has(j, "binding") THEN Same(BindingOf(type.parse), j.obj["binding"], at \o <<"binding">>)
         ELSE Fail(MissingField, at \o <<"binding">>)
    [] OTHER -> Dispatch(j, DOMAIN Unions.Binding, UnknownCase, at,
                         CasePlan("Binding", TagOf(j), j, BindingSteps(TagOf(j), type), TRUE, at))

\* Only a Number codec has an inverse.
CodecPlan(j, at) == IF TagOf(j) = "Number" THEN LoosePlan(j, at) ELSE Fail(WrongType, at)

\* A Format binding's format is kept as it is written, with Date an alias of DateTime.
FormatOfPlan(j, at) ==
  LoosePlan(IF TagOf(j) = "Date" THEN Object([j.obj EXCEPT !["$type"] = Str("DateTime")]) ELSE j, at)

\* decodeTransformParams: a map of bindings, taken in key order, or a list of records,
\* whose bindings are named in a refusal by parameter and not by position.
NamedParamPlan(name, j, at) ==
  [as |-> "obj", tag |-> "",
   jobs |-> <<Job("from", BindingOf(Loose), j, at \o <<"from">>), SetTo("name", Str(name))>>]

ParamPlan(list, j, at) ==
  LET plan == RecordPlan("TransformParam", j,
                         <<Field("name", Text), Reads("from", <<"value">>, BindingOf(Loose), "raw")>>,
                         TRUE, at)
      name == IF Has(j, "name") THEN Unwrapped(j.obj["name"]) ELSE Null
  IN  [plan EXCEPT !.jobs = [i \in DOMAIN plan.jobs |->
         IF plan.jobs[i].do = "read" /\ plan.jobs[i].key = "from" /\ Is("str", name)
         THEN [plan.jobs[i] EXCEPT !.at = list \o <<name.str, "from">>] ELSE plan.jobs[i]]]

ParamsPlan(j, at) ==
  IF Is("obj", j) /\ ~Has(j, "$type")
  THEN [as |-> "list",
        jobs |-> LET names == InOrder(DOMAIN j.obj)
                 IN  [i \in DOMAIN names |-> Job(i, [t |-> "namedParam", name |-> names[i]],
                                                 j.obj[names[i]], at \o <<names[i]>>)]]
  ELSE EachOf([t |-> "param", list |-> at], j, at)

-----------------------------------------------------------------------------
\* Range values: a pair as an object or a two-item list, read through a Static envelope,
\* or any other binding.
Position(key) == IF key \in {"min", "from"} THEN 1 ELSE 2
PairItem(end, j, at) ==
  Job(end.key, end.type, j.arr[Position(end.key)], at \o <<Seg(Position(end.key))>>)

PairPlan(first, second, order, ofRecord, j, at) ==
  CASE Is("obj", j) ->
         IF {first.key, second.key} \subseteq DOMAIN j.obj
         THEN RecordPlan(ofRecord, j, <<first, second>> \o order, TRUE, at) ELSE Fail(WrongType, at)
    [] Is("arr", j) /\ Len(j.arr) = 2 ->
         [as |-> "obj", tag |-> "",
          jobs |-> <<PairItem(first, j, at), PairItem(second, j, at)>>
                   \o [i \in DOMAIN order |-> Rule(order[i].rule, "", at)]]
    [] OTHER -> Fail(WrongType, at)

\* decodeRangePair reads max first; decodeDateRangePair checks the order of its ends.
RangePairPlan(j, at) == PairPlan(Field("max", Real), Field("min", Real), << >>, "RangePair", j, at)
DatePairPlan(j, at)  ==
  PairPlan(Field("from", Text), Field("to", Text), <<Obeys("datesInOrder")>>, "DateTimeRangePair", j, at)

\* A range value that hands a binding it does not know to itself again.
RangeValueAgain(pair, j, at) ==
  IF TagOf(j) = "Static" /\ Has(j, "value") THEN Same(pair, j.obj["value"], at \o <<"value">>)
  ELSE IF Has(j, "$type") THEN Same(T("rangeValue"), j, at) ELSE Same(pair, j, at)

RangeValuePlan(pair, j, at) ==
  CASE Is("arr", j) \/ (Is("obj", j) /\ ~Has(j, "$type")) -> Same(pair, j, at)
    [] TagOf(j) = "Static" ->
         IF Has(j, "value") THEN Same(pair, j.obj["value"], at \o <<"value">>)
         ELSE Fail(MissingField, at \o <<"value">>)
    [] OTHER -> Same(BindingOf(pair), j, at)

-----------------------------------------------------------------------------
\* decodeAction.
ActionSteps(tag, j) ==
  CASE tag = "Call" ->
         <<AlsoAs("endpoint", <<"url">>, Text), Field("onResult", Closure), Field("into", T("callTarget"))>>
    [] tag = "Notify" -> <<Field("channel", Text), Field("payload", Json)>>
    [] tag = "Navigate" ->
         <<AlsoAs("route", <<"href", "url", "to">>, Union("TextSource")),
           Field("target", OneOf("NavigateTarget"))>>
    [] tag = "SetState" ->
         <<Field("key", Text), NotBoth("value", "valueFrom"), OneAtLeast("value", "valueFrom"),
           Raw("value", Json), Raw("valueFrom", BindingOf(Loose))>>
    [] tag = "AiTool" -> <<Field("toolName", Text), Field("args", Json)>>
    [] tag = "Chain" -> <<Raw("ops", ListOf(Union("Action")))>>
    [] tag = "Print" -> <<Retired(InOrder(DOMAIN j.obj \ {"$type"}))>>
    [] tag = "Confirm" ->
         <<Field("prompt", Union("TextSource")),
           Raw("onConfirm", Union("Action")), ObeysOn("confirmOnce", "onConfirm"),
           Raw("onCancel", Union("Action")), ObeysOn("confirmOnce", "onCancel")>>
    [] tag = "ReadFileBody" ->
         <<Field("fileRef", Text), Field("encoding", OneOf("FileReadEncoding")), Marks("onRead")>>
    [] tag = "Invoke" -> <<Field("capabilityId", Text), Field("args", ListOf(T("invokeArg")))>>
    [] OTHER -> << >>   \* CommitLocal, Focus, WriteToClipboard and Dispatch: their rows alone

\* ReadFileBody always carries the sentinel of its continuation.
ActionPlan(j, at) ==
  Dispatch(j, DOMAIN Unions.Action, UnknownCase, at,
           AndThen(CasePlan("Action", TagOf(j), j, ActionSteps(TagOf(j), j), TRUE, at),
                   IF TagOf(j) = "ReadFileBody" THEN <<SetTo("onRead", Sentinel)>> ELSE << >>))

CallTargetPlan(j, at) ==
  Dispatch(j, DOMAIN Unions.CallResultTarget, UnknownCase, at,
           CasePlan("CallResultTarget", TagOf(j), j, << >>, TRUE, at))

\* refuseNestedConfirm: where a continuation asks a second question, through Chains.
RECURSIVE NestedConfirms(_, _)
NestedConfirms(action, at) ==
  CASE TagOf(action) = "Confirm" -> <<at>>
    [] TagOf(action) = "Chain" /\ Has(action, "ops") ->
         Joined([i \in DOMAIN action.obj["ops"].arr |->
           NestedConfirms(action.obj["ops"].arr[i], at \o <<"ops", Seg(i)>>)])
    [] OTHER -> << >>

-----------------------------------------------------------------------------
(* Formats, annotations and drawings.                                      *)

\* MaxSkeletonRows stands for the code's 10000.
CONSTANT MaxSkeletonRows

\* decodeCellFormat: Date is an alias of DateTime; the cases it reads by hand drop unknown
\* members, the others keep them.
CellFormatSteps(tag) ==
  IF tag = "Duration" THEN <<Field("style", OneOf("DurationStyle")), Field("unit", OneOf("DurationUnit"))>>
  ELSE << >>

CellFormatPlan(j, at) ==
  LET tag == IF TagOf(j) = "Date" THEN "DateTime" ELSE TagOf(j)
  IN  Dispatch(j, DOMAIN Unions.CellFormat \cup {"Date"}, UnknownCase, at,
               CasePlan("CellFormat", tag, j, CellFormatSteps(tag),
                        tag \in {"Duration", "RelativeTime", "DateTime"}, at))

\* decodeEmphasisEnum reads a flag as a case, decodeEmphasisFlag a case as a flag.
EmphasisPlan(j, at) ==
  IF Is("bool", j) THEN Done(Str(IF j.bool THEN "Loud" ELSE "Normal")) ELSE EnumPlan("Emphasis", j, at)

EmphasisFlagPlan(j, at) ==
  CASE Is("str", j) /\ j.str \in {"Loud", "Strong", "Bold"} -> Done(Bool(TRUE))
    [] Is("str", j) /\ j.str \in {"Normal", "Quiet", "Subtle", "Muted"} -> Done(Bool(FALSE))
    [] OTHER -> Scalar("bool", Unwrapped(j), at)

\* decodeSkeletonRows: a row count is a number of rows the renderer builds.
SkeletonRowsPlan(j, at) ==
  LET rows == IntPlan(Unwrapped(j), at)
  IN  IF rows.as = "done" /\ rows.v.num > MaxSkeletonRows THEN Fail(OverLimit, at) ELSE rows

\* decodeSwitchCase: a case is chosen by match or by when, never by both or neither.
SwitchCasePlan(j, at) ==
  RecordPlan("SwitchCase", j,
             <<Field("child", Subtree), NotBoth("match", "when"), OneAtLeast("match", "when"),
               Raw("match", Text), Raw("when", BindingOf(Loose))>>, TRUE, at)

-----------------------------------------------------------------------------
\* Chart annotations.

\* isCanonicalISODay: a date in the canonical form that names a real calendar day.
CalendarDays == {"2024-01-01", "2024-03-01"}

IsoDayPlan(j, at) ==
  LET iso == Unwrapped(j)
  IN  IF Is("str", iso) /\ iso.str \in CalendarDays THEN Done(iso) ELSE Fail(WrongType, at)

\* A switch without a table arm: what the hand cases do not read is dropped.
StrictUnion(u, steps, j, at) ==
  Dispatch(j, DOMAIN Unions[u], UnknownCase, at, CasePlan(u, TagOf(j), j, steps, TRUE, at))

AnnotationXPlan(j, at) ==
  StrictUnion("ChartAnnotationX",
              IF TagOf(j) = "Date" THEN <<Raw("iso", T("isoDay"))>> ELSE <<Field("key", Text)>>, j, at)

\* chartAnnotationFinite
FinitePlan(j, at) == IF Unwrapped(j) \in NonFinite THEN Fail(WrongType, at) ELSE RealPlan(Unwrapped(j), at)

AnnotationRangePlan(j, at) ==
  StrictUnion("ChartAnnotationRange",
              IF TagOf(j) = "ValueRange"
              THEN <<Raw("from", T("finite")), Raw("to", T("finite")), Obeys("valuesInOrder")>>
              ELSE <<Raw("from", T("annotationX")), Raw("to", T("annotationX")), Obeys("daysInOrder")>>,
              j, at)

ChartAnnotationPlan(j, at) ==
  StrictUnion("ChartAnnotation",
              <<Field("label", Union("TextSource"))>> \o
              (CASE TagOf(j) = "ReferenceLine" -> <<Raw("value", T("finite"))>>
                 [] TagOf(j) = "EventMarker" -> <<Raw("at", T("annotationX"))>>
                 [] OTHER -> <<Field("range", T("annotationRange"))>>),
              j, at)

-----------------------------------------------------------------------------
\* A guest channel's direction is read through a Static envelope, unlike other enumerations.
DirectionPlan(j, at) ==
  IF Is("str", Unwrapped(j)) THEN EnumPlan("ChannelDirection", Unwrapped(j), at) ELSE Fail(WrongType, at)

GuestChannelPlan(j, at) ==
  RecordPlan("GuestChannel", j, <<Raw("direction", T("direction")), Field("messageShape", Text)>>, TRUE, at)

\* Drawings: points, boxes and curves read their rows in key order.
DrawStylePlan(j, at) ==
  RecordPlan("DrawStyle", j,
             <<Field("fill", BindingOf(Text)), Field("stroke", BindingOf(Text)),
               Field("opacity", BindingOf(Real)), Field("strokeWidth", BindingOf(Real)),
               Field("textAnchor", OneOf("TextAnchor")), Field("fontSize", Real),
               Field("emphasis", T("emphasis")), Field("fontFamily", Text), Field("markId", Text),
               Field("rotation", Real), Field("tip", Union("TextSource"))>>, TRUE, at)

CurveCommandPlan(j, at) ==
  Dispatch(j, DOMAIN Unions.CurveCommand, UnknownCase, at, CaseByKeyPlan("CurveCommand", TagOf(j), j, << >>, at))

\* decodeShape reads the style first, whatever its place among the keys.
ShapePlan(j, at) ==
  Dispatch(j, DOMAIN Unions.Shape, UnknownCase, at,
           CaseByKeyPlan("Shape", TagOf(j), j, <<Field("style", Record("DrawStyle"))>>, at))
=============================================================================
