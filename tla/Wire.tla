-------------------------------- MODULE Wire --------------------------------
(***************************************************************************)
(* The wire codec (wire/decode.go, wire/op.go, wire/encode.go,             *)
(* wire/limits.go): plans of node, trait and operation decoders, the       *)
(* dispatch from a declared type to its decoder, the driver that runs a    *)
(* plan under the bounds on depth and size, and the two entry points,      *)
(* decoding a document and encoding a tree.                                *)
(***************************************************************************)
EXTENDS Computations

\* The bounds of limits.go, scaled down.
CONSTANTS MaxNodeDepth, MaxNodes, MaxJSONDepth, MaxArrayLength

InvalidJSON == "INVALID_JSON"
EmptyNodeID == "EMPTY_NODE_ID"

\* walkState: how deep nodes, items and operations nest.
Start == [nodeDepth |-> 0, itemDepth |-> 0, opDepth |-> 0]

-----------------------------------------------------------------------------
\* Traits.

\* decodeStyle drops a member at its identity; decodeStyleDelta sets what it names, and a
\* delta that names nothing is no edit.
StyleMembers(how) ==
  <<Reads("emphasis", << >>, T("emphasis"), how), Reads("tone", << >>, OneOf("ToneVariant"), how),
    Reads("weight", << >>, OneOf("StyleWeight"), how), Reads("role", << >>, OneOf("StyleRole"), how),
    Reads("voice", << >>, OneOf("FontVoice"), how), Reads("direction", << >>, OneOf("TextDirection"), how)>>

StylePlan(j, at) == RecordPlan("SemanticStyle", j, StyleMembers("field"), TRUE, at)

StyleDeltaPlan(j, at) ==
  LET plan == RecordPlan("StyleDelta", j, StyleMembers("raw"), TRUE, at)
  IN  IF plan.as = "obj" /\ plan.jobs = << >> THEN Fail(WrongType, at) ELSE plan

AccessibilityPlan(j, at) ==
  RecordPlan("Accessibility", j,
             <<Retired(AccessibilityNearMisses), Field("label", BindingOf(Text)), Field("labelledBy", Text),
               Field("describedBy", Text), Field("role", Text), Field("liveRegion", OneOf("LiveRegionKind")),
               Field("hidden", BindingOf(Flag)), Field("speak", Union("TextSource"))>>, TRUE, at)

StatePlan(j, at) ==
  RecordPlan("StateBehaviour", j,
             <<Field("onLoading", Subtree), Field("onEmpty", Subtree), Field("onError", Closure)>>, TRUE, at)

-----------------------------------------------------------------------------
\* decodeNodeValue: the id comes first, and is a string as it is written.
IdJobs(j, at) ==
  CASE ~Has(j, "id") -> <<Refuse(MissingField, at \o <<"id">>)>>
    [] ~Is("str", j.obj["id"]) -> <<Refuse(WrongType, at \o <<"id">>)>>
    [] j.obj["id"] = Str("") -> <<Refuse(EmptyNodeID, at \o <<"id">>)>>
    [] OTHER -> <<SetTo("id", j.obj["id"])>>

\* A state or a style that says nothing is left out.
TraitJobs(j, key, type, drop, at) ==
  IF ~Has(j, key) THEN << >> ELSE <<[Job(key, type, j.obj[key], at \o <<key>>) EXCEPT !.drop = drop]>>

NodePlan(j, at) ==
  IF ~Is("obj", j) THEN Fail(WrongType, at)
  ELSE [as |-> "obj", tag |-> "",
        jobs |-> IdJobs(j, at)
                 \o (IF Has(j, "kind") THEN TraitJobs(j, "kind", KindOf, << >>, at)
                     ELSE <<Refuse(MissingField, at \o <<"kind">>)>>)
                 \o TraitJobs(j, "state", Record("StateBehaviour"), <<Empty>>, at)
                 \o TraitJobs(j, "style", Record("SemanticStyle"), <<Empty>>, at)
                 \o TraitJobs(j, "accessibility", Record("Accessibility"), << >>, at)
                 \o TraitJobs(j, "tooltip", Union("TextSource"), << >>, at)
                 \o TraitJobs(j, "visible", BindingOf(Loose), << >>, at)
                 \o TraitJobs(j, "fallback", Subtree, << >>, at)]

-----------------------------------------------------------------------------
\* decodeOpValue: a retired positional member is refused, no default is dropped, and an
\* updated value is never one of the sentinels of an unencodable payload.
RetiredPosition(tag) ==
  CASE tag = "InsertChild" -> <<"position">> [] tag = "MoveNode" -> <<"newPosition">> [] OTHER -> << >>

OpSteps(tag, rows) ==
  [i \in DOMAIN rows |->
     Raw(rows[i].key, IF tag = "UpdateProp" /\ rows[i].key = "value" THEN T("opValue") ELSE rows[i].type)]

OpRowsPlan(obj, rows, tag, at) ==
  SpecPlan(obj, rows, "", <<Retired(RetiredPosition(tag))>> \o OpSteps(tag, rows), tag, TRUE, at)

OpPlan(j, at) ==
  Dispatch(j, DOMAIN OpRows, UnknownCase, at,
           OpRowsPlan(j.obj, OpRows[TagOf(j)], TagOf(j), at))

OpValuePlan(j, at) == IF j \in {Sentinel, Opaque} THEN Fail(WrongType, at) ELSE StrictPlan(j, at)

-----------------------------------------------------------------------------
\* Bounds that let one level too many through.
BarredLate(t, w, nodes) ==
  CASE t = "node" -> w.nodeDepth > MaxNodeDepth \/ nodes >= MaxNodes
    [] t = "treeItem" -> w.itemDepth > MaxNodeDepth
    [] t = "op" -> w.opDepth > MaxNodeDepth
    [] OTHER -> FALSE

\* enterNode, enterItem and enterOp: the bounds are checked on the way down.
Barred(t, w, nodes) ==
  CASE t = "node" -> w.nodeDepth >= MaxNodeDepth \/ nodes >= MaxNodes
    [] t = "treeItem" -> w.itemDepth >= MaxNodeDepth
    [] t = "op" -> w.opDepth >= MaxNodeDepth
    [] OTHER -> FALSE

Entered(t, w) ==
  CASE t = "node" -> [w EXCEPT !.nodeDepth = @ + 1]
    [] t = "treeItem" -> [w EXCEPT !.itemDepth = @ + 1]
    [] t = "op" -> [w EXCEPT !.opDepth = @ + 1]
    [] OTHER -> w

\* typeDecoder and the decoders its switches name.
LeafPlan(type, j, at) ==
  CASE type.t = "string" -> Scalar("str", Unwrapped(j), at)
    [] type.t = "bool" -> Scalar("bool", Unwrapped(j), at)
    [] type.t = "int" -> IntPlan(Unwrapped(j), at)
    [] type.t = "float" -> RealPlan(Unwrapped(j), at)
    [] type.t = "closure" -> Done(Sentinel)
    [] type.t = "json" -> StrictPlan(j, at)
    [] type.t = "loose" -> LoosePlan(j, at)
    [] type.t = "opValue" -> OpValuePlan(j, at)
    [] type.t = "enum" -> EnumPlan(type.n, j, at)
    [] type.t = "list" -> EachOf(type.of, j, at)
    [] type.t = "map" -> MembersOf(type.of, j, at)
    [] type.t = "binding" -> BindingPlan(type, j, at)
    [] type.t = "texts" -> ListStatic(Text, List(<<Opaque>>), j, at)
    [] type.t = "reals" -> ListStatic(Real, EmptyList, j, at)
    [] type.t = "markers" -> ListStatic(T("marker"), EmptyList, j, at)
    [] type.t = "rows" -> ListStatic(T("rowItem"), EmptyList, j, at)
    [] type.t = "options" -> OptionsPlan(j, at)
    [] type.t = "stringOpt" -> StringOptPlan(Unwrapped(j), at)
    [] OTHER -> Fail(WrongType, at)

UnionPlans(n, j, at) ==
  CASE n = "TextSource" -> TextSourcePlan(j, at)
    [] n = "Action" -> ActionPlan(j, at)
    [] n = "CellFormat" -> CellFormatPlan(j, at)
    [] n = "ChartAnnotation" -> ChartAnnotationPlan(j, at)
    [] n = "Shape" -> ShapePlan(j, at)
    [] n = "CurveCommand" -> CurveCommandPlan(j, at)
    [] n = "BoxLayout" -> BoxLayoutPlan(j, at)
    [] OTHER -> UnionPlan(n, j, at)

RecordPlans(n, j, at) ==
  CASE n = "SemanticStyle" -> StylePlan(j, at)
    [] n = "StyleDelta" -> StyleDeltaPlan(j, at)
    [] n = "StateBehaviour" -> StatePlan(j, at)
    [] n = "Accessibility" -> AccessibilityPlan(j, at)
    [] n = "DrawStyle" -> DrawStylePlan(j, at)
    [] n \in {"ButtonGroupItem", "DrawPoint", "ViewBox"} -> RecordByKeyPlan(n, j, at)
    [] OTHER -> RecordPlan(n, j, << >>, FALSE, at)

\* The pieces of bindings, actions and controls.
PiecePlan(type, j, at) ==
  CASE type.t = "i18nArgs" -> InAnyOrder(MembersOf(T("i18nArg"), j, at))
    [] type.t = "bindingArgs" -> InAnyOrder(MembersOf(BindingOf(Loose), j, at))
    [] type.t = "i18nArg" -> I18nArgPlan(j, at)
    [] type.t = "selectOption" -> SelectOptionPlan(j, at)
    [] type.t = "marker" -> MarkerPlan(j, at)
    [] type.t = "rowItem" -> RowPlan(j, at)
    [] type.t = "cell" -> CellPlan(j)
    [] type.t = "flush" -> FlushPlan(j, at)
    [] type.t = "invokeArg" -> InvokeArgPlan(j, at)
    [] type.t = "codec" -> CodecPlan(j, at)
    [] type.t = "formatOf" -> FormatOfPlan(j, at)
    [] type.t = "frameSource" -> FrameSourcePlan(j, at)
    [] type.t = "pipeline" -> PipelinePlan(j, at)
    [] type.t = "scalarExpr" -> ScalarExprPlan(j, at)
    [] type.t = "params" -> ParamsPlan(j, at)
    [] type.t = "param" -> ParamPlan(type.list, j, at)
    [] type.t = "namedParam" -> NamedParamPlan(type.name, j, at)
    [] type.t = "callTarget" -> CallTargetPlan(j, at)
    [] type.t = "rangePair" -> RangePairPlan(j, at)
    [] type.t = "datePair" -> DatePairPlan(j, at)
    [] type.t = "rangeValue" -> RangeValuePlan(T("rangePair"), j, at)
    [] type.t = "dateRangeValue" -> RangeValuePlan(T("datePair"), j, at)
    [] type.t = "timeVariant" -> TimeVariantPlan(j, at)
    [] type.t = "colourBinding" -> ColourBindingPlan(j, at)
    [] type.t = "ratingMax" -> RatingMaxPlan(j, at)
    [] type.t = "compareRule" -> CompareRulePlan(j, at)
    [] type.t = "fieldRule" -> FieldRulePlan(j, at)
    [] type.t = "fieldKind" -> FieldKindPlan(type.bound, j, at)
    [] type.t = "formField" -> FormFieldPlan(j, at)
    [] type.t = "filterItem" -> FilterItemPlan(j, at)
    [] OTHER -> Fail(WrongType, at)

\* The pieces of drawings, grids, media and composition.
PartPlan(type, j, at) ==
  CASE type.t = "emphasis" -> EmphasisPlan(j, at)
    [] type.t = "emphasisFlag" -> EmphasisFlagPlan(j, at)
    [] type.t = "skeletonRows" -> SkeletonRowsPlan(j, at)
    [] type.t = "switchCase" -> SwitchCasePlan(j, at)
    [] type.t = "isoDay" -> IsoDayPlan(j, at)
    [] type.t = "annotationX" -> AnnotationXPlan(j, at)
    [] type.t = "finite" -> FinitePlan(j, at)
    [] type.t = "annotationRange" -> AnnotationRangePlan(j, at)
    [] type.t = "direction" -> DirectionPlan(j, at)
    [] type.t = "guestChannel" -> GuestChannelPlan(j, at)
    [] type.t = "cellKind" -> CellKindPlan(j, at)
    [] type.t = "column" -> ColumnPlan(j, at)
    [] type.t = "natural" -> AtLeast(0, j, at)
    [] type.t = "positive" -> AtLeast(1, j, at)
    [] type.t = "defaultSort" -> DefaultSortPlan(j, at)
    [] type.t = "staticRows" -> StaticRowsPlan(j, at)
    [] type.t = "citations" -> CitationsPlan(type.rows, j, at)
    [] type.t = "citation" -> CitationPlan(j, at)
    [] type.t = "srcSetEntry" -> SrcSetEntryPlan(j, at)
    [] type.t = "track" -> TrackPlan(j, at)
    [] type.t = "tabHeader" -> TabHeaderPlan(j, at)
    [] type.t = "treeItem" -> TreeItemPlan(j, at)
    [] type.t = "destination" -> DestinationPlan(j, at)
    [] type.t = "mediaKind" -> MediaKindPlan(j, at)
    [] type.t = "markdownCitations" -> MarkdownCitationsPlan(j, at)
    [] type.t = "markdownCitation" -> MarkdownCitationPlan(j, at)
    [] type.t = "citationName" -> CitationNamePlan(j, at)
    [] OTHER -> PiecePlan(type, j, at)

LeafTypes ==
  {"string", "bool", "int", "float", "closure", "json", "loose", "opValue", "enum", "list", "map", "binding",
   "texts", "reals", "markers", "rows", "options", "stringOpt"}

PlanFor(type, j, at, w, nodes) ==
  CASE Barred(type.t, w, nodes) -> Fail(OverLimit, at)
    [] type.t = "node" -> NodePlan(j, at)
    [] type.t = "kind" -> KindPlan(j, at)
    [] type.t = "op" -> OpPlan(j, at)
    [] type.t = "union" -> UnionPlans(type.n, j, at)
    [] type.t = "record" -> RecordPlans(type.n, j, at)
    [] type.t \in LeafTypes -> LeafPlan(type, j, at)
    [] OTHER -> PartPlan(type, j, at)

-----------------------------------------------------------------------------
\* The rules over what was read: where one is broken, << >> when it holds.
Before(a, b) == LET place(v) == CHOOSE i \in DOMAIN Ordinal : Ordinal[i] = v.str IN place(a) < place(b)

\* Twice a number, so that a half is whole.
Doubled(n) == 2 * n.num + (IF n.form = "frac" THEN 1 ELSE 0)

Holding(holds, at) == IF holds THEN << >> ELSE <<at>>

Broken(rule, on, got, at) ==
  CASE rule = "everyParamBound" ->
         Holding("expr" \in DOMAIN got => ParamsOf(got["expr"]) \subseteq NamesBound(got), at \o <<"expr">>)
    [] rule = "datesInOrder" -> Holding(~Before(got["to"], got["from"]), at)
    [] rule = "valuesInOrder" -> Holding(Doubled(got["from"]) <= Doubled(got["to"]), at)
    [] rule = "daysInOrder" ->
         Holding(Has(got["from"], "iso") /\ Has(got["to"], "iso")
                   => ~Before(got["to"].obj["iso"], got["from"].obj["iso"]), at)
    [] rule = "tokensHaveASource" ->
         Holding("allowFreeText" \in DOMAIN got /\ got["allowFreeText"] = Bool(FALSE)
                   => "suggestions" \in DOMAIN got, at \o <<"allowFreeText">>)
    [] rule = "hexColour" ->
         Holding(TagOf(got[on]) = "Static" => got[on].obj["value"].str \in HexColours, at)
    [] rule = "constrains" ->
         Holding({"format", "pattern", "minLength", "maxLength", "compare"} \cap DOMAIN got # {}, at)
    [] rule = "lengthsInOrder" ->
         Holding({"minLength", "maxLength"} \subseteq DOMAIN got => got["minLength"].num <= got["maxLength"].num, at)
    [] rule = "confirmOnce" ->
         LET nested == IF on \in DOMAIN got THEN NestedConfirms(got[on], at \o <<on>>) ELSE << >>
         IN  IF nested = << >> THEN << >> ELSE <<nested[1]>>
    [] rule = "nameUnused" ->
         Holding(\A i \in 1..(on - 1) : got[i].obj["name"] # got[on].obj["name"], at)
    [] rule = "citedCell" -> MisCited(got, on, at)
    [] OTHER -> Misgrouped(got, at)

\* What a plan makes of the members it read.
Built(plan, got) ==
  CASE plan.as = "done" -> plan.v
    [] plan.as = "same" -> got["it"]
    [] plan.as = "static" -> Static(got["it"])
    [] plan.as = "list" -> List([i \in DOMAIN got |-> got[i]])
    [] plan.as = "switch" -> Object("$type" :> Str(plan.tag) @@ BySelector(got))
    [] plan.tag = "" -> Object(got)
    [] OTHER -> Object("$type" :> Str(plan.tag) @@ got)

\* The decoder's calls, innermost last: the plan each runs, the members it has read, how deep
\* it stands and where.  What is left of the plan starts with the member being read.
Call(plan, w, at) == [plan |-> plan, got |-> << >>, w |-> w, at |-> at]
ReadAs(type, j)   == <<Call(Same(type, j, << >>), Start, << >>)>>
Current(frames) == Head(Last(frames).plan.jobs)
Idle(frames)    == Last(frames).plan.jobs = << >>

\* A value is read for the current member: kept, unless it is at the default or only checked.
Drops(job, v) == job.do = "check" \/ (job.do = "read" /\ job.drop # << >> /\ v = job.drop[1])
Took(frames, v) ==
  [frames EXCEPT ![Len(frames)].plan.jobs = Tail(@),
                 ![Len(frames)].got = IF Drops(Current(frames), v) THEN @ ELSE (Current(frames).key :> v) @@ @]
Passed(frames) == [frames EXCEPT ![Len(frames)].plan.jobs = Tail(@)]

\* The value of the innermost call, returned to the one below.
Outcome(frames) == Built(Last(frames).plan, Last(frames).got)
Called(frames, plan, w) == Append(frames, Call(plan, w, Current(frames).at))
Returned(frames) == Took(Front(frames), Outcome(frames))

-----------------------------------------------------------------------------
(***************************************************************************)
(* Decode: the bounds on the text, the tokens, the shape, then the node.   *)
(* A literal past the exact range must be the layout of the double it      *)
(* reads as, which an odd one is not (checkNumberToken).                   *)
(***************************************************************************)
InnerValues(j) ==
  IF Is("arr", j) THEN {j.arr[i] : i \in DOMAIN j.arr}
  ELSE IF Is("obj", j) THEN {j.obj[k] : k \in DOMAIN j.obj} ELSE {}

RECURSIVE Levels(_)
Levels(js) == IF js = {} THEN << >> ELSE <<js>> \o Levels(UNION {InnerValues(j) : j \in js})

TokenOK(j)    == Is("num", j) /\ j.form = "int" => j.num \in -(PayloadMax + 1)..(PayloadMax + 1) \/ j.num % 2 = 0
TooLong(j)    == (Is("arr", j) /\ Len(j.arr) > MaxArrayLength)
                 \/ (Is("obj", j) /\ Cardinality(DOMAIN j.obj) > MaxArrayLength)
Container(j)  == Is("arr", j) \/ Is("obj", j)

\* checkTextDepth counts the containers, checkShape the values.
TextFaults(levels) ==
  CASE \E i \in DOMAIN levels : i > MaxJSONDepth /\ \E j \in levels[i] : Container(j) -> <<OverLimit>>
    [] \E i \in DOMAIN levels : \E j \in levels[i] : ~TokenOK(j) -> <<InvalidJSON>>
    [] Len(levels) > MaxJSONDepth \/ \E i \in DOMAIN levels : \E j \in levels[i] : TooLong(j) -> <<OverLimit>>
    [] OTHER -> << >>

Accepted(v)         == [ok |-> TRUE, v |-> v]
Rejected(code, at)  == [ok |-> FALSE, code |-> code, at |-> at]

-----------------------------------------------------------------------------
(***************************************************************************)
(* Encode: a kind's members at their default are left out (omitDefaults),  *)
(* a row feed with a cell no double holds is refused (checkRowFeed), and   *)
(* any other integer past the exact range is written as a double.          *)
(***************************************************************************)
OmitDefaults(kind) ==
  LET rows == Kinds[TagOf(kind)]
      drop == {k \in DOMAIN kind.obj : \E i \in DOMAIN rows : /\ rows[i].key = k
                                                              /\ rows[i].opt = "omitDefault"
                                                              /\ kind.obj[k] = rows[i].default}
  IN  Object([k \in DOMAIN kind.obj \ drop |-> kind.obj[k]])

\* The row payloads a source carries.
RECURSIVE RowPayloads(_)
RowPayloads(source) ==
  CASE TagOf(source) = "Static" /\ Has(source, "value") -> {source.obj["value"]}
    [] TagOf(source) = "State" /\ Has(source, "defaultValue") -> {source.obj["defaultValue"]}
    [] TagOf(source) = "Local" /\ Has(source, "initialFrom") -> RowPayloads(source.obj["initialFrom"])
    [] OTHER -> {}

\* A check that takes the first cell no double holds.
InexactLater(cell) == Is("num", cell) /\ cell.form = "int" /\ cell.num \notin -(PayloadMax + 2)..(PayloadMax + 2)

\* A whole-number cell no double holds exactly; checkRowPayload looks at every cell of every row.
Inexact(cell) == Is("num", cell) /\ cell.form = "int" /\ cell.num \notin -(PayloadMax + 1)..(PayloadMax + 1)

RowsRefused(kind) ==
  /\ TagOf(kind) \in {"DataGrid", "Chart"} /\ Has(kind, "source")
  /\ \E rows \in RowPayloads(kind.obj["source"]) :
       /\ Is("arr", rows)
       /\ \E i \in DOMAIN rows.arr : Is("obj", rows.arr[i])
                                     /\ \E k \in DOMAIN rows.arr[i].obj : Inexact(rows.arr[i].obj[k])

\* appendInt, at every number of the tree.
RECURSIVE Written(_)
Written(v) ==
  CASE Is("num", v) -> Canonical(v)
    [] Is("arr", v) -> List([i \in DOMAIN v.arr |-> Written(v.arr[i])])
    [] Is("obj", v) -> Object([k \in DOMAIN v.obj |-> Written(v.obj[k])])
    [] OTHER -> v

\* A tree is encoded from its root; the kinds below it were decoded, and hold no default.
Encode(v, type) ==
  CASE type.t = "op" -> <<Written(v)>>
    [] RowsRefused(v.obj["kind"]) -> << >>
    [] OTHER -> <<Written(Object([v.obj EXCEPT !["kind"] = OmitDefaults(@)]))>>
=============================================================================
