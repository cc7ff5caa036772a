------------------------------- MODULE Forms --------------------------------
(***************************************************************************)
(* The decoders of form fields, their rules and filter items, of grid      *)
(* columns and cells, static tables, media pieces and tree items, as plans *)
(* of module Reading, and the decoder of every node kind on top of them.   *)
(***************************************************************************)
EXTENDS Bindings

\* placeholderMatches: the value a control of this kind starts from.  A choice starts from
\* null, which no decoded State default can be.
Placeholder(tag) ==
  CASE tag \in {"Text", "TextArea", "DateTime"} -> <<Str("")>>
    [] tag \in {"Number", "RangedNumber", "Rating"} -> <<Num(0)>>
    [] tag \in {"Checkbox", "Toggle"} -> <<Bool(FALSE)>>
    [] tag = "Tokens" -> <<EmptyList>>
    [] tag = "Color" -> <<Str("#000000")>>
    [] tag = "Range" -> <<Object("max" :> Num(0) @@ "min" :> Num(0))>>
    [] tag = "DateTimeRange" -> <<Object("from" :> Str("") @@ "to" :> Str(""))>>
    [] OTHER -> << >>

\* isAutoBoundValue: the binding a control has anyway, which its value slot leaves out: the
\* filter of a chip's own name, or the state of a field's own id at the placeholder.
AutoBound(bound, tag) ==
  CASE bound.as = "chip" -> Object("$type" :> Str("Filter") @@ "name" :> Str(bound.name))
    [] bound.as = "field" /\ Placeholder(tag) # << >> ->
         Object("$type" :> Str("State") @@ "key" :> Str(bound.name)
                @@ "defaultValue" :> Placeholder(tag)[1])
    [] OTHER -> Null

\* canonicalTemporalTag
TemporalTag(tag) ==
  CASE tag \in {"Date", "Time"} -> "DateTime"
    [] tag \in {"DateRange", "TimeRange"} -> "DateTimeRange"
    [] OTHER -> tag

\* temporalVariant: the Time spellings fix the variant, and admit no other beside them.
VariantStep(rawTag) ==
  IF rawTag \in {"Time", "TimeRange"}
  THEN Valued("variant", << >>, T("timeVariant"), "else", Str("Time"))
  ELSE Field("variant", OneOf("DateTimeVariant"))

TimeVariantPlan(j, at) ==
  LET variant == EnumPlan("DateTimeVariant", j, at)
  IN  IF variant.as = "done" /\ variant.v # Str("Time") THEN Fail(WrongType, at) ELSE variant

ValueType(tag) ==
  CASE tag \in {"Text", "TextArea", "DateTime"} -> BindingOf(Text)
    [] tag \in {"Number", "RangedNumber", "Rating"} -> BindingOf(Real)
    [] tag \in {"Checkbox", "Toggle"} -> BindingOf(Flag)
    [] tag \in {"Choice", "Combobox", "SegmentedChoice"} -> BindingOf(T("stringOpt"))
    [] tag = "Tokens" -> BindingOf(Texts)
    [] tag = "Color" -> T("colourBinding")
    [] tag = "Range" -> T("rangeValue")
    [] OTHER -> T("dateRangeValue")

\* decodeFormFieldKind: what each kind reads, in its order, around its value slot.
FieldKindSteps(tag, rawTag, value) ==
  LET bounds == <<Field("min", Real), Field("max", Real), Field("step", Real)>>
      days   == <<Field("min", Text), Field("max", Text), Field("step", Real)>>
      options == Field("options", BindingOf(T("options")))
  IN  <<Field("onChange", Closure)>> \o
      (CASE tag \in {"Choice", "Combobox", "SegmentedChoice"} -> <<options, value>>
         [] tag = "Tokens" -> <<Field("allowFreeText", Flag), Field("suggestions", BindingOf(T("options"))),
                                Obeys("tokensHaveASource"), value>>
         [] tag = "Rating" -> <<Field("max", T("ratingMax")), Field("allowHalf", Flag), value>>
         [] tag = "TextArea" -> <<Field("rows", Whole), value>>
         [] tag = "RangedNumber" -> <<value>> \o bounds
         [] tag \in {"DateTime", "DateTimeRange"} -> <<value, VariantStep(rawTag)>> \o days
         [] OTHER -> <<value>>)

FieldKindPlan(bound, j, at) ==
  LET tag == TemporalTag(TagOf(j))
  IN  Dispatch(j, DOMAIN Unions.FormFieldKind \cup {"Date", "Time", "DateRange", "TimeRange"}, UnknownCase, at,
               CasePlan("FormFieldKind", tag, j,
                        FieldKindSteps(tag, TagOf(j),
                          Valued("value", << >>, ValueType(tag), "unless", AutoBound(bound, tag))), TRUE, at))

RatingMaxPlan(j, at) ==
  LET max == IntPlan(Unwrapped(j), at)
  IN  IF max.as = "done" /\ max.v.num < 1 THEN Fail(WrongType, at) ELSE max

\* A colour written in the document is one a colour input can hold.
HexColours == {"#000000", "#1a2b3c"}
ColourBindingPlan(j, at) ==
  [as |-> "same", jobs |-> <<Job("it", BindingOf(Text), j, at), Rule("hexColour", "it", at)>>]

\* decodeFieldRule: a rule constrains something, and its lengths admit a value.
FieldRulePlan(j, at) ==
  RecordPlan("FieldRule", j,
             <<Field("format", OneOf("TextFormat")), Field("pattern", Text), Field("minLength", Whole),
               Field("maxLength", Whole), Field("compare", T("compareRule")),
               Field("message", Union("TextSource")), Obeys("constrains"), Obeys("lengthsInOrder")>>,
             TRUE, at)

CompareRulePlan(j, at) ==
  RecordPlan("CompareRule", j, <<Field("op", OneOf("CompareOp")), Field("against", BindingOf(Loose))>>,
             TRUE, at)

\* decodeFormField: the misspellings of rule are refused, the id may be written as name, and
\* the control is bound to that id.
NameAt(j, keys) ==
  LET found == SelectSeq(keys, LAMBDA k : Has(j, k) /\ Is("str", Unwrapped(j.obj[k])))
  IN  IF found = << >> THEN "" ELSE Unwrapped(j.obj[found[1]]).str

FormFieldPlan(j, at) ==
  RecordPlan("FormField", j,
             <<Retired(<<"validation", "constraints", "validate">>),
               AlsoAs("id", <<"name">>, Text),
               Raw("kind", [t |-> "fieldKind",
                            bound |-> [as |-> "field", name |-> NameAt(j, <<"id", "name">>)]]),
               Field("label", Union("TextSource")), Field("required", Flag),
               Field("help", Union("TextSource")), Field("rule", T("fieldRule"))>>, TRUE, at)

FilterItemPlan(j, at) ==
  RecordPlan("FilterSpec", j,
             <<Field("name", Text),
               Raw("kind", [t |-> "fieldKind", bound |-> [as |-> "chip", name |-> NameAt(j, <<"name">>)]]),
               Field("label", Union("TextSource"))>>, TRUE, at)

-----------------------------------------------------------------------------
(* Grids, media and trees.                                                 *)

\* A misspelling that would be ignored is refused, in the order of the list.
ColumnNearMisses == <<"readOnly">>
GridNearMisses ==
  <<"currentPage", "page", "pageIndex", "sortable", "onEdit", "behaviour", "behavior">>
AccessibilityNearMisses ==
  <<"aria-label", "ariaLabel", "aria-labelledby", "ariaLabelledBy", "labelledby", "aria-describedby",
    "ariaDescribedBy", "describedby", "aria-role", "ariaRole", "aria-live", "ariaLive", "live",
    "liveregion", "aria-hidden", "ariaHidden">>

\* decodeTonedPill: a Pill that carries a tone map is a TonedPill.
TonedPillPlan(j, at) ==
  CasePlan("CellKindErased", "TonedPill", j,
           <<Field("field", Text), AlsoAs("map", <<"toneMap", "tones">>, MapOf(OneOf("ToneVariant"))),
             Field("default", OneOf("ToneVariant"))>>, TRUE, at)

CellKindPlan(j, at) ==
  LET toned == TagOf(j) = "TonedPill"
               \/ (TagOf(j) = "Pill" /\ {"map", "toneMap", "tones"} \cap DOMAIN j.obj # {})
  IN  Dispatch(j, DOMAIN Unions.CellKindErased, UnknownCase, at,
               IF toned THEN TonedPillPlan(j, at) ELSE CaseByKeyPlan("CellKindErased", TagOf(j), j, << >>, at))

\* decodeColumnErased
ColumnPlan(j, at) ==
  RecordPlan("ColumnErased", j,
             <<AlsoAs("kind", <<"type">>, T("cellKind")), AlsoAs("label", <<"header", "title">>, Text),
               Field("format", Union("CellFormat")), Field("width", Union("ColumnWidth")),
               Field("value", Closure), Retired(ColumnNearMisses), Field("sortable", Flag),
               Field("editable", Flag), Field("field", Text)>>, TRUE, at)

AtLeast(n, j, at) ==
  LET int == IntPlan(Unwrapped(j), at)
  IN  IF int.as = "done" /\ int.v.num < n THEN Fail(WrongType, at) ELSE int

DefaultSortPlan(j, at) ==
  RecordPlan("DefaultSort", j, <<Field("column", T("natural")), Field("direction", OneOf("SortDirection"))>>,
             TRUE, at)

\* decodeStaticRows: the citations are read against the rows as they are written.
StaticRowsPlan(j, at) ==
  RecordPlan("StaticRows", j,
             <<Field("headers", ListOf(Union("TextSource"))),
               Field("rows", ListOf(ListOf(Union("TextSource")))), Field("sortable", Flag),
               Field("defaultSort", T("defaultSort")),
               Field("citations", [t |-> "citations",
                                   rows |-> IF Has(j, "rows") /\ Is("arr", j.obj["rows"])
                                            THEN j.obj["rows"].arr ELSE << >>])>>, TRUE, at)

CitationPlan(j, at) ==
  RecordPlan("TableCitation", j,
             <<Field("column", T("natural")), Field("label", Union("TextSource")),
               Field("reference", Text), Field("row", T("natural"))>>, TRUE, at)

\* decodeTableCitations: at least one, each of a cell the table has and no other one names.
CitationsPlan(rows, j, at) ==
  IF ~Is("arr", j) \/ j.arr = << >> THEN Fail(WrongType, at)
  ELSE [as |-> "list",
        jobs |-> Joined([i \in DOMAIN j.arr |->
                   <<Job(i, T("citation"), j.arr[i], at \o <<Seg(i)>>),
                     Rule("citedCell", [i |-> i, rows |-> rows], at \o <<Seg(i)>>)>>])]

\* What is wrong with the citation read as item i of got.
MisCited(got, on, at) ==
  LET row == got[on.i].obj["row"].num
      column == got[on.i].obj["column"].num
      cells == IF row < Len(on.rows) /\ Is("arr", on.rows[row + 1]) THEN on.rows[row + 1].arr ELSE << >>
  IN  IF row >= Len(on.rows) THEN <<at \o <<"row">>>>
      ELSE IF column >= Len(cells) THEN <<at \o <<"column">>>>
      ELSE IF \E i \in 1..(on.i - 1) : /\ got[i].obj["row"].num = row
                                       /\ got[i].obj["column"].num = column THEN <<at>>
      ELSE << >>

-----------------------------------------------------------------------------
\* Pieces of images, media, tabs and trees.
SrcSetEntryPlan(j, at) ==
  RecordPlan("SrcSetEntry", j, <<Field("src", BindingOf(Text)), Field("width", T("positive"))>>, TRUE, at)

TrackPlan(j, at) ==
  RecordPlan("TrackEntry", j,
             <<Field("kind", OneOf("TrackKind")), Field("label", Union("TextSource")),
               Field("src", BindingOf(Text)), Field("srcLang", Text), Field("default", Flag)>>, TRUE, at)

TabHeaderPlan(j, at) ==
  RecordPlan("TabHeader", j,
             <<Field("label", Union("TextSource")), Field("icon", Text), Field("disabled", BindingOf(Flag))>>,
             TRUE, at)

\* decodeTreeItems: an item's children are items.
TreeItemPlan(j, at) ==
  RecordPlan("TreeItem", j,
             <<Field("id", Text), Field("label", Union("TextSource")),
               Field("children", ListOf(T("treeItem"))), Field("icon", Text)>>, TRUE, at)

DestinationPlan(j, at) ==
  IF Unwrapped(j) = Str("") THEN Fail(WrongType, at) ELSE Scalar("str", Unwrapped(j), at)

\* decodeMediaKind: both cases drop what their rows do not name.
MediaKindPlan(j, at) == StrictUnion("MediaKind", << >>, j, at)

-----------------------------------------------------------------------------
(* The decoder of every node kind (wire/decode.go, the handArms methods):  *)
(* what each arm reads before the table reads the remaining rows, so which *)
(* defect of a kind object is reported.  A kind without an arm of its own  *)
(* (Disclosure, ErrorBoundary, FragmentRef, SplitPanel, SummaryList) is    *)
(* read by the table alone.                                                *)

Data(parse)        == BindingOf(parse)
TypedData(parse)   == [BindingOf(parse) EXCEPT !.typed = TRUE]
TitleAsHeading     == AlsoAs("heading", <<"title">>, Union("TextSource"))
HasEmphasisFlag    == Field("emphasis", T("emphasisFlag"))

\* Text, figures and callouts.
DisplayArm(tag) ==
  CASE tag = "Heading" -> InTurn(<<"level", "text", "variant">>)
    [] tag = "Markdown" -> <<Field("citations", T("markdownCitations")), Field("text", Union("TextSource"))>>
    [] tag = "Metric" ->
         <<Field("label", T("row")), AlsoAs("value", <<"data">>, T("row"))>>
         \o InTurn(<<"format", "tone", "weight">>) \o <<Field("emphasis", T("emphasis"))>>
         \o InTurn(<<"trend", "trendFormat", "trendPolarity", "icon", "subtext">>)
    [] tag = "Fact" -> InTurn(<<"label", "value", "tone">>) \o <<HasEmphasisFlag>> \o InTurn(<<"help", "icon">>)
    [] tag = "LabelValueRow" ->
         <<Field("label", T("row")), AlsoAs("value", <<"data">>, T("row")), Field("format", T("row")),
           HasEmphasisFlag, Field("help", T("row"))>>
    [] tag = "Badge" -> InTurn(<<"label", "variant">>)
    [] tag = "Callout" -> InTurn(<<"body", "dismissable", "tone">>) \o <<TitleAsHeading, Field("icon", T("row"))>>
    [] OTHER -> << >>

\* Progress, notices, icons and small charts.
FigureArm(tag) ==
  CASE tag = "Progress" -> InTurn(<<"fraction", "indeterminate", "tone", "label", "caveat">>)
    [] tag = "Toast" -> InTurn(<<"dismissable", "message", "open", "tone">>)
    [] tag = "Skeleton" -> <<Field("rows", T("skeletonRows"))>>
    [] tag = "Icon" -> InTurn(<<"icon", "size", "tone", "label">>)
    [] tag = "Sparkline" -> <<AlsoAs("source", <<"data">>, Data(T("reals")))>>
    [] tag = "Map" ->
         InTurn(<<"centreLatitude", "centreLongitude">>)
         \o <<AlsoAs("source", <<"data", "markers">>, Data(T("markers"))), Field("zoom", T("row")),
              Marks("onMarkerClick")>>
    [] OTHER -> << >>

\* decodeMarkdownCitations: at least one, each under a name no other one has.
CitationNames == {"a", "b"}

CitationNamePlan(j, at) ==
  IF Is("str", Unwrapped(j)) /\ Unwrapped(j).str \in CitationNames THEN Done(Unwrapped(j))
  ELSE Fail(WrongType, at)

MarkdownCitationPlan(j, at) ==
  RecordPlan("MarkdownCitation", j,
             <<Field("label", Union("TextSource")), Field("name", T("citationName")), Field("reference", Text)>>,
             TRUE, at)

MarkdownCitationsPlan(j, at) ==
  IF ~Is("arr", j) \/ j.arr = << >> THEN Fail(WrongType, at)
  ELSE [as |-> "list",
        jobs |-> Joined([i \in DOMAIN j.arr |->
                   <<Job(i, T("markdownCitation"), j.arr[i], at \o <<Seg(i)>>),
                     Rule("nameUnused", i, at \o <<Seg(i), "name">>)>>])]

\* Links, media and reading material.
ContentArm(tag) ==
  CASE tag = "Link" -> InTurn(<<"download", "href", "label", "protection", "rel", "target">>)
    [] tag = "Image" ->
         InTurn(<<"alt", "aspectRatio", "caption", "expandable", "fit", "loading", "src">>)
         \o <<Field("srcSet", ListOf(T("srcSetEntry"))), Field("variant", T("row"))>>
    [] tag = "Media" ->
         <<Field("controls", T("row")), Field("kind", T("mediaKind"))>> \o InTurn(<<"label", "loop", "src">>)
         \o <<Field("tracks", ListOf(T("track"))), Field("transcript", T("row"))>>
    [] tag = "Embed" -> InTurn(<<"aspectRatio", "permissions", "src", "title">>)
    [] tag = "Tree" ->
         <<Field("expandedStateKey", T("row")), Field("items", ListOf(T("treeItem"))), Marks("onSelect"),
           Field("selectionStateKey", T("row"))>>
    [] tag = "List" -> InTurn(<<"items", "ordered">>)
    [] tag = "CodeBlock" -> InTurn(<<"code", "copyable", "highlightLines", "language", "lineNumbers">>)
    [] tag = "Math" -> InTurn(<<"display", "source">>)
    [] tag = "Drawing" -> InTurn(<<"description", "shapes", "style", "title", "viewBox">>)
    [] OTHER -> << >>

-----------------------------------------------------------------------------
\* decodeSelectValue: a single select must carry a value, a multiple one may carry one, which
\* is read for its defects and dropped.
SelectValue(j) ==
  LET multiple == IF Has(j, "multiple") THEN Unwrapped(j.obj["multiple"]) ELSE Bool(FALSE)
      value    == Field("value", Data(T("stringOpt")))
  IN  CASE multiple = Bool(FALSE) -> <<OneAtLeast("value", "value"), value>>
        [] multiple = Bool(TRUE) -> <<[value EXCEPT !.how = "discard"]>>
        [] OTHER -> <<value>>

\* armSelect, whose groups are checked once everything is read.
SelectArm(j) ==
  <<Field("label", Union("TextSource")), Marks("onChange"),
    AlsoAs("source", <<"options", "data">>, Data(T("options")))>>
  \o SelectValue(j)
  \o <<Field("disabled", T("row")), Field("placeholder", T("row")), Field("multiple", T("row")),
       Field("values", T("row")), Marks("onChangeMulti")>>

\* checkSelectGroups: where a group first names a value already named, or one that a Static
\* source does not offer; an opaque option hides what is on offer.
OptionsOf(got) ==
  IF "source" \in DOMAIN got /\ TagOf(got["source"]) = "Static" /\ Is("arr", got["source"].obj["value"])
  THEN LET options == got["source"].obj["value"].arr
           values  == {options[i].obj["value"] : i \in DOMAIN options}
       IN  IF Opaque \in values THEN << >> ELSE <<values>>
  ELSE << >>

Misgrouped(got, at) ==
  IF "groups" \notin DOMAIN got THEN << >>
  ELSE LET groups == got["groups"].arr
           named  == Joined([g \in DOMAIN groups |->
                       [i \in DOMAIN groups[g].obj["values"].arr |->
                         [v |-> groups[g].obj["values"].arr[i], at |-> <<"groups", Seg(g), "values", Seg(i)>>]]])
           bad    == {n \in DOMAIN named :
                        \/ \E m \in 1..(n - 1) : named[m].v = named[n].v
                        \/ OptionsOf(got) # << >> /\ named[n].v \notin OptionsOf(got)[1]}
       IN  IF bad = {} THEN << >>
           ELSE <<at \o named[CHOOSE n \in bad : \A m \in bad : n <= m].at>>

\* Controls.
ControlArm(tag, j) ==
  CASE tag = "Select" -> SelectArm(j)
    [] tag = "Modal" ->
         InTurn(<<"children", "dismissable", "onDismiss", "open">>) \o <<TitleAsHeading, Field("modality", T("row"))>>
    [] tag = "ScrollArea" -> InTurn(<<"children", "orientation", "maxHeight", "maxWidth">>)
    [] tag = "Button" -> InTurn(<<"label", "onClick", "variant", "icon", "disabled">>)
    [] tag = "Form" -> <<Field("fields", ListOf(T("formField")))>> \o InTurn(<<"onSubmit", "submitLabel", "disabled">>)
    [] tag = "Filters" -> <<Field("items", ListOf(T("filterItem")))>>
    [] tag = "FileUpload" ->
         InTurn(<<"accept", "label", "multiple">>) \o <<Marks("onSelect")>>
         \o InTurn(<<"disabled", "dropTarget", "acceptPaste", "capture">>)
         \o <<Field("destination", T("destination")), Field("maxBytes", T("positive")),
              Field("maxFiles", T("positive"))>>
    [] OTHER -> << >>

\* Feeds of rows.
FeedArm(tag) ==
  CASE tag = "DataGrid" ->
         <<Field("columns", ListOf(T("column"))), Field("editable", T("row")), Field("reorderable", T("row")),
           AlsoAs("source", <<"data", "rows">>, TypedData(T("rows"))), Marks("onRowClick"), Marks("rowKey"),
           Field("rowKeyField", T("row")), Field("sortStateKey", T("row")), Field("pageSize", T("positive")),
           Field("defaultSort", T("defaultSort")), Retired(GridNearMisses)>>
         \o InTurn(<<"editStateKey", "pageStateKey">>) \o <<Field("staticRows", T("staticRows"))>>
         \o InTurn(<<"exportable", "keepRowsTogether", "repeatHeader", "transferInKey", "transferOutKey",
                     "rowTotal", "windowStateKey">>)
    [] tag = "Chart" ->
         <<Field("kind", T("row")), AlsoAs("source", <<"data">>, TypedData(T("rows")))>>
         \o InTurn(<<"stacked", "xField", "yFields", "title", "annotations">>) \o <<Marks("onPointClick")>>
    [] OTHER -> << >>

-----------------------------------------------------------------------------
\* armSwitch: the selector is `on`, which wins over a stateKey beside it; a State selector
\* with no default is written as its key alone.
SwitchSelector(j) ==
  IF Has(j, "on")
  THEN <<Reads("on", <<"stateKey">>, BindingOf(Loose), "raw")>>
  ELSE <<OneAtLeast("stateKey", "stateKey"), Raw("stateKey", Text)>>

BySelector(got) ==
  IF "on" \in DOMAIN got /\ TagOf(got["on"]) = "State" /\ DOMAIN got["on"].obj = {"$type", "key"}
  THEN "stateKey" :> got["on"].obj["key"] @@ [k \in DOMAIN got \ {"on"} |-> got[k]]
  ELSE got

\* Composition.
CompositionArm(tag, j) ==
  CASE tag = "Custom" ->
         InTurn(<<"moduleId", "componentId">>)
         \o <<Field("props", Json), Field("contentHash", Json), Field("exposedNodeIds", Json)>>
    [] tag = "Tabs" ->
         InTurn(<<"activeIndex", "children", "orientation">>) \o <<Field("tabHeaders", ListOf(T("tabHeader")))>>
         \o InTurn(<<"tabTags", "activeTag">>) \o <<Marks("onSelect"), Marks("onSelectTag")>>
    [] tag = "Stepper" -> InTurn(<<"activeStep", "children">>) \o <<Marks("onSelect")>>
    [] tag = "Switch" ->
         <<Field("cases", ListOf(T("switchCase"))), Field("default", T("row"))>> \o SwitchSelector(j)
         \o <<Field("autoAdvanceMs", T("positive"))>>
    [] tag = "FragmentDecl" -> <<Field("holes", Loose), Field("effect", Loose)>>
    [] tag = "Mount" ->
         <<Field("scopeId", T("row")), Field("channel", T("guestChannel")), Field("capabilities", Json),
           Field("inputs", Loose)>>
    [] tag = "Box" ->
         InTurn(<<"children", "role">>) \o <<Field("layout", Union("BoxLayout")), TitleAsHeading>>
         \o InTurn(<<"breakBefore", "keepTogether">>)
    [] OTHER -> << >>

\* decodeBoxLayout: a Grid that says nothing of its columns is an Auto, one that gives a
\* template alone has one column.
BoxLayoutSteps(j) ==
  CASE TagOf(j) = "Flex" -> InTurn(<<"direction", "wrap", "gap">>)
    [] TagOf(j) = "Grid" ->
         <<IF Has(j, "cols") \/ Has(j, "columns") THEN AlsoAs("cols", <<"columns">>, Whole)
           ELSE Valued("cols", << >>, Whole, "else", Num(1))>> \o InTurn(<<"gap", "templateColumns">>)
    [] TagOf(j) = "Masonry" -> <<AlsoAs("cols", <<"columns">>, T("positive")), Field("gap", Whole)>>
    [] OTHER -> << >>

BoxLayoutPlan(j, at) ==
  Dispatch(j, DOMAIN Unions.BoxLayout, UnknownCase, at,
           IF TagOf(j) = "Grid" /\ {"cols", "columns", "templateColumns"} \cap DOMAIN j.obj = {} THEN Done(Bare("Auto"))
           ELSE CasePlan("BoxLayout", TagOf(j), j, BoxLayoutSteps(j), TRUE, at))

\* dispatchKindArm, where a kind without a hand arm falls to tableArms.
HandArm(tag, j) ==
  DisplayArm(tag) \o FigureArm(tag) \o ContentArm(tag) \o ControlArm(tag, j) \o FeedArm(tag) \o CompositionArm(tag, j)

\* decodeKind: Box drops what no row names, the other kinds keep it.
KindPlan(j, at) ==
  LET tag == TagOf(j)
  IN  Dispatch(j, DOMAIN Kinds, UnknownKind, at,
               [RowsPlan(j.obj, Kinds[tag], tag, HandArm(tag, j), tag, tag = "Box", at)
                  EXCEPT !.jobs = @ \o (IF tag = "Select" THEN <<Rule("grouped", "", at)>> ELSE << >>),
                         !.as = IF tag = "Switch" THEN "switch" ELSE @])
=============================================================================
