----------------------------- MODULE Vocabulary -----------------------------
(***************************************************************************)
(* The wire vocabulary as data: the field table of every node kind, union  *)
(* case, record and tree operation, and the cases of every enumeration,    *)
(* as wire/idl declares them.  A row names a member, the type it is read   *)
(* at, and what its absence means: Must refuses it, May leaves it absent,  *)
(* Else stands for a default that the canonical form never writes, and a   *)
(* Host row never crosses the wire.                                        *)
(*                                                                         *)
(* A JSON value is a record with one field that tells its kind, so that    *)
(* any two can be compared; a number also says how its literal is written. *)
(***************************************************************************)
EXTENDS Integers, Sequences, TLC

Str(s)    == [str |-> s]
Bool(b)   == [bool |-> b]
Num(k)    == [num |-> k, form |-> "int"]
List(s)   == [arr |-> s]
Object(f) == [obj |-> f]
Null      == [null |-> TRUE]

NoMembers  == [k \in {} |-> Null]
EmptyList  == List(<< >>)
Empty      == Object(NoMembers)
Bare(tag)  == Object([k \in {"$type"} |-> Str(tag)])
Static(v)  == Object("$type" :> Str("Static") @@ "value" :> v)
StaticZero == Static(Num(0))
PureEffect == Object("determinism" :> Str("Deterministic") @@ "hostEffect" :> Str("Pure"))

\* The types a row declares.
T(t)         == [t |-> t]
Text         == T("string")
Flag         == T("bool")
Whole        == T("int")
Real         == T("float")
Closure      == T("closure")
Json         == T("json")
Loose        == T("loose")
Texts        == T("texts")
Subtree      == T("node")
KindOf       == T("kind")
TreeOp       == T("op")
ListOf(e)    == [t |-> "list", of |-> e]
MapOf(e)     == [t |-> "map", of |-> e]
OneOf(n)     == [t |-> "enum", n |-> n]
Union(n)     == [t |-> "union", n |-> n]
Record(n)    == [t |-> "record", n |-> n]
BindingOf(p) == [t |-> "binding", parse |-> p, typed |-> FALSE]

Row(key, type, opt, default) == [key |-> key, type |-> type, opt |-> opt, default |-> default]
Must(key, type)    == Row(key, type, "required", Null)
May(key, type)     == Row(key, type, "optional", Null)
Else(key, type, d) == Row(key, type, "omitDefault", d)
Host(key)          == Row(key, Closure, "hostOnly", Null)


\* The node kinds from Badge to FragmentRef.
KindsBadgeToFragmentRef ==
  [ Badge |-> <<Must("label", Union("TextSource")), Else("variant", OneOf("BadgeVariant"), Str("Neutral"))>>,
    Box |-> <<Must("children", ListOf(Subtree)), May("heading", Union("TextSource")),
              Must("layout", Union("BoxLayout")), Must("role", OneOf("BoxRole")),
              Else("keepTogether", Flag, Bool(FALSE)), Else("breakBefore", Flag, Bool(FALSE))>>,
    Button |-> <<Must("label", Union("TextSource")), Must("onClick", Union("Action")),
                 Else("variant", OneOf("ButtonVariant"), Str("Secondary")), May("icon", Text), Host("tooltip"),
                 May("disabled", BindingOf(Flag)), May("affordance", Record("Affordance"))>>,
    Callout |-> <<Must("body", Union("TextSource")), Else("dismissable", Flag, Bool(FALSE)),
                  Else("tone", OneOf("ToneVariant"), Str("Default")), May("heading", Union("TextSource")),
                  May("icon", Text)>>,
    Chart |-> <<Must("kind", OneOf("ChartKind")), Must("source", BindingOf(Loose)),
                Else("stacked", Flag, Bool(FALSE)), Must("xField", Text), Must("yFields", ListOf(Text)),
                May("title", Union("TextSource")), May("valueFormat", Union("Format")),
                May("xTitle", Union("TextSource")), May("yTitle", Union("TextSource")),
                May("subtitle", Union("TextSource")), May("legendPosition", OneOf("ChartLegendPosition")),
                May("dataLabels", OneOf("ChartDataLabels")), May("xScale", OneOf("ChartXScale")),
                May("annotations", ListOf(Union("ChartAnnotation"))), May("onPointClick", Closure)>>,
    CodeBlock |-> <<Must("code", Text), Else("copyable", Flag, Bool(TRUE)),
                    Else("highlightLines", ListOf(Whole), EmptyList), Must("language", Text),
                    Else("lineNumbers", Flag, Bool(FALSE))>>,
    Custom |-> <<Must("moduleId", Text), Must("componentId", Text), Must("props", MapOf(Json)),
                 May("contentHash", Record("ContentHash")), May("exposedNodeIds", ListOf(Text))>>,
    DataGrid |-> <<Must("columns", ListOf(Record("ColumnErased"))), Else("editable", Flag, Bool(FALSE)),
                   May("rowKey", Closure), May("rowKeyField", Text), May("sortStateKey", Text),
                   May("pageSize", Whole), May("pageStateKey", Text), May("defaultSort", Record("DefaultSort")),
                   May("editStateKey", Text), Else("reorderable", Flag, Bool(FALSE)),
                   May("transferInKey", Text), May("transferOutKey", Text),
                   Else("keepRowsTogether", Flag, Bool(FALSE)), Else("repeatHeader", Flag, Bool(FALSE)),
                   Else("exportable", Flag, Bool(FALSE)), May("windowStateKey", Text),
                   May("rowTotal", BindingOf(Whole)), Must("source", BindingOf(Loose)),
                   May("staticRows", Record("StaticRows")), May("onRowClick", Closure)>>,
    Disclosure |-> <<Must("children", ListOf(Subtree)), Must("defaultOpen", Flag),
                     Must("heading", Union("TextSource")), May("onToggle", Closure),
                     Must("open", BindingOf(Flag))>>,
    Drawing |-> <<May("description", Union("TextSource")), Must("shapes", ListOf(Union("Shape"))),
                  Must("style", Record("DrawStyle")), May("title", Union("TextSource")),
                  Must("viewBox", Record("ViewBox"))>>,
    Embed |-> <<Else("aspectRatio", OneOf("ImageAspect"), Str("Natural")),
                Else("permissions", ListOf(OneOf("EmbedPermission")), EmptyList), Must("src", BindingOf(Text)),
                Must("title", Union("TextSource"))>>,
    ErrorBoundary |-> <<Must("child", Subtree), Must("fallback", Subtree)>>,
    Fact |-> <<Else("emphasis", Flag, Bool(FALSE)), May("help", Union("TextSource")), May("icon", Text),
               Must("label", Union("TextSource")), Else("tone", OneOf("ToneVariant"), Str("Default")),
               Must("value", Union("TextSource")), May("reference", Text)>>,
    FileUpload |-> <<Must("accept", ListOf(Text)), Must("label", Union("TextSource")),
                     Else("multiple", Flag, Bool(FALSE)), May("onSelect", Closure),
                     May("disabled", BindingOf(Flag)), Else("acceptPaste", Flag, Bool(FALSE)),
                     Else("dropTarget", Flag, Bool(FALSE)), May("capture", OneOf("CaptureSource")),
                     May("destination", Text), May("maxBytes", Whole), May("maxFiles", Whole)>>,
    Filters |-> <<Must("items", ListOf(Record("FilterSpec")))>>,
    Form |-> <<Must("fields", ListOf(Record("FormField"))), Must("onSubmit", Union("Action")),
               Must("submitLabel", Union("TextSource")), May("disabled", BindingOf(Flag))>>,
    FragmentDecl |-> <<Must("body", Subtree), Must("name", Text),
                       Else("holes", ListOf(Union("HoleDecl")), EmptyList),
                       Else("effect", Record("EffectClass"), PureEffect)>>,
    FragmentRef |-> <<Must("name", Text), May("args", MapOf(Union("FragmentArg")))>> ]

\* The node kinds from Heading to Switch.
KindsHeadingToSwitch ==
  [ Heading |-> <<Must("level", Whole), Must("text", Union("TextSource")),
                  Else("variant", OneOf("HeadingVariant"), Str("Standard"))>>,
    Icon |-> <<Must("icon", Text), Else("size", OneOf("IconSize"), Str("Medium")),
               Else("tone", OneOf("ToneVariant"), Str("Default")), May("label", Text)>>,
    Image |-> <<Must("alt", Union("TextSource")), Must("src", BindingOf(Text)),
                Else("variant", OneOf("ImageVariant"), Str("Default")),
                Else("fit", OneOf("ImageFit"), Str("Natural")),
                Else("aspectRatio", OneOf("ImageAspect"), Str("Natural")),
                Else("loading", OneOf("ImageLoading"), Str("Eager")),
                Else("srcSet", ListOf(Record("SrcSetEntry")), EmptyList), Else("expandable", Flag, Bool(FALSE)),
                May("caption", Union("TextSource"))>>,
    LabelValueRow |-> <<Else("emphasis", Flag, Bool(FALSE)), Else("format", Union("CellFormat"), Bare("None")),
                        Must("label", Union("TextSource")), Must("value", BindingOf(Real)),
                        May("help", Union("TextSource"))>>,
    Link |-> <<Must("href", BindingOf(Text)), Must("label", Union("TextSource")),
               Else("download", Flag, Bool(FALSE)), May("rel", Text), May("target", Text),
               May("protection", OneOf("LinkProtection"))>>,
    List |-> <<Must("items", ListOf(Union("TextSource"))), Else("ordered", Flag, Bool(FALSE))>>,
    Map |-> <<Must("centreLatitude", Real), Must("centreLongitude", Real), Must("source", BindingOf(Loose)),
              Must("zoom", Whole), May("onMarkerClick", Closure)>>,
    Markdown |-> <<Else("citations", ListOf(Record("MarkdownCitation")), EmptyList),
                   Must("text", Union("TextSource"))>>,
    Math |-> <<Must("source", Text), Must("display", OneOf("MathDisplay"))>>,
    Media |-> <<Else("controls", Flag, Bool(TRUE)), Must("kind", Union("MediaKind")),
                Must("label", Union("TextSource")), Else("loop", Flag, Bool(FALSE)),
                Must("src", BindingOf(Text)), Else("tracks", ListOf(Record("TrackEntry")), EmptyList),
                May("transcript", Union("TextSource"))>>,
    Metric |-> <<Must("label", Union("TextSource")), Must("value", BindingOf(Real)),
                 Else("format", Union("CellFormat"), Bare("None")),
                 Else("tone", OneOf("ToneVariant"), Str("Default")),
                 Else("weight", OneOf("StyleWeight"), Str("Standard")),
                 Else("emphasis", OneOf("Emphasis"), Str("Normal")), May("trend", BindingOf(Real)),
                 May("trendFormat", Union("CellFormat")),
                 Else("trendPolarity", OneOf("TrendPolarity"), Str("HigherIsBetter")),
                 Else("comparisons", ListOf(Record("MetricComparison")), EmptyList), May("icon", Text),
                 May("subtext", Union("TextSource"))>>,
    Modal |-> <<Must("children", ListOf(Subtree)), Else("dismissable", Flag, Bool(TRUE)),
                May("onDismiss", Union("Action")), Must("open", BindingOf(Flag)),
                May("heading", Union("TextSource")), Else("modality", OneOf("ModalityKind"), Str("Modal")),
                May("anchor", Text)>>,
    Mount |-> <<Must("capabilities", ListOf(Text)), Must("channel", Record("GuestChannel")),
                May("inputs", MapOf(Union("FragmentArg"))), May("onBubble", Closure), Must("scopeId", Text)>>,
    Progress |-> <<Must("fraction", BindingOf(Real)), Else("indeterminate", Flag, Bool(FALSE)),
                   Else("tone", OneOf("ToneVariant"), Str("Default")), May("label", Union("TextSource")),
                   May("caveat", Union("TextSource"))>>,
    ScrollArea |-> <<Must("children", ListOf(Subtree)), Must("orientation", OneOf("ScrollOrientation")),
                     May("maxHeight", Whole), May("maxWidth", Whole)>>,
    Select |-> <<Must("label", Union("TextSource")), May("onChange", Closure), May("onChangeMulti", Closure),
                 Must("source", BindingOf(Loose)), May("value", BindingOf(Text)),
                 May("placeholder", Union("TextSource")), May("disabled", BindingOf(Flag)),
                 May("multiple", Flag), May("values", BindingOf(Texts)),
                 May("affordance", Record("Affordance")),
                 Else("groups", ListOf(Record("SelectOptionGroup")), EmptyList)>>,
    Skeleton |-> <<Must("rows", Whole)>>,
    Sparkline |-> <<Must("source", BindingOf(Loose))>>,
    SplitPanel |-> <<Must("children", ListOf(Subtree)), Must("weight", Real)>>,
    Stepper |-> <<Else("activeStep", BindingOf(Whole), StaticZero), Must("children", ListOf(Subtree)),
                  May("onSelect", Closure)>>,
    SummaryList |-> <<Must("children", ListOf(Subtree)), May("heading", Union("TextSource"))>>,
    Switch |-> <<May("autoAdvanceMs", Whole), Must("cases", ListOf(Record("SwitchCase"))),
                 Must("default", Subtree), May("on", BindingOf(Text)), May("stateKey", Text)>> ]

\* The node kinds from Tabs to Tree.
KindsTabsToTree ==
  [ Tabs |-> <<Else("activeIndex", BindingOf(Whole), StaticZero), Must("children", ListOf(Subtree)),
               Else("orientation", OneOf("Orientation"), Str("Horizontal")), May("onSelect", Closure),
               May("onSelectTag", Closure), May("tabHeaders", ListOf(Record("TabHeader"))),
               May("tabTags", ListOf(Text)), May("activeTag", BindingOf(Text))>>,
    Toast |-> <<Else("dismissable", Flag, Bool(TRUE)), Must("message", Union("TextSource")),
                Must("open", BindingOf(Flag)), Else("tone", OneOf("ToneVariant"), Str("Default"))>>,
    Tree |-> <<May("expandedStateKey", Text), Must("items", ListOf(Record("TreeItem"))),
               May("onSelect", Closure), May("selectionStateKey", Text)>> ]

Kinds == KindsBadgeToFragmentRef @@ KindsHeadingToSwitch @@ KindsTabsToTree

\* The cases of the bare enumerations.
Enums ==
  [ BadgeVariant |-> {"Neutral", "Brand", "Success", "Warning", "Critical", "Info"},
    BoxRole |-> {"Dashboard", "Card", "Group", "Separator"},
    ButtonVariant |-> {"Primary", "Secondary", "Tertiary", "Destructive"},
    CaptureSource |-> {"Camera", "Microphone"},
    ChannelDirection |-> {"OutOnly", "TwoWay"},
    ChartDataLabels |-> {"Off", "Ends"},
    ChartKind |-> {"Line", "Bar", "Area", "Pie", "Scatter", "Heatmap"},
    ChartLegendPosition |-> {"Top", "Right", "Bottom", "None"},
    ChartXScale |-> {"Category", "Temporal"},
    CompareOp |-> {"eq", "neq", "lt", "lte", "gt", "gte"},
    DateStyle |-> {"Short", "Medium", "Long", "Full"},
    DateTimeVariant |-> {"Date", "Time", "DateTime"},
    DeterminismSource |-> {"Deterministic", "Clock", "Random", "Network"},
    DurationStyle |-> {"Compact", "Clock", "Long"},
    DurationUnit |-> {"Seconds", "Minutes", "Hours"},
    EmbedPermission |-> {"AllowScripts", "AllowSameOrigin", "AllowForms", "AllowFullscreen"},
    Emphasis |-> {"Quiet", "Normal", "Loud"},
    FileReadEncoding |-> {"Text", "Base64", "DataUrl"},
    FontVoice |-> {"Default", "Display", "Structural"},
    HashStrictness |-> {"StrictReplay", "AdvisoryWarning", "Enforced"},
    HeadingVariant |-> {"Standard", "Eyebrow", "Caption", "Lead"},
    HostEffect |-> {"Pure", "ReadsHost", "WritesHost"},
    IconSize |-> {"Small", "Medium", "Large"},
    ImageAspect |-> {"Natural", "Square", "FourThree", "ThreeTwo", "SixteenNine"},
    ImageFit |-> {"Natural", "Cover", "Contain"},
    ImageLoading |-> {"Eager", "Lazy"},
    ImageVariant |-> {"Default", "Avatar", "Rounded"},
    LinkProtection |-> {"email"},
    LiveRegionKind |-> {"polite", "assertive", "off"},
    MathDisplay |-> {"Inline", "Block"},
    ModalityKind |-> {"Modal", "Popover"},
    Motion |-> {"None", "PulseDuringLoad", "FadeInOnMount", "SlideInFromBelow", "ShakeOnError",
                "RotateOnRefresh", "SlideInFromRight", "ExpandCollapse", "CrossFade", "SlideBetween"},
    NavigateTarget |-> {"Self", "Blank"},
    Orientation |-> {"Vertical", "Horizontal"},
    RelativeTimeUnit |-> {"Second", "Minute", "Hour", "Day", "Week", "Month", "Year"},
    ScrollOrientation |-> {"Vertical", "Horizontal", "Both"},
    SortDirection |-> {"asc", "desc"},
    StyleRole |-> {"None", "Eyebrow", "Data", "Lede", "Caption"},
    StyleWeight |-> {"Compact", "Standard", "Spacious"},
    TextAnchor |-> {"Start", "Middle", "End"},
    TextDirection |-> {"auto", "ltr", "rtl"},
    TextFormat |-> {"email", "url", "tel"},
    TimeGrain |-> {"Second", "Minute", "Hour", "Day"},
    TimeStyle |-> {"Short", "Medium", "Long", "Full"},
    ToneVariant |-> {"Default", "Subdued", "Brand", "Success", "Warning", "Critical", "Info"},
    TrackKind |-> {"Subtitles", "Captions", "Descriptions", "Chapters"},
    TrendPolarity |-> {"HigherIsBetter", "LowerIsBetter"} ]

\* The cases of the tagged unions from Action to CallResultTarget.
UnionsActionToCallResultTarget ==
  [ Action |-> [ Chain |-> <<Must("ops", ListOf(Union("Action")))>>,
        WriteToClipboard |-> <<Must("text", Union("TextSource"))>>,
        Dispatch |-> <<Host("msg")>>,
        Invoke |-> <<Must("capabilityId", Text), Must("args", ListOf(Record("InvokeArg")))>>,
        ReadFileBody |-> <<Must("fileRef", Text), Host("fileHandle"),
                           Must("encoding", OneOf("FileReadEncoding")), May("onRead", Closure)>>,
        Call |-> <<Must("endpoint", Text), May("onResult", Closure), May("into", Union("CallResultTarget"))>>,
        Navigate |-> <<Must("route", Union("TextSource")),
                       Else("target", OneOf("NavigateTarget"), Str("Self"))>>,
        CommitLocal |-> <<Must("nodeId", Text)>>,
        Notify |-> <<Must("channel", Text), Must("payload", Json)>>,
        SetState |-> <<Must("key", Text), May("value", Json), May("valueFrom", BindingOf(Loose))>>,
        AiTool |-> <<Must("toolName", Text), Must("args", Json)>>,
        Confirm |-> <<Must("prompt", Union("TextSource")), Must("onConfirm", Union("Action")),
                      May("onCancel", Union("Action"))>>,
        Focus |-> <<Must("nodeId", Text)>> ] @@ "Print" :> <<>>,
    Binding |-> [ Static |-> <<May("value", Json)>>,
        Query |-> <<Must("name", Text), Host("accessor"), May("dependsOn", ListOf(Text))>>,
        Filter |-> <<Must("name", Text), May("defaultValue", Json)>>,
        Selection |-> <<Must("nodeId", Text), Host("accessor"), May("defaultValue", Json), May("field", Text)>>,
        State |-> <<Must("key", Text), May("defaultValue", Json)>>,
        Now |-> <<Host("accessor"), May("grain", OneOf("TimeGrain"))>>,
        Computed |-> <<Must("fn", Closure)>>,
        Local |-> <<Must("flushOn", Union("LocalFlushTrigger")), Must("format", Closure),
                    Must("initialFrom", BindingOf(Loose)), May("onCommit", Closure), Must("parse", Closure),
                    May("codec", Union("Format")), May("commitTo", Text)>>,
        Format |-> <<Must("source", BindingOf(Real)), Must("format", Union("Format")),
                     Must("locale", Union("LocaleSource"))>>,
        I18n |-> <<Must("key", Text), May("args", MapOf(BindingOf(Loose)))>>,
        Transform |-> <<Must("source", Json), Must("pipeline", ListOf(Json)),
                        May("params", ListOf(Record("TransformParam")))>>,
        Expr |-> <<Must("expr", Json), May("params", ListOf(Record("TransformParam")))>>,
        Invoke |-> <<Must("capabilityId", Text), Must("args", ListOf(Record("InvokeArg")))>> ],
    BoxLayout |-> [ Auto |-> <<>>,
        Flex |-> <<Must("direction", OneOf("Orientation")), Else("wrap", Flag, Bool(FALSE)),
                   May("gap", Whole)>>,
        Grid |-> <<Must("cols", Whole), May("templateColumns", Text), May("gap", Whole)>>,
        Masonry |-> <<Must("cols", Whole), May("gap", Whole)>> ],
    CallResultTarget |-> [ State |-> <<Must("key", Text)>>,
        Query |-> <<Must("name", Text)>> ] ]

\* The cases of the tagged unions from CellFormat to CurveCommand.
UnionsCellFormatToCurveCommand ==
  [ CellFormat |-> [ None |-> <<>>,
        Number |-> <<May("decimals", Whole), May("locale", Union("LocaleSource"))>>,
        Currency |-> <<Must("code", Text), May("decimals", Whole), May("locale", Union("LocaleSource"))>>,
        Percent |-> <<May("decimals", Whole), May("locale", Union("LocaleSource"))>>,
        SignificantDigits |-> <<Must("digits", Whole)>>,
        DateTime |-> <<Must("format", Text)>>,
        Duration |-> <<Must("unit", OneOf("DurationUnit")), Must("style", OneOf("DurationStyle"))>>,
        RelativeTime |-> <<Must("unit", OneOf("RelativeTimeUnit"))>>,
        Custom |-> <<Must("fn", Closure)>> ],
    CellKindErased |-> [ Text |-> <<>>,
        Numeric |-> <<>>,
        Date |-> <<>>,
        Editable |-> <<May("onEdit", Closure)>>,
        Checkbox |-> <<Must("get", Closure), May("onToggle", Closure)>>,
        Button |-> <<Must("label", Union("TextSource")), May("onClick", Closure)>>,
        ButtonGroup |-> <<Must("buttons", ListOf(Record("ButtonGroupItem")))>>,
        Link |-> <<Must("hrefFn", Closure), Must("labelFn", Closure)>>,
        Pill |-> <<Must("labelFn", Closure), Must("toneFn", Closure)>>,
        TonedPill |-> <<Must("field", Text), Must("map", MapOf(OneOf("ToneVariant"))),
                        Else("default", OneOf("ToneVariant"), Str("Default"))>>,
        Progress |-> <<Must("fractionFn", Closure), May("labelFn", Closure)>>,
        Custom |-> <<Must("fn", Closure)>> ],
    ChartAnnotation |-> [ ReferenceLine |-> <<Must("value", Real), May("label", Union("TextSource"))>>,
        EventMarker |-> <<Must("at", Union("ChartAnnotationX")), May("label", Union("TextSource"))>>,
        RangeBand |-> <<Must("range", Union("ChartAnnotationRange")), May("label", Union("TextSource"))>> ],
    ChartAnnotationRange |-> [ ValueRange |-> <<Must("from", Real), Must("to", Real)>>,
        XRange |-> <<Must("from", Union("ChartAnnotationX")), Must("to", Union("ChartAnnotationX"))>> ],
    ChartAnnotationX |-> [ Category |-> <<Must("key", Text)>>,
        Date |-> <<Must("iso", Text)>> ],
    ColumnWidth |-> [ Auto |-> <<>>,
        Fixed |-> <<Must("pixels", Whole)>>,
        Flex |-> <<Must("weight", Real)>> ],
    CurveCommand |-> [ MoveTo |-> <<Must("to", Record("DrawPoint"))>>,
        LineTo |-> <<Must("to", Record("DrawPoint"))>>,
        CubicTo |-> <<Must("control1", Record("DrawPoint")), Must("control2", Record("DrawPoint")),
                      Must("to", Record("DrawPoint"))>>,
        QuadraticTo |-> <<Must("control", Record("DrawPoint")), Must("to", Record("DrawPoint"))>>,
        Close |-> <<>> ] ]

\* The cases of the tagged unions from FormFieldKind to HoleDecl.
UnionsFormFieldKindToHoleDecl ==
  [ FormFieldKind |-> [ Text |-> <<May("value", BindingOf(Text)), May("onChange", Closure)>>,
        Number |-> <<May("value", BindingOf(Real)), May("onChange", Closure)>>,
        Checkbox |-> <<May("value", BindingOf(Flag)), May("onChange", Closure)>>,
        Toggle |-> <<May("value", BindingOf(Flag)), May("onChange", Closure)>>,
        Choice |-> <<Must("options", BindingOf(Loose)), May("value", BindingOf(Text)),
                     May("onChange", Closure)>>,
        TextArea |-> <<May("value", BindingOf(Text)), May("onChange", Closure), Must("rows", Whole)>>,
        RangedNumber |-> <<May("value", BindingOf(Real)), May("onChange", Closure), May("min", Real),
                           May("max", Real), May("step", Real)>>,
        Range |-> <<May("value", Json), May("onChange", Closure), May("min", Real), May("max", Real),
                    May("step", Real)>>,
        SegmentedChoice |-> <<Must("options", BindingOf(Loose)), May("value", BindingOf(Text)),
                              May("onChange", Closure),
                              Else("orientation", OneOf("Orientation"), Str("Horizontal"))>>,
        DateTime |-> <<May("value", BindingOf(Text)), May("onChange", Closure),
                       Must("variant", OneOf("DateTimeVariant")), May("min", Text), May("max", Text),
                       May("step", Real)>>,
        DateTimeRange |-> <<May("value", Json), May("onChange", Closure),
                            Must("variant", OneOf("DateTimeVariant")), May("min", Text), May("max", Text),
                            May("step", Real)>>,
        Combobox |-> <<Else("allowFreeText", Flag, Bool(FALSE)), May("onChange", Closure),
                       Must("options", BindingOf(Loose)), May("value", BindingOf(Text))>>,
        Rating |-> <<Else("allowHalf", Flag, Bool(FALSE)), Must("max", Whole), May("onChange", Closure),
                     May("value", BindingOf(Real))>>,
        Color |-> <<May("onChange", Closure), May("value", BindingOf(Text))>>,
        Tokens |-> <<Else("allowFreeText", Flag, Bool(TRUE)), May("onChange", Closure),
                     May("suggestions", BindingOf(Loose)), May("value", BindingOf(Texts))>> ],
    Format |-> [ Number |-> <<May("decimals", Whole)>>,
        Currency |-> <<Must("isoCode", Text), May("decimals", Whole)>>,
        Percent |-> <<May("decimals", Whole)>>,
        DateTime |-> <<May("dateStyle", OneOf("DateStyle")), May("timeStyle", OneOf("TimeStyle"))>>,
        RelativeTime |-> <<Must("unit", OneOf("RelativeTimeUnit"))>>,
        Duration |-> <<Must("unit", OneOf("DurationUnit")), Must("style", OneOf("DurationStyle"))>>,
        Since |-> <<May("unit", OneOf("RelativeTimeUnit"))>> ],
    FragmentArg |-> [ Int |-> <<Must("value", Whole)>>,
        Float |-> <<Must("value", Real)>>,
        Bool |-> <<Must("value", Flag)>>,
        Str |-> <<Must("value", Text)>>,
        SlotArg |-> <<Must("tree", Subtree)>> ],
    HoleDecl |-> [ Value |-> <<Must("name", Text), Must("space", Union("HoleValueSpace")),
                               May("default", Union("Scalar"))>>,
        Slot |-> <<Must("name", Text), May("kindConstraint", Text)>>,
        Repeat |-> <<Must("name", Text), Must("countSpace", Union("HoleValueSpace"))>> ] ]

\* The cases of the tagged unions from HoleValueSpace to TextSource.
UnionsHoleValueSpaceToTextSource ==
  [ HoleValueSpace |-> [ IntRange |-> <<Must("min", Whole), Must("max", Whole)>>,
        FloatRange |-> <<Must("min", Real), Must("max", Real)>>,
        StringLen |-> <<Must("minLen", Whole), Must("maxLen", Whole)>>,
        Enum |-> <<Must("choices", ListOf(Text))>>,
        AnyString |-> <<>> ],
    LocalFlushTrigger |-> [ OnBlur |-> <<>>,
        OnSubmit |-> <<>>,
        OnDebounce |-> <<Must("milliseconds", Whole)>>,
        OnCommitAction |-> <<>> ],
    LocaleSource |-> [ Ambient |-> <<>>,
        Explicit |-> <<Must("tag", Text)>> ],
    MediaKind |-> [ Video |-> <<Else("autoplay", Flag, Bool(FALSE)), May("poster", BindingOf(Text))>>,
        Audio |-> <<>> ],
    Scalar |-> [ Int |-> <<Must("value", Whole)>>,
        Float |-> <<Must("value", Real)>>,
        Bool |-> <<Must("value", Flag)>>,
        Str |-> <<Must("value", Text)>> ],
    Shape |-> [ Group |-> <<Must("children", ListOf(Union("Shape"))), Must("style", Record("DrawStyle"))>>,
        Rectangle |-> <<Must("x", Real), Must("y", Real), Must("width", Real), Must("height", Real),
                        May("cornerRadius", Real), Must("style", Record("DrawStyle"))>>,
        Line |-> <<Must("x1", Real), Must("y1", Real), Must("x2", Real), Must("y2", Real),
                   Must("style", Record("DrawStyle"))>>,
        Polyline |-> <<Must("points", ListOf(Record("DrawPoint"))), Must("style", Record("DrawStyle"))>>,
        Polygon |-> <<Must("points", ListOf(Record("DrawPoint"))), Must("style", Record("DrawStyle"))>>,
        Curve |-> <<Must("commands", ListOf(Union("CurveCommand"))), Must("style", Record("DrawStyle"))>>,
        Circle |-> <<Must("cx", Real), Must("cy", Real), Must("r", Real), Must("style", Record("DrawStyle"))>>,
        Ellipse |-> <<Must("cx", Real), Must("cy", Real), Must("rx", Real), Must("ry", Real),
                      Must("style", Record("DrawStyle"))>>,
        Label |-> <<Must("x", Real), Must("y", Real), Must("text", Union("TextSource")),
                    Must("style", Record("DrawStyle"))>> ],
    TextSource |-> [ Literal |-> <<Must("text", Text)>>,
        Bound |-> <<Must("binding", BindingOf(Text))>>,
        I18n |-> <<Must("key", Text), Must("args", MapOf(Json))>> ] ]

Unions ==
  UnionsActionToCallResultTarget @@ UnionsCellFormatToCurveCommand @@ UnionsFormFieldKindToHoleDecl
  @@ UnionsHoleValueSpaceToTextSource

\* The plain records from Accessibility to StateBehaviour.
RecordsAccessibilityToStateBehaviour ==
  [ Accessibility |-> <<May("describedBy", Text), May("hidden", BindingOf(Flag)), May("label", BindingOf(Text)),
                        May("labelledBy", Text), May("liveRegion", OneOf("LiveRegionKind")), May("role", Json),
                        May("speak", Union("TextSource"))>>,
    Affordance |-> <<Else("patterns", ListOf(Text), EmptyList), Else("readPatterns", ListOf(Text), EmptyList),
                     Else("aliases", ListOf(Record("AffordanceAlias")), EmptyList), May("description", Text),
                     Else("clearable", Flag, Bool(FALSE)), Else("neverControllable", Flag, Bool(FALSE))>>,
    AffordanceAlias |-> <<Must("alias", Text), Must("value", Text)>>,
    ButtonGroupItem |-> <<Must("label", Union("TextSource")), May("onClick", Closure)>>,
    ColumnErased |-> <<May("field", Text), May("sortable", Flag), May("editable", Flag),
                       Else("format", Union("CellFormat"), Bare("None")), Must("kind", Union("CellKindErased")),
                       Must("label", Text), May("value", Closure),
                       Else("width", Union("ColumnWidth"), Bare("Auto"))>>,
    CompareRule |-> <<Must("against", BindingOf(Loose)), Must("op", OneOf("CompareOp"))>>,
    ContentHash |-> <<Must("algorithm", Text), Must("hash", Text),
                      Must("strictness", OneOf("HashStrictness"))>>,
    DateTimeRangePair |-> <<Must("from", Text), Must("to", Text)>>,
    DefaultSort |-> <<Must("column", Whole), Must("direction", OneOf("SortDirection"))>>,
    DrawPoint |-> <<Must("x", Real), Must("y", Real)>>,
    DrawStyle |-> <<May("emphasis", OneOf("Emphasis")), May("fill", BindingOf(Text)), May("fontFamily", Text),
                    May("fontSize", Real), May("markId", Text), May("opacity", BindingOf(Real)),
                    May("rotation", Real), May("stroke", BindingOf(Text)), May("strokeWidth", BindingOf(Real)),
                    May("textAnchor", OneOf("TextAnchor")), May("tip", Union("TextSource"))>>,
    EffectClass |-> <<Must("determinism", OneOf("DeterminismSource")),
                      Must("hostEffect", OneOf("HostEffect"))>>,
    FieldRule |-> <<May("compare", Record("CompareRule")), May("format", OneOf("TextFormat")),
                    May("maxLength", Whole), May("message", Union("TextSource")), May("minLength", Whole),
                    May("pattern", Text)>>,
    FilterSpec |-> <<Must("kind", Union("FormFieldKind")), Must("label", Union("TextSource")),
                     Must("name", Text)>>,
    FormField |-> <<Must("id", Text), Must("kind", Union("FormFieldKind")), Must("label", Union("TextSource")),
                    Else("required", Flag, Bool(FALSE)), May("help", Union("TextSource")),
                    May("rule", Record("FieldRule")), May("affordance", Record("Affordance"))>>,
    GuestChannel |-> <<Must("direction", OneOf("ChannelDirection")), May("messageShape", Text)>>,
    InvokeArg |-> <<Must("addr", Text), Must("value", Text)>>,
    MapMarker |-> <<Must("label", Text), Must("latitude", Real), Must("longitude", Real)>>,
    MarkdownCitation |-> <<May("label", Union("TextSource")), Must("name", Text), Must("reference", Text)>>,
    MetricComparison |-> <<Must("label", Union("TextSource")), Must("value", BindingOf(Real)),
                           Else("format", Union("CellFormat"), Bare("None")),
                           Else("polarity", OneOf("TrendPolarity"), Str("HigherIsBetter"))>>,
    RangePair |-> <<Must("max", Real), Must("min", Real)>>,
    SelectOption |-> <<Must("label", Text), Must("value", Text)>>,
    SelectOptionGroup |-> <<Must("label", Text), Must("values", ListOf(Text))>>,
    SemanticStyle |-> <<Else("direction", OneOf("TextDirection"), Str("auto")),
                        Else("emphasis", OneOf("Emphasis"), Str("Normal")),
                        Else("role", OneOf("StyleRole"), Str("None")),
                        Else("tone", OneOf("ToneVariant"), Str("Default")),
                        Else("voice", OneOf("FontVoice"), Str("Default")),
                        Else("weight", OneOf("StyleWeight"), Str("Standard"))>>,
    SrcSetEntry |-> <<Must("src", BindingOf(Text)), Must("width", Whole)>>,
    StateBehaviour |-> <<May("onEmpty", Subtree), May("onError", Closure), May("onLoading", Subtree)>> ]

\* The plain records from StaticRows to ViewBox.
RecordsStaticRowsToViewBox ==
  [ StaticRows |-> <<Else("citations", ListOf(Record("TableCitation")), EmptyList),
                     May("defaultSort", Record("DefaultSort")), Must("headers", ListOf(Union("TextSource"))),
                     Must("rows", ListOf(ListOf(Union("TextSource")))), May("sortable", Flag)>>,
    StyleDelta |-> <<May("direction", OneOf("TextDirection")), May("emphasis", OneOf("Emphasis")),
                     May("role", OneOf("StyleRole")), May("tone", OneOf("ToneVariant")),
                     May("voice", OneOf("FontVoice")), May("weight", OneOf("StyleWeight"))>>,
    SwitchCase |-> <<Must("child", Subtree), May("match", Text), May("when", BindingOf(Flag))>>,
    TabHeader |-> <<Must("label", Union("TextSource")), May("icon", Text), May("disabled", BindingOf(Flag))>>,
    TableCitation |-> <<Must("column", Whole), May("label", Union("TextSource")), Must("reference", Text),
                        Must("row", Whole)>>,
    TrackEntry |-> <<Else("default", Flag, Bool(FALSE)), Must("kind", OneOf("TrackKind")),
                     Must("label", Union("TextSource")), Must("src", BindingOf(Text)), Must("srcLang", Text)>>,
    TransformParam |-> <<Must("from", BindingOf(Loose)), Must("name", Text)>>,
    TreeItem |-> <<Else("children", ListOf(Record("TreeItem")), EmptyList), May("icon", Text), Must("id", Text),
                   Must("label", Union("TextSource"))>>,
    ViewBox |-> <<Must("height", Real), Must("minX", Real), Must("minY", Real), Must("width", Real)>> ]

Records == RecordsAccessibilityToStateBehaviour @@ RecordsStaticRowsToViewBox

\* The tree operations from Batch to UpdateTooltip.
OpRows ==
  [ Batch |-> <<Must("ops", ListOf(TreeOp))>>,
    EditNode |-> <<Must("newKind", KindOf), Must("target", Text)>>,
    InsertChild |-> <<Must("child", Subtree), Must("parentId", Text)>>,
    MoveNode |-> <<Must("newParentId", Text), Must("target", Text)>>,
    PatchStyle |-> <<Must("style", Record("StyleDelta")), Must("target", Text)>>,
    RemoveNode |-> <<Must("target", Text)>>,
    ReorderChildren |-> <<Must("newOrder", ListOf(Text)), Must("parentId", Text)>>,
    ReplaceBinding |-> <<Must("binding", BindingOf(Loose)), Must("slot", Text), Must("target", Text)>>,
    ReplaceRoot |-> <<Must("node", Subtree)>>,
    UpdateAccessibility |-> <<Must("accessibility", Record("Accessibility")), Must("target", Text)>>,
    UpdateProp |-> <<Must("path", Text), Must("target", Text), Must("value", Json)>>,
    UpdateState |-> <<Must("state", Record("StateBehaviour")), Must("target", Text)>>,
    UpdateStyle |-> <<Must("style", Record("SemanticStyle")), Must("target", Text)>>,
    UpdateTooltip |-> <<Must("target", Text), May("tooltip", Union("TextSource"))>> ]

\* The members of a node beside its id and kind.
NodeFields ==
  <<May("accessibility", Record("Accessibility")), Host("extraAttributes"), May("fallback", Subtree),
    Host("motion"), May("state", Record("StateBehaviour")), May("style", Record("SemanticStyle")),
    May("tooltip", Union("TextSource")), May("visible", BindingOf(Flag))>>

\* Every member name in play, in the Ordinal order of canonical.SortKeys (TLC cannot
\* compare strings).
Ordinal ==
  <<"$type", "2024-01-01", "2024-02-30", "2024-03-01", "a", "accept", "acceptPaste", "accessibility",
    "accessor", "activeIndex", "activeStep", "activeTag", "addr", "affordance", "against", "agg",
    "aggregations", "aggs", "algorithm", "alias", "aliases", "allowFreeText", "allowHalf", "alt", "anchor",
    "annotations", "args", "ariaLabel", "as", "aspectRatio", "at", "autoAdvanceMs", "autoplay", "b", "binding",
    "body", "breakBefore", "buttons", "by", "capabilities", "capabilityId", "caption", "capture", "cases",
    "caveat", "cell", "centreLatitude", "centreLongitude", "channel", "child", "children", "choices",
    "citations", "clearable", "code", "codec", "col", "cols", "column", "columns", "commands", "commitTo",
    "compare", "comparisons", "componentId", "constraints", "contentHash", "control", "control1", "control2",
    "controls", "copyable", "cornerRadius", "count", "countSpace", "currentPage", "cx", "cy", "data",
    "dataLabels", "dateStyle", "decimals", "default", "defaultOpen", "defaultSort", "defaultValue",
    "dependencies", "dependsOn", "deps", "descending", "describedBy", "description", "destination",
    "determinism", "digits", "dir", "direction", "disabled", "dismissable", "display", "download", "dropTarget",
    "editStateKey", "editable", "effect", "else", "emphasis", "encoding", "endpoint", "expandable",
    "expandedStateKey", "exportable", "exposedNodeIds", "expr", "exprs", "extraAttributes", "fallback", "field",
    "fields", "fileHandle", "fileRef", "fill", "fit", "flushOn", "fn", "fontFamily", "fontSize", "format",
    "fraction", "fractionFn", "from", "gap", "get", "grain", "groups", "hash", "header", "headers", "heading",
    "height", "help", "hidden", "highlightLines", "holes", "hostEffect", "how", "href", "hrefFn", "icon", "id",
    "idVars", "indeterminate", "index", "initialFrom", "initialValue", "inputs", "into", "iso", "isoCode",
    "items", "keepRowsTogether", "keepTogether", "key", "keys", "kind", "kindConstraint", "label", "labelFn",
    "labelledBy", "language", "latitude", "layout", "left", "legendPosition", "level", "lineNumbers",
    "liveRegion", "loading", "locale", "longitude", "loop", "map", "markId", "markers", "match", "max",
    "maxBytes", "maxFiles", "maxHeight", "maxLen", "maxLength", "maxWidth", "message", "messageShape",
    "milliseconds", "min", "minLen", "minLength", "minX", "minY", "modality", "moduleId", "motion", "msg",
    "multiple", "n", "name", "neverControllable", "newKind", "newOrder", "newParentId", "newPosition", "node",
    "nodeId", "of", "offset", "on", "onBubble", "onCancel", "onChange", "onChangeMulti", "onClick", "onCommit",
    "onConfirm", "onDismiss", "onEdit", "onEmpty", "onError", "onLoading", "onMarkerClick", "onPointClick",
    "onRead", "onResult", "onRowClick", "onSelect", "onSelectTag", "onSubmit", "onToggle", "op", "opacity",
    "open", "ops", "options", "orderBy", "ordered", "orientation", "other", "page", "pageSize", "pageStateKey",
    "param", "params", "parentId", "parse", "partitionBy", "path", "pattern", "patterns", "payload",
    "permissions", "pipeline", "pixels", "placeholder", "points", "polarity", "position", "poster", "pred",
    "predicate", "prompt", "props", "protection", "r", "range", "readOnly", "readPatterns", "ref", "reference",
    "rel", "reorderable", "repeatHeader", "required", "right", "role", "rotation", "route", "row", "rowKey",
    "rowKeyField", "rowTotal", "rows", "rule", "rx", "ry", "schema", "scopeId", "selectionStateKey", "shapes",
    "size", "slot", "sortStateKey", "sortable", "source", "space", "speak", "src", "srcLang", "srcSet",
    "stacked", "state", "stateKey", "staticRows", "step", "strictness", "stroke", "strokeWidth", "style",
    "submitLabel", "subtext", "subtitle", "suggestions", "tabHeaders", "tabTags", "tag", "target",
    "templateColumns", "text", "textAnchor", "then", "timeStyle", "tip", "title", "to", "tone", "toneFn",
    "toneMap", "tones", "toolName", "tooltip", "tracks", "transcript", "transferInKey", "transferOutKey",
    "tree", "trend", "trendFormat", "trendPolarity", "type", "unit", "url", "validate", "validation",
    "validity", "value", "valueFormat", "valueFrom", "valueVars", "values", "variant", "viewBox", "visible",
    "voice", "w", "weight", "when", "width", "windowStateKey", "wrap", "x", "x1", "x2", "xField", "xScale",
    "xTitle", "y", "y1", "y2", "yFields", "yTitle", "zoom", "zzz">>
==============================================================================
