------------------------------ MODULE Specimens ------------------------------
(***************************************************************************)
(* The documents the checks write.  A specimen is a plain value of a type  *)
(* of the vocabulary with one member written another way: an alias, an     *)
(* envelope, a value at its default, a value the type does not admit, a    *)
(* member left out.  Each spelling says what it means in the canonical     *)
(* form, or which refusal it deserves and where, so what the decoder       *)
(* answers can be compared with what was written.                          *)
(***************************************************************************)
EXTENDS Wire

\* A spelling of a value: what is written, and what it means or why it is refused.
Means(raw, v)        == [raw |-> raw, meant |-> <<v>>, bad |-> << >>]
Itself(v)            == Means(v, v)
WrongIn(raw, bad)    == [raw |-> raw, meant |-> << >>, bad |-> bad]
Wrong(raw, code, at) == WrongIn(raw, <<[code |-> code, at |-> at]>>)
Mistyped(raw)        == Wrong(raw, WrongType, << >>)
Inside(at, s)        == [s EXCEPT !.bad = [i \in DOMAIN @ |-> [@[i] EXCEPT !.at = at \o @]]]
Wrapped(W(_), s)     == [s EXCEPT !.raw = W(@), !.meant = [i \in DOMAIN @ |-> W(@[i])]]

Literal(n, form) == [num |-> n, form |-> form]
Half       == Literal(1, "frac")
TwoPointO  == Literal(2, "whole")
Typed(tag, f) == Object("$type" :> Str(tag) @@ f)

-----------------------------------------------------------------------------
\* The type a slot is read at where the hand decoder does not read the type its row declares.
HandTyped ==
     <<"Skeleton", "rows">> :> T("skeletonRows")
  @@ <<"Sparkline", "source">> :> BindingOf(T("reals"))
  @@ <<"Map", "source">> :> BindingOf(T("markers"))
  @@ <<"Select", "source">> :> BindingOf(T("options"))
  @@ <<"Select", "value">> :> BindingOf(T("stringOpt"))
  @@ <<"Select", "multiple">> :> T("single")
  @@ <<"Switch", "on">> :> BindingOf(Loose)
  @@ <<"DataGrid", "source">> :> [BindingOf(T("rows")) EXCEPT !.typed = TRUE]
  @@ <<"Chart", "source">> :> [BindingOf(T("rows")) EXCEPT !.typed = TRUE]
  @@ <<"DataGrid", "pageSize">> :> T("positive")
  @@ <<"FileUpload", "maxBytes">> :> T("positive")
  @@ <<"FileUpload", "maxFiles">> :> T("positive")
  @@ <<"FileUpload", "destination">> :> T("destination")
  @@ <<"Switch", "autoAdvanceMs">> :> T("positive")
  @@ <<"SrcSetEntry", "width">> :> T("positive")
  @@ <<"BoxLayout.Masonry", "cols">> :> T("positive")
  @@ <<"FormFieldKind.Rating", "max">> :> T("positive")
  @@ <<"DefaultSort", "column">> :> T("natural")
  @@ <<"TableCitation", "column">> :> T("natural")
  @@ <<"TableCitation", "row">> :> T("natural")
  @@ <<"MarkdownCitation", "name">> :> T("citationName")
  @@ <<"MapMarker", "label">> :> Union("TextSource")
  @@ <<"SelectOption", "label">> :> Union("TextSource")
  @@ <<"ChartAnnotationX.Date", "iso">> :> T("isoDay")
  @@ <<"ChartAnnotation.ReferenceLine", "value">> :> T("finite")
  @@ <<"ChartAnnotationRange.ValueRange", "from">> :> T("finite")
  @@ <<"ChartAnnotationRange.ValueRange", "to">> :> T("ceiling")
  @@ <<"FormFieldKind.Tokens", "allowFreeText">> :> T("free")
  @@ <<"Metric", "emphasis">> :> T("emphasis")
  @@ <<"DrawStyle", "emphasis">> :> T("emphasis")
  @@ <<"Fact", "emphasis">> :> T("emphasisFlag")
  @@ <<"LabelValueRow", "emphasis">> :> T("emphasisFlag")
  @@ <<"SemanticStyle", "emphasis">> :> T("emphasis")
  @@ <<"StyleDelta", "emphasis">> :> T("emphasis")
  @@ <<"Accessibility", "role">> :> Text
  @@ <<"Node", "visible">> :> BindingOf(Loose)
  @@ <<"UpdateProp", "value">> :> T("opValue")
  @@ <<"TextSource.I18n", "args">> :> T("i18nArgs")
  @@ <<"Binding.I18n", "args">> :> T("bindingArgs")
  @@ <<"TextSource.Bound", "binding">> :> BindingOf(Loose)
  @@ <<"SwitchCase", "when">> :> BindingOf(Loose)
  @@ <<"Markdown", "citations">> :> T("markdownCitations")
  @@ <<"StaticRows", "citations">> :> T("tableCitations")
  @@ <<"Custom", "props">> :> Json
  @@ <<"Custom", "contentHash">> :> Json
  @@ <<"Custom", "exposedNodeIds">> :> Json
  @@ <<"Mount", "capabilities">> :> Json
  @@ <<"Mount", "inputs">> :> Loose
  @@ <<"FragmentDecl", "holes">> :> Loose
  @@ <<"FragmentDecl", "effect">> :> Loose
  @@ <<"Binding.Transform", "source">> :> T("frameSource")
  @@ <<"Binding.Transform", "pipeline">> :> T("pipeline")
  @@ <<"Binding.Transform", "params">> :> T("params")
  @@ <<"Binding.Expr", "expr">> :> T("scalarExpr")
  @@ <<"Binding.Expr", "params">> :> T("params")
  @@ <<"Binding.Format", "format">> :> T("formatOf")
  @@ <<"Binding.Format", "locale">> :> Loose
  @@ <<"Binding.Local", "codec">> :> T("codec")

FieldKinds(owner) == {tag \in DOMAIN Unions.FormFieldKind : owner = "FormFieldKind." \o tag}

SlotTypeIn(owner, row, fieldKinds) ==
  CASE <<owner, row.key>> \in DOMAIN HandTyped -> HandTyped[<<owner, row.key>>]
    [] fieldKinds # {} /\ row.key = "value" -> ValueType(CHOOSE tag \in fieldKinds : TRUE)
    [] fieldKinds # {} /\ row.key \in {"options", "suggestions"} -> BindingOf(T("options"))
    [] OTHER -> row.type
SlotType(owner, row) == SlotTypeIn(owner, row, FieldKinds(owner))

\* The other names a member goes by.
Aliased ==
     <<"Metric", "value">> :> {"data"} @@ <<"LabelValueRow", "value">> :> {"data"}
  @@ <<"Callout", "heading">> :> {"title"} @@ <<"Modal", "heading">> :> {"title"} @@ <<"Box", "heading">> :> {"title"}
  @@ <<"Sparkline", "source">> :> {"data"} @@ <<"Chart", "source">> :> {"data"}
  @@ <<"Map", "source">> :> {"data", "markers"} @@ <<"DataGrid", "source">> :> {"data", "rows"}
  @@ <<"Select", "source">> :> {"options", "data"}
  @@ <<"BoxLayout.Grid", "cols">> :> {"columns"} @@ <<"BoxLayout.Masonry", "cols">> :> {"columns"}
  @@ <<"ColumnErased", "kind">> :> {"type"} @@ <<"ColumnErased", "label">> :> {"header", "title"}
  @@ <<"CellKindErased.TonedPill", "map">> :> {"toneMap", "tones"}
  @@ <<"FormField", "id">> :> {"name"} @@ <<"TransformParam", "from">> :> {"value"}
  @@ <<"Binding.Query", "dependsOn">> :> {"deps", "dependencies"}
  @@ <<"Binding.State", "defaultValue">> :> {"initialValue", "default"}
  @@ <<"Action.Call", "endpoint">> :> {"url"} @@ <<"Action.Navigate", "route">> :> {"href", "url", "to"}

AliasesOf(owner, key) == IF <<owner, key>> \in DOMAIN Aliased THEN Aliased[<<owner, key>>] ELSE {}

\* Members a plain value needs though no row requires them, and what a member replaces.
NeededMember(owner) ==
  CASE owner = "Action.SetState" -> "value" :> Str("a")
    [] owner = "SwitchCase" -> "match" :> Str("a")
    [] owner = "Switch" -> "stateKey" :> Str("a")
    [] owner = "Select" -> "value" :> Static(Str("a"))
    [] owner = "FieldRule" -> "pattern" :> Str("a")
    [] owner = "StyleDelta" -> "tone" :> Str("Brand")
    [] owner = "Action.ReadFileBody" -> "onRead" :> Sentinel
    [] OTHER -> NoMembers

Replaced(owner, key) ==
  {key} \cup (CASE <<owner, key>> = <<"Action.SetState", "valueFrom">> -> {"value"}
                [] <<owner, key>> = <<"SwitchCase", "when">> -> {"match"}
                [] <<owner, key>> = <<"Switch", "on">> -> {"stateKey"}
                [] OTHER -> {})

-----------------------------------------------------------------------------
\* Plain values: canonical, with the members that are required and no other.
PlainTag(u, cases) ==
  CASE u = "TextSource" -> "Literal"
    [] u = "Binding" -> "Static"
    [] u = "Shape" -> "Circle"
    [] u = "ChartAnnotation" -> "ReferenceLine"
    [] u = "FormFieldKind" -> "Text"
    [] \E tag \in DOMAIN cases : cases[tag] = << >> -> CHOOSE tag \in DOMAIN cases : cases[tag] = << >>
    [] OTHER -> CHOOSE tag \in DOMAIN cases : TRUE

Badge    == Typed("Badge", "label" :> Str("a"))
Leaf(id) == Object("id" :> Str(id) @@ "kind" :> Badge)
Frame    == Object("schema" :> List(<<Entry("a", "int")>>)
                   @@ "columns" :> Object("a" :> Object("validity" :> List(<<Bool(TRUE)>>)
                                                        @@ "values" :> List(<<Num(1)>>))))
Lit(v)   == Typed("lit", "cell" :> Typed("Int", "value" :> v))
Col(s)   == Typed("col", "name" :> Str(s))
Param(s) == Typed("param", "name" :> Str(s))

NamedValue(name, v)       == Object("name" :> Str(name) @@ "from" :> Static(v))
NamedCitation(name)       == Object("name" :> Str(name) @@ "reference" :> Str("a"))
CellCitation(row, column) == Object("row" :> Num(row) @@ "column" :> Num(column) @@ "reference" :> Str("a"))

PlainLeaf(type) ==
  CASE type.t \in {"string", "json", "loose", "opValue", "stringOpt", "destination", "citationName"} -> Str("a")
    [] type.t \in {"bool", "free"} -> Bool(TRUE)
    [] type.t = "ceiling" -> Num(4)
    [] type.t = "single" -> Bool(FALSE)
    [] type.t \in {"int", "float", "positive", "natural", "skeletonRows", "finite"} -> Num(1)
    [] type.t = "closure" -> Sentinel
    [] type.t = "emphasis" -> Str("Loud")
    [] type.t = "emphasisFlag" -> Bool(TRUE)
    [] type.t = "isoDay" -> Str("2024-01-01")
    [] type.t = "texts" -> List(<<Str("a")>>)
    [] type.t = "reals" -> List(<<Num(1)>>)
    [] type.t = "rows" -> List(<<Object("a" :> Num(1))>>)
    [] type.t = "options" -> List(<<Object("label" :> Str("a") @@ "value" :> Str("a"))>>)
    [] type.t = "markers" -> List(<<Object("label" :> Str("a") @@ "latitude" :> Num(1) @@ "longitude" :> Num(1))>>)
    [] type.t = "i18nArgs" -> Object("a" :> Str("a"))
    [] type.t = "bindingArgs" -> Object("a" :> Static(Str("a")))
    [] type.t = "markdownCitations" -> List(<<NamedCitation("a")>>)
    [] type.t = "tableCitations" -> List(<<CellCitation(0, 0)>>)
    [] type.t \in {"formatOf", "codec"} -> Bare("Number")
    [] type.t = "frameSource" -> Frame
    [] type.t = "pipeline" -> List(<<Bare("distinct")>>)
    [] type.t = "params" -> List(<<NamedValue("a", Num(1))>>)
    [] type.t = "scalarExpr" -> Lit(Num(1))
    [] type.t = "colourBinding" -> Static(Str("#1a2b3c"))
    [] type.t = "rangeValue" -> Object("max" :> Num(2) @@ "min" :> Num(1))
    [] type.t = "dateRangeValue" -> Object("from" :> Str("a") @@ "to" :> Str("b"))
    [] type.t = "node" -> Leaf("b")
    [] type.t = "kind" -> Badge
    [] type.t = "op" -> Typed("RemoveNode", "target" :> Str("a"))
    [] OTHER -> Str(CHOOSE case \in Enums[type.n] : TRUE)

\* A case and its rows; a record is a case without a tag.
Case(owner, tag, rows) == [owner |-> owner, tag |-> tag, rows |-> rows]
CaseOf(u, tag, cases)  == Case(u \o "." \o tag, tag, cases[tag])
PlainOf(u, cases)      == CaseOf(u, PlainTag(u, cases), cases)
PlainShape(type) ==
  IF type.t = "record" THEN Case(type.n, "", Records[type.n]) ELSE PlainOf(type.n, Unions[type.n])

\* The slots a plain value of a case fills, and the object they make.
NeededSlots(shape) ==
  {[key |-> shape.rows[i].key, type |-> SlotType(shape.owner, shape.rows[i])] :
     i \in {i \in DOMAIN shape.rows : shape.rows[i].opt = "required"}}
Filled(shape, members) ==
  (IF shape.tag = "" THEN NoMembers ELSE "$type" :> Str(shape.tag)) @@ NeededMember(shape.owner)
  @@ [k \in {m.key : m \in members} |-> (CHOOSE m \in members : m.key = k).v]

RECURSIVE Plain(_)
Plain(type) ==
  CASE type.t = "list" -> List(<<Plain(type.of)>>)
    [] type.t = "map" -> Object("a" :> Plain(type.of))
    [] type.t = "binding" -> Static(Plain(type.parse))
    [] type.t = "union" /\ type.n = "TextSource" -> Str("a")
    [] type.t \in {"union", "record"} ->
         Object(Filled(PlainShape(type), {[key |-> m.key, v |-> Plain(m.type)] : m \in NeededSlots(PlainShape(type))}))
    [] OTHER -> PlainLeaf(type)

PlainCase(shape) == Filled(shape, {[key |-> m.key, v |-> Plain(m.type)] : m \in NeededSlots(shape)})

-----------------------------------------------------------------------------
\* The spellings of the leaves.
Envelope(v) == Static(v)
Read2(v)    == Means(Envelope(v), v)

NumberForms == {Itself(Num(1)), Itself(Half), Means(TwoPointO, Num(2)), Itself(Str("NaN")), Mistyped(Str("a"))}
IntForms(least, most) ==
  {Itself(Num(least)), Itself(Num(most)), Means(TwoPointO, Num(2)), Read2(Num(1)), Mistyped(Half),
   Mistyped(Num(IntSlotMax + 1)), Mistyped(Bool(TRUE))}
TextForms   == {Itself(Str("a")), Read2(Str("a")), Mistyped(Num(1)), Mistyped(Null)}
FlagForms   == {Itself(Bool(TRUE)), Itself(Bool(FALSE)), Read2(Bool(TRUE)), Mistyped(Str("a"))}
JsonForms   == {Itself(Str("a")), Means(TwoPointO, Num(2)), Itself(Object("a" :> EmptyList)), Mistyped(Null),
                Wrong(List(<<Num(1), Null>>), WrongType, <<"[1]">>)}
LooseForms  == {Itself(Str("a")), Itself(Null), Itself(Object("a" :> List(<<Null, Half>>)))}
EnumForms(n) ==
  {Itself(Str(case)) : case \in Enums[n]}
  \cup (IF n \in DOMAIN EnumAliases
        THEN {Means(Str(alias), Str(EnumAliases[n][alias])) : alias \in DOMAIN EnumAliases[n] \ Enums[n]} ELSE {})
  \cup {Wrong(Str("a"), UnknownCase, << >>), Mistyped(Num(1))}
EmphasisForms == EnumForms("Emphasis") \cup {Means(Bool(TRUE), Str("Loud")), Means(Bool(FALSE), Str("Normal"))}
FlagEmphasisForms == FlagForms \cup {Means(Str("Strong"), Bool(TRUE)), Means(Str("Quiet"), Bool(FALSE))}

\* Lists a Static binding may hold, where null and the opaque sentinel are values too.
ListForms(items, opaque) ==
  {Itself(List(<<v>>)) : v \in items} \cup {Itself(EmptyList), Means(Null, EmptyList), Means(Opaque, opaque)}

Option(l, v) == Object("label" :> Str(l) @@ "value" :> Str(v))
OptionForms ==
  ListForms({Option("a", "b")}, List(<<Object("label" :> Opaque @@ "value" :> Opaque)>>))
  \cup {Means(List(<<Str("a")>>), List(<<Option("a", "a")>>)), Wrong(List(<<Num(1)>>), WrongType, <<"[0]">>),
        Wrong(List(<<Object("label" :> Str("a"))>>), MissingField, <<"[0]", "value">>)}
RowForms ==
  ListForms({Object("a" :> Num(1) @@ "b" :> Str("x"))}, EmptyList)
  \cup {Means(List(<<Object("a" :> Null @@ "b" :> EmptyList)>>), List(<<Object("b" :> Opaque)>>)),
        Itself(List(<<Object("a" :> Num(PayloadMax + 1))>>)), Wrong(List(<<Num(1)>>), WrongType, <<"[0]">>)}
MarkerForms ==
  ListForms({Object("label" :> Str("a") @@ "latitude" :> Num(1) @@ "longitude" :> Half)}, EmptyList)
  \cup {Wrong(List(<<Object("label" :> Str("a") @@ "latitude" :> Num(1))>>), MissingField, <<"[0]", "longitude">>)}

\* Parameters are a list, or an object from their names.
ParamForms ==
  {Itself(List(<<NamedValue("a", Num(1))>>)), Itself(EmptyList), Means(Empty, EmptyList), Mistyped(Str("a")),
   Means(Object("a" :> Num(1)), List(<<NamedValue("a", Num(1))>>)),
   Means(List(<<Object("name" :> Str("a") @@ "value" :> Num(1))>>), List(<<NamedValue("a", Num(1))>>)),
   Wrong(List(<<Object("from" :> Num(1))>>), MissingField, <<"[0]", "name">>)}

\* A range is a pair by name or by position, and is written by name.
Pair(a, b, x, y) == Object(a :> x @@ b :> y)
RangeForms(lo, hi, x, y) ==
  {Itself(Pair(lo, hi, x, y)), Means(List(<<x, y>>), Pair(lo, hi, x, y)),
   Means(Static(List(<<x, y>>)), Pair(lo, hi, x, y)), Mistyped(Object(lo :> x)), Mistyped(List(<<x>>)),
   Wrong(Bare("Static"), MissingField, <<"value">>),
   Itself(Typed("State", "key" :> Str("a")))}

NodeForms ==
  {Itself(Leaf("b")), Wrong(Object("kind" :> Badge), MissingField, <<"id">>),
   Wrong(Object("id" :> Str("") @@ "kind" :> Badge), EmptyNodeID, <<"id">>),
   Wrong(Object("id" :> Num(1) @@ "kind" :> Badge), WrongType, <<"id">>),
   Wrong(Object("id" :> Str("b")), MissingField, <<"kind">>), Mistyped(Str("b")),
   Wrong(Object("id" :> Str("b") @@ "kind" :> Bare("a")), UnknownKind, <<"kind", "$type">>)}

-----------------------------------------------------------------------------
\* Expressions, pipelines and the frames they start from.
Op(op, l, r) == Binary(op, l, r)
Flat(op, f)  == Typed(op, f)
Negated(n, e) == FoldLeft(LAMBDA acc, i : Typed("not", "expr" :> acc), e, [i \in 1..n |-> i])
ExprForms ==
  {Itself(Lit(Num(1))), Itself(Op("add", Lit(Num(1)), Lit(Num(2)))),
   Means(Flat("and", "exprs" :> List(<<Lit(Num(1)), Lit(Num(2)), Lit(Num(1))>>)),
         Op("and", Op("and", Lit(Num(1)), Lit(Num(2))), Lit(Num(1)))),
   Means(Flat("eq", "expr" :> Lit(Num(1)) @@ "other" :> Lit(Num(2))), Op("eq", Lit(Num(1)), Lit(Num(2)))),
   Means(Flat("abs", "expr" :> Lit(Num(1))),
         Typed("apply", "fn" :> Str("abs") @@ "args" :> List(<<Lit(Num(1))>>))),
   Means(Flat("call", "fn" :> Str("abs") @@ "args" :> EmptyList), Typed("apply", "fn" :> Str("abs") @@ "args" :> EmptyList)),
   Itself(Typed("case", "cases" :> List(<<Object("when" :> Lit(Num(1)) @@ "then" :> Lit(Num(2)))>>) @@ "else" :> Lit(Num(1)))),
   Itself(Typed("in", "expr" :> Lit(Num(1)) @@ "items" :> List(<<Lit(Num(2))>>))),
   Mistyped(Typed("in", "expr" :> Lit(Num(1)) @@ "items" :> EmptyList @@ "param" :> Str("a"))),
   Mistyped(Op("a", Lit(Num(1)), Lit(Num(1)))), Mistyped(Col("a")), Mistyped(Bare("col")), Mistyped(Str("a")),
   Wrong(Param("a"), WrongType, << >>),
   Itself(Negated(MaxExprNodes - 1, Lit(Num(1)))),
   Wrong(Negated(MaxExprNodes, Lit(Num(1))), OverLimit, << >>)}

Sorted(f)    == Typed("sort", f)
PipelineForms ==
  {Itself(List(<<Typed("filter", "pred" :> Op("gt", Col("a"), Lit(Num(1))))>>)),
   Means(List(<<Typed("filter", "column" :> Str("a") @@ "op" :> Str("gt") @@ "value" :> Num(1))>>),
         List(<<Typed("filter", "pred" :> Op("gt", Col("a"), Lit(Num(1))))>>)),
   Means(List(<<Typed("filter", "column" :> Str("a") @@ "op" :> Str("eq") @@ "param" :> Str("b"))>>),
         List(<<Typed("filter", "pred" :> Op("eq", Col("a"), Param("b")))>>)),
   Means(List(<<Sorted("by" :> List(<<Object("column" :> Str("a") @@ "descending" :> Bool(TRUE))>>))>>),
         List(<<Sorted("by" :> List(<<Object("column" :> Str("a") @@ "dir" :> Str("desc"))>>))>>)),
   Means(List(<<Sorted("keys" :> List(<<Object("col" :> Str("a"))>>))>>),
         List(<<Sorted("by" :> List(<<Object("column" :> Str("a") @@ "dir" :> Str("asc"))>>))>>)),
   Mistyped(List(<<Sorted("by" :> EmptyList @@ "keys" :> EmptyList)>>)),
   Means(List(<<Typed("groupBy", "by" :> List(<<Str("a")>>)
                @@ "aggregations" :> List(<<Object("as" :> Str("b") @@ "op" :> Str("avg") @@ "column" :> Str("a"))>>))>>),
         List(<<Typed("groupBy", "keys" :> List(<<Str("a")>>)
                @@ "aggs" :> List(<<Object("name" :> Str("b") @@ "fn" :> Str("mean") @@ "of" :> Str("a"))>>))>>)),
   Means(List(<<Typed("limit", "count" :> Num(1))>>), List(<<Typed("limit", "n" :> Num(1) @@ "offset" :> Num(0))>>)),
   Means(List(<<Typed("project", "cols" :> List(<<Object("a" :> Str("a") @@ "b" :> Str("b"))>>))>>),
         List(<<Typed("project", "columns" :> List(<<Object("a" :> Str("a") @@ "b" :> Str("b"))>>))>>)),
   Itself(List(<<Typed("union", "source" :> Frame), Bare("distinct")>>)),
   Means(List(<<Typed("window", "as" :> Str("b") @@ "of" :> Str("a") @@ "partitionBy" :> EmptyList
                      @@ "orderBy" :> EmptyList @@ "fn" :> Str("cumSum"))>>),
         List(<<Typed("window", "as" :> Str("b") @@ "of" :> Str("a") @@ "partitionBy" :> EmptyList
                      @@ "orderBy" :> EmptyList @@ "fn" :> Str("cumulSum"))>>)),
   Mistyped(List(<<Bare("a")>>)), Mistyped(Bare("distinct")),
   Wrong(List(<<Bare("distinct"), Typed("derive", "name" :> Str("b")
                                        @@ "expr" :> Negated(MaxExprNodes, Col("a")))>>),
         OverLimit, <<"[1]", "expr">>)}

FrameForms ==
  {Itself(Frame),
   Means(List(<<Object("a" :> Num(1))>>), Frame),
   Means(Typed("Static", "value" :> List(<<Object("a" :> Num(1))>>)), Frame),
   Means(Object("columns" :> Object("a" :> List(<<Num(1)>>))), Frame),
   Means(Object("columns" :> Object("a" :> List(<<Half, Num(1)>>))),
         Object("schema" :> List(<<Entry("a", "float")>>)
                @@ "columns" :> Object("a" :> Object("validity" :> List(<<Bool(TRUE), Bool(TRUE)>>)
                                                     @@ "values" :> List(<<Half, Num(1)>>))))),
   Means(Object("schema" :> List(<<Entry("a", "int")>>)
                @@ "columns" :> Object("a" :> Object("validity" :> List(<<Bool(FALSE)>>) @@ "values" :> List(<<Str("a")>>)))),
         Object("schema" :> List(<<Entry("a", "int")>>)
                @@ "columns" :> Object("a" :> Object("validity" :> List(<<Bool(FALSE)>>) @@ "values" :> List(<<Num(0)>>))))),
   Itself(Object("ref" :> Str("a") @@ "schema" :> List(<<Entry("a", "date")>>))),
   Itself(Typed("State", "key" :> Str("a"))),
   Mistyped(Typed("State", "key" :> Str("a") @@ "defaultValue" :> List(<<Num(1)>>))),
   Mistyped(Object("ref" :> Str("a"))), Mistyped(Object("columns" :> Object("a" :> List(<<Num(1), Str("a")>>)))),
   Mistyped(List(<<Object("a" :> Num(1)), Object("b" :> Num(1))>>)), Mistyped(Str("a"))}

LeafForms(type) ==
  CASE type.t = "string" -> TextForms
    [] type.t = "destination" -> TextForms \cup {Mistyped(Str(""))}
    [] type.t = "citationName" -> TextForms \cup {Mistyped(Str("x"))}
    [] type.t = "bool" -> FlagForms
    [] type.t = "free" -> FlagForms \ {Itself(Bool(FALSE))}
    [] type.t = "single" -> FlagForms \ {Itself(Bool(TRUE)), Read2(Bool(TRUE))}
    [] type.t = "int" -> IntForms(-1, IntSlotMax)
    [] type.t = "natural" -> IntForms(0, IntSlotMax) \cup {Mistyped(Num(-1))}
    [] type.t = "positive" -> IntForms(1, IntSlotMax) \cup {Mistyped(Num(0))}
    [] type.t = "skeletonRows" -> IntForms(0, MaxSkeletonRows) \cup {Wrong(Num(MaxSkeletonRows + 1), OverLimit, << >>)}
    [] type.t = "float" -> NumberForms
    [] type.t \in {"finite", "ceiling"} -> (NumberForms \ {Itself(Str("NaN"))}) \cup {Mistyped(Str("NaN"))}
    [] type.t = "closure" -> {Itself(Sentinel), Means(Num(1), Sentinel), Means(Null, Sentinel)}
    [] type.t = "json" -> JsonForms
    [] type.t = "opValue" -> JsonForms \cup {Mistyped(Sentinel), Mistyped(Opaque)}
    [] type.t = "loose" -> LooseForms
    [] type.t = "enum" -> EnumForms(type.n)
    [] type.t = "emphasis" -> EmphasisForms
    [] type.t = "emphasisFlag" -> FlagEmphasisForms
    [] type.t = "isoDay" -> {Itself(Str("2024-01-01")), Mistyped(Str("2024-02-30")), Mistyped(Str("a"))}
    [] type.t = "stringOpt" -> {Itself(Str("a")), Itself(Null), Mistyped(Num(1))}
    [] type.t = "texts" -> ListForms({Str("a")}, List(<<Opaque>>)) \cup {Wrong(List(<<Num(1)>>), WrongType, <<"[0]">>)}
    [] type.t = "reals" -> ListForms({Half}, EmptyList) \cup {Wrong(List(<<Str("a")>>), WrongType, <<"[0]">>)}
    [] type.t = "rows" -> RowForms
    [] type.t = "options" -> OptionForms
    [] type.t = "markers" -> MarkerForms
    [] type.t = "i18nArgs" -> {Means(Object("a" :> Static(Num(1))), Object("a" :> Num(1))), Itself(Empty),
                               Itself(Object("a" :> Num(1) @@ "b" :> Typed("State", "key" :> Str("a")))),
                               WrongIn(Object("a" :> Null @@ "b" :> Bare("a")),
                                       <<[code |-> WrongType, at |-> <<"a">>],
                                         [code |-> UnknownCase, at |-> <<"b", "$type">>]>>),
                               Wrong(Object("a" :> Null), WrongType, <<"a">>), Mistyped(EmptyList)}
    [] type.t = "bindingArgs" -> {Means(Object("a" :> Num(1) @@ "b" :> Static(Num(2))),
                                        Object("a" :> Static(Num(1)) @@ "b" :> Static(Num(2)))),
                                  WrongIn(Object("a" :> Bare("a") @@ "b" :> Empty),
                                          <<[code |-> UnknownCase, at |-> <<"a", "$type">>],
                                            [code |-> MissingField, at |-> <<"b", "$type">>]>>),
                                  Itself(Empty), Mistyped(EmptyList)}
    [] type.t = "markdownCitations" ->
         {Itself(List(<<NamedCitation("a")>>)), Mistyped(EmptyList),
          Wrong(List(<<NamedCitation("a"), NamedCitation("a")>>), WrongType, <<"[1]", "name">>)}
    [] type.t = "tableCitations" ->
         {Itself(List(<<CellCitation(0, 0)>>)), Mistyped(EmptyList),
          Wrong(List(<<CellCitation(1, 0)>>), WrongType, <<"[0]", "row">>),
          Wrong(List(<<CellCitation(0, 1)>>), WrongType, <<"[0]", "column">>),
          Wrong(List(<<CellCitation(0, 0), CellCitation(0, 0)>>), WrongType, <<"[1]">>)}
    [] type.t = "formatOf" -> {Itself(Bare("Number")), Means(Bare("Date"), Bare("DateTime"))}
    [] type.t = "codec" -> {Itself(Bare("Number")), Mistyped(Bare("Percent"))}
    [] type.t = "frameSource" -> FrameForms
    [] type.t = "pipeline" -> PipelineForms
    [] type.t = "params" -> ParamForms
    [] type.t = "scalarExpr" -> ExprForms
    [] type.t = "colourBinding" -> {Itself(Static(Str("#1a2b3c"))), Means(Str("#000000"), Static(Str("#000000"))),
                                    Mistyped(Str("a")), Itself(Typed("State", "key" :> Str("a")))}
    [] type.t = "rangeValue" -> RangeForms("min", "max", Num(1), Num(2))
    [] type.t = "dateRangeValue" ->
         RangeForms("from", "to", Str("a"), Str("b")) \cup {Mistyped(List(<<Str("b"), Str("a")>>))}
    [] type.t = "node" -> NodeForms
    [] type.t = "kind" -> {Itself(Badge), Wrong(Bare("a"), UnknownKind, <<"$type">>), Wrong(Empty, MissingField, <<"$type">>)}
    [] OTHER -> {Itself(PlainLeaf(type))}

-----------------------------------------------------------------------------
(***************************************************************************)
(* The spellings of one member: what is put in and taken out of the plain  *)
(* object, what the member then means, or the refusal it deserves.         *)
(***************************************************************************)
Edit(owner, key, put, meant, bad) == [key |-> key, put |-> put, cut |-> Replaced(owner, key), meant |-> meant, bad |-> bad]

\* The value a member is left out at.
IdleValues(owner, row) ==
  CASE row.opt = "omitDefault" -> {row.default}
    [] <<owner, row.key>> \in {<<"Binding.Query", "dependsOn">>, <<"Binding.Transform", "params">>,
                               <<"Binding.Expr", "params">>} -> {EmptyList}
    [] <<owner, row.key>> = <<"Binding.State", "defaultValue">> -> {Null}
    [] <<owner, row.key>> \in {<<"Node", "state">>, <<"Node", "style">>} -> {Empty}
    [] OTHER -> {}

\* A value at its default is left unsaid, and null is no default of a state.
Spelt(owner, row, s) ==
  Edit(owner, row.key, row.key :> s.raw,
       SelectSeq(s.meant, LAMBDA v : v \notin IdleValues(owner, row)), Inside(<<row.key>>, s).bad)

MemberEdits(owner, row, spellings, plain) ==
  {Spelt(owner, row, s) : s \in {s \in spellings : s.raw = Null => IdleValues(owner, row) # {Null}}}
  \cup (IF IdleValues(owner, row) = {Null} THEN {Edit(owner, row.key, row.key :> Null, << >>, << >>)} ELSE {})
  \cup {Edit(owner, row.key, alias :> plain, <<plain>>, << >>) : alias \in AliasesOf(owner, row.key)}
  \cup {Edit(owner, row.key, row.key :> plain @@ alias :> List(<<Null>>), <<plain>>, << >>) : alias \in AliasesOf(owner, row.key)}
  \cup (IF row.opt # "required" \/ <<owner, row.key>> = <<"BoxLayout.Grid", "cols">> THEN {}
        ELSE IF Leniency(owner, row.key) # << >>
        THEN {Edit(owner, row.key, NoMembers, Leniency(owner, row.key), << >>)}
        ELSE {Edit(owner, row.key, NoMembers, << >>, <<[code |-> MissingField, at |-> <<row.key>>]>>)})

\* An object with an edit made to it, and what it means.
Without(obj, keys) == [k \in DOMAIN obj \ keys |-> obj[k]]
Made(obj, e)  == e.put @@ Without(obj, e.cut)
Meant(obj, e) == (IF e.meant = << >> THEN NoMembers ELSE e.key :> e.meant[1]) @@ Without(obj, e.cut)
Edited(obj, e) == [raw |-> Object(Made(obj, e)), meant |-> <<Object(Meant(obj, e))>>, bad |-> e.bad]

-----------------------------------------------------------------------------
\* The spellings of a binding's Static value, bare or in its envelope.
IsBare(s) == ~Is("obj", s.raw) /\ ~Is("null", s.raw)
StaticOf(v) == IF v = Null THEN Bare("Static") ELSE Static(v)
StaticForms(values) ==
  {[s EXCEPT !.meant = [i \in DOMAIN @ |-> StaticOf(@[i])]] : s \in {s \in values : IsBare(s)}}
  \cup {[Inside(<<"value">>, s) EXCEPT !.raw = Static(@), !.meant = [i \in DOMAIN @ |-> StaticOf(@[i])]] : s \in values}
  \cup {[Inside(<<"value">>, s) EXCEPT !.raw = Bare("Static"), !.meant = [i \in DOMAIN @ |-> StaticOf(@[i])]] :
          s \in {s \in values : s.raw = Null}}

\* A Bound envelope is read through.
BoundForms(plain) ==
  {Means(Typed("Bound", "binding" :> b), b) : b \in {plain, Typed("State", "key" :> Str("a"))}}
  \cup {Wrong(Bare("Bound"), MissingField, <<"binding">>)}

\* Spellings that go beyond one member of one case.
Asked    == Typed("Confirm", "prompt" :> Str("a") @@ "onConfirm" :> Bare("Print"))
AskedOn(action) == Typed("Confirm", "prompt" :> Str("a") @@ "onConfirm" :> action)
Chain(action)   == Typed("Chain", "ops" :> List(<<action>>))
Day(iso)        == Typed("Date", "iso" :> Str(iso))
TonedPill       == Typed("TonedPill", "field" :> Str("a") @@ "map" :> Object("a" :> Str("Success")))

UnionExtras(n) ==
  CASE n = "Action" ->
         {Wrong(AskedOn(Asked), WrongType, <<"onConfirm">>),
          Wrong(AskedOn(Chain(Asked)), WrongType, <<"onConfirm", "ops", "[0]">>), Itself(Chain(Asked)),
          Wrong(Typed("Print", "a" :> Num(1)), WrongType, <<"a">>),
          Wrong(Typed("SetState", "key" :> Str("a")), MissingField, <<"value">>),
          Wrong(Typed("SetState", "key" :> Str("a") @@ "value" :> Num(1) @@ "valueFrom" :> Num(1)), WrongType, <<"valueFrom">>),
          Means(Typed("ReadFileBody", "fileRef" :> Str("a") @@ "encoding" :> Str("Text")),
                Typed("ReadFileBody", "fileRef" :> Str("a") @@ "encoding" :> Str("Text") @@ "onRead" :> Sentinel))}
    [] n = "BoxLayout" ->
         {Means(Bare("Grid"), Bare("Auto")),
          Means(Typed("Grid", "templateColumns" :> Str("a")),
                Typed("Grid", "templateColumns" :> Str("a") @@ "cols" :> Num(1))),
          Means(Typed("Flex", "direction" :> Str("row") @@ "zzz" :> Num(1)), Typed("Flex", "direction" :> Str("Horizontal")))}
    [] n = "CellKindErased" ->
         {Means(Typed("Pill", "field" :> Str("a") @@ "tones" :> Object("a" :> Str("Positive"))), TonedPill)}
    [] n = "CellFormat" ->
         {Means(Typed("Date", "format" :> Str("a")), Typed("DateTime", "format" :> Str("a"))),
          Itself(Typed("Percent", "zzz" :> Num(1))),
          Means(Typed("Duration", "unit" :> Str("Hours") @@ "style" :> Str("Long") @@ "zzz" :> Num(1)),
                Typed("Duration", "unit" :> Str("Hours") @@ "style" :> Str("Long")))}
    [] n = "ChartAnnotationRange" ->
         {Mistyped(Typed("ValueRange", "from" :> Half @@ "to" :> Num(1))),
               Itself(Typed("XRange", "from" :> Day("2024-01-01") @@ "to" :> Day("2024-03-01"))),
               Mistyped(Typed("XRange", "from" :> Day("2024-03-01") @@ "to" :> Day("2024-01-01")))}
    [] n = "FormFieldKind" ->
         {Means(Bare("Time"), Typed("DateTime", "variant" :> Str("Time"))),
          Wrong(Typed("Time", "variant" :> Str("Date")), WrongType, <<"variant">>),
          Means(Typed("DateRange", "variant" :> Str("Date")), Typed("DateTimeRange", "variant" :> Str("Date"))),
          Wrong(Typed("Tokens", "allowFreeText" :> Bool(FALSE)), WrongType, <<"allowFreeText">>)}
    [] OTHER -> {}

RecordExtras(n) ==
  CASE n = "FieldRule" ->
         {Mistyped(Empty), Itself(Object("minLength" :> Num(1) @@ "maxLength" :> Num(1))),
          Mistyped(Object("minLength" :> Num(2) @@ "maxLength" :> Num(1)))}
    [] n = "StyleDelta" -> {Mistyped(Empty), Mistyped(Object("a" :> Num(1)))}
    [] n = "SwitchCase" ->
         {Wrong(Object("child" :> Leaf("b")), MissingField, <<"match">>),
          Wrong(Object("child" :> Leaf("b") @@ "match" :> Str("a") @@ "when" :> Bool(TRUE)), WrongType, <<"when">>)}
    [] n = "FormField" ->
         {Wrong(Object("id" :> Str("a") @@ "kind" :> Bare("Text") @@ "label" :> Str("a") @@ "validate" :> Num(1)),
                WrongType, <<"validate">>),
          Means(Object("id" :> Str("a") @@ "label" :> Str("a") @@
                       "kind" :> Typed("Number", "value" :> Typed("State", "key" :> Str("a") @@ "defaultValue" :> Num(0)))),
                Object("id" :> Str("a") @@ "kind" :> Bare("Number") @@ "label" :> Str("a")))}
    [] n = "FilterSpec" ->
         {Means(Object("name" :> Str("a") @@ "label" :> Str("a") @@
                       "kind" :> Typed("Text", "value" :> Typed("Filter", "name" :> Str("a")))),
                Object("name" :> Str("a") @@ "kind" :> Bare("Text") @@ "label" :> Str("a")))}
    [] n = "ColumnErased" ->
         {Wrong(Object("kind" :> Bare("Text") @@ "label" :> Str("a") @@ "readOnly" :> Bool(TRUE)), WrongType, <<"readOnly">>)}
    [] n = "Accessibility" ->
         {Wrong(Object("ariaLabel" :> Str("a")), WrongType, <<"ariaLabel">>), Itself(Empty)}
    [] OTHER -> {}

BindingExtras ==
  {Wrong(Bare("a"), UnknownCase, <<"$type">>), Wrong(Empty, MissingField, <<"$type">>),
   Means(Typed("Expr", "expr" :> Param("a") @@ "params" :> Object("a" :> Num(1))),
         Typed("Expr", "expr" :> Param("a")
               @@ "params" :> List(<<Object("from" :> Static(Num(1)) @@ "name" :> Str("a"))>>))),
   Wrong(Typed("Expr", "expr" :> Lit(Num(1)) @@ "params" :> List(<<Object("name" :> Str("b") @@ "from" :> Null)>>)),
         WrongType, <<"params", "b", "from">>),
   Wrong(Typed("Local", "initialFrom" :> Str("a") @@ "onCommit" :> Num(1) @@ "commitTo" :> Str("a")), WrongType, <<"commitTo">>)}

-----------------------------------------------------------------------------
\* The edits an owner's row admits, and the spellings of a type, to a depth.
BindingRow(type, tag, row) ==
  CASE row.key = "defaultValue" -> [row EXCEPT !.type = IF type.typed THEN type.parse ELSE Loose]
    [] row.key = "initialFrom" -> [row EXCEPT !.type = BindingOf(type.parse)]
    [] OTHER -> row

Within(seg, s, W(_)) == [Inside(<<seg>>, s) EXCEPT !.raw = W(@), !.meant = [i \in DOMAIN @ |-> W(@[i])]]

\* The cases whose members are spelled out.
CasesIn(type, u, cases) ==
  CASE type.t = "binding" ->
         {Case("Binding." \o tag, tag, [i \in DOMAIN cases[tag] |-> BindingRow(type, tag, cases[tag][i])]) :
            tag \in DOMAIN cases \ {"Static"}}
    [] OTHER -> {CaseOf(u, tag, cases) : tag \in IF u = "TextSource" THEN {"I18n", "Bound"} ELSE DOMAIN cases}
CasesOf(type) ==
  CASE type.t = "record" -> {Case(type.n, "", Records[type.n])}
    [] type.t \in {"binding", "union"} ->
         LET u == IF type.t = "binding" THEN "Binding" ELSE type.n IN CasesIn(type, u, Unions[u])
    [] OTHER -> {}

\* The spellings that are not one edit of one case.
Apart(type, n, plain) ==
  CASE type.t = "list" -> {Itself(EmptyList), Mistyped(Empty)}
    [] type.t = "map" -> {Itself(Empty), Mistyped(EmptyList)}
    [] type.t = "binding" /\ n = 0 -> {Itself(plain), Mistyped(Null)}
    [] type.t = "binding" -> BoundForms(plain) \cup BindingExtras
    [] type.t = "union" /\ type.n = "TextSource" ->
         {Itself(Str("a")), Means(Typed("Literal", "text" :> Static(Str("b"))), Str("b")), Mistyped(Num(1)),
          Wrong(Bare("Literal"), MissingField, <<"text">>)}
    [] type.t = "union" /\ n = 0 -> {Itself(plain), Mistyped(Num(1))}
    [] type.t = "union" ->
         {Wrong(Bare("a"), UnknownCase, <<"$type">>), Wrong(Empty, MissingField, <<"$type">>),
          Wrong(Object("$type" :> Num(1)), WrongType, <<"$type">>)} \cup UnionExtras(type.n)
    [] type.t = "record" /\ n = 0 -> {Itself(plain), Mistyped(Str("a"))}
    [] type.t = "record" -> {Mistyped(Num(1))} \cup RecordExtras(type.n)
    [] OTHER -> LeafForms(type)

\* A continuation may be spelled out, as long as it asks no second question.
Asking(action) == TagOf(action) = "Confirm"
                  \/ (TagOf(action) = "Chain" /\ Has(action, "ops") /\ Is("arr", action.obj["ops"])
                      /\ \E i \in DOMAIN action.obj["ops"].arr : TagOf(action.obj["ops"].arr[i]) = "Confirm")
Fitting(owner, spellings) ==
  IF owner = "Action.Confirm" THEN {s \in spellings : ~Asking(s.raw)} ELSE spellings

\* A value's spellings: to a depth of n, those of the members of each of its cases.
Open(shape) == {[row |-> shape.rows[i], type |-> SlotType(shape.owner, shape.rows[i])] :
                  i \in {i \in DOMAIN shape.rows : shape.rows[i].opt # "hostOnly"}}
EditedCase(plain, edits) == {Itself(Object(plain))} \cup {Edited(plain, e) : e \in edits}

RECURSIVE Spell(_, _)
Spell(type, n) ==
  Apart(type, n, Plain(type))
  \cup CASE type.t = "list" -> {Within("[0]", s, LAMBDA v : List(<<v>>)) : s \in Spell(type.of, n)}
         [] type.t = "map" -> {Within("a", s, LAMBDA v : Object("a" :> v)) : s \in Spell(type.of, n)}
         [] type.t = "bindingArgs" -> {Within("a", s, LAMBDA v : Object("a" :> v)) : s \in Spell(BindingOf(Loose), n)}
         [] n = 0 -> {}
         [] OTHER ->
              (IF type.t = "binding" THEN StaticForms(Spell(type.parse, 0)) ELSE {})
              \cup UNION {EditedCase(PlainCase(case),
                                     UNION {MemberEdits(case.owner, m.row, Fitting(case.owner, Spell(m.type, n - 1)),
                                                        Plain(m.type)) : m \in Open(case)}) : case \in CasesOf(type)}

\* Edits that reach another member: a multiple select reads its value and drops it, and a
\* State selector that says no more than its key is a state key.
OwnEdits(owner) ==
  IF owner # "Select" THEN {}
  ELSE {[Edit("Select", "multiple", "multiple" :> Bool(TRUE) @@ "value" :> Static(value), meant, bad)
           EXCEPT !.cut = {"multiple", "value"}] :
          <<value, meant, bad>> \in
            {<<Str("a"), <<Bool(TRUE)>>, << >>>>,
             <<Num(1), << >>, <<[code |-> WrongType, at |-> <<"value", "value">>]>>>>}}

SaysKeyOnly(v) == TagOf(v) = "State" /\ DOMAIN v.obj = {"$type", "key"}
AsStateKey(owner, e) ==
  IF <<owner, e.key>> = <<"Switch", "on">> /\ e.meant # << >> /\ SaysKeyOnly(e.meant[1])
  THEN [e EXCEPT !.key = "stateKey", !.meant = <<e.meant[1].obj["key"]>>] ELSE e

\* The edits an owner's rows admit.
EditsTo(case, n) ==
  OwnEdits(case.owner)
  \cup {AsStateKey(case.owner, e) :
          e \in UNION {MemberEdits(case.owner, m.row, Spell(m.type, n), Plain(m.type)) : m \in Open(case)}}
=============================================================================
