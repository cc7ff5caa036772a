---------------------------- MODULE Computations ----------------------------
(***************************************************************************)
(* The decoders of computations (wire/transform.go): expressions, the      *)
(* steps of a pipeline and the frames they start from.  A computation is   *)
(* refused as a whole, at the slot it stands in, so reading one returns    *)
(* << >> or the canonical form.  A lenient spelling is rewritten first and *)
(* the canonical one read by its shape: the parts of the result, each with *)
(* what it is read as.                                                     *)
(***************************************************************************)
EXTENDS Forms

\* MaxExprNodes stands for the code's 512.
CONSTANT MaxExprNodes

ColumnTypes == {"int", "float", "bool", "string", "date", "timestamp", "timestamp_ms", "timestamp_us", "timestamp_ns"}
BinOps      == {"add", "sub", "mul", "div", "mod", "eq", "ne", "lt", "le", "gt", "ge", "and", "or",
                "contains", "startsWith", "endsWith"}
ScalarFns   == {"abs", "round", "floor", "ceil", "length", "lower", "upper", "substr", "datePart", "concat",
                "trim", "replace", "dateDiffDays", "pow", "exp", "ln", "log10"}
AggFns      == {"sum", "mean", "min", "max", "count", "median", "stddev", "first", "last"}
JoinKinds   == {"inner", "left", "right", "outer"}
WindowFns   == {"rowNumber", "rank", "lag", "lead", "cumulSum", "rollingMean"}
FlatOps     == {"contains", "startsWith", "endsWith", "and", "or", "eq", "ne", "lt", "le", "gt", "ge"}

\* cField, and cFieldAliased, which refuses both spellings at once.
Member(j, key)      == IF Has(j, key) THEN <<j.obj[key]>> ELSE << >>
OneOfTwo(j, a, b)   == IF Has(j, a) /\ Has(j, b) THEN << >> ELSE Member(j, a) \o Member(j, b)

\* A part: what it is read as, and what is read.  A fixed part is canonical already.
Part(as, found)     == [as |-> as, found |-> found]
Fixed(v)            == Part("fixed", <<v>>)
Named(set, found)   == Part("text", IF found # << >> /\ Is("str", found[1]) /\ found[1].str \in set
                                    THEN found ELSE << >>)
Tagged(tag, parts)  == <<[tag |-> tag, parts |-> parts]>>
NoParts             == [k \in {} |-> Fixed(Null)]

\* cumSum and avg are names of functions this codec writes otherwise.
Renamed(found, from, to) == IF found = <<Str(from)>> THEN <<Str(to)>> ELSE found

Binary(op, left, right) ==
  Object("$type" :> Str("binary") @@ "op" :> Str(op) @@ "left" :> left @@ "right" :> right)

-----------------------------------------------------------------------------
\* decodeComputeExpr: a flat operator is a binary, and over a list a left fold of them; a
\* function by its own name is an apply.
FlatOperator(j, op) ==
  LET left == OneOfTwo(j, "left", "expr") right == OneOfTwo(j, "right", "other")
  IN  CASE op \in {"and", "or"} /\ Has(j, "exprs") ->
             IF Is("arr", j.obj["exprs"]) /\ j.obj["exprs"].arr # << >>
             THEN <<FoldLeft(LAMBDA acc, x : Binary(op, acc, x), Head(j.obj["exprs"].arr), Tail(j.obj["exprs"].arr))>>
             ELSE << >>
        [] left # << >> /\ right # << >> -> <<Binary(op, left[1], right[1])>>
        [] OTHER -> << >>

NamedFunction(j, fn) ==
  LET args == IF Has(j, "args") THEN Member(j, "args")
              ELSE IF Has(j, "expr") THEN <<List(<<j.obj["expr"]>>)>> ELSE << >>
  IN  IF args = << >> THEN << >>
      ELSE <<Object("$type" :> Str("apply") @@ "fn" :> Str(fn) @@ "args" :> args[1])>>

CanonicalExpr(j) ==
  LET tag == TagOf(j)
  IN  CASE tag \in FlatOps -> FlatOperator(j, tag)
        [] tag \in ScalarFns -> NamedFunction(j, tag)
        [] tag \in {"call", "fn"} -> <<Object([j.obj EXCEPT !["$type"] = Str("apply")])>>
        [] OTHER -> <<j>>

\* An `in` tests against a list or against a list parameter, never both.
ExprShape(j) ==
  LET tag == TagOf(j)
  IN  CASE tag \in {"col", "param"} -> Tagged(tag, [name |-> Part("text", Member(j, "name"))])
        [] tag = "lit" -> Tagged("lit", [cell |-> Part("cell", Member(j, "cell"))])
        [] tag = "binary" -> Tagged("binary", [op |-> Named(BinOps, Member(j, "op")),
                                               left |-> Part("expr", Member(j, "left")),
                                               right |-> Part("expr", Member(j, "right"))])
        [] tag \in {"not", "isNull"} -> Tagged(tag, [expr |-> Part("expr", Member(j, "expr"))])
        [] tag = "coalesce" -> Tagged(tag, [exprs |-> Part("exprs", Member(j, "exprs"))])
        [] tag = "case" -> Tagged(tag, "cases" :> Part("branches", Member(j, "cases"))
                                       @@ "else" :> Part("expr", Member(j, "else")))
        [] tag = "cast" -> Tagged(tag, [expr |-> Part("expr", Member(j, "expr")),
                                        type |-> Named(ColumnTypes, Member(j, "type"))])
        [] tag = "apply" -> Tagged(tag, [fn |-> Named(ScalarFns, Member(j, "fn")),
                                         args |-> Part("exprs", Member(j, "args"))])
        [] tag = "in" /\ ~(Has(j, "items") /\ Has(j, "param")) ->
             Tagged(tag, "expr" :> Part("expr", Member(j, "expr"))
                         @@ (IF Has(j, "param") THEN "param" :> Part("text", Member(j, "param"))
                             ELSE "items" :> Part("exprs", Member(j, "items"))))
        [] OTHER -> << >>

\* decodeCellLiteral: an Int is written as an integer.
CellShape(j) ==
  LET tag == TagOf(j)
      value(as) == Tagged(tag, [value |-> Part(as, Member(j, "value"))])
  IN  CASE tag = "Null" -> Tagged(tag, NoParts)
        [] tag = "Int" -> value("int")
        [] tag = "Float" -> value("number")
        [] tag = "Bool" -> value("bool")
        [] tag \in {"Str", "Date", "Timestamp"} -> value("text")
        [] OTHER -> << >>

-----------------------------------------------------------------------------
\* decodeComputeStep: the flat form of a filter compares a column with a parameter or with
\* a scalar.
Scalars(v) ==
  CASE Is("str", v) -> <<Object("$type" :> Str("Str") @@ "value" :> v)>>
    [] Is("bool", v) -> <<Object("$type" :> Str("Bool") @@ "value" :> v)>>
    [] Is("num", v) -> <<Object("$type" :> Str(IF v.form = "int" THEN "Int" ELSE "Float") @@ "value" :> v)>>
    [] OTHER -> << >>

FlatFilter(j) ==
  LET col   == Object("$type" :> Str("col") @@ "name" :> j.obj["column"])
      right == IF Has(j, "param") THEN <<Object("$type" :> Str("param") @@ "name" :> j.obj["param"])>>
               ELSE IF Has(j, "value") /\ Scalars(j.obj["value"]) # << >>
               THEN <<Object("$type" :> Str("lit") @@ "cell" :> Scalars(j.obj["value"])[1])>> ELSE << >>
  IN  IF {"column", "op"} \subseteq DOMAIN j.obj /\ ~({"param", "value"} \subseteq DOMAIN j.obj)
         /\ Is("str", j.obj["op"]) /\ right # << >>
      THEN <<Binary(j.obj["op"].str, col, right[1])>> ELSE << >>

StepShape(j) ==
  LET tag == TagOf(j)
      texts(key) == Part("texts", Member(j, key))
      text(key)  == Part("text", Member(j, key))
  IN  CASE tag = "filter" ->
             Tagged(tag, [pred |-> Part("expr", IF Has(j, "pred") \/ Has(j, "predicate")
                                                THEN OneOfTwo(j, "pred", "predicate") ELSE FlatFilter(j))])
        [] tag = "project" -> Tagged(tag, [columns |-> Part("pairs", OneOfTwo(j, "columns", "cols"))])
        [] tag = "derive" -> Tagged(tag, [expr |-> Part("expr", Member(j, "expr")), name |-> text("name")])
        [] tag = "groupBy" -> Tagged(tag, [keys |-> Part("texts", OneOfTwo(j, "keys", "by")),
                                           aggs |-> Part("aggs", OneOfTwo(j, "aggs", "aggregations"))])
        [] tag = "join" -> Tagged(tag, [source |-> Part("frame", Member(j, "source")),
                                        on |-> Part("pairs", Member(j, "on")),
                                        how |-> Named(JoinKinds, Member(j, "how"))])
        [] tag = "window" ->
             Tagged(tag, "as" :> text("as") @@ "of" :> text("of") @@ "partitionBy" :> texts("partitionBy")
                         @@ "orderBy" :> Part("orders", Member(j, "orderBy"))
                         @@ "fn" :> Named(WindowFns, Renamed(Member(j, "fn"), "cumSum", "cumulSum")))
        [] tag = "pivot" -> Tagged(tag, [agg |-> Named(AggFns, Renamed(Member(j, "agg"), "avg", "mean")),
                                         index |-> texts("index"), on |-> text("on"), values |-> text("values")])
        [] tag = "unpivot" -> Tagged(tag, [idVars |-> texts("idVars"), valueVars |-> texts("valueVars")])
        [] tag = "sort" -> Tagged(tag, [by |-> Part("orders", OneOfTwo(j, "by", "keys"))])
        [] tag = "distinct" -> Tagged(tag, NoParts)
        [] tag = "limit" ->
             Tagged(tag, [n |-> Part("int", OneOfTwo(j, "n", "count")),
                          offset |-> IF Has(j, "offset") THEN Part("int", Member(j, "offset")) ELSE Fixed(Num(0))])
        [] tag = "union" -> Tagged(tag, [source |-> Part("frame", Member(j, "source"))])
        [] OTHER -> << >>

\* decodeOrderKey: one of three spellings of the direction, which is descending when it says so.
OrderShape(j) ==
  LET ways == {"dir", "direction", "descending"} \cap DOMAIN j.obj
      down == \/ "dir" \in ways /\ j.obj["dir"] = Str("desc")
              \/ "direction" \in ways /\ j.obj["direction"] = Str("desc")
              \/ "descending" \in ways /\ j.obj["descending"] = Bool(TRUE)
  IN  IF (\E a, b \in ways : a # b) \/ ("descending" \in ways /\ ~Is("bool", j.obj["descending"])) THEN << >>
      ELSE Tagged("", [column |-> Part("text", OneOfTwo(j, "column", "col")),
                       dir |-> Fixed(Str(IF down THEN "desc" ELSE "asc"))])

AggShape(j) ==
  Tagged("", [name |-> Part("text", OneOfTwo(j, "name", "as")),
              fn |-> Named(AggFns, Renamed(OneOfTwo(j, "fn", "op"), "avg", "mean")),
              of |-> Part("text", OneOfTwo(j, "of", "column"))])

PairShape(j)   == Tagged("", [a |-> Part("text", Member(j, "a")), b |-> Part("text", Member(j, "b"))])
BranchShape(j) == Tagged("", [when |-> Part("expr", Member(j, "when")), then |-> Part("expr", Member(j, "then"))])

-----------------------------------------------------------------------------
\* normaliseTransformSource: a wrapper is read down to its data, and rows by rows are turned
\* into columns; a row without a cell has null in it.
Payload(j) ==
  IF TagOf(j) \in {"State", "Static", "Bound"} /\ {"defaultValue", "value"} \cap DOMAIN j.obj # {}
  THEN IF Has(j, "defaultValue") THEN j.obj["defaultValue"] ELSE j.obj["value"]
  ELSE j

Columnar(j) ==
  IF Is("arr", j) /\ j.arr # << >> /\ Is("obj", j.arr[1])
  THEN Object("columns" :> Object([k \in DOMAIN j.arr[1].obj |->
                List([i \in DOMAIN j.arr |-> IF Has(j.arr[i], k) THEN j.arr[i].obj[k] ELSE Null])]))
  ELSE j

\* frameColumnParts: the values of a column and which of them are present.
ValuesOf(column)   == IF Is("arr", column) THEN <<column.arr>>
                      ELSE IF Has(column, "values") /\ Is("arr", column.obj["values"])
                      THEN <<column.obj["values"].arr>> ELSE << >>
ValidityOf(column) ==
  IF ~Has(column, "validity") THEN <<[i \in DOMAIN ValuesOf(column)[1] |-> Bool(TRUE)]>>
  ELSE IF Is("arr", column.obj["validity"]) THEN <<column.obj["validity"].arr>> ELSE << >>

\* inferFrameColumnType: one kind of cell, integers among fractions being fractions.
CellType(v) ==
  CASE Is("num", v) -> IF v.form # "frac" /\ v.num \in (-IntSlotMax - 1)..IntSlotMax THEN "int" ELSE "float"
    [] Is("bool", v) -> "bool"
    [] Is("str", v) -> "string"
    [] OTHER -> "other"

Inferred(values) ==
  LET types == {CellType(values[i]) : i \in DOMAIN values}
  IN  CASE types \in {{"int"}, {"float"}, {"bool"}, {"string"}} -> CHOOSE t \in types : TRUE
        [] types = {"int", "float"} -> "float"
        [] OTHER -> "none"

\* frameCell, frameCellDefault: an instant stands for what ReadInstant accepts.
Instants == {"2024-01-01"}
FrameCell(type, v) ==
  CASE type = "int" -> IF CellType(v) = "int" THEN <<Num(v.num)>> ELSE << >>
    [] type = "float" -> IF Is("num", v) THEN <<Canonical(v)>> ELSE << >>
    [] type = "bool" -> IF Is("bool", v) THEN <<v>> ELSE << >>
    [] type \in {"string", "date"} -> IF Is("str", v) THEN <<v>> ELSE << >>
    [] OTHER -> IF Is("str", v) /\ v.str \in Instants THEN <<v>> ELSE << >>

BlankCell(type) ==
  CASE type \in {"int", "float"} -> Num(0) [] type = "bool" -> Bool(FALSE) [] OTHER -> Str("")

FrameColumn(type, column) ==
  LET values == ValuesOf(column) validity == ValidityOf(column)
      cell(i) == IF validity[1][i] = Bool(TRUE) THEN FrameCell(type, values[1][i]) ELSE <<BlankCell(type)>>
  IN  IF values = << >> THEN << >>
      ELSE IF validity = << >> THEN << >>
      ELSE IF Len(values[1]) # Len(validity[1])
              \/ \E i \in DOMAIN values[1] : ~Is("bool", validity[1][i]) \/ cell(i) = << >> THEN << >>
      ELSE <<Object("validity" :> List(validity[1]) @@ "values" :> List([i \in DOMAIN values[1] |-> cell(i)[1]]))>>

\* decodeFrameSchema, or the types inferred from the cells, by name in order.
EntryOK(e) == Has(e, "name") /\ Is("str", e.obj["name"]) /\ Has(e, "type") /\ Is("str", e.obj["type"])
              /\ e.obj["type"].str \in ColumnTypes
Entry(name, type) == Object("name" :> Str(name) @@ "type" :> Str(type))

SchemaOf(j, columns) ==
  IF Has(j, "schema")
  THEN IF Is("arr", j.obj["schema"]) /\ \A i \in DOMAIN j.obj["schema"].arr : EntryOK(j.obj["schema"].arr[i])
       THEN <<[i \in DOMAIN j.obj["schema"].arr |->
                 Entry(j.obj["schema"].arr[i].obj["name"].str, j.obj["schema"].arr[i].obj["type"].str)]>>
       ELSE << >>
  ELSE IF \A k \in DOMAIN columns : ValuesOf(columns[k]) # << >> /\ Inferred(ValuesOf(columns[k])[1]) # "none"
       THEN <<[i \in DOMAIN InOrder(DOMAIN columns) |->
                 Entry(InOrder(DOMAIN columns)[i], Inferred(ValuesOf(columns[InOrder(DOMAIN columns)[i]])[1]))]>>
       ELSE << >>

\* decodeFrameSource: a reference with its schema, or columns.
FrameSource(j) ==
  LET columns == IF Has(j, "columns") /\ Is("obj", j.obj["columns"]) THEN j.obj["columns"].obj ELSE NoMembers
      schema  == IF Has(j, "schema") \/ Has(j, "columns") THEN SchemaOf(j, columns) ELSE << >>
      read(e) == FrameColumn(e.obj["type"].str, columns[e.obj["name"].str])
  IN  CASE schema = << >> -> << >>
        [] Has(j, "ref") ->
             IF Has(j, "schema") /\ Is("str", j.obj["ref"])
             THEN <<Object("ref" :> j.obj["ref"] @@ "schema" :> List(schema[1]))>> ELSE << >>
        [] ~(Has(j, "columns") /\ Is("obj", j.obj["columns"])) -> << >>
        [] \E i \in DOMAIN schema[1] : \/ schema[1][i].obj["name"].str \notin DOMAIN columns
                                       \/ read(schema[1][i]) = << >> -> << >>
        [] OTHER ->
             LET named(name) == {i \in DOMAIN schema[1] : schema[1][i].obj["name"].str = name}
                 at(name) == CHOOSE i \in named(name) : \A k \in named(name) : k <= i
             IN  <<Object("schema" :> List(schema[1])
                          @@ "columns" :> Object([name \in {schema[1][i].obj["name"].str : i \in DOMAIN schema[1]} |->
                                                    read(schema[1][at(name)])[1]]))>>

-----------------------------------------------------------------------------
\* What each kind of part is read as: a scalar, a list of another kind, or a shape.
ScalarPart(as, v) ==
  CASE as = "fixed" -> <<v>>
    [] as = "text" -> IF Is("str", v) THEN <<v>> ELSE << >>
    [] as = "int" -> IF Is("num", v) /\ v.form = "int" THEN <<Canonical(v)>> ELSE << >>
    [] as = "number" -> IF Is("num", v) THEN <<Canonical(v)>> ELSE << >>
    [] as = "bool" -> IF Is("bool", v) THEN <<v>> ELSE << >>
    [] OTHER -> FrameSource(v)

ItemOf == [exprs |-> "expr", texts |-> "text", branches |-> "branch", orders |-> "order", aggs |-> "agg",
           pairs |-> "pair", steps |-> "step"]

ShapeOf(as, j) ==
  CASE ~Is("obj", j) -> << >>
    [] as = "expr" -> ExprShape(j)
    [] as = "cell" -> CellShape(j)
    [] as = "step" -> StepShape(j)
    [] as = "order" -> OrderShape(j)
    [] as = "agg" -> AggShape(j)
    [] as = "pair" -> PairShape(j)
    [] OTHER -> BranchShape(j)

Rewritten(as, j) == IF as = "expr" /\ Is("obj", j) THEN CanonicalExpr(j) ELSE <<j>>

\* f, with every value worked out once.
Settled(f) == f @@ << >>

RECURSIVE Computed(_, _)
Computed(as, j) ==
  CASE as \in {"fixed", "text", "int", "number", "bool", "frame"} -> ScalarPart(as, j)
    [] as \in DOMAIN ItemOf ->
         IF ~Is("arr", j) THEN << >>
         ELSE LET items == Joined([i \in DOMAIN j.arr |-> Computed(ItemOf[as], j.arr[i])])
              IN  IF Len(items) = Len(j.arr) THEN <<List(items)>> ELSE << >>
    [] OTHER ->
         LET canonical == Rewritten(as, j)
             shape == IF canonical = << >> THEN << >> ELSE ShapeOf(as, canonical[1])
             parts == IF shape = << >> THEN NoMembers
                      ELSE Settled([k \in DOMAIN shape[1].parts |->
                              IF shape[1].parts[k].found = << >> THEN << >>
                              ELSE Computed(shape[1].parts[k].as, shape[1].parts[k].found[1])])
         IN  IF shape = << >> \/ \E k \in DOMAIN parts : parts[k] = << >> THEN << >>
             ELSE <<Object((IF shape[1].tag = "" THEN NoMembers ELSE "$type" :> Str(shape[1].tag))
                           @@ [k \in DOMAIN parts |-> parts[k][1]])>>

-----------------------------------------------------------------------------
\* exprWalk: the expression nodes in the order they are walked, no further than the bound.
Nested(e, keys)    == Joined([i \in DOMAIN keys |-> IF Has(e, keys[i]) THEN <<e.obj[keys[i]]>> ELSE << >>])
ItemsOf(e, keys)   == Joined([i \in DOMAIN keys |-> IF Has(e, keys[i]) THEN e.obj[keys[i]].arr ELSE << >>])
Inner(e) ==
  IF TagOf(e) \in {"col", "param"} THEN << >>
  ELSE Nested(e, <<"expr", "left", "right", "else">>) \o ItemsOf(e, <<"exprs", "args", "items">>)
       \o Joined([i \in DOMAIN ItemsOf(e, <<"cases">>) |->
                        Nested(ItemsOf(e, <<"cases">>)[i], <<"when", "then">>)])

RECURSIVE Walk(_)
Walk(e) == <<e>> \o Joined([i \in DOMAIN Inner(e) |-> Walk(Inner(e)[i])])

TooLarge(e)  == Len(Walk(e)) > MaxExprNodes
WalkedTo(e)  == IF TooLarge(e) THEN SubSeq(Walk(e), 1, MaxExprNodes) ELSE Walk(e)
ReadsCol(e)  == \E i \in DOMAIN WalkedTo(e) : TagOf(WalkedTo(e)[i]) = "col"
ParamsOf(e)  ==
  {WalkedTo(e)[i].obj["name"].str : i \in {i \in DOMAIN WalkedTo(e) : TagOf(WalkedTo(e)[i]) = "param"}}
  \cup {WalkedTo(e)[i].obj["param"].str :
          i \in {i \in DOMAIN WalkedTo(e) : TagOf(WalkedTo(e)[i]) = "in" /\ Has(WalkedTo(e)[i], "param")}}
NamesBound(got) ==
  IF "params" \in DOMAIN got THEN {got["params"].arr[i].obj["name"].str : i \in DOMAIN got["params"].arr} ELSE {}

\* An expression binding has no row for a column to be read from.
ScalarExprRead(e, at) ==
  CASE e = << >> -> Fail(WrongType, at)
    [] ReadsCol(e[1]) -> Fail(WrongType, at)
    [] TooLarge(e[1]) -> Fail(OverLimit, at)
    [] OTHER -> Done(e[1])

ScalarExprPlan(j, at) == ScalarExprRead(Computed("expr", j), at)

\* checkPipelineExprBound names the step whose expression is too large.
ExprOf(step) == IF Has(step, "pred") THEN <<"pred">> ELSE IF Has(step, "expr") THEN <<"expr">> ELSE << >>
Large(step)  == \E i \in DOMAIN ExprOf(step) : TooLarge(step.obj[ExprOf(step)[i]])

PipelineRead(p, at) ==
  LET large == IF p = << >> THEN {} ELSE {i \in DOMAIN p[1].arr : Large(p[1].arr[i])}
  IN  CASE p = << >> -> Fail(WrongType, at)
        [] large # {} -> LET i == CHOOSE i \in large : \A k \in large : i <= k
                         IN  Fail(OverLimit, at \o <<Seg(i)>> \o ExprOf(p[1].arr[i]))
        [] OTHER -> Done(p[1])

PipelinePlan(j, at) == PipelineRead(Computed("steps", j), at)

\* A live source is kept as its binding; the data a State source carries is read for its
\* defects, unless it is an empty list or null.
FrameSourcePlan(j, at) ==
  LET frame   == FrameSource(Columnar(Payload(j)))
      carries == Has(j, "defaultValue") /\ j.obj["defaultValue"] \notin {Null, EmptyList}
  IN  IF TagOf(j) \in {"State", "Selection", "Query"}
      THEN [as |-> "same",
            jobs |-> <<Job("it", BindingOf(Loose), j, at)>>
                     \o (IF TagOf(j) = "State" /\ carries /\ frame = << >> THEN <<Refuse(WrongType, at)>> ELSE << >>)]
      ELSE IF frame = << >> THEN Fail(WrongType, at) ELSE Done(frame[1])
=============================================================================
