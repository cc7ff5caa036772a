------------------------------ MODULE Tables -------------------------------
(***************************************************************************)
(* The pipeline of table transforms: verbs.go and the frames of            *)
(* evaluate.go, in src/internal/core/dataframe.                            *)
(*                                                                         *)
(* A table is a schema and its columns of cells; a frame is the same by    *)
(* rows.  A step takes a frame to a frame or fails with a code.            *)
(***************************************************************************)
EXTENDS Exprs

CONSTANT Names   \* the column names that are texts too, in ordinal order

Frame(cols, rows) == [code |-> "", cols |-> cols, rows |-> rows]
Fail(code) == [code |-> code]
Ok(f) == f.code = ""

\* the elements of s at the indices of S, in order
Ascending(S, n) == SelectSeq(Tuple([i \in 1..n |-> i]), LAMBDA i : i \in S)
AtIndices(s, S) == LET at == Ascending(S, Len(s)) IN Tuple([i \in DOMAIN at |-> s[at[i]]])
InsertIndex(s, i) == CHOOSE j \in DOMAIN s : s[j] = i    \* where i stands in s

\* rows are as many as the cells of the first column; a column that is absent, or
\* too short, reads as null
ToFrame(t) ==
    LET LastNamed(name) == LET at == {i \in DOMAIN t.columns : t.columns[i].name = name}
                           IN  IF at = {} THEN <<>> ELSE t.columns[CHOOSE i \in at : \A j \in at : j <= i].cells
        CellAt(name, r) == LET cells == LastNamed(name) IN IF r \in DOMAIN cells THEN cells[r] ELSE Null
    IN  Frame(t.schema, Tuple([r \in 1..RowCount(t) |->
                            Tuple([i \in DOMAIN t.schema |-> CellAt(t.schema[i].name, r)])]))

ColumnOf(f, i) == Tuple([r \in DOMAIN f.rows |-> f.rows[r][i]])
OfFrame(f) == Table(f.cols, Tuple([i \in DOMAIN f.cols |->
                                     Column(f.cols[i].name, f.cols[i].type, ColumnOf(f, i))]))

\* the cells of a row at some columns, and the rows that come first with their key
Pick(row, at) == Tuple([j \in DOMAIN at |-> row[at[j]]])
Firsts(keys) == {i \in DOMAIN keys : \A j \in 1..(i - 1) : keys[j] # keys[i]}

\* the first name of a list that is no column
Unknown(cols, names) == \E i \in DOMAIN names : ~HasCol(cols, names[i])
Indices(cols, names) == Tuple([i \in DOMAIN names |-> ColIndex(cols, names[i])])

-----------------------------------------------------------------------------
(* Rows and columns.                                                       *)

Computed(f, e) == Tuple([r \in DOMAIN f.rows |-> EvalExpr(f.cols, f.rows[r], e)])

RowsWhere(f, cells) ==
    IF AnyFailed(cells) THEN Fail(FirstFailure(cells).k)
    ELSE Frame(f.cols, AtIndices(f.rows, {r \in DOMAIN f.rows : IsTrue(cells[r])}))

EvalFilter(f, written) ==
    LET Where(pred) == IF pred.ok THEN RowsWhere(f, Computed(f, pred.expr)) ELSE Fail("UNIT_MISMATCH")
    IN  Where(ResolveUnits(f.cols, written))

\* pairs of a source column and an output name
EvalProject(f, pairs) ==
    LET from == [i \in DOMAIN pairs |-> pairs[i][1]]
        to   == [i \in DOMAIN pairs |-> pairs[i][2]]
        at   == Indices(f.cols, from)
    IN  CASE Unknown(f.cols, from) -> Fail("UNKNOWN_COLUMN")
          [] Repeats(to) -> Fail("TYPE_ERROR")
          [] OTHER -> Frame([i \in DOMAIN at |-> [f.cols[at[i]] EXCEPT !.name = to[i]]],
                            [r \in DOMAIN f.rows |-> Pick(f.rows[r], at)])

\* a derived column replaces the column of its name, metadata included, or is last
WithDerived(f, name, unit, dt, cells) ==
    LET ty    == ColumnTypeBy(dt, cells)
        entry == Entry(name, ty, unit)
        i     == ColIndex(f.cols, name)
    IN  CASE dt = "refused" -> Fail("TYPE_ERROR")
          [] AnyFailed(cells) -> Fail(FirstFailure(cells).k)
          [] ty = "none" -> Fail("TYPE_ERROR")
          [] i # 0 -> Frame([f.cols EXCEPT ![i] = entry],
                            Tuple([r \in DOMAIN f.rows |-> [f.rows[r] EXCEPT ![i] = cells[r]]]))
          [] OTHER -> Frame(Append(f.cols, entry), Tuple([r \in DOMAIN f.rows |-> Append(f.rows[r], cells[r])]))

EvalDerive(f, name, written) ==
    LET Derived(resolved) ==
            IF ~resolved.ok THEN Fail("UNIT_MISMATCH")
            ELSE WithDerived(f, name, resolved.unit, DeriveTyping(f.cols, resolved.expr),
                             Computed(f, resolved.expr))
    IN  Derived(ResolveUnits(f.cols, written))

\* a frame of computed rows: a row that holds a failure fails it
Gathered(cols, rows) ==
    LET bad == {g \in DOMAIN rows : AnyFailed(rows[g])}
    IN  IF bad = {} THEN Frame(cols, rows) ELSE Fail(FirstFailure(rows[CHOOSE g \in bad : TRUE]).k)

AggregateUnit(fn, unit) == IF fn \in {"count", "countDistinct"} THEN <<>> ELSE unit

\* the groups in the order of their first rows; an aggregate has a name, a
\* function and the column it is of
EvalGroupBy(f, keys, aggs) ==
    LET at == Indices(f.cols, keys)
        of == [i \in DOMAIN aggs |-> aggs[i].of]
        key == Tuple([r \in DOMAIN f.rows |-> RowKey(Pick(f.rows[r], at))])
        first == Ascending(Firsts(key), Len(key))
        Members(g) == {r \in DOMAIN f.rows : key[r] = key[first[g]]}
        cols == [i \in DOMAIN at |-> f.cols[at[i]]]
                \o [i \in DOMAIN aggs |-> Entry(aggs[i].name, AggType(aggs[i].fn, ColType(f.cols, of[i])),
                                                AggregateUnit(aggs[i].fn, ColUnit(f.cols, of[i])))]
        Value(a, g) == AggCells(a.fn, ColType(f.cols, a.of),
                                AtIndices(ColumnOf(f, ColIndex(f.cols, a.of)), Members(g)))
        rows == Tuple([g \in DOMAIN first |->
                    Pick(f.rows[first[g]], at) \o [i \in DOMAIN aggs |-> Value(aggs[i], g)]])
    IN  CASE Unknown(f.cols, keys \o of) -> Fail("UNKNOWN_COLUMN")
          [] Repeats(keys \o [i \in DOMAIN aggs |-> aggs[i].name]) -> Fail("TYPE_ERROR")
          [] OTHER -> Gathered(cols, rows)

\* nulls last in either direction; a key that is no column, or two cells that do
\* not compare, leave the order to the next key
KeyCompare(cols, key, r1, r2) ==
    LET a == r1[ColIndex(cols, key.col)]
        b == r2[ColIndex(cols, key.col)]
        c == CompareCells(a, b)
    IN  CASE ~HasCol(cols, key.col) -> 0
          [] IsNull(a) /\ IsNull(b) -> 0
          [] IsNull(a) -> 1
          [] IsNull(b) -> -1
          [] c = Incomparable -> 0
          [] OTHER -> IF key.dir = "asc" THEN c ELSE -c

RowKeyCompare(cols, by, r1, r2) ==
    FoldLeft(LAMBDA c, key : IF c # 0 THEN c ELSE KeyCompare(cols, key, r1, r2), 0, by)

\* a stable insertion sort, as sort.SliceStable orders a short slice
StableSort(Less(_, _), s) ==
    LET Insert(acc, r) ==
            LET after == {k \in 0..Len(acc) : \A p \in (k + 1)..Len(acc) : Less(r, acc[p])}
                k     == CHOOSE i \in after : \A j \in after : i <= j
            IN  SubSeq(acc, 1, k) \o <<r>> \o SubSeq(acc, k + 1, Len(acc))
    IN  FoldLeft(Insert, <<>>, s)

SortFromTheEnd(f, by) ==
    Frame(f.cols, StableSort(LAMBDA r1, r2 : RowKeyCompare(f.cols, by, r1, r2) < 0, Reverse(f.rows)))
EvalSort(f, by) == Frame(f.cols, StableSort(LAMBDA r1, r2 : RowKeyCompare(f.cols, by, r1, r2) < 0, f.rows))

RowKeys(f) == Tuple([r \in DOMAIN f.rows |-> RowKey(f.rows[r])])
EvalDistinct(f) == Frame(f.cols, AtIndices(f.rows, Firsts(RowKeys(f))))

EvalLimit(f, n, offset) ==
    LET start == ClampInt(offset, 0, Len(f.rows))
        end   == ClampInt(start + ClampInt(n, 0, n), start, Len(f.rows))
    IN  Frame(f.cols, SubSeq(f.rows, start + 1, end))

-----------------------------------------------------------------------------
(* Two frames.                                                             *)

Nulls(cols) == [i \in DOMAIN cols |-> Null]
UnitsClash(a, b) == a # <<>> /\ b # <<>> /\ a # b

KeepsLeft(how) == how \in {"left", "outer"}
KeepsRightOnly(how) == how = "right"
KeepsRight(how) == how \in {"right", "outer"}

\* on: pairs of a left and a right column
EvalJoin(f, right, on, how) ==
    LET lefts  == [i \in DOMAIN on |-> on[i][1]]
        rights == [i \in DOMAIN on |-> on[i][2]]
        li == Indices(f.cols, lefts)
        ri == Indices(right.cols, rights)
        Matches(lr, rr) == \A k \in DOMAIN on : CellEq(lr[li[k]], rr[ri[k]])
        Renamed(e) == IF HasCol(f.cols, e.name) THEN [e EXCEPT !.name = e.name \o "_right"] ELSE e
        cols == f.cols \o [i \in DOMAIN right.cols |-> Renamed(right.cols[i])]
        OfLeft(lr) ==
            LET found == SelectSeq(right.rows, LAMBDA rr : Matches(lr, rr))
            IN  IF found = <<>> THEN IF KeepsLeft(how) THEN <<lr \o Nulls(right.cols)>> ELSE <<>>
                ELSE [i \in DOMAIN found |-> lr \o found[i]]
        lonely == IF KeepsRight(how)
                  THEN SelectSeq(right.rows, LAMBDA rr : \A l \in DOMAIN f.rows : ~Matches(f.rows[l], rr))
                  ELSE <<>>
    IN  CASE Unknown(f.cols, lefts) \/ Unknown(right.cols, rights) -> Fail("UNKNOWN_COLUMN")
          [] \E k \in DOMAIN on : UnitsClash(f.cols[li[k]].unit, right.cols[ri[k]].unit) -> Fail("UNIT_MISMATCH")
          [] OTHER -> Frame(cols, FlattenSeq([l \in DOMAIN f.rows |-> OfLeft(f.rows[l])])
                                  \o [i \in DOMAIN lonely |-> Nulls(f.cols) \o lonely[i]])

Alike(f, other) == NamesOf(f.cols) = NamesOf(other.cols)
UnitsDisagree(f, other) == \E i \in DOMAIN f.cols : UnitsClash(f.cols[i].unit, other.cols[i].unit)

EvalUnion(f, other) ==
    LET Both(i) == IF f.cols[i].unit = <<>> THEN [f.cols[i] EXCEPT !.unit = other.cols[i].unit] ELSE f.cols[i]
    IN  CASE ~Alike(f, other) -> Fail("JOIN_ERROR")
          [] UnitsDisagree(f, other) -> Fail("UNIT_MISMATCH")
          [] OTHER -> Frame([i \in DOMAIN f.cols |-> Both(i)], f.rows \o other.rows)

EvalSetOp(keepPresent, f, other) ==
    LET present == ToSet(RowKeys(other))
        keys == RowKeys(f)
    IN  CASE ~Alike(f, other) -> Fail("JOIN_ERROR")
          [] UnitsDisagree(f, other) -> Fail("UNIT_MISMATCH")
          [] OTHER -> Frame(f.cols, AtIndices(f.rows, {r \in DOMAIN f.rows :
                                        (keys[r] \in present) = keepPresent}))

-----------------------------------------------------------------------------
(* Windows and pivots.                                                     *)

RunningTotal(upTo, ofDecimal) ==
    IF ofDecimal THEN Cell("decimal", SumParts(SelectSeq(upTo, IsExact)))
    ELSE Float(SumParts(SelectSeq(upTo, IsNum)))

\* spec: partitionBy, orderBy, fn, of, as.  Partition columns that do not exist
\* are skipped, and rowNumber and rank need no column to be of
WindowOrder(f, spec, i) ==
    LET part == AtIndices(Indices(f.cols, spec.partitionBy),
                          {j \in DOMAIN spec.partitionBy : HasCol(f.cols, spec.partitionBy[j])})
        KeyOf(r) == RowKey(Pick(f.rows[r], part))
        members == Ascending({r \in DOMAIN f.rows : KeyOf(r) = KeyOf(i)}, Len(f.rows))
    IN  StableSort(LAMBDA r, s : RowKeyCompare(f.cols, spec.orderBy, f.rows[r], f.rows[s]) < 0, members)

\* the cell of the row at a place of its partition, whose rows sorted lists
WindowCell(f, spec, sorted, at) ==
    LET Tied(p) == RowKeyCompare(f.cols, spec.orderBy, f.rows[sorted[p - 1]], f.rows[sorted[p]]) = 0
        Value(p) == f.rows[sorted[p]][ColIndex(f.cols, spec.of)]
        upTo == Tuple([p \in 1..at |-> Value(p)])
        ofDecimal == HasCol(f.cols, spec.of) /\ ColType(f.cols, spec.of) = "decimal"
        rolling == SelectSeq(SubSeq(upTo, ClampInt(at - 2, 1, at), at),
                             LAMBDA c : c.k \in {"int", "float", "decimal"})
    IN  CASE spec.fn = "rowNumber" -> Cell("int", at)
          [] spec.fn = "rank" -> Cell("int", 1 + Cardinality({p \in 2..at : ~Tied(p)}))
          [] spec.fn = "lag" -> IF at = 1 THEN Null ELSE Value(at - 1)
          [] spec.fn = "lead" -> IF at = Len(sorted) THEN Null ELSE Value(at + 1)
          [] spec.fn = "cumulSum" -> RunningTotal(upTo, ofDecimal)
          [] spec.fn = "rollingMean" -> FloatAgg("mean", rolling)

WindowType(f, spec) ==
    CASE spec.fn \in {"rowNumber", "rank"} -> "int"
      [] spec.fn = "cumulSum" -> IF ColType(f.cols, spec.of) = "decimal" THEN "decimal" ELSE "float"
      [] spec.fn = "rollingMean" -> "float"
      [] OTHER -> ColType(f.cols, spec.of)

EvalWindow(f, spec) ==
    LET ranks == spec.fn \in {"rowNumber", "rank"}
        CellOf(sorted, r) == WindowCell(f, spec, sorted, InsertIndex(sorted, r))
        unit  == IF ranks THEN <<>> ELSE ColUnit(f.cols, spec.of)
    IN  IF ~ranks /\ ~HasCol(f.cols, spec.of) THEN Fail("UNKNOWN_COLUMN")
        ELSE Frame(Append(f.cols, Entry(spec.as, WindowType(f, spec), unit)),
                   Tuple([r \in DOMAIN f.rows |-> Append(f.rows[r], CellOf(WindowOrder(f, spec, r), r))]))

\* the name a text is, and the text a name is
TextName(text) == IF text \in DOMAIN Names THEN Names[text] ELSE ToString(text)
NameText(name) == CHOOSE i \in DOMAIN Names : Names[i] = name

\* spec: index, on, values, agg.  One column for every value of on, by its text
EvalPivot(f, spec) ==
    LET at == Indices(f.cols, spec.index)
        on == ColumnOf(f, ColIndex(f.cols, spec.on))
        vals == ColumnOf(f, ColIndex(f.cols, spec.values))
        present == AtIndices(on, {r \in Firsts(RowKey(on)) : ~IsNull(on[r])})
        onValues == StableSort(LAMBDA a, b : CellText(a) < CellText(b), present)
        names == Tuple([i \in DOMAIN onValues |-> TextName(CellText(onValues[i]))])
        key == Tuple([r \in DOMAIN f.rows |-> RowKey(Pick(f.rows[r], at))])
        first == Ascending(Firsts(key), Len(key))
        ty == ColType(f.cols, spec.values)
        unit == AggregateUnit(spec.agg, ColUnit(f.cols, spec.values))
        Value(g, ov) == AggCells(spec.agg, ty,
            AtIndices(vals, {r \in DOMAIN f.rows : key[r] = key[first[g]] /\ CellEq(on[r], ov)}))
        rows == Tuple([g \in DOMAIN first |-> Pick(f.rows[first[g]], at)
                                        \o [i \in DOMAIN onValues |-> Value(g, onValues[i])]])
    IN  CASE Unknown(f.cols, spec.index \o <<spec.on, spec.values>>) -> Fail("UNKNOWN_COLUMN")
          [] Repeats(spec.index \o names) -> Fail("TYPE_ERROR")
          [] OTHER -> Gathered([i \in DOMAIN at |-> f.cols[at[i]]]
                            \o [i \in DOMAIN names |-> Entry(names[i], AggType(spec.agg, ty), unit)], rows)

\* the unit of the value column: the one that every value column has
SharedUnit(cols, names) ==
    LET units == {ColUnit(cols, names[i]) : i \in DOMAIN names}
    IN  IF Cardinality(units) = 1 THEN CHOOSE u \in units : TRUE ELSE <<>>

EvalUnpivot(f, idVars, valueVars) ==
    LET ids == Indices(f.cols, idVars)
        at  == Indices(f.cols, valueVars)
        dt  == UnpivotTyping([i \in DOMAIN at |-> f.cols[at[i]].type])
        rows == FlattenSeq([r \in DOMAIN f.rows |-> [i \in DOMAIN at |->
                    Pick(f.rows[r], ids) \o <<Cell("string", NameText(valueVars[i])), f.rows[r][at[i]]>>]])
        ty  == ColumnTypeBy(dt, [i \in DOMAIN rows |-> Last(rows[i])])
    IN  CASE Unknown(f.cols, idVars \o valueVars) -> Fail("UNKNOWN_COLUMN")
          [] Repeats(idVars \o <<"variable", "value">>) -> Fail("TYPE_ERROR")
          [] ty = "none" -> Fail("TYPE_ERROR")
          [] OTHER -> Frame([i \in DOMAIN ids |-> f.cols[ids[i]]]
                            \o <<Entry("variable", "string", <<>>),
                                 Entry("value", ty, SharedUnit(f.cols, valueVars))>>, rows)

-----------------------------------------------------------------------------
(* The pipeline: the first step that fails fails it.                       *)

\* a source is the table it embeds, or the name of one, which nothing resolves
Ref(name) == [verb |-> "ref", name |-> name]
IsRef(source) == "verb" \in DOMAIN source

EvalStep(f, t) ==
    CASE t.verb = "filter" -> EvalFilter(f, t.pred)
      [] t.verb = "project" -> EvalProject(f, t.pairs)
      [] t.verb = "derive" -> EvalDerive(f, t.name, t.expr)
      [] t.verb = "groupBy" -> EvalGroupBy(f, t.keys, t.aggs)
      [] t.verb = "sort" -> EvalSort(f, t.by)
      [] t.verb = "distinct" -> EvalDistinct(f)
      [] t.verb = "limit" -> EvalLimit(f, t.n, t.offset)
      [] t.verb = "window" -> EvalWindow(f, t.spec)
      [] t.verb = "pivot" -> EvalPivot(f, t.spec)
      [] t.verb = "unpivot" -> EvalUnpivot(f, t.idVars, t.valueVars)
      [] t.verb \in {"join", "union", "intersect", "except"} /\ IsRef(t.source) -> Fail("UNRESOLVED_SOURCE")
      [] t.verb = "join" -> EvalJoin(f, ToFrame(t.source), t.on, t.how)
      [] t.verb = "union" -> EvalUnion(f, ToFrame(t.source))
      [] t.verb = "intersect" -> EvalSetOp(TRUE, f, ToFrame(t.source))
      [] t.verb = "except" -> EvalSetOp(FALSE, f, ToFrame(t.source))

EvalFrame(pipeline, f) == FoldLeft(LAMBDA acc, t : IF Ok(acc) THEN EvalStep(acc, t) ELSE acc, f, pipeline)

\* parameters: a filter that reads an unbound choice is pruned, the rest is bound
BindParams(pipeline, env, unbound) ==
    LET kept == SelectSeq(pipeline, LAMBDA t : ~(t.verb = "filter" /\ ParamNames(t.pred) \cap unbound # {}))
        Bind(t) == CASE t.verb = "filter" -> [t EXCEPT !.pred = SubstExpr(@, env)]
                     [] t.verb = "derive" -> [t EXCEPT !.expr = SubstExpr(@, env)]
                     [] OTHER -> t
    IN  [i \in DOMAIN kept |-> Bind(kept[i])]

SubstituteListParams(pipeline, lists) ==
    LET Bind(t) == CASE t.verb = "filter" -> [t EXCEPT !.pred = SubstListExpr(@, lists)]
                     [] t.verb = "derive" -> [t EXCEPT !.expr = SubstListExpr(@, lists)]
                     [] OTHER -> t
    IN  [i \in DOMAIN pipeline |-> Bind(pipeline[i])]
=============================================================================
