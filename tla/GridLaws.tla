------------------------------ MODULE GridLaws -----------------------------
(***************************************************************************)
(* What must hold of every table a history of grid edits reaches: of the   *)
(* verbs of the pipeline, whose laws relate one verb to another, of        *)
(* parameters and of units.                                                *)
(***************************************************************************)
EXTENDS Schemas, Tables

CONSTANTS Verbs,      \* steps of a pipeline
          Preds,      \* boolean expressions over the columns
          Orders,     \* sort keys
          Other,      \* a table to join, and to subtract from one of its columns
          JoinOn,     \* pairs of columns
          Templates,  \* pipelines with parameters
          Settings    \* what a host makes of each parameter: how it is set
                      \* ("scalar", "list", "unset", or "undeclared") and the cells

\* EvalPipeline of Grid, on this table
ApplyTransform(pipeline, t) ==
    LET Installed(out) == IF Ok(out) THEN Edited(OfFrame(out)) ELSE EditRefused("transformRejected")
    IN  Installed(EvalFrame(pipeline, ToFrame(t)))

frame == ToFrame(table)
Count(f, row) == Cardinality({r \in DOMAIN f.rows : f.rows[r] = row})
SameRows(f, g) == /\ Len(f.rows) = Len(g.rows)
                  /\ \A r \in DOMAIN f.rows : Count(f, f.rows[r]) = Count(g, f.rows[r])

-----------------------------------------------------------------------------
(* Types and shapes.                                                       *)

WellTyped(f) == \A i \in DOMAIN f.cols, r \in DOMAIN f.rows : Fits(f.cols[i].type, f.rows[r][i])

\* typing.go: the type of a column "IS its type on every frame": whatever a verb
\* computes, each cell widens into the type of the column it lands in.  The code
\* departs from it in two places, which are spared.  A union compares the names
\* and the units of its columns and not their types: it is held to this only
\* where they are the same.  And round, floor and ceil of an int give a float,
\* also of an int in a decimal column, which the typer says stays a decimal.
SameTypes(t) == t.verb = "union" => [i \in DOMAIN frame.cols |-> frame.cols[i].type]
                                    = [i \in DOMAIN t.source.schema |-> t.source.schema[i].type]

RECURSIVE RoundsAnInt(_)
RoundsAnInt(e) ==
    \/ \E i \in DOMAIN e.args : RoundsAnInt(e.args[i])
    \/ /\ e.op = "fn" /\ e.x \in {"round", "floor", "ceil"} /\ TypingOf(frame.cols, e) = "decimal"
       /\ \E r \in DOMAIN frame.rows : EvalExpr(frame.cols, frame.rows[r], e.args[1]).k = "int"

TypesHold ==
    WellTyped(frame) =>
        \A t \in Verbs : \A out \in {EvalStep(frame, t)} :
            Ok(out) /\ SameTypes(t) /\ ~(t.verb = "derive" /\ RoundsAnInt(t.expr)) => WellTyped(out)

TypedByCells(t) == \/ t.verb = "derive" /\ DeriveTyping(frame.cols, ResolveUnits(frame.cols, t.expr).expr) = "byCells"
                   \/ t.verb = "unpivot" /\ UnpivotTyping([i \in DOMAIN t.valueVars |->
                                                              ColType(frame.cols, t.valueVars[i])]) = "byCells"
                   \/ t.verb = "pivot"

\* The columns a verb gives do not depend on the rows it meets: on no rows at all
\* it has the same columns, wherever the schema decides their names and types.
SchemaIgnoresRows ==
    \A t \in Verbs :
        \A full \in {EvalStep(frame, t)}, empty \in {EvalStep(Frame(frame.cols, <<>>), t)} :
            Ok(full) => TypedByCells(t) \/ (Ok(empty) /\ empty.cols = full.cols)


-----------------------------------------------------------------------------
(* The verbs.                                                              *)

\* Three-valued logic: a row is kept by a predicate, by its negation, or by the
\* test that it is null, and by exactly one of them.
FilterPartitions ==
    \A p \in Preds :
        \A kept \in {[q \in {p, Not(p), IsNullOf(p)} |-> EvalFilter(frame, q)]} :
            Ok(kept[p]) => \A r \in DOMAIN frame.rows :
                Count(frame, frame.rows[r]) = Count(kept[p], frame.rows[r])
                    + Count(kept[Not(p)], frame.rows[r]) + Count(kept[IsNullOf(p)], frame.rows[r])

\* A left join keeps every left row and an outer join every row of both sides: each
\* is the inner join and the rows that found no partner, padded with nulls.
JoinsKeepRows ==
    LET Join(how) == EvalJoin(frame, ToFrame(Other), JoinOn, how)
        width == Len(frame.cols)
        LeftOf(f) == {SubSeq(f.rows[r], 1, width) : r \in DOMAIN f.rows}
        RightOf(f) == {SubSeq(f.rows[r], width + 1, Len(f.cols)) : r \in DOMAIN f.rows}
    IN  Ok(Join("inner")) =>
          /\ \A r \in DOMAIN frame.rows : frame.rows[r] \in LeftOf(Join("left"))
          /\ \A r \in DOMAIN Other.columns[1].cells : ToFrame(Other).rows[r] \in RightOf(Join("right"))
          /\ Len(Join("outer").rows) =
                Len(Join("left").rows) + Len(Join("right").rows) - Len(Join("inner").rows)
          /\ \A r \in DOMAIN Join("inner").rows : Count(Join("outer"), Join("inner").rows[r])
                                                  = Count(Join("inner"), Join("inner").rows[r])

\* Intersect and except of one source partition the rows, and the except of a
\* union with the source leaves nothing of the source.
SetOpsPartition ==
    \A r \in DOMAIN frame.rows :
        LET some == Frame(frame.cols, <<frame.rows[r]>>)
            both == EvalSetOp(TRUE, frame, some)
            rest == EvalSetOp(FALSE, frame, some)
        IN  /\ SameRows(frame, EvalUnion(both, rest))
            /\ SameRows(rest, EvalSetOp(FALSE, EvalUnion(frame, some), some))
            /\ Len(EvalDistinct(both).rows) = 1

\* No verb that chooses among rows or pairs them drops one or invents one: a
\* filter, a join and a set operation each account for every row they were given.
RowsAreKept == FilterPartitions /\ JoinsKeepRows /\ SetOpsPartition

\* Sorting is a stable permutation with nulls last, and the rowNumber window in the
\* same order numbers the sorted rows 1, 2, 3: the two verbs break ties alike.
SortAgreesWithRowNumber ==
    \A by \in Orders :
        LET spec == [partitionBy |-> <<>>, orderBy |-> by, fn |-> "rowNumber", of |-> "", as |-> "n"]
            sorted == EvalSort(frame, by)
            numbered == EvalSort(EvalWindow(frame, spec), by)
        IN  /\ SameRows(frame, sorted)
            /\ \A r \in DOMAIN numbered.rows : Last(numbered.rows[r]) = Cell("int", r)
            /\ \A r \in 2..Len(sorted.rows) :
                  RowKeyCompare(frame.cols, by, sorted.rows[r - 1], sorted.rows[r]) <= 0

\* Grouping by columns and projecting to them then dropping repeats find the same
\* rows in the same order, and the counts of the groups add up to the rows.
GroupsAreDistincts ==
    \A i, j \in DOMAIN frame.cols :
        LET key == frame.cols[i].name
            of  == frame.cols[j].name
            grouped  == EvalGroupBy(frame, <<key>>, <<[name |-> "n", fn |-> "count", of |-> of]>>)
            distinct == EvalDistinct(EvalProject(frame, <<<<key, key>>>>))
            present  == SelectSeq(ColumnOf(frame, j), LAMBDA c : ~IsNull(c))
        IN  Ok(grouped) =>
              /\ [g \in DOMAIN grouped.rows |-> <<grouped.rows[g][1]>>] = distinct.rows
              /\ FoldLeft(LAMBDA s, row : s + row[2].v, 0, grouped.rows) = Len(present)

\* Pivoting counts the same cells as grouping by the index and the pivoted column:
\* nothing is counted twice and nothing is lost but the null on-values.
PivotCountsOnce ==
    \A i, j \in DOMAIN frame.cols : i # j =>
        LET pivot == EvalPivot(frame, [index |-> <<frame.cols[i].name>>, on |-> frame.cols[j].name,
                                       values |-> frame.cols[i].name, agg |-> "count"])
            counted == {r \in DOMAIN frame.rows : ~IsNull(frame.rows[r][i]) /\ ~IsNull(frame.rows[r][j])}
        IN  Ok(pivot) => FoldLeft(LAMBDA s, row : s + FoldLeft(LAMBDA t, c : t + c.v, 0, Tail(row)),
                                  0, pivot.rows) = Cardinality(counted)

\* A running total ends at the sum of its group: the cumulSum of the last row of a
\* partition is what groupBy sums, unless there was nothing to sum.
TotalsAgree ==
    \A i, j \in DOMAIN frame.cols :
        LET key == frame.cols[i].name
            of  == frame.cols[j].name
            summed  == EvalGroupBy(frame, <<key>>, <<[name |-> "n", fn |-> "sum", of |-> of]>>)
            running == EvalWindow(frame, [partitionBy |-> <<key>>, orderBy |-> <<>>, fn |-> "cumulSum",
                                          of |-> of, as |-> "n"])
            LastOfGroup(g) == {r \in DOMAIN frame.rows :
                                  /\ RowKey(<<frame.rows[r][i]>>) = RowKey(<<summed.rows[g][1]>>)
                                  /\ \A q \in DOMAIN frame.rows : q > r =>
                                        RowKey(<<frame.rows[q][i]>>) # RowKey(<<frame.rows[r][i]>>)}
        IN  Ok(summed) => \A g \in DOMAIN summed.rows : \A r \in LastOfGroup(g) :
                Last(summed.rows[g]) # Null => Parts(Last(summed.rows[g])) = Parts(Last(running.rows[r]))

\* Converting in two steps is converting in one, also back to where it came from: the
\* scale of a quotient is one product over signed powers of prefixes and symbols.
ConversionsCompose ==
    \A u \in SomeUnits, v \in SomeUnits \cup StatedUnits :
        LET there == ConversionFactor(u, v)
        IN  there # NoFactor =>
                \A x \in SomeUnits :
                    LET on == ConversionFactor(v, x)
                    IN  on # NoFactor => ConversionFactor(u, x) = TimesRatio(there, on)

\* What can be computed in two ways comes out the same: the verbs that gather rows
\* agree on what they gather, each by its own loop, so do the two that order them,
\* and so do conversions.
VerbsAgree == SortAgreesWithRowNumber /\ GroupsAreDistincts /\ PivotCountsOnce /\ TotalsAgree /\ ConversionsCompose

\* where an expression reads a parameter: its name, and what it must be set to
RECURSIVE Reads(_)
Reads(e) ==
    LET Reading(name, as) == [name |-> name, as |-> as]
        own == CASE e.op = "param" -> {Reading(e.x, "scalar")}
                 [] e.op = "inParam" -> {Reading(e.x, "list")}
                 [] e.op \in {"quotient", "rounded"} -> {Reading(e.x.param, "scale")}
                 [] OTHER -> {}
    IN  {r \in own : r.name # ""} \cup UNION {Reads(e.args[i]) : i \in DOMAIN e.args}

Supplies(set, as) == \/ set.how = as
                     \/ as = "scale" /\ set.how = "scalar" /\ set.cells[1].k = "int"

ReadBy(t) == CASE t.verb = "filter" -> Reads(t.pred) [] t.verb = "derive" -> Reads(t.expr)

\* resolveTransformParams, and the binding in the order BindParams asks for
Bound(p, s) ==
    LET Of(how) == {x \in DOMAIN s : s[x].how = how}
    IN  BindParams(SubstituteListParams(p, [x \in Of("list") |-> s[x].cells]),
                   [x \in Of("scalar") |-> s[x].cells[1]], Of("unset"))

\* Of a template a filter goes if and only if it reads a choice the user has not
\* made, at any depth and in the scale of a rounding too.  What stays reads just
\* the parameters set to the wrong kind, undeclared, or unset in a derive, and
\* none is taken for another kind: on any row it is refused as unbound while one
\* that reads none is not.
ParamsBindStrictly ==
    \A p \in Templates, s \in Settings : \A ready \in {Bound(p, s)} :
        LET Unset(t) == t.verb = "filter" /\ \E r \in ReadBy(t) : s[r.name].how = "unset"
            kept == SelectSeq(p, LAMBDA t : ~Unset(t))
            Open(t) == {r \in ReadBy(t) : ~Supplies(s[r.name], r.as)}
        IN  /\ Len(ready) = Len(kept)
            /\ \A i \in DOMAIN kept :
                 /\ ready[i].verb = kept[i].verb /\ ReadBy(ready[i]) = Open(kept[i])
                 /\ frame.rows # <<>> =>
                       (EvalStep(frame, ready[i]).code = "UNBOUND_PARAM" <=> Open(kept[i]) # {})
=============================================================================
