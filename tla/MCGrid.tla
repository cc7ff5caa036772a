------------------------------- MODULE MCGrid ------------------------------
(* A small grid: an int key, a decimal and a float column, two rows.        *)
EXTENDS GridLaws

CONSTANT WithRound   \* whether the decimal column may be rounded by a derive

Whole(v) == Cell("int", v)
Dec(v) == Cell("decimal", v)
Str(v) == Cell("string", v)

MCNames == <<"d", "f", "k", "s">>
NoUnits == [s \in {"m", "s"} |-> [dims |-> [d \in {"L", "T"} |-> IF (s = "m") = (d = "L") THEN 1 ELSE 0],
                                  num |-> 1, den |-> 1]]
Metre == [a \in {[symbol |-> "m", prefix |-> ""]} |-> 1]
Milli == [a \in {[symbol |-> "m", prefix |-> "m"]} |-> 1]
Second == [symbol |-> "s", prefix |-> ""]
MCUnits == {Dimensionless, Metre, Milli, [a \in DOMAIN Metre |-> 2], [a \in {Second} |-> -1], [a \in {Second} |-> 2],
            [a \in DOMAIN Metre \cup {Second} |-> IF a = Second THEN -2 ELSE 1],
            [a \in DOMAIN Milli \cup {Second} |-> -1], [a \in {[symbol |-> "[USD]", prefix |-> ""]} |-> 1]}
MCPrefix == [p \in {"", "m"} |-> IF p = "m" THEN -3 ELSE 0]

MCTable == Table(<<Entry("k", "int", <<>>), Entry("d", "decimal", <<Metre>>), Entry("f", "float", <<>>)>>,
                 <<Column("k", "int", <<Whole(1), Whole(2)>>),
                   Column("d", "decimal", <<Dec(3), Null>>),
                   Column("f", "float", <<Float(2), Float(3)>>)>>)

RowCell(col, v) == [col |-> col, value |-> v]
SetCellOp(col, row, v) == [edit |-> "setCell", col |-> col, row |-> row, value |-> v]
Transform(step) == [edit |-> "applyTransform", pipeline |-> <<step>>]
FilterBy(p) == [verb |-> "filter", pred |-> p]
DeriveAs(name, e) == [verb |-> "derive", name |-> name, expr |-> e]
By(col, dir) == <<[col |-> col, dir |-> dir]>>

CellOps == {SetCellOp("d", 0, Whole(1)), SetCellOp("k", 1, Whole(1)), SetCellOp("k", 0, Null),
            SetCellOp("d", 0, Float(1))}
ColumnOps == {[edit |-> "setColumn", column |-> Column("f", "string", <<Str(1), Null>>)],
              [edit |-> "insertColumn", index |-> 1, column |-> Column("s", "string", <<Str(2), Str(2)>>)],
              [edit |-> "removeColumn", name |-> "d"]}
RowOps == {[edit |-> "appendRows", rows |-> <<<<RowCell("k", Whole(3)), RowCell("d", Whole(1))>>>>],
           [edit |-> "appendRows", rows |-> <<<<RowCell("k", Whole(1))>>>>]}
Steps == {DeriveAs("f", Binary("sub", Lit(Whole(1)), Col("f"))), FilterBy(Binary("gt", Col("k"), Lit(Whole(1)))),
          [verb |-> "sort", by |-> By("f", "desc")]}
         \cup IF WithRound THEN {DeriveAs("d", Coalesce(<<Fn("round", <<Col("d")>>), Lit(Null)>>))} ELSE {}
MCOps == CellOps \cup ColumnOps \cup RowOps \cup {Transform(s) : s \in Steps}

Cols == {Col("k"), Col("d"), Col("f")}
Half == Rounding("halfEven", 0)
MCPreds == {Binary("lt", Col("k"), Lit(Whole(2))), Binary("ge", Col("d"), Col("k")),
            Binary("or", Binary("eq", Col("f"), Lit(Whole(1))), IsNullOf(Col("d"))),
            Binary("and", Binary("gt", Col("d"), Lit(Whole(1))), Binary("gt", Col("k"), Lit(Whole(1)))),
            InList(Col("k"), <<Lit(Null), Lit(Whole(1))>>)}
MCExprs == MCPreds \cup
    {Binary(op, a, b) : op \in {"add", "mul", "div", "mod"}, a \in Cols, b \in Cols} \cup
    {Fn(fn, <<a>>) : fn \in {"abs", "ln", "round"}, a \in Cols} \cup
    {Coalesce(<<a, b>>) : a, b \in Cols} \cup {CastTo("int", a) : a \in Cols} \cup
    {Rounded(Col("d"), Half), QuotientOf(Col("d"), Col("k"), Half), Fn("greatest", <<Col("k"), Col("d")>>),
     Fn("pow", <<Col("k"), Lit(Whole(2))>>), Fn("pow", <<Col("k"), Lit(Whole(-1))>>), Fn("pow", <<Col("k"), Col("k")>>),
     CaseOf(<<IsNullOf(Col("d")), Lit(Null), Col("d")>>), Lit(Null),
     CaseOf(<<IsNullOf(Col("d")), Lit(Float(1)), Col("k")>>),
     Convert(Col("d"), Milli), Fn("length", <<Col("f")>>)}

MCDerives == {DeriveAs("derived", e) : e \in MCExprs} \cup {DeriveAs("k", Col("d")), DeriveAs("f", Lit(Null))}
Agg(fn, of) == [name |-> "n", fn |-> fn, of |-> of]
AggFns == {"count", "countDistinct", "sum", "mean", "median", "min", "max", "first", "last"}
MCGroups == {[verb |-> "groupBy", keys |-> <<"k">>, aggs |-> <<Agg(fn, of)>>] : fn \in AggFns, of \in {"k", "d", "f"}}
Spec1(fn, of) == [partitionBy |-> <<"nowhere">>, orderBy |-> By("d", "desc"), fn |-> fn, of |-> of, as |-> "w"]
MCWindows == {[verb |-> "window", spec |-> Spec1(fn, of)] :
                 fn \in {"rank", "lag", "lead", "cumulSum", "rollingMean"}, of \in {"k", "d", "f"}}
MCPivots == {[verb |-> "pivot", spec |-> [index |-> <<"f">>, on |-> "k", values |-> of, agg |-> fn]] :
                fn \in {"sum", "max"}, of \in {"d", "f"}}
MCUnpivots == {[verb |-> "unpivot", idVars |-> <<"s">>, valueVars |-> vs] : vs \in {<<"k", "f">>, <<"d">>, <<"k", "d">>}}
              \cup {[verb |-> "unpivot", idVars |-> <<"f">>, valueVars |-> <<"k", "d">>]}

MCOrders == {By("f", "desc"), By("d", "asc"), By("k", "asc") \o By("d", "desc"), By("nowhere", "asc")}
MCOther == Table(<<Entry("k", "int", <<>>), Entry("x", "string", <<>>)>>,
                 <<Column("k", "int", <<Whole(1), Whole(1), Whole(4)>>), Column("x", "string", <<Str(1), Null, Str(2)>>)>>)
MCJoinOn == <<<<"k", "k">>>>

OpenRounding == [mode |-> "up", scale |-> 0, param |-> "q"]
MCJoins == {[verb |-> "join", source |-> MCOther, on |-> MCJoinOn, how |-> how] : how \in {"inner", "outer"}}
MCOthers == {[verb |-> "limit", n |-> 1, offset |-> 1], [verb |-> "limit", n |-> 2, offset |-> -1], [verb |-> "distinct"],
             [verb |-> "project", pairs |-> <<<<"d", "k">>, <<"k", "d">>>>],
             [verb |-> "union", source |-> MCTable], [verb |-> "except", source |-> MCTable],
             [verb |-> "intersect", source |-> [verb |-> "ref", name |-> "t"]]}
MCVerbs == MCDerives \cup MCGroups \cup MCWindows \cup MCPivots \cup MCUnpivots \cup MCJoins \cup MCOthers

MCTemplates == {<<FilterBy(Binary("eq", Col("k"), Param("p"))), DeriveAs("n", Binary("add", Col("k"), Param("p")))>>,
                <<FilterBy(InParam(Col("k"), "p")), FilterBy(Binary("gt", Rounded(Col("k"), OpenRounding), Lit(Whole(0))))>>,
                <<DeriveAs("n", QuotientOf(Col("k"), Lit(Whole(2)), OpenRounding)), FilterBy(Not(InParam(Param("q"), "p")))>>}
As(how, cells) == [how |-> how, cells |-> cells]
Setting(p, q) == [x \in {"p", "q"} |-> IF x = "p" THEN p ELSE q]
MCSettings == {Setting(As("scalar", <<Whole(1)>>), As("scalar", <<Whole(0)>>)),
               Setting(As("list", <<Whole(1), Null>>), As("scalar", <<Whole(1)>>)),
               Setting(As("unset", <<>>), As("unset", <<>>)),
               Setting(As("scalar", <<Null>>), As("scalar", <<Float(1)>>)),
               Setting(As("list", <<Whole(2)>>), As("list", <<Whole(1)>>)),
               Setting(As("undeclared", <<>>), As("scalar", <<Str(1)>>))}
Labelled(e) == [e EXCEPT !.meta = [m \in {"label", "x"} |-> 1]]
MCTargets == {<<Entry("f", "float", <<>>), Entry("k", "decimal", <<>>)>>,
              <<Entry("d", "decimal", <<Milli>>), Labelled(Entry("s", "string", <<>>)), Entry("k", "float", <<>>)>>,
              <<Labelled(Entry("k", "int", <<>>)), Entry("f", "decimal", <<Metre>>)>>}
=============================================================================
