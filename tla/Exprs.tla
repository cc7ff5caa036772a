------------------------------- MODULE Exprs -------------------------------
(***************************************************************************)
(* Column expressions: their evaluation on a row and their units           *)
(* (evaluate.go), their static types (typing.go), and the binding of       *)
(* parameters (params.go), all in src/internal/core/dataframe.             *)
(*                                                                         *)
(* An expression is an operator, what the operator is about (a column, a   *)
(* cell, a function, a type, a rounding, a unit), and its operands in the  *)
(* order they are evaluated in.  The operands of a case are its whens and  *)
(* thens in turn, then its else.                                           *)
(***************************************************************************)
EXTENDS Cells

Expr(op, x, args) == [op |-> op, x |-> x, args |-> args]
Col(name)       == Expr("col", name, <<>>)
Lit(c)          == Expr("lit", c, <<>>)
Param(name)     == Expr("param", name, <<>>)
Binary(o, l, r) == Expr("binary", o, <<l, r>>)
Not(e)          == Expr("not", "", <<e>>)
IsNullOf(e)     == Expr("isNull", "", <<e>>)
Coalesce(es)    == Expr("coalesce", "", es)
CaseOf(arms)    == Expr("case", "", arms)
CastTo(ty, e)   == Expr("cast", ty, <<e>>)
Fn(fn, es)      == Expr("fn", fn, es)
InList(e, items) == Expr("inList", "", <<e>> \o items)
InParam(e, name) == Expr("inParam", name, <<e>>)
QuotientOf(a, b, r) == Expr("quotient", r, <<a, b>>)
Rounded(e, r)   == Expr("rounded", r, <<e>>)
Convert(e, u)   == Expr("convert", u, <<e>>)
Rounding(mode, scale) == [mode |-> mode, scale |-> scale, param |-> ""]

ColType(cols, name) == cols[ColIndex(cols, name)].type
ColUnit(cols, name) == IF HasCol(cols, name) THEN cols[ColIndex(cols, name)].unit ELSE <<>>

-----------------------------------------------------------------------------
(* Units: the unit of an expression and the expression with its            *)
(* conversions written out, or the refusal of a mismatch.                  *)

Mismatch == [ok |-> FALSE]
Measured(unit, e) == [ok |-> TRUE, unit |-> unit, expr |-> e]

Stated(units) == {units[i][1] : i \in {j \in DOMAIN units : units[j] # <<>>}}
Agree(units) == Cardinality(Stated(units)) <= 1
Common(units) == IF Stated(units) = {} THEN <<>> ELSE <<CHOOSE u \in Stated(units) : TRUE>>
Dimensioned(units) == Stated(units) \ {Dimensionless} # {}

InAgreement(units, result, e) == IF Agree(units) THEN Measured(result, e) ELSE Mismatch
Within(u, e) == IF u = UnitRefused THEN Mismatch ELSE Measured(<<u>>, e)
ProductUnit(a, b, e) == CASE a = <<>> -> Measured(b, e)
                          [] b = <<>> -> Measured(a, e)
                          [] OTHER -> Within(MulUnit(a[1], b[1]), e)
QuotientUnit(a, b, e) == CASE b = <<>> -> Measured(a, e)
                           [] OTHER -> Within(DivUnit(IF a = <<>> THEN Dimensionless ELSE a[1], b[1]), e)

\* pow by a literal int multiplies the exponents; any other power must be of a
\* number without a dimension
PowerUnit(us, e) ==
    CASE Len(us) = 2 /\ e.args[2].op = "lit" /\ e.args[2].x.k = "int" ->
            IF us[1] = <<>> \/ e.args[2].x.v = 0 THEN Measured(<<>>, e)
            ELSE Within(PowUnit(us[1][1], e.args[2].x.v), e)
      [] Dimensioned(us) -> Mismatch
      [] OTHER -> Measured(<<>>, e)

FnUnit(us, e) ==
    CASE e.x \in {"abs", "round", "floor", "ceil"} -> Measured(IF us = <<>> THEN <<>> ELSE us[1], e)
      [] e.x \in {"least", "greatest"} -> InAgreement(us, Common(us), e)
      [] e.x = "pow" -> PowerUnit(us, e)
      [] e.x \in {"exp", "ln", "log10"} -> IF Dimensioned(us) THEN Mismatch ELSE Measured(<<>>, e)
      [] OTHER -> Measured(<<>>, e)

BinaryUnit(us, e) ==
    CASE e.x \in {"add", "sub"} -> InAgreement(us, Common(us), e)
      [] e.x = "mul" -> ProductUnit(us[1], us[2], e)
      [] e.x = "div" -> QuotientUnit(us[1], us[2], e)
      [] e.x = "mod" -> Measured(us[1], e)
      [] e.x \in {"eq", "ne", "lt", "le", "gt", "ge"} -> InAgreement(us, <<>>, e)
      [] OTHER -> Measured(<<>>, e)

ConvertUnit(source, e) ==
    LET asFloat == CastTo("float", e.args[1])
        Scaled(factor) ==
            IF factor = NoFactor THEN Mismatch
            ELSE Measured(<<e.x>>, Binary("mul", asFloat,
                                          Lit(Float(FloorDiv(factor.num * Unit, factor.den)))))
    IN  IF source = <<>> \/ source = <<e.x>> THEN Measured(<<e.x>>, asFloat)
        ELSE Scaled(ConversionFactor(source[1], e.x))

Thens(args) == [i \in 1..(Len(args) \div 2) |-> args[2 * i]]
Else(args) == Last(args)

\* an expression whose operands are resolved and have the units us
OwnUnit(cols, us, e) ==
    LET arms == <<Else(us)>> \o Thens(us)
    IN  CASE e.op = "col" -> Measured(ColUnit(cols, e.x), e)
          [] e.op = "binary" -> BinaryUnit(us, e)
          [] e.op = "coalesce" -> InAgreement(us, Common(us), e)
          [] e.op = "case" -> InAgreement(arms, Common(arms), e)
          [] e.op \in {"cast", "rounded"} -> Measured(us[1], e)
          [] e.op = "fn" -> FnUnit(us, e)
          [] e.op = "inList" -> InAgreement(us, <<>>, e)
          [] e.op = "quotient" -> QuotientUnit(us[1], us[2], e)
          [] e.op = "convert" -> ConvertUnit(us[1], e)
          [] OTHER -> Measured(<<>>, e)

RECURSIVE ResolveUnits(_, _)
ResolveUnits(cols, e) ==
    LET Over(parts) ==
            IF \E i \in DOMAIN parts : ~parts[i].ok THEN Mismatch
            ELSE OwnUnit(cols, Tuple([i \in DOMAIN parts |-> parts[i].unit]),
                         [e EXCEPT !.args = [i \in DOMAIN parts |-> parts[i].expr]])
    IN  Over(Tuple([i \in DOMAIN e.args |-> ResolveUnits(cols, e.args[i])]))

-----------------------------------------------------------------------------
(* Evaluation on a row.                                                    *)

FirstFailure(cs) == cs[CHOOSE i \in DOMAIN cs : Failed(cs[i]) /\ \A j \in 1..(i - 1) : ~Failed(cs[j])]
AnyFailed(cs) == \E i \in DOMAIN cs : Failed(cs[i])

\* membership looks at the items in turn and stops at a match or a failure
MemberOf(subject, items) ==
    LET Look(seen, item) ==
            LET c == CompareCells(subject, item)
            IN  CASE Failed(seen) \/ IsTrue(seen) -> seen
                  [] Failed(item) -> item
                  [] IsNull(item) -> Null
                  [] c = Incomparable -> TypeRefusal
                  [] c = 0 -> Bool(TRUE)
                  [] OTHER -> seen
    IN  IF IsNull(subject) THEN Null ELSE FoldLeft(Look, Bool(FALSE), items)

\* the first operand that fails or is present
FirstPresent(cs) == LET at == {i \in DOMAIN cs : ~IsNull(cs[i])}
                    IN  IF at = {} THEN Null ELSE cs[CHOOSE i \in at : \A j \in at : i <= j]

\* the then of the first when that is true, unless a when before it fails
CaseCell(cs) ==
    LET stops == {i \in 1..(Len(cs) \div 2) : Failed(cs[2 * i - 1]) \/ IsTrue(cs[2 * i - 1])}
        first == CHOOSE i \in stops : \A j \in stops : i <= j
    IN  CASE stops = {} -> Last(cs)
          [] Failed(cs[2 * first - 1]) -> cs[2 * first - 1]
          [] OTHER -> cs[2 * first]

ScaleOk(r) == r.scale \in 0..MaxScale

\* an operator on the values of its operands
Combine(e, vs) ==
    CASE e.op = "coalesce" -> FirstPresent(vs)
      [] e.op = "case" -> CaseCell(vs)
      [] e.op = "inList" -> IF Failed(vs[1]) THEN vs[1] ELSE MemberOf(vs[1], Tail(vs))
      [] AnyFailed(vs) -> FirstFailure(vs)
      [] e.op = "binary" -> BinaryCell(e.x, vs[1], vs[2])
      [] e.op = "not" -> NotCell(vs[1])
      [] e.op = "isNull" -> Bool(IsNull(vs[1]))
      [] e.op = "cast" -> CastCell(e.x, vs[1])
      [] e.op = "fn" -> ApplyScalar(e.x, vs)
      [] e.op = "quotient" -> QuotientCell(e.x.mode, e.x.scale, vs[1], vs[2])
      [] e.op = "rounded" -> RoundedCell(e.x.mode, e.x.scale, vs[1])

RECURSIVE EvalExpr(_, _, _)
EvalExpr(cols, row, e) ==
    LET Converted(resolved) == IF resolved.ok THEN EvalExpr(cols, row, resolved.expr)
                               ELSE Refuse("UNIT_MISMATCH")
    IN  CASE e.op = "col" -> IF HasCol(cols, e.x) THEN row[ColIndex(cols, e.x)] ELSE Refuse("UNKNOWN_COLUMN")
          [] e.op = "lit" -> e.x
          [] e.op \in {"param", "inParam"} -> Refuse("UNBOUND_PARAM")
          [] e.op \in {"quotient", "rounded"} /\ e.x.param # "" -> Refuse("UNBOUND_PARAM")
          [] e.op \in {"quotient", "rounded"} /\ ~ScaleOk(e.x) -> TypeRefusal
          [] e.op = "convert" -> Converted(ResolveUnits(cols, e))
          [] OTHER -> Combine(e, Tuple([i \in DOMAIN e.args |-> EvalExpr(cols, row, e.args[i])]))

-----------------------------------------------------------------------------
(* Static types: the type of every present value, "absent" where there can *)
(* be none, "unknown" where the schema does not decide.                    *)

JoinAll(types) == LET said == types \ {"absent"}
                  IN  CASE said = {} -> "absent"
                        [] Cardinality(said) = 1 -> CHOOSE t \in said : TRUE
                        [] OTHER -> "unknown"
NumericTypes == {"int", "float"}
ExactTypes == {"int", "decimal"}

Comparable(a, b) == \/ {a, b} \subseteq NumericTypes
                    \/ {a, b} \subseteq ExactTypes
                    \/ {a, b} \subseteq Timestamps
                    \/ a = b /\ a \in {"string", "date", "bool"}

BinaryTyping(op, a, b) ==
    LET logical == op \in {"and", "or"}
    IN  CASE ~logical /\ "absent" \in {a, b} -> "absent"
          [] logical -> IF {a, b} \subseteq {"absent", "bool"} THEN JoinAll({a, b}) ELSE "unknown"
          [] op \in {"eq", "ne", "lt", "le", "gt", "ge"} -> IF Comparable(a, b) THEN "bool" ELSE "unknown"
          [] op \in {"contains", "startsWith", "endsWith"} -> IF {a, b} = {"string"} THEN "bool" ELSE "unknown"
          [] op = "div" -> IF {a, b} \subseteq NumericTypes THEN "float" ELSE "unknown"
          [] {a, b} = {"int"} -> "int"
          [] {a, b} \subseteq NumericTypes /\ op # "mod" -> "float"
          [] {a, b} \subseteq ExactTypes -> "decimal"
          [] OTHER -> "unknown"

\* one argument is enough for a function of one, and substr and datePart ask
\* only for the argument whose null is a null result
FnTyping(fn, ts) ==
    LET arity  == CASE fn \in {"substr", "replace"} -> Len(ts) = 3
                    [] fn \in {"datePart", "dateDiffDays", "pow"} -> Len(ts) = 2
                    [] fn \in {"concat", "least", "greatest"} -> Len(ts) > 0
                    [] OTHER -> Len(ts) = 1
        asked  == CASE fn = "substr" -> {1} [] fn = "datePart" -> {2} [] OTHER -> DOMAIN ts
        types  == {ts[i] : i \in DOMAIN ts}
    IN  CASE ~arity \/ \E i \in asked : ts[i] = "absent" -> "absent"
          [] fn = "abs" -> IF ts[1] \in {"int", "float", "decimal"} THEN ts[1] ELSE "unknown"
          [] fn \in {"round", "floor", "ceil"} -> IF ts[1] \in {"decimal", "unknown"} THEN ts[1] ELSE "float"
          [] fn \in {"least", "greatest"} -> JoinAll(types)
          [] fn = "pow" -> IF types = {"int"} \/ "unknown" \in types THEN "unknown" ELSE "float"
          [] fn \in {"exp", "ln", "log10"} -> "float"
          [] fn = "concat" -> "string"
          [] OTHER -> TextSig(fn).result

PowLitTyping(n, base) == CASE base = "int" -> IF n >= 0 THEN "int" ELSE "float"
                           [] base \in {"absent", "unknown"} -> base
                           [] OTHER -> "float"

IntLit(e) == e.op = "lit" /\ e.x.k = "int"

RECURSIVE TypingOf(_, _)
TypingOf(cols, e) ==
    LET ts == Tuple([i \in DOMAIN e.args |-> TypingOf(cols, e.args[i])])
        Unless(type) == IF ts[1] = "absent" THEN "absent" ELSE type
    IN  CASE e.op = "col" -> IF HasCol(cols, e.x) THEN ColType(cols, e.x) ELSE "unknown"
          [] e.op = "lit" -> IF IsNull(e.x) THEN "absent" ELSE e.x.k
          [] e.op = "param" -> "unknown"
          [] e.op = "binary" -> BinaryTyping(e.x, ts[1], ts[2])
          [] e.op = "not" -> IF ts[1] \in {"absent", "bool"} THEN ts[1] ELSE "unknown"
          [] e.op = "isNull" -> "bool"
          [] e.op = "coalesce" -> JoinAll({ts[i] : i \in DOMAIN ts})
          [] e.op = "case" -> JoinAll({Else(ts)} \cup {Thens(ts)[i] : i \in DOMAIN Thens(ts)})
          [] e.op = "cast" -> Unless(e.x)
          [] e.op = "convert" -> Unless("float")
          [] e.op \in {"inList", "inParam"} -> Unless("bool")
          [] e.op = "fn" -> IF e.x = "pow" /\ Len(ts) = 2 /\ IntLit(e.args[2])
                            THEN PowLitTyping(e.args[2].x.v, ts[1]) ELSE FnTyping(e.x, ts)
          [] \E i \in DOMAIN ts : ts[i] = "absent" -> "absent"     \* quotient and rounded
          [] OTHER -> IF \A i \in DOMAIN ts : ts[i] \in ExactTypes THEN "decimal" ELSE "unknown"

RECURSIVE ArmsHave(_, _, _)
ArmsHave(ty, cols, e) ==
    LET arms == CASE e.op = "coalesce" -> e.args [] e.op = "case" -> Append(Thens(e.args), Else(e.args))
    IN  IF e.op \in {"coalesce", "case"} THEN \E i \in DOMAIN arms : ArmsHave(ty, cols, arms[i])
        ELSE TypingOf(cols, e) = ty

\* how the column of an expression gets its type: a type, "byCells" or "refused"
DeriveTyping(cols, e) ==
    LET t == TypingOf(cols, e)
    IN  CASE ArmsHave("float", cols, e) /\ ArmsHave("decimal", cols, e) -> "refused"
          [] t = "absent" -> "string"
          [] t = "unknown" -> "byCells"
          [] OTHER -> t

\* the least type two types widen into, "none" when there is none
JoinColumnType(a, b) == CASE a = b -> a
                          [] a = "int" /\ b \in {"float", "decimal"} -> b
                          [] b = "int" /\ a \in {"float", "decimal"} -> a
                          [] OTHER -> "none"
JoinColumnTypes(types) ==
    FoldLeft(LAMBDA acc, t : IF acc = "none" THEN acc ELSE JoinColumnType(acc, t), Head(types), Tail(types))

UnpivotTyping(types) ==
    LET used == {types[i] : i \in DOMAIN types}
    IN  CASE {"float", "decimal"} \subseteq used -> "refused"
          [] types = <<>> -> "string"
          [] JoinColumnTypes(types) = "none" -> "byCells"
          [] OTHER -> JoinColumnTypes(types)

\* typeFromCells: the join of the kinds in order; a pair that no type holds does
\* not move it, and refuses the column
TypeFromCells(cells) ==
    LET kinds == {cells[i].k : i \in DOMAIN cells} \ {"null"}
    IN  CASE kinds = {} -> "string"
          [] {"float", "decimal"} \subseteq kinds -> "none"
          [] kinds \subseteq {"int", "float"} \/ kinds \subseteq {"int", "decimal"} ->
                IF kinds = {"int"} THEN "int" ELSE CHOOSE k \in kinds : k # "int"
          [] Cardinality(kinds) = 1 -> CHOOSE k \in kinds : TRUE
          [] OTHER -> "none"

ColumnTypeBy(dt, cells) == CASE dt = "refused" -> "none"
                             [] dt = "byCells" -> TypeFromCells(cells)
                             [] OTHER -> dt

-----------------------------------------------------------------------------
(* Parameters.                                                             *)

RECURSIVE NamesOfParams(_)
NamesOfParams(e) == UNION {NamesOfParams(e.args[i]) : i \in DOMAIN e.args}
                    \cup IF e.op \in {"param", "inParam"} THEN {e.x} ELSE {}

RECURSIVE ParamNames(_)
ParamNames(e) == UNION {ParamNames(e.args[i]) : i \in DOMAIN e.args}
                 \cup CASE e.op \in {"param", "inParam"} -> {e.x}
                        [] e.op \in {"quotient", "rounded"} -> {e.x.param} \ {""}
                        [] OTHER -> {}

BindScale(r, env) ==
    IF r.param # "" /\ r.param \in DOMAIN env /\ env[r.param].k = "int"
    THEN Rounding(r.mode, env[r.param].v) ELSE r

RECURSIVE SubstExpr(_, _)
SubstExpr(e, env) ==
    LET within == Tuple([i \in DOMAIN e.args |-> SubstExpr(e.args[i], env)])
    IN  CASE e.op = "param" /\ e.x \in DOMAIN env -> Lit(env[e.x])
          [] e.op \in {"quotient", "rounded"} -> Expr(e.op, BindScale(e.x, env), within)
          [] OTHER -> [e EXCEPT !.args = within]

RECURSIVE SubstListExpr(_, _)
SubstListExpr(e, lists) ==
    LET within == Tuple([i \in DOMAIN e.args |-> SubstListExpr(e.args[i], lists)])
    IN  IF e.op = "inParam" /\ e.x \in DOMAIN lists
        THEN InList(within[1], [i \in DOMAIN lists[e.x] |-> Lit(lists[e.x][i])])
        ELSE [e EXCEPT !.args = within]
=============================================================================
