------------------------------- MODULE Cells -------------------------------
(***************************************************************************)
(* The cells of the dataframe engine and the functions over them:          *)
(* src/internal/core/dataframe/evaluate.go with its decimal.go.            *)
(*                                                                         *)
(* A cell is a kind and a number.  An int counts ones; a float and a       *)
(* decimal count Unit-ths of one, so that arithmetic on them is exact up   *)
(* to that grain; a bool is 0 or 1; a string or a date is its rank in      *)
(* ordinal order; a timestamp is one of two spellings of the instant       *)
(* v \div 2.  Texts from 100 on are the numerals of the numbers, so that a  *)
(* cast to a string and back is a real round trip.  A failed evaluation is *)
(* a cell whose kind is the code of the error.                             *)
(*                                                                         *)
(* Left out: NaN and infinities, 64-bit overflow, and what the text        *)
(* functions compute (only the kind, the null and the refusals they give   *)
(* are kept: TextFn).                                                      *)
(***************************************************************************)
EXTENDS Columns

CONSTANTS Unit,     \* parts of one that a float or a decimal can tell apart
          MaxInt,   \* the largest int (MaxInt32 in pow and in decimal casts)
          MaxScale  \* decimal.MaxScale: the finest rounding

Bool(b)  == Cell("bool", IF b THEN 1 ELSE 0)
Float(x) == Cell("float", x)
Refuse(code) == Cell(code, 0)
TypeRefusal == Refuse("TYPE_ERROR")
Codes == {"UNKNOWN_COLUMN", "TYPE_ERROR", "AGG_ERROR", "JOIN_ERROR", "ARITY_ERROR",
          "UNRESOLVED_SOURCE", "UNBOUND_PARAM", "UNIT_MISMATCH"}

Failed(c) == c.k \in Codes
IsTrue(c) == c.k = "bool" /\ c.v = 1

AnyNull(cs) == \E i \in DOMAIN cs : IsNull(cs[i])

-----------------------------------------------------------------------------
(* Numbers.                                                                *)

Sign(x) == IF x > 0 THEN 1 ELSE IF x < 0 THEN -1 ELSE 0
Abs(x) == IF x < 0 THEN -x ELSE x
FloorDiv(n, d) == IF d > 0 THEN n \div d ELSE (-n) \div (-d)
TruncDiv(n, d) == Sign(n) * Sign(d) * (Abs(n) \div Abs(d))
TruncRem(n, d) == n - d * TruncDiv(n, d)

IsNum(c) == c.k \in {"int", "float"}       \* asNum
IsExact(c) == c.k \in {"int", "decimal"}   \* decimalText
Parts(c) == IF c.k = "int" THEN c.v * Unit ELSE c.v
InBand(v) == v >= -MaxInt - 1 /\ v <= MaxInt

\* n / d in the given mode, a whole number (the decimal package's rounding)
RoundTo(mode, n, d) ==
    LET q    == FloorDiv(n, d)
        rest == 2 * Abs(n - q * d) - Abs(d)    \* beside one half: -, 0 or +
        up   == CASE mode = "floor" -> FALSE
                  [] mode = "ceiling" -> rest # -Abs(d)
                  [] mode = "down" -> q < 0 /\ rest # -Abs(d)
                  [] mode = "up" -> q >= 0 /\ rest # -Abs(d)
                  [] mode = "halfUp" -> rest > 0 \/ (rest = 0 /\ q >= 0)
                  [] mode = "halfDown" -> rest > 0 \/ (rest = 0 /\ q < 0)
                  [] mode = "halfEven" -> rest > 0 \/ (rest = 0 /\ q % 2 = 1)
    IN  IF up THEN q + 1 ELSE q

\* the grain of a scale: with Unit parts, scale 0 keeps ones
Grain(scale) == IF scale = 0 THEN Unit ELSE 1
Quantize(mode, scale, x) == Grain(scale) * RoundTo(mode, x, Grain(scale))

-----------------------------------------------------------------------------
(* Comparison.                                                             *)

Incomparable == 2
Instant(c) == c.v \div 2                   \* instantKey

CompareCells(a, b) ==
    CASE IsNum(a) /\ IsNum(b) -> Sign(Parts(a) - Parts(b))
      [] "decimal" \in {a.k, b.k} ->
            IF IsExact(a) /\ IsExact(b) THEN Sign(Parts(a) - Parts(b)) ELSE Incomparable
      [] a.k = b.k /\ a.k = "timestamp" -> Sign(Instant(a) - Instant(b))
      [] a.k = b.k /\ a.k \in {"bool", "string", "date"} -> Sign(a.v - b.v)
      [] OTHER -> Incomparable

CellEq(a, b) == /\ ~IsNull(a) /\ ~IsNull(b)
                /\ (a.k = "decimal") <=> (b.k = "decimal")
                /\ CompareCells(a, b) = 0

RowKey(cells) == Tuple([i \in DOMAIN cells |-> CellKey(cells[i])])

\* the text of a cell: one numeral for every number of the same value
CellText(c) == IF c.k \in {"int", "float", "decimal"} THEN 100 + Parts(c)
               ELSE IF c.k = "bool" THEN 200 + c.v ELSE c.v
IsNumeral(text) == text \in 50..150
NumeralOf(text) == text - 100

-----------------------------------------------------------------------------
(* The binary operators.                                                   *)

DecimalArith(op, x, y) ==
    CASE op = "add" -> Cell("decimal", x + y)
      [] op = "sub" -> Cell("decimal", x - y)
      [] op = "mul" -> Cell("decimal", FloorDiv(x * y, Unit))
      [] op = "mod" -> IF y = 0 THEN Null ELSE Cell("decimal", TruncRem(x, y))
      [] OTHER -> TypeRefusal

IntArith(op, x, y) ==
    CASE op = "add" -> Cell("int", x + y)
      [] op = "sub" -> Cell("int", x - y)
      [] op = "mul" -> Cell("int", x * y)
      [] op = "mod" -> IF y = 0 THEN Null ELSE Cell("int", TruncRem(x, y))
      [] op = "div" -> IF y = 0 THEN Null ELSE Float(FloorDiv(x * Unit, y))

FloatArith(op, x, y) ==
    CASE op = "add" -> Float(x + y)
      [] op = "sub" -> Float(x - y)
      [] op = "mul" -> Float(FloorDiv(x * y, Unit))
      [] op = "mod" -> TypeRefusal
      [] op = "div" -> IF y = 0 THEN Null ELSE Float(FloorDiv(x * Unit, y))

Arith(op, a, b) ==
    CASE AnyNull(<<a, b>>) -> Null
      [] "decimal" \in {a.k, b.k} ->
            IF IsExact(a) /\ IsExact(b) THEN DecimalArith(op, Parts(a), Parts(b)) ELSE TypeRefusal
      [] ~(IsNum(a) /\ IsNum(b)) -> TypeRefusal
      [] a.k = "int" /\ b.k = "int" -> IntArith(op, a.v, b.v)
      [] OTHER -> FloatArith(op, Parts(a), Parts(b))

Comparison(op, a, b) ==
    LET c == CompareCells(a, b)
    IN  CASE AnyNull(<<a, b>>) -> Null
          [] c = Incomparable -> TypeRefusal
          [] OTHER -> Bool(CASE op = "eq" -> c = 0
                             [] op = "ne" -> c # 0
                             [] op = "lt" -> c < 0
                             [] op = "le" -> c <= 0
                             [] op = "gt" -> c > 0
                             [] op = "ge" -> c >= 0)

\* three-valued: false decides a conjunction and true a disjunction beside a null
Logical(op, a, b) ==
    LET decisive == IF op = "and" THEN 0 ELSE 1
    IN  CASE {a.k, b.k} \ {"bool", "null"} # {} -> TypeRefusal
          [] \E c \in {a, b} : c.k = "bool" /\ c.v = decisive -> Cell("bool", decisive)
          [] AnyNull(<<a, b>>) -> Null
          [] OTHER -> Cell("bool", 1 - decisive)

\* a string is its rank: it starts with, ends with and contains itself only
StringPred(a, b) ==
    CASE AnyNull(<<a, b>>) -> Null
      [] a.k # "string" \/ b.k # "string" -> TypeRefusal
      [] OTHER -> Bool(a.v = b.v)

BinaryCell(op, a, b) ==
    CASE op \in {"add", "sub", "mul", "div", "mod"} -> Arith(op, a, b)
      [] op \in {"eq", "ne", "lt", "le", "gt", "ge"} -> Comparison(op, a, b)
      [] op \in {"contains", "startsWith", "endsWith"} -> StringPred(a, b)
      [] OTHER -> Logical(op, a, b)

NotCell(c) == CASE c.k = "bool" -> Cell("bool", 1 - c.v)
                [] IsNull(c) -> Null
                [] OTHER -> TypeRefusal

-----------------------------------------------------------------------------
(* Casts and exact rounding.                                               *)


CastNumber(ty, c) ==
    LET x == IF c.k = "string" THEN NumeralOf(c.v) ELSE Parts(c)
    IN  CASE c.k = "string" /\ ~IsNumeral(c.v) -> TypeRefusal
          [] ty = "float" /\ c.k \in {"int", "float", "decimal", "string"} -> Float(x)
          [] ty = "decimal" /\ c.k \in {"int", "float", "decimal", "string"} -> Cell("decimal", x)
          [] ty = "int" /\ c.k \in {"int", "float"} -> Cell("int", TruncDiv(x, Unit))
          [] ty = "int" /\ c.k = "decimal" /\ InBand(TruncDiv(x, Unit)) -> Cell("int", TruncDiv(x, Unit))
          [] ty = "int" /\ c.k = "string" /\ x % Unit = 0 -> Cell("int", x \div Unit)
          [] ty = "int" /\ c.k = "bool" -> Cell("int", c.v)
          [] OTHER -> TypeRefusal

CastCell(ty, c) ==
    CASE IsNull(c) -> Null
      [] ty = "string" -> Cell("string", CellText(c))
      [] ty \in {"int", "float", "decimal"} -> CastNumber(ty, c)
      [] ty = "bool" -> IF c.k = "bool" THEN c ELSE IF c.k = "int" THEN Bool(c.v # 0) ELSE TypeRefusal
      [] ty = "date" -> IF c.k \in {"date", "string"} THEN Cell("date", c.v) ELSE TypeRefusal
      [] ty \in Timestamps -> IF c.k \in {"timestamp", "string"} THEN Cell("timestamp", c.v) ELSE TypeRefusal
      [] OTHER -> TypeRefusal

RoundedCell(mode, scale, c) ==
    CASE ~(scale \in 0..MaxScale) -> TypeRefusal
      [] IsNull(c) -> Null
      [] ~IsExact(c) -> TypeRefusal
      [] OTHER -> Cell("decimal", Quantize(mode, scale, Parts(c)))

QuotientCell(mode, scale, a, b) ==
    CASE ~(scale \in 0..MaxScale) -> TypeRefusal
      [] AnyNull(<<a, b>>) -> Null
      [] ~(IsExact(a) /\ IsExact(b)) -> TypeRefusal
      [] b.v = 0 -> Null
      [] OTHER -> Cell("decimal", Grain(scale) * RoundTo(mode, Parts(a) * Unit, Parts(b) * Grain(scale)))

-----------------------------------------------------------------------------
(* The scalar functions.                                                   *)

Opaque(kind) == Cell(kind, 0)              \* a value no property tells apart

\* pow of two ints, by repeated squaring: refused as soon as a product leaves the
\* ints; acc is <<>> until a first factor is taken
RECURSIVE PowLoop(_, _, _)
PowLoop(acc, b, k) ==
    LET next == IF k % 2 = 0 THEN acc ELSE IF acc = <<>> THEN <<b>> ELSE <<acc[1] * b>>
    IN  CASE k % 2 = 1 /\ ~InBand(next[1]) -> TypeRefusal
          [] k \div 2 = 0 -> Cell("int", IF next = <<>> THEN 1 ELSE next[1])
          [] ~InBand(b * b) -> TypeRefusal
          [] OTHER -> PowLoop(next, b * b, k \div 2)

PowIntExact(x, n) == IF n = 0 THEN Cell("int", 1) ELSE PowLoop(<<>>, x, n)

RECURSIVE PowParts(_, _)
PowParts(x, n) == IF n = 0 THEN Unit ELSE FloorDiv(PowParts(x, n - 1) * x, Unit)

PowIntFloat(x, n) ==
    IF n >= 0 THEN Float(PowParts(x, n))
    ELSE LET p == PowParts(x, -n) IN IF p = 0 THEN Null ELSE Float(FloorDiv(Unit * Unit, p))

PowFloat(x, y) == CASE y = 0 \/ x = Unit -> Float(Unit)
                    [] x = 0 /\ y < 0 -> Null
                    [] x < 0 /\ y % Unit # 0 -> Null
                    [] OTHER -> Opaque("float")

Pow(x, y) ==
    CASE AnyNull(<<x, y>>) -> Null
      [] "decimal" \in {x.k, y.k} -> TypeRefusal
      [] ~(IsNum(x) /\ IsNum(y)) -> TypeRefusal
      [] x.k = "int" /\ y.k = "int" /\ y.v >= 0 -> PowIntExact(x.v, y.v)
      [] y.k = "int" -> PowIntFloat(Parts(x), y.v)
      [] OTHER -> PowFloat(Parts(x), Parts(y))

Transcendental(fn, c) ==
    CASE IsNull(c) -> Null
      [] ~IsNum(c) -> TypeRefusal
      [] fn = "exp" -> Opaque("float")
      [] Parts(c) <= 0 -> Null
      [] OTHER -> Opaque("float")

AbsCell(c) == CASE IsNull(c) -> Null
                [] c.k \in {"int", "float", "decimal"} -> Cell(c.k, Abs(c.v))
                [] OTHER -> TypeRefusal

\* round, floor and ceil: exact on a decimal, and a float on an int or a float
RoundFn(fn, c) ==
    LET mode == CASE fn = "round" -> "halfUp" [] fn = "floor" -> "floor" [] fn = "ceil" -> "ceiling"
    IN  CASE IsNull(c) -> Null
          [] c.k = "decimal" -> RoundedCell(mode, 0, c)
          [] ~IsNum(c) -> TypeRefusal
          [] OTHER -> Float(Quantize(mode, 0, Parts(c)))

Extremum(fn, args) ==
    LET Better(best, c) ==
            LET k == CompareCells(best, c)
            IN  CASE Failed(best) -> best
                  [] k = Incomparable -> TypeRefusal
                  [] (fn = "least") # (k <= 0) -> c
                  [] OTHER -> best
    IN  IF AnyNull(args) THEN Null ELSE FoldLeft(Better, args[1], Tail(args))

\* the functions of texts and dates: the arguments whose null is a null result,
\* the kinds each argument must have, the kind of the result
TextKinds == {"string", "date", "timestamp"}
TextSig(fn) ==
    CASE fn = "length" -> [nulls |-> {1}, kinds |-> <<{"string"}>>, result |-> "int"]
      [] fn \in {"lower", "upper", "trim"} -> [nulls |-> {1}, kinds |-> <<{"string"}>>, result |-> "string"]
      [] fn = "substr" -> [nulls |-> {1}, kinds |-> <<{"string"}, {"int"}, {"int"}>>, result |-> "string"]
      [] fn = "datePart" -> [nulls |-> {2}, kinds |-> <<{"string"}, TextKinds>>, result |-> "int"]
      [] fn = "replace" -> [nulls |-> 1..3, kinds |-> <<{"string"}, {"string"}, {"string"}>>, result |-> "string"]
      [] fn = "dateDiffDays" -> [nulls |-> 1..2, kinds |-> <<TextKinds, TextKinds>>, result |-> "int"]

TextFn(fn, args) ==
    LET sig == TextSig(fn)
    IN  CASE Len(args) # Len(sig.kinds) -> Refuse("ARITY_ERROR")
          [] \E i \in sig.nulls : IsNull(args[i]) -> Null
          [] \E i \in DOMAIN args : ~(args[i].k \in sig.kinds[i]) -> TypeRefusal
          [] OTHER -> Opaque(sig.result)

ApplyScalar(fn, args) ==
    LET one == fn \in {"abs", "round", "floor", "ceil", "exp", "ln", "log10"}
    IN  CASE one /\ Len(args) # 1 -> Refuse("ARITY_ERROR")
          [] fn = "pow" /\ Len(args) # 2 -> Refuse("ARITY_ERROR")
          [] fn \in {"least", "greatest", "concat"} /\ args = <<>> -> Refuse("ARITY_ERROR")
          [] fn = "pow" -> Pow(args[1], args[2])
          [] fn \in {"exp", "ln", "log10"} -> Transcendental(fn, args[1])
          [] fn = "abs" -> AbsCell(args[1])
          [] fn \in {"round", "floor", "ceil"} -> RoundFn(fn, args[1])
          [] fn \in {"least", "greatest"} -> Extremum(fn, args)
          [] fn = "concat" -> IF AnyNull(args) THEN Null ELSE Opaque("string")
          [] OTHER -> TextFn(fn, args)

-----------------------------------------------------------------------------
(* The aggregates.                                                         *)

Present(cells) == SelectSeq(cells, LAMBDA c : ~IsNull(c))
SumParts(cells) == FoldLeft(LAMBDA s, c : s + Parts(c), 0, cells)

\* mean, median and standard deviation of the numbers among the cells
FloatAgg(fn, nums) ==
    LET n      == Len(nums)
        sorted == SortSeq([i \in DOMAIN nums |-> Parts(nums[i])], <)
        mid    == n \div 2
    IN  CASE n = 0 -> Null
          [] fn = "mean" -> Float(FloorDiv(SumParts(nums), n))
          [] fn = "stddev" -> Opaque("float")
          [] n % 2 = 1 -> Float(sorted[mid + 1])
          [] OTHER -> Float((sorted[mid] + sorted[mid + 1]) \div 2)

Extreme(isMin, present) ==
    LET Keep(acc, b) == LET c == CompareCells(acc, b)
                        IN  IF c # Incomparable /\ isMin # (c <= 0) THEN b ELSE acc
    IN  IF present = <<>> THEN Null ELSE FoldLeft(Keep, present[1], Tail(present))

\* what is the same whatever the type of the column
CommonAgg(fn, cells) ==
    LET present == Present(cells)
    IN  CASE fn = "count" -> Cell("int", Len(present))
          [] fn = "countDistinct" -> Cell("int", Cardinality({CellKey(present[i]) : i \in DOMAIN present}))
          [] fn = "first" -> IF cells = <<>> THEN Null ELSE Head(cells)
          [] fn = "last" -> IF cells = <<>> THEN Null ELSE Last(cells)
          [] OTHER -> Extreme(fn = "min", present)

AggDecimals(fn, cells) ==
    LET admitted == [i \in DOMAIN cells |->
                        IF IsNull(cells[i]) THEN Null ELSE Cell("decimal", Parts(cells[i]))]
        present  == Present(admitted)
    IN  CASE \E i \in DOMAIN cells : ~IsNull(cells[i]) /\ ~IsExact(cells[i]) -> Refuse("AGG_ERROR")
          [] fn = "sum" -> IF present = <<>> THEN Null ELSE Cell("decimal", SumParts(present))
          [] fn \in {"mean", "median", "stddev"} -> FloatAgg(fn, present)
          [] OTHER -> CommonAgg(fn, admitted)

AggCells(fn, srcType, cells) ==
    LET nums == SelectSeq(cells, IsNum)
    IN  CASE srcType = "decimal" -> AggDecimals(fn, cells)
          [] fn = "sum" /\ nums = <<>> -> Null
          [] fn = "sum" /\ srcType = "int" -> Cell("int", FoldLeft(LAMBDA s, c : s + TruncDiv(Parts(c), Unit), 0, nums))
          [] fn = "sum" -> Float(SumParts(nums))
          [] fn \in {"mean", "median", "stddev"} -> FloatAgg(fn, nums)
          [] OTHER -> CommonAgg(fn, cells)

AggType(fn, srcType) == CASE fn \in {"count", "countDistinct"} -> "int"
                          [] fn \in {"mean", "median", "stddev"} -> "float"
                          [] OTHER -> srcType
=============================================================================
