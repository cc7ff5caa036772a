------------------------------ MODULE Columns ------------------------------
(***************************************************************************)
(* The data of the dataframe engine, src/internal/core/dataframe/model.go: *)
(* cells, columns, schemas and tables, and which column types hold which   *)
(* cells (schema.go, gridedit.go).                                         *)
(*                                                                         *)
(* A cell is a kind and a number, see Cells; a timestamp is one of two     *)
(* spellings of the instant v \div 2.  A schema entry has a unit, <<>> for *)
(* none, and meta holds the label, the description and the extension       *)
(* members that are stated.                                                *)
(***************************************************************************)
EXTENDS Units

Cell(kind, v) == [k |-> kind, v |-> v]
Null     == Cell("null", 0)
IsNull(c) == c.k = "null"
\* the structural key of a cell in a group, a distinct or a set operation: its
\* kind and its text, so that an int and an equal float are different
CellKey(c) == <<c.k, c.v>>

Timestamps == {"timestamp", "timestamp_ms", "timestamp_us", "timestamp_ns"}
ColumnTypes == {"int", "float", "decimal", "bool", "string", "date"} \cup Timestamps

CellSet == [k: ColumnTypes \cup {"null"}, v: Int]
ColumnSet == [name: STRING, type: ColumnTypes, cells: Seq(CellSet)]

NoMeta == [m \in {} |-> 0]
Entry(name, type, unit) == [name |-> name, type |-> type, unit |-> unit, meta |-> NoMeta]
MayBeUnit(x) == x = <<>> \/ (x = <<x[1]>> /\ IsUnit(x[1]))
IsEntry(e) == /\ e = [name |-> e.name, type |-> e.type, unit |-> e.unit, meta |-> e.meta]
              /\ MayBeUnit(e.unit)
              /\ e.meta = [m \in DOMAIN e.meta |-> e.meta[m]]
              /\ IsFiniteSet(DOMAIN e.meta) /\ "unit" \notin DOMAIN e.meta
Column(name, type, cells) == [name |-> name, type |-> type, cells |-> cells]
Table(schema, columns) == [schema |-> schema, columns |-> columns]
RowCount(t) == IF t.columns = <<>> THEN 0 ELSE Len(t.columns[1].cells)

\* where a name first stands in a schema or a list of columns, 0 if nowhere
ColIndex(cols, name) == IF \E i \in DOMAIN cols : cols[i].name = name
                        THEN CHOOSE i \in DOMAIN cols :
                                cols[i].name = name /\ \A j \in 1..(i - 1) : cols[j].name # name
                        ELSE 0
HasCol(cols, name) == ColIndex(cols, name) # 0
NamesOf(cols) == [i \in DOMAIN cols |-> cols[i].name]

\* the same sequence, with its elements evaluated once
Tuple(s) == s \o <<>>
Repeats(names) == Cardinality({names[i] : i \in DOMAIN names}) # Len(names)
ClampInt(v, lo, hi) == IF v < lo THEN lo ELSE IF v > hi THEN hi ELSE v

-----------------------------------------------------------------------------
(* Types.                                                                  *)

TimestampUnitDigits == [ty \in Timestamps |->
    CASE ty = "timestamp" -> 0 [] ty = "timestamp_ms" -> 3 [] ty = "timestamp_us" -> 6 [] OTHER -> 9]

ColumnTypeWidens(from, to) ==
    \/ from = to
    \/ from = "int" /\ to \in {"float", "decimal"}
    \/ {from, to} \subseteq Timestamps /\ TimestampUnitDigits[from] <= TimestampUnitDigits[to]

\* a timestamp of the second spelling of its instant has a fraction of three digits
CellType(c) == IF c.k = "timestamp" /\ c.v % 2 = 1 THEN "timestamp_ms" ELSE c.k
Fits(ty, c) == IsNull(c) \/ ColumnTypeWidens(CellType(c), ty)
=============================================================================
