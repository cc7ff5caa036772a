-------------------------------- MODULE Grid -------------------------------
(***************************************************************************)
(* Grid edits, src/internal/core/dataframe/gridedit.go: columnar ops on a  *)
(* table, their inverses, the row delta an op induces for a consumer that  *)
(* keys rows by a column, and the bounded history of edits, undos and      *)
(* redos.                                                                  *)
(***************************************************************************)
EXTENDS Columns

CONSTANTS InitialTable, \* the table a history starts on
          Ops,          \* the ops a user may try
          Capacity,     \* of the history, at least 1
          MaxEdits,     \* bound: the edits of a history
          KeyField,     \* the column that identifies the rows of a consumer
          EvalPipeline(_, _)  \* a pipeline on a table: the table it leaves, or a refusal

VARIABLES table, undo, redo,   \* GridEditHistory, most recent entry first
          edits                \* how many were made
vars == <<table, undo, redo, edits>>

-----------------------------------------------------------------------------
(* Applying an op.                                                         *)

EditRefused(token) == [token |-> token]
Edited(t) == [token |-> "", table |-> t]
Applied(after) == after.token = ""

ColumnAt(t, name) == IF \E i \in DOMAIN t.columns : t.columns[i].name = name
                     THEN CHOOSE i \in DOMAIN t.columns :
                            t.columns[i].name = name /\ \A j \in 1..(i - 1) : t.columns[j].name # name
                     ELSE 0
FindColumn(t, name) == t.columns[ColumnAt(t, name)]

\* a retyped column has a fresh schema entry
WithColumn(t, col) ==
    Table([i \in DOMAIN t.schema |-> IF t.schema[i].name = col.name /\ t.schema[i].type # col.type
                                     THEN Entry(col.name, col.type, <<>>) ELSE t.schema[i]],
          [i \in DOMAIN t.columns |-> IF t.columns[i].name = col.name THEN col ELSE t.columns[i]])

\* rows are counted from 0 in an op, as in the code
CellSetTo(col, row, value) == [col EXCEPT !.cells[row] = value]
SetCell(t, op) ==
    LET col == FindColumn(t, op.col)
    IN  IF ColumnAt(t, op.col) = 0 THEN EditRefused("noSuchColumn")
        ELSE IF ~(op.row \in 0..(RowCount(t) - 1)) THEN EditRefused("rowOutOfRange")
        ELSE IF ~Fits(col.type, op.value) THEN EditRefused("cellTypeMismatch")
        ELSE Edited(WithColumn(t, CellSetTo(col, op.row + 1, op.value)))

SetColumnUnmeasured(t, op) ==
    IF ColumnAt(t, op.column.name) = 0 THEN EditRefused("noSuchColumn")
    ELSE Edited(WithColumn(t, op.column))
SetColumn(t, op) ==
    IF ColumnAt(t, op.column.name) = 0 THEN EditRefused("noSuchColumn")
    ELSE IF Len(op.column.cells) # RowCount(t) THEN EditRefused("columnLengthMismatch")
    ELSE Edited(WithColumn(t, op.column))

InsertColumn(t, op) ==
    LET i == 1 + ClampInt(op.index, 0, Len(t.columns))
    IN  IF ColumnAt(t, op.column.name) # 0 THEN EditRefused("duplicateColumn")
        ELSE IF t.columns # <<>> /\ Len(op.column.cells) # RowCount(t)
             THEN EditRefused("columnLengthMismatch")
        ELSE Edited(Table(InsertAt(t.schema, i, Entry(op.column.name, op.column.type, <<>>)),
                          InsertAt(t.columns, i, op.column)))

\* the loop that keeps the entries, or the columns, of another name
Without(list, name) ==
    LET upTo[i \in 0 .. Len(list)] ==
            IF i = 0 THEN <<>>
            ELSE IF list[i].name # name THEN Append(upTo[i - 1], list[i]) ELSE upTo[i - 1]
    IN  upTo[Len(list)]

RemoveColumn(t, op) ==
    IF ColumnAt(t, op.name) = 0 THEN EditRefused("noSuchColumn")
    ELSE Edited(Table(Without(t.schema, op.name), Without(t.columns, op.name)))

\* an appended row is a sequence of columns and values; the first that names a
\* column gives its cell, and a column that none names is null
CellFor(row, name) == IF \E i \in DOMAIN row : row[i].col = name
                      THEN row[CHOOSE i \in DOMAIN row :
                                 row[i].col = name /\ \A j \in 1..(i - 1) : row[j].col # name].value
                      ELSE Null
BadCell(t, given) == ColumnAt(t, given.col) = 0 \/ ~Fits(FindColumn(t, given.col).type, given.value)
FirstBad(t, rows) ==
    LET given == FlattenSeq(rows)
    IN  given[CHOOSE i \in DOMAIN given : BadCell(t, given[i]) /\ \A j \in 1..(i - 1) : ~BadCell(t, given[j])]

AppendRows(t, op) ==
    IF \E r \in DOMAIN op.rows : \E i \in DOMAIN op.rows[r] : BadCell(t, op.rows[r][i])
    THEN EditRefused(IF ColumnAt(t, FirstBad(t, op.rows).col) = 0 THEN "rowShapeUnknownColumn"
                     ELSE "cellTypeMismatch")
    ELSE Edited(Table(t.schema, [i \in DOMAIN t.columns |->
            [t.columns[i] EXCEPT !.cells = @ \o [r \in DOMAIN op.rows |->
                                                    CellFor(op.rows[r], t.columns[i].name)]]]))

ApplyColumnOp(op, t) ==
    CASE op.edit = "setCell" -> SetCell(t, op)
      [] op.edit = "setColumn" -> SetColumn(t, op)
      [] op.edit = "insertColumn" -> InsertColumn(t, op)
      [] op.edit = "removeColumn" -> RemoveColumn(t, op)
      [] op.edit = "appendRows" -> AppendRows(t, op)
      [] op.edit = "applyTransform" -> EvalPipeline(op.pipeline, t)

\* the inverse of an op that applies, read from the table before it
Invertible(op) == ~(op.edit \in {"appendRows", "applyTransform"})
InvertColumnOp(op, t) ==
    CASE op.edit = "setCell" -> [op EXCEPT !.value = FindColumn(t, op.col).cells[op.row + 1]]
      [] op.edit = "setColumn" -> [op EXCEPT !.column = FindColumn(t, op.column.name)]
      [] op.edit = "insertColumn" -> [edit |-> "removeColumn", name |-> op.column.name]
      [] op.edit = "removeColumn" -> [edit |-> "insertColumn", index |-> ColumnAt(t, op.name) - 1,
                                      column |-> FindColumn(t, op.name)]

-----------------------------------------------------------------------------
(* The row delta, built from the op and the table before it.  A row with   *)
(* no key has the key <<>>.                                                *)

FullRefresh == [full |-> TRUE, rows |-> {}]
RowSet(rows) == [full |-> FALSE, rows |-> rows]
Change(key, what) == [key |-> key, change |-> what]

KeysOf(t) == Tuple([r \in 1..RowCount(t) |->
                IF ColumnAt(t, KeyField) = 0 \/ IsNull(FindColumn(t, KeyField).cells[r]) THEN <<>>
                ELSE CellKey(FindColumn(t, KeyField).cells[r])])

SetCellDeltaInPlace(t, op, k0, k1) ==
    IF k0[op.row + 1] = <<>> \/ k1[op.row + 1] = <<>> THEN FullRefresh
    ELSE IF FindColumn(t, op.col).cells[op.row + 1] = op.value THEN RowSet({})
    ELSE RowSet({Change(k0[op.row + 1], "changed")})
SetCellDelta(t, op, k0, k1) ==
    LET r == op.row + 1
        old == FindColumn(t, op.col).cells[r]
    IN  IF k0[r] = <<>> \/ k1[r] = <<>> THEN FullRefresh
        ELSE IF old = op.value THEN RowSet({})
        ELSE IF k0[r] = k1[r] THEN RowSet({Change(k0[r], "changed")})
        ELSE RowSet({Change(k0[r], "removed"), Change(k1[r], "added")})

SetColumnDelta(t, op, k0, k1) ==
    LET old == FindColumn(t, op.column.name).cells
    IN  IF k0 # k1 \/ <<>> \in ToSet(k0) THEN FullRefresh
        ELSE RowSet({Change(k0[r], "changed") : r \in {i \in DOMAIN k0 : old[i] # op.column.cells[i]}})

AppendRowsDelta(k0, k1) ==
    LET new == SubSeq(k1, Len(k0) + 1, Len(k1))
    IN  IF \/ <<>> \in ToSet(new)
           \/ ToSet(new) \cap ToSet(k0) # {}
           \/ Repeats(new)
        THEN FullRefresh
        ELSE RowSet({Change(new[i], "added") : i \in DOMAIN new})

DeltaOf(t, op, after) ==
    LET k0 == KeysOf(t)
        k1 == KeysOf(after.table)
    IN  IF op.edit \in {"insertColumn", "removeColumn", "applyTransform"} \/ ~Applied(after) THEN FullRefresh
        ELSE CASE op.edit = "setCell" -> SetCellDelta(t, op, k0, k1)
               [] op.edit = "setColumn" -> SetColumnDelta(t, op, k0, k1)
               [] op.edit = "appendRows" -> AppendRowsDelta(k0, k1)
GridEditDelta(t, op) == DeltaOf(t, op, ApplyColumnOp(op, t))

-----------------------------------------------------------------------------
(* The history.                                                            *)

EditEntry(op, inverse) == [op |-> op, inverse |-> inverse]
Push(e, stack) == SubSeq(<<e>> \o stack, 1, ClampInt(Capacity, 0, Len(stack) + 1))

Init == table = InitialTable /\ undo = <<>> /\ redo = <<>> /\ edits = 0

\* the op applies, and the table is what it leaves
Takes(op) == \E after \in {ApplyColumnOp(op, table)} : Applied(after) /\ table' = after.table

\* an edit with no inverse clears what could be undone; any edit clears the redos
Apply(op) ==
    /\ edits < MaxEdits
    /\ Takes(op)
    /\ undo' = IF Invertible(op) THEN Push(EditEntry(op, InvertColumnOp(op, table)), undo) ELSE <<>>
    /\ redo' = <<>>
    /\ edits' = edits + 1

UndoQueuesRedo ==
    /\ undo # <<>>
    /\ Takes(undo[1].inverse)
    /\ undo' = Tail(undo)
    /\ redo' = Append(redo, undo[1])
    /\ edits' = edits

Undo ==
    /\ undo # <<>>
    /\ Takes(undo[1].inverse)
    /\ undo' = Tail(undo)
    /\ redo' = <<undo[1]>> \o redo
    /\ edits' = edits

Redo ==
    /\ redo # <<>>
    /\ Takes(redo[1].op)
    /\ undo' = Push(redo[1], undo)
    /\ redo' = Tail(redo)
    /\ edits' = edits

Next == (\E op \in Ops : Apply(op)) \/ Undo \/ Redo
Spec == Init /\ [][Next]_vars

-----------------------------------------------------------------------------
(* What a history keeps.                                                   *)

\* A table that is in order: its columns are of one length, hold cells of their
\* types and have names of their own, and its schema names them in their order.
SoundColumns == {column \in ColumnSet :
                    \A r \in DOMAIN column.cells : Fits(column.type, column.cells[r])}
ColumnsInOrder(columns) ==
    /\ columns \in Seq(SoundColumns)
    /\ \A i, j \in DOMAIN columns :
          /\ Len(columns[i].cells) = Len(columns[j].cells)
          /\ columns[i].name = columns[j].name => i = j
InOrder(t) ==
    /\ ColumnsInOrder(t.columns)
    /\ t.schema \in Seq(ToSet(t.schema)) /\ Len(t.schema) = Len(t.columns)
    /\ \A i \in DOMAIN t.columns :
          /\ t.schema[i].name = t.columns[i].name
          /\ t.schema[i].type = t.columns[i].type
    /\ \A i \in DOMAIN t.schema : IsEntry(t.schema[i])

\* Ops as the codec reads them (DecodeColumnOpParsed): a column that one brings
\* holds cells of its type.  The first four have an inverse.
ColumnEdits == [edit: {"setCell"}, col: STRING, row: Int, value: CellSet]
          \cup [edit: {"setColumn"}, column: SoundColumns]
          \cup [edit: {"insertColumn"}, index: Int, column: SoundColumns]
          \cup [edit: {"removeColumn"}, name: STRING]
RowAppends == [edit: {"appendRows"}, rows: Seq(Seq([col: STRING, value: CellSet]))]

ASSUME GridAssumption ==
    /\ Capacity \in Nat \ {0} /\ MaxEdits \in Nat
    /\ InOrder(InitialTable)
    /\ \A op \in Ops : op \in ColumnEdits \cup RowAppends \/ op.edit = "applyTransform"

\* Whatever is edited, undone and redone, the table stays in order (gridedit.go): so
\* every cell is one its column can be set to again, and a row that the first
\* column has, which is all SetCell checks, is one that every column has.
TablesStayInOrder == InOrder(table)

\* The units that its columns are in survive being written out and read, alone and
\* in what is made of two (Unit.String, ParseUnit and the algebra, unit.go).
StatedUnits == UNION {ToSet(table.schema[i].unit) : i \in DOMAIN table.schema}
UnitsRoundTrip ==
    \A u, v \in SomeUnits \cup StatedUnits : ReadBack(u, v)

Row(t, r) == [i \in DOMAIN t.columns |-> t.columns[i].cells[r]]
RowOf(t, key) == Row(t, CHOOSE r \in DOMAIN KeysOf(t) : KeysOf(t)[r] = key)
UniqueKeys(t) == ~Repeats(KeysOf(t)) /\ ~(<<>> \in ToSet(KeysOf(t)))
Named(rows, what) == {c.key : c \in {d \in rows : d.change = what}}
ExactFor(rows, before, after) ==
    LET k0 == ToSet(KeysOf(before))
        k1 == ToSet(KeysOf(after))
    IN  /\ Named(rows, "added") = k1 \ k0
        /\ Named(rows, "removed") = k0 \ k1
        /\ Named(rows, "changed") = {k \in k0 \cap k1 : RowOf(before, k) # RowOf(after, k)}

\* A consumer that keys its rows and applies the delta of an op (GridEditDelta,
\* gridedit.go) has the rows of the table after it: the added keys are new, the
\* removed gone, and every key whose row differs is named.
DeltaIsExact ==
    \A op \in Ops :
        \A delta \in {GridEditDelta(table, op)}, after \in {ApplyColumnOp(op, table)} :
            ~delta.full /\ UniqueKeys(table) /\ UniqueKeys(after.table) => ExactFor(delta.rows, table, after.table)

\* The columns the two stacks lead to.  Lost is no table's: it has no such type.
Plain(columns) ==
    Table([i \in DOMAIN columns |-> Entry(columns[i].name, columns[i].type, <<>>)], columns)
TheOnly(S) == CHOOSE x \in S : TRUE
Lost == <<Column("lost", "none", <<>>)>>
ColumnsAfter(columns, op) ==
    LET after == ApplyColumnOp(op, Plain(columns))
    IN  IF columns = Lost \/ ~Applied(after) THEN Lost ELSE after.table.columns

Walk(columns, ops) ==
    LET at[i \in 0 .. Len(ops)] ==
            IF i = 0 THEN columns ELSE TheOnly({ColumnsAfter(c, ops[i]) : c \in {at[i - 1]}})
    IN  at
Inverses(entries) == [i \in DOMAIN entries |-> entries[i].inverse]
Forwards(entries) == [i \in DOMAIN entries |-> entries[i].op]
LineOf(behind, ahead, n, m) ==
    [k \in 1 .. n + 1 + m |-> IF k <= n THEN behind[n + 1 - k] ELSE ahead[k - n - 1]]
AsLine == LineOf(Walk(table.columns, Inverses(undo)), Walk(table.columns, Forwards(redo)),
                 Len(undo), Len(redo))

History == INSTANCE Timeline WITH First <- InitialTable.columns, line <- AsLine, at <- Len(undo) + 1

\* A grid history is a timeline of tables (GridEditHistory, gridedit.go): undoing gives
\* back the columns of each table the edits went through, and redoing those of the
\* ones that were undone.
ImplementsTimeline == History!TSpec
=============================================================================
