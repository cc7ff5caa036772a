----------------------------- MODULE GridProofs -----------------------------
(***************************************************************************)
(* Proofs about Grid, for any table in order, any ops as the codec reads   *)
(* them, any capacity and any number of edits.  What a pipeline computes   *)
(* is opaque: the theorems assume that it leaves a table in order.         *)
(***************************************************************************)
EXTENDS Grid, LoopProofs, SequenceTheorems, FiniteSetTheorems

-----------------------------------------------------------------------------
(* Lists of columns.                                                       *)

\* Without a column of a name ColumnAt finds none; the column it finds has the name.
LEMMA ColumnAtFinds ==
    ASSUME NEW t, NEW name, t.columns \in Seq(SoundColumns)
    PROVE  /\ ColumnAt(t, name) = 0 => \A i \in DOMAIN t.columns : t.columns[i].name # name
           /\ ColumnAt(t, name) # 0 => /\ ColumnAt(t, name) \in DOMAIN t.columns
                                       /\ t.columns[ColumnAt(t, name)].name = name
<1> DEFINE NamedAt == {i \in DOMAIN t.columns : t.columns[i].name = name}
<1>1. CASE NamedAt = {}
  BY <1>1 DEF ColumnAt
<1>2. CASE NamedAt # {}
  <2>1. NamedAt \in SUBSET Nat
    BY LenProperties
  <2>2. PICK k \in NamedAt : \A j \in NamedAt : ~(j < k)
    BY <1>2, <2>1, LeastElement
  <2>3. \A j \in 1 .. (k - 1) : t.columns[j].name # name
    BY <2>2, LenProperties
  <2>4. \E i \in DOMAIN t.columns : t.columns[i].name = name /\ \A j \in 1 .. (i - 1) : t.columns[j].name # name
    BY <2>2, <2>3
  <2>5. ColumnAt(t, name) \in DOMAIN t.columns /\ t.columns[ColumnAt(t, name)].name = name
    BY <2>4 DEF ColumnAt
  <2>6. ColumnAt(t, name) # 0
    BY <2>5, LenProperties
  <2>7. QED
    BY <2>5, <2>6
<1>3. QED
  BY <1>1, <1>2

\* In a table whose columns are in order a name leads to its column.
LEMMA ColumnAtIs ==
    ASSUME NEW t, ColumnsInOrder(t.columns), NEW k \in DOMAIN t.columns
    PROVE  /\ ColumnAt(t, t.columns[k].name) = k /\ k # 0
           /\ FindColumn(t, t.columns[k].name) = t.columns[k]
<1>1. ColumnAt(t, t.columns[k].name) \in DOMAIN t.columns
      /\ t.columns[ColumnAt(t, t.columns[k].name)].name = t.columns[k].name
  BY ColumnAtFinds DEF ColumnsInOrder
<1>2. k # 0
  BY LenProperties DEF ColumnsInOrder
<1>3. QED
  BY <1>1, <1>2 DEF ColumnsInOrder, FindColumn

\* The rows of a table in order are the cells of any of its columns.
LEMMA RowCountIs ==
    ASSUME NEW t, ColumnsInOrder(t.columns), NEW k \in DOMAIN t.columns
    PROVE  RowCount(t) = Len(t.columns[k].cells) /\ RowCount(t) \in Nat
<1>1. t.columns # <<>> /\ 1 \in DOMAIN t.columns
  BY LenProperties, EmptySeq DEF ColumnsInOrder
<1>2. t.columns[k] \in SoundColumns
  BY ElementOfSeq, LenProperties DEF ColumnsInOrder
<1>3. Len(t.columns[k].cells) \in Nat
  BY <1>2, LenProperties DEF SoundColumns, ColumnSet
<1>4. QED
  BY <1>1, <1>3 DEF RowCount, ColumnsInOrder

\* InsertAt, by position.
PutIn(s, i, e, new) ==
    /\ Len(new) = Len(s) + 1
    /\ \A j \in 1 .. Len(s) + 1 : new[j] = IF j < i THEN s[j] ELSE IF j = i THEN e ELSE s[j - 1]

\* An insertion makes one element longer, and moves those behind it one on.
LEMMA InsertAtIs ==
    ASSUME NEW S, NEW s \in Seq(S), NEW e \in S, NEW i \in 1 .. Len(s) + 1
    PROVE  InsertAt(s, i, e) \in Seq(S) /\ PutIn(s, i, e, InsertAt(s, i, e))
<1> DEFINE front == SubSeq(s, 1, i - 1)
           middle == front \o <<e>>
           back == SubSeq(s, i, Len(s))
<1>1. front \in Seq(S) /\ Len(front) = i - 1 /\ \A j \in 1 .. i - 1 : front[j] = s[j]
  BY SubSeqProperties, LenProperties
<1>2. back \in Seq(S) /\ Len(back) = Len(s) + 1 - i /\ \A j \in 1 .. Len(s) + 1 - i : back[j] = s[i + j - 1]
  BY SubSeqProperties, LenProperties
<1>3. <<e>> \in Seq(S) /\ Len(<<e>>) = 1 /\ <<e>>[1] = e
  OBVIOUS
<1> HIDE DEF front, back
<1>4. middle \in Seq(S) /\ Len(middle) = i
  BY <1>1, <1>3, ConcatProperties
<1>5. \A j \in 1 .. i : middle[j] = IF j < i THEN s[j] ELSE e
  BY <1>1, <1>3, ConcatProperties
<1> HIDE DEF middle
<1>6. /\ middle \o back \in Seq(S)
      /\ Len(middle \o back) = Len(middle) + Len(back)
      /\ \A j \in 1 .. Len(middle) + Len(back) :
            (middle \o back)[j] = IF j <= Len(middle) THEN middle[j] ELSE back[j - Len(middle)]
  BY <1>2, <1>4, ConcatProperties
<1>7. Len(middle \o back) = Len(s) + 1
  BY <1>2, <1>4, <1>6, LenProperties
<1>8. ASSUME NEW j \in 1 .. Len(s) + 1
      PROVE  (middle \o back)[j] = IF j < i THEN s[j] ELSE IF j = i THEN e ELSE s[j - 1]
  <2>1. (middle \o back)[j] = IF j <= i THEN middle[j] ELSE back[j - i]
    BY <1>2, <1>4, <1>6, LenProperties
  <2>2. Len(s) \in Nat
    BY LenProperties
  <2>3. i \in Nat /\ j \in Nat
    BY <2>2
  <2>4. CASE j <= i
    BY <1>5, <2>1, <2>3, <2>4
  <2>5. CASE ~(j <= i)
    <3>1. j - i \in 1 .. Len(s) + 1 - i /\ i + (j - i) - 1 = j - 1
      BY <2>2, <2>3, <2>5
    <3>2. back[j - i] = s[j - 1]
      BY <1>2, <3>1
    <3>3. ~(j < i) /\ j # i
      BY <2>3, <2>5
    <3>4. QED
      BY <2>1, <2>5, <3>2, <3>3
  <2>6. QED
    BY <2>4, <2>5
<1>9. InsertAt(s, i, e) = middle \o back
  BY DEF InsertAt, middle, front, back
<1>10. QED
  BY <1>6, <1>7, <1>8, <1>9 DEF PutIn

\* A name that stands at one position of a list.
OnlyAt(list, name, k) ==
    list[k].name = name /\ \A j \in 1 .. Len(list) : list[j].name = name => j = k

\* A list without what stands at one position.
TakenOut(s, k, new) ==
    /\ Len(new) = Len(s) - 1
    /\ \A j \in 1 .. Len(s) - 1 : new[j] = IF j < k THEN s[j] ELSE s[j + 1]

\* Keeping the entries of another name drops the one of a name that stands once.
LEMMA WithoutIs ==
    ASSUME NEW R, NEW list \in Seq(R), NEW name, NEW k \in 1 .. Len(list), OnlyAt(list, name, k)
    PROVE  Without(list, name) \in Seq(R) /\ TakenOut(list, k, Without(list, name))
<1> DEFINE n == Len(list)
           size(i) == IF i < k THEN i ELSE i - 1
           kept(i) == [j \in 1 .. size(i) |-> IF j < k THEN list[j] ELSE list[j + 1]]
           Body(f) == [i \in 0 .. n |->
                          IF i = 0 THEN <<>>
                          ELSE IF list[i].name # name THEN Append(f[i - 1], list[i]) ELSE f[i - 1]]
           run == [i \in 0 .. n |-> kept(i)]
           upTo == CHOOSE f : f = Body(f)
<1>1. n \in Nat /\ k \in Nat /\ k # 0 /\ k <= n
  BY LenProperties
<1>2. ASSUME NEW i \in 0 .. n
      PROVE  /\ size(i) \in Nat /\ size(i) <= n
             /\ kept(i) \in Seq(R) /\ Len(kept(i)) = size(i)
             /\ \A j \in 1 .. size(i) : kept(i)[j] = IF j < k THEN list[j] ELSE list[j + 1]
  <2>1. i \in Nat /\ size(i) \in Nat /\ size(i) <= n /\ (i >= k => size(i) = i - 1)
        /\ (i < k => size(i) = i)
    BY <1>1
  <2> HIDE DEF size
  <2>2. ASSUME NEW j \in 1 .. size(i) PROVE (IF j < k THEN list[j] ELSE list[j + 1]) \in R
    <3>1. CASE j < k
      <4>1. j \in 1 .. n
        BY <1>1, <2>1
      <4>2. QED
        BY <3>1, <4>1, ElementOfSeq
    <3>2. CASE ~(j < k)
      <4>1. j + 1 \in 1 .. n
        BY <1>1, <2>1, <3>2
      <4>2. QED
        BY <3>2, <4>1, ElementOfSeq
    <3>3. QED
      BY <3>1, <3>2
  <2>3. kept(i) \in [1 .. size(i) -> R]
    BY <2>2
  <2>4. kept(i) \in Seq(R) /\ Len(kept(i)) = size(i)
    <3>1. kept(i) \in Seq(R)
      BY <2>1, <2>3, SeqDef
    <3>2. DOMAIN kept(i) = 1 .. size(i)
      OBVIOUS
    <3> HIDE DEF kept
    <3>3. Len(kept(i)) \in Nat /\ DOMAIN kept(i) = 1 .. Len(kept(i))
      BY <3>1, LenProperties
    <3>4. QED
      BY <2>1, <3>1, <3>2, <3>3
  <2>5. QED
    BY <2>1, <2>4
<1>3. kept(0) = <<>>
  BY <1>1
<1>4. ASSUME NEW i \in 1 .. n
      PROVE  kept(i) = IF list[i].name # name THEN Append(kept(i - 1), list[i]) ELSE kept(i - 1)
  <2>1. i \in Nat /\ i - 1 \in 0 .. n /\ i \in 0 .. n /\ list[i] \in R
    BY <1>1, ElementOfSeq
  <2>2. CASE list[i].name = name
    <3>1. i = k
      BY <2>2 DEF OnlyAt
    <3>2. size(i) = size(i - 1)
      BY <1>1, <3>1
    <3>3. QED
      BY <2>2, <3>2
  <2>3. CASE list[i].name # name
    <3>1. i # k
      BY <2>3 DEF OnlyAt
    <3>2. size(i) = size(i - 1) + 1 /\ size(i - 1) \in Nat
          /\ (i < k => size(i) = i) /\ (~(i < k) => size(i) = i - 1 /\ ~(size(i) < k))
      BY <1>1, <2>1, <3>1
    <3>3. kept(i) \in Seq(R) /\ Len(kept(i)) = size(i)
          /\ \A j \in 1 .. size(i) : kept(i)[j] = IF j < k THEN list[j] ELSE list[j + 1]
      BY <1>2, <2>1
    <3>4. kept(i - 1) \in Seq(R) /\ Len(kept(i - 1)) = size(i - 1)
          /\ \A j \in 1 .. size(i - 1) : kept(i - 1)[j] = IF j < k THEN list[j] ELSE list[j + 1]
      BY <1>2, <2>1
    <3> HIDE DEF kept, size
    <3> DEFINE longer == Append(kept(i - 1), list[i])
    <3>5. /\ longer \in Seq(R) /\ Len(longer) = size(i - 1) + 1
          /\ \A j \in 1 .. size(i - 1) : longer[j] = kept(i - 1)[j]
          /\ longer[size(i - 1) + 1] = list[i]
      BY <2>1, <3>4, AppendProperties
    <3> HIDE DEF longer
    <3>6. ASSUME NEW j \in 1 .. size(i) PROVE kept(i)[j] = longer[j]
      <4>1. CASE j = size(i)
        <5>1. longer[j] = list[i]
          BY <3>2, <3>5, <4>1
        <5>2. kept(i)[j] = list[i]
          <6>1. CASE i < k
            BY <3>2, <3>3, <4>1, <6>1
          <6>2. CASE ~(i < k)
            <7>1. j + 1 = i /\ ~(j < k)
              BY <2>1, <3>2, <4>1, <6>2
            <7>2. QED
              BY <3>3, <7>1
          <6>3. QED
            BY <6>1, <6>2
        <5>3. QED
          BY <5>1, <5>2
      <4>2. CASE j # size(i)
        <5>1. j \in 1 .. size(i - 1)
          BY <3>2, <4>2
        <5>2. QED
          BY <3>3, <3>4, <3>5, <5>1
      <4>3. QED
        BY <4>1, <4>2
    <3>7. Len(kept(i)) = Len(longer)
      BY <3>2, <3>3, <3>5
    <3>8. kept(i) = longer
      BY <3>3, <3>5, <3>6, <3>7, SeqEqual
    <3>9. QED
      BY <2>3, <3>8 DEF longer
  <2>4. QED
    BY <2>2, <2>3
<1> HIDE DEF kept
<1>5. run = Body(run)
  <2>1. ASSUME NEW i \in 0 .. n PROVE run[i] = Body(run)[i]
    <3>1. CASE i = 0
      BY <1>3, <3>1
    <3>2. CASE i # 0
      <4>1. i \in 1 .. n /\ i - 1 \in 0 .. n
        BY <1>1, <3>2
      <4>2. QED
        BY <1>4, <3>2, <4>1
    <3>3. QED
      BY <3>1, <3>2
  <2>2. run = [i \in 0 .. n |-> run[i]] /\ Body(run) = [i \in 0 .. n |-> Body(run)[i]]
    OBVIOUS
  <2> HIDE DEF Body, run
  <2>3. QED
    BY <2>1, <2>2
<1>6. upTo = Body(upTo)
  <2> HIDE DEF run
  <2>1. QED
    BY <1>5
<1> HIDE DEF upTo
<1> DEFINE T == {i \in 0 .. n : upTo[i] = kept(i)}
<1>7. 0 \in T
  BY <1>1, <1>3, <1>6
<1>8. ASSUME NEW i \in 1 .. n, i - 1 \in T PROVE i \in T
  <2>1. i # 0 /\ i \in 0 .. n /\ upTo[i - 1] = kept(i - 1)
    BY <1>1, <1>8
  <2>2. Body(upTo)[i] = IF list[i].name # name THEN Append(upTo[i - 1], list[i]) ELSE upTo[i - 1]
    BY <2>1
  <2> HIDE DEF Body
  <2>3. upTo[i] = kept(i)
    BY <1>4, <1>6, <2>1, <2>2
  <2>4. QED
    BY <2>1, <2>3
<1>9. n \in T
  <2> HIDE DEF T
  <2>1. \A i \in 0 .. n : i \in T
    BY <1>1, <1>7, <1>8, CountingUp
  <2>2. QED
    BY <1>1, <2>1
<1>10. Without(list, name) = kept(n)
  BY <1>9 DEF Without, upTo
<1>11. n \in 0 .. n /\ size(n) = n - 1
  BY <1>1
<1>12. QED
  BY <1>2, <1>10, <1>11 DEF TakenOut

-----------------------------------------------------------------------------
(* What the ops do to columns in order.                                    *)

Replaced(columns, k, column) == [i \in DOMAIN columns |-> IF i = k THEN column ELSE columns[i]]

\* A column may take the place of one of the same name and length.
FitsPlace(columns, k, column) ==
    /\ column \in SoundColumns
    /\ column.name = columns[k].name
    /\ Len(column.cells) = Len(columns[k].cells)

\* A column replaced by one of its name and length keeps the columns in order, and
\* replacing it back gives the columns there were.
LEMMA ReplacedInOrder ==
    ASSUME NEW columns, ColumnsInOrder(columns), NEW k \in DOMAIN columns,
           NEW column, FitsPlace(columns, k, column)
    PROVE  /\ ColumnsInOrder(Replaced(columns, k, column))
           /\ Len(Replaced(columns, k, column)) = Len(columns)
           /\ FitsPlace(Replaced(columns, k, column), k, columns[k])
           /\ Replaced(Replaced(columns, k, column), k, columns[k]) = columns
<1> DEFINE new == Replaced(columns, k, column)
<1>1. /\ columns \in Seq(SoundColumns) /\ Len(columns) \in Nat /\ DOMAIN columns = 1 .. Len(columns)
      /\ \A i \in DOMAIN columns : columns[i] \in SoundColumns
  BY LenProperties, ElementOfSeq DEF ColumnsInOrder
<1>2. new \in [1 .. Len(columns) -> SoundColumns]
  BY <1>1 DEF Replaced, FitsPlace
<1>3. new \in Seq(SoundColumns) /\ Len(new) = Len(columns) /\ DOMAIN new = DOMAIN columns
  <2> HIDE DEF new
  <2>1. QED
    BY <1>1, <1>2, SeqOfFunction
<1>4. \A i \in DOMAIN columns : /\ new[i].name = columns[i].name
                                /\ Len(new[i].cells) = Len(columns[i].cells)
  BY DEF Replaced, FitsPlace
<1>5. new[k] = column
  BY DEF Replaced
<1> DEFINE back == Replaced(new, k, columns[k])
<1>6. back = columns
  <2>1. DOMAIN back = DOMAIN columns /\ back = [i \in DOMAIN back |-> back[i]]
    BY DEF Replaced
  <2>2. columns = [i \in DOMAIN columns |-> columns[i]]
    BY <1>1, LenProperties
  <2>3. \A i \in DOMAIN columns : back[i] = columns[i]
    BY DEF Replaced
  <2> HIDE DEF back
  <2>4. QED
    BY <2>1, <2>2, <2>3
<1> HIDE DEF new
<1>7. ColumnsInOrder(new)
  <2>1. \A i, j \in DOMAIN columns : /\ Len(columns[i].cells) = Len(columns[j].cells)
                                     /\ columns[i].name = columns[j].name => i = j
    BY DEF ColumnsInOrder
  <2>2. QED
    BY <1>3, <1>4, <2>1 DEF ColumnsInOrder
<1>8. FitsPlace(new, k, columns[k])
  BY <1>1, <1>5 DEF FitsPlace
<1>9. QED
  BY <1>3, <1>6, <1>7, <1>8 DEF new

\* An entry that is built afresh.
LEMMA EntryIs ==
    ASSUME NEW name, NEW type
    PROVE  IsEntry(Entry(name, type, <<>>))
<1> DEFINE e == Entry(name, type, <<>>)
<1>1. /\ e.name = name /\ e.type = type /\ e.unit = <<>> /\ e.meta = NoMeta
      /\ e = [name |-> e.name, type |-> e.type, unit |-> e.unit, meta |-> e.meta]
  BY DEF Entry
<1>2. DOMAIN NoMeta = {} /\ NoMeta = [m \in DOMAIN NoMeta |-> NoMeta[m]]
  BY DEF NoMeta
<1>3. IsFiniteSet(DOMAIN NoMeta)
  BY <1>2, FS_EmptySet
<1> HIDE DEF e
<1>4. IsEntry(e)
  BY <1>1, <1>2, <1>3 DEF IsEntry, MayBeUnit
<1>5. QED
  BY <1>4 DEF e

\* The entries of a schema that is built from entries.
LEMMA EntriesStay ==
    ASSUME NEW R, \A e \in R : IsEntry(e), NEW s \in Seq(R)
    PROVE  \A i \in DOMAIN s : IsEntry(s[i])
BY LenProperties

\* Putting a column into a table that is in order: the columns, and the schema.
LEMMA WithColumnIs ==
    ASSUME NEW t, ColumnsInOrder(t.columns), NEW k \in DOMAIN t.columns,
           NEW column, FitsPlace(t.columns, k, column)
    PROVE  /\ WithColumn(t, column).columns = Replaced(t.columns, k, column)
           /\ InOrder(t) => InOrder(WithColumn(t, column))
<1>1. /\ t.columns \in Seq(SoundColumns) /\ Len(t.columns) \in Nat
      /\ DOMAIN t.columns = 1 .. Len(t.columns)
  BY LenProperties DEF ColumnsInOrder
<1>2. \A i \in DOMAIN t.columns : t.columns[i].name = column.name <=> i = k
  BY DEF ColumnsInOrder, FitsPlace
<1>3. WithColumn(t, column).columns = Replaced(t.columns, k, column)
  BY <1>2 DEF WithColumn, Replaced, Table
<1>4. ASSUME InOrder(t) PROVE InOrder(WithColumn(t, column))
  <2> DEFINE new == WithColumn(t, column)
  <2>1. /\ t.schema \in Seq(ToSet(t.schema)) /\ Len(t.schema) = Len(t.columns)
        /\ DOMAIN t.schema = DOMAIN t.columns
        /\ \A i \in DOMAIN t.columns : /\ t.schema[i].name = t.columns[i].name
                                       /\ t.schema[i].type = t.columns[i].type
    BY <1>1, <1>4, LenProperties DEF InOrder
  <2>2. new.schema = [i \in DOMAIN t.schema |->
                        IF t.schema[i].name = column.name /\ t.schema[i].type # column.type
                        THEN Entry(column.name, column.type, <<>>) ELSE t.schema[i]]
    BY DEF WithColumn, Table
  <2>3. new.schema \in [1 .. Len(t.columns) -> ToSet(new.schema)]
    BY <1>1, <2>1, <2>2 DEF ToSet
  <2>4. \A i \in DOMAIN t.columns : new.columns[i] = IF i = k THEN column ELSE t.columns[i]
    BY <1>3 DEF Replaced
  <2>5. \A i \in DOMAIN t.columns : /\ new.schema[i].name = new.columns[i].name
                                    /\ new.schema[i].type = new.columns[i].type
    BY <1>2, <2>1, <2>2, <2>4 DEF Entry
  <2>6. ColumnsInOrder(new.columns) /\ Len(new.columns) = Len(t.columns)
    BY <1>3, ReplacedInOrder
  <2> HIDE DEF new
  <2>7. new.schema \in Seq(ToSet(new.schema)) /\ Len(new.schema) = Len(t.columns)
    BY <1>1, <2>3, SeqOfFunction
  <2>8. DOMAIN new.columns = DOMAIN t.columns
    BY <1>1, <2>6, LenProperties DEF ColumnsInOrder
  <2>9. \A i \in DOMAIN new.schema : IsEntry(new.schema[i])
    <3>1. DOMAIN new.schema = DOMAIN t.schema
      BY <2>2
    <3>2. \A i \in DOMAIN t.schema : IsEntry(t.schema[i])
      BY <1>4 DEF InOrder
    <3>3. QED
      BY <2>2, <3>1, <3>2, EntryIs
  <2>10. QED
    BY <2>5, <2>6, <2>7, <2>8, <2>9 DEF InOrder, new
<1>5. QED
  BY <1>3, <1>4

\* An op takes one list of columns to another, whatever the schema says.
Leads(op, columns, new) ==
    \A t : t.columns = columns => /\ Applied(ApplyColumnOp(op, t))
                                  /\ ApplyColumnOp(op, t).table.columns = new

\* What an edit that applies does: its inverse takes the columns back.
Returns(op, t) ==
    LET after == ApplyColumnOp(op, t).table
    IN  /\ ColumnsInOrder(after.columns)
        /\ Leads(op, t.columns, after.columns)
        /\ Leads(InvertColumnOp(op, t), after.columns, t.columns)
        /\ InvertColumnOp(op, t) \in ColumnEdits
        /\ InOrder(t) => InOrder(after)

CellEdits == [edit: {"setCell"}, col: STRING, row: Int, value: CellSet]

\* A cell the column holds may be set.
Settable(columns, op, k) ==
    /\ columns[k].name = op.col
    /\ op.row + 1 \in DOMAIN columns[k].cells
    /\ Fits(columns[k].type, op.value)

\* Setting a cell gives a column that fits its place, and setting the old one gives it back.
LEMMA CellSetToFits ==
    ASSUME NEW columns, ColumnsInOrder(columns), NEW k \in DOMAIN columns,
           NEW r \in DOMAIN columns[k].cells, NEW v \in CellSet, Fits(columns[k].type, v)
    PROVE  /\ FitsPlace(columns, k, CellSetTo(columns[k], r, v))
           /\ CellSetTo(columns[k], r, v).type = columns[k].type
           /\ DOMAIN CellSetTo(columns[k], r, v).cells = DOMAIN columns[k].cells
           /\ CellSetTo(CellSetTo(columns[k], r, v), r, columns[k].cells[r]) = columns[k]
<1> DEFINE old == columns[k]
           new == CellSetTo(old, r, v)
<1>1. old \in SoundColumns
  BY LenProperties, ElementOfSeq DEF ColumnsInOrder
<1>2. old \in ColumnSet /\ \A q \in DOMAIN old.cells : Fits(old.type, old.cells[q])
  BY <1>1 DEF SoundColumns
<1>3. old.cells \in Seq(CellSet) /\ r \in 1 .. Len(old.cells)
  BY <1>2, LenProperties DEF ColumnSet
<1>4. [old.cells EXCEPT ![r] = v] \in Seq(CellSet) /\ Len([old.cells EXCEPT ![r] = v]) = Len(old.cells)
  BY <1>3, ExceptSeq
<1>5. /\ new.name = old.name /\ new.type = old.type /\ new.cells = [old.cells EXCEPT ![r] = v]
      /\ new \in ColumnSet
  BY <1>2, <1>4 DEF CellSetTo, ColumnSet
<1>6. new \in SoundColumns
  BY <1>2, <1>3, <1>5 DEF SoundColumns
<1>7. CellSetTo(new, r, old.cells[r]) = old
  <2>1. [new.cells EXCEPT ![r] = old.cells[r]] = old.cells
    <3>1. old.cells = [q \in DOMAIN old.cells |-> old.cells[q]]
      BY <1>3, LenProperties
    <3>2. DOMAIN new.cells = DOMAIN old.cells
      BY <1>5
    <3>3. \A q \in DOMAIN old.cells : [new.cells EXCEPT ![r] = old.cells[r]][q] = old.cells[q]
      BY <1>5
    <3> DEFINE cells == [new.cells EXCEPT ![r] = old.cells[r]]
    <3>4. cells = [q \in DOMAIN old.cells |-> cells[q]]
      BY <3>2
    <3> HIDE DEF cells
    <3>5. QED
      BY <3>1, <3>3, <3>4 DEF cells
  <2>2. new \in ColumnSet
    BY <1>5
  <2>3. CellSetTo(new, r, old.cells[r]) = [new EXCEPT !.cells = old.cells]
    BY <1>2, <1>5, <2>1 DEF CellSetTo, ColumnSet
  <2>4. QED
    BY <1>2, <1>5, <2>3 DEF ColumnSet
<1>8. QED
  BY <1>4, <1>5, <1>6, <1>7 DEF FitsPlace

\* What an edit that applies leaves ...
LEMMA EditedIs ==
    ASSUME NEW t
    PROVE  Applied(Edited(t)) /\ Edited(t).table = t
BY DEF Edited, Applied

\* ... and an edit that is refused leaves nothing (ColumnApplyError).
LEMMA RefusedIs ==
    /\ ~Applied(EditRefused("noSuchColumn")) /\ ~Applied(EditRefused("rowOutOfRange"))
    /\ ~Applied(EditRefused("cellTypeMismatch")) /\ ~Applied(EditRefused("columnLengthMismatch"))
    /\ ~Applied(EditRefused("duplicateColumn")) /\ ~Applied(EditRefused("rowShapeUnknownColumn"))
BY Zenon DEF EditRefused, Applied

\* A cell is set when its column is there and takes the value at that row, and only then.
LEMMA SetCellIs ==
    ASSUME NEW t, ColumnsInOrder(t.columns), NEW op \in CellEdits
    PROVE  /\ \A k \in DOMAIN t.columns : Settable(t.columns, op, k) =>
                ApplyColumnOp(op, t) = Edited(WithColumn(t, CellSetTo(t.columns[k], op.row + 1, op.value)))
           /\ Applied(ApplyColumnOp(op, t)) => \E k \in DOMAIN t.columns : Settable(t.columns, op, k)
<1>1. ApplyColumnOp(op, t) = SetCell(t, op) /\ op.row \in Int
  BY DEF CellEdits, ApplyColumnOp
<1>2. ASSUME NEW k \in DOMAIN t.columns
      PROVE  /\ ColumnAt(t, t.columns[k].name) = k /\ k # 0 /\ FindColumn(t, t.columns[k].name) = t.columns[k]
             /\ RowCount(t) = Len(t.columns[k].cells) /\ RowCount(t) \in Nat
             /\ DOMAIN t.columns[k].cells = 1 .. Len(t.columns[k].cells)
  <2>1. t.columns[k] \in SoundColumns
    BY LenProperties, ElementOfSeq DEF ColumnsInOrder
  <2>2. t.columns[k].cells \in Seq(CellSet)
    BY <2>1 DEF SoundColumns, ColumnSet
  <2>3. QED
    BY <2>2, ColumnAtIs, RowCountIs, LenProperties
<1>3. ASSUME NEW k \in DOMAIN t.columns, Settable(t.columns, op, k)
      PROVE  ApplyColumnOp(op, t) = Edited(WithColumn(t, CellSetTo(t.columns[k], op.row + 1, op.value)))
  <2>1. op.row \in 0 .. (RowCount(t) - 1)
    BY <1>1, <1>2, <1>3 DEF Settable
  <2>2. ColumnAt(t, op.col) # 0 /\ FindColumn(t, op.col) = t.columns[k]
    BY <1>2, <1>3 DEF Settable
  <2>3. QED
    BY <1>1, <1>3, <2>1, <2>2 DEF SetCell, Settable
<1>4. ASSUME Applied(ApplyColumnOp(op, t))
      PROVE  \E k \in DOMAIN t.columns : Settable(t.columns, op, k)
  <2>1. ColumnAt(t, op.col) # 0 /\ op.row \in 0 .. (RowCount(t) - 1)
        /\ Fits(FindColumn(t, op.col).type, op.value)
    <3>1. CASE ColumnAt(t, op.col) = 0
      <4>1. ApplyColumnOp(op, t) = EditRefused("noSuchColumn")
        BY <1>1, <3>1 DEF SetCell
      <4>2. QED
        BY <1>4, <4>1, RefusedIs
    <3>2. CASE ColumnAt(t, op.col) # 0 /\ ~(op.row \in 0 .. (RowCount(t) - 1))
      <4>1. ApplyColumnOp(op, t) = EditRefused("rowOutOfRange")
        BY <1>1, <3>2 DEF SetCell
      <4>2. QED
        BY <1>4, <4>1, RefusedIs
    <3>3. CASE /\ ColumnAt(t, op.col) # 0 /\ op.row \in 0 .. (RowCount(t) - 1)
               /\ ~Fits(FindColumn(t, op.col).type, op.value)
      <4>1. ApplyColumnOp(op, t) = EditRefused("cellTypeMismatch")
        BY <1>1, <3>3 DEF SetCell
      <4>2. QED
        BY <1>4, <4>1, RefusedIs
    <3>4. QED
      BY <3>1, <3>2, <3>3
  <2>2. t.columns \in Seq(SoundColumns)
    BY DEF ColumnsInOrder
  <2>3. ColumnAt(t, op.col) \in DOMAIN t.columns /\ t.columns[ColumnAt(t, op.col)].name = op.col
    BY <2>1, <2>2, ColumnAtFinds
  <2>4. QED
    BY <1>1, <1>2, <2>1, <2>3 DEF Settable, FindColumn
<1>5. QED
  BY <1>3, <1>4

\* Setting a cell.
LEMMA SetCellReturns ==
    ASSUME NEW t, ColumnsInOrder(t.columns), NEW op \in CellEdits, Applied(ApplyColumnOp(op, t))
    PROVE  Returns(op, t)
<1>1. PICK k \in DOMAIN t.columns : Settable(t.columns, op, k)
  BY SetCellIs
<1> DEFINE columns == t.columns
           r == op.row + 1
           old == columns[k].cells[r]
           column == CellSetTo(columns[k], r, op.value)
           new == Replaced(columns, k, column)
           inverse == InvertColumnOp(op, t)
<1>2. /\ ColumnsInOrder(columns) /\ op.edit = "setCell"
      /\ k \in DOMAIN columns /\ r \in DOMAIN columns[k].cells
      /\ op.value \in CellSet /\ Fits(columns[k].type, op.value)
  BY <1>1 DEF CellEdits, Settable
<1>3. /\ FitsPlace(columns, k, column) /\ column.type = columns[k].type
      /\ DOMAIN column.cells = DOMAIN columns[k].cells
      /\ CellSetTo(column, r, old) = columns[k]
  <2>1. ASSUME NEW v \in CellSet, Fits(columns[k].type, v)
        PROVE  /\ FitsPlace(columns, k, CellSetTo(columns[k], r, v))
               /\ CellSetTo(columns[k], r, v).type = columns[k].type
               /\ DOMAIN CellSetTo(columns[k], r, v).cells = DOMAIN columns[k].cells
               /\ CellSetTo(CellSetTo(columns[k], r, v), r, old) = columns[k]
    <3> HIDE DEF r, columns
    <3>1. QED
      BY <1>2, <2>1, CellSetToFits DEF old
  <2>2. QED
    BY <1>2, <2>1
<1>4. columns[k] \in SoundColumns
  BY LenProperties, ElementOfSeq DEF ColumnsInOrder
<1>5. old \in CellSet /\ Fits(columns[k].type, old)
  <2>1. columns[k].cells \in Seq(CellSet)
    BY <1>4 DEF SoundColumns, ColumnSet
  <2>2. QED
    BY <1>2, <1>4, <2>1, LenProperties, ElementOfSeq DEF SoundColumns
<1>6. inverse = [op EXCEPT !.value = old]
  <2>1. FindColumn(t, op.col) = columns[k]
    BY <1>1, ColumnAtIs DEF Settable
  <2>2. QED
    BY <1>2, <2>1 DEF InvertColumnOp
<1>7. inverse \in CellEdits /\ inverse.col = op.col /\ inverse.row = op.row /\ inverse.value = old
  BY <1>5, <1>6 DEF CellEdits
<1>8. /\ ColumnsInOrder(new) /\ new[k] = column /\ DOMAIN new = DOMAIN columns
      /\ Replaced(new, k, columns[k]) = columns
  <2>1. DOMAIN new = DOMAIN columns /\ new[k] = column
    BY DEF Replaced
  <2>2. QED
    BY <1>3, <2>1, ReplacedInOrder
<1>9. Leads(op, columns, new)
  <2>1. ASSUME NEW u, u.columns = columns
        PROVE  Applied(ApplyColumnOp(op, u)) /\ ApplyColumnOp(op, u).table.columns = new
    <3>1. ApplyColumnOp(op, u) = Edited(WithColumn(u, column))
      BY <1>1, <2>1, SetCellIs
    <3>2. WithColumn(u, column).columns = new
      <4> HIDE DEF column
      <4>1. QED
        BY <1>3, <2>1, WithColumnIs
    <3>3. QED
      BY <3>1, <3>2, EditedIs
  <2>2. QED
    BY <2>1 DEF Leads
<1>10. Leads(inverse, new, columns)
  <2> HIDE DEF new
  <2>1. Settable(new, inverse, k)
    <3>1. column.name = columns[k].name
      BY <1>3 DEF FitsPlace
    <3>2. QED
      BY <1>1, <1>2, <1>3, <1>5, <1>7, <1>8, <3>1 DEF Settable
  <2>2. FitsPlace(new, k, columns[k])
    BY <1>3, ReplacedInOrder DEF new
  <2>3. ASSUME NEW u, u.columns = new
        PROVE  Applied(ApplyColumnOp(inverse, u)) /\ ApplyColumnOp(inverse, u).table.columns = columns
    <3> HIDE DEF inverse, column, old
    <3>1. ApplyColumnOp(inverse, u) = Edited(WithColumn(u, CellSetTo(u.columns[k], inverse.row + 1, inverse.value)))
      BY <1>7, <1>8, <2>1, <2>3, SetCellIs
    <3>2. CellSetTo(u.columns[k], inverse.row + 1, inverse.value) = columns[k]
      BY <1>3, <1>7, <1>8, <2>3
    <3>3. WithColumn(u, columns[k]).columns = columns
      BY <1>8, <2>2, <2>3, WithColumnIs
    <3>4. QED
      BY <3>1, <3>2, <3>3, EditedIs
  <2>4. QED
    BY <2>3 DEF Leads
<1>11. ApplyColumnOp(op, t).table = WithColumn(t, column)
  <2>1. ApplyColumnOp(op, t) = Edited(WithColumn(t, column))
    BY <1>1, SetCellIs
  <2>2. QED
    BY <2>1, EditedIs
<1>12. /\ ApplyColumnOp(op, t).table.columns = new
       /\ InOrder(t) => InOrder(ApplyColumnOp(op, t).table)
  BY <1>3, <1>11, WithColumnIs
<1>13. inverse \in ColumnEdits
  BY <1>7 DEF CellEdits, ColumnEdits
<1> HIDE DEF new, inverse
<1>14. QED
  BY <1>8, <1>9, <1>10, <1>12, <1>13 DEF Returns, inverse

ColumnSettings == [edit: {"setColumn"}, column: SoundColumns]

\* A column may be set where one of its name and length stands.
LEMMA SetColumnIs ==
    ASSUME NEW t, ColumnsInOrder(t.columns), NEW op \in ColumnSettings
    PROVE  /\ \A k \in DOMAIN t.columns : FitsPlace(t.columns, k, op.column) =>
                ApplyColumnOp(op, t) = Edited(WithColumn(t, op.column))
           /\ Applied(ApplyColumnOp(op, t)) =>
                \E k \in DOMAIN t.columns : FitsPlace(t.columns, k, op.column)
<1>1. ApplyColumnOp(op, t) = SetColumn(t, op) /\ op.column \in SoundColumns
  BY DEF ColumnSettings, ApplyColumnOp
<1>2. ASSUME NEW k \in DOMAIN t.columns
      PROVE  /\ ColumnAt(t, t.columns[k].name) = k /\ k # 0
             /\ RowCount(t) = Len(t.columns[k].cells)
  BY ColumnAtIs, RowCountIs
<1>3. ASSUME NEW k \in DOMAIN t.columns, FitsPlace(t.columns, k, op.column)
      PROVE  ApplyColumnOp(op, t) = Edited(WithColumn(t, op.column))
  <2>1. ColumnAt(t, op.column.name) # 0 /\ Len(op.column.cells) = RowCount(t)
    BY <1>2, <1>3 DEF FitsPlace
  <2>2. QED
    BY <1>1, <2>1 DEF SetColumn
<1>4. ASSUME Applied(ApplyColumnOp(op, t))
      PROVE  \E k \in DOMAIN t.columns : FitsPlace(t.columns, k, op.column)
  <2>1. ColumnAt(t, op.column.name) # 0
    <3>1. CASE ColumnAt(t, op.column.name) = 0
      <4>1. ApplyColumnOp(op, t) = EditRefused("noSuchColumn")
        BY <1>1, <3>1 DEF SetColumn
      <4>2. QED
        BY <1>4, <4>1, RefusedIs
    <3>2. QED
      BY <3>1
  <2>2. Len(op.column.cells) = RowCount(t)
    <3>1. CASE Len(op.column.cells) # RowCount(t)
      <4>1. ApplyColumnOp(op, t) = EditRefused("columnLengthMismatch")
        BY <1>1, <2>1, <3>1 DEF SetColumn
      <4>2. QED
        BY <1>4, <4>1, RefusedIs
    <3>2. QED
      BY <3>1
  <2>3. t.columns \in Seq(SoundColumns)
    BY DEF ColumnsInOrder
  <2>4. ColumnAt(t, op.column.name) \in DOMAIN t.columns
        /\ t.columns[ColumnAt(t, op.column.name)].name = op.column.name
    BY <2>1, <2>3, ColumnAtFinds
  <2>5. QED
    BY <1>1, <1>2, <2>2, <2>4 DEF FitsPlace
<1>5. QED
  BY <1>3, <1>4

\* Setting a column.
LEMMA SetColumnReturns ==
    ASSUME NEW t, ColumnsInOrder(t.columns), NEW op \in ColumnSettings, Applied(ApplyColumnOp(op, t))
    PROVE  Returns(op, t)
<1>1. PICK k \in DOMAIN t.columns : FitsPlace(t.columns, k, op.column)
  BY SetColumnIs
<1> DEFINE columns == t.columns
           new == Replaced(columns, k, op.column)
           inverse == InvertColumnOp(op, t)
<1>2. columns[k] \in SoundColumns /\ op.edit = "setColumn"
  BY LenProperties, ElementOfSeq DEF ColumnsInOrder, ColumnSettings
<1>3. inverse \in ColumnSettings /\ inverse.column = columns[k]
  <2>1. FindColumn(t, op.column.name) = columns[k]
    BY <1>1, ColumnAtIs DEF FitsPlace
  <2>2. inverse = [op EXCEPT !.column = columns[k]]
    BY <1>2, <2>1 DEF InvertColumnOp
  <2>3. QED
    BY <1>2, <2>2 DEF ColumnSettings
<1>4. /\ ColumnsInOrder(new) /\ FitsPlace(new, k, columns[k]) /\ Replaced(new, k, columns[k]) = columns
      /\ k \in DOMAIN new
  <2>1. DOMAIN new = DOMAIN columns
    BY DEF Replaced
  <2>2. QED
    BY <1>1, <2>1, ReplacedInOrder
<1>5. Leads(op, columns, new)
  <2>1. ASSUME NEW u, u.columns = columns
        PROVE  Applied(ApplyColumnOp(op, u)) /\ ApplyColumnOp(op, u).table.columns = new
    <3>1. ApplyColumnOp(op, u) = Edited(WithColumn(u, op.column))
      BY <1>1, <2>1, SetColumnIs
    <3>2. ASSUME NEW column, FitsPlace(columns, k, column)
          PROVE  WithColumn(u, column).columns = Replaced(columns, k, column)
      BY <2>1, <3>2, WithColumnIs
    <3>3. QED
      BY <1>1, <3>1, <3>2, EditedIs
  <2>2. QED
    BY <2>1 DEF Leads
<1>6. Leads(inverse, new, columns)
  <2> HIDE DEF new, inverse
  <2>1. ASSUME NEW u, u.columns = new
        PROVE  Applied(ApplyColumnOp(inverse, u)) /\ ApplyColumnOp(inverse, u).table.columns = columns
    <3>1. ApplyColumnOp(inverse, u) = Edited(WithColumn(u, columns[k]))
      BY <1>3, <1>4, <2>1, SetColumnIs
    <3>2. WithColumn(u, columns[k]).columns = columns
      BY <1>4, <2>1, WithColumnIs
    <3>3. QED
      BY <3>1, <3>2, EditedIs
  <2>2. QED
    BY <2>1 DEF Leads
<1>7. /\ ApplyColumnOp(op, t).table.columns = new
      /\ InOrder(t) => InOrder(ApplyColumnOp(op, t).table)
  <2>1. ApplyColumnOp(op, t).table = WithColumn(t, op.column)
    BY <1>1, SetColumnIs, EditedIs
  <2>2. QED
    BY <1>1, <2>1, WithColumnIs
<1>8. inverse \in ColumnEdits
  BY <1>3 DEF ColumnSettings, ColumnEdits
<1> HIDE DEF new, inverse
<1>9. QED
  BY <1>4, <1>5, <1>6, <1>7, <1>8 DEF Returns, inverse

-----------------------------------------------------------------------------
(* Columns put in and taken out.                                           *)

\* A list holds elements of its own range.
LEMMA OwnSet ==
    ASSUME NEW R, NEW s \in Seq(R)
    PROVE  s \in Seq(ToSet(s))
<1>1. Len(s) \in Nat /\ DOMAIN s = 1 .. Len(s) /\ s \in [1 .. Len(s) -> R]
  BY LenProperties
<1>2. s \in [1 .. Len(s) -> ToSet(s)]
  BY <1>1 DEF ToSet
<1>3. QED
  BY <1>1, <1>2, SeqOfFunction

\* What is put in and taken out again leaves the list as it was.
LEMMA WithoutInserted ==
    ASSUME NEW R, NEW s \in Seq(R), NEW e \in R, NEW i \in 1 .. Len(s) + 1,
           \A j \in 1 .. Len(s) : s[j].name # e.name
    PROVE  Without(InsertAt(s, i, e), e.name) = s
<1> DEFINE new == InsertAt(s, i, e)
           back == Without(new, e.name)
<1>1. Len(s) \in Nat /\ i \in Nat /\ i # 0
  BY LenProperties
<1>2. /\ new \in Seq(R) /\ Len(new) = Len(s) + 1
      /\ \A j \in 1 .. Len(s) + 1 : new[j] = IF j < i THEN s[j] ELSE IF j = i THEN e ELSE s[j - 1]
  <2>1. new \in Seq(R) /\ PutIn(s, i, e, new)
    BY InsertAtIs
  <2>2. QED
    BY <2>1 DEF PutIn
<1> HIDE DEF new
<1>3. OnlyAt(new, e.name, i)
  <2>1. new[i] = e
    BY <1>2
  <2>2. ASSUME NEW j \in 1 .. Len(s) + 1, new[j].name = e.name PROVE j = i
    <3>1. CASE j < i
      <4>1. j \in 1 .. Len(s) /\ new[j] = s[j]
        BY <1>1, <1>2, <3>1
      <4>2. QED
        BY <2>2, <4>1
    <3>2. CASE ~(j < i) /\ j # i
      <4>1. j - 1 \in 1 .. Len(s) /\ new[j] = s[j - 1]
        BY <1>1, <1>2, <3>2
      <4>2. QED
        BY <2>2, <4>1
    <3>3. QED
      BY <3>1, <3>2
  <2>3. QED
    BY <1>2, <2>1, <2>2 DEF OnlyAt
<1>4. /\ back \in Seq(R) /\ Len(back) = Len(new) - 1
      /\ \A j \in 1 .. Len(new) - 1 : back[j] = IF j < i THEN new[j] ELSE new[j + 1]
  <2>1. i \in 1 .. Len(new)
    BY <1>1, <1>2
  <2>2. back \in Seq(R) /\ TakenOut(new, i, back)
    BY <1>2, <1>3, <2>1, WithoutIs
  <2>3. QED
    BY <2>2 DEF TakenOut
<1>5. Len(new) - 1 = Len(s)
  BY <1>1, <1>2
<1> HIDE DEF back
<1>6. ASSUME NEW j \in 1 .. Len(s) PROVE back[j] = s[j]
  <2>1. CASE j < i
    BY <1>1, <1>2, <1>4, <1>5, <2>1
  <2>2. CASE ~(j < i)
    <3>1. j + 1 \in 1 .. Len(s) + 1 /\ ~(j + 1 < i) /\ j + 1 # i /\ (j + 1) - 1 = j
      BY <1>1, <2>2
    <3>2. new[j + 1] = s[j]
      BY <1>2, <3>1
    <3>3. QED
      BY <1>4, <1>5, <2>2, <3>2
  <2>3. QED
    BY <2>1, <2>2
<1>7. back = s
  BY <1>4, <1>5, <1>6, SeqEqual
<1>8. QED
  BY <1>7 DEF back, new

\* What is taken out and put in again too.
LEMMA InsertedWithout ==
    ASSUME NEW R, NEW s \in Seq(R), NEW name, NEW k \in 1 .. Len(s), OnlyAt(s, name, k)
    PROVE  InsertAt(Without(s, name), k, s[k]) = s
<1> DEFINE less == Without(s, name)
           e == s[k]
           back == InsertAt(less, k, e)
<1>1. Len(s) \in Nat /\ k \in Nat /\ k # 0 /\ e \in R
  BY LenProperties, ElementOfSeq
<1>2. /\ less \in Seq(R) /\ Len(less) = Len(s) - 1
      /\ \A j \in 1 .. Len(s) - 1 : less[j] = IF j < k THEN s[j] ELSE s[j + 1]
  BY WithoutIs DEF TakenOut
<1> HIDE DEF less
<1>3. k \in 1 .. Len(less) + 1 /\ Len(less) + 1 = Len(s)
  BY <1>1, <1>2
<1>4. /\ back \in Seq(R) /\ Len(back) = Len(less) + 1
      /\ \A j \in 1 .. Len(less) + 1 : back[j] = IF j < k THEN less[j] ELSE IF j = k THEN e ELSE less[j - 1]
  <2> HIDE DEF e
  <2>1. back \in Seq(R) /\ PutIn(less, k, e, back)
    BY <1>1, <1>2, <1>3, InsertAtIs
  <2>2. QED
    BY <2>1 DEF PutIn
<1> HIDE DEF back
<1>5. ASSUME NEW j \in 1 .. Len(s) PROVE back[j] = s[j]
  <2>1. CASE j < k
    <3>1. j \in 1 .. Len(s) - 1
      BY <1>1, <2>1
    <3>2. QED
      BY <1>2, <1>3, <1>4, <2>1, <3>1
  <2>2. CASE j = k
    BY <1>1, <1>3, <1>4, <2>2
  <2>3. CASE ~(j < k) /\ j # k
    <3>1. j - 1 \in 1 .. Len(s) - 1 /\ ~(j - 1 < k) /\ (j - 1) + 1 = j
      BY <1>1, <2>3
    <3>2. less[j - 1] = s[j]
      BY <1>2, <3>1
    <3>3. QED
      BY <1>3, <1>4, <2>3, <3>2
  <2>4. QED
    BY <2>1, <2>2, <2>3
<1>6. back = s
  BY <1>3, <1>4, <1>5, SeqEqual
<1>7. QED
  BY <1>6 DEF back, less

ColumnInserts == [edit: {"insertColumn"}, index: Int, column: SoundColumns]
ColumnRemovals == [edit: {"removeColumn"}, name: STRING]

\* A column may join others: its name is its own and it is of their length.
Joins(columns, column) ==
    /\ column \in SoundColumns
    /\ \A j \in DOMAIN columns : /\ columns[j].name # column.name
                                 /\ Len(columns[j].cells) = Len(column.cells)

PlaceOf(columns, op) == 1 + ClampInt(op.index, 0, Len(columns))

\* Columns in order stay so with one more among them, or one less.
LEMMA InsertedInOrder ==
    ASSUME NEW columns, ColumnsInOrder(columns), NEW column, Joins(columns, column),
           NEW i \in 1 .. Len(columns) + 1
    PROVE  /\ ColumnsInOrder(InsertAt(columns, i, column))
           /\ PutIn(columns, i, column, InsertAt(columns, i, column))
           /\ Without(InsertAt(columns, i, column), column.name) = columns
<1> DEFINE new == InsertAt(columns, i, column)
           from(j) == IF j < i THEN j ELSE j - 1
<1>1. /\ columns \in Seq(SoundColumns) /\ Len(columns) \in Nat /\ DOMAIN columns = 1 .. Len(columns)
      /\ i \in Nat /\ i # 0 /\ column \in SoundColumns
  BY LenProperties DEF ColumnsInOrder, Joins
<1>2. /\ new \in Seq(SoundColumns) /\ Len(new) = Len(columns) + 1
      /\ \A j \in 1 .. Len(columns) + 1 :
            new[j] = IF j < i THEN columns[j] ELSE IF j = i THEN column ELSE columns[j - 1]
  <2>1. new \in Seq(SoundColumns) /\ PutIn(columns, i, column, new)
    BY <1>1, InsertAtIs
  <2>2. QED
    BY <2>1 DEF PutIn
<1>3. Without(new, column.name) = columns
  BY <1>1, WithoutInserted DEF Joins
<1> HIDE DEF new
<1>4. DOMAIN new = 1 .. Len(columns) + 1
  BY <1>2, LenProperties
<1>5. ASSUME NEW j \in DOMAIN new, j # i
      PROVE  from(j) \in DOMAIN columns /\ new[j] = columns[from(j)]
  BY <1>1, <1>2, <1>4, <1>5
<1>6. new[i] = column
  BY <1>1, <1>2, <1>4
<1>7. ASSUME NEW j \in DOMAIN new, NEW k \in DOMAIN new
      PROVE  Len(new[j].cells) = Len(new[k].cells) /\ (new[j].name = new[k].name => j = k)
  <2>1. CASE j = i /\ k = i
    BY <2>1
  <2>2. CASE j = i /\ k # i
    <3>1. from(k) \in DOMAIN columns /\ new[k] = columns[from(k)]
      BY <1>5, <2>2
    <3> HIDE DEF from
    <3>2. QED
      BY <1>6, <2>2, <3>1 DEF Joins
  <2>3. CASE j # i /\ k = i
    <3>1. from(j) \in DOMAIN columns /\ new[j] = columns[from(j)]
      BY <1>5, <2>3
    <3> HIDE DEF from
    <3>2. QED
      BY <1>6, <2>3, <3>1 DEF Joins
  <2>4. CASE j # i /\ k # i
    <3>1. /\ from(j) \in DOMAIN columns /\ new[j] = columns[from(j)]
          /\ from(k) \in DOMAIN columns /\ new[k] = columns[from(k)]
      BY <1>5, <2>4
    <3>2. from(j) = from(k) => j = k
      BY <1>1, <1>4, <2>4
    <3> HIDE DEF from
    <3>3. QED
      BY <3>1, <3>2 DEF ColumnsInOrder
  <2>5. QED
    BY <2>1, <2>2, <2>3, <2>4
<1>8. ColumnsInOrder(new)
  BY <1>2, <1>7 DEF ColumnsInOrder
<1>9. QED
  BY <1>2, <1>3, <1>8 DEF new, PutIn

\* A column taken out leaves the rest in order, and fits in again where it was.
LEMMA RemovedInOrder ==
    ASSUME NEW columns, ColumnsInOrder(columns), NEW k \in DOMAIN columns
    PROVE  /\ ColumnsInOrder(Without(columns, columns[k].name))
           /\ TakenOut(columns, k, Without(columns, columns[k].name))
           /\ InsertAt(Without(columns, columns[k].name), k, columns[k]) = columns
           /\ Joins(Without(columns, columns[k].name), columns[k])
<1> DEFINE column == columns[k]
           name == column.name
           less == Without(columns, name)
           from(j) == IF j < k THEN j ELSE j + 1
<1>1. /\ columns \in Seq(SoundColumns) /\ Len(columns) \in Nat /\ DOMAIN columns = 1 .. Len(columns)
      /\ k \in Nat /\ k # 0 /\ column \in SoundColumns
  BY LenProperties, ElementOfSeq DEF ColumnsInOrder
<1>2. OnlyAt(columns, name, k)
  BY <1>1 DEF OnlyAt, ColumnsInOrder
<1> HIDE DEF name
<1>3. /\ less \in Seq(SoundColumns) /\ Len(less) = Len(columns) - 1
      /\ \A j \in 1 .. Len(columns) - 1 : less[j] = IF j < k THEN columns[j] ELSE columns[j + 1]
  <2>1. less \in Seq(SoundColumns) /\ TakenOut(columns, k, less)
    BY <1>1, <1>2, WithoutIs
  <2>2. QED
    BY <2>1 DEF TakenOut
<1>4. InsertAt(less, k, columns[k]) = columns
  BY <1>1, <1>2, InsertedWithout
<1> HIDE DEF less
<1>5. DOMAIN less = 1 .. Len(columns) - 1
  BY <1>3, LenProperties
<1>6. ASSUME NEW j \in DOMAIN less
      PROVE  from(j) \in DOMAIN columns /\ from(j) # k /\ less[j] = columns[from(j)]
  BY <1>1, <1>3, <1>5
<1>7. ASSUME NEW j \in DOMAIN less, NEW i \in DOMAIN less
      PROVE  Len(less[j].cells) = Len(less[i].cells) /\ (less[j].name = less[i].name => j = i)
  <2>1. /\ from(j) \in DOMAIN columns /\ less[j] = columns[from(j)]
        /\ from(i) \in DOMAIN columns /\ less[i] = columns[from(i)]
    BY <1>6
  <2>2. from(j) = from(i) => j = i
    BY <1>1, <1>5
  <2> HIDE DEF from
  <2>3. QED
    BY <2>1, <2>2 DEF ColumnsInOrder
<1>8. ColumnsInOrder(less)
  BY <1>3, <1>7 DEF ColumnsInOrder
<1>9. Joins(less, column)
  <2>1. ASSUME NEW j \in DOMAIN less
        PROVE  less[j].name # column.name /\ Len(less[j].cells) = Len(column.cells)
    <3>1. from(j) \in DOMAIN columns /\ from(j) # k /\ less[j] = columns[from(j)]
      BY <1>6
    <3> HIDE DEF from
    <3>2. QED
      BY <3>1 DEF ColumnsInOrder
  <2> HIDE DEF column
  <2>2. QED
    BY <1>1, <2>1 DEF Joins
<1>10. QED
  BY <1>3, <1>4, <1>8, <1>9 DEF less, name, TakenOut

\* What InsertColumn asks for, and the place it puts the column at.
LEMMA InsertColumnIs ==
    ASSUME NEW t, ColumnsInOrder(t.columns), NEW op \in ColumnInserts
    PROVE  /\ Joins(t.columns, op.column) =>
                ApplyColumnOp(op, t) =
                    Edited(Table(InsertAt(t.schema, PlaceOf(t.columns, op),
                                          Entry(op.column.name, op.column.type, <<>>)),
                                 InsertAt(t.columns, PlaceOf(t.columns, op), op.column)))
           /\ Applied(ApplyColumnOp(op, t)) => Joins(t.columns, op.column)
           /\ PlaceOf(t.columns, op) \in 1 .. Len(t.columns) + 1
<1>1. ApplyColumnOp(op, t) = InsertColumn(t, op) /\ op.column \in SoundColumns /\ op.index \in Int
  BY DEF ColumnInserts, ApplyColumnOp
<1>2. /\ t.columns \in Seq(SoundColumns) /\ Len(t.columns) \in Nat
      /\ DOMAIN t.columns = 1 .. Len(t.columns)
  BY LenProperties DEF ColumnsInOrder
<1>3. PlaceOf(t.columns, op) \in 1 .. Len(t.columns) + 1
  BY <1>1, <1>2 DEF PlaceOf, ClampInt
<1>4. (\A j \in DOMAIN t.columns : t.columns[j].name # op.column.name) <=> ColumnAt(t, op.column.name) = 0
  BY <1>2, ColumnAtFinds
<1>5. t.columns # <<>> <=> DOMAIN t.columns # {}
  BY <1>2, EmptySeq
<1>6. \A j \in DOMAIN t.columns : Len(t.columns[j].cells) = RowCount(t)
  BY RowCountIs
<1>7. ASSUME Joins(t.columns, op.column)
      PROVE  ApplyColumnOp(op, t) =
                Edited(Table(InsertAt(t.schema, PlaceOf(t.columns, op),
                                      Entry(op.column.name, op.column.type, <<>>)),
                             InsertAt(t.columns, PlaceOf(t.columns, op), op.column)))
  <2>1. ColumnAt(t, op.column.name) = 0
    BY <1>4, <1>7 DEF Joins
  <2>2. ~(t.columns # <<>> /\ Len(op.column.cells) # RowCount(t))
    BY <1>5, <1>6, <1>7 DEF Joins
  <2>3. QED
    BY <1>1, <2>1, <2>2 DEF InsertColumn, PlaceOf
<1>8. ASSUME Applied(ApplyColumnOp(op, t)) PROVE Joins(t.columns, op.column)
  <2>1. ColumnAt(t, op.column.name) = 0
    <3>1. CASE ColumnAt(t, op.column.name) # 0
      <4>1. ApplyColumnOp(op, t) = EditRefused("duplicateColumn")
        BY <1>1, <3>1 DEF InsertColumn
      <4>2. QED
        BY <1>8, <4>1, RefusedIs
    <3>2. QED
      BY <3>1
  <2>2. t.columns = <<>> \/ Len(op.column.cells) = RowCount(t)
    <3>1. CASE t.columns # <<>> /\ Len(op.column.cells) # RowCount(t)
      <4>1. ApplyColumnOp(op, t) = EditRefused("columnLengthMismatch")
        BY <1>1, <2>1, <3>1 DEF InsertColumn
      <4>2. QED
        BY <1>8, <4>1, RefusedIs
    <3>2. QED
      BY <3>1
  <2>3. QED
    BY <1>1, <1>4, <1>5, <1>6, <2>1, <2>2 DEF Joins
<1>9. QED
  BY <1>3, <1>7, <1>8

\* What RemoveColumn asks for.
LEMMA RemoveColumnIs ==
    ASSUME NEW t, ColumnsInOrder(t.columns), NEW op \in ColumnRemovals
    PROVE  /\ \A k \in DOMAIN t.columns : t.columns[k].name = op.name =>
                ApplyColumnOp(op, t) = Edited(Table(Without(t.schema, op.name), Without(t.columns, op.name)))
           /\ Applied(ApplyColumnOp(op, t)) => \E k \in DOMAIN t.columns : t.columns[k].name = op.name
<1>1. ApplyColumnOp(op, t) = RemoveColumn(t, op)
  BY DEF ColumnRemovals, ApplyColumnOp
<1>2. t.columns \in Seq(SoundColumns)
  BY DEF ColumnsInOrder
<1>3. ASSUME NEW k \in DOMAIN t.columns, t.columns[k].name = op.name
      PROVE  ApplyColumnOp(op, t) = Edited(Table(Without(t.schema, op.name), Without(t.columns, op.name)))
  <2>1. ColumnAt(t, op.name) # 0
    BY <1>3, ColumnAtIs
  <2>2. QED
    BY <1>1, <2>1 DEF RemoveColumn
<1>4. ASSUME Applied(ApplyColumnOp(op, t))
      PROVE  \E k \in DOMAIN t.columns : t.columns[k].name = op.name
  <2>1. ColumnAt(t, op.name) # 0
    <3>1. CASE ColumnAt(t, op.name) = 0
      <4>1. ApplyColumnOp(op, t) = EditRefused("noSuchColumn")
        BY <1>1, <3>1 DEF RemoveColumn
      <4>2. QED
        BY <1>4, <4>1, RefusedIs
    <3>2. QED
      BY <3>1
  <2>2. QED
    BY <1>2, <2>1, ColumnAtFinds
<1>5. QED
  BY <1>3, <1>4

TableIn(schema, columns) == InOrder(Table(schema, columns))

\* The two parts of a table.
LEMMA TableIs ==
    ASSUME NEW schema, NEW columns
    PROVE  Table(schema, columns).schema = schema /\ Table(schema, columns).columns = columns
BY DEF Table

\* The schema follows the columns.
LEMMA SchemaInserted ==
    ASSUME NEW t, InOrder(t), NEW column, Joins(t.columns, column), NEW i \in 1 .. Len(t.columns) + 1
    PROVE  TableIn(InsertAt(t.schema, i, Entry(column.name, column.type, <<>>)), InsertAt(t.columns, i, column))
<1> DEFINE e == Entry(column.name, column.type, <<>>)
           R == ToSet(t.schema) \cup {e}
           schema == InsertAt(t.schema, i, e)
           columns == InsertAt(t.columns, i, column)
<1>1. /\ ColumnsInOrder(t.columns) /\ Len(t.schema) = Len(t.columns) /\ Len(t.columns) \in Nat
      /\ DOMAIN t.columns = 1 .. Len(t.columns)
      /\ t.schema \in Seq(ToSet(t.schema))
      /\ \A j \in DOMAIN t.columns : /\ t.schema[j].name = t.columns[j].name
                                     /\ t.schema[j].type = t.columns[j].type
  BY LenProperties DEF InOrder, ColumnsInOrder
<1>2. t.schema \in Seq(R) /\ e \in R
  BY <1>1, SeqMonotonic
<1>3. e.name = column.name /\ e.type = column.type
  BY DEF Entry
<1> HIDE DEF e, R
<1>4. schema \in Seq(R) /\ PutIn(t.schema, i, e, schema)
  BY <1>1, <1>2, InsertAtIs
<1>5. ColumnsInOrder(columns) /\ PutIn(t.columns, i, column, columns)
  BY <1>1, InsertedInOrder
<1> HIDE DEF schema, columns
<1>6. schema \in Seq(ToSet(schema))
  BY <1>4, OwnSet
<1>7. Len(schema) = Len(columns) /\ DOMAIN columns = 1 .. Len(t.columns) + 1
  <2>1. DOMAIN columns = 1 .. Len(columns)
    BY <1>5, LenProperties DEF ColumnsInOrder
  <2>2. QED
    BY <1>1, <1>4, <1>5, <2>1 DEF PutIn
<1>8. ASSUME NEW j \in 1 .. Len(t.columns) + 1
      PROVE  schema[j].name = columns[j].name /\ schema[j].type = columns[j].type
  <2>1. /\ schema[j] = IF j < i THEN t.schema[j] ELSE IF j = i THEN e ELSE t.schema[j - 1]
        /\ columns[j] = IF j < i THEN t.columns[j] ELSE IF j = i THEN column ELSE t.columns[j - 1]
    BY <1>1, <1>4, <1>5 DEF PutIn
  <2>2. CASE j < i
    <3>1. j \in DOMAIN t.columns
      BY <1>1, <2>2
    <3>2. QED
      BY <1>1, <2>1, <2>2, <3>1
  <2>3. CASE j = i
    BY <1>1, <1>3, <2>1, <2>3
  <2>4. CASE ~(j < i) /\ j # i
    <3>1. j - 1 \in DOMAIN t.columns
      BY <1>1, <2>4
    <3>2. QED
      BY <1>1, <2>1, <2>4, <3>1
  <2>5. QED
    BY <2>2, <2>3, <2>4
<1>9. \A j \in DOMAIN schema : IsEntry(schema[j])
  <2>1. \A x \in R : IsEntry(x)
    BY EntryIs DEF InOrder, ToSet, R, e
  <2>2. QED
    BY <1>4, <2>1, EntriesStay
<1>10. TableIn(schema, columns)
  BY <1>5, <1>6, <1>7, <1>8, <1>9 DEF TableIn, InOrder, Table
<1>11. QED
  BY <1>10 DEF schema, columns, e

\* It follows when a column is taken out, too.
LEMMA SchemaRemoved ==
    ASSUME NEW t, InOrder(t), NEW k \in DOMAIN t.columns
    PROVE  TableIn(Without(t.schema, t.columns[k].name), Without(t.columns, t.columns[k].name))
<1> DEFINE name == t.columns[k].name
           R == ToSet(t.schema)
           schema == Without(t.schema, name)
           columns == Without(t.columns, name)
<1>1. /\ ColumnsInOrder(t.columns) /\ Len(t.schema) = Len(t.columns) /\ Len(t.columns) \in Nat
      /\ DOMAIN t.columns = 1 .. Len(t.columns)
      /\ t.schema \in Seq(R)
      /\ \A j \in DOMAIN t.columns : /\ t.schema[j].name = t.columns[j].name
                                     /\ t.schema[j].type = t.columns[j].type
  BY LenProperties DEF InOrder, ColumnsInOrder
<1>2. OnlyAt(t.schema, name, k)
  BY <1>1 DEF OnlyAt, ColumnsInOrder
<1>3. ColumnsInOrder(columns) /\ TakenOut(t.columns, k, columns)
  BY <1>1, RemovedInOrder
<1> HIDE DEF name
<1>4. schema \in Seq(R) /\ TakenOut(t.schema, k, schema)
  <2>1. k \in 1 .. Len(t.schema)
    BY <1>1
  <2>2. QED
    BY <1>1, <1>2, <2>1, WithoutIs
<1> HIDE DEF schema, columns, R
<1>5. schema \in Seq(ToSet(schema))
  BY <1>4, OwnSet
<1>6. Len(schema) = Len(columns) /\ DOMAIN columns = 1 .. Len(t.columns) - 1
  <2>1. DOMAIN columns = 1 .. Len(columns)
    BY <1>3, LenProperties DEF ColumnsInOrder
  <2>2. QED
    BY <1>1, <1>3, <1>4, <2>1 DEF TakenOut
<1>7. ASSUME NEW j \in 1 .. Len(t.columns) - 1
      PROVE  schema[j].name = columns[j].name /\ schema[j].type = columns[j].type
  <2>1. /\ schema[j] = IF j < k THEN t.schema[j] ELSE t.schema[j + 1]
        /\ columns[j] = IF j < k THEN t.columns[j] ELSE t.columns[j + 1]
    BY <1>1, <1>3, <1>4 DEF TakenOut
  <2>2. j \in DOMAIN t.columns /\ j + 1 \in DOMAIN t.columns
    BY <1>1
  <2>3. QED
    BY <1>1, <2>1, <2>2
<1>8. \A j \in DOMAIN schema : IsEntry(schema[j])
  <2>1. \A x \in R : IsEntry(x)
    BY DEF InOrder, ToSet, R
  <2>2. QED
    BY <1>4, <2>1, EntriesStay
<1>9. TableIn(schema, columns)
  BY <1>3, <1>5, <1>6, <1>7, <1>8 DEF TableIn, InOrder, Table
<1>10. QED
  BY <1>9 DEF schema, columns, name

\* Inserting a column.
LEMMA InsertColumnReturns ==
    ASSUME NEW t, ColumnsInOrder(t.columns), NEW op \in ColumnInserts, Applied(ApplyColumnOp(op, t))
    PROVE  Returns(op, t)
<1> DEFINE columns == t.columns
           column == op.column
           i == PlaceOf(columns, op)
           new == InsertAt(columns, i, column)
           inverse == InvertColumnOp(op, t)
<1>1. Joins(columns, column) /\ i \in 1 .. Len(columns) + 1
  BY InsertColumnIs
<1>2. /\ inverse = [edit |-> "removeColumn", name |-> column.name]
      /\ inverse \in ColumnRemovals /\ inverse.name = column.name
  <2>1. column.name \in STRING
    BY DEF ColumnInserts, SoundColumns, ColumnSet
  <2>2. inverse = [edit |-> "removeColumn", name |-> column.name]
    BY DEF ColumnInserts, InvertColumnOp
  <2> HIDE DEF inverse
  <2>3. QED
    BY <2>1, <2>2 DEF ColumnRemovals
<1>3. ColumnsInOrder(new) /\ PutIn(columns, i, column, new) /\ Without(new, column.name) = columns
  <2> HIDE DEF i, column
  <2>1. QED
    BY <1>1, InsertedInOrder
<1>4. i \in DOMAIN new /\ new[i].name = column.name
  <2> HIDE DEF new, i
  <2>1. Len(new) = Len(columns) + 1 /\ Len(columns) \in Nat /\ DOMAIN new = 1 .. Len(new)
    BY <1>3, LenProperties DEF ColumnsInOrder, PutIn
  <2>2. i \in Nat /\ ~(i < i) /\ i \in 1 .. Len(columns) + 1
    BY <1>1, <2>1
  <2> HIDE DEF column
  <2>3. new[i] = column
    BY <1>3, <2>2 DEF PutIn
  <2>4. QED
    BY <2>1, <2>2, <2>3
<1>5. Leads(op, columns, new)
  <2>1. ASSUME NEW u, u.columns = columns
        PROVE  Applied(ApplyColumnOp(op, u)) /\ ApplyColumnOp(op, u).table.columns = new
    <3> DEFINE schema == InsertAt(u.schema, i, Entry(column.name, column.type, <<>>))
    <3>1. ApplyColumnOp(op, u) = Edited(Table(schema, new))
      BY <1>1, <2>1, InsertColumnIs
    <3> HIDE DEF schema, new
    <3>2. QED
      BY <3>1, EditedIs, TableIs
  <2>2. QED
    BY <2>1 DEF Leads
<1> HIDE DEF new, inverse
<1>6. Leads(inverse, new, columns)
  <2>1. ASSUME NEW u, u.columns = new
        PROVE  Applied(ApplyColumnOp(inverse, u)) /\ ApplyColumnOp(inverse, u).table.columns = columns
    <3>1. ApplyColumnOp(inverse, u) = Edited(Table(Without(u.schema, column.name), Without(new, column.name)))
      BY <1>2, <1>3, <1>4, <2>1, RemoveColumnIs
    <3>2. QED
      BY <1>3, <3>1, EditedIs, TableIs
  <2>2. QED
    BY <2>1 DEF Leads
<1>7. /\ ApplyColumnOp(op, t).table.columns = new
      /\ InOrder(t) => InOrder(ApplyColumnOp(op, t).table)
  <2> DEFINE schema == InsertAt(t.schema, i, Entry(column.name, column.type, <<>>))
  <2>1. ApplyColumnOp(op, t) = Edited(Table(schema, new))
    BY <1>1, InsertColumnIs DEF new
  <2>2. InOrder(t) => TableIn(schema, new)
    <3> HIDE DEF i, column
    <3>1. QED
      BY <1>1, SchemaInserted DEF new
  <2> HIDE DEF schema
  <2>3. ApplyColumnOp(op, t).table = Table(schema, new)
    BY <2>1, EditedIs
  <2>4. QED
    BY <2>2, <2>3, TableIs DEF TableIn
<1>8. inverse \in ColumnEdits
  BY <1>2 DEF ColumnRemovals, ColumnEdits
<1>9. QED
  BY <1>3, <1>5, <1>6, <1>7, <1>8 DEF Returns, inverse

\* Removing a column.
LEMMA RemoveColumnReturns ==
    ASSUME NEW t, ColumnsInOrder(t.columns), NEW op \in ColumnRemovals, Applied(ApplyColumnOp(op, t))
    PROVE  Returns(op, t)
<1>1. PICK k \in DOMAIN t.columns : t.columns[k].name = op.name
  BY RemoveColumnIs
<1> DEFINE columns == t.columns
           new == Without(columns, op.name)
           inverse == InvertColumnOp(op, t)
<1>2. columns[k] \in SoundColumns /\ Len(columns) \in Nat /\ k \in Nat /\ k # 0 /\ k <= Len(columns)
  <2>1. columns \in Seq(SoundColumns) /\ Len(columns) \in Nat /\ DOMAIN columns = 1 .. Len(columns)
    BY LenProperties DEF ColumnsInOrder
  <2>2. columns[k] \in SoundColumns
    BY <2>1, ElementOfSeq
  <2>3. QED
    BY <2>1, <2>2
<1>3. inverse \in ColumnInserts /\ inverse.index = k - 1 /\ inverse.column = columns[k]
  <2>1. ColumnAt(t, op.name) = k /\ FindColumn(t, op.name) = columns[k]
    BY <1>1, ColumnAtIs
  <2>2. inverse = [edit |-> "insertColumn", index |-> ColumnAt(t, op.name) - 1, column |-> FindColumn(t, op.name)]
    BY DEF ColumnRemovals, InvertColumnOp
  <2> HIDE DEF inverse
  <2>3. inverse = [edit |-> "insertColumn", index |-> k - 1, column |-> columns[k]]
    BY <2>1, <2>2
  <2>4. k - 1 \in Int
    BY <1>2
  <2>5. QED
    BY <1>2, <2>3, <2>4 DEF ColumnInserts
<1>4. /\ ColumnsInOrder(new) /\ TakenOut(columns, k, new) /\ Joins(new, columns[k])
      /\ InsertAt(new, k, columns[k]) = columns
  BY <1>1, RemovedInOrder
<1>5. Leads(op, columns, new)
  <2>1. ASSUME NEW u, u.columns = columns
        PROVE  Applied(ApplyColumnOp(op, u)) /\ ApplyColumnOp(op, u).table.columns = new
    <3>1. ApplyColumnOp(op, u) = Edited(Table(Without(u.schema, op.name), new))
      BY <1>1, <2>1, RemoveColumnIs
    <3> HIDE DEF new
    <3>2. QED
      BY <3>1, EditedIs, TableIs
  <2>2. QED
    BY <2>1 DEF Leads
<1> HIDE DEF new, inverse
<1>6. PlaceOf(new, inverse) = k
  <2>1. Len(new) = Len(columns) - 1
    BY <1>4 DEF TakenOut
  <2>2. ~(k - 1 < 0) /\ ~(k - 1 > Len(columns) - 1) /\ 1 + (k - 1) = k
    BY <1>2
  <2> HIDE DEF columns
  <2>3. ClampInt(k - 1, 0, Len(new)) = k - 1
    BY <2>1, <2>2 DEF ClampInt
  <2>4. QED
    BY <1>3, <2>2, <2>3 DEF PlaceOf
<1>7. Leads(inverse, new, columns)
  <2>1. ASSUME NEW u, u.columns = new
        PROVE  Applied(ApplyColumnOp(inverse, u)) /\ ApplyColumnOp(inverse, u).table.columns = columns
    <3> DEFINE schema == InsertAt(u.schema, k, Entry(columns[k].name, columns[k].type, <<>>))
    <3>1. ApplyColumnOp(inverse, u) = Edited(Table(schema, InsertAt(new, k, columns[k])))
      BY <1>3, <1>4, <1>6, <2>1, InsertColumnIs
    <3> HIDE DEF schema
    <3>2. QED
      BY <1>4, <3>1, EditedIs, TableIs
  <2>2. QED
    BY <2>1 DEF Leads
<1>8. /\ ApplyColumnOp(op, t).table.columns = new
      /\ InOrder(t) => InOrder(ApplyColumnOp(op, t).table)
  <2> DEFINE schema == Without(t.schema, op.name)
  <2>1. ApplyColumnOp(op, t) = Edited(Table(schema, new))
    BY <1>1, RemoveColumnIs DEF new
  <2>2. InOrder(t) => TableIn(schema, new)
    BY <1>1, SchemaRemoved DEF new
  <2> HIDE DEF schema
  <2>3. ApplyColumnOp(op, t).table = Table(schema, new)
    BY <2>1, EditedIs
  <2>4. QED
    BY <2>2, <2>3, TableIs DEF TableIn
<1>9. inverse \in ColumnEdits
  BY <1>3 DEF ColumnInserts, ColumnEdits
<1>10. QED
  BY <1>4, <1>5, <1>7, <1>8, <1>9 DEF Returns, inverse

\* Every edit that has an inverse is taken back by it.
LEMMA EditsReturn ==
    ASSUME NEW t, ColumnsInOrder(t.columns), NEW op \in ColumnEdits, Applied(ApplyColumnOp(op, t))
    PROVE  Returns(op, t)
<1>1. op \in CellEdits \/ op \in ColumnSettings \/ op \in ColumnInserts \/ op \in ColumnRemovals
  BY DEF ColumnEdits, CellEdits, ColumnSettings, ColumnInserts, ColumnRemovals
<1>2. QED
  BY <1>1, SetCellReturns, SetColumnReturns, InsertColumnReturns, RemoveColumnReturns

\* Appending rows keeps a table in order.
LEMMA AppendRowsKeeps ==
    ASSUME NEW t, InOrder(t), NEW op \in RowAppends, Applied(ApplyColumnOp(op, t))
    PROVE  InOrder(ApplyColumnOp(op, t).table)
<1> DEFINE columns == t.columns
           cellsOf(name) == [r \in DOMAIN op.rows |-> CellFor(op.rows[r], name)]
           longer(i) == [columns[i] EXCEPT !.cells = @ \o cellsOf(columns[i].name)]
           new == [i \in DOMAIN columns |-> longer(i)]
<1>1. ApplyColumnOp(op, t) = AppendRows(t, op) /\ op.rows \in Seq(Seq([col: STRING, value: CellSet]))
  BY DEF RowAppends, ApplyColumnOp
<1>2. /\ ColumnsInOrder(columns) /\ columns \in Seq(SoundColumns) /\ Len(columns) \in Nat
      /\ DOMAIN columns = 1 .. Len(columns)
      /\ t.schema \in Seq(ToSet(t.schema)) /\ Len(t.schema) = Len(columns)
      /\ \A i \in DOMAIN columns : /\ columns[i] \in SoundColumns
                                   /\ t.schema[i].name = columns[i].name
                                   /\ t.schema[i].type = columns[i].type
  BY LenProperties, ElementOfSeq DEF InOrder, ColumnsInOrder
<1>3. \A r \in DOMAIN op.rows : \A i \in DOMAIN op.rows[r] : ~BadCell(t, op.rows[r][i])
  <2>1. CASE \E r \in DOMAIN op.rows : \E i \in DOMAIN op.rows[r] : BadCell(t, op.rows[r][i])
    <3>1. \/ ApplyColumnOp(op, t) = EditRefused("rowShapeUnknownColumn")
          \/ ApplyColumnOp(op, t) = EditRefused("cellTypeMismatch")
      BY <1>1, <2>1 DEF AppendRows
    <3>2. QED
      BY <3>1, RefusedIs
  <2>2. QED
    BY <2>1
<1>4. ApplyColumnOp(op, t).table = Table(t.schema, new)
  <2>1. ApplyColumnOp(op, t) = Edited(Table(t.schema, new))
    BY <1>1, <1>3 DEF AppendRows
  <2> HIDE DEF new
  <2>2. QED
    BY <2>1, EditedIs
<1>5. ASSUME NEW i \in DOMAIN columns, NEW r \in DOMAIN op.rows
      PROVE  CellFor(op.rows[r], columns[i].name) \in CellSet
             /\ Fits(columns[i].type, CellFor(op.rows[r], columns[i].name))
  <2> DEFINE row == op.rows[r]
             name == columns[i].name
             NamedAt == {q \in DOMAIN row : row[q].col = name}
  <2>1. row \in Seq([col: STRING, value: CellSet])
    BY <1>1, LenProperties, ElementOfSeq
  <2>2. CASE NamedAt = {}
    <3>1. CellFor(row, name) = Null
      BY <2>2 DEF CellFor
    <3>2. QED
      BY <3>1 DEF Null, Cell, CellSet, Fits, IsNull
  <2>3. CASE NamedAt # {}
    <3>1. NamedAt \in SUBSET Nat
      BY <2>1, LenProperties
    <3>2. PICK x \in NamedAt : \A y \in NamedAt : ~(y < x)
      BY <2>3, <3>1, LeastElement
    <3>3. \A y \in 1 .. (x - 1) : row[y].col # name
      BY <2>1, <3>2, LenProperties
    <3>4. \E q \in DOMAIN row : row[q].col = name /\ \A y \in 1 .. (q - 1) : row[y].col # name
      BY <3>2, <3>3
    <3>5. PICK q \in DOMAIN row : row[q].col = name /\ CellFor(row, name) = row[q].value
      BY <3>4 DEF CellFor
    <3>6. row[q] \in [col: STRING, value: CellSet]
      BY <2>1, LenProperties, ElementOfSeq
    <3>7. FindColumn(t, name) = columns[i]
      BY <1>2, ColumnAtIs
    <3>8. Fits(columns[i].type, row[q].value)
      BY <1>3, <3>5, <3>7 DEF BadCell
    <3>9. QED
      BY <3>5, <3>6, <3>8
  <2>4. QED
    BY <2>2, <2>3
<1>6. op.rows \in Seq(Seq([col: STRING, value: CellSet])) /\ DOMAIN op.rows = 1 .. Len(op.rows) /\ Len(op.rows) \in Nat
  BY <1>1, LenProperties
<1>7. ASSUME NEW i \in DOMAIN columns
      PROVE  /\ longer(i) \in SoundColumns
             /\ longer(i).name = columns[i].name /\ longer(i).type = columns[i].type
             /\ Len(longer(i).cells) = Len(columns[i].cells) + Len(op.rows)
  <2> DEFINE name == columns[i].name
             more == cellsOf(name)
             old == columns[i].cells
  <2>1. /\ columns[i] \in ColumnSet /\ old \in Seq(CellSet)
        /\ \A r \in DOMAIN old : Fits(columns[i].type, old[r])
    BY <1>2 DEF SoundColumns, ColumnSet
  <2>2. \A r \in DOMAIN op.rows : CellFor(op.rows[r], name) \in CellSet
    BY <1>5
  <2>3. more \in [1 .. Len(op.rows) -> CellSet]
    BY <1>6, <2>2
  <2>4. \A r \in 1 .. Len(op.rows) : Fits(columns[i].type, more[r])
    BY <1>5, <1>6
  <2> HIDE DEF more
  <2>5. more \in Seq(CellSet) /\ Len(more) = Len(op.rows)
    BY <1>6, <2>3, SeqOfFunction
  <2>6. /\ old \o more \in Seq(CellSet) /\ Len(old \o more) = Len(old) + Len(more)
        /\ \A r \in 1 .. Len(old) + Len(more) : (old \o more)[r] = IF r <= Len(old) THEN old[r] ELSE more[r - Len(old)]
    BY <2>1, <2>5, ConcatProperties
  <2>7. Len(old) \in Nat /\ DOMAIN old = 1 .. Len(old)
    BY <2>1, LenProperties
  <2> DEFINE both == old \o more
  <2>8. ASSUME NEW r \in 1 .. Len(both) PROVE Fits(columns[i].type, both[r])
    <3>1. r \in 1 .. Len(old) + Len(op.rows)
      BY <2>5, <2>6
    <3>2. CASE r <= Len(old)
      <4>1. r \in DOMAIN old /\ both[r] = old[r]
        BY <2>5, <2>6, <2>7, <3>1, <3>2
      <4>2. QED
        BY <2>1, <4>1
    <3>3. CASE ~(r <= Len(old))
      <4>1. r - Len(old) \in 1 .. Len(op.rows)
        <5>1. Len(old) \in Nat /\ Len(op.rows) \in Nat
          BY <1>6, <2>7
        <5> HIDE DEF old
        <5>2. QED
          BY <3>1, <3>3, <5>1
      <4>2. both[r] = more[r - Len(old)]
        BY <2>5, <2>6, <3>1, <3>3
      <4>3. QED
        BY <2>4, <4>1, <4>2
    <3>4. QED
      BY <3>2, <3>3
  <2>9. longer(i) = [columns[i] EXCEPT !.cells = both]
    BY DEF more
  <2>10. both \in Seq(CellSet) /\ DOMAIN both = 1 .. Len(both) /\ Len(both) = Len(old) + Len(op.rows)
    BY <2>5, <2>6, LenProperties
  <2> HIDE DEF both, longer
  <2>11. /\ longer(i) \in ColumnSet /\ longer(i).cells = both
         /\ longer(i).name = columns[i].name /\ longer(i).type = columns[i].type
    BY <2>1, <2>9, <2>10 DEF ColumnSet
  <2>12. QED
    BY <2>8, <2>10, <2>11 DEF SoundColumns
<1> HIDE DEF longer
<1>8. new \in [1 .. Len(columns) -> SoundColumns]
  BY <1>2, <1>7
<1>9. \A i \in DOMAIN columns : new[i] = longer(i)
  OBVIOUS
<1> HIDE DEF new
<1>10. new \in Seq(SoundColumns) /\ Len(new) = Len(columns) /\ DOMAIN new = DOMAIN columns
  BY <1>2, <1>8, SeqOfFunction
<1>11. ASSUME NEW i \in DOMAIN new, NEW j \in DOMAIN new
       PROVE  Len(new[i].cells) = Len(new[j].cells) /\ (new[i].name = new[j].name => i = j)
  <2>1. Len(columns[i].cells) = Len(columns[j].cells) /\ (columns[i].name = columns[j].name => i = j)
    BY <1>2, <1>10 DEF ColumnsInOrder
  <2>2. QED
    BY <1>7, <1>9, <1>10, <2>1
<1>12. ColumnsInOrder(new)
  BY <1>10, <1>11 DEF ColumnsInOrder
<1>13. \A i \in DOMAIN new : t.schema[i].name = new[i].name /\ t.schema[i].type = new[i].type
  BY <1>2, <1>7, <1>9, <1>10
<1>14. InOrder(Table(t.schema, new))
  BY <1>2, <1>10, <1>12, <1>13 DEF InOrder, Table
<1>15. QED
  BY <1>4, <1>14

-----------------------------------------------------------------------------
(* The two stacks.                                                         *)

Entries == [op: ColumnEdits, inverse: ColumnEdits]

\* An entry stands between two lists of columns, and leads from each to the other.
Links(before, entry, after) ==
    /\ ColumnsInOrder(before) /\ ColumnsInOrder(after)
    /\ Leads(entry.op, before, after)
    /\ Leads(entry.inverse, after, before)

\* Back from the columns of now through the undos; on from them through the redos.
Past(P, columns, stack) ==
    /\ P \in [0 .. Len(stack) -> Seq(SoundColumns)]
    /\ P[0] = columns
    /\ \A i \in 1 .. Len(stack) : Links(P[i], stack[i], P[i - 1])
Future(F, columns, stack) ==
    /\ F \in [0 .. Len(stack) -> Seq(SoundColumns)]
    /\ F[0] = columns
    /\ \A i \in 1 .. Len(stack) : Links(F[i - 1], stack[i], F[i])

HistoryAt(columns, back, on, P, F) ==
    /\ ColumnsInOrder(columns)
    /\ back \in Seq(Entries) /\ on \in Seq(Entries)
    /\ Len(back) + Len(on) <= Capacity
    /\ Past(P, columns, back) /\ Future(F, columns, on)

\* The inductive invariant.
HistoryInv ==
    /\ InOrder(table)
    /\ \E P, F : HistoryAt(table.columns, undo, redo, P, F)

\* An edit and its inverse make a link.
LEMMA EditLinks ==
    ASSUME NEW t, ColumnsInOrder(t.columns), NEW op \in ColumnEdits, Applied(ApplyColumnOp(op, t))
    PROVE  /\ Links(t.columns, EditEntry(op, InvertColumnOp(op, t)), ApplyColumnOp(op, t).table.columns)
           /\ EditEntry(op, InvertColumnOp(op, t)) \in Entries
           /\ InOrder(t) => InOrder(ApplyColumnOp(op, t).table)
<1> DEFINE entry == EditEntry(op, InvertColumnOp(op, t))
<1>1. Returns(op, t)
  BY EditsReturn
<1>2. entry.op = op /\ entry.inverse = InvertColumnOp(op, t)
  BY DEF EditEntry
<1>3. InvertColumnOp(op, t) \in ColumnEdits
  BY <1>1 DEF Returns
<1>4. entry \in Entries
  BY <1>3 DEF EditEntry, Entries
<1> HIDE DEF entry
<1>5. Links(t.columns, entry, ApplyColumnOp(op, t).table.columns)
  BY <1>1, <1>2 DEF Returns, Links
<1>6. InOrder(t) => InOrder(ApplyColumnOp(op, t).table)
  BY <1>1 DEF Returns
<1>7. QED
  BY <1>4, <1>5, <1>6 DEF entry

\* Where an op leads is where it takes columns.
LEMMA LeadsAfter ==
    ASSUME NEW columns, ColumnsInOrder(columns), NEW op, NEW new, Leads(op, columns, new)
    PROVE  ColumnsAfter(columns, op) = new
<1>1. Plain(columns).columns = columns
  BY DEF Plain, Table
<1>2. Applied(ApplyColumnOp(op, Plain(columns))) /\ ApplyColumnOp(op, Plain(columns)).table.columns = new
  BY <1>1 DEF Leads
<1>3. columns # Lost
  <2>1. CASE columns = Lost
    <3>1. Lost \in Seq(SoundColumns) /\ Len(Lost) = 1
      BY <2>1 DEF ColumnsInOrder, Lost
    <3>2. Lost[1] \in SoundColumns
      BY <3>1, ElementOfSeq
    <3>3. Lost[1].type = "none" /\ Lost[1].type \in ColumnTypes
      BY <3>2 DEF Lost, Column, SoundColumns, ColumnSet
    <3>4. QED
      BY <3>3 DEF ColumnTypes, Timestamps
  <2>2. QED
    BY <2>1
<1>4. QED
  BY <1>2, <1>3 DEF ColumnsAfter

\* A walk is the run of columns that its ops lead along.
LEMMA WalkIs ==
    ASSUME NEW columns, NEW ops, Len(ops) \in Nat, NEW S, NEW P \in [0 .. Len(ops) -> S],
           P[0] = columns, \A i \in 1 .. Len(ops) : ColumnsAfter(P[i - 1], ops[i]) = P[i]
    PROVE  Walk(columns, ops) = P
<1> DEFINE n == Len(ops)
           Body(f) == [i \in 0 .. n |->
                          IF i = 0 THEN columns ELSE TheOnly({ColumnsAfter(c, ops[i]) : c \in {f[i - 1]}})]
           at == CHOOSE f : f = Body(f)
<1>1. \A x : TheOnly({x}) = x
  BY DEF TheOnly
<1>2. ASSUME NEW f, NEW i
      PROVE  TheOnly({ColumnsAfter(c, ops[i]) : c \in {f[i - 1]}}) = ColumnsAfter(f[i - 1], ops[i])
  <2>1. {ColumnsAfter(c, ops[i]) : c \in {f[i - 1]}} = {ColumnsAfter(f[i - 1], ops[i])}
    OBVIOUS
  <2>2. QED
    BY <1>1, <2>1
<1>3. P = Body(P)
  <2>1. ASSUME NEW i \in 0 .. n PROVE P[i] = Body(P)[i]
    <3>1. CASE i = 0
      BY <3>1
    <3>2. CASE i # 0
      <4>1. i \in 1 .. n
        BY <3>2
      <4>2. Body(P)[i] = TheOnly({ColumnsAfter(c, ops[i]) : c \in {P[i - 1]}})
        BY <3>2
      <4>3. QED
        BY <1>2, <4>1, <4>2
    <3>3. QED
      BY <3>1, <3>2
  <2>2. P = [i \in 0 .. n |-> P[i]] /\ Body(P) = [i \in 0 .. n |-> Body(P)[i]]
    OBVIOUS
  <2> HIDE DEF Body
  <2>3. QED
    BY <2>1, <2>2
<1>4. at = Body(at)
  BY <1>3
<1> HIDE DEF at
<1> DEFINE T == {i \in 0 .. n : at[i] = P[i]}
<1>5. 0 \in T
  BY <1>4
<1>6. ASSUME NEW i \in 1 .. n, i - 1 \in T PROVE i \in T
  <2>1. i # 0 /\ i \in 0 .. n /\ at[i - 1] = P[i - 1]
    BY <1>6
  <2>2. Body(at)[i] = TheOnly({ColumnsAfter(c, ops[i]) : c \in {at[i - 1]}})
    BY <2>1
  <2> HIDE DEF Body
  <2>3. at[i] = P[i]
    BY <1>2, <1>4, <2>1, <2>2
  <2>4. QED
    BY <2>1, <2>3
<1>7. \A i \in 0 .. n : at[i] = P[i]
  <2>1. \A i \in 0 .. n : i \in T
    <3> HIDE DEF T
    <3>1. QED
      BY <1>5, <1>6, CountingUp
  <2>2. QED
    BY <2>1
<1>8. at = P
  <2>1. Body(at) = [i \in 0 .. n |-> Body(at)[i]]
    OBVIOUS
  <2> HIDE DEF Body
  <2>2. at = [i \in 0 .. n |-> at[i]]
    BY <1>4, <2>1
  <2>3. QED
    BY <1>7, <2>2
<1>9. QED
  BY <1>8 DEF Walk, at

\* The line the two stacks stand for.
LEMMA LineIs ==
    ASSUME NEW columns, NEW back, NEW on, NEW P, NEW F, HistoryAt(columns, back, on, P, F)
    PROVE  /\ Walk(columns, Inverses(back)) = P
           /\ Walk(columns, Forwards(on)) = F
<1>1. /\ back \in Seq(Entries) /\ on \in Seq(Entries)
      /\ Len(back) \in Nat /\ DOMAIN back = 1 .. Len(back)
      /\ Len(on) \in Nat /\ DOMAIN on = 1 .. Len(on)
  BY LenProperties DEF HistoryAt
<1>2. Inverses(back) \in [1 .. Len(back) -> ColumnEdits] /\ Forwards(on) \in [1 .. Len(on) -> ColumnEdits]
  <2>1. /\ \A i \in 1 .. Len(back) : back[i] \in Entries
        /\ \A i \in 1 .. Len(on) : on[i] \in Entries
    BY <1>1, ElementOfSeq
  <2>2. QED
    BY <1>1, <2>1 DEF Inverses, Forwards, Entries
<1>3. Len(Inverses(back)) = Len(back) /\ Len(Forwards(on)) = Len(on)
  BY <1>1, <1>2, SeqOfFunction
<1>4. Past(P, columns, back) /\ Future(F, columns, on)
  BY DEF HistoryAt
<1>5. \A i \in 1 .. Len(back) : ColumnsAfter(P[i - 1], Inverses(back)[i]) = P[i]
  <2>1. ASSUME NEW i \in 1 .. Len(back) PROVE ColumnsAfter(P[i - 1], back[i].inverse) = P[i]
    BY <1>4, LeadsAfter DEF Past, Links
  <2>2. QED
    BY <1>1, <2>1 DEF Inverses
<1>6. \A i \in 1 .. Len(on) : ColumnsAfter(F[i - 1], Forwards(on)[i]) = F[i]
  <2>1. ASSUME NEW i \in 1 .. Len(on) PROVE ColumnsAfter(F[i - 1], on[i].op) = F[i]
    BY <1>4, LeadsAfter DEF Future, Links
  <2>2. QED
    BY <1>1, <2>1 DEF Forwards
<1>7. Walk(columns, Inverses(back)) = P
  BY <1>1, <1>3, <1>4, <1>5, WalkIs DEF Past
<1>8. Walk(columns, Forwards(on)) = F
  BY <1>1, <1>3, <1>4, <1>6, WalkIs DEF Future
<1>9. QED
  BY <1>7, <1>8

\* Pushing puts the entry in front and forgets what is beyond the capacity.
LEMMA PushIs ==
    ASSUME NEW e \in Entries, NEW stack \in Seq(Entries), Capacity \in Nat, Len(stack) <= Capacity,
           NEW m, m = IF Len(stack) < Capacity THEN Len(stack) + 1 ELSE Len(stack)
    PROVE  /\ Push(e, stack) \in Seq(Entries) /\ Len(Push(e, stack)) = m
           /\ m \in Nat /\ m <= Capacity
           /\ \A i \in 1 .. m : Push(e, stack)[i] = IF i = 1 THEN e ELSE stack[i - 1]
<1> DEFINE all == <<e>> \o stack
           new == SubSeq(all, 1, m)
<1>1. Len(stack) \in Nat /\ m \in Nat /\ m <= Capacity /\ m <= Len(stack) + 1
  BY LenProperties
<1>2. <<e>> \in Seq(Entries) /\ Len(<<e>>) = 1 /\ <<e>>[1] = e
  OBVIOUS
<1>3. /\ Len(all) = Len(stack) + 1
      /\ \A i \in 1 .. Len(stack) + 1 : all[i] = IF i <= 1 THEN e ELSE stack[i - 1]
  <2>1. /\ Len(all) = 1 + Len(stack)
        /\ \A i \in 1 .. 1 + Len(stack) : all[i] = IF i <= 1 THEN <<e>>[i] ELSE stack[i - 1]
    BY <1>1, <1>2, ConcatProperties
  <2> HIDE DEF all
  <2>2. 1 + Len(stack) = Len(stack) + 1
    BY <1>1
  <2>3. ASSUME NEW i \in 1 .. Len(stack) + 1 PROVE all[i] = IF i <= 1 THEN e ELSE stack[i - 1]
    <3>1. i <= 1 => i = 1
      OBVIOUS
    <3>2. QED
      BY <1>2, <2>1, <2>2, <3>1
  <2>4. QED
    BY <2>1, <2>2, <2>3
<1>4. all \in Seq(Entries)
  BY <1>2, ConcatProperties
<1> HIDE DEF all
<1>5. \A i \in 1 .. m : all[i] \in Entries
  BY <1>1, <1>3, <1>4, ElementOfSeq
<1>6. new \in Seq(Entries) /\ Len(new) = m /\ \A i \in 1 .. m : new[i] = all[i]
  <2>1. /\ new \in Seq(Entries)
        /\ Len(new) = IF 1 <= m THEN m - 1 + 1 ELSE 0
        /\ \A i \in 1 .. m - 1 + 1 : new[i] = all[1 + i - 1]
    BY <1>1, <1>5, SubSeqProperties
  <2> HIDE DEF new
  <2>2. m - 1 + 1 = m /\ (~(1 <= m) => m = 0)
    BY <1>1
  <2>3. \A i \in 1 .. m : 1 + i - 1 = i
    BY <1>1
  <2>4. QED
    BY <2>1, <2>2, <2>3
<1>7. Push(e, stack) = new
  <2>1. ClampInt(Capacity, 0, Len(stack) + 1) = m
    BY <1>1 DEF ClampInt
  <2>2. QED
    BY <2>1 DEF Push, all
<1> HIDE DEF new
<1>8. ASSUME NEW i \in 1 .. m PROVE new[i] = IF i = 1 THEN e ELSE stack[i - 1]
  <2>1. i \in 1 .. Len(stack) + 1 /\ (i <= 1 <=> i = 1)
    BY <1>1
  <2>2. QED
    BY <1>3, <1>6, <2>1
<1>9. QED
  BY <1>1, <1>6, <1>7, <1>8

\* The lists behind when the columns of now go one further back.
Longer(P, new, m) == [i \in 0 .. m |-> IF i = 0 THEN new ELSE P[i - 1]]

\* An edit pushed on a stack, the oldest dropped at the capacity: the way back is one longer.
LEMMA PushKeepsPast ==
    ASSUME NEW columns, NEW back \in Seq(Entries), NEW P, Past(P, columns, back),
           NEW entry \in Entries, NEW new, Links(columns, entry, new),
           Capacity \in Nat, Len(back) <= Capacity
    PROVE  Past(Longer(P, new, Len(Push(entry, back))), new, Push(entry, back))
<1> DEFINE stack == Push(entry, back)
           m == IF Len(back) < Capacity THEN Len(back) + 1 ELSE Len(back)
           Q == Longer(P, new, m)
<1>1. Len(back) \in Nat
  BY LenProperties
<1>2. /\ stack \in Seq(Entries) /\ Len(stack) = m /\ m \in Nat
      /\ \A i \in 1 .. m : stack[i] = IF i = 1 THEN entry ELSE back[i - 1]
  BY PushIs
<1>3. m <= Len(back) + 1
  BY <1>1
<1> HIDE DEF stack, m
<1>4. Q[0] = new /\ \A i \in 1 .. m : Q[i] = P[i - 1]
  BY <1>2 DEF Longer
<1>5. Q \in [0 .. m -> Seq(SoundColumns)]
  <2>1. new \in Seq(SoundColumns)
    BY DEF Links, ColumnsInOrder
  <2>2. ASSUME NEW i \in 1 .. m PROVE P[i - 1] \in Seq(SoundColumns)
    <3>1. i - 1 \in 0 .. Len(back)
      BY <1>1, <1>2, <1>3
    <3>2. P \in [0 .. Len(back) -> Seq(SoundColumns)]
      BY DEF Past
    <3>3. QED
      BY <3>1, <3>2
  <2>3. QED
    BY <1>2, <2>1, <2>2 DEF Longer
<1> HIDE DEF Q
<1>6. ASSUME NEW i \in 1 .. m PROVE Links(Q[i], stack[i], Q[i - 1])
  <2>1. CASE i = 1
    <3>1. Q[i] = columns /\ stack[i] = entry /\ Q[i - 1] = new
      BY <1>2, <1>4, <2>1 DEF Past
    <3>2. QED
      BY <3>1
  <2>2. CASE i # 1
    <3>1. i - 1 \in 1 .. m /\ i - 1 \in 1 .. Len(back)
      BY <1>1, <1>2, <1>3, <2>2
    <3>2. Q[i] = P[i - 1] /\ Q[i - 1] = P[(i - 1) - 1] /\ stack[i] = back[i - 1]
      BY <1>2, <1>4, <2>2, <3>1
    <3>3. QED
      BY <3>1, <3>2 DEF Past
  <2>3. QED
    BY <2>1, <2>2
<1>7. Past(Q, new, stack)
  BY <1>2, <1>4, <1>5, <1>6 DEF Past
<1>8. QED
  BY <1>2, <1>7 DEF stack, Q

\* An edit: the line up to the cursor, and the new columns behind it.
LEMMA EditMoves ==
    ASSUME NEW columns, NEW back, NEW on, NEW P, NEW F, HistoryAt(columns, back, on, P, F),
           NEW entry \in Entries, NEW new, Links(columns, entry, new), Capacity \in Nat,
           NEW stack, stack = Push(entry, back),
           NEW Q, Q = Longer(P, new, Len(stack)), NEW G, G = [i \in 0 .. 0 |-> new]
    PROVE  /\ HistoryAt(new, stack, <<>>, Q, G)
           /\ LineOf(Q, G, Len(stack), 0) =
                History!LastOf(Append(SubSeq(LineOf(P, F, Len(back), Len(on)), 1, Len(back) + 1), new), Capacity + 1)
           /\ Len(LineOf(Q, G, Len(stack), 0)) = Len(stack) + 1
           /\ LineOf(Q, G, Len(stack), 0)[Len(stack) + 1] = new
<1> DEFINE n == Len(back)
           m == Len(stack)
           L == LineOf(P, F, n, Len(on))
           M == LineOf(Q, G, m, 0)
           S == Seq(SoundColumns)
           front == SubSeq(L, 1, n + 1)
           s == Append(front, new)
<1>1. /\ n \in Nat /\ Len(on) \in Nat /\ n <= Capacity /\ back \in Seq(Entries)
      /\ Past(P, columns, back) /\ Future(F, columns, on) /\ new \in S /\ ColumnsInOrder(new)
  BY LenProperties DEF HistoryAt, Links, ColumnsInOrder
<1>2. /\ stack \in Seq(Entries) /\ m = (IF n < Capacity THEN n + 1 ELSE n) /\ m \in Nat /\ m <= Capacity
  BY <1>1, PushIs
<1>3. Past(Q, new, stack)
  BY <1>1, PushKeepsPast
<1>4. Future(G, new, <<>>) /\ <<>> \in Seq(Entries) /\ Len(<<>>) = 0
  BY <1>1 DEF Future
<1>5. HistoryAt(new, stack, <<>>, Q, G)
  BY <1>1, <1>2, <1>3, <1>4 DEF HistoryAt
<1>6. /\ \A i \in 0 .. n : P[i] \in S
      /\ \A i \in 0 .. Len(on) : F[i] \in S
      /\ \A i \in 0 .. m : Q[i] \in S
      /\ P[0] = columns /\ F[0] = columns /\ G[0] = new
      /\ \A i \in 1 .. m : Q[i] = P[i - 1]
  <2>1. (\A i \in 0 .. n : P[i] \in S) /\ P[0] = columns
    BY <1>1 DEF Past
  <2>2. (\A i \in 0 .. Len(on) : F[i] \in S) /\ F[0] = columns
    BY <1>1 DEF Future
  <2>3. \A i \in 0 .. m : Q[i] \in S
    BY <1>3 DEF Past
  <2>4. \A i \in 1 .. m : Q[i] = P[i - 1]
    BY <1>2 DEF Longer
  <2>5. QED
    BY <2>1, <2>2, <2>3, <2>4
<1> HIDE DEF S, n, m
<1>7. \A k \in 1 .. n + 1 : L[k] = P[n + 1 - k]
  BY <1>1, <1>6 DEF LineOf
<1>8. (\A k \in 1 .. m : M[k] = Q[m + 1 - k]) /\ M[m + 1] = new
  BY <1>2, <1>6 DEF LineOf
<1>9. M \in Seq(S) /\ Len(M) = m + 1
  <2>1. M \in [1 .. m + 1 -> S]
    BY <1>1, <1>2, <1>6 DEF LineOf
  <2>2. m + 1 \in Nat
    BY <1>2
  <2> HIDE DEF M
  <2>3. QED
    BY <2>1, <2>2, SeqOfFunction
<1> HIDE DEF L, M
<1>10. front \in Seq(S) /\ Len(front) = n + 1 /\ \A k \in 1 .. n + 1 : front[k] = P[n + 1 - k]
  <2>1. \A k \in 1 .. n + 1 : L[k] \in S
    BY <1>1, <1>6, <1>7
  <2>2. /\ front \in Seq(S)
        /\ Len(front) = IF 1 <= n + 1 THEN (n + 1) - 1 + 1 ELSE 0
        /\ \A k \in 1 .. (n + 1) - 1 + 1 : front[k] = L[1 + k - 1]
    BY <1>1, <2>1, SubSeqProperties
  <2> HIDE DEF front
  <2>3. (n + 1) - 1 + 1 = n + 1 /\ 1 <= n + 1 /\ \A k \in 1 .. n + 1 : 1 + k - 1 = k
    BY <1>1
  <2>4. QED
    BY <1>7, <2>2, <2>3
<1> HIDE DEF front
<1>11. /\ s \in Seq(S) /\ Len(s) = n + 2 /\ s[n + 2] = new
       /\ \A k \in 1 .. n + 1 : s[k] = P[n + 1 - k]
  <2>1. /\ s \in Seq(S) /\ Len(s) = Len(front) + 1
        /\ \A k \in 1 .. Len(front) : s[k] = front[k]
        /\ s[Len(front) + 1] = new
    BY <1>1, <1>10, AppendProperties DEF S
  <2> HIDE DEF s
  <2>2. Len(front) + 1 = n + 2
    BY <1>1, <1>10
  <2>3. QED
    BY <1>10, <2>1, <2>2
<1> HIDE DEF s
<1>12. History!LastOf(s, Capacity + 1) \in Seq(S) /\ Len(History!LastOf(s, Capacity + 1)) = m + 1
       /\ \A k \in 1 .. m + 1 : History!LastOf(s, Capacity + 1)[k] = M[k]
  <2>1. CASE n < Capacity
    <3>1. m = n + 1 /\ n + 2 <= Capacity + 1 /\ m + 1 = n + 2
      BY <1>1, <1>2, <2>1
    <3>2. History!LastOf(s, Capacity + 1) = s
      BY <1>11, <3>1 DEF History!LastOf
    <3>3. ASSUME NEW k \in 1 .. m + 1 PROVE s[k] = M[k]
      <4>1. CASE k = m + 1
        BY <1>8, <1>11, <3>1, <4>1
      <4>2. CASE k # m + 1
        <5>1. k \in 1 .. m /\ m + 1 - k \in 1 .. m /\ k \in 1 .. n + 1 /\ (m + 1 - k) - 1 = n + 1 - k
          BY <1>1, <1>2, <3>1, <4>2
        <5>2. M[k] = P[(m + 1 - k) - 1] /\ s[k] = P[n + 1 - k]
          BY <1>6, <1>8, <1>11, <5>1
        <5>3. QED
          BY <5>1, <5>2
      <4>3. QED
        BY <4>1, <4>2
    <3>4. QED
      BY <1>11, <3>1, <3>2, <3>3
  <2>2. CASE ~(n < Capacity)
    <3>1. m = n /\ n = Capacity /\ ~(n + 2 <= Capacity + 1) /\ (n + 2) - (Capacity + 1) + 1 = 2
      BY <1>1, <1>2, <2>2
    <3> DEFINE rest == SubSeq(s, 2, n + 2)
    <3>2. History!LastOf(s, Capacity + 1) = rest
      BY <1>11, <3>1 DEF History!LastOf
    <3>3. \A k \in 2 .. n + 2 : s[k] \in S
      BY <1>1, <1>11, ElementOfSeq
    <3>4. /\ rest \in Seq(S)
          /\ Len(rest) = IF 2 <= n + 2 THEN (n + 2) - 2 + 1 ELSE 0
          /\ \A k \in 1 .. (n + 2) - 2 + 1 : rest[k] = s[2 + k - 1]
      BY <1>1, <3>3, SubSeqProperties
    <3> HIDE DEF rest
    <3>5. (n + 2) - 2 + 1 = m + 1 /\ 2 <= n + 2 /\ \A k \in 1 .. m + 1 : 2 + k - 1 = k + 1
      BY <1>1, <3>1
    <3>6. ASSUME NEW k \in 1 .. m + 1 PROVE rest[k] = M[k]
      <4>1. rest[k] = s[k + 1]
        BY <3>4, <3>5
      <4>2. CASE k = m + 1
        <5>1. k + 1 = n + 2
          BY <1>1, <3>1, <4>2
        <5>2. QED
          BY <1>8, <1>11, <4>1, <4>2, <5>1
      <4>3. CASE k # m + 1
        <5>1. /\ k \in 1 .. m /\ m + 1 - k \in 1 .. m /\ k + 1 \in 1 .. n + 1
              /\ (m + 1 - k) - 1 = n + 1 - (k + 1)
          BY <1>1, <1>2, <3>1, <4>3
        <5>2. M[k] = P[(m + 1 - k) - 1] /\ s[k + 1] = P[n + 1 - (k + 1)]
          BY <1>6, <1>8, <1>11, <5>1
        <5>3. QED
          BY <4>1, <5>1, <5>2
      <4>4. QED
        BY <4>2, <4>3
    <3>7. QED
      BY <3>2, <3>4, <3>5, <3>6
  <2>3. QED
    BY <2>1, <2>2
<1>13. M = History!LastOf(s, Capacity + 1)
  <2>1. \A k \in 1 .. Len(M) : M[k] = History!LastOf(s, Capacity + 1)[k]
    BY <1>9, <1>12
  <2>2. QED
    BY <1>9, <1>12, <2>1, SeqEqual
<1>14. QED
  BY <1>5, <1>8, <1>9, <1>13 DEF M, m, s, front, L, n

\* The lists that stay behind, or ahead, when the columns of now go one further.
Shorter(P, n) == [i \in 0 .. n |-> P[i + 1]]

\* A stack without its top.
LEMMA TailIs ==
    ASSUME NEW stack \in Seq(Entries), stack # <<>>
    PROVE  /\ Len(stack) \in Nat /\ Len(stack) - 1 \in Nat /\ stack[1] \in Entries
           /\ Tail(stack) \in Seq(Entries) /\ Len(Tail(stack)) = Len(stack) - 1
           /\ \A i \in 1 .. Len(stack) - 1 : Tail(stack)[i] = stack[i + 1]
<1>1. Len(stack) \in Nat /\ Len(stack) # 0
  BY LenProperties, EmptySeq
<1>2. /\ Tail(stack) \in Seq(Entries) /\ Len(Tail(stack)) = Len(stack) - 1
      /\ \A i \in 1 .. Len(Tail(stack)) : Tail(stack)[i] = stack[i + 1]
  BY HeadTailProperties
<1>3. 1 \in 1 .. Len(stack) /\ Len(stack) - 1 \in Nat
  BY <1>1
<1>4. stack[1] \in Entries
  BY <1>3, ElementOfSeq
<1>5. QED
  BY <1>1, <1>2, <1>3, <1>4

\* The top of the undos leads one back, and the others on from there ...
LEMMA TailKeepsPast ==
    ASSUME NEW columns, NEW stack \in Seq(Entries), stack # <<>>, NEW P, Past(P, columns, stack)
    PROVE  /\ Past(Shorter(P, Len(stack) - 1), P[1], Tail(stack))
           /\ Links(P[1], stack[1], columns)
<1> DEFINE n == Len(stack) - 1
           Q == Shorter(P, n)
<1>1. /\ Len(stack) \in Nat /\ n \in Nat /\ Len(Tail(stack)) = n
      /\ \A i \in 1 .. n : Tail(stack)[i] = stack[i + 1]
  BY TailIs
<1>2. /\ P \in [0 .. Len(stack) -> Seq(SoundColumns)] /\ P[0] = columns
      /\ \A i \in 1 .. Len(stack) : Links(P[i], stack[i], P[i - 1])
  BY DEF Past
<1>3. \A i \in 0 .. n : i + 1 \in 1 .. Len(stack) /\ i + 1 \in 0 .. Len(stack) /\ (i + 1) - 1 = i
  BY <1>1
<1>4. Q \in [0 .. n -> Seq(SoundColumns)] /\ \A i \in 0 .. n : Q[i] = P[i + 1]
  BY <1>2, <1>3 DEF Shorter
<1> HIDE DEF Q, n
<1>5. ASSUME NEW i \in 1 .. n PROVE Links(Q[i], Tail(stack)[i], Q[i - 1])
  <2>1. i \in 0 .. n /\ i - 1 \in 0 .. n /\ (i - 1) + 1 = i
    BY <1>1
  <2>2. Q[i] = P[i + 1] /\ Q[i - 1] = P[i] /\ Tail(stack)[i] = stack[i + 1]
    BY <1>1, <1>4, <2>1
  <2>3. Links(P[i + 1], stack[i + 1], P[(i + 1) - 1]) /\ (i + 1) - 1 = i
    BY <1>2, <1>3, <2>1
  <2>4. QED
    BY <2>2, <2>3
<1>6. Q[0] = P[1]
  BY <1>1, <1>4
<1>7. Past(Q, P[1], Tail(stack))
  BY <1>1, <1>4, <1>5, <1>6 DEF Past
<1>8. Links(P[1], stack[1], P[0])
  <2>1. 0 \in 0 .. n /\ 0 + 1 = 1 /\ 1 - 1 = 0
    BY <1>1
  <2>2. 1 \in 1 .. Len(stack)
    BY <1>3, <2>1
  <2>3. QED
    BY <1>2, <2>1, <2>2
<1>9. QED
  BY <1>2, <1>7, <1>8 DEF Q, n

\* ... as the top of the redos leads one on.
LEMMA TailKeepsFuture ==
    ASSUME NEW columns, NEW stack \in Seq(Entries), stack # <<>>, NEW F, Future(F, columns, stack)
    PROVE  /\ Future(Shorter(F, Len(stack) - 1), F[1], Tail(stack))
           /\ Links(columns, stack[1], F[1])
<1> DEFINE n == Len(stack) - 1
           G == Shorter(F, n)
<1>1. /\ Len(stack) \in Nat /\ n \in Nat /\ Len(Tail(stack)) = n
      /\ \A i \in 1 .. n : Tail(stack)[i] = stack[i + 1]
  BY TailIs
<1>2. /\ F \in [0 .. Len(stack) -> Seq(SoundColumns)] /\ F[0] = columns
      /\ \A i \in 1 .. Len(stack) : Links(F[i - 1], stack[i], F[i])
  BY DEF Future
<1>3. \A i \in 0 .. n : i + 1 \in 1 .. Len(stack) /\ i + 1 \in 0 .. Len(stack) /\ (i + 1) - 1 = i
  BY <1>1
<1>4. G \in [0 .. n -> Seq(SoundColumns)] /\ \A i \in 0 .. n : G[i] = F[i + 1]
  BY <1>2, <1>3 DEF Shorter
<1> HIDE DEF G, n
<1>5. ASSUME NEW i \in 1 .. n PROVE Links(G[i - 1], Tail(stack)[i], G[i])
  <2>1. i \in 0 .. n /\ i - 1 \in 0 .. n /\ (i - 1) + 1 = i
    BY <1>1
  <2>2. G[i] = F[i + 1] /\ G[i - 1] = F[i] /\ Tail(stack)[i] = stack[i + 1]
    BY <1>1, <1>4, <2>1
  <2>3. Links(F[(i + 1) - 1], stack[i + 1], F[i + 1]) /\ (i + 1) - 1 = i
    BY <1>2, <1>3, <2>1
  <2>4. QED
    BY <2>2, <2>3
<1>6. G[0] = F[1]
  BY <1>1, <1>4
<1>7. Future(G, F[1], Tail(stack))
  BY <1>1, <1>4, <1>5, <1>6 DEF Future
<1>8. Links(F[0], stack[1], F[1])
  <2>1. 0 \in 0 .. n /\ 0 + 1 = 1 /\ 1 - 1 = 0
    BY <1>1
  <2>2. 1 \in 1 .. Len(stack)
    BY <1>3, <2>1
  <2>3. QED
    BY <1>2, <2>1, <2>2
<1>9. QED
  BY <1>2, <1>7, <1>8 DEF G, n

\* What an undo leaves of the two stacks and of the columns along them ...
OneBack(back, on, P, F, less, more, Q, G) ==
    /\ Q = Shorter(P, Len(back) - 1) /\ G = Longer(F, P[1], Len(on) + 1)
    /\ less = Tail(back) /\ more = <<back[1]>> \o on

\* ... and what a redo leaves.
OneOn(back, on, P, F, stack, less, Q, G) ==
    /\ Q = Longer(P, F[1], Len(stack)) /\ G = Shorter(F, Len(on) - 1)
    /\ stack = Push(on[1], back) /\ less = Tail(on)

\* An undo: the same line, the cursor one back.
LEMMA UndoMoves ==
    ASSUME NEW columns, NEW back, NEW on, NEW P, NEW F, HistoryAt(columns, back, on, P, F),
           back # <<>>, Capacity \in Nat,
           NEW less, NEW more, NEW Q, NEW G, OneBack(back, on, P, F, less, more, Q, G)
    PROVE  /\ HistoryAt(P[1], less, more, Q, G)
           /\ Len(less) = Len(back) - 1 /\ Len(back) \in Nat /\ Len(less) \in Nat
           /\ LineOf(Q, G, Len(less), Len(more)) = LineOf(P, F, Len(back), Len(on))
<1>0. /\ Q = Shorter(P, Len(back) - 1) /\ G = Longer(F, P[1], Len(on) + 1)
      /\ less = Tail(back) /\ more = <<back[1]>> \o on
  BY DEF OneBack
<1> USE <1>0
<1> DEFINE n == Len(back)
           m == Len(on)
           S == Seq(SoundColumns)
<1>1. /\ back \in Seq(Entries) /\ on \in Seq(Entries) /\ n + m <= Capacity
      /\ Past(P, columns, back) /\ Future(F, columns, on)
  BY DEF HistoryAt
<1>2. /\ n \in Nat /\ n - 1 \in Nat /\ back[1] \in Entries
      /\ less \in Seq(Entries) /\ Len(less) = n - 1
  BY <1>1, TailIs
<1>3. Past(Q, P[1], less) /\ Links(P[1], back[1], columns)
  BY <1>1, TailKeepsPast
<1>4. m \in Nat /\ m + 1 \in Nat
  BY <1>1, LenProperties
<1>5. /\ more \in Seq(Entries) /\ Len(more) = m + 1
      /\ \A i \in 1 .. m + 1 : more[i] = IF i = 1 THEN back[1] ELSE on[i - 1]
  <2> DEFINE e == back[1]
  <2>1. <<e>> \in Seq(Entries) /\ Len(<<e>>) = 1 /\ <<e>>[1] = e
    BY <1>2
  <2> HIDE DEF e
  <2>2. /\ <<e>> \o on \in Seq(Entries) /\ Len(<<e>> \o on) = 1 + m
        /\ \A i \in 1 .. 1 + m : (<<e>> \o on)[i] = IF i <= 1 THEN <<e>>[i] ELSE on[i - 1]
    BY <1>1, <2>1, ConcatProperties
  <2>3. more = <<e>> \o on /\ 1 + m = m + 1
    BY <1>4 DEF e
  <2>4. ASSUME NEW i \in 1 .. m + 1 PROVE more[i] = IF i = 1 THEN e ELSE on[i - 1]
    <3>1. i <= 1 <=> i = 1
      BY <1>4
    <3>2. QED
      BY <2>1, <2>2, <2>3, <3>1
  <2>5. QED
    BY <2>2, <2>3, <2>4 DEF e
<1>6. /\ P \in [0 .. n -> S] /\ P[0] = columns
      /\ F \in [0 .. m -> S] /\ F[0] = columns
      /\ \A i \in 1 .. m : Links(F[i - 1], on[i], F[i])
  BY <1>1 DEF Past, Future
<1>7. P[1] \in S
  BY <1>2, <1>6
<1> HIDE DEF S, n, m
<1>8. G \in [0 .. m + 1 -> S] /\ G[0] = P[1] /\ \A i \in 1 .. m + 1 : G[i] = F[i - 1]
  <2>1. \A i \in 1 .. m + 1 : i - 1 \in 0 .. m
    BY <1>4
  <2>2. \A i \in 1 .. m + 1 : F[i - 1] \in S
    BY <1>6, <2>1
  <2>3. G = Longer(F, P[1], m + 1)
    BY DEF m
  <2>4. QED
    BY <1>4, <1>7, <2>2, <2>3 DEF Longer
<1>9. ASSUME NEW i \in 1 .. m + 1 PROVE Links(G[i - 1], more[i], G[i])
  <2>1. CASE i = 1
    <3>1. G[i] = columns /\ G[i - 1] = P[1] /\ more[i] = back[1]
      BY <1>5, <1>6, <1>8, <2>1
    <3>2. QED
      BY <1>3, <3>1
  <2>2. CASE i # 1
    <3>1. i - 1 \in 1 .. m /\ i - 1 \in 1 .. m + 1
      BY <1>4, <2>2
    <3>2. G[i] = F[i - 1] /\ G[i - 1] = F[(i - 1) - 1] /\ more[i] = on[i - 1]
      BY <1>5, <1>8, <2>2, <3>1
    <3>3. QED
      BY <1>6, <3>1, <3>2
  <2>3. QED
    BY <2>1, <2>2
<1>10. Future(G, P[1], more)
  BY <1>5, <1>8, <1>9 DEF Future, S
<1>11. HistoryAt(P[1], less, more, Q, G)
  <2>1. Len(less) + Len(more) = n + m
    <3>1. (n - 1) + (m + 1) = n + m
      BY <1>2, <1>4
    <3>2. QED
      BY <1>2, <1>5, <3>1
  <2>2. ColumnsInOrder(P[1])
    BY <1>3 DEF Links
  <2>3. QED
    BY <1>1, <1>2, <1>3, <1>5, <1>10, <2>1, <2>2 DEF HistoryAt
<1>12. LineOf(Q, G, n - 1, m + 1) = LineOf(P, F, n, m)
  <2>1. \A i \in 0 .. n - 1 : Q[i] = P[i + 1]
    BY DEF Shorter, n
  <2>2. (n - 1) + 1 + (m + 1) = n + 1 + m
    BY <1>2, <1>4
  <2>3. ASSUME NEW k \in 1 .. n + 1 + m
        PROVE  (IF k <= n - 1 THEN Q[(n - 1) + 1 - k] ELSE G[k - (n - 1) - 1])
                 = (IF k <= n THEN P[n + 1 - k] ELSE F[k - n - 1])
    <3>1. CASE k <= n - 1
      <4>1. (n - 1) + 1 - k \in 0 .. n - 1 /\ ((n - 1) + 1 - k) + 1 = n + 1 - k /\ k <= n
        BY <1>2, <3>1
      <4>2. QED
        BY <2>1, <3>1, <4>1
    <3>2. CASE k = n
      <4>1. k - (n - 1) - 1 = 0 /\ n + 1 - k = 1 /\ ~(k <= n - 1) /\ k <= n
        BY <1>2, <3>2
      <4>2. QED
        BY <1>8, <4>1
    <3>3. CASE ~(k <= n)
      <4>1. /\ k - (n - 1) - 1 \in 1 .. m + 1 /\ (k - (n - 1) - 1) - 1 = k - n - 1
            /\ ~(k <= n - 1)
        BY <1>2, <1>4, <3>3
      <4>2. G[k - (n - 1) - 1] = F[(k - (n - 1) - 1) - 1]
        BY <1>8, <4>1
      <4>3. QED
        BY <3>3, <4>1, <4>2
    <3>4. k <= n - 1 \/ k = n \/ ~(k <= n)
      BY <1>2
    <3>5. QED
      BY <3>1, <3>2, <3>3, <3>4
  <2>4. QED
    BY <2>2, <2>3 DEF LineOf
<1>13. QED
  BY <1>2, <1>5, <1>11, <1>12 DEF n, m

\* A redo: the same line, the cursor one on.  There is room for it among the undos.
LEMMA RedoMoves ==
    ASSUME NEW columns, NEW back, NEW on, NEW P, NEW F, HistoryAt(columns, back, on, P, F),
           on # <<>>, Capacity \in Nat,
           NEW stack, NEW less, NEW Q, NEW G, OneOn(back, on, P, F, stack, less, Q, G)
    PROVE  /\ HistoryAt(F[1], stack, less, Q, G)
           /\ Len(stack) = Len(back) + 1 /\ Len(back) \in Nat
           /\ Len(on) \in Nat /\ Len(on) # 0
           /\ LineOf(Q, G, Len(stack), Len(less)) = LineOf(P, F, Len(back), Len(on))
<1>0. /\ Q = Longer(P, F[1], Len(stack)) /\ G = Shorter(F, Len(on) - 1)
      /\ stack = Push(on[1], back) /\ less = Tail(on)
  BY DEF OneOn
<1> USE <1>0
<1> DEFINE n == Len(back)
           m == Len(on)
<1>1. /\ back \in Seq(Entries) /\ on \in Seq(Entries) /\ n + m <= Capacity
      /\ Past(P, columns, back) /\ Future(F, columns, on)
  BY DEF HistoryAt
<1>2. /\ m \in Nat /\ m - 1 \in Nat /\ on[1] \in Entries
      /\ less \in Seq(Entries) /\ Len(less) = m - 1
  BY <1>1, TailIs
<1>3. Future(G, F[1], less) /\ Links(columns, on[1], F[1])
  BY <1>1, TailKeepsFuture
<1>4. n \in Nat
  BY <1>1, LenProperties
<1>5. n < Capacity /\ n <= Capacity
  BY <1>1, <1>2, <1>4
<1>6. stack \in Seq(Entries) /\ Len(stack) = n + 1
  <2> DEFINE e == on[1]
  <2>1. e \in Entries /\ stack = Push(e, back)
    BY <1>2
  <2> HIDE DEF e
  <2>2. QED
    BY <1>1, <1>5, <2>1, PushIs
<1>7. Past(Q, F[1], stack)
  <2> DEFINE e == on[1]
             new == F[1]
  <2>1. e \in Entries /\ stack = Push(e, back) /\ Links(columns, e, new) /\ Q = Longer(P, new, Len(stack))
    BY <1>2, <1>3
  <2> HIDE DEF e, new
  <2>2. Past(Longer(P, new, Len(Push(e, back))), new, Push(e, back))
    BY <1>1, <1>5, <2>1, PushKeepsPast
  <2>3. QED
    BY <2>1, <2>2 DEF new
<1>8. /\ P \in [0 .. n -> Seq(SoundColumns)] /\ P[0] = columns /\ F[0] = columns
  BY <1>1 DEF Past, Future
<1> HIDE DEF n, m
<1>9. HistoryAt(F[1], stack, less, Q, G)
  <2>1. (n + 1) + (m - 1) = n + m
    BY <1>2, <1>4
  <2>2. ColumnsInOrder(F[1])
    BY <1>3 DEF Links
  <2>3. QED
    BY <1>1, <1>2, <1>3, <1>6, <1>7, <2>1, <2>2 DEF HistoryAt
<1>10. LineOf(Q, G, n + 1, m - 1) = LineOf(P, F, n, m)
  <2>1. /\ Q[0] = F[1] /\ \A i \in 1 .. n + 1 : Q[i] = P[i - 1]
        /\ \A i \in 0 .. m - 1 : G[i] = F[i + 1]
    BY <1>2, <1>4, <1>6 DEF Longer, Shorter, m
  <2>2. (n + 1) + 1 + (m - 1) = n + 1 + m
    BY <1>2, <1>4
  <2>3. ASSUME NEW k \in 1 .. n + 1 + m
        PROVE  (IF k <= n + 1 THEN Q[(n + 1) + 1 - k] ELSE G[k - (n + 1) - 1])
                 = (IF k <= n THEN P[n + 1 - k] ELSE F[k - n - 1])
    <3>1. CASE k <= n
      <4>1. (n + 1) + 1 - k \in 1 .. n + 1 /\ ((n + 1) + 1 - k) - 1 = n + 1 - k /\ k <= n + 1
        BY <1>4, <3>1
      <4>2. Q[(n + 1) + 1 - k] = P[((n + 1) + 1 - k) - 1]
        BY <2>1, <4>1
      <4>3. QED
        BY <3>1, <4>1, <4>2
    <3>2. CASE k = n + 1
      <4>1. (n + 1) + 1 - k = 1 /\ k - n - 1 = 0 /\ ~(k <= n) /\ k <= n + 1 /\ 1 \in 1 .. n + 1 /\ 1 - 1 = 0
        BY <1>4, <3>2
      <4>2. Q[1] = P[0]
        BY <2>1, <4>1
      <4>3. QED
        BY <1>8, <4>1, <4>2
    <3>3. CASE ~(k <= n + 1)
      <4>1. /\ k - (n + 1) - 1 \in 0 .. m - 1 /\ (k - (n + 1) - 1) + 1 = k - n - 1
            /\ ~(k <= n)
        BY <1>2, <1>4, <3>3
      <4>2. QED
        BY <2>1, <3>3, <4>1
    <3>4. k <= n \/ k = n + 1 \/ ~(k <= n + 1)
      BY <1>4
    <3>5. QED
      BY <3>1, <3>2, <3>3, <3>4
  <2>4. QED
    BY <2>2, <2>3 DEF LineOf
<1>11. m # 0
  BY <1>2
<1>12. QED
  BY <1>2, <1>4, <1>6, <1>9, <1>10, <1>11 DEF n, m

-----------------------------------------------------------------------------
(* Row deltas.                                                             *)

\* The key of a row.
KeyAt(t, r) ==
    IF ColumnAt(t, KeyField) = 0 \/ IsNull(FindColumn(t, KeyField).cells[r]) THEN <<>>
    ELSE CellKey(FindColumn(t, KeyField).cells[r])

\* The keys of a table are those of its rows, in order.
LEMMA KeysAre ==
    ASSUME NEW t, ColumnsInOrder(t.columns)
    PROVE  /\ RowCount(t) \in Nat /\ Len(KeysOf(t)) = RowCount(t)
           /\ DOMAIN KeysOf(t) = 1 .. RowCount(t)
           /\ KeysOf(t) = [r \in 1 .. RowCount(t) |-> KeyAt(t, r)]
<1> DEFINE n == RowCount(t)
           f == [r \in 1 .. n |-> KeyAt(t, r)]
           S == {KeyAt(t, r) : r \in 1 .. n}
<1>1. n \in Nat
  <2>1. CASE t.columns = <<>>
    BY <2>1 DEF RowCount
  <2>2. CASE t.columns # <<>>
    <3>1. 1 \in DOMAIN t.columns
      BY <2>2, LenProperties, EmptySeq DEF ColumnsInOrder
    <3>2. QED
      BY <3>1, RowCountIs
  <2>3. QED
    BY <2>1, <2>2
<1>2. f \in [1 .. n -> S]
  OBVIOUS
<1>3. f \in Seq(S) /\ Len(f) = n
  <2> HIDE DEF f, S, n
  <2>1. QED
    BY <1>1, <1>2, SeqOfFunction
<1>4. f \o <<>> = f
  <2> HIDE DEF f, S, n
  <2>1. QED
    BY <1>3, ConcatEmptySeq
<1>5. KeysOf(t) = f \o <<>>
  BY DEF KeysOf, Tuple, KeyAt
<1>6. KeysOf(t) = f
  BY <1>4, <1>5
<1>7. QED
  BY <1>1, <1>3, <1>6

\* A list without repeats has each element in one place.
LEMMA NoRepeats ==
    ASSUME NEW n \in Nat, NEW K, DOMAIN K = 1 .. n, Len(K) = n, K = [i \in 1 .. n |-> K[i]], ~Repeats(K)
    PROVE  \A i, j \in 1 .. n : K[i] = K[j] => i = j
<1> DEFINE T == {K[i] : i \in DOMAIN K}
<1>1. K \in [1 .. n -> T] /\ \A x \in T : \E i \in 1 .. n : K[i] = x
  OBVIOUS
<1>2. K \in Surjection(1 .. n, T)
  BY <1>1 DEF Surjection
<1>3. Cardinality(T) = n
  BY DEF Repeats
<1>4. IsFiniteSet(1 .. n) /\ Cardinality(1 .. n) = n
  <2>1. 1 \in Int /\ n \in Int /\ (1 > n <=> n = 0) /\ n - 1 + 1 = n
    OBVIOUS
  <2>2. QED
    BY <2>1, FS_Interval
<1> HIDE DEF T
<1>5. K \in Injection(1 .. n, T)
  BY <1>2, <1>3, <1>4, FS_Surjection
<1>6. QED
  BY <1>5 DEF Injection, IsInjective

\* Rows that are told apart by their keys.
Identified(t, K, n) ==
    /\ n \in Nat
    /\ ToSet(KeysOf(t)) = {K[i] : i \in 1 .. n}
    /\ \A i \in 1 .. n : K[i] # <<>>
    /\ \A i, j \in 1 .. n : K[i] = K[j] => i = j
    /\ \A i \in 1 .. n : RowOf(t, K[i]) = Row(t, i)

\* Keys without repeats, none of them null, tell the rows apart.
LEMMA UniqueKeysIdentify ==
    ASSUME NEW t, ColumnsInOrder(t.columns), UniqueKeys(t)
    PROVE  Identified(t, KeysOf(t), RowCount(t))
<1> DEFINE K == KeysOf(t)
           n == RowCount(t)
<1>1. n \in Nat /\ Len(K) = n /\ DOMAIN K = 1 .. n
  BY KeysAre
<1>2. K = [i \in 1 .. n |-> K[i]]
  BY KeysAre
<1>3. ~Repeats(K) /\ <<>> \notin ToSet(K)
  BY DEF UniqueKeys
<1>4. ToSet(K) = {K[i] : i \in 1 .. n}
  BY <1>1 DEF ToSet
<1>5. \A i, j \in 1 .. n : K[i] = K[j] => i = j
  <2> HIDE DEF K, n
  <2>1. QED
    BY <1>1, <1>2, <1>3, NoRepeats
<1>6. ASSUME NEW i \in 1 .. n PROVE RowOf(t, K[i]) = Row(t, i)
  <2>1. (CHOOSE r \in DOMAIN K : K[r] = K[i]) = i
    <3> HIDE DEF K, n
    <3>1. QED
      BY <1>1, <1>5
  <2>2. QED
    BY <2>1 DEF RowOf
<1>7. QED
  BY <1>1, <1>3, <1>4, <1>5, <1>6 DEF Identified

\* Changes of one sort to the rows of a set, and the keys they name.
Changes(K, C, sort) == {Change(K[i], sort) : i \in C}
KeysIn(K, C) == {K[i] : i \in C}

\* Changes of one sort name the keys of that sort and no key of another.
LEMMA NamedIs ==
    ASSUME NEW K, NEW C, NEW sort, NEW what
    PROVE  Named(Changes(K, C, sort), what) = IF what = sort THEN KeysIn(K, C) ELSE {}
<1> DEFINE rows == {Change(K[i], sort) : i \in C}
<1> USE DEF Changes, KeysIn
<1>1. \A i \in C : Change(K[i], sort).key = K[i] /\ Change(K[i], sort).change = sort
  BY DEF Change
<1>2. CASE what = sort
  <2>1. {d \in rows : d.change = what} = rows
    BY <1>1, <1>2
  <2>2. {c.key : c \in rows} = {K[i] : i \in C}
    BY <1>1
  <2>3. QED
    BY <1>2, <2>1, <2>2 DEF Named
<1>3. CASE what # sort
  <2>1. {d \in rows : d.change = what} = {}
    BY <1>1, <1>3
  <2>2. QED
    BY <1>3, <2>1 DEF Named
<1>4. QED
  BY <1>2, <1>3

\* With the keys as they were, the rows that changed are named.
LEMMA SameKeysExact ==
    ASSUME NEW t, NEW u, NEW K, NEW L, NEW n, Identified(t, K, n), Identified(u, L, n),
           \A i \in 1 .. n : L[i] = K[i],
           NEW C, C \subseteq 1 .. n, \A i \in 1 .. n : i \in C <=> Row(t, i) # Row(u, i)
    PROVE  ExactFor(Changes(K, C, "changed"), t, u)
<1> DEFINE rows == Changes(K, C, "changed")
<1>1. Named(rows, "added") = {} /\ Named(rows, "removed") = {} /\ Named(rows, "changed") = {K[i] : i \in C}
  <2>1. \A what : Named(Changes(K, C, "changed"), what) = IF what = "changed" THEN KeysIn(K, C) ELSE {}
    BY NamedIs
  <2>2. QED
    BY <2>1 DEF KeysIn
<1> HIDE DEF rows
<1> DEFINE k0 == ToSet(KeysOf(t))
           k1 == ToSet(KeysOf(u))
<1>2. k0 = {K[i] : i \in 1 .. n} /\ k1 = k0
  BY DEF Identified
<1>3. \A i \in 1 .. n : RowOf(t, K[i]) = Row(t, i) /\ RowOf(u, K[i]) = Row(u, i)
  BY DEF Identified
<1> HIDE DEF k0, k1
<1>4. {K[i] : i \in C} = {k \in k0 \cap k1 : RowOf(t, k) # RowOf(u, k)}
  <2>1. ASSUME NEW i \in C PROVE K[i] \in k0 \cap k1 /\ RowOf(t, K[i]) # RowOf(u, K[i])
    BY <1>2, <1>3
  <2>2. ASSUME NEW k \in k0 \cap k1, RowOf(t, k) # RowOf(u, k) PROVE \E i \in C : k = K[i]
    <3>1. PICK i \in 1 .. n : k = K[i]
      BY <1>2
    <3>2. Row(t, i) # Row(u, i)
      BY <1>3, <2>2, <3>1
    <3>3. QED
      BY <3>1, <3>2
  <2>3. QED
    BY <2>1, <2>2
<1>5. QED
  BY <1>1, <1>2, <1>4 DEF ExactFor, rows, k0, k1

\* A row under another key is gone and has come.
LEMMA MovedKeyExact ==
    ASSUME NEW t, NEW u, NEW K, NEW L, NEW n, Identified(t, K, n), Identified(u, L, n),
           NEW r \in 1 .. n, L[r] # K[r],
           \A i \in 1 .. n : i # r => L[i] = K[i] /\ Row(u, i) = Row(t, i)
    PROVE  ExactFor({Change(K[r], "removed"), Change(L[r], "added")}, t, u)
<1> DEFINE rows == {Change(K[r], "removed"), Change(L[r], "added")}
           gone == Change(K[r], "removed")
           came == Change(L[r], "added")
<1>1. gone.key = K[r] /\ gone.change = "removed" /\ came.key = L[r] /\ came.change = "added"
  BY DEF Change
<1>2. rows = {gone, came}
  OBVIOUS
<1> HIDE DEF gone, came, rows
<1>3. Named(rows, "added") = {L[r]} /\ Named(rows, "removed") = {K[r]} /\ Named(rows, "changed") = {}
  BY <1>1, <1>2 DEF Named
<1> DEFINE k0 == ToSet(KeysOf(t))
           k1 == ToSet(KeysOf(u))
<1>4. k0 = {K[i] : i \in 1 .. n} /\ k1 = {L[i] : i \in 1 .. n}
  BY DEF Identified
<1>5. \A i \in 1 .. n : RowOf(t, K[i]) = Row(t, i) /\ RowOf(u, L[i]) = Row(u, i)
  BY DEF Identified
<1>6. /\ \A i, j \in 1 .. n : K[i] = K[j] => i = j
      /\ \A i, j \in 1 .. n : L[i] = L[j] => i = j
  BY DEF Identified
<1> HIDE DEF k0, k1
<1>7. K[r] \notin k1
  <2>1. \A i \in 1 .. n : L[i] # K[r]
    BY <1>6
  <2>2. QED
    BY <1>4, <2>1
<1>8. L[r] \notin k0
  <2>1. \A i \in 1 .. n : K[i] # L[r]
    BY <1>6
  <2>2. QED
    BY <1>4, <2>1
<1>9. k1 \ k0 = {L[r]} /\ k0 \ k1 = {K[r]}
  BY <1>4, <1>7, <1>8
<1>10. \A k \in k0 \cap k1 : RowOf(t, k) = RowOf(u, k)
  <2> SUFFICES ASSUME NEW k \in k0 \cap k1 PROVE RowOf(t, k) = RowOf(u, k)
    OBVIOUS
  <2>1. PICK i \in 1 .. n : k = K[i]
    BY <1>4
  <2>2. i # r
    BY <1>7, <2>1
  <2>3. QED
    BY <1>5, <2>1, <2>2
<1>11. QED
  BY <1>3, <1>9, <1>10 DEF ExactFor, k0, k1, gone, came, rows

\* Rows behind the others have come.
LEMMA NewKeysExact ==
    ASSUME NEW t, NEW u, NEW K, NEW L, NEW n, NEW m, Identified(t, K, n), Identified(u, L, m), n <= m,
           \A i \in 1 .. n : L[i] = K[i] /\ Row(u, i) = Row(t, i)
    PROVE  ExactFor(Changes(L, n + 1 .. m, "added"), t, u)
<1> DEFINE rows == Changes(L, n + 1 .. m, "added")
           k0 == ToSet(KeysOf(t))
           k1 == ToSet(KeysOf(u))
<1>1. Named(rows, "changed") = {} /\ Named(rows, "removed") = {} /\ Named(rows, "added") = {L[i] : i \in n + 1 .. m}
  <2> DEFINE C == n + 1 .. m
  <2> HIDE DEF C
  <2>1. \A what : Named(Changes(L, C, "added"), what) = IF what = "added" THEN KeysIn(L, C) ELSE {}
    BY NamedIs
  <2>2. QED
    BY <2>1 DEF C, KeysIn
<1>2. /\ n \in Nat /\ m \in Nat
      /\ k0 = {K[i] : i \in 1 .. n} /\ k1 = {L[i] : i \in 1 .. m}
  BY DEF Identified
<1>3. /\ \A i \in 1 .. n : RowOf(t, K[i]) = Row(t, i)
      /\ \A i \in 1 .. m : RowOf(u, L[i]) = Row(u, i)
      /\ \A i, j \in 1 .. m : L[i] = L[j] => i = j
  BY DEF Identified
<1> HIDE DEF rows, k0, k1
<1>4. /\ \A i \in 1 .. n : i \in 1 .. m
      /\ \A i \in n + 1 .. m : i \in 1 .. m /\ i \notin 1 .. n
      /\ \A i \in 1 .. m : i \notin 1 .. n => i \in n + 1 .. m
  BY <1>2
<1>5. k0 \subseteq k1
  BY <1>2, <1>4
<1>6. k1 \ k0 = {L[i] : i \in n + 1 .. m}
  <2>1. ASSUME NEW i \in n + 1 .. m PROVE L[i] \in k1 /\ L[i] \notin k0
    <3>1. \A j \in 1 .. n : K[j] # L[i]
      BY <1>3, <1>4
    <3>2. QED
      BY <1>2, <1>4, <3>1
  <2>2. ASSUME NEW k \in k1, k \notin k0 PROVE \E i \in n + 1 .. m : k = L[i]
    <3>1. PICK i \in 1 .. m : k = L[i]
      BY <1>2
    <3>2. i \notin 1 .. n
      BY <1>2, <2>2, <3>1
    <3>3. QED
      BY <1>4, <3>1, <3>2
  <2>3. QED
    BY <2>1, <2>2
<1>7. \A k \in k0 \cap k1 : RowOf(t, k) = RowOf(u, k)
  <2> SUFFICES ASSUME NEW k \in k0 PROVE RowOf(t, k) = RowOf(u, k)
    OBVIOUS
  <2>1. PICK i \in 1 .. n : k = K[i]
    BY <1>2
  <2>2. QED
    BY <1>3, <1>4, <2>1
<1>8. QED
  BY <1>1, <1>5, <1>6, <1>7 DEF ExactFor, k0, k1, rows

\* A row whose cells are as they were is the same row under the same key.
LEMMA SameCells ==
    ASSUME NEW t, NEW u, ColumnsInOrder(t.columns), ColumnsInOrder(u.columns),
           DOMAIN u.columns = DOMAIN t.columns,
           \A c \in DOMAIN t.columns : u.columns[c].name = t.columns[c].name,
           NEW r, \A c \in DOMAIN t.columns : u.columns[c].cells[r] = t.columns[c].cells[r]
    PROVE  KeyAt(u, r) = KeyAt(t, r) /\ Row(u, r) = Row(t, r)
<1>1. Row(u, r) = Row(t, r)
  BY DEF Row
<1>2. t.columns \in Seq(SoundColumns) /\ u.columns \in Seq(SoundColumns)
  BY DEF ColumnsInOrder
<1>3. CASE ColumnAt(t, KeyField) = 0
  <2>1. \A c \in DOMAIN t.columns : t.columns[c].name # KeyField
    BY <1>2, <1>3, ColumnAtFinds
  <2>2. ColumnAt(u, KeyField) = 0
    BY <1>2, <2>1, ColumnAtFinds
  <2>3. QED
    BY <1>1, <1>3, <2>2 DEF KeyAt
<1>4. CASE ColumnAt(t, KeyField) # 0
  <2> DEFINE c == ColumnAt(t, KeyField)
  <2>1. c \in DOMAIN t.columns /\ t.columns[c].name = KeyField
    BY <1>2, <1>4, ColumnAtFinds
  <2>2. ColumnAt(u, KeyField) = c
    <3>1. c \in DOMAIN u.columns /\ u.columns[c].name = KeyField
      BY <2>1
    <3> HIDE DEF c
    <3>2. QED
      BY <3>1, ColumnAtIs
  <2>3. FindColumn(u, KeyField).cells[r] = FindColumn(t, KeyField).cells[r]
    BY <2>1, <2>2 DEF FindColumn
  <2>4. QED
    BY <1>1, <1>4, <2>2, <2>3 DEF KeyAt
<1>5. QED
  BY <1>3, <1>4

\* A column in the place of another one: the rows whose cell it changes.
ChangesRows(t, u, new, old) ==
    /\ \A r : new[r] = old[r] => KeyAt(u, r) = KeyAt(t, r)
    /\ \A r : Row(t, r) # Row(u, r) <=> new[r] # old[r]

\* Replacing a column changes the rows whose cell in it changes, and no other.
LEMMA ReplacedRows ==
    ASSUME NEW t, NEW u, ColumnsInOrder(t.columns), NEW k \in DOMAIN t.columns,
           NEW column, FitsPlace(t.columns, k, column), u.columns = Replaced(t.columns, k, column)
    PROVE  /\ ColumnsInOrder(u.columns)
           /\ RowCount(u) = RowCount(t) /\ RowCount(t) = Len(t.columns[k].cells)
           /\ ChangesRows(t, u, column.cells, t.columns[k].cells)
<1>1. ColumnsInOrder(u.columns) /\ DOMAIN u.columns = DOMAIN t.columns
  BY ReplacedInOrder DEF Replaced
<1>2. u.columns[k] = column /\ \A c \in DOMAIN t.columns : c # k => u.columns[c] = t.columns[c]
  BY DEF Replaced
<1>3. \A c \in DOMAIN t.columns : u.columns[c].name = t.columns[c].name
  BY <1>2 DEF FitsPlace
<1>4. RowCount(t) = Len(t.columns[k].cells)
  BY RowCountIs
<1>5. RowCount(u) = Len(u.columns[k].cells)
  BY <1>1, RowCountIs
<1>6. ASSUME NEW r, column.cells[r] = t.columns[k].cells[r]
      PROVE  KeyAt(u, r) = KeyAt(t, r) /\ Row(u, r) = Row(t, r)
  <2>1. \A c \in DOMAIN t.columns : u.columns[c].cells[r] = t.columns[c].cells[r]
    BY <1>2, <1>6
  <2>2. QED
    BY <1>1, <1>3, <2>1, SameCells
<1>7. ASSUME NEW r, Row(t, r) = Row(u, r) PROVE column.cells[r] = t.columns[k].cells[r]
  <2>1. Row(t, r)[k] = t.columns[k].cells[r] /\ Row(u, r)[k] = u.columns[k].cells[r]
    BY <1>1 DEF Row
  <2>2. QED
    BY <1>2, <1>7, <2>1
<1>8. QED
  BY <1>1, <1>2, <1>4, <1>5, <1>6, <1>7 DEF FitsPlace, ChangesRows

\* The delta of a cell that is set is exact.
LEMMA SetCellDeltaExact ==
    ASSUME NEW t, ColumnsInOrder(t.columns), NEW op \in CellEdits, Applied(ApplyColumnOp(op, t)),
           NEW u, u = ApplyColumnOp(op, t).table, UniqueKeys(t), UniqueKeys(u),
           ~SetCellDelta(t, op, KeysOf(t), KeysOf(u)).full
    PROVE  ExactFor(SetCellDelta(t, op, KeysOf(t), KeysOf(u)).rows, t, u)
<1>1. PICK k \in DOMAIN t.columns : Settable(t.columns, op, k)
  BY SetCellIs
<1> DEFINE old == t.columns[k]
           r == op.row + 1
           column == CellSetTo(old, r, op.value)
           K == KeysOf(t)
           L == KeysOf(u)
           n == RowCount(t)
           delta == SetCellDelta(t, op, K, L)
<1>2. r \in DOMAIN old.cells /\ Fits(old.type, op.value) /\ op.value \in CellSet /\ old.name = op.col
  BY <1>1 DEF Settable, CellEdits
<1>3. FitsPlace(t.columns, k, column)
  BY <1>2, CellSetToFits
<1>4. u.columns = Replaced(t.columns, k, column)
  <2>1. u = WithColumn(t, column)
    BY <1>1, SetCellIs, EditedIs
  <2>2. QED
    BY <1>3, <2>1, WithColumnIs
<1>5. FindColumn(t, op.col) = old
  BY <1>2, ColumnAtIs
<1>6. column.cells[r] = op.value /\ \A i : i # r /\ i \in DOMAIN old.cells => column.cells[i] = old.cells[i]
  BY <1>2 DEF CellSetTo
<1>7. /\ ColumnsInOrder(u.columns) /\ RowCount(u) = n /\ n = Len(old.cells)
      /\ \A i : column.cells[i] = old.cells[i] => KeyAt(u, i) = KeyAt(t, i)
      /\ \A i : Row(t, i) # Row(u, i) <=> column.cells[i] # old.cells[i]
  <2>1. ASSUME NEW z, FitsPlace(t.columns, k, z), u.columns = Replaced(t.columns, k, z)
        PROVE  /\ ColumnsInOrder(u.columns) /\ RowCount(u) = RowCount(t)
               /\ RowCount(t) = Len(t.columns[k].cells)
               /\ ChangesRows(t, u, z.cells, t.columns[k].cells)
    BY <2>1, ReplacedRows
  <2>2. ChangesRows(t, u, column.cells, old.cells)
    BY <1>3, <1>4, <2>1
  <2>3. QED
    BY <1>3, <1>4, <2>1, <2>2 DEF ChangesRows
<1>8. DOMAIN old.cells = 1 .. n /\ r \in 1 .. n
  <2>1. old \in SoundColumns
    BY ElementOfSeq, LenProperties DEF ColumnsInOrder
  <2>2. old.cells \in Seq(CellSet)
    BY <2>1 DEF SoundColumns, ColumnSet
  <2>3. QED
    BY <1>2, <1>7, <2>2, LenProperties
<1>9. Identified(t, K, n) /\ Identified(u, L, n)
  BY <1>7, UniqueKeysIdentify
<1>10. \A i \in 1 .. n : K[i] = KeyAt(t, i) /\ L[i] = KeyAt(u, i)
  BY <1>7, KeysAre
<1>11. \A i \in 1 .. n : i # r => L[i] = K[i] /\ Row(u, i) = Row(t, i)
  BY <1>6, <1>7, <1>8, <1>10
<1>12. delta = IF K[r] = <<>> \/ L[r] = <<>> THEN FullRefresh
               ELSE IF old.cells[r] = op.value THEN RowSet({})
               ELSE IF K[r] = L[r] THEN RowSet({Change(K[r], "changed")})
               ELSE RowSet({Change(K[r], "removed"), Change(L[r], "added")})
  BY <1>5 DEF SetCellDelta
<1> HIDE DEF old, r, column, K, L, n, delta
<1>13. K[r] # <<>> /\ L[r] # <<>>
  BY <1>8, <1>9 DEF Identified
<1>14. CASE old.cells[r] = op.value
  <2>1. L[r] = K[r] /\ Row(u, r) = Row(t, r)
    BY <1>6, <1>7, <1>8, <1>10, <1>14
  <2>2. \A i \in 1 .. n : L[i] = K[i] /\ Row(u, i) = Row(t, i)
    BY <1>11, <2>1
  <2>3. ExactFor(Changes(K, {}, "changed"), t, u)
    BY <1>9, <2>2, SameKeysExact
  <2>4. delta.rows = {} /\ Changes(K, {}, "changed") = {}
    BY <1>12, <1>13, <1>14 DEF RowSet, Changes
  <2>5. QED
    BY <2>3, <2>4 DEF delta, K, L
<1>15. CASE old.cells[r] # op.value /\ K[r] = L[r]
  <2>1. Row(t, r) # Row(u, r)
    BY <1>6, <1>7, <1>15
  <2>2. \A i \in 1 .. n : L[i] = K[i] /\ (i \in {r} <=> Row(t, i) # Row(u, i))
    BY <1>11, <1>15, <2>1
  <2>3. ExactFor(Changes(K, {r}, "changed"), t, u)
    <3> DEFINE C == {r}
    <3>1. C \subseteq 1 .. n /\ \A i \in 1 .. n : L[i] = K[i] /\ (i \in C <=> Row(t, i) # Row(u, i))
      BY <1>8, <2>2
    <3> HIDE DEF C
    <3>2. ExactFor(Changes(K, C, "changed"), t, u)
      BY <1>9, <3>1, SameKeysExact
    <3>3. QED
      BY <3>2 DEF C
  <2>4. delta.rows = {Change(K[r], "changed")} /\ Changes(K, {r}, "changed") = {Change(K[r], "changed")}
    BY <1>12, <1>13, <1>15 DEF RowSet, Changes
  <2>5. QED
    BY <2>3, <2>4 DEF delta, K, L
<1>16. CASE old.cells[r] # op.value /\ K[r] # L[r]
  <2>1. ExactFor({Change(K[r], "removed"), Change(L[r], "added")}, t, u)
    BY <1>8, <1>9, <1>11, <1>16, MovedKeyExact
  <2>2. delta.rows = {Change(K[r], "removed"), Change(L[r], "added")}
    BY <1>12, <1>13, <1>16 DEF RowSet
  <2>3. QED
    BY <2>1, <2>2 DEF delta, K, L
<1>17. QED
  BY <1>14, <1>15, <1>16

\* The delta of a column that is set is exact.
LEMMA SetColumnDeltaExact ==
    ASSUME NEW t, ColumnsInOrder(t.columns), NEW op \in ColumnSettings, Applied(ApplyColumnOp(op, t)),
           NEW u, u = ApplyColumnOp(op, t).table, UniqueKeys(t), UniqueKeys(u),
           ~SetColumnDelta(t, op, KeysOf(t), KeysOf(u)).full
    PROVE  ExactFor(SetColumnDelta(t, op, KeysOf(t), KeysOf(u)).rows, t, u)
<1>1. PICK k \in DOMAIN t.columns : FitsPlace(t.columns, k, op.column)
  BY SetColumnIs
<1> DEFINE old == t.columns[k]
           K == KeysOf(t)
           L == KeysOf(u)
           n == RowCount(t)
           delta == SetColumnDelta(t, op, K, L)
           C == {i \in DOMAIN K : old.cells[i] # op.column.cells[i]}
<1>2. u.columns = Replaced(t.columns, k, op.column)
  <2>1. u = WithColumn(t, op.column)
    BY <1>1, SetColumnIs, EditedIs
  <2>2. ASSUME NEW z, FitsPlace(t.columns, k, z) PROVE WithColumn(t, z).columns = Replaced(t.columns, k, z)
    BY <2>2, WithColumnIs
  <2>3. QED
    BY <1>1, <2>1, <2>2
<1>3. /\ ColumnsInOrder(u.columns) /\ RowCount(u) = n
      /\ ChangesRows(t, u, op.column.cells, old.cells)
  <2>1. ASSUME NEW z, FitsPlace(t.columns, k, z), u.columns = Replaced(t.columns, k, z)
        PROVE  /\ ColumnsInOrder(u.columns) /\ RowCount(u) = RowCount(t)
               /\ ChangesRows(t, u, z.cells, t.columns[k].cells)
    BY <2>1, ReplacedRows
  <2>2. QED
    BY <1>1, <1>2, <2>1
<1>4. FindColumn(t, op.column.name) = old
  <2>1. op.column.name = old.name
    BY <1>1 DEF FitsPlace
  <2>2. QED
    BY <2>1, ColumnAtIs
<1>5. Identified(t, K, n) /\ Identified(u, L, n)
  BY <1>3, UniqueKeysIdentify
<1>6. DOMAIN K = 1 .. n
  BY KeysAre
<1>7. K = L /\ delta = RowSet({Change(K[i], "changed") : i \in C})
  <2>1. delta = IF K # L \/ <<>> \in ToSet(K) THEN FullRefresh ELSE RowSet({Change(K[i], "changed") : i \in C})
    BY <1>4 DEF SetColumnDelta
  <2> HIDE DEF delta, K, L, C
  <2>2. FullRefresh.full
    BY DEF FullRefresh
  <2>3. ~delta.full
    BY DEF delta, K, L
  <2>4. QED
    BY <2>1, <2>2, <2>3
<1>8. delta.rows = Changes(K, C, "changed")
  BY <1>7 DEF RowSet, Changes
<1>9. C \subseteq 1 .. n /\ \A i \in 1 .. n : i \in C <=> Row(t, i) # Row(u, i)
  BY <1>3, <1>6 DEF ChangesRows
<1>10. \A i \in 1 .. n : L[i] = K[i]
  BY <1>7
<1> HIDE DEF C, K, L, n, delta
<1>11. ExactFor(Changes(K, C, "changed"), t, u)
  BY <1>5, <1>9, <1>10, SameKeysExact
<1>12. QED
  BY <1>8, <1>11 DEF delta, K, L

\* The rows there were stay, and as many come as are appended.
LEMMA AppendedRows ==
    ASSUME NEW t, InOrder(t), NEW op \in RowAppends, Applied(ApplyColumnOp(op, t)),
           NEW u, u = ApplyColumnOp(op, t).table
    PROVE  /\ ColumnsInOrder(u.columns) /\ RowCount(t) <= RowCount(u)
           /\ \A r \in 1 .. RowCount(t) : KeyAt(u, r) = KeyAt(t, r) /\ Row(u, r) = Row(t, r)
<1> DEFINE columns == t.columns
           new(c) == [r \in DOMAIN op.rows |-> CellFor(op.rows[r], columns[c].name)]
           n == RowCount(t)
<1>1. ColumnsInOrder(columns) /\ ColumnsInOrder(u.columns)
  BY AppendRowsKeeps DEF InOrder
<1>2. ApplyColumnOp(op, t) = AppendRows(t, op) /\ op.rows \in Seq(Seq([col: STRING, value: CellSet]))
  BY DEF RowAppends, ApplyColumnOp
<1>3. u.columns = [c \in DOMAIN columns |-> [columns[c] EXCEPT !.cells = @ \o new(c)]]
  <2>1. AppendRows(t, op) = Edited(Table(t.schema, [c \in DOMAIN columns |-> [columns[c] EXCEPT !.cells = @ \o new(c)]]))
    BY <1>2, RefusedIs DEF AppendRows
  <2>2. QED
    BY <1>2, <2>1, EditedIs, TableIs
<1>4. DOMAIN u.columns = DOMAIN columns
  BY <1>3
<1>5. ASSUME NEW c \in DOMAIN columns
      PROVE  /\ u.columns[c].name = columns[c].name /\ u.columns[c].cells = columns[c].cells \o new(c)
             /\ n = Len(columns[c].cells) /\ RowCount(u) = Len(u.columns[c].cells) /\ n \in Nat
             /\ n <= RowCount(u)
             /\ \A r \in 1 .. n : u.columns[c].cells[r] = columns[c].cells[r]
  <2>1. columns[c] \in SoundColumns
    BY <1>1, ElementOfSeq, LenProperties DEF ColumnsInOrder
  <2>2. columns[c].cells \in Seq(CellSet)
    BY <2>1 DEF SoundColumns, ColumnSet
  <2>3. u.columns[c].name = columns[c].name /\ u.columns[c].cells = columns[c].cells \o new(c)
    BY <1>3, <2>1 DEF SoundColumns, ColumnSet
  <2>4. n = Len(columns[c].cells) /\ n \in Nat
    BY <1>1, RowCountIs
  <2>5. RowCount(u) = Len(u.columns[c].cells) /\ RowCount(u) \in Nat
    BY <1>1, <1>4, RowCountIs
  <2> DEFINE s == columns[c].cells
             e == new(c)
             S == CellSet \cup {e[r] : r \in DOMAIN op.rows}
  <2>6. s \in Seq(S) /\ e \in Seq(S)
    <3>1. DOMAIN op.rows = 1 .. Len(op.rows) /\ Len(op.rows) \in Nat
      BY <1>2, LenProperties
    <3>2. e \in [1 .. Len(op.rows) -> S]
      BY <3>1
    <3>3. e \in Seq(S)
      <4> HIDE DEF e, S
      <4>1. QED
        BY <3>1, <3>2, SeqOfFunction
    <3>4. s \in Seq(S)
      <4>1. CellSet \subseteq S
        OBVIOUS
      <4> HIDE DEF S, s
      <4>2. s \in Seq(CellSet)
        BY <2>2 DEF s
      <4>3. QED
        BY <4>1, <4>2, SeqMonotonic
    <3>5. QED
      BY <3>3, <3>4
  <2> HIDE DEF s, e, S
  <2>7. /\ Len(s \o e) = Len(s) + Len(e) /\ Len(e) \in Nat
        /\ \A i \in 1 .. Len(s) + Len(e) : (s \o e)[i] = IF i <= Len(s) THEN s[i] ELSE e[i - Len(s)]
    BY <2>6, ConcatProperties, LenProperties
  <2>8. n = Len(s) /\ RowCount(u) = Len(s \o e) /\ u.columns[c].cells = s \o e
    BY <2>3, <2>4, <2>5 DEF s, e
  <2>9. \A r \in 1 .. n : (s \o e)[r] = s[r]
    BY <2>4, <2>7, <2>8
  <2>10. n <= RowCount(u)
    BY <2>4, <2>7, <2>8
  <2>11. QED
    BY <2>3, <2>4, <2>5, <2>8, <2>9, <2>10 DEF s
<1>6. n <= RowCount(u)
  <2>1. CASE columns = <<>>
    <3>1. u.columns = <<>>
      <4>1. columns \in Seq(SoundColumns) /\ u.columns \in Seq(SoundColumns)
        BY <1>1 DEF ColumnsInOrder
      <4>2. Len(columns) = 0 /\ DOMAIN columns = 1 .. 0
        BY <2>1, <4>1, LenProperties, EmptySeq
      <4>3. u.columns # <<>> => 1 \in DOMAIN u.columns
        BY <4>1, LenProperties, EmptySeq
      <4>4. QED
        BY <1>4, <4>2, <4>3
    <3>2. n = 0 /\ RowCount(u) = 0
      BY <2>1, <3>1 DEF RowCount
    <3>3. QED
      BY <3>2
  <2>2. CASE columns # <<>>
    <3>1. 1 \in DOMAIN columns
      BY <1>1, <2>2, LenProperties, EmptySeq DEF ColumnsInOrder
    <3>2. QED
      BY <1>5, <3>1
  <2>3. QED
    BY <2>1, <2>2
<1>7. ASSUME NEW r \in 1 .. n PROVE KeyAt(u, r) = KeyAt(t, r) /\ Row(u, r) = Row(t, r)
  <2>1. \A c \in DOMAIN t.columns : u.columns[c].name = t.columns[c].name
    BY <1>5
  <2>2. \A c \in DOMAIN t.columns : u.columns[c].cells[r] = t.columns[c].cells[r]
    BY <1>5
  <2>3. QED
    BY <1>1, <1>4, <2>1, <2>2, SameCells
<1>8. QED
  BY <1>1, <1>6, <1>7

\* The delta of appended rows is exact.
LEMMA AppendRowsDeltaExact ==
    ASSUME NEW t, InOrder(t), NEW op \in RowAppends, Applied(ApplyColumnOp(op, t)),
           NEW u, u = ApplyColumnOp(op, t).table, UniqueKeys(t), UniqueKeys(u),
           ~AppendRowsDelta(KeysOf(t), KeysOf(u)).full
    PROVE  ExactFor(AppendRowsDelta(KeysOf(t), KeysOf(u)).rows, t, u)
<1> DEFINE K == KeysOf(t)
           L == KeysOf(u)
           n == RowCount(t)
           m == RowCount(u)
           delta == AppendRowsDelta(K, L)
           new == SubSeq(L, Len(K) + 1, Len(L))
<1>1. /\ ColumnsInOrder(t.columns) /\ ColumnsInOrder(u.columns) /\ n <= m
      /\ \A r \in 1 .. n : KeyAt(u, r) = KeyAt(t, r) /\ Row(u, r) = Row(t, r)
  BY AppendedRows DEF InOrder
<1>2. Identified(t, K, n) /\ Identified(u, L, m)
  BY <1>1, UniqueKeysIdentify
<1>3. /\ n \in Nat /\ Len(K) = n /\ K = [r \in 1 .. n |-> KeyAt(t, r)]
      /\ m \in Nat /\ Len(L) = m /\ L = [r \in 1 .. m |-> KeyAt(u, r)]
  BY <1>1, KeysAre
<1>4. \A i \in 1 .. n : L[i] = K[i] /\ Row(u, i) = Row(t, i)
  BY <1>1, <1>3
<1>5. delta.rows = {Change(new[i], "added") : i \in DOMAIN new}
  <2>1. delta = FullRefresh \/ delta = RowSet({Change(new[i], "added") : i \in DOMAIN new})
    BY DEF AppendRowsDelta
  <2>2. FullRefresh.full /\ ~delta.full
    BY DEF FullRefresh
  <2> HIDE DEF delta, new
  <2>3. QED
    BY <2>1, <2>2 DEF RowSet
<1>6. DOMAIN new = 1 .. m - n /\ \A i \in 1 .. m - n : new[i] = L[n + i]
  <2> DEFINE S == {L[i] : i \in 1 .. m}
             from == n + 1
  <2>1. \A i \in from .. m : L[i] \in S
    BY <1>3
  <2>2. from \in Int /\ m \in Int /\ new = SubSeq(L, from, m)
    BY <1>3
  <2> HIDE DEF S, L, new, from
  <2>3. /\ SubSeq(L, from, m) \in Seq(S)
        /\ Len(SubSeq(L, from, m)) = IF from <= m THEN m - from + 1 ELSE 0
        /\ \A i \in 1 .. m - from + 1 : SubSeq(L, from, m)[i] = L[from + i - 1]
    BY <2>1, <2>2, SubSeqProperties
  <2>4. m - from + 1 = m - n /\ \A i \in 1 .. m - n : from + i - 1 = n + i
    BY <1>3 DEF from
  <2>5. (IF from <= m THEN m - from + 1 ELSE 0) = m - n
    BY <1>1, <1>3 DEF from
  <2>6. DOMAIN new = 1 .. Len(new)
    BY <2>2, <2>3, LenProperties
  <2>7. QED
    BY <2>2, <2>3, <2>4, <2>5, <2>6
<1>7. {Change(new[i], "added") : i \in DOMAIN new} = {Change(L[i], "added") : i \in n + 1 .. m}
  <2> HIDE DEF L, new
  <2>1. ASSUME NEW i \in 1 .. m - n PROVE n + i \in n + 1 .. m /\ new[i] = L[n + i]
    <3>1. n \in Nat /\ m \in Nat
      BY <1>3
    <3>2. new[i] = L[n + i]
      BY <1>6
    <3> HIDE DEF n, m
    <3>3. n + i \in n + 1 .. m
      BY <3>1
    <3>4. QED
      BY <3>2, <3>3
  <2>2. ASSUME NEW j \in n + 1 .. m PROVE j - n \in 1 .. m - n /\ new[j - n] = L[j]
    <3>1. j - n \in 1 .. m - n /\ n + (j - n) = j
      BY <1>3
    <3>2. QED
      BY <1>6, <3>1
  <2>3. QED
    BY <1>6, <2>1, <2>2
<1> HIDE DEF K, L, n, m, delta, new
<1>8. ExactFor(Changes(L, n + 1 .. m, "added"), t, u)
  BY <1>1, <1>2, <1>4, NewKeysExact
<1>9. delta.rows = Changes(L, n + 1 .. m, "added")
  BY <1>5, <1>7 DEF Changes
<1>10. QED
  BY <1>8, <1>9 DEF delta, K, L

\* The delta of an op, when it is one of rows, takes a consumer's keyed rows from one
\* table to the next (GridEditDelta, gridedit.go).
LEMMA EditDeltaExact ==
    ASSUME NEW t, InOrder(t), NEW op \in Ops, ~GridEditDelta(t, op).full,
           UniqueKeys(t), UniqueKeys(ApplyColumnOp(op, t).table)
    PROVE  ExactFor(GridEditDelta(t, op).rows, t, ApplyColumnOp(op, t).table)
<1> DEFINE u == ApplyColumnOp(op, t).table
           delta == GridEditDelta(t, op)
<1>1. FullRefresh.full
  BY DEF FullRefresh
<1>2. ColumnsInOrder(t.columns)
  BY DEF InOrder
<1>3. Applied(ApplyColumnOp(op, t)) /\ op.edit \notin {"insertColumn", "removeColumn", "applyTransform"}
  BY <1>1 DEF GridEditDelta, DeltaOf
<1>4. op \in CellEdits \/ op \in ColumnSettings \/ op \in RowAppends
  BY <1>3, GridAssumption DEF ColumnEdits, CellEdits, ColumnSettings
<1>5. CASE op \in CellEdits
  <2>1. op.edit = "setCell"
    BY <1>5 DEF CellEdits
  <2>2. delta = SetCellDelta(t, op, KeysOf(t), KeysOf(u))
    BY <1>3, <2>1 DEF GridEditDelta, DeltaOf
  <2>3. ~SetCellDelta(t, op, KeysOf(t), KeysOf(u)).full
    BY <2>2
  <2> HIDE DEF u, delta
  <2>4. u = ApplyColumnOp(op, t).table /\ UniqueKeys(u)
    BY DEF u
  <2>5. ExactFor(SetCellDelta(t, op, KeysOf(t), KeysOf(u)).rows, t, u)
    BY <1>2, <1>3, <1>5, <2>3, <2>4, SetCellDeltaExact
  <2>6. QED
    BY <2>2, <2>5 DEF u, delta
<1>6. CASE op \in ColumnSettings
  <2>1. op.edit = "setColumn"
    BY <1>6 DEF ColumnSettings
  <2>2. delta = SetColumnDelta(t, op, KeysOf(t), KeysOf(u))
    BY <1>3, <2>1 DEF GridEditDelta, DeltaOf
  <2>3. ~SetColumnDelta(t, op, KeysOf(t), KeysOf(u)).full
    BY <2>2
  <2> HIDE DEF u, delta
  <2>4. u = ApplyColumnOp(op, t).table /\ UniqueKeys(u)
    BY DEF u
  <2>5. ExactFor(SetColumnDelta(t, op, KeysOf(t), KeysOf(u)).rows, t, u)
    BY <1>2, <1>3, <1>6, <2>3, <2>4, SetColumnDeltaExact
  <2>6. QED
    BY <2>2, <2>5 DEF u, delta
<1>7. CASE op \in RowAppends
  <2>1. op.edit = "appendRows"
    BY <1>7 DEF RowAppends
  <2>2. delta = AppendRowsDelta(KeysOf(t), KeysOf(u))
    BY <1>3, <2>1 DEF GridEditDelta, DeltaOf
  <2>3. ~AppendRowsDelta(KeysOf(t), KeysOf(u)).full
    BY <2>2
  <2> HIDE DEF u, delta
  <2>4. u = ApplyColumnOp(op, t).table /\ UniqueKeys(u)
    BY DEF u
  <2>5. ExactFor(AppendRowsDelta(KeysOf(t), KeysOf(u)).rows, t, u)
    BY <1>3, <1>7, <2>3, <2>4, AppendRowsDeltaExact
  <2>6. QED
    BY <2>2, <2>5 DEF u, delta
<1>8. QED
  BY <1>4, <1>5, <1>6, <1>7

-----------------------------------------------------------------------------
(* The theorems.                                                           *)

\* Of the pipelines among the ops: one that evaluates leaves a table in order.
PipelinesKeepOrder ==
    \A op \in Ops : op.edit = "applyTransform" =>
        \A t : InOrder(t) /\ Applied(EvalPipeline(op.pipeline, t)) => InOrder(EvalPipeline(op.pipeline, t).table)

\* With both stacks empty the line is the columns of now.
LEMMA AloneAt ==
    ASSUME NEW columns, ColumnsInOrder(columns), NEW P, P = [i \in 0 .. 0 |-> columns]
    PROVE  /\ HistoryAt(columns, <<>>, <<>>, P, P)
           /\ LineOf(P, P, 0, 0) = <<columns>>
<1>1. <<>> \in Seq(Entries) /\ Len(<<>>) = 0 /\ Capacity \in Nat
  BY GridAssumption
<1>2. P \in [0 .. 0 -> Seq(SoundColumns)] /\ P[0] = columns
  BY DEF ColumnsInOrder
<1>3. Past(P, columns, <<>>) /\ Future(P, columns, <<>>)
  BY <1>1, <1>2 DEF Past, Future
<1>4. HistoryAt(columns, <<>>, <<>>, P, P)
  BY <1>1, <1>3 DEF HistoryAt
<1>5. LineOf(P, P, 0, 0) = <<columns>>
  <2>1. LineOf(P, P, 0, 0) = [k \in 1 .. 1 |-> columns]
    BY <1>2 DEF LineOf
  <2>2. QED
    BY <2>1
<1>6. QED
  BY <1>4, <1>5

\* The initial history is a line of one.
LEMMA HistoryStarts == Init => HistoryInv /\ History!TInit
<1> SUFFICES ASSUME Init PROVE HistoryInv /\ History!TInit
  OBVIOUS
<1> DEFINE columns == InitialTable.columns
           P == [i \in 0 .. 0 |-> columns]
<1>1. table = InitialTable /\ undo = <<>> /\ redo = <<>> /\ InOrder(table) /\ Len(<<>>) = 0
  BY GridAssumption DEF Init
<1>2. ColumnsInOrder(columns)
  BY <1>1 DEF InOrder
<1> HIDE DEF columns
<1>3. HistoryAt(columns, <<>>, <<>>, P, P) /\ LineOf(P, P, 0, 0) = <<columns>>
  BY <1>2, AloneAt
<1> HIDE DEF P
<1>4. Walk(columns, Inverses(<<>>)) = P /\ Walk(columns, Forwards(<<>>)) = P
  BY <1>3, LineIs
<1>5. AsLine = <<columns>>
  BY <1>1, <1>3, <1>4 DEF AsLine, columns
<1>6. HistoryInv
  BY <1>1, <1>3 DEF HistoryInv, columns
<1>7. QED
  BY <1>1, <1>5, <1>6 DEF History!TInit, columns

\* Making an edit is an edit of the line, or starts a new one.
LEMMA ApplyKeeps ==
    ASSUME PipelinesKeepOrder, HistoryInv, NEW op \in Ops, Apply(op)
    PROVE  HistoryInv' /\ History!TNext
<1>1. /\ Applied(ApplyColumnOp(op, table)) /\ table' = ApplyColumnOp(op, table).table
      /\ undo' = (IF Invertible(op) THEN Push(EditEntry(op, InvertColumnOp(op, table)), undo) ELSE <<>>)
      /\ redo' = <<>>
  BY DEF Apply, Takes
<1>2. PICK P, F : HistoryAt(table.columns, undo, redo, P, F)
  BY DEF HistoryInv
<1>3. InOrder(table) /\ ColumnsInOrder(table.columns) /\ Capacity \in Nat
  BY GridAssumption DEF HistoryInv, InOrder
<1>4. AsLine = LineOf(P, F, Len(undo), Len(redo))
  BY <1>2, LineIs DEF AsLine
<1>5. CASE op \in ColumnEdits
  <2> DEFINE entry == EditEntry(op, InvertColumnOp(op, table))
             new == table'.columns
             stack == Push(entry, undo)
             Q == Longer(P, new, Len(stack))
             G == [i \in 0 .. 0 |-> new]
  <2>1. Invertible(op)
    BY <1>5 DEF Invertible, ColumnEdits
  <2>2. undo' = stack
    BY <1>1, <2>1
  <2>3. Links(table.columns, entry, new) /\ entry \in Entries /\ InOrder(table)'
    BY <1>1, <1>3, <1>5, EditLinks
  <2> HIDE DEF entry, new
  <2>4. /\ HistoryAt(new, stack, <<>>, Q, G)
        /\ LineOf(Q, G, Len(stack), 0) =
             History!LastOf(Append(SubSeq(LineOf(P, F, Len(undo), Len(redo)), 1, Len(undo) + 1), new), Capacity + 1)
        /\ Len(LineOf(Q, G, Len(stack), 0)) = Len(stack) + 1
        /\ LineOf(Q, G, Len(stack), 0)[Len(stack) + 1] = new
    BY <1>2, <1>3, <2>3, EditMoves
  <2> HIDE DEF stack, Q, G
  <2>5. Walk(new, Inverses(stack)) = Q /\ Walk(new, Forwards(<<>>)) = G
    BY <2>4, LineIs
  <2>6. AsLine' = LineOf(Q, G, Len(stack), 0)
    BY <1>1, <2>2, <2>5 DEF AsLine, new
  <2>7. HistoryInv'
    BY <1>1, <2>2, <2>3, <2>4 DEF HistoryInv, new
  <2>8. History!Edit
    BY <1>4, <2>2, <2>4, <2>6 DEF History!Edit
  <2>9. QED
    BY <2>7, <2>8 DEF History!TNext
<1>6. CASE op \notin ColumnEdits
  <2>1. op \in RowAppends \/ op.edit = "applyTransform"
    BY <1>6, GridAssumption
  <2>2. ~Invertible(op)
    BY <2>1 DEF Invertible, RowAppends
  <2>3. InOrder(table)'
    <3>1. CASE op \in RowAppends
      BY <1>1, <1>3, <3>1, AppendRowsKeeps
    <3>2. CASE op.edit = "applyTransform"
      <4>1. ApplyColumnOp(op, table) = EvalPipeline(op.pipeline, table)
        BY <3>2 DEF ApplyColumnOp
      <4>2. QED
        BY <1>1, <1>3, <3>2, <4>1 DEF PipelinesKeepOrder
    <3>3. QED
      BY <2>1, <3>1, <3>2
  <2> DEFINE new == table'.columns
             Q == [i \in 0 .. 0 |-> new]
  <2>4. undo' = <<>> /\ ColumnsInOrder(new) /\ Len(<<>>) = 0
    BY <1>1, <2>2, <2>3 DEF InOrder
  <2> HIDE DEF new
  <2>5. HistoryAt(new, <<>>, <<>>, Q, Q) /\ LineOf(Q, Q, 0, 0) = <<new>>
    BY <2>4, AloneAt
  <2> HIDE DEF Q
  <2>6. Walk(new, Inverses(<<>>)) = Q /\ Walk(new, Forwards(<<>>)) = Q
    BY <2>5, LineIs
  <2>7. AsLine' = <<new>>
    BY <1>1, <2>4, <2>5, <2>6 DEF AsLine, new
  <2>8. HistoryInv'
    BY <1>1, <2>3, <2>4, <2>5 DEF HistoryInv, new
  <2>9. History!Restart
    BY <2>4, <2>7 DEF History!Restart
  <2>10. QED
    BY <2>8, <2>9 DEF History!TNext
<1>7. QED
  BY <1>5, <1>6

\* What an op that a link names does to the table.
LEMMA LinkTakes ==
    ASSUME NEW columns, NEW op \in ColumnEdits, Leads(op, table.columns, columns),
           InOrder(table), Takes(op)
    PROVE  InOrder(table)' /\ table'.columns = columns
<1>1. Applied(ApplyColumnOp(op, table)) /\ table' = ApplyColumnOp(op, table).table
  BY DEF Takes
<1>2. table'.columns = columns
  BY <1>1 DEF Leads
<1>3. ColumnsInOrder(table.columns)
  BY DEF InOrder
<1>4. InOrder(table)'
  BY <1>1, <1>3, EditLinks
<1>5. QED
  BY <1>2, <1>4

\* An undo moves the cursor back.
LEMMA UndoKeeps ==
    ASSUME HistoryInv, Undo
    PROVE  HistoryInv' /\ History!TNext
<1>1. undo # <<>> /\ Takes(undo[1].inverse) /\ undo' = Tail(undo) /\ redo' = <<undo[1]>> \o redo
  BY DEF Undo
<1>2. PICK P, F : HistoryAt(table.columns, undo, redo, P, F)
  BY DEF HistoryInv
<1>3. InOrder(table) /\ Capacity \in Nat
  BY GridAssumption DEF HistoryInv
<1>4. AsLine = LineOf(P, F, Len(undo), Len(redo))
  BY <1>2, LineIs DEF AsLine
<1> DEFINE new == P[1]
           less == Tail(undo)
           more == <<undo[1]>> \o redo
           Q == Shorter(P, Len(undo) - 1)
           G == Longer(F, new, Len(redo) + 1)
<1>5. InOrder(table)' /\ table'.columns = new
  <2>1. Links(new, undo[1], table.columns)
    BY <1>1, <1>2, TailKeepsPast DEF HistoryAt
  <2>2. undo[1] \in Entries
    BY <1>1, <1>2, TailIs DEF HistoryAt
  <2>3. undo[1].inverse \in ColumnEdits /\ Leads(undo[1].inverse, table.columns, new)
    BY <2>1, <2>2 DEF Links, Entries
  <2> HIDE DEF new
  <2>4. QED
    BY <1>1, <1>3, <2>3, LinkTakes
<1>6. /\ HistoryAt(new, less, more, Q, G)
      /\ Len(less) = Len(undo) - 1 /\ Len(undo) \in Nat /\ Len(less) \in Nat
      /\ LineOf(Q, G, Len(less), Len(more)) = LineOf(P, F, Len(undo), Len(redo))
  <2>1. OneBack(undo, redo, P, F, less, more, Q, G) /\ new = P[1]
    BY DEF OneBack
  <2> HIDE DEF new, less, more, Q, G
  <2>2. undo # <<>>
    BY <1>1
  <2>3. /\ HistoryAt(P[1], less, more, Q, G)
        /\ Len(less) = Len(undo) - 1 /\ Len(undo) \in Nat /\ Len(less) \in Nat
        /\ LineOf(Q, G, Len(less), Len(more)) = LineOf(P, F, Len(undo), Len(redo))
    BY <2>1, <2>2, <1>2, <1>3, UndoMoves
  <2>4. QED
    BY <2>1, <2>3
<1> HIDE DEF new, less, more, Q, G
<1>7. undo' = less /\ redo' = more
  BY <1>1 DEF less, more
<1>8. Walk(new, Inverses(less)) = Q /\ Walk(new, Forwards(more)) = G
  BY <1>6, LineIs
<1>9. AsLine' = LineOf(Q, G, Len(less), Len(more))
  BY <1>5, <1>7, <1>8 DEF AsLine
<1>10. HistoryInv'
  BY <1>5, <1>6, <1>7 DEF HistoryInv
<1>11. History!UndoMove
  <2>1. Len(undo) + 1 > 1 /\ Len(less) + 1 = (Len(undo) + 1) - 1
    BY <1>6
  <2>2. QED
    BY <1>4, <1>6, <1>7, <1>9, <2>1 DEF History!UndoMove
<1>12. QED
  BY <1>10, <1>11 DEF History!TNext

\* A redo moves it on.
LEMMA RedoKeeps ==
    ASSUME HistoryInv, Redo
    PROVE  HistoryInv' /\ History!TNext
<1>1. redo # <<>> /\ Takes(redo[1].op) /\ undo' = Push(redo[1], undo) /\ redo' = Tail(redo)
  BY DEF Redo
<1>2. PICK P, F : HistoryAt(table.columns, undo, redo, P, F)
  BY DEF HistoryInv
<1>3. InOrder(table) /\ Capacity \in Nat
  BY GridAssumption DEF HistoryInv
<1>4. AsLine = LineOf(P, F, Len(undo), Len(redo))
  BY <1>2, LineIs DEF AsLine
<1> DEFINE new == F[1]
           stack == Push(redo[1], undo)
           less == Tail(redo)
           Q == Longer(P, new, Len(stack))
           G == Shorter(F, Len(redo) - 1)
<1>5. InOrder(table)' /\ table'.columns = new
  <2>1. Links(table.columns, redo[1], new)
    BY <1>1, <1>2, TailKeepsFuture DEF HistoryAt
  <2>2. redo[1] \in Entries
    BY <1>1, <1>2, TailIs DEF HistoryAt
  <2>3. redo[1].op \in ColumnEdits /\ Leads(redo[1].op, table.columns, new)
    BY <2>1, <2>2 DEF Links, Entries
  <2> HIDE DEF new
  <2>4. QED
    BY <1>1, <1>3, <2>3, LinkTakes
<1>6. /\ HistoryAt(new, stack, less, Q, G)
      /\ Len(stack) = Len(undo) + 1 /\ Len(undo) \in Nat
      /\ Len(redo) \in Nat /\ Len(redo) # 0
      /\ LineOf(Q, G, Len(stack), Len(less)) = LineOf(P, F, Len(undo), Len(redo))
  <2>1. OneOn(undo, redo, P, F, stack, less, Q, G) /\ new = F[1]
    BY DEF OneOn
  <2> HIDE DEF new, stack, less, Q, G
  <2>2. redo # <<>>
    BY <1>1
  <2>3. /\ HistoryAt(F[1], stack, less, Q, G)
        /\ Len(stack) = Len(undo) + 1 /\ Len(undo) \in Nat
        /\ Len(redo) \in Nat /\ Len(redo) # 0
        /\ LineOf(Q, G, Len(stack), Len(less)) = LineOf(P, F, Len(undo), Len(redo))
    BY <2>1, <2>2, <1>2, <1>3, RedoMoves
  <2>4. QED
    BY <2>1, <2>3
<1>7. Len(LineOf(P, F, Len(undo), Len(redo))) = Len(undo) + 1 + Len(redo)
  <2> DEFINE L == LineOf(P, F, Len(undo), Len(redo))
             length == Len(undo) + 1 + Len(redo)
  <2>1. length \in Nat /\ L \in [1 .. length -> {L[k] : k \in 1 .. length}]
    BY <1>6 DEF LineOf
  <2> HIDE DEF L, length
  <2>2. Len(L) = length
    BY <2>1, SeqOfFunction
  <2>3. QED
    BY <2>2 DEF L, length
<1> HIDE DEF new, less, stack, Q, G
<1>8. undo' = stack /\ redo' = less
  BY <1>1 DEF less, stack
<1>9. Walk(new, Inverses(stack)) = Q /\ Walk(new, Forwards(less)) = G
  BY <1>6, LineIs
<1>10. AsLine' = LineOf(Q, G, Len(stack), Len(less))
  BY <1>5, <1>8, <1>9 DEF AsLine
<1>11. HistoryInv'
  BY <1>5, <1>6, <1>8 DEF HistoryInv
<1>12. History!RedoMove
  <2>1. Len(undo) + 1 < Len(undo) + 1 + Len(redo)
    BY <1>6
  <2>2. QED
    BY <1>4, <1>6, <1>7, <1>8, <1>10, <2>1 DEF History!RedoMove
<1>13. QED
  BY <1>11, <1>12 DEF History!TNext

\* A step keeps the invariant, and is a step of the line or none.
LEMMA HistorySteps ==
    ASSUME PipelinesKeepOrder
    PROVE  HistoryInv /\ [Next]_vars => HistoryInv' /\ [History!TNext]_<<AsLine, Len(undo) + 1>>
<1> SUFFICES ASSUME HistoryInv, [Next]_vars
             PROVE  HistoryInv' /\ [History!TNext]_<<AsLine, Len(undo) + 1>>
  OBVIOUS
<1>1. CASE \E op \in Ops : Apply(op)
  BY <1>1, ApplyKeeps
<1>2. CASE Undo
  BY <1>2, UndoKeeps
<1>3. CASE Redo
  BY <1>3, RedoKeeps
<1>4. CASE UNCHANGED vars
  <2>1. table' = table /\ undo' = undo /\ redo' = redo
    BY <1>4 DEF vars
  <2>2. HistoryInv' /\ AsLine' = AsLine
    BY <2>1 DEF HistoryInv, AsLine
  <2>3. QED
    BY <2>1, <2>2
<1>5. QED
  BY <1>1, <1>2, <1>3, <1>4 DEF Next

\* The invariant of the history: the table is in order, and each entry of a stack
\* leads between neighbours on the line, there and back (GridEditHistory, gridedit.go).
THEOREM HistoryInvariant ==
    ASSUME PipelinesKeepOrder
    PROVE  Spec => []HistoryInv
<1>1. Init => HistoryInv
  BY HistoryStarts
<1>2. HistoryInv /\ [Next]_vars => HistoryInv'
  BY HistorySteps
<1>3. QED
  BY <1>1, <1>2, PTL DEF Spec

\* Whatever is edited, undone and redone, the table stays in order, when the
\* pipelines among the edits keep it so (ApplyColumnOp, gridedit.go).
THEOREM TablesAlwaysInOrder ==
    ASSUME PipelinesKeepOrder
    PROVE  Spec => []TablesStayInOrder
<1>1. HistoryInv => TablesStayInOrder
  BY DEF HistoryInv, TablesStayInOrder
<1>2. QED
  BY <1>1, HistoryInvariant, PTL

\* A history is a line of the tables' columns with a cursor on it, on which undo and
\* redo only move the cursor (GridEditHistory.Undo and Redo, gridedit.go).
THEOREM HistoryIsATimeline ==
    ASSUME PipelinesKeepOrder
    PROVE  Spec => ImplementsTimeline
<1>1. Init => HistoryInv /\ History!TInit
  BY HistoryStarts
<1>2. HistoryInv /\ [Next]_vars => HistoryInv' /\ [History!TNext]_<<AsLine, Len(undo) + 1>>
  BY HistorySteps
<1>3. QED
  BY <1>1, <1>2, PTL DEF Spec, ImplementsTimeline, History!TSpec

\* On every table a history reaches, the delta of every op is exact for a consumer
\* that keys its rows, when the pipelines among the edits keep tables in order.
THEOREM DeltasAlwaysExact ==
    ASSUME PipelinesKeepOrder
    PROVE  Spec => []DeltaIsExact
<1>1. HistoryInv => DeltaIsExact
  BY EditDeltaExact DEF HistoryInv, DeltaIsExact
<1>2. QED
  BY <1>1, HistoryInvariant, PTL
=============================================================================
