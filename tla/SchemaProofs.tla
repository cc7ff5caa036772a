---------------------------- MODULE SchemaProofs ----------------------------
(***************************************************************************)
(* The delta of two schemas, applied to the first, gives the second, for   *)
(* every pair of schemas that name each column once; and a delta of the    *)
(* class "compatible" keeps what a consumer depends on (Schemas).          *)
(*                                                                         *)
(* Each loop of PatchSchema is followed clause by clause: after k clauses  *)
(* the schema is the one that the delta has changed so far, and the next   *)
(* clause finds the column as it says.                                     *)
(***************************************************************************)
EXTENDS Schemas, GridProofs

-----------------------------------------------------------------------------
(* A schema that names each column once.                                   *)

\* Its positions.
LEMMA SchemaIs ==
    ASSUME NEW s, SoundSchema(s)
    PROVE  /\ Len(s) \in Nat /\ DOMAIN s = 1 .. Len(s) /\ s = [i \in 1 .. Len(s) |-> s[i]]
           /\ \A i \in 1 .. Len(s) : s[i] \in ToSet(s)
BY LenProperties, ElementOfSeq DEF SoundSchema

\* A name leads to its one entry.
LEMMA NameLeads ==
    ASSUME NEW s, SoundSchema(s), NEW i \in DOMAIN s
    PROVE  /\ ColIndex(s, s[i].name) = i /\ HasCol(s, s[i].name)
           /\ EntryNamed(s, s[i].name) = s[i] /\ s[i].name \in SchemaNames(s)
<1> DEFINE name == s[i].name
<1>1. /\ \A j \in DOMAIN s : s[j].name = name <=> j = i
      /\ DOMAIN s = 1 .. Len(s) /\ Len(s) \in Nat /\ i \in 1 .. Len(s)
  BY SchemaIs DEF SoundSchema
<1>2. \A j \in 1 .. (i - 1) : j \in DOMAIN s /\ j # i
  BY <1>1
<1>3. \A j \in DOMAIN s : s[j].name = name => j <= i
  BY <1>1
<1> HIDE DEF name
<1>4. ColIndex(s, name) = i
  <2>1. \A k \in DOMAIN s : s[k].name = name /\ (\A j \in 1 .. (k - 1) : s[j].name # name) <=> k = i
    BY <1>1, <1>2
  <2>2. \E j \in DOMAIN s : s[j].name = name
    BY <1>1
  <2>3. QED
    BY <2>1, <2>2 DEF ColIndex
<1>5. EntryNamed(s, name) = s[i]
  BY <1>1, <1>3 DEF EntryNamed
<1>6. i # 0
  BY <1>1
<1>7. QED
  BY <1>4, <1>5, <1>6 DEF HasCol, SchemaNames, name

\* A name that is not there leads nowhere.
LEMMA NameMissing ==
    ASSUME NEW s, NEW name, name \notin SchemaNames(s)
    PROVE  ~HasCol(s, name) /\ ColIndex(s, name) = 0
BY DEF HasCol, ColIndex, SchemaNames

\* Two schemas, of which each entry of one is an entry of the other.
LEMMA SameEntry ==
    ASSUME NEW s, SoundSchema(s), NEW e \in ToSet(s)
    PROVE  e.name \in SchemaNames(s) /\ EntryNamed(s, e.name) = e /\ IsEntry(e)
<1>1. PICK i \in DOMAIN s : s[i] = e
  BY DEF ToSet
<1>2. QED
  BY <1>1, NameLeads DEF SoundSchema

\* A name of a schema leads to an entry of that name.
LEMMA EntryIsNamed ==
    ASSUME NEW s, SoundSchema(s), NEW name \in SchemaNames(s)
    PROVE  EntryNamed(s, name) \in ToSet(s) /\ EntryNamed(s, name).name = name /\ IsEntry(EntryNamed(s, name))
<1>1. PICK i \in DOMAIN s : s[i].name = name
  BY DEF SchemaNames
<1>2. QED
  BY <1>1, NameLeads DEF SoundSchema, ToSet

-----------------------------------------------------------------------------
(* The entries of some names.                                              *)

\* The rounds of the loop.
LEMMA KeptRounds ==
    ASSUME NEW R, NEW s \in Seq(R), NEW names
    PROVE  /\ KeptUpTo(s, names)[0] = <<>>
           /\ \A i \in 1 .. Len(s) :
                 KeptUpTo(s, names)[i] = IF s[i].name \in names THEN Append(KeptUpTo(s, names)[i - 1], s[i])
                                         ELSE KeptUpTo(s, names)[i - 1]
           /\ \A i \in 0 .. Len(s) : KeptUpTo(s, names)[i] \in Seq(R)
<1> DEFINE n == Len(s)
           step == [x \in (1 .. n) \X Seq(R) |-> IF s[x[1]].name \in names THEN Append(x[2], s[x[1]]) ELSE x[2]]
           Body(f) == [i \in 0 .. n |->
                          IF i = 0 THEN <<>>
                          ELSE IF s[i].name \in names THEN Append(f[i - 1], s[i]) ELSE f[i - 1]]
           upTo == CHOOSE f : f = Body(f)
<1>1. n \in Nat /\ <<>> \in Seq(R) /\ \A i \in 1 .. n : s[i] \in R
  BY LenProperties, ElementOfSeq
<1>2. \A i \in 1 .. n : \A v \in Seq(R) :
          step[<<i, v>>] = IF s[i].name \in names THEN Append(v, s[i]) ELSE v
  OBVIOUS
<1>3. StaysIn(step, n, Seq(R))
  BY <1>1, <1>2, AppendProperties DEF StaysIn
<1> HIDE DEF step
<1>4. PICK run \in [0 .. n -> Seq(R)] : RunsFrom(run, n, <<>>, step)
  BY <1>1, <1>3, LoopRuns
<1>5. run = Body(run)
  <2>1. ASSUME NEW i \in 0 .. n PROVE run[i] = Body(run)[i]
    <3>1. CASE i = 0
      BY <1>4, <3>1 DEF RunsFrom
    <3>2. CASE i # 0
      <4>1. i \in 1 .. n /\ i - 1 \in 0 .. n
        BY <1>1, <3>2
      <4>2. run[i] = step[<<i, run[i - 1]>>] /\ run[i - 1] \in Seq(R)
        BY <1>4, <4>1 DEF RunsFrom
      <4>3. QED
        BY <1>2, <3>2, <4>1, <4>2
    <3>3. QED
      BY <3>1, <3>2
  <2>2. run = [i \in 0 .. n |-> run[i]] /\ Body(run) = [i \in 0 .. n |-> Body(run)[i]]
    OBVIOUS
  <2> HIDE DEF Body
  <2>3. QED
    BY <2>1, <2>2
<1>6. upTo = Body(upTo)
  BY <1>5
<1>7. KeptUpTo(s, names) = upTo
  BY DEF KeptUpTo
<1> HIDE DEF upTo
<1>8. upTo[0] = <<>>
  BY <1>1, <1>6
<1>9. ASSUME NEW i \in 1 .. n
      PROVE  upTo[i] = IF s[i].name \in names THEN Append(upTo[i - 1], s[i]) ELSE upTo[i - 1]
  <2>1. i # 0 /\ i \in 0 .. n
    BY <1>1
  <2>2. Body(upTo)[i] = IF s[i].name \in names THEN Append(upTo[i - 1], s[i]) ELSE upTo[i - 1]
    BY <2>1
  <2> HIDE DEF Body
  <2>3. QED
    BY <1>6, <2>2
<1> DEFINE T == {i \in 0 .. n : upTo[i] \in Seq(R)}
<1> HIDE DEF Body
<1>10. 0 \in T
  <2>1. 0 \in 0 .. n
    BY <1>1
  <2>2. QED
    BY <1>1, <1>8, <2>1
<1>11. ASSUME NEW i \in 1 .. n, i - 1 \in T PROVE i \in T
  <2>1. i \in 0 .. n /\ s[i] \in R /\ upTo[i - 1] \in Seq(R)
    BY <1>1, <1>11
  <2>2. Append(upTo[i - 1], s[i]) \in Seq(R)
    BY <2>1, AppendProperties
  <2>3. upTo[i] \in Seq(R)
    BY <1>9, <2>1, <2>2
  <2>4. QED
    BY <2>1, <2>3
<1>12. \A i \in 0 .. n : i \in T
  <2> HIDE DEF T
  <2>1. QED
    BY <1>1, <1>10, <1>11, CountingUp
<1>13. QED
  BY <1>7, <1>8, <1>9, <1>12

\* What the loop has kept of the first i entries.
Keeps(s, names, i, kept) ==
    /\ \A q \in 1 .. Len(kept) : \E j \in 1 .. i : kept[q] = s[j] /\ s[j].name \in names
    /\ \A j \in 1 .. i : s[j].name \in names => \E q \in 1 .. Len(kept) : kept[q] = s[j]
    /\ \A q, r \in 1 .. Len(kept) : kept[q].name = kept[r].name => q = r

\* One round of it.
LEMMA KeepsOn ==
    ASSUME NEW s, SoundSchema(s), NEW names, NEW i \in 1 .. Len(s), NEW kept \in Seq(ToSet(s)),
           Keeps(s, names, i - 1, kept)
    PROVE  Keeps(s, names, i, IF s[i].name \in names THEN Append(kept, s[i]) ELSE kept)
<1>1. Len(s) \in Nat /\ i \in Nat /\ Len(kept) \in Nat /\ s[i] \in ToSet(s) /\ DOMAIN s = 1 .. Len(s)
  BY SchemaIs, LenProperties
<1>2. /\ \A j \in 1 .. i : j \in 1 .. (i - 1) \/ j = i
      /\ \A j \in 1 .. (i - 1) : j \in 1 .. i /\ j \in DOMAIN s /\ j # i
      /\ i \in 1 .. i /\ i \in DOMAIN s
  BY <1>1
<1>3. \A j \in 1 .. (i - 1) : s[j].name # s[i].name
  BY <1>2 DEF SoundSchema
<1>4. CASE s[i].name \notin names
  <2>1. \A q \in 1 .. Len(kept) : \E j \in 1 .. i : kept[q] = s[j] /\ s[j].name \in names
    BY <1>2 DEF Keeps
  <2>2. \A j \in 1 .. i : s[j].name \in names => \E q \in 1 .. Len(kept) : kept[q] = s[j]
    BY <1>2, <1>4 DEF Keeps
  <2>3. QED
    BY <1>4, <2>1, <2>2 DEF Keeps
<1>5. CASE s[i].name \in names
  <2> DEFINE new == Append(kept, s[i])
  <2>1. /\ Len(new) = Len(kept) + 1
        /\ \A q \in 1 .. Len(kept) : new[q] = kept[q]
        /\ new[Len(kept) + 1] = s[i]
    BY <1>1, AppendProperties
  <2>2. /\ \A q \in 1 .. Len(new) : q \in 1 .. Len(kept) \/ q = Len(kept) + 1
        /\ \A q \in 1 .. Len(kept) : q \in 1 .. Len(new)
        /\ Len(kept) + 1 \in 1 .. Len(new)
    BY <1>1, <2>1
  <2> HIDE DEF new
  <2>3. \A q \in 1 .. Len(kept) : kept[q].name # s[i].name
    BY <1>3 DEF Keeps
  <2>4. ASSUME NEW q \in 1 .. Len(new) PROVE \E j \in 1 .. i : new[q] = s[j] /\ s[j].name \in names
    <3>1. CASE q = Len(kept) + 1
      BY <1>2, <1>5, <2>1, <3>1
    <3>2. CASE q \in 1 .. Len(kept)
      <4>1. PICK j \in 1 .. (i - 1) : kept[q] = s[j] /\ s[j].name \in names
        BY <3>2 DEF Keeps
      <4>2. QED
        BY <1>2, <2>1, <3>2, <4>1
    <3>3. QED
      BY <2>2, <3>1, <3>2
  <2>5. ASSUME NEW j \in 1 .. i, s[j].name \in names PROVE \E q \in 1 .. Len(new) : new[q] = s[j]
    <3>1. CASE j = i
      BY <2>1, <2>2, <3>1
    <3>2. CASE j \in 1 .. (i - 1)
      <4>1. PICK q \in 1 .. Len(kept) : kept[q] = s[j]
        BY <2>5, <3>2 DEF Keeps
      <4>2. QED
        BY <2>1, <2>2, <4>1
    <3>3. QED
      BY <1>2, <3>1, <3>2
  <2>6. \A q, r \in 1 .. Len(new) : new[q].name = new[r].name => q = r
    BY <2>1, <2>2, <2>3 DEF Keeps
  <2>7. Keeps(s, names, i, new)
    BY <2>4, <2>5, <2>6 DEF Keeps
  <2>8. QED
    BY <1>5, <2>7 DEF new
<1>6. QED
  BY <1>4, <1>5

\* The entries that are kept: those of the names, each once.
LEMMA KeepingIs ==
    ASSUME NEW s, SoundSchema(s), NEW names
    PROVE  /\ SoundSchema(Keeping(s, names))
           /\ ToSet(Keeping(s, names)) = {e \in ToSet(s) : e.name \in names}
           /\ SchemaNames(Keeping(s, names)) = SchemaNames(s) \cap names
<1> DEFINE n == Len(s)
           upTo == KeptUpTo(s, names)
           T == {i \in 0 .. n : Keeps(s, names, i, upTo[i])}
           kept == Keeping(s, names)
<1>1. n \in Nat /\ s \in Seq(ToSet(s)) /\ DOMAIN s = 1 .. n
  BY SchemaIs DEF SoundSchema
<1>2. /\ upTo[0] = <<>>
      /\ \A i \in 1 .. n : upTo[i] = IF s[i].name \in names THEN Append(upTo[i - 1], s[i]) ELSE upTo[i - 1]
      /\ \A i \in 0 .. n : upTo[i] \in Seq(ToSet(s))
  BY <1>1, KeptRounds
<1>3. kept = upTo[n]
  BY DEF Keeping
<1> HIDE DEF upTo, kept
<1>4. 0 \in T
  <2>1. Keeps(s, names, 0, <<>>)
    BY DEF Keeps
  <2>2. QED
    BY <1>1, <1>2, <2>1
<1>5. ASSUME NEW i \in 1 .. n, i - 1 \in T PROVE i \in T
  <2>1. i \in 0 .. n /\ i - 1 \in 0 .. n /\ Keeps(s, names, i - 1, upTo[i - 1]) /\ upTo[i - 1] \in Seq(ToSet(s))
    BY <1>1, <1>2, <1>5
  <2>2. Keeps(s, names, i, IF s[i].name \in names THEN Append(upTo[i - 1], s[i]) ELSE upTo[i - 1])
    BY <2>1, KeepsOn
  <2>3. QED
    BY <1>2, <2>1, <2>2
<1>6. \A i \in 0 .. n : i \in T
  <2> HIDE DEF T
  <2>1. QED
    BY <1>1, <1>4, <1>5, CountingUp
<1>7. kept \in Seq(ToSet(s)) /\ Keeps(s, names, n, kept)
  <2>1. n \in 0 .. n
    BY <1>1
  <2>2. QED
    BY <1>2, <1>3, <1>6, <2>1
<1>8. DOMAIN kept = 1 .. Len(kept) /\ kept \in Seq(ToSet(kept))
  BY <1>7, OwnSet, LenProperties
<1>9. ToSet(kept) = {e \in ToSet(s) : e.name \in names}
  <2>1. ASSUME NEW e \in ToSet(kept) PROVE e \in ToSet(s) /\ e.name \in names
    <3>1. PICK q \in 1 .. Len(kept) : kept[q] = e
      BY <1>8 DEF ToSet
    <3>2. PICK j \in 1 .. n : kept[q] = s[j] /\ s[j].name \in names
      BY <1>7, <3>1 DEF Keeps
    <3>3. s[j] \in ToSet(s)
      BY <1>1, <3>2 DEF ToSet
    <3>4. QED
      BY <3>1, <3>2, <3>3
  <2>2. ASSUME NEW e \in ToSet(s), e.name \in names PROVE e \in ToSet(kept)
    <3>1. PICK j \in 1 .. n : s[j] = e
      BY <1>1 DEF ToSet
    <3>2. PICK q \in 1 .. Len(kept) : kept[q] = e
      BY <1>7, <2>2, <3>1 DEF Keeps
    <3>3. QED
      BY <1>8, <3>2 DEF ToSet
  <2>3. QED
    BY <2>1, <2>2
<1>10. SoundSchema(kept)
  <2>1. \A i \in DOMAIN kept : IsEntry(kept[i])
    BY <1>1, <1>7, <1>8 DEF Keeps, SoundSchema
  <2>2. \A i, j \in DOMAIN kept : kept[i].name = kept[j].name => i = j
    BY <1>7, <1>8 DEF Keeps
  <2>3. QED
    BY <1>8, <2>1, <2>2 DEF SoundSchema
<1>11. \A r : SchemaNames(r) = {e.name : e \in ToSet(r)}
  BY DEF SchemaNames, ToSet
<1>12. SchemaNames(kept) = SchemaNames(s) \cap names
  BY <1>9, <1>11
<1>13. QED
  BY <1>9, <1>10, <1>12 DEF kept

\* Every name kept: the schema as it is.
LEMMA KeepingAll ==
    ASSUME NEW s, SoundSchema(s), NEW names, SchemaNames(s) \subseteq names
    PROVE  Keeping(s, names) = s
<1> DEFINE n == Len(s)
           upTo == KeptUpTo(s, names)
           T == {i \in 0 .. n : Len(upTo[i]) = i /\ \A j \in 1 .. i : upTo[i][j] = s[j]}
<1>1. n \in Nat /\ s \in Seq(ToSet(s)) /\ DOMAIN s = 1 .. n /\ \A i \in 1 .. n : s[i] \in ToSet(s)
  BY SchemaIs DEF SoundSchema
<1>2. /\ upTo[0] = <<>>
      /\ \A i \in 1 .. n : upTo[i] = IF s[i].name \in names THEN Append(upTo[i - 1], s[i]) ELSE upTo[i - 1]
      /\ \A i \in 0 .. n : upTo[i] \in Seq(ToSet(s))
  BY <1>1, KeptRounds
<1>3. Keeping(s, names) = upTo[n]
  BY DEF Keeping
<1>4. \A i \in 1 .. n : s[i].name \in names
  BY <1>1 DEF SchemaNames
<1> HIDE DEF upTo
<1>5. 0 \in T
  BY <1>1, <1>2
<1>6. ASSUME NEW i \in 1 .. n, i - 1 \in T PROVE i \in T
  <2>1. /\ i \in 0 .. n /\ i - 1 \in 0 .. n /\ i \in Nat /\ i - 1 + 1 = i
        /\ \A j \in 1 .. i : j \in 1 .. (i - 1) \/ j = i
    BY <1>1
  <2>2. /\ upTo[i] = Append(upTo[i - 1], s[i]) /\ upTo[i - 1] \in Seq(ToSet(s)) /\ s[i] \in ToSet(s)
        /\ Len(upTo[i - 1]) = i - 1 /\ \A j \in 1 .. (i - 1) : upTo[i - 1][j] = s[j]
    BY <1>1, <1>2, <1>4, <1>6, <2>1
  <2>3. /\ Len(upTo[i]) = i /\ upTo[i][i] = s[i]
        /\ \A j \in 1 .. (i - 1) : upTo[i][j] = upTo[i - 1][j]
    BY <2>1, <2>2, AppendProperties
  <2>4. QED
    BY <2>1, <2>2, <2>3
<1>7. \A i \in 0 .. n : i \in T
  <2> HIDE DEF T
  <2>1. QED
    BY <1>1, <1>5, <1>6, CountingUp
<1>8. n \in 0 .. n
  BY <1>1
<1>9. Len(upTo[n]) = n /\ (\A j \in 1 .. n : upTo[n][j] = s[j]) /\ upTo[n] \in Seq(ToSet(s))
  BY <1>2, <1>7, <1>8
<1>10. upTo[n] = s
  BY <1>1, <1>9, SeqEqual
<1>11. QED
  BY <1>3, <1>10

\* Only the names that the schema has matter.
LEMMA KeepingSame ==
    ASSUME NEW s, SoundSchema(s), NEW names, NEW others,
           \A name \in SchemaNames(s) : name \in names <=> name \in others
    PROVE  Keeping(s, names) = Keeping(s, others)
<1> DEFINE n == Len(s)
           upTo == KeptUpTo(s, names)
           also == KeptUpTo(s, others)
           T == {i \in 0 .. n : upTo[i] = also[i]}
<1>1. n \in Nat /\ s \in Seq(ToSet(s)) /\ DOMAIN s = 1 .. n
  BY SchemaIs DEF SoundSchema
<1>2. /\ upTo[0] = <<>>
      /\ \A i \in 1 .. n : upTo[i] = IF s[i].name \in names THEN Append(upTo[i - 1], s[i]) ELSE upTo[i - 1]
  BY <1>1, KeptRounds
<1>3. /\ also[0] = <<>>
      /\ \A i \in 1 .. n : also[i] = IF s[i].name \in others THEN Append(also[i - 1], s[i]) ELSE also[i - 1]
  BY <1>1, KeptRounds
<1>4. \A i \in 1 .. n : s[i].name \in names <=> s[i].name \in others
  BY <1>1 DEF SchemaNames
<1>5. Keeping(s, names) = upTo[n] /\ Keeping(s, others) = also[n]
  BY DEF Keeping
<1> HIDE DEF upTo, also
<1>6. 0 \in T
  BY <1>1, <1>2, <1>3
<1>7. ASSUME NEW i \in 1 .. n, i - 1 \in T PROVE i \in T
  <2>1. i \in 0 .. n /\ upTo[i - 1] = also[i - 1]
    BY <1>1, <1>7
  <2>2. QED
    BY <1>2, <1>3, <1>4, <2>1
<1>8. \A i \in 0 .. n : i \in T
  <2> HIDE DEF T
  <2>1. QED
    BY <1>1, <1>6, <1>7, CountingUp
<1>9. n \in 0 .. n
  BY <1>1
<1>10. QED
  BY <1>5, <1>8, <1>9

\* An element taken out of a list leaves the others.
LEMMA RemoveAtIs ==
    ASSUME NEW R, NEW s \in Seq(R), NEW k \in 1 .. Len(s), NEW new \in Seq(R), TakenOut(s, k, new)
    PROVE  RemoveAt(s, k) = new
<1> DEFINE front == SubSeq(s, 1, k - 1)
           back == SubSeq(s, k + 1, Len(s))
<1>1. Len(s) \in Nat /\ k \in Nat /\ k # 0 /\ k <= Len(s) /\ Len(new) = Len(s) - 1
  BY LenProperties DEF TakenOut
<1>2. front \in Seq(R) /\ Len(front) = k - 1 /\ \A j \in 1 .. k - 1 : front[j] = s[j]
  BY <1>1, SubSeqProperties
<1>3. back \in Seq(R) /\ Len(back) = Len(s) - k /\ \A j \in 1 .. Len(s) - k : back[j] = s[k + j]
  BY <1>1, SubSeqProperties
<1> HIDE DEF front, back
<1>4. /\ front \o back \in Seq(R)
      /\ Len(front \o back) = Len(front) + Len(back)
      /\ \A j \in 1 .. Len(front) + Len(back) :
            (front \o back)[j] = IF j <= Len(front) THEN front[j] ELSE back[j - Len(front)]
  BY <1>2, <1>3, ConcatProperties
<1>5. Len(front) + Len(back) = Len(new)
  BY <1>1, <1>2, <1>3
<1>6. ASSUME NEW j \in 1 .. Len(new) PROVE (front \o back)[j] = new[j]
  <2>1. j \in Nat /\ j \in 1 .. Len(s) - 1 /\ (j < k <=> j <= k - 1)
    BY <1>1
  <2>2. new[j] = IF j < k THEN s[j] ELSE s[j + 1]
    BY <2>1 DEF TakenOut
  <2>3. (front \o back)[j] = IF j <= k - 1 THEN front[j] ELSE back[j - (k - 1)]
    BY <1>2, <1>4, <1>5
  <2>4. CASE j < k
    <3>1. j \in 1 .. k - 1
      BY <1>1, <2>1, <2>4
    <3>2. QED
      BY <1>2, <2>1, <2>2, <2>3, <2>4, <3>1
  <2>5. CASE ~(j < k)
    <3>1. j - (k - 1) \in 1 .. Len(s) - k /\ k + (j - (k - 1)) = j + 1
      BY <1>1, <2>1, <2>5
    <3>2. QED
      BY <1>3, <2>1, <2>2, <2>3, <2>5, <3>1
  <2>6. QED
    BY <2>4, <2>5
<1>7. front \o back = new
  BY <1>4, <1>5, <1>6, SeqEqual
<1>8. QED
  BY <1>7 DEF RemoveAt, front, back

\* An element put last is taken out again ...
LEMMA LastTakenOut ==
    ASSUME NEW R, NEW s \in Seq(R), NEW e \in R
    PROVE  TakenOut(Append(s, e), Len(s) + 1, s) /\ Append(s, e)[Len(s) + 1] = e
<1>1. Len(s) \in Nat
  BY LenProperties
<1>2. /\ Len(Append(s, e)) = Len(s) + 1 /\ Append(s, e)[Len(s) + 1] = e
      /\ \A j \in 1 .. Len(s) : Append(s, e)[j] = s[j]
  BY AppendProperties
<1>3. \A j \in 1 .. Len(s) + 1 - 1 : j \in 1 .. Len(s) /\ j < Len(s) + 1
  BY <1>1
<1>4. Len(s) = Len(s) + 1 - 1
  BY <1>1
<1>5. QED
  BY <1>2, <1>3, <1>4 DEF TakenOut

\* ... and one before it is taken out of the longer list as of the shorter.
LEMMA TakenOutBefore ==
    ASSUME NEW R, NEW s \in Seq(R), NEW e \in R, NEW k \in 1 .. Len(s), NEW new \in Seq(R), TakenOut(s, k, new)
    PROVE  TakenOut(Append(s, e), k, Append(new, e)) /\ Append(s, e)[k] = s[k]
<1>1. Len(s) \in Nat /\ k \in Nat /\ k # 0 /\ k <= Len(s) /\ Len(new) = Len(s) - 1 /\ Len(new) \in Nat
  BY LenProperties DEF TakenOut
<1>2. /\ Len(Append(s, e)) = Len(s) + 1 /\ Append(s, e)[Len(s) + 1] = e
      /\ \A j \in 1 .. Len(s) : Append(s, e)[j] = s[j]
  BY AppendProperties
<1>3. /\ Len(Append(new, e)) = Len(s) /\ Append(new, e)[Len(s)] = e
      /\ \A j \in 1 .. Len(s) - 1 : Append(new, e)[j] = new[j]
  BY <1>1, AppendProperties
<1>4. ASSUME NEW j \in 1 .. Len(s)
      PROVE  Append(new, e)[j] = IF j < k THEN Append(s, e)[j] ELSE Append(s, e)[j + 1]
  <2>1. CASE j = Len(s)
    BY <1>1, <1>2, <1>3, <2>1
  <2>2. CASE j # Len(s)
    <3>1. j \in 1 .. Len(s) - 1 /\ j + 1 \in 1 .. Len(s)
      BY <1>1, <2>2
    <3>2. Append(new, e)[j] = IF j < k THEN s[j] ELSE s[j + 1]
      BY <1>3, <3>1 DEF TakenOut
    <3>3. QED
      BY <1>2, <3>1, <3>2
  <2>3. QED
    BY <2>1, <2>2
<1>5. Len(s) = Len(Append(s, e)) - 1
  BY <1>1, <1>2
<1>6. QED
  BY <1>2, <1>3, <1>4, <1>5 DEF TakenOut

\* A name less to keep is an entry less.
LEMMA KeepingLess ==
    ASSUME NEW s, SoundSchema(s), NEW names, NEW p \in DOMAIN s, s[p].name \in names
    PROVE  \E k \in 1 .. Len(Keeping(s, names)) :
              /\ TakenOut(Keeping(s, names), k, Keeping(s, names \ {s[p].name}))
              /\ Keeping(s, names)[k] = s[p]
<1> DEFINE n == Len(s)
           upTo == KeptUpTo(s, names)
           less == KeptUpTo(s, names \ {s[p].name})
           k == Len(upTo[p - 1]) + 1
           Out(i) == k \in 1 .. Len(upTo[i]) /\ TakenOut(upTo[i], k, less[i]) /\ upTo[i][k] = s[p]
           T == {i \in 0 .. n : IF i < p THEN upTo[i] = less[i] ELSE Out(i)}
<1>1. /\ n \in Nat /\ s \in Seq(ToSet(s)) /\ DOMAIN s = 1 .. n /\ \A i \in 1 .. n : s[i] \in ToSet(s)
      /\ p \in Nat /\ p # 0 /\ p <= n /\ p - 1 \in 0 .. n
  BY SchemaIs DEF SoundSchema
<1>2. /\ upTo[0] = <<>>
      /\ \A i \in 1 .. n : upTo[i] = IF s[i].name \in names THEN Append(upTo[i - 1], s[i]) ELSE upTo[i - 1]
      /\ \A i \in 0 .. n : upTo[i] \in Seq(ToSet(s))
  BY <1>1, KeptRounds
<1>3. /\ less[0] = <<>>
      /\ \A i \in 1 .. n : less[i] = IF s[i].name \in names \ {s[p].name} THEN Append(less[i - 1], s[i])
                                     ELSE less[i - 1]
      /\ \A i \in 0 .. n : less[i] \in Seq(ToSet(s))
  BY <1>1, KeptRounds
<1>4. Keeping(s, names) = upTo[n] /\ Keeping(s, names \ {s[p].name}) = less[n]
  BY DEF Keeping
<1>5. \A i \in 1 .. n : s[i].name = s[p].name <=> i = p
  BY <1>1 DEF SoundSchema
<1> HIDE DEF upTo, less
<1>6. 0 \in T
  BY <1>1, <1>2, <1>3
<1>7. ASSUME NEW i \in 1 .. n, i - 1 \in T PROVE i \in T
  <2>1. i \in Nat /\ i \in 0 .. n /\ i - 1 \in 0 .. n /\ (i < p => i - 1 < p) /\ (i = p => i - 1 < p)
        /\ (~(i < p) /\ i # p => ~(i - 1 < p) /\ ~(i < p))
    BY <1>1
  <2>2. upTo[i - 1] \in Seq(ToSet(s)) /\ less[i - 1] \in Seq(ToSet(s)) /\ s[i] \in ToSet(s)
    BY <1>1, <1>2, <1>3, <2>1
  <2>3. CASE i < p
    <3>1. upTo[i - 1] = less[i - 1] /\ i # p
      BY <1>1, <1>7, <2>1, <2>3
    <3>2. s[i].name \in names \ {s[p].name} <=> s[i].name \in names
      BY <1>5, <3>1
    <3>3. upTo[i] = IF s[i].name \in names THEN Append(upTo[i - 1], s[i]) ELSE upTo[i - 1]
      BY <1>2
    <3>4. less[i] = IF s[i].name \in names THEN Append(less[i - 1], s[i]) ELSE less[i - 1]
      BY <1>3, <3>2
    <3>5. upTo[i] = less[i]
      BY <3>1, <3>3, <3>4
    <3>6. QED
      BY <2>1, <2>3, <3>5
  <2>4. CASE i = p
    <3>1. less[i] = upTo[i - 1] /\ upTo[i] = Append(upTo[i - 1], s[i]) /\ k = Len(upTo[i - 1]) + 1
      BY <1>2, <1>3, <1>5, <1>7, <2>1, <2>4
    <3>2. TakenOut(upTo[i], k, less[i]) /\ upTo[i][k] = s[p]
      BY <2>2, <2>4, <3>1, LastTakenOut
    <3>3. Len(upTo[i]) = Len(upTo[i - 1]) + 1 /\ Len(upTo[i - 1]) \in Nat
      BY <2>2, <3>1, AppendProperties, LenProperties
    <3>4. k \in 1 .. Len(upTo[i])
      BY <3>1, <3>3
    <3>5. ~(i < p)
      BY <1>1, <2>4
    <3>6. QED
      BY <2>1, <3>2, <3>4, <3>5
  <2>5. CASE ~(i < p) /\ i # p
    <3>1. Out(i - 1)
      BY <1>7, <2>1, <2>5
    <3> HIDE DEF k
    <3>2. CASE s[i].name \notin names
      <4>1. upTo[i] = upTo[i - 1] /\ less[i] = less[i - 1]
        BY <1>2, <1>3, <3>2
      <4>2. QED
        BY <2>1, <2>5, <3>1, <4>1
    <3>3. CASE s[i].name \in names
      <4>1. upTo[i] = Append(upTo[i - 1], s[i]) /\ less[i] = Append(less[i - 1], s[i])
        BY <1>2, <1>3, <1>5, <2>5, <3>3
      <4>2. TakenOut(upTo[i], k, less[i]) /\ upTo[i][k] = s[p]
        BY <2>2, <3>1, <4>1, TakenOutBefore
      <4>3. Len(upTo[i]) = Len(upTo[i - 1]) + 1 /\ Len(upTo[i - 1]) \in Nat
        BY <2>2, <4>1, AppendProperties, LenProperties
      <4>4. k \in 1 .. Len(upTo[i])
        BY <3>1, <4>3
      <4>5. QED
        BY <2>1, <2>5, <4>2, <4>4
    <3>4. QED
      BY <3>2, <3>3
  <2>6. QED
    BY <2>3, <2>4, <2>5
<1>8. \A i \in 0 .. n : i \in T
  <2> HIDE DEF T
  <2>1. QED
    BY <1>1, <1>6, <1>7, CountingUp
<1>9. Out(n)
  <2>1. n \in 0 .. n /\ ~(n < p)
    BY <1>1
  <2> HIDE DEF Out
  <2>2. QED
    BY <1>8, <2>1
<1> HIDE DEF k
<1>10. QED
  BY <1>4, <1>9

-----------------------------------------------------------------------------
(* The loop over the columns that are removed.                             *)

\* A schema that is patched is there to patch further.
LEMMA PatchedIs ==
    ASSUME NEW s
    PROVE  IsPatched(Patched(s)) /\ Patched(s).schema = s
BY DEF IsPatched, Patched

\* One column is removed.
LEMMA RemoveClauseIs ==
    ASSUME NEW s, SoundSchema(s), NEW names, NEW p \in DOMAIN s, s[p].name \in names
    PROVE  RemoveClause(Keeping(s, names), s[p]) = Patched(Keeping(s, names \ {s[p].name}))
<1> DEFINE kept == Keeping(s, names)
           less == Keeping(s, names \ {s[p].name})
<1>1. PICK k \in 1 .. Len(kept) : TakenOut(kept, k, less) /\ kept[k] = s[p]
  BY KeepingLess
<1>2. SoundSchema(kept) /\ SoundSchema(less) /\ ToSet(kept) \subseteq ToSet(s) /\ ToSet(less) \subseteq ToSet(s)
  BY KeepingIs
<1> HIDE DEF kept, less
<1>3. /\ kept \in Seq(ToSet(s)) /\ less \in Seq(ToSet(s)) /\ DOMAIN kept = 1 .. Len(kept)
      /\ Len(kept) \in Nat
  BY <1>2, SchemaIs, SeqMonotonic DEF SoundSchema
<1>4. RemoveAt(kept, k) = less
  BY <1>1, <1>3, RemoveAtIs
<1>5. ColIndex(kept, s[p].name) = k /\ k # 0
  BY <1>1, <1>2, <1>3, NameLeads
<1>6. QED
  BY <1>1, <1>4, <1>5 DEF RemoveClause, kept, less

\* Without the columns removed it is the schema of the others.
LEMMA Removals ==
    ASSUME NEW old, SoundSchema(old), NEW left
    PROVE  Clauses(Patched(old), RemoveClause, Keeping(old, SchemaNames(old) \ left)) = Patched(Keeping(old, left))
<1> DEFINE gone == Keeping(old, SchemaNames(old) \ left)
           n == Len(gone)
           Names(i) == SchemaNames(old) \ {gone[j].name : j \in 1 .. i}
           run == [i \in 0 .. n |-> Patched(Keeping(old, Names(i)))]
           Body(f) == [i \in 0 .. n |->
                          IF i = 0 THEN Patched(old)
                          ELSE LET q == f[i - 1]
                               IN  IF IsPatched(q) THEN RemoveClause(q.schema, gone[i]) ELSE q]
           upTo == CHOOSE f : f = Body(f)
<1>1. /\ SoundSchema(gone) /\ ToSet(gone) \subseteq ToSet(old)
      /\ SchemaNames(gone) = SchemaNames(old) \cap (SchemaNames(old) \ left)
  BY KeepingIs
<1>2. Clauses(Patched(old), RemoveClause, gone) = upTo[n]
  BY DEF Clauses
<1> HIDE DEF gone
<1>3. /\ n \in Nat /\ DOMAIN gone = 1 .. n
      /\ \A i, j \in 1 .. n : gone[i].name = gone[j].name => i = j
      /\ \A i \in 1 .. n : \E p \in DOMAIN old : old[p] = gone[i]
  BY <1>1, SchemaIs DEF SoundSchema, ToSet
<1>4. run[0] = Patched(old)
  <2>1. Keeping(old, Names(0)) = old
    BY KeepingAll
  <2>2. 0 \in 0 .. n
    BY <1>3
  <2> HIDE DEF Names
  <2>3. QED
    BY <2>1, <2>2
<1>5. ASSUME NEW i \in 1 .. n
      PROVE  /\ i \in 0 .. n /\ i - 1 \in 0 .. n /\ i # 0
             /\ RemoveClause(Keeping(old, Names(i - 1)), gone[i]) = Patched(Keeping(old, Names(i)))
  <2>1. /\ i \in 0 .. n /\ i - 1 \in 0 .. n /\ i # 0
        /\ \A j \in 1 .. i : j \in 1 .. (i - 1) \/ j = i
        /\ \A j \in 1 .. (i - 1) : j \in 1 .. i /\ j \in 1 .. n /\ j # i
        /\ i \in 1 .. i
    BY <1>3
  <2>2. PICK p \in DOMAIN old : old[p] = gone[i]
    BY <1>3
  <2>3. Names(i - 1) \ {gone[i].name} = Names(i)
    BY <2>1
  <2>4. gone[i].name \in Names(i - 1)
    BY <1>3, <2>1, <2>2, NameLeads
  <2> HIDE DEF Names
  <2>5. QED
    BY <2>1, <2>2, <2>3, <2>4, RemoveClauseIs
<1>6. Keeping(old, Names(n)) = Keeping(old, left)
  <2>1. SchemaNames(gone) = {gone[j].name : j \in 1 .. n}
    BY <1>3 DEF SchemaNames
  <2>2. \A name \in SchemaNames(old) : name \in Names(n) <=> name \in left
    BY <1>1, <2>1
  <2> HIDE DEF Names
  <2>3. QED
    BY <2>2, KeepingSame
<1> HIDE DEF Names
<1>7. ASSUME NEW f, NEW i \in 1 .. n, f[i - 1] = run[i - 1] PROVE Body(f)[i] = run[i]
  <2>1. run[i - 1] = Patched(Keeping(old, Names(i - 1))) /\ run[i] = Patched(Keeping(old, Names(i)))
    BY <1>5
  <2> HIDE DEF run
  <2>2. Body(f)[i] = IF IsPatched(f[i - 1]) THEN RemoveClause(f[i - 1].schema, gone[i]) ELSE f[i - 1]
    BY <1>5
  <2>3. QED
    BY <1>5, <1>7, <2>1, <2>2, PatchedIs
<1>8. \A f : Body(f)[0] = Patched(old)
  BY <1>3
<1>9. run = Body(run)
  <2>1. \A i \in 0 .. n : i = 0 \/ i \in 1 .. n
    BY <1>3
  <2>2. run = [i \in 0 .. n |-> run[i]] /\ Body(run) = [i \in 0 .. n |-> Body(run)[i]]
    OBVIOUS
  <2> HIDE DEF Body, run
  <2>3. QED
    BY <1>4, <1>7, <1>8, <2>1, <2>2
<1>10. upTo = Body(upTo)
  <2> HIDE DEF run
  <2>1. QED
    BY <1>9
<1> HIDE DEF upTo, Body, run
<1>11. upTo[n] = run[n]
  <2>1. upTo[0] = run[0]
    BY <1>4, <1>8, <1>10
  <2>2. ASSUME NEW i \in 1 .. n, upTo[i - 1] = run[i - 1] PROVE upTo[i] = run[i]
    <3>1. Body(upTo)[i] = run[i]
      BY <1>7, <2>2
    <3>2. QED
      BY <1>10, <3>1
  <2>3. QED
    BY <1>3, <2>1, <2>2, RunsMeet
<1>12. n \in 0 .. n
  BY <1>3
<1>13. QED
  BY <1>2, <1>6, <1>11, <1>12 DEF gone, run

-----------------------------------------------------------------------------
(* The loop over the columns that are retyped.                             *)

\* Entries changed in place, under their names.
LEMMA ChangedInPlace ==
    ASSUME NEW s, SoundSchema(s), NEW new, new = [i \in 1 .. Len(s) |-> new[i]],
           \A i \in 1 .. Len(s) : IsEntry(new[i]) /\ new[i].name = s[i].name
    PROVE  SoundSchema(new) /\ SchemaNames(new) = SchemaNames(s) /\ Len(new) = Len(s)
<1>1. Len(s) \in Nat /\ DOMAIN s = 1 .. Len(s) /\ DOMAIN new = 1 .. Len(s)
  BY SchemaIs
<1>2. new \in [1 .. Len(s) -> ToSet(new)]
  BY <1>1 DEF ToSet
<1>3. new \in Seq(ToSet(new)) /\ Len(new) = Len(s)
  BY <1>1, <1>2, SeqOfFunction
<1>4. SchemaNames(new) = SchemaNames(s)
  BY <1>1 DEF SchemaNames
<1>5. \A i, j \in DOMAIN new : new[i].name = new[j].name => i = j
  BY <1>1 DEF SoundSchema
<1>6. QED
  BY <1>1, <1>3, <1>4, <1>5 DEF SoundSchema

TypedAs(e, type) == [name |-> e.name, type |-> type, unit |-> e.unit, meta |-> e.meta]
RetypedBy(s, target, names) ==
    [i \in 1 .. Len(s) |-> IF s[i].name \in names THEN TypedAs(s[i], EntryNamed(target, s[i].name).type) ELSE s[i]]

\* A retyped entry.
LEMMA TypedAsIs ==
    ASSUME NEW e, IsEntry(e), NEW type
    PROVE  /\ IsEntry(TypedAs(e, type)) /\ TypedAs(e, type).name = e.name
           /\ TypedAs(e, type) = [e EXCEPT !.type = type]
           /\ type = e.type => TypedAs(e, type) = e
<1> DEFINE new == TypedAs(e, type)
<1>1. /\ new.name = e.name /\ new.type = type /\ new.unit = e.unit /\ new.meta = e.meta
      /\ new = [name |-> new.name, type |-> new.type, unit |-> new.unit, meta |-> new.meta]
  BY DEF TypedAs
<1>2. e = [name |-> e.name, type |-> e.type, unit |-> e.unit, meta |-> e.meta]
  BY DEF IsEntry
<1>3. new = [e EXCEPT !.type = type]
  BY <1>2 DEF TypedAs
<1>4. type = e.type => new = e
  BY <1>2 DEF TypedAs
<1> HIDE DEF new
<1>5. IsEntry(new)
  BY <1>1 DEF IsEntry
<1>6. QED
  BY <1>1, <1>3, <1>4, <1>5 DEF new

\* A schema of which some entries are retyped.
LEMMA RetypedIs ==
    ASSUME NEW s, SoundSchema(s), NEW target, NEW names
    PROVE  LET new == RetypedBy(s, target, names)
           IN  /\ SoundSchema(new) /\ SchemaNames(new) = SchemaNames(s) /\ Len(new) = Len(s)
               /\ new = [i \in 1 .. Len(s) |-> new[i]]
               /\ \A i \in 1 .. Len(s) :
                     /\ new[i].name = s[i].name
                     /\ new[i] = IF s[i].name \in names THEN TypedAs(s[i], EntryNamed(target, s[i].name).type)
                                 ELSE s[i]
<1> DEFINE new == RetypedBy(s, target, names)
<1>1. \A i \in 1 .. Len(s) :
         new[i] = IF s[i].name \in names THEN TypedAs(s[i], EntryNamed(target, s[i].name).type) ELSE s[i]
  BY DEF RetypedBy
<1>2. \A i \in 1 .. Len(s) : IsEntry(s[i])
  BY SchemaIs DEF SoundSchema
<1>3. new = [i \in 1 .. Len(s) |-> new[i]]
  BY DEF RetypedBy
<1> HIDE DEF new
<1>4. \A i \in 1 .. Len(s) : IsEntry(new[i]) /\ new[i].name = s[i].name
  BY <1>1, <1>2, TypedAsIs
<1>5. SoundSchema(new) /\ SchemaNames(new) = SchemaNames(s) /\ Len(new) = Len(s)
  BY <1>3, <1>4, ChangedInPlace
<1>6. QED
  BY <1>1, <1>3, <1>4, <1>5 DEF new

Retyping(s, i, target, names, r) ==
    /\ s[i].name \notin names
    /\ r.name = s[i].name /\ r.from = s[i].type /\ r.to = EntryNamed(target, s[i].name).type

\* One column is retyped.
LEMMA RetypeClauseIs ==
    ASSUME NEW s, SoundSchema(s), NEW target, NEW names, NEW i \in 1 .. Len(s),
           NEW r, Retyping(s, i, target, names, r)
    PROVE  RetypeClause(RetypedBy(s, target, names), r) = Patched(RetypedBy(s, target, names \cup {r.name}))
<1> DEFINE new == RetypedBy(s, target, names)
           next == RetypedBy(s, target, names \cup {r.name})
<1>0. /\ s[i].name \notin names
      /\ r.name = s[i].name /\ r.from = s[i].type /\ r.to = EntryNamed(target, s[i].name).type
  BY DEF Retyping
<1>1. /\ SoundSchema(new) /\ Len(new) = Len(s) /\ new = [j \in 1 .. Len(s) |-> new[j]]
      /\ \A j \in 1 .. Len(s) :
            /\ new[j].name = s[j].name
            /\ new[j] = IF s[j].name \in names THEN TypedAs(s[j], EntryNamed(target, s[j].name).type) ELSE s[j]
  BY RetypedIs
<1>2. /\ next = [j \in 1 .. Len(s) |-> next[j]]
      /\ \A j \in 1 .. Len(s) :
            next[j] = IF s[j].name \in names \cup {r.name} THEN TypedAs(s[j], EntryNamed(target, s[j].name).type)
                      ELSE s[j]
  BY RetypedIs
<1> HIDE DEF new, next
<1>3. /\ Len(s) \in Nat /\ DOMAIN s = 1 .. Len(s) /\ i # 0 /\ IsEntry(s[i])
      /\ \A j \in 1 .. Len(s) : s[j].name = r.name <=> j = i
  BY <1>0, SchemaIs DEF SoundSchema
<1>4. new[i] = s[i] /\ next[i] = TypedAs(s[i], r.to)
  BY <1>0, <1>1, <1>2
<1>5. ColIndex(new, r.name) = i
  <2>1. i \in DOMAIN new
    BY <1>1
  <2>2. QED
    BY <1>0, <1>1, <2>1, NameLeads
<1>6. [new EXCEPT ![i].type = r.to] = next
  <2> DEFINE patched == [new EXCEPT ![i].type = r.to]
  <2>1. patched = [j \in 1 .. Len(s) |-> IF j = i THEN [new[i] EXCEPT !.type = r.to] ELSE new[j]]
    BY <1>1
  <2>2. \A j \in 1 .. Len(s) : patched[j] = next[j]
    BY <1>0, <1>1, <1>2, <1>3, <1>4, <2>1, TypedAsIs
  <2>3. patched = [j \in 1 .. Len(s) |-> patched[j]]
    BY <2>1
  <2> HIDE DEF patched
  <2>4. patched = next
    BY <1>2, <2>2, <2>3
  <2>5. QED
    BY <2>4 DEF patched
<1>7. RetypeClause(new, r) = Patched(next)
  BY <1>0, <1>3, <1>4, <1>5, <1>6 DEF RetypeClause
<1>8. QED
  BY <1>7 DEF new, next

\* The columns of a target whose types are retyped, all in one.
Retyped(s, target) == RetypedBy(s, target, SchemaNames(s))

\* With the columns retyped every one has the type of the target.
LEMMA Retypings ==
    ASSUME NEW s, SoundSchema(s), NEW target
    PROVE  Clauses(Patched(s), RetypeClause, Retypes(s, target)) = Patched(Retyped(s, target))
<1> DEFINE differ == {name \in SchemaNames(s) : EntryNamed(target, name).type # EntryNamed(s, name).type}
           moved == Keeping(s, differ)
           cs == Retypes(s, target)
           n == Len(moved)
           Names(i) == {moved[j].name : j \in 1 .. i}
           run == [i \in 0 .. n |-> Patched(RetypedBy(s, target, Names(i)))]
           Body(f) == [i \in 0 .. n |->
                          IF i = 0 THEN Patched(s)
                          ELSE LET q == f[i - 1]
                               IN  IF IsPatched(q) THEN RetypeClause(q.schema, cs[i]) ELSE q]
           upTo == CHOOSE f : f = Body(f)
<1>1. SoundSchema(moved) /\ ToSet(moved) \subseteq ToSet(s) /\ SchemaNames(moved) = SchemaNames(s) \cap differ
  BY KeepingIs
<1>2. cs = [i \in DOMAIN moved |-> [name |-> moved[i].name, from |-> moved[i].type,
                                   to |-> EntryNamed(target, moved[i].name).type]]
  BY DEF Retypes
<1> HIDE DEF moved, cs
<1>3. /\ n \in Nat /\ DOMAIN moved = 1 .. n
      /\ \A i, j \in 1 .. n : moved[i].name = moved[j].name => i = j
      /\ \A i \in 1 .. n : \E p \in 1 .. Len(s) : s[p] = moved[i]
  BY <1>1, SchemaIs DEF SoundSchema, ToSet
<1>4. /\ Len(cs) = n
      /\ \A i \in 1 .. n : cs[i].name = moved[i].name /\ cs[i].from = moved[i].type
                           /\ cs[i].to = EntryNamed(target, moved[i].name).type
  <2>1. cs \in [1 .. n -> ToSet(cs)]
    BY <1>2, <1>3 DEF ToSet
  <2>2. Len(cs) = n
    BY <1>3, <2>1, SeqOfFunction
  <2>3. QED
    BY <1>2, <1>3, <2>2
<1>5. Clauses(Patched(s), RetypeClause, cs) = upTo[n]
  BY <1>4 DEF Clauses
<1>6. run[0] = Patched(s)
  <2>1. Names(0) = {} /\ 0 \in 0 .. n
    BY <1>3
  <2>2. RetypedBy(s, target, {}) = s
    BY SchemaIs DEF RetypedBy
  <2> HIDE DEF Names
  <2>3. QED
    BY <2>1, <2>2
<1>7. ASSUME NEW i \in 1 .. n
      PROVE  /\ i \in 0 .. n /\ i - 1 \in 0 .. n /\ i # 0
             /\ RetypeClause(RetypedBy(s, target, Names(i - 1)), cs[i]) = Patched(RetypedBy(s, target, Names(i)))
  <2>1. /\ i \in 0 .. n /\ i - 1 \in 0 .. n /\ i # 0
        /\ \A j \in 1 .. i : j \in 1 .. (i - 1) \/ j = i
        /\ \A j \in 1 .. (i - 1) : j \in 1 .. i /\ j \in 1 .. n /\ j # i
        /\ i \in 1 .. i
    BY <1>3
  <2>2. PICK p \in 1 .. Len(s) : s[p] = moved[i]
    BY <1>3
  <2>3. Names(i - 1) \cup {cs[i].name} = Names(i)
    BY <1>4, <2>1
  <2>4. s[p].name \notin Names(i - 1)
    BY <1>3, <2>1, <2>2
  <2> HIDE DEF Names
  <2>5. Retyping(s, p, target, Names(i - 1), cs[i])
    BY <1>4, <2>2, <2>4 DEF Retyping
  <2>6. QED
    BY <2>1, <2>3, <2>5, RetypeClauseIs
<1>8. RetypedBy(s, target, Names(n)) = Retyped(s, target)
  <2>1. SchemaNames(moved) = Names(n)
    BY <1>3 DEF SchemaNames
  <2>2. ASSUME NEW i \in 1 .. Len(s)
        PROVE  (IF s[i].name \in Names(n) THEN TypedAs(s[i], EntryNamed(target, s[i].name).type) ELSE s[i])
               = (IF s[i].name \in SchemaNames(s) THEN TypedAs(s[i], EntryNamed(target, s[i].name).type) ELSE s[i])
    <3>1. s[i].name \in SchemaNames(s) /\ EntryNamed(s, s[i].name) = s[i] /\ IsEntry(s[i])
      BY SchemaIs, NameLeads DEF SoundSchema
    <3>2. s[i].name \in Names(n) <=> EntryNamed(target, s[i].name).type # s[i].type
      BY <1>1, <2>1, <3>1
    <3> HIDE DEF Names
    <3>3. QED
      BY <3>1, <3>2, TypedAsIs
  <2> HIDE DEF Names
  <2>3. QED
    BY <2>2 DEF RetypedBy, Retyped
<1> HIDE DEF Names
<1>9. ASSUME NEW f, NEW i \in 1 .. n, f[i - 1] = run[i - 1] PROVE Body(f)[i] = run[i]
  <2>1. /\ run[i - 1] = Patched(RetypedBy(s, target, Names(i - 1)))
        /\ run[i] = Patched(RetypedBy(s, target, Names(i)))
    BY <1>7
  <2> HIDE DEF run
  <2>2. Body(f)[i] = IF IsPatched(f[i - 1]) THEN RetypeClause(f[i - 1].schema, cs[i]) ELSE f[i - 1]
    BY <1>7
  <2>3. QED
    BY <1>7, <1>9, <2>1, <2>2, PatchedIs
<1>10. \A f : Body(f)[0] = Patched(s)
  BY <1>3
<1>11. run = Body(run)
  <2>1. \A i \in 0 .. n : i = 0 \/ i \in 1 .. n
    BY <1>3
  <2>2. run = [i \in 0 .. n |-> run[i]] /\ Body(run) = [i \in 0 .. n |-> Body(run)[i]]
    OBVIOUS
  <2> HIDE DEF Body, run
  <2>3. QED
    BY <1>6, <1>9, <1>10, <2>1, <2>2
<1>12. upTo = Body(upTo)
  <2> HIDE DEF run
  <2>1. QED
    BY <1>11
<1> HIDE DEF upTo, Body, run
<1>13. upTo[n] = run[n]
  <2>1. upTo[0] = run[0]
    BY <1>6, <1>10, <1>12
  <2>2. ASSUME NEW i \in 1 .. n, upTo[i - 1] = run[i - 1] PROVE upTo[i] = run[i]
    <3>1. Body(upTo)[i] = run[i]
      BY <1>9, <2>2
    <3>2. QED
      BY <1>12, <3>1
  <2>3. QED
    BY <1>3, <2>1, <2>2, RunsMeet
<1>14. n \in 0 .. n
  BY <1>3
<1>15. QED
  BY <1>5, <1>8, <1>13, <1>14 DEF cs, run

-----------------------------------------------------------------------------
(* The members of an entry that are amended.                               *)

\* What an entry becomes on the way to the one of the target: of the type of that
\* one, and with its members as far as they are given.
MixedMeta(e, t, given) ==
    [m \in (DOMAIN e.meta \ given) \cup (DOMAIN t.meta \cap given) |-> IF m \in given THEN t.meta[m] ELSE e.meta[m]]
Mixed(e, t, given) ==
    [name |-> e.name, type |-> t.type, unit |-> IF "unit" \in given THEN t.unit ELSE e.unit,
     meta |-> MixedMeta(e, t, given)]

\* The members that an entry states.
LEMMA StatedIs ==
    ASSUME NEW meta, NEW m
    PROVE  /\ m \in DOMAIN meta => Stated1(meta, m) # <<>> /\ Stated1(meta, m)[1] = meta[m]
           /\ m \notin DOMAIN meta => Stated1(meta, m) = <<>>
<1>1. \A x : <<x>> # <<>> /\ <<x>>[1] = x
  OBVIOUS
<1>2. QED
  BY <1>1 DEF Stated1

\* The parts of an entry on its way.
LEMMA MixedParts ==
    ASSUME NEW e, NEW t, NEW given
    PROVE  LET new == Mixed(e, t, given)
           IN  /\ new.name = e.name /\ new.type = t.type /\ new.meta = MixedMeta(e, t, given)
               /\ new.unit = IF "unit" \in given THEN t.unit ELSE e.unit
               /\ new = [name |-> new.name, type |-> new.type, unit |-> new.unit, meta |-> new.meta]
BY DEF Mixed

\* On its way an entry is an entry, with the members given and the others as they were.
LEMMA MixedIs ==
    ASSUME NEW e, IsEntry(e), NEW t, IsEntry(t), NEW given
    PROVE  /\ IsEntry(Mixed(e, t, given))
           /\ \A m : Member(Mixed(e, t, given), m) = IF m \in given THEN Member(t, m) ELSE Member(e, m)
<1> DEFINE new == Mixed(e, t, given)
<1>1. /\ new.meta = MixedMeta(e, t, given) /\ new.unit = IF "unit" \in given THEN t.unit ELSE e.unit
      /\ new = [name |-> new.name, type |-> new.type, unit |-> new.unit, meta |-> new.meta]
  BY MixedParts
<1> HIDE DEF new
<1>2. /\ DOMAIN new.meta = (DOMAIN e.meta \ given) \cup (DOMAIN t.meta \cap given)
      /\ \A m \in DOMAIN new.meta : new.meta[m] = IF m \in given THEN t.meta[m] ELSE e.meta[m]
      /\ new.meta = [m \in DOMAIN new.meta |-> new.meta[m]]
  BY <1>1 DEF MixedMeta
<1>3. IsFiniteSet(DOMAIN new.meta)
  <2> DEFINE left == DOMAIN e.meta \ given
             right == DOMAIN t.meta \cap given
  <2>1. IsFiniteSet(DOMAIN e.meta) /\ IsFiniteSet(DOMAIN t.meta)
    BY DEF IsEntry
  <2>2. left \in SUBSET DOMAIN e.meta /\ right \in SUBSET DOMAIN t.meta
    OBVIOUS
  <2>3. DOMAIN new.meta = left \cup right
    BY <1>2
  <2> HIDE DEF left, right
  <2>4. IsFiniteSet(left) /\ IsFiniteSet(right)
    BY <2>1, <2>2, FS_Subset
  <2>5. QED
    BY <2>3, <2>4, FS_Union
<1>4. "unit" \notin DOMAIN new.meta
  BY <1>2 DEF IsEntry
<1>5. IsEntry(new)
  BY <1>1, <1>2, <1>3, <1>4 DEF IsEntry
<1>6. ASSUME NEW m PROVE Member(new, m) = IF m \in given THEN Member(t, m) ELSE Member(e, m)
  <2>1. CASE m = "unit"
    BY <1>1, <2>1 DEF Member
  <2>2. CASE m # "unit"
    <3>1. Stated1(new.meta, m) = IF m \in given THEN Stated1(t.meta, m) ELSE Stated1(e.meta, m)
      BY <1>2 DEF Stated1
    <3>2. QED
      BY <2>2, <3>1 DEF Member
  <2>3. QED
    BY <2>1, <2>2
<1>7. QED
  BY <1>5, <1>6 DEF new

\* Nothing given: the entry retyped.
LEMMA MixedNone ==
    ASSUME NEW e, IsEntry(e), NEW t
    PROVE  Mixed(e, t, {}) = TypedAs(e, t.type)
<1>1. MixedMeta(e, t, {}) = [m \in DOMAIN e.meta |-> e.meta[m]]
  BY DEF MixedMeta
<1>2. MixedMeta(e, t, {}) = e.meta
  BY <1>1 DEF IsEntry
<1>3. QED
  BY <1>2 DEF Mixed, TypedAs

\* Everything given that differs: the entry of the target.
LEMMA MixedAll ==
    ASSUME NEW e, IsEntry(e), NEW t, IsEntry(t), e.name = t.name, NEW given, Moved(e, t) \subseteq given
    PROVE  Mixed(e, t, given) = t
<1> DEFINE new == Mixed(e, t, given)
<1>1. /\ new.meta = MixedMeta(e, t, given) /\ new.unit = IF "unit" \in given THEN t.unit ELSE e.unit
      /\ new.name = e.name /\ new.type = t.type
      /\ new = [name |-> new.name, type |-> new.type, unit |-> new.unit, meta |-> new.meta]
  BY MixedParts
<1> HIDE DEF new
<1>2. new.unit = t.unit
  <2>1. CASE "unit" \in given
    BY <1>1, <2>1
  <2>2. CASE "unit" \notin given
    <3>1. Member(e, "unit") = Member(t, "unit")
      BY <2>2 DEF Moved, Members
    <3>2. QED
      BY <1>1, <2>2, <3>1 DEF Member
  <2>3. QED
    BY <2>1, <2>2
<1>3. new.meta = t.meta
  <2> DEFINE meta == MixedMeta(e, t, given)
  <2>1. /\ DOMAIN meta = (DOMAIN e.meta \ given) \cup (DOMAIN t.meta \cap given)
        /\ \A m \in DOMAIN meta : meta[m] = IF m \in given THEN t.meta[m] ELSE e.meta[m]
        /\ meta = [m \in DOMAIN meta |-> meta[m]]
    BY DEF MixedMeta
  <2> HIDE DEF meta
  <2>2. ASSUME NEW m, m \notin given, m \in DOMAIN e.meta \/ m \in DOMAIN t.meta
        PROVE  m \in DOMAIN e.meta /\ m \in DOMAIN t.meta /\ e.meta[m] = t.meta[m]
    <3>1. m # "unit"
      BY <2>2 DEF IsEntry
    <3>2. Member(e, m) = Member(t, m)
      BY <2>2 DEF Moved, Members
    <3>3. Stated1(e.meta, m) = Stated1(t.meta, m)
      BY <3>1, <3>2 DEF Member
    <3>4. QED
      BY <2>2, <3>3, StatedIs
  <2>3. DOMAIN meta = DOMAIN t.meta
    BY <2>1, <2>2
  <2>4. \A m \in DOMAIN t.meta : meta[m] = t.meta[m]
    BY <2>1, <2>2, <2>3
  <2>5. t.meta = [m \in DOMAIN t.meta |-> t.meta[m]]
    BY DEF IsEntry
  <2>6. meta = t.meta
    BY <2>1, <2>3, <2>4, <2>5
  <2>7. QED
    BY <1>1, <2>6 DEF meta
<1>4. t = [name |-> t.name, type |-> t.type, unit |-> t.unit, meta |-> t.meta]
  BY DEF IsEntry
<1>5. new = t
  BY <1>1, <1>2, <1>3, <1>4
<1>6. QED
  BY <1>5 DEF new

\* One member more.
LEMMA ChangeIs ==
    ASSUME NEW e, IsEntry(e), NEW t, IsEntry(t), NEW given, NEW a, a.to = Member(t, a.member)
    PROVE  ApplyChange(a, Mixed(e, t, given)) = Mixed(e, t, given \cup {a.member})
<1> DEFINE old == Mixed(e, t, given)
           new == Mixed(e, t, given \cup {a.member})
           meta == MixedMeta(e, t, given)
           more == MixedMeta(e, t, given \cup {a.member})
           m == a.member
<1>1. /\ old.name = e.name /\ old.type = t.type /\ old.meta = meta
      /\ old.unit = IF "unit" \in given THEN t.unit ELSE e.unit
      /\ old = [name |-> old.name, type |-> old.type, unit |-> old.unit, meta |-> old.meta]
  BY MixedParts
<1>2. /\ new.name = e.name /\ new.type = t.type /\ new.meta = more
      /\ new.unit = IF "unit" \in given \cup {m} THEN t.unit ELSE e.unit
      /\ new = [name |-> new.name, type |-> new.type, unit |-> new.unit, meta |-> new.meta]
  BY MixedParts
<1>3. /\ DOMAIN meta = (DOMAIN e.meta \ given) \cup (DOMAIN t.meta \cap given)
      /\ \A x \in DOMAIN meta : meta[x] = IF x \in given THEN t.meta[x] ELSE e.meta[x]
      /\ meta = [x \in DOMAIN meta |-> meta[x]]
  BY DEF MixedMeta
<1>4. /\ DOMAIN more = (DOMAIN e.meta \ (given \cup {m})) \cup (DOMAIN t.meta \cap (given \cup {m}))
      /\ \A x \in DOMAIN more : more[x] = IF x \in given \cup {m} THEN t.meta[x] ELSE e.meta[x]
      /\ more = [x \in DOMAIN more |-> more[x]]
  BY DEF MixedMeta
<1>5. "unit" \notin DOMAIN e.meta /\ "unit" \notin DOMAIN t.meta
  BY DEF IsEntry
<1> HIDE DEF old, new, meta, more, m
<1>6. CASE m = "unit"
  <2>1. ApplyChange(a, old) = [old EXCEPT !.unit = t.unit]
    BY <1>6 DEF ApplyChange, Member, m
  <2>2. DOMAIN more = DOMAIN meta
    BY <1>3, <1>4, <1>5, <1>6
  <2>3. \A x \in DOMAIN more : more[x] = meta[x]
    BY <1>3, <1>4, <1>5, <1>6, <2>2
  <2>4. more = meta
    BY <1>3, <1>4, <2>2, <2>3
  <2>5. new.unit = t.unit
    BY <1>2, <1>6
  <2>6. QED
    BY <1>1, <1>2, <2>1, <2>4, <2>5 DEF old, new, m
<1>7. CASE m # "unit"
  <2>1. ApplyChange(a, old) = [old EXCEPT !.meta = WithMeta(old.meta, m, a.to)] /\ a.to = Stated1(t.meta, m)
    BY <1>7 DEF ApplyChange, Member, m
  <2>2. new.unit = old.unit
    BY <1>1, <1>2, <1>7
  <2>3. WithMeta(meta, m, a.to) = more
    <3>1. CASE m \in DOMAIN t.meta
      <4>1. WithMeta(meta, m, a.to) = [x \in DOMAIN meta \cup {m} |-> IF x = m THEN t.meta[m] ELSE meta[x]]
        BY <2>1, <3>1, StatedIs DEF WithMeta
      <4>2. DOMAIN more = DOMAIN meta \cup {m}
        BY <1>3, <1>4, <3>1
      <4>3. \A x \in DOMAIN more : more[x] = IF x = m THEN t.meta[m] ELSE meta[x]
        BY <1>3, <1>4, <4>2
      <4>4. QED
        BY <1>4, <4>1, <4>2, <4>3
    <3>2. CASE m \notin DOMAIN t.meta
      <4>1. WithMeta(meta, m, a.to) = [x \in DOMAIN meta \ {m} |-> meta[x]]
        BY <2>1, <3>2, StatedIs DEF WithMeta
      <4>2. DOMAIN more = DOMAIN meta \ {m}
        BY <1>3, <1>4, <3>2
      <4>3. \A x \in DOMAIN more : more[x] = meta[x]
        BY <1>3, <1>4, <4>2
      <4>4. QED
        BY <1>4, <4>1, <4>2, <4>3
    <3>3. QED
      BY <3>1, <3>2
  <2>4. QED
    BY <1>1, <1>2, <2>1, <2>2, <2>3 DEF old, new, m
<1>8. QED
  BY <1>6, <1>7

-----------------------------------------------------------------------------
(* The list of the amendments.                                             *)

\* Two lists one behind the other.
LEMMA ConcatOnce ==
    ASSUME NEW S, NEW s \in Seq(S), NEW t \in Seq(S), OnceEach(s), OnceEach(t), ToSet(s) \cap ToSet(t) = {}
    PROVE  s \o t \in Seq(S) /\ OnceEach(s \o t) /\ ToSet(s \o t) = ToSet(s) \cup ToSet(t)
<1> DEFINE both == s \o t
<1>1. /\ Len(s) \in Nat /\ Len(t) \in Nat
      /\ DOMAIN s = 1 .. Len(s) /\ DOMAIN t = 1 .. Len(t)
  BY LenProperties
<1>2. /\ both \in Seq(S) /\ Len(both) = Len(s) + Len(t)
      /\ \A j \in 1 .. Len(s) + Len(t) : both[j] = IF j <= Len(s) THEN s[j] ELSE t[j - Len(s)]
  BY ConcatProperties
<1> HIDE DEF both
<1>3. DOMAIN both = 1 .. Len(both)
  BY <1>2, LenProperties
<1>4. /\ \A j \in 1 .. Len(s) : j \in 1 .. Len(both) /\ both[j] = s[j]
      /\ \A j \in 1 .. Len(t) : Len(s) + j \in 1 .. Len(both) /\ both[Len(s) + j] = t[j]
      /\ \A q \in 1 .. Len(both) : \/ q \in 1 .. Len(s)
                                   \/ q - Len(s) \in 1 .. Len(t) /\ Len(s) + (q - Len(s)) = q
  <2>1. \A j \in 1 .. Len(s) : j \in 1 .. Len(both) /\ both[j] = s[j]
    BY <1>1, <1>2
  <2>2. \A j \in 1 .. Len(t) : Len(s) + j \in 1 .. Len(both) /\ both[Len(s) + j] = t[j]
    <3>1. \A j \in 1 .. Len(t) : /\ Len(s) + j \in 1 .. Len(s) + Len(t)
                                  /\ ~(Len(s) + j <= Len(s)) /\ (Len(s) + j) - Len(s) = j
      BY <1>1
    <3>2. QED
      BY <1>2, <3>1
  <2>3. \A q \in 1 .. Len(both) : \/ q \in 1 .. Len(s)
                                  \/ q - Len(s) \in 1 .. Len(t) /\ Len(s) + (q - Len(s)) = q
    BY <1>1, <1>2
  <2>4. QED
    BY <2>1, <2>2, <2>3
<1>5. \A j \in 1 .. Len(s) : \A k \in 1 .. Len(t) : s[j] # t[k]
  BY <1>1 DEF ToSet
<1>6. ASSUME NEW q \in 1 .. Len(both), NEW r \in 1 .. Len(both), both[q] = both[r] PROVE q = r
  <2>1. CASE q \in 1 .. Len(s) /\ r \in 1 .. Len(s)
    BY <1>4, <1>6, <2>1 DEF OnceEach
  <2>2. CASE q \in 1 .. Len(s) /\ r \notin 1 .. Len(s)
    <3>1. r - Len(s) \in 1 .. Len(t) /\ both[r] = t[r - Len(s)] /\ both[q] = s[q]
      BY <1>4, <2>2
    <3>2. QED
      BY <1>5, <1>6, <2>2, <3>1
  <2>3. CASE q \notin 1 .. Len(s) /\ r \in 1 .. Len(s)
    <3>1. q - Len(s) \in 1 .. Len(t) /\ both[q] = t[q - Len(s)] /\ both[r] = s[r]
      BY <1>4, <2>3
    <3>2. QED
      BY <1>5, <1>6, <2>3, <3>1
  <2>4. CASE q \notin 1 .. Len(s) /\ r \notin 1 .. Len(s)
    <3>1. /\ q - Len(s) \in 1 .. Len(t) /\ r - Len(s) \in 1 .. Len(t)
          /\ Len(s) + (q - Len(s)) = q /\ Len(s) + (r - Len(s)) = r
      BY <1>4, <2>4
    <3>2. t[q - Len(s)] = t[r - Len(s)]
      BY <1>4, <1>6, <3>1
    <3>3. q - Len(s) = r - Len(s)
      BY <3>1, <3>2 DEF OnceEach
    <3>4. QED
      BY <3>1, <3>3
  <2>5. QED
    BY <2>1, <2>2, <2>3, <2>4
<1>7. \A x : x \in ToSet(both) <=> x \in ToSet(s) \/ x \in ToSet(t)
  <2>1. ASSUME NEW x, x \in ToSet(both) PROVE x \in ToSet(s) \/ x \in ToSet(t)
    <3>1. PICK q \in 1 .. Len(both) : both[q] = x
      BY <1>3, <2>1 DEF ToSet
    <3>2. CASE q \in 1 .. Len(s)
      BY <1>1, <1>4, <3>1, <3>2 DEF ToSet
    <3>3. CASE q - Len(s) \in 1 .. Len(t) /\ Len(s) + (q - Len(s)) = q
      BY <1>1, <1>4, <3>1, <3>3 DEF ToSet
    <3>4. QED
      BY <1>4, <3>2, <3>3
  <2>2. ASSUME NEW x, x \in ToSet(s) PROVE x \in ToSet(both)
    BY <1>1, <1>3, <1>4, <2>2 DEF ToSet
  <2>3. ASSUME NEW x, x \in ToSet(t) PROVE x \in ToSet(both)
    BY <1>1, <1>3, <1>4, <2>3 DEF ToSet
  <2>4. QED
    BY <2>1, <2>2, <2>3
<1>8. ToSet(both) = ToSet(s) \cup ToSet(t)
  BY <1>7
<1>9. QED
  BY <1>2, <1>6, <1>8 DEF OnceEach, both

\* Lists that share nothing, each of them without repeats.
Apart(seqs) ==
    /\ \A i \in 1 .. Len(seqs) : OnceEach(seqs[i])
    /\ \A i, j \in 1 .. Len(seqs) : i # j => ToSet(seqs[i]) \cap ToSet(seqs[j]) = {}

UpTo(seqs, i) == UNION {ToSet(seqs[j]) : j \in 1 .. i}

\* All of them in one list.
LEMMA FlattenIs ==
    ASSUME NEW S, NEW seqs \in Seq(Seq(S)), Apart(seqs)
    PROVE  /\ FlattenSeq(seqs) \in Seq(S) /\ OnceEach(FlattenSeq(seqs))
           /\ ToSet(FlattenSeq(seqs)) = UpTo(seqs, Len(seqs))
<1> DEFINE n == Len(seqs)
           step == [x \in (1 .. n) \X Seq(S) |-> x[2] \o seqs[x[1]]]
           Body(f) == [i \in 1 .. n |-> IF i = 1 THEN seqs[i] ELSE f[i - 1] \o seqs[i]]
           flatten == CHOOSE f : f = Body(f)
           Good(i, s) == s \in Seq(S) /\ OnceEach(s) /\ ToSet(s) = UpTo(seqs, i)
<1>1. n \in Nat /\ DOMAIN seqs = 1 .. n /\ \A i \in 1 .. n : seqs[i] \in Seq(S)
  BY LenProperties, ElementOfSeq
<1>2. <<>> \in Seq(S) /\ Len(<<>>) = 0 /\ ToSet(<<>>) = {}
  BY DEF ToSet
<1>3. CASE n = 0
  <2>1. seqs = <<>> /\ FlattenSeq(seqs) = seqs
    BY <1>3, EmptySeq DEF FlattenSeq
  <2>2. UpTo(seqs, n) = {}
    BY <1>3 DEF UpTo
  <2>3. OnceEach(<<>>)
    BY <1>2 DEF OnceEach
  <2>4. QED
    BY <1>2, <2>1, <2>2, <2>3
<1>4. CASE n # 0
  <2>1. \A i \in 1 .. n : \A v \in Seq(S) : step[<<i, v>>] = v \o seqs[i]
    OBVIOUS
  <2>2. StaysIn(step, n, Seq(S))
    BY <1>1, <2>1, ConcatProperties DEF StaysIn
  <2> HIDE DEF step
  <2>3. PICK run \in [0 .. n -> Seq(S)] : RunsFrom(run, n, <<>>, step)
    BY <1>1, <1>2, <2>2, LoopRuns
  <2> DEFINE tail == [i \in 1 .. n |-> run[i]]
  <2>4. tail = Body(tail)
    <3>1. ASSUME NEW i \in 1 .. n PROVE tail[i] = Body(tail)[i]
      <4>1. i - 1 \in 0 .. n /\ run[i] = run[i - 1] \o seqs[i] /\ run[i - 1] \in Seq(S)
        <5>1. i - 1 \in 0 .. n
          BY <1>1
        <5>2. run[i] = step[<<i, run[i - 1]>>] /\ run[i - 1] \in Seq(S)
          BY <2>3, <5>1 DEF RunsFrom
        <5>3. QED
          BY <2>1, <5>1, <5>2
      <4>2. CASE i = 1
        <5>1. run[0] = <<>>
          BY <2>3 DEF RunsFrom
        <5>2. <<>> \o seqs[1] = seqs[1]
          BY <1>1, <4>2, ConcatEmptySeq
        <5>3. run[1] = seqs[1]
          <6>1. i - 1 = 0
            BY <4>2
          <6>2. run[1] = run[0] \o seqs[1]
            BY <4>1, <4>2, <6>1
          <6>3. QED
            BY <5>1, <5>2, <6>2
        <5>4. QED
          BY <4>2, <5>3
      <4>3. CASE i # 1
        <5>1. i - 1 \in 1 .. n
          BY <1>1, <4>3
        <5>2. QED
          BY <4>1, <4>3, <5>1
      <4>4. QED
        BY <4>2, <4>3
    <3>2. tail = [i \in 1 .. n |-> tail[i]] /\ Body(tail) = [i \in 1 .. n |-> Body(tail)[i]]
      OBVIOUS
    <3> HIDE DEF Body, tail
    <3>3. QED
      BY <3>1, <3>2
  <2>5. flatten = Body(flatten)
    <3> HIDE DEF tail
    <3>1. QED
      BY <2>4
  <2>6. FlattenSeq(seqs) = flatten[n]
    BY <1>4 DEF FlattenSeq
  <2> HIDE DEF flatten
  <2>7. \A i \in 1 .. n : flatten[i] = IF i = 1 THEN seqs[i] ELSE flatten[i - 1] \o seqs[i]
    <3>1. \A i \in 1 .. n : Body(flatten)[i] = IF i = 1 THEN seqs[i] ELSE flatten[i - 1] \o seqs[i]
      OBVIOUS
    <3> HIDE DEF Body
    <3>2. QED
      BY <2>5, <3>1
  <2> DEFINE T == {i \in 0 .. n : i = 0 \/ Good(i, flatten[i])}
  <2>8. 0 \in T
    BY <1>1
  <2>9. ASSUME NEW i \in 1 .. n, i - 1 \in T PROVE i \in T
    <3>1. i \in Nat /\ i \in 0 .. n /\ seqs[i] \in Seq(S) /\ OnceEach(seqs[i])
      BY <1>1 DEF Apart
    <3>2. CASE i = 1
      <4>1. UpTo(seqs, 1) = ToSet(seqs[1])
        BY DEF UpTo
      <4>2. Good(i, flatten[i])
        BY <2>7, <3>1, <3>2, <4>1
      <4>3. QED
        BY <3>1, <4>2
    <3>3. CASE i # 1
      <4>1. /\ i - 1 # 0 /\ i - 1 \in Nat
            /\ \A j \in 1 .. i : j \in 1 .. (i - 1) \/ j = i
            /\ \A j \in 1 .. (i - 1) : j \in 1 .. i /\ j \in 1 .. n /\ j # i
            /\ i \in 1 .. i
        BY <1>1, <3>3
      <4>2. Good(i - 1, flatten[i - 1])
        BY <2>9, <4>1
      <4>3. UpTo(seqs, i - 1) \cap ToSet(seqs[i]) = {}
        <5>1. \A j \in 1 .. (i - 1) : ToSet(seqs[j]) \cap ToSet(seqs[i]) = {}
          BY <4>1 DEF Apart
        <5>2. QED
          BY <5>1 DEF UpTo
      <4>4. UpTo(seqs, i) = UpTo(seqs, i - 1) \cup ToSet(seqs[i])
        BY <4>1 DEF UpTo
      <4>5. flatten[i] = flatten[i - 1] \o seqs[i]
        BY <2>7, <3>3
      <4>6. Good(i, flatten[i - 1] \o seqs[i])
        BY <3>1, <4>2, <4>3, <4>4, ConcatOnce
      <4>7. QED
        BY <3>1, <4>5, <4>6
    <3>4. QED
      BY <3>2, <3>3
  <2>10. \A i \in 0 .. n : i \in T
    <3> HIDE DEF T
    <3>1. QED
      BY <1>1, <2>8, <2>9, CountingUp
  <2>11. Good(n, flatten[n])
    <3>1. n \in 0 .. n
      BY <1>1
    <3> HIDE DEF Good
    <3>2. QED
      BY <1>4, <2>10, <3>1
  <2>12. QED
    BY <2>6, <2>11
<1>5. QED
  BY <1>3, <1>4

-----------------------------------------------------------------------------
(* The loop over the amendments.                                           *)

\* The members that two entries may differ in are finitely many.
LEMMA MovedIsFinite ==
    ASSUME NEW e, IsEntry(e), NEW t, IsEntry(t)
    PROVE  IsFiniteSet(Moved(e, t))
<1> DEFINE all == Members(e) \cup Members(t)
<1>1. IsFiniteSet(DOMAIN e.meta) /\ IsFiniteSet(DOMAIN t.meta)
  BY DEF IsEntry
<1>2. IsFiniteSet(Members(e)) /\ IsFiniteSet(Members(t))
  <2>1. IsFiniteSet({"unit"})
    BY FS_Singleton
  <2> DEFINE one == {"unit"}
             first == DOMAIN e.meta
             second == DOMAIN t.meta
  <2>2. Members(e) = one \cup first /\ Members(t) = one \cup second
    BY DEF Members
  <2>3. IsFiniteSet(one) /\ IsFiniteSet(first) /\ IsFiniteSet(second)
    BY <1>1, <2>1
  <2> HIDE DEF one, first, second
  <2>4. QED
    BY <2>2, <2>3, FS_Union
<1>3. IsFiniteSet(all)
  BY <1>2, FS_Union
<1>4. Moved(e, t) \in SUBSET all
  BY DEF Moved
<1> HIDE DEF all
<1>5. QED
  BY <1>3, <1>4, FS_Subset

\* An amendment names the column, the member and its two values.
LEMMA AmendmentIs ==
    ASSUME NEW e, NEW t, NEW m
    PROVE  /\ Amendment(e, t, m).name = e.name /\ Amendment(e, t, m).member = m
           /\ Amendment(e, t, m).from = Member(e, m) /\ Amendment(e, t, m).to = Member(t, m)
BY DEF Amendment

\* The amendments of a column: one for each member that differs.
LEMMA FieldChangesAre ==
    ASSUME NEW e, IsEntry(e), NEW t, IsEntry(t)
    PROVE  /\ FieldChanges(e, t) \in Seq(ToSet(FieldChanges(e, t))) /\ OnceEach(FieldChanges(e, t))
           /\ ToSet(FieldChanges(e, t)) = {Amendment(e, t, m) : m \in Moved(e, t)}
<1> DEFINE members == SetToSeq(Moved(e, t))
           changes == FieldChanges(e, t)
<1>1. members \in Seq(Moved(e, t)) /\ OnceEach(members) /\ ToSet(members) = Moved(e, t)
  BY MovedIsFinite, ListIs
<1>2. changes = [i \in DOMAIN members |-> Amendment(e, t, members[i])]
  BY DEF FieldChanges
<1> HIDE DEF members, changes
<1>3. Len(members) \in Nat /\ DOMAIN members = 1 .. Len(members)
  BY <1>1, LenProperties
<1>4. changes \in [1 .. Len(members) -> ToSet(changes)]
  BY <1>2, <1>3 DEF ToSet
<1>5. changes \in Seq(ToSet(changes)) /\ Len(changes) = Len(members)
  BY <1>3, <1>4, SeqOfFunction
<1>6. \A i \in 1 .. Len(members) : changes[i] = Amendment(e, t, members[i]) /\ changes[i].member = members[i]
  BY <1>2, <1>3, AmendmentIs
<1>7. OnceEach(changes)
  BY <1>1, <1>5, <1>6 DEF OnceEach
<1>8. ToSet(changes) = {Amendment(e, t, m) : m \in Moved(e, t)}
  BY <1>1, <1>2, <1>3 DEF ToSet
<1>9. QED
  BY <1>5, <1>7, <1>8 DEF changes

\* A target for a schema has an entry for each of its columns.
Covers(target, s) == SoundSchema(target) /\ SchemaNames(s) \subseteq SchemaNames(target)
Aim(target, e) == EntryNamed(target, e.name)

\* The entry that one is aimed at.
LEMMA AimIs ==
    ASSUME NEW s, SoundSchema(s), NEW target, Covers(target, s), NEW i \in 1 .. Len(s)
    PROVE  /\ IsEntry(s[i]) /\ IsEntry(Aim(target, s[i])) /\ Aim(target, s[i]).name = s[i].name
           /\ Aim(target, s[i]) \in ToSet(target)
<1>1. i \in DOMAIN s /\ IsEntry(s[i])
  BY SchemaIs DEF SoundSchema
<1>2. s[i].name \in SchemaNames(target)
  BY <1>1, NameLeads DEF Covers
<1>3. QED
  BY <1>1, <1>2, EntryIsNamed DEF Covers, Aim

Amends(list, s, target) ==
    /\ list \in Seq(ToSet(list)) /\ OnceEach(list)
    /\ \A a : a \in ToSet(list) <=>
          \E i \in 1 .. Len(s) : \E m \in Moved(s[i], Aim(target, s[i])) :
             a = Amendment(s[i], Aim(target, s[i]), m)

\* The amendments of all columns: one for each member of each that differs.
LEMMA AmendmentsAre ==
    ASSUME NEW s, SoundSchema(s), NEW target, Covers(target, s)
    PROVE  Amends(Amendments(s, target), s, target)
<1> DEFINE n == Len(s)
           parts == [i \in DOMAIN s |-> FieldChanges(s[i], EntryNamed(target, s[i].name))]
           S == UNION {ToSet(FieldChanges(s[i], Aim(target, s[i]))) : i \in 1 .. n}
           list == Amendments(s, target)
<1>1. n \in Nat /\ DOMAIN s = 1 .. n /\ \A i, j \in 1 .. n : s[i].name = s[j].name => i = j
  BY SchemaIs DEF SoundSchema
<1>2. \A i \in 1 .. n : parts[i] = FieldChanges(s[i], Aim(target, s[i]))
  BY <1>1 DEF Aim
<1>3. ASSUME NEW i \in 1 .. n
      PROVE  /\ parts[i] \in Seq(S) /\ OnceEach(parts[i])
             /\ ToSet(parts[i]) = {Amendment(s[i], Aim(target, s[i]), m) : m \in Moved(s[i], Aim(target, s[i]))}
  <2> DEFINE e == s[i]
             t == Aim(target, s[i])
             changes == FieldChanges(e, t)
  <2>1. IsEntry(e) /\ IsEntry(t)
    BY AimIs
  <2>2. ToSet(changes) \subseteq S
    OBVIOUS
  <2>3. parts[i] = changes
    BY <1>2
  <2> HIDE DEF e, t, S, parts
  <2>4. /\ changes \in Seq(ToSet(changes)) /\ OnceEach(changes)
        /\ ToSet(changes) = {Amendment(e, t, m) : m \in Moved(e, t)}
    BY <2>1, FieldChangesAre
  <2> HIDE DEF changes
  <2>5. changes \in Seq(S)
    BY <2>2, <2>4, SeqMonotonic
  <2>6. QED
    BY <2>3, <2>4, <2>5 DEF e, t
<1>4. parts \in Seq(Seq(S)) /\ Len(parts) = n
  <2>1. parts \in [1 .. n -> Seq(S)]
    BY <1>1, <1>3
  <2> HIDE DEF parts, S
  <2>2. QED
    BY <1>1, <2>1, SeqOfFunction
<1>5. list = FlattenSeq(parts)
  BY DEF Amendments
<1> HIDE DEF parts, S, list
<1>6. Apart(parts)
  <2>1. ASSUME NEW i \in 1 .. n, NEW a \in ToSet(parts[i]) PROVE a.name = s[i].name
    <3>1. PICK m \in Moved(s[i], Aim(target, s[i])) : a = Amendment(s[i], Aim(target, s[i]), m)
      BY <1>3
    <3>2. QED
      BY <3>1, AmendmentIs
  <2>2. \A i, j \in 1 .. n : i # j => ToSet(parts[i]) \cap ToSet(parts[j]) = {}
    BY <1>1, <2>1
  <2>3. QED
    BY <1>3, <1>4, <2>2 DEF Apart
<1>7. list \in Seq(S) /\ OnceEach(list) /\ ToSet(list) = UpTo(parts, n)
  BY <1>4, <1>5, <1>6, FlattenIs
<1>8. list \in Seq(ToSet(list))
  BY <1>7, OwnSet
<1>9. ASSUME NEW a
      PROVE  a \in ToSet(list) <=>
                \E i \in 1 .. Len(s) : \E m \in Moved(s[i], Aim(target, s[i])) :
                   a = Amendment(s[i], Aim(target, s[i]), m)
  <2>1. a \in ToSet(list) <=> \E i \in 1 .. n : a \in ToSet(parts[i])
    BY <1>7 DEF UpTo
  <2>2. \A i \in 1 .. n : a \in ToSet(parts[i]) <=>
            \E m \in Moved(s[i], Aim(target, s[i])) : a = Amendment(s[i], Aim(target, s[i]), m)
    BY <1>3
  <2>3. QED
    BY <2>1, <2>2
<1>10. QED
  BY <1>7, <1>8, <1>9 DEF Amends, list

\* The members of an entry that a set of amendments is about, and the schema after it.
Given(done, e) == {a.member : a \in {b \in done : b.name = e.name}}
AmendedBy(s, target, done) == [i \in 1 .. Len(s) |-> Mixed(s[i], Aim(target, s[i]), Given(done, s[i]))]

\* A schema of which some members are amended.
LEMMA AmendedIs ==
    ASSUME NEW s, SoundSchema(s), NEW target, Covers(target, s), NEW done
    PROVE  LET new == AmendedBy(s, target, done)
           IN  /\ SoundSchema(new) /\ SchemaNames(new) = SchemaNames(s) /\ Len(new) = Len(s)
               /\ new = [i \in 1 .. Len(s) |-> new[i]]
               /\ \A i \in 1 .. Len(s) :
                     /\ new[i].name = s[i].name
                     /\ new[i] = Mixed(s[i], Aim(target, s[i]), Given(done, s[i]))
<1> DEFINE new == AmendedBy(s, target, done)
<1>1. /\ new = [i \in 1 .. Len(s) |-> new[i]]
      /\ \A i \in 1 .. Len(s) : new[i] = Mixed(s[i], Aim(target, s[i]), Given(done, s[i]))
  BY DEF AmendedBy
<1> HIDE DEF new
<1>2. ASSUME NEW i \in 1 .. Len(s) PROVE IsEntry(new[i]) /\ new[i].name = s[i].name
  BY <1>1, AimIs, MixedIs, MixedParts
<1>3. SoundSchema(new) /\ SchemaNames(new) = SchemaNames(s) /\ Len(new) = Len(s)
  BY <1>1, <1>2, ChangedInPlace
<1>4. QED
  BY <1>1, <1>2, <1>3 DEF new

Amending(s, i, target, done, a) ==
    /\ a.member \notin Given(done, s[i])
    /\ a.name = s[i].name /\ a.from = Member(s[i], a.member) /\ a.to = Member(Aim(target, s[i]), a.member)

\* One member is amended.
LEMMA AmendClauseIs ==
    ASSUME NEW s, SoundSchema(s), NEW target, Covers(target, s), NEW done, NEW i \in 1 .. Len(s),
           NEW a, Amending(s, i, target, done, a)
    PROVE  AmendClause(AmendedBy(s, target, done), a) = Patched(AmendedBy(s, target, done \cup {a}))
<1> DEFINE new == AmendedBy(s, target, done)
           next == AmendedBy(s, target, done \cup {a})
           e == s[i]
           t == Aim(target, s[i])
<1>1. /\ a.member \notin Given(done, e) /\ a.name = e.name
      /\ a.from = Member(e, a.member) /\ a.to = Member(t, a.member)
  BY DEF Amending
<1>2. /\ SoundSchema(new) /\ Len(new) = Len(s) /\ new = [j \in 1 .. Len(s) |-> new[j]]
      /\ \A j \in 1 .. Len(s) : /\ new[j].name = s[j].name
                                /\ new[j] = Mixed(s[j], Aim(target, s[j]), Given(done, s[j]))
  BY AmendedIs
<1>3. /\ next = [j \in 1 .. Len(s) |-> next[j]]
      /\ \A j \in 1 .. Len(s) : next[j] = Mixed(s[j], Aim(target, s[j]), Given(done \cup {a}, s[j]))
  BY DEF AmendedBy
<1>4. /\ Len(s) \in Nat /\ DOMAIN s = 1 .. Len(s) /\ i # 0 /\ IsEntry(e) /\ IsEntry(t)
      /\ \A j \in 1 .. Len(s) : s[j].name = e.name <=> j = i
  BY SchemaIs, AimIs DEF SoundSchema
<1>5. Given(done \cup {a}, e) = Given(done, e) \cup {a.member}
  BY <1>1 DEF Given
<1>6. \A j \in 1 .. Len(s) : j # i => Given(done \cup {a}, s[j]) = Given(done, s[j])
  BY <1>1, <1>4 DEF Given
<1> HIDE DEF new, next, t
<1>7. new[i] = Mixed(e, t, Given(done, e)) /\ next[i] = Mixed(e, t, Given(done, e) \cup {a.member})
  BY <1>2, <1>3, <1>5 DEF t
<1>8. ApplyChange(a, new[i]) = next[i] /\ Member(new[i], a.member) = a.from
  <2> HIDE DEF e
  <2> DEFINE given == Given(done, e)
  <2>1. /\ new[i] = Mixed(e, t, given) /\ next[i] = Mixed(e, t, given \cup {a.member})
        /\ a.member \notin given
    BY <1>1, <1>7
  <2> HIDE DEF given
  <2>2. ApplyChange(a, Mixed(e, t, given)) = Mixed(e, t, given \cup {a.member})
    BY <1>1, <1>4, ChangeIs
  <2>3. Member(Mixed(e, t, given), a.member) = a.from
    BY <1>1, <1>4, <2>1, MixedIs
  <2>4. QED
    BY <2>1, <2>2, <2>3
<1>9. ColIndex(new, a.name) = i
  <2>1. i \in DOMAIN new
    BY <1>2
  <2>2. QED
    BY <1>1, <1>2, <2>1, NameLeads
<1>10. [new EXCEPT ![i] = ApplyChange(a, @)] = next
  <2> DEFINE patched == [new EXCEPT ![i] = ApplyChange(a, @)]
  <2>1. patched = [j \in 1 .. Len(s) |-> IF j = i THEN ApplyChange(a, new[i]) ELSE new[j]]
    BY <1>2
  <2>2. ASSUME NEW j \in 1 .. Len(s) PROVE patched[j] = next[j]
    <3>1. CASE j = i
      BY <1>8, <2>1, <3>1
    <3>2. CASE j # i
      <4>1. patched[j] = new[j]
        BY <2>1, <3>2
      <4> HIDE DEF patched
      <4>2. QED
        BY <1>2, <1>3, <1>6, <3>2, <4>1
    <3>3. QED
      BY <3>1, <3>2
  <2>3. patched = [j \in 1 .. Len(s) |-> patched[j]]
    BY <2>1
  <2> HIDE DEF patched
  <2>4. patched = next
    BY <1>3, <2>2, <2>3
  <2>5. QED
    BY <2>4 DEF patched
<1>11. AmendClause(new, a) = Patched(next)
  BY <1>4, <1>8, <1>9, <1>10 DEF AmendClause
<1>12. QED
  BY <1>11 DEF new, next

\* The columns of a schema with the entries of the target.
Renewed(s, target) == [i \in 1 .. Len(s) |-> Aim(target, s[i])]

\* With all members amended every entry is the one of the target.
LEMMA Amendings ==
    ASSUME NEW s, SoundSchema(s), NEW target, Covers(target, s)
    PROVE  Clauses(Patched(Retyped(s, target)), AmendClause, Amendments(s, target)) = Patched(Renewed(s, target))
<1> DEFINE cs == Amendments(s, target)
           first == Patched(Retyped(s, target))
           n == Len(cs)
           Done(i) == {cs[j] : j \in 1 .. i}
           run == [i \in 0 .. n |-> Patched(AmendedBy(s, target, Done(i)))]
           Body(f) == [i \in 0 .. n |->
                          IF i = 0 THEN first
                          ELSE LET q == f[i - 1]
                               IN  IF IsPatched(q) THEN AmendClause(q.schema, cs[i]) ELSE q]
           upTo == CHOOSE f : f = Body(f)
<1>1. Amends(cs, s, target)
  BY AmendmentsAre
<1>2. Clauses(first, AmendClause, cs) = upTo[n]
  BY DEF Clauses
<1> HIDE DEF cs
<1>3. n \in Nat /\ DOMAIN cs = 1 .. n /\ \A i \in 1 .. n : cs[i] \in ToSet(cs)
  BY <1>1, LenProperties, ElementOfSeq DEF Amends
<1>4. run[0] = first
  <2>1. Done(0) = {} /\ 0 \in 0 .. n
    BY <1>3
  <2>2. ASSUME NEW i \in 1 .. Len(s)
        PROVE  Mixed(s[i], Aim(target, s[i]), Given({}, s[i]))
               = (IF s[i].name \in SchemaNames(s) THEN TypedAs(s[i], EntryNamed(target, s[i].name).type) ELSE s[i])
    <3>1. s[i].name \in SchemaNames(s) /\ IsEntry(s[i])
      BY SchemaIs, NameLeads DEF SoundSchema
    <3>2. Given({}, s[i]) = {}
      BY DEF Given
    <3>3. QED
      BY <3>1, <3>2, MixedNone DEF Aim
  <2>3. AmendedBy(s, target, {}) = Retyped(s, target)
    BY <2>2 DEF AmendedBy, Retyped, RetypedBy
  <2> HIDE DEF Done
  <2>4. QED
    BY <2>1, <2>3
<1>5. ASSUME NEW i \in 1 .. n
      PROVE  /\ i \in 0 .. n /\ i - 1 \in 0 .. n /\ i # 0
             /\ AmendClause(AmendedBy(s, target, Done(i - 1)), cs[i]) = Patched(AmendedBy(s, target, Done(i)))
  <2>1. /\ i \in 0 .. n /\ i - 1 \in 0 .. n /\ i # 0
        /\ \A j \in 1 .. i : j \in 1 .. (i - 1) \/ j = i
        /\ \A j \in 1 .. (i - 1) : j \in 1 .. i /\ j \in 1 .. n /\ j # i
        /\ i \in 1 .. i
    BY <1>3
  <2>2. PICK p \in 1 .. Len(s) : \E m \in Moved(s[p], Aim(target, s[p])) :
                                   cs[i] = Amendment(s[p], Aim(target, s[p]), m)
    BY <1>1, <1>3 DEF Amends
  <2>3. cs[i].name = s[p].name /\ cs[i].from = Member(s[p], cs[i].member)
        /\ cs[i].to = Member(Aim(target, s[p]), cs[i].member)
        /\ cs[i] = Amendment(s[p], Aim(target, s[p]), cs[i].member)
    BY <2>2, AmendmentIs
  <2>4. Done(i - 1) \cup {cs[i]} = Done(i)
    BY <2>1
  <2>5. cs[i].member \notin Given(Done(i - 1), s[p])
    <3> SUFFICES ASSUME cs[i].member \in Given(Done(i - 1), s[p]) PROVE FALSE
      OBVIOUS
    <3>1. PICK j \in 1 .. (i - 1) : cs[j].name = s[p].name /\ cs[j].member = cs[i].member
      BY DEF Given
    <3>2. PICK q \in 1 .. Len(s) : \E m \in Moved(s[q], Aim(target, s[q])) :
                                     cs[j] = Amendment(s[q], Aim(target, s[q]), m)
      BY <1>1, <1>3, <2>1, <3>1 DEF Amends
    <3>3. cs[j].name = s[q].name /\ cs[j] = Amendment(s[q], Aim(target, s[q]), cs[j].member)
      BY <3>2, AmendmentIs
    <3>4. q = p
      BY <3>1, <3>3, SchemaIs DEF SoundSchema
    <3>5. cs[j] = cs[i]
      BY <2>3, <3>1, <3>3, <3>4
    <3>6. QED
      BY <1>1, <2>1, <3>5 DEF Amends, OnceEach
  <2> HIDE DEF Done
  <2>6. Amending(s, p, target, Done(i - 1), cs[i])
    BY <2>3, <2>5 DEF Amending
  <2>7. QED
    BY <2>1, <2>4, <2>6, AmendClauseIs
<1>6. AmendedBy(s, target, Done(n)) = Renewed(s, target)
  <2>1. Done(n) = ToSet(cs)
    BY <1>3 DEF ToSet
  <2>2. ASSUME NEW i \in 1 .. Len(s)
        PROVE  Mixed(s[i], Aim(target, s[i]), Given(ToSet(cs), s[i])) = Aim(target, s[i])
    <3>1. Moved(s[i], Aim(target, s[i])) \subseteq Given(ToSet(cs), s[i])
      <4>1. ASSUME NEW m \in Moved(s[i], Aim(target, s[i])) PROVE m \in Given(ToSet(cs), s[i])
        <5> DEFINE a == Amendment(s[i], Aim(target, s[i]), m)
        <5>1. a \in ToSet(cs)
          BY <1>1 DEF Amends
        <5>2. a.name = s[i].name /\ a.member = m
          BY AmendmentIs
        <5> HIDE DEF a
        <5>3. QED
          BY <5>1, <5>2 DEF Given
      <4>2. QED
        BY <4>1
    <3>2. QED
      BY <3>1, AimIs, MixedAll
  <2> HIDE DEF Done
  <2>3. QED
    BY <2>1, <2>2 DEF AmendedBy, Renewed
<1> HIDE DEF Done, first
<1>7. ASSUME NEW f, NEW i \in 1 .. n, f[i - 1] = run[i - 1] PROVE Body(f)[i] = run[i]
  <2>1. /\ run[i - 1] = Patched(AmendedBy(s, target, Done(i - 1)))
        /\ run[i] = Patched(AmendedBy(s, target, Done(i)))
    BY <1>5
  <2> HIDE DEF run
  <2>2. Body(f)[i] = IF IsPatched(f[i - 1]) THEN AmendClause(f[i - 1].schema, cs[i]) ELSE f[i - 1]
    BY <1>5
  <2>3. QED
    BY <1>5, <1>7, <2>1, <2>2, PatchedIs
<1>8. \A f : Body(f)[0] = first
  BY <1>3
<1>9. run = Body(run)
  <2>1. \A i \in 0 .. n : i = 0 \/ i \in 1 .. n
    BY <1>3
  <2>2. run = [i \in 0 .. n |-> run[i]] /\ Body(run) = [i \in 0 .. n |-> Body(run)[i]]
    OBVIOUS
  <2> HIDE DEF Body, run
  <2>3. QED
    BY <1>4, <1>7, <1>8, <2>1, <2>2
<1>10. upTo = Body(upTo)
  <2> HIDE DEF run
  <2>1. QED
    BY <1>9
<1> HIDE DEF upTo, Body, run
<1>11. upTo[n] = run[n]
  <2>1. upTo[0] = run[0]
    BY <1>4, <1>8, <1>10
  <2>2. ASSUME NEW i \in 1 .. n, upTo[i - 1] = run[i - 1] PROVE upTo[i] = run[i]
    <3>1. Body(upTo)[i] = run[i]
      BY <1>7, <2>2
    <3>2. QED
      BY <1>10, <3>1
  <2>3. QED
    BY <1>3, <2>1, <2>2, RunsMeet
<1>12. n \in 0 .. n
  BY <1>3
<1>13. QED
  BY <1>2, <1>6, <1>11, <1>12 DEF cs, run, first

-----------------------------------------------------------------------------
(* The loop over the columns that are added.                               *)

\* A schema with the first n of a list of entries behind it.
Grown(s, added, n) == [j \in 1 .. Len(s) + n |-> IF j <= Len(s) THEN s[j] ELSE added[j - Len(s)]]

\* Columns that a schema does not have.
NewTo(s, added) == SoundSchema(added) /\ SchemaNames(s) \cap SchemaNames(added) = {}

\* The grown schema is one, and has the columns of both.
LEMMA GrownIs ==
    ASSUME NEW s, SoundSchema(s), NEW added, NewTo(s, added), NEW n \in 0 .. Len(added)
    PROVE  /\ SoundSchema(Grown(s, added, n)) /\ Len(Grown(s, added, n)) = Len(s) + n
           /\ \A e : e \in ToSet(Grown(s, added, n)) <=> e \in ToSet(s) \/ \E i \in 1 .. n : e = added[i]
<1> DEFINE new == Grown(s, added, n)
           all == ToSet(s) \cup ToSet(added)
<1>1. /\ Len(s) \in Nat /\ DOMAIN s = 1 .. Len(s) /\ \A i \in 1 .. Len(s) : s[i] \in ToSet(s) /\ IsEntry(s[i])
      /\ \A i, j \in 1 .. Len(s) : s[i].name = s[j].name => i = j
  BY SchemaIs DEF SoundSchema
<1>2. /\ Len(added) \in Nat /\ DOMAIN added = 1 .. Len(added)
      /\ \A i \in 1 .. Len(added) : added[i] \in ToSet(added) /\ IsEntry(added[i])
      /\ \A i, j \in 1 .. Len(added) : added[i].name = added[j].name => i = j
  BY SchemaIs DEF SoundSchema, NewTo
<1>3. \A i \in 1 .. Len(s) : \A j \in 1 .. Len(added) : s[i].name # added[j].name
  <2>1. \A i \in 1 .. Len(s) : s[i].name \in SchemaNames(s)
    BY <1>1 DEF SchemaNames
  <2>2. \A j \in 1 .. Len(added) : added[j].name \in SchemaNames(added)
    BY <1>2 DEF SchemaNames
  <2>3. QED
    BY <2>1, <2>2 DEF NewTo
<1>4. /\ n \in Nat /\ n <= Len(added) /\ Len(s) + n \in Nat
      /\ \A j \in 1 .. Len(s) + n : \/ j \in 1 .. Len(s) /\ j <= Len(s)
                                    \/ ~(j <= Len(s)) /\ j - Len(s) \in 1 .. n /\ j - Len(s) \in 1 .. Len(added)
                                       /\ Len(s) + (j - Len(s)) = j
      /\ \A j \in 1 .. Len(s) : j \in 1 .. Len(s) + n /\ j <= Len(s)
      /\ \A i \in 1 .. n : /\ Len(s) + i \in 1 .. Len(s) + n /\ ~(Len(s) + i <= Len(s))
                           /\ (Len(s) + i) - Len(s) = i
  <2>1. n \in Nat /\ n <= Len(added) /\ Len(s) + n \in Nat
    BY <1>1, <1>2
  <2>2. ASSUME NEW j \in 1 .. Len(s) + n
        PROVE  \/ j \in 1 .. Len(s) /\ j <= Len(s)
               \/ ~(j <= Len(s)) /\ j - Len(s) \in 1 .. n /\ j - Len(s) \in 1 .. Len(added)
                  /\ Len(s) + (j - Len(s)) = j
    BY <1>1, <1>2, <2>1
  <2>3. \A j \in 1 .. Len(s) : j \in 1 .. Len(s) + n /\ j <= Len(s)
    BY <1>1, <2>1
  <2>4. \A i \in 1 .. n : /\ Len(s) + i \in 1 .. Len(s) + n /\ ~(Len(s) + i <= Len(s))
                          /\ (Len(s) + i) - Len(s) = i
    BY <1>1, <2>1
  <2>5. QED
    BY <2>1, <2>2, <2>3, <2>4
<1>5. \A j \in 1 .. Len(s) + n : new[j] = IF j <= Len(s) THEN s[j] ELSE added[j - Len(s)]
  BY DEF Grown
<1>6. new \in [1 .. Len(s) + n -> all]
  <2>1. new = [j \in 1 .. Len(s) + n |-> new[j]]
    BY DEF Grown
  <2> HIDE DEF new
  <2>2. \A j \in 1 .. Len(s) + n : new[j] \in all
    BY <1>1, <1>2, <1>4, <1>5
  <2>3. QED
    BY <2>1, <2>2
<1> HIDE DEF new, all
<1>7. new \in Seq(all) /\ Len(new) = Len(s) + n /\ DOMAIN new = 1 .. Len(s) + n
  BY <1>4, <1>6, SeqOfFunction
<1>8. new \in Seq(ToSet(new))
  BY <1>7, OwnSet
<1>9. \A j \in DOMAIN new : IsEntry(new[j])
  BY <1>1, <1>2, <1>4, <1>5, <1>7
<1>10. ASSUME NEW i \in DOMAIN new, NEW j \in DOMAIN new, new[i].name = new[j].name PROVE i = j
  <2>1. CASE i <= Len(s) /\ j <= Len(s)
    BY <1>1, <1>4, <1>5, <1>7, <1>10, <2>1
  <2>2. CASE i <= Len(s) /\ ~(j <= Len(s))
    <3>1. i \in 1 .. Len(s) /\ j - Len(s) \in 1 .. Len(added)
      BY <1>4, <1>7, <2>2
    <3>2. s[i].name = added[j - Len(s)].name
      BY <1>5, <1>7, <1>10, <2>2
    <3>3. QED
      BY <1>3, <3>1, <3>2
  <2>3. CASE ~(i <= Len(s)) /\ j <= Len(s)
    <3>1. j \in 1 .. Len(s) /\ i - Len(s) \in 1 .. Len(added)
      BY <1>4, <1>7, <2>3
    <3>2. s[j].name = added[i - Len(s)].name
      BY <1>5, <1>7, <1>10, <2>3
    <3>3. QED
      BY <1>3, <3>1, <3>2
  <2>4. CASE ~(i <= Len(s)) /\ ~(j <= Len(s))
    <3>1. i - Len(s) \in 1 .. Len(added) /\ j - Len(s) \in 1 .. Len(added)
          /\ Len(s) + (i - Len(s)) = i /\ Len(s) + (j - Len(s)) = j
      BY <1>4, <1>7, <2>4
    <3>2. added[i - Len(s)].name = added[j - Len(s)].name
      BY <1>5, <1>7, <1>10, <2>4
    <3>3. i - Len(s) = j - Len(s)
      BY <1>2, <3>1, <3>2
    <3>4. QED
      BY <3>1, <3>3
  <2>5. QED
    BY <2>1, <2>2, <2>3, <2>4
<1>11. SoundSchema(new)
  BY <1>8, <1>9, <1>10 DEF SoundSchema
<1>12. ASSUME NEW e PROVE e \in ToSet(new) <=> e \in ToSet(s) \/ \E i \in 1 .. n : e = added[i]
  <2>1. ASSUME e \in ToSet(new) PROVE e \in ToSet(s) \/ \E i \in 1 .. n : e = added[i]
    <3>1. PICK j \in 1 .. Len(s) + n : new[j] = e
      BY <1>7, <2>1 DEF ToSet
    <3>2. QED
      BY <1>1, <1>4, <1>5, <3>1
  <2>2. ASSUME e \in ToSet(s) PROVE e \in ToSet(new)
    <3>1. PICK j \in 1 .. Len(s) : s[j] = e
      BY <1>1, <2>2 DEF ToSet
    <3>2. j \in DOMAIN new /\ new[j] = e
      BY <1>4, <1>5, <1>7, <3>1
    <3>3. QED
      BY <3>2 DEF ToSet
  <2>3. ASSUME NEW i \in 1 .. n, e = added[i] PROVE e \in ToSet(new)
    <3>1. Len(s) + i \in DOMAIN new /\ new[Len(s) + i] = e
      BY <1>4, <1>5, <1>7, <2>3
    <3>2. QED
      BY <3>1 DEF ToSet
  <2>4. QED
    BY <2>1, <2>2, <2>3
<1>13. QED
  BY <1>7, <1>11, <1>12 DEF new

\* One column is added.
LEMMA AddClauseIs ==
    ASSUME NEW s, SoundSchema(s), NEW added, NewTo(s, added), NEW n \in 1 .. Len(added)
    PROVE  AddClause(Grown(s, added, n - 1), added[n]) = Patched(Grown(s, added, n))
<1> DEFINE old == Grown(s, added, n - 1)
           new == Grown(s, added, n)
           e == added[n]
<1>1. /\ Len(added) \in Nat /\ DOMAIN added = 1 .. Len(added) /\ Len(s) \in Nat
      /\ \A i, j \in 1 .. Len(added) : added[i].name = added[j].name => i = j
  BY SchemaIs DEF SoundSchema, NewTo
<1>2. /\ n \in Nat /\ n - 1 \in 0 .. Len(added) /\ n \in 0 .. Len(added) /\ Len(s) + n = Len(s) + (n - 1) + 1
      /\ Len(s) + (n - 1) \in Nat
      /\ \A i \in 1 .. (n - 1) : i \in 1 .. Len(added) /\ i # n
  BY <1>1
<1>3. /\ SoundSchema(old) /\ Len(old) = Len(s) + (n - 1)
      /\ \A x : x \in ToSet(old) <=> x \in ToSet(s) \/ \E i \in 1 .. (n - 1) : x = added[i]
  BY <1>2, GrownIs
<1>4. SoundSchema(new) /\ Len(new) = Len(s) + n /\ e \in ToSet(new)
  <2>1. n \in 1 .. n
    BY <1>2
  <2>2. QED
    BY <1>2, <2>1, GrownIs
<1>5. \A j \in 1 .. Len(s) + (n - 1) : old[j] = IF j <= Len(s) THEN s[j] ELSE added[j - Len(s)]
  BY DEF Grown
<1>6. \A j \in 1 .. Len(s) + n : new[j] = IF j <= Len(s) THEN s[j] ELSE added[j - Len(s)]
  BY DEF Grown
<1> HIDE DEF old, new
<1>7. e.name \notin SchemaNames(old)
  <2>1. \A x \in ToSet(old) : x.name # e.name
    <3>1. ASSUME NEW x \in ToSet(s) PROVE x.name # e.name
      <4>1. x.name \in SchemaNames(s) /\ e.name \in SchemaNames(added)
        BY SameEntry, NameLeads, <1>1 DEF NewTo
      <4>2. QED
        BY <4>1 DEF NewTo
    <3>2. \A i \in 1 .. (n - 1) : added[i].name # e.name
      BY <1>1, <1>2
    <3>3. QED
      BY <1>3, <3>1, <3>2
  <2>2. QED
    BY <2>1 DEF SchemaNames, ToSet
<1>8. Append(old, e) = new
  <2> DEFINE R == ToSet(old) \cup {e}
             longer == Append(old, e)
  <2>1. old \in Seq(R) /\ e \in R
    BY <1>3, SeqMonotonic DEF SoundSchema
  <2>2. /\ longer \in Seq(R) /\ Len(longer) = Len(old) + 1
        /\ \A j \in 1 .. Len(old) : longer[j] = old[j]
        /\ longer[Len(old) + 1] = e
    BY <2>1, AppendProperties
  <2> HIDE DEF longer, R
  <2>3. Len(longer) = Len(new)
    BY <1>2, <1>3, <1>4, <2>2
  <2>4. ASSUME NEW j \in 1 .. Len(new) PROVE longer[j] = new[j]
    <3>1. CASE j = Len(s) + n
      <4>1. longer[j] = e
        BY <1>2, <1>3, <2>2, <3>1
      <4>2. ~(j <= Len(s)) /\ j - Len(s) = n
        BY <1>1, <1>2, <3>1
      <4>3. new[j] = e
        BY <1>4, <1>6, <4>2
      <4>4. QED
        BY <4>1, <4>3
    <3>2. CASE j # Len(s) + n
      <4>1. j \in 1 .. Len(s) + (n - 1) /\ j \in 1 .. Len(s) + n
        BY <1>1, <1>2, <1>4, <3>2
      <4>2. QED
        BY <1>3, <1>5, <1>6, <2>2, <4>1
    <3>3. QED
      BY <3>1, <3>2
  <2>5. longer = new
    BY <1>4, <2>2, <2>3, <2>4, SeqEqual DEF SoundSchema
  <2>6. QED
    BY <2>5 DEF longer
<1>9. ~HasCol(old, e.name)
  BY <1>7, NameMissing
<1>10. QED
  BY <1>8, <1>9 DEF AddClause, old, new

\* With the columns added they stand behind the others.
LEMMA Additions ==
    ASSUME NEW s, SoundSchema(s), NEW added, NewTo(s, added)
    PROVE  Clauses(Patched(s), AddClause, added) = Patched(Grown(s, added, Len(added)))
<1> DEFINE n == Len(added)
           run == [i \in 0 .. n |-> Patched(Grown(s, added, i))]
           Body(f) == [i \in 0 .. n |->
                          IF i = 0 THEN Patched(s)
                          ELSE LET q == f[i - 1]
                               IN  IF IsPatched(q) THEN AddClause(q.schema, added[i]) ELSE q]
           upTo == CHOOSE f : f = Body(f)
<1>1. n \in Nat
  BY SchemaIs DEF NewTo
<1>2. Clauses(Patched(s), AddClause, added) = upTo[n]
  BY DEF Clauses
<1>3. run[0] = Patched(s)
  <2>1. /\ 0 \in 0 .. n /\ Len(s) \in Nat /\ Len(s) + 0 = Len(s) /\ \A j \in 1 .. Len(s) : j <= Len(s)
        /\ s = [j \in 1 .. Len(s) |-> s[j]]
    BY <1>1, SchemaIs
  <2>2. Grown(s, added, 0) = s
    BY <2>1 DEF Grown
  <2>3. QED
    BY <2>1, <2>2
<1>4. ASSUME NEW i \in 1 .. n
      PROVE  /\ i \in 0 .. n /\ i - 1 \in 0 .. n /\ i # 0
             /\ AddClause(Grown(s, added, i - 1), added[i]) = Patched(Grown(s, added, i))
  BY <1>1, AddClauseIs
<1>5. ASSUME NEW f, NEW i \in 1 .. n, f[i - 1] = run[i - 1] PROVE Body(f)[i] = run[i]
  <2>1. run[i - 1] = Patched(Grown(s, added, i - 1)) /\ run[i] = Patched(Grown(s, added, i))
    BY <1>4
  <2> HIDE DEF run
  <2>2. Body(f)[i] = IF IsPatched(f[i - 1]) THEN AddClause(f[i - 1].schema, added[i]) ELSE f[i - 1]
    BY <1>4
  <2>3. QED
    BY <1>4, <1>5, <2>1, <2>2, PatchedIs
<1>6. \A f : Body(f)[0] = Patched(s)
  BY <1>1
<1>7. run = Body(run)
  <2>1. \A i \in 0 .. n : i = 0 \/ i \in 1 .. n
    BY <1>1
  <2>2. run = [i \in 0 .. n |-> run[i]] /\ Body(run) = [i \in 0 .. n |-> Body(run)[i]]
    OBVIOUS
  <2> HIDE DEF Body, run
  <2>3. QED
    BY <1>3, <1>5, <1>6, <2>1, <2>2
<1>8. upTo = Body(upTo)
  <2> HIDE DEF run
  <2>1. QED
    BY <1>7
<1> HIDE DEF upTo, Body, run
<1>9. upTo[n] = run[n]
  <2>1. upTo[0] = run[0]
    BY <1>3, <1>6, <1>8
  <2>2. ASSUME NEW i \in 1 .. n, upTo[i - 1] = run[i - 1] PROVE upTo[i] = run[i]
    <3>1. Body(upTo)[i] = run[i]
      BY <1>5, <2>2
    <3>2. QED
      BY <1>8, <3>1
  <2>3. QED
    BY <1>1, <2>1, <2>2, RunsMeet
<1>10. n \in 0 .. n
  BY <1>1
<1>11. QED
  BY <1>2, <1>9, <1>10 DEF run

-----------------------------------------------------------------------------
(* The order, and the round trip.                                          *)

\* A schema has as many names as entries.
LEMMA NamesCount ==
    ASSUME NEW s, SoundSchema(s)
    PROVE  Cardinality(SchemaNames(s)) = Len(s) /\ ~Repeats(NamesOf(s))
<1> DEFINE n == Len(s)
           names == NamesOf(s)
           T == SchemaNames(s)
<1>1. n \in Nat /\ DOMAIN s = 1 .. n /\ \A i, j \in 1 .. n : s[i].name = s[j].name => i = j
  BY SchemaIs DEF SoundSchema
<1>2. DOMAIN names = 1 .. n /\ \A i \in 1 .. n : names[i] = s[i].name
  BY <1>1 DEF NamesOf
<1>3. T = {names[i] : i \in DOMAIN names}
  BY <1>1, <1>2 DEF SchemaNames
<1>4. names \in [1 .. n -> T]
  BY <1>1 DEF NamesOf, SchemaNames
<1> HIDE DEF names, T
<1>5. Len(names) = n
  BY <1>1, <1>4, SeqOfFunction
<1>6. names \in Bijection(1 .. n, T)
  BY <1>1, <1>2, <1>3, <1>4 DEF Bijection, Injection, Surjection, IsInjective
<1>7. Cardinality(T) = n
  BY <1>1, <1>6, FS_CountingElements DEF ExistsBijection
<1>8. QED
  BY <1>3, <1>5, <1>7 DEF Repeats, names, T

\* A schema that holds the entries of another, in some order.
Holds(s, target) ==
    /\ SoundSchema(s) /\ SoundSchema(target)
    /\ ToSet(s) \subseteq ToSet(target) /\ SchemaNames(s) = SchemaNames(target)

\* It has them all, and the same names.
LEMMA HoldsAll ==
    ASSUME NEW s, NEW target, Holds(s, target)
    PROVE  /\ Len(s) = Len(target)
           /\ \A i \in 1 .. Len(target) : s[ColIndex(s, target[i].name)] = target[i]
<1>1. Len(s) = Len(target)
  BY NamesCount DEF Holds
<1>2. ASSUME NEW i \in 1 .. Len(target) PROVE s[ColIndex(s, target[i].name)] = target[i]
  <2>1. i \in DOMAIN target /\ DOMAIN s = 1 .. Len(s) /\ DOMAIN target = 1 .. Len(target)
    BY SchemaIs DEF Holds
  <2>2. target[i].name \in SchemaNames(s)
    BY <2>1, NameLeads DEF Holds
  <2>3. PICK k \in DOMAIN s : s[k].name = target[i].name
    BY <2>2 DEF SchemaNames
  <2>4. ColIndex(s, target[i].name) = k
    BY <2>3, NameLeads DEF Holds
  <2>5. s[k] \in ToSet(target)
    BY <2>3 DEF Holds, ToSet
  <2>6. PICK j \in DOMAIN target : target[j] = s[k]
    BY <2>5 DEF ToSet
  <2>7. j = i
    BY <2>1, <2>3, <2>6 DEF Holds, SoundSchema
  <2>8. QED
    BY <2>4, <2>6, <2>7
<1>3. QED
  BY <1>1, <1>2

\* In the order of the target it is the target ...
LEMMA OrderClauseIs ==
    ASSUME NEW s, NEW target, Holds(s, target), NamesOf(target) # <<>>
    PROVE  OrderClause(s, NamesOf(target)) = Patched(target)
<1> DEFINE order == NamesOf(target)
           n == Len(target)
<1>1. n \in Nat /\ DOMAIN target = 1 .. n /\ target = [i \in 1 .. n |-> target[i]]
  BY SchemaIs DEF Holds
<1>2. DOMAIN order = 1 .. n /\ \A i \in 1 .. n : order[i] = target[i].name
  BY <1>1 DEF NamesOf
<1>3. order \in [1 .. n -> ToSet(order)]
  BY <1>1 DEF NamesOf, ToSet
<1>4. ToSet(order) = SchemaNames(s)
  <2>1. SchemaNames(target) = SchemaNames(s)
    BY DEF Holds
  <2>2. SchemaNames(target) = {target[i].name : i \in 1 .. n}
    BY <1>1 DEF SchemaNames
  <2> HIDE DEF order
  <2>3. ToSet(order) = {order[i] : i \in 1 .. n}
    BY <1>2 DEF ToSet
  <2>4. {order[i] : i \in 1 .. n} = {target[i].name : i \in 1 .. n}
    BY <1>2
  <2>5. QED
    BY <2>1, <2>2, <2>3, <2>4
<1> HIDE DEF order
<1>5. Len(order) = Len(s)
  BY <1>1, <1>3, SeqOfFunction, HoldsAll
<1>6. [i \in DOMAIN order |-> s[ColIndex(s, order[i])]] = target
  <2>1. \A i \in 1 .. n : s[ColIndex(s, order[i])] = target[i]
    BY <1>2, HoldsAll
  <2>2. [i \in DOMAIN order |-> s[ColIndex(s, order[i])]] = [i \in 1 .. n |-> target[i]]
    BY <1>2, <2>1
  <2>3. QED
    BY <1>1, <2>2
<1>7. order # <<>>
  BY DEF order
<1>8. QED
  BY <1>4, <1>5, <1>6, <1>7 DEF OrderClause, order

\* ... and where it has that order already, too.
LEMMA InOrderAlready ==
    ASSUME NEW s, NEW target, Holds(s, target),
           \A i \in 1 .. Len(target) : s[i].name = target[i].name
    PROVE  s = target
<1>1. Len(s) = Len(target)
  BY HoldsAll
<1>2. /\ Len(s) \in Nat /\ DOMAIN s = 1 .. Len(s) /\ s = [i \in 1 .. Len(s) |-> s[i]]
      /\ target = [i \in 1 .. Len(target) |-> target[i]]
  BY SchemaIs DEF Holds
<1>3. ASSUME NEW i \in 1 .. Len(s) PROVE s[i] = target[i]
  <2>1. i \in DOMAIN s /\ i \in 1 .. Len(target)
    BY <1>1, <1>2
  <2>2. ColIndex(s, s[i].name) = i
    BY <2>1, NameLeads DEF Holds
  <2>3. s[ColIndex(s, target[i].name)] = target[i]
    BY <2>1, HoldsAll
  <2>4. QED
    BY <2>1, <2>2, <2>3
<1>4. QED
  BY <1>1, <1>2, <1>3

\* The columns of the old schema that the target keeps, and the ones it adds.
Common(old, target) == Keeping(old, SchemaNames(target))
Added(old, target)  == Keeping(target, SchemaNames(target) \ SchemaNames(old))

\* The clauses of a delta.
LEMMA DeltaIs ==
    ASSUME NEW old, NEW target
    PROVE  LET d == DiffSchema(old, target)
               common == Common(old, target)
               added  == Added(old, target)
           IN  /\ d.removed = Keeping(old, SchemaNames(old) \ SchemaNames(target))
               /\ d.retyped = Retypes(common, target) /\ d.amended = Amendments(common, target)
               /\ d.added = added
               /\ d.order = IF NamesOf(target) # NamesOf(common) \o NamesOf(added) THEN NamesOf(target) ELSE <<>>
BY DEF DiffSchema, Common, Added

\* The clauses before the order leave every entry of the target.
LEMMA ClausesHold ==
    ASSUME NEW old, SoundSchema(old), NEW target, SoundSchema(target)
    PROVE  LET common == Common(old, target)
               added  == Added(old, target)
               kept   == Renewed(common, target)
           IN  /\ SoundSchema(common) /\ Covers(target, common)
               /\ SoundSchema(kept) /\ Len(kept) = Len(common) /\ NewTo(kept, added)
               /\ Holds(Grown(kept, added, Len(added)), target)
<1> DEFINE common == Common(old, target)
           added == Added(old, target)
           kept == Renewed(common, target)
           new == Grown(kept, added, Len(added))
<1>1. /\ SoundSchema(common) /\ SchemaNames(common) = SchemaNames(old) \cap SchemaNames(target)
      /\ SoundSchema(added) /\ ToSet(added) \subseteq ToSet(target)
      /\ SchemaNames(added) = SchemaNames(target) \ SchemaNames(old)
  BY KeepingIs DEF Common, Added
<1> HIDE DEF common, added
<1>2. Covers(target, common)
  BY <1>1 DEF Covers
<1>3. kept = [i \in 1 .. Len(common) |-> kept[i]] /\ \A i \in 1 .. Len(common) : kept[i] = Aim(target, common[i])
  BY DEF Renewed
<1> HIDE DEF kept
<1>4. \A i \in 1 .. Len(common) : /\ IsEntry(kept[i]) /\ kept[i].name = common[i].name
                                  /\ kept[i] \in ToSet(target)
  BY <1>1, <1>2, <1>3, AimIs
<1>5. SoundSchema(kept) /\ SchemaNames(kept) = SchemaNames(common) /\ Len(kept) = Len(common)
  BY <1>1, <1>3, <1>4, ChangedInPlace
<1>6. ToSet(kept) \subseteq ToSet(target)
  BY <1>3, <1>4 DEF ToSet
<1>7. NewTo(kept, added)
  BY <1>1, <1>5 DEF NewTo
<1>8. Len(added) \in Nat /\ Len(added) \in 0 .. Len(added) /\ DOMAIN added = 1 .. Len(added)
  BY <1>1, SchemaIs
<1>9. /\ SoundSchema(new)
      /\ \A e : e \in ToSet(new) <=> e \in ToSet(kept) \/ \E i \in 1 .. Len(added) : e = added[i]
  BY <1>5, <1>7, <1>8, GrownIs
<1> HIDE DEF new
<1>10. \A e : e \in ToSet(new) <=> e \in ToSet(kept) \/ e \in ToSet(added)
  BY <1>8, <1>9 DEF ToSet
<1>11. \A r : SchemaNames(r) = {e.name : e \in ToSet(r)}
  BY DEF SchemaNames, ToSet
<1>12. SchemaNames(new) = SchemaNames(kept) \cup SchemaNames(added)
  BY <1>10, <1>11
<1>13. SchemaNames(new) = SchemaNames(target)
  BY <1>1, <1>5, <1>12
<1>14. Holds(new, target)
  BY <1>1, <1>6, <1>9, <1>10, <1>13 DEF Holds
<1>15. QED
  BY <1>1, <1>2, <1>5, <1>7, <1>14 DEF common, added, kept, new

\* Where the columns stand in the order of the target already, no order is given.
LEMMA NoOrderNeeded ==
    ASSUME NEW common, SoundSchema(common), NEW added, SoundSchema(added), NEW target, SoundSchema(target),
           NEW kept, Len(kept) = Len(common), \A i \in 1 .. Len(common) : kept[i].name = common[i].name,
           Holds(Grown(kept, added, Len(added)), target),
           NamesOf(target) = NamesOf(common) \o NamesOf(added)
    PROVE  Grown(kept, added, Len(added)) = target
<1> DEFINE new == Grown(kept, added, Len(added))
           left == NamesOf(common)
           right == NamesOf(added)
           n == Len(common)
           k == Len(added)
<1>1. /\ n \in Nat /\ DOMAIN common = 1 .. n /\ k \in Nat /\ DOMAIN added = 1 .. k
      /\ DOMAIN target = 1 .. Len(target)
  BY SchemaIs
<1>2. /\ \A i \in 1 .. n : left[i] = common[i].name
      /\ \A i \in 1 .. k : right[i] = added[i].name
      /\ \A i \in 1 .. Len(target) : NamesOf(target)[i] = target[i].name
  BY <1>1 DEF NamesOf
<1>3. left \in [1 .. n -> SchemaNames(common)] /\ right \in [1 .. k -> SchemaNames(added)]
  BY <1>1 DEF NamesOf, SchemaNames
<1> DEFINE S == SchemaNames(common) \cup SchemaNames(added)
<1>4. left \in [1 .. n -> S] /\ right \in [1 .. k -> S]
  BY <1>3
<1>5. Len(target) = n + k
  <2>1. Len(new) = Len(target) /\ SoundSchema(new)
    BY HoldsAll DEF Holds
  <2>2. new = [j \in 1 .. n + k |-> new[j]] /\ n + k \in Nat
    BY <1>1 DEF Grown
  <2> HIDE DEF new
  <2>3. new \in [1 .. n + k -> ToSet(new)]
    BY <2>2 DEF ToSet
  <2>4. Len(new) = n + k
    BY <2>2, <2>3, SeqOfFunction
  <2>5. QED
    BY <2>1, <2>4
<1>6. \A j \in 1 .. n + k : new[j] = IF j <= n THEN kept[j] ELSE added[j - n]
  BY DEF Grown
<1> HIDE DEF left, right, S, new
<1>7. left \in Seq(S) /\ Len(left) = n /\ right \in Seq(S) /\ Len(right) = k
  BY <1>1, <1>4, SeqOfFunction
<1>8. \A j \in 1 .. n + k : (left \o right)[j] = IF j <= n THEN left[j] ELSE right[j - n]
  BY <1>7, ConcatProperties
<1>9. ASSUME NEW j \in 1 .. n + k PROVE new[j].name = target[j].name
  <2>1. target[j].name = (left \o right)[j]
    BY <1>2, <1>5 DEF left, right
  <2>2. CASE j <= n
    <3>1. j \in 1 .. n
      BY <1>1, <2>2
    <3>2. QED
      BY <1>2, <1>6, <1>8, <2>1, <2>2, <3>1
  <2>3. CASE ~(j <= n)
    <3>1. j - n \in 1 .. k
      BY <1>1, <2>3
    <3>2. QED
      BY <1>2, <1>6, <1>8, <2>1, <2>3, <3>1
  <2>4. QED
    BY <2>2, <2>3
<1>10. Holds(new, target)
  BY DEF new
<1>11. new = target
  BY <1>5, <1>9, <1>10, InOrderAlready
<1>12. QED
  BY <1>11 DEF new

\* The loops one after the other.
LEMMA PatchIs ==
    ASSUME NEW old, SoundSchema(old), NEW d, NEW common, NEW retyped, NEW kept, NEW new,
           Clauses(Patched(old), RemoveClause, d.removed) = Patched(common),
           Clauses(Patched(common), RetypeClause, d.retyped) = Patched(retyped),
           Clauses(Patched(retyped), AmendClause, d.amended) = Patched(kept),
           Clauses(Patched(kept), AddClause, d.added) = Patched(new)
    PROVE  PatchSchema(old, d) = OrderClause(new, d.order)
<1>1. ~Repeats(NamesOf(old))
  BY NamesCount
<1>2. IsPatched(Patched(new)) /\ Patched(new).schema = new
  BY PatchedIs
<1>3. QED
  BY <1>1, <1>2 DEF PatchSchema

\* The delta of two schemas that name each column once, applied to the first, gives
\* the second, order and metadata included (PatchSchema, schema.go).
LEMMA RoundTrip ==
    ASSUME NEW old, SoundSchema(old), NEW target, SoundSchema(target)
    PROVE  PatchSchema(old, DiffSchema(old, target)) = Patched(target)
<1> DEFINE d == DiffSchema(old, target)
           common == Common(old, target)
           added == Added(old, target)
           retyped == Retyped(common, target)
           kept == Renewed(common, target)
           new == Grown(kept, added, Len(added))
<1>1. /\ d.removed = Keeping(old, SchemaNames(old) \ SchemaNames(target))
      /\ d.retyped = Retypes(common, target) /\ d.amended = Amendments(common, target)
      /\ d.added = added
      /\ d.order = IF NamesOf(target) # NamesOf(common) \o NamesOf(added) THEN NamesOf(target) ELSE <<>>
  BY DeltaIs
<1>2. /\ SoundSchema(common) /\ Covers(target, common)
      /\ SoundSchema(kept) /\ Len(kept) = Len(common) /\ NewTo(kept, added)
      /\ Holds(new, target)
  BY ClausesHold
<1> HIDE DEF d
<1>3. Clauses(Patched(old), RemoveClause, d.removed) = Patched(common)
  BY <1>1, Removals DEF Common
<1>4. /\ \A i \in 1 .. Len(common) : kept[i].name = common[i].name
      /\ SoundSchema(added)
  <2> HIDE DEF common
  <2>1. \A i \in 1 .. Len(common) : kept[i] = Aim(target, common[i])
    BY DEF Renewed
  <2>2. \A i \in 1 .. Len(common) : Aim(target, common[i]).name = common[i].name
    BY <1>2, AimIs
  <2>3. QED
    BY <1>2, <2>1, <2>2 DEF NewTo
<1> HIDE DEF common, added
<1>5. Clauses(Patched(common), RetypeClause, d.retyped) = Patched(retyped)
  BY <1>1, <1>2, Retypings
<1>6. Clauses(Patched(retyped), AmendClause, d.amended) = Patched(kept)
  BY <1>1, <1>2, Amendings
<1> HIDE DEF retyped, kept
<1>7. Clauses(Patched(kept), AddClause, d.added) = Patched(new)
  BY <1>1, <1>2, Additions
<1> HIDE DEF new
<1>8. PatchSchema(old, d) = OrderClause(new, d.order)
  BY <1>3, <1>5, <1>6, <1>7, PatchIs
<1>9. OrderClause(new, d.order) = Patched(target)
  <2>1. CASE NamesOf(target) = NamesOf(common) \o NamesOf(added)
    <3>1. d.order = <<>>
      BY <1>1, <2>1
    <3>2. new = target
      BY <1>2, <1>4, <2>1, NoOrderNeeded DEF new
    <3>3. QED
      BY <3>1, <3>2 DEF OrderClause
  <2>2. CASE NamesOf(target) # NamesOf(common) \o NamesOf(added)
    <3>1. d.order = NamesOf(target)
      BY <1>1, <2>2
    <3>2. CASE NamesOf(target) # <<>>
      BY <1>2, <3>1, <3>2, OrderClauseIs
    <3>3. CASE NamesOf(target) = <<>>
      <4>1. Len(new) = Len(target) /\ Len(target) = 0
        <5>1. DOMAIN NamesOf(target) = DOMAIN target /\ DOMAIN target = 1 .. Len(target) /\ Len(target) \in Nat
          BY SchemaIs DEF NamesOf
        <5>2. DOMAIN NamesOf(target) = {}
          BY <3>3
        <5>3. QED
          BY <1>2, <5>1, <5>2, HoldsAll
      <4>2. new = target
        BY <1>2, <4>1, InOrderAlready
      <4>3. QED
        BY <3>1, <3>3, <4>2 DEF OrderClause
    <3>4. QED
      BY <3>2, <3>3
  <2>3. QED
    BY <2>1, <2>2
<1>10. QED
  BY <1>8, <1>9 DEF d

-----------------------------------------------------------------------------
(* What a compatible delta keeps.                                          *)

\* A cell that fits a type fits every type that it widens to.
LEMMA WidensOn ==
    ASSUME NEW a, NEW b, NEW c, ColumnTypeWidens(a, b), ColumnTypeWidens(b, c)
    PROVE  ColumnTypeWidens(a, c)
<1>1. \A x \in Timestamps : TimestampUnitDigits[x] \in Int
  BY DEF Timestamps, TimestampUnitDigits
<1>2. CASE a = b \/ b = c
  BY <1>2
<1>3. CASE a # b /\ b # c
  <2>1. "int" \notin Timestamps /\ "float" \notin Timestamps /\ "decimal" \notin Timestamps
    BY DEF Timestamps
  <2>2. ~(a = "int" /\ b \in {"float", "decimal"})
    BY <1>3, <2>1 DEF ColumnTypeWidens
  <2>3. {a, b} \subseteq Timestamps /\ TimestampUnitDigits[a] <= TimestampUnitDigits[b]
    BY <1>3, <2>2 DEF ColumnTypeWidens
  <2>4. {b, c} \subseteq Timestamps /\ TimestampUnitDigits[b] <= TimestampUnitDigits[c]
    BY <1>3, <2>1, <2>3 DEF ColumnTypeWidens
  <2>5. {a, c} \subseteq Timestamps /\ TimestampUnitDigits[a] <= TimestampUnitDigits[c]
    BY <1>1, <2>3, <2>4
  <2>6. QED
    BY <2>5 DEF ColumnTypeWidens
<1>4. QED
  BY <1>2, <1>3

\* The clauses of a delta that is compatible for a consumer.
LEMMA CompatibleIs ==
    ASSUME NEW deps, NEW d, ClassifySchema(deps, d) = "compatible"
    PROVE  /\ \A i \in DOMAIN d.removed : d.removed[i].name \notin deps
           /\ \A i \in DOMAIN d.retyped : d.retyped[i].name \in deps =>
                 ColumnTypeWidens(d.retyped[i].from, d.retyped[i].to)
           /\ \A i \in DOMAIN d.amended : d.amended[i].name \in deps /\ d.amended[i].member = "unit" =>
                 d.amended[i].from = <<>>
<1> DEFINE Depended(clauses) == {clauses[i] : i \in {j \in DOMAIN clauses : clauses[j].name \in deps}}
<1>1. /\ Depended(d.removed) = {}
      /\ \A r \in Depended(d.retyped) : ColumnTypeWidens(r.from, r.to)
      /\ \A a \in Depended(d.amended) : a.member = "unit" => a.from = <<>>
  BY DEF ClassifySchema
<1>2. \A clauses : \A i \in DOMAIN clauses : clauses[i].name \in deps => clauses[i] \in Depended(clauses)
  OBVIOUS
<1> HIDE DEF Depended
<1>3. QED
  BY <1>1, <1>2

\* A column that a consumer depends on stays, in its unit and of a type that its own widens to.
LEMMA CompatibleKeeps ==
    ASSUME NEW old, SoundSchema(old), NEW target, SoundSchema(target), NEW deps \in SUBSET SchemaNames(old),
           ClassifySchema(deps, DiffSchema(old, target)) = "compatible", NEW name \in deps
    PROVE  /\ HasCol(target, name)
           /\ EntryNamed(old, name).unit # <<>> => EntryNamed(target, name).unit = EntryNamed(old, name).unit
           /\ ColumnTypeWidens(EntryNamed(old, name).type, EntryNamed(target, name).type)
<1> DEFINE d == DiffSchema(old, target)
           common == Common(old, target)
           e == EntryNamed(old, name)
           n == EntryNamed(target, name)
           gone == Keeping(old, SchemaNames(old) \ SchemaNames(target))
           retypes == Retypes(common, target)
           changes == Amendments(common, target)
<1>1. d.removed = gone /\ d.retyped = retypes /\ d.amended = changes
  BY DeltaIs
<1>2. /\ \A i \in DOMAIN gone : gone[i].name \notin deps
      /\ \A i \in DOMAIN retypes : retypes[i].name \in deps => ColumnTypeWidens(retypes[i].from, retypes[i].to)
      /\ \A i \in DOMAIN changes : changes[i].name \in deps /\ changes[i].member = "unit" => changes[i].from = <<>>
  <2> HIDE DEF d, gone, retypes, changes
  <2>1. ClassifySchema(deps, d) = "compatible"
    BY DEF d
  <2>2. QED
    BY <1>1, <2>1, CompatibleIs
<1>3. name \in SchemaNames(target)
  <2>1. SchemaNames(gone) = SchemaNames(old) \cap (SchemaNames(old) \ SchemaNames(target))
    BY KeepingIs
  <2> HIDE DEF gone
  <2>2. name \notin SchemaNames(gone)
    BY <1>2 DEF SchemaNames
  <2>3. QED
    BY <2>1, <2>2
<1>4. /\ SoundSchema(common) /\ Covers(target, common)
      /\ ToSet(common) = {x \in ToSet(old) : x.name \in SchemaNames(target)}
  BY ClausesHold, KeepingIs DEF Common
<1>5. e \in ToSet(old) /\ e.name = name /\ n.name = name /\ IsEntry(e) /\ IsEntry(n)
  BY <1>3, EntryIsNamed
<1>6. HasCol(target, name)
  <2>1. PICK i \in DOMAIN target : target[i].name = name
    BY <1>3 DEF SchemaNames
  <2>2. QED
    BY <2>1, NameLeads
<1> HIDE DEF d, common, gone
<1>7. e \in ToSet(common)
  BY <1>3, <1>4, <1>5
<1>8. PICK i \in 1 .. Len(common) : common[i] = e
  BY <1>4, <1>7, SchemaIs DEF ToSet
<1>9. Aim(target, e) = n /\ EntryNamed(common, name) = e /\ name \in SchemaNames(common)
  BY <1>4, <1>5, <1>7, SameEntry DEF Aim
<1> HIDE DEF e, n
<1>10. ASSUME e.unit # <<>> PROVE n.unit = e.unit
  <2> SUFFICES ASSUME n.unit # e.unit PROVE FALSE
    OBVIOUS
  <2> DEFINE a == Amendment(e, n, "unit")
  <2>1. "unit" \in Moved(e, n)
    BY DEF Moved, Members, Member
  <2>2. a.name = name /\ a.member = "unit" /\ a.from = e.unit
    BY <1>5, AmendmentIs DEF Member
  <2>3. Amends(changes, common, target)
    BY <1>4, AmendmentsAre
  <2> HIDE DEF changes
  <2>4. a \in ToSet(changes)
    BY <1>8, <1>9, <2>1, <2>3 DEF Amends
  <2> HIDE DEF a
  <2>5. PICK j \in DOMAIN changes : changes[j] = a
    BY <2>4 DEF ToSet
  <2>6. QED
    BY <1>2, <1>10, <2>2, <2>5
<1>11. ColumnTypeWidens(e.type, n.type)
  <2>1. CASE n.type = e.type
    BY <2>1 DEF ColumnTypeWidens
  <2>2. CASE n.type # e.type
    <3> DEFINE differ == {x \in SchemaNames(common) : EntryNamed(target, x).type # EntryNamed(common, x).type}
               moved == Keeping(common, differ)
    <3>1. name \in differ
      BY <1>9, <2>2 DEF n
    <3>2. ToSet(moved) = {x \in ToSet(common) : x.name \in differ}
      BY <1>4, KeepingIs
    <3>3. retypes = [j \in DOMAIN moved |-> [name |-> moved[j].name, from |-> moved[j].type,
                                             to |-> EntryNamed(target, moved[j].name).type]]
      BY DEF Retypes
    <3> HIDE DEF moved, differ, retypes
    <3>4. e \in ToSet(moved)
      BY <1>5, <1>7, <3>1, <3>2
    <3>5. PICK j \in DOMAIN moved : moved[j] = e
      BY <3>4 DEF ToSet
    <3>6. /\ j \in DOMAIN retypes /\ retypes[j].name = name /\ retypes[j].from = e.type
          /\ retypes[j].to = n.type
      BY <1>5, <3>3, <3>5 DEF n
    <3>7. QED
      BY <1>2, <3>6
  <2>3. QED
    BY <2>1, <2>2
<1>12. QED
  BY <1>6, <1>10, <1>11 DEF e, n

-----------------------------------------------------------------------------
(* The theorem.                                                            *)

\* The schema of a table in order names each column once.
LEMMA TablesAreSound ==
    ASSUME NEW t, InOrder(t)
    PROVE  SoundSchema(t.schema)
<1>1. /\ t.schema \in Seq(ToSet(t.schema)) /\ Len(t.schema) = Len(t.columns)
      /\ \A i \in DOMAIN t.columns : t.schema[i].name = t.columns[i].name
      /\ \A i \in DOMAIN t.schema : IsEntry(t.schema[i])
      /\ \A i, j \in DOMAIN t.columns : t.columns[i].name = t.columns[j].name => i = j
      /\ t.columns \in Seq(SoundColumns)
  BY DEF InOrder, ColumnsInOrder
<1>2. DOMAIN t.schema = DOMAIN t.columns
  BY <1>1, LenProperties
<1>3. QED
  BY <1>1, <1>2 DEF SoundSchema

\* On every table in order the delta to and from every target round-trips, and a
\* compatible one keeps the cells.
LEMMA DeltasHold ==
    ASSUME InOrder(table)
    PROVE  SchemaDeltasHold
<1>1. SoundSchema(table.schema)
  BY TablesAreSound
<1>2. ASSUME NEW target \in Targets
      PROVE  /\ PatchSchema(table.schema, DiffSchema(table.schema, target)) = Patched(target)
             /\ PatchSchema(target, DiffSchema(target, table.schema)) = Patched(table.schema)
  BY <1>1, RoundTrip, SchemasAssumption
<1>3. PatchRoundTrip
  BY <1>2 DEF PatchRoundTrip
<1>4. ASSUME NEW target \in Targets, NEW deps \in SUBSET SchemaNames(table.schema),
             ClassifySchema(deps, DiffSchema(table.schema, target)) = "compatible",
             NEW name \in deps
      PROVE  /\ HasCol(target, name)
             /\ EntryNamed(table.schema, name).unit # <<>> =>
                   EntryNamed(target, name).unit = EntryNamed(table.schema, name).unit
             /\ \A c : Fits(EntryNamed(table.schema, name).type, c) => Fits(EntryNamed(target, name).type, c)
  <2>1. SoundSchema(target)
    BY SchemasAssumption
  <2>2. /\ HasCol(target, name)
        /\ EntryNamed(table.schema, name).unit # <<>> =>
              EntryNamed(target, name).unit = EntryNamed(table.schema, name).unit
        /\ ColumnTypeWidens(EntryNamed(table.schema, name).type, EntryNamed(target, name).type)
    BY <1>1, <1>4, <2>1, CompatibleKeeps
  <2>3. QED
    BY <2>2, WidensOn DEF Fits
<1>5. CompatibleKeepsCells
  BY <1>4 DEF CompatibleKeepsCells
<1>6. QED
  BY <1>3, <1>5 DEF SchemaDeltasHold

\* Whatever is edited, undone and redone, the delta of the table's schema and any
\* other leads from the one to the other, and its class tells a consumer truly
\* whether it must react (DiffSchema, PatchSchema and ClassifySchema, schema.go).
THEOREM SchemaDeltasAlwaysHold ==
    ASSUME PipelinesKeepOrder
    PROVE  Spec => []SchemaDeltasHold
<1>1. HistoryInv => SchemaDeltasHold
  BY DeltasHold DEF HistoryInv
<1>2. QED
  BY <1>1, HistoryInvariant, PTL
=============================================================================
