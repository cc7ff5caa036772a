------------------------------ MODULE Schemas ------------------------------
(***************************************************************************)
(* Schema deltas, src/internal/core/dataframe/schema.go: the difference of *)
(* two schemas, its application, and what it means to a consumer that      *)
(* depends on some of the columns.  Pure operators; their laws are stated  *)
(* of the schema of the table, at whatever state Grid has reached.         *)
(*                                                                         *)
(* A change of a member is from a value to a value, each <<>> when the     *)
(* member is not stated.  The members are the unit and those of meta; the  *)
(* extension members are the ones outside KitMembers.                      *)
(***************************************************************************)
EXTENDS Grid

CONSTANT Targets     \* schemas to compare the one of the table with

KitMembers == {"unit", "label", "description"}

Stated1(meta, m) == IF m \in DOMAIN meta THEN <<meta[m]>> ELSE <<>>
Member(e, m) == IF m = "unit" THEN e.unit ELSE Stated1(e.meta, m)
Members(e) == {"unit"} \cup DOMAIN e.meta
WithMeta(meta, m, v) == IF v = <<>> THEN [x \in DOMAIN meta \ {m} |-> meta[x]]
                        ELSE [x \in DOMAIN meta \cup {m} |-> IF x = m THEN v[1] ELSE meta[x]]

\* of two entries of a name the map by name holds the last
EntryNamed(s, name) == s[CHOOSE i \in DOMAIN s :
                            s[i].name = name /\ \A j \in DOMAIN s : s[j].name = name => j <= i]
SchemaNames(s) == {s[i].name : i \in DOMAIN s}

\* the loops that keep the entries of some names
KeptUpTo(s, names) ==
    LET upTo[i \in 0 .. Len(s)] ==
            IF i = 0 THEN <<>>
            ELSE IF s[i].name \in names THEN Append(upTo[i - 1], s[i]) ELSE upTo[i - 1]
    IN  upTo
Keeping(s, names) == KeptUpTo(s, names)[Len(s)]

\* every member that differs, as amendments of the column
Moved(before, after) == {m \in Members(before) \cup Members(after) : Member(before, m) # Member(after, m)}
Amendment(before, after, m) ==
    [name |-> before.name, member |-> m, from |-> Member(before, m), to |-> Member(after, m)]
FieldChanges(before, after) ==
    LET members == SetToSeq(Moved(before, after))
    IN  [i \in DOMAIN members |-> Amendment(before, after, members[i])]

\* an old schema that names a column twice has a delta that no patch takes
\* order is given only when the columns left over, then the new ones at the end,
\* do not already stand as in the target
Retypes(common, target) ==
    LET moved == Keeping(common, {name \in SchemaNames(common) :
                                    EntryNamed(target, name).type # EntryNamed(common, name).type})
    IN  [i \in DOMAIN moved |-> [name |-> moved[i].name, from |-> moved[i].type,
                                 to |-> EntryNamed(target, moved[i].name).type]]
Amendments(common, target) ==
    FlattenSeq([i \in DOMAIN common |-> FieldChanges(common[i], EntryNamed(target, common[i].name))])
DiffSchema(old, target) ==
    LET added  == Keeping(target, SchemaNames(target) \ SchemaNames(old))
        common == Keeping(old, SchemaNames(target))
    IN  [added   |-> added,
         removed |-> Keeping(old, SchemaNames(old) \ SchemaNames(target)),
         retyped |-> Retypes(common, target),
         amended |-> Amendments(common, target),
         reordered |-> NamesOf(common) # NamesOf(Keeping(target, SchemaNames(old))),
         order   |-> IF NamesOf(target) # NamesOf(common) \o NamesOf(added) THEN NamesOf(target) ELSE <<>>]

-----------------------------------------------------------------------------
(* Patching: every clause names a column that is there as it says.         *)

Refused(kind) == [kind |-> kind]
Patched(s) == [kind |-> "", schema |-> s]
IsPatched(p) == p.kind = ""

RemoveClause(s, r) ==
    LET i == ColIndex(s, r.name)
    IN  IF i = 0 THEN Refused("AbsentColumn")
        ELSE IF s[i].type # r.type THEN Refused("TypeDisagrees")
        ELSE Patched(RemoveAt(s, i))

RetypeClause(s, r) ==
    LET i == ColIndex(s, r.name)
    IN  IF i = 0 THEN Refused("AbsentColumn")
        ELSE IF s[i].type # r.from THEN Refused("TypeDisagrees")
        ELSE Patched([s EXCEPT ![i].type = r.to])

ApplyChange(c, e) == IF c.member = "unit" THEN [e EXCEPT !.unit = c.to]
                     ELSE [e EXCEPT !.meta = WithMeta(@, c.member, c.to)]

AmendClause(s, a) ==
    LET i == ColIndex(s, a.name)
    IN  IF i = 0 THEN Refused("AbsentColumn")
        ELSE IF Member(s[i], a.member) # a.from THEN Refused("MetadataDisagrees")
        ELSE Patched([s EXCEPT ![i] = ApplyChange(a, @)])

AddClauseFirst(s, e) == IF HasCol(s, e.name) THEN Refused("AlreadyPresent") ELSE Patched(<<e>> \o s)
AddClause(s, e) == IF HasCol(s, e.name) THEN Refused("AlreadyPresent") ELSE Patched(Append(s, e))

OrderClause(s, order) ==
    IF order = <<>> THEN Patched(s)
    ELSE IF Len(order) # Len(s) \/ ToSet(order) # SchemaNames(s) THEN Refused("OrderMismatch")
    ELSE Patched([i \in DOMAIN order |-> s[ColIndex(s, order[i])]])

\* the loop over the clauses of one kind, which ends at the first refusal
Clauses(p, Clause(_, _), cs) ==
    LET upTo[i \in 0 .. Len(cs)] ==
            IF i = 0 THEN p
            ELSE LET q == upTo[i - 1] IN IF IsPatched(q) THEN Clause(q.schema, cs[i]) ELSE q
    IN  upTo[Len(cs)]

PatchSchema(old, d) ==
    IF Repeats(NamesOf(old)) THEN Refused("DuplicateColumn")
    ELSE LET removed == Clauses(Patched(old), RemoveClause, d.removed)
             retyped == Clauses(removed, RetypeClause, d.retyped)
             amended == Clauses(retyped, AmendClause, d.amended)
             added   == Clauses(amended, AddClause, d.added)
         IN  IF IsPatched(added) THEN OrderClause(added.schema, d.order) ELSE added

-----------------------------------------------------------------------------
(* Compatibility.                                                          *)

ClassifySchema(dependsOn, d) ==
    LET Depended(clauses) == {clauses[i] : i \in {j \in DOMAIN clauses : clauses[j].name \in dependsOn}}
    IN  IF \/ Depended(d.removed) # {}
           \/ \E r \in Depended(d.retyped) : ~ColumnTypeWidens(r.from, r.to)
           \/ \E a \in Depended(d.amended) : a.member = "unit" /\ a.from # <<>>
        THEN "breaking"
        ELSE IF \E a \in Depended(d.amended) : ~(a.member \in KitMembers) THEN "unknown"
        ELSE "compatible"

-----------------------------------------------------------------------------
(* What a delta promises.                                                  *)

\* The schemas of two tables: entries, each column named once.
SoundSchema(s) ==
    /\ s \in Seq(ToSet(s)) /\ \A i \in DOMAIN s : IsEntry(s[i])
    /\ \A i, j \in DOMAIN s : s[i].name = s[j].name => i = j

ASSUME SchemasAssumption == \A target \in Targets : SoundSchema(target)

\* The delta of two schemas, applied to the first, gives the second, order and
\* metadata included (PatchSchema, schema.go).
PatchRoundTrip ==
    \A target \in Targets :
        /\ PatchSchema(table.schema, DiffSchema(table.schema, target)) = Patched(target)
        /\ PatchSchema(target, DiffSchema(target, table.schema)) = Patched(table.schema)

\* A change that is compatible for a consumer leaves every cell of the columns it
\* depends on a cell of the new type, in the unit it was read in.
CompatibleKeepsCells ==
    \A target \in Targets : \A deps \in SUBSET SchemaNames(table.schema) :
        ClassifySchema(deps, DiffSchema(table.schema, target)) = "compatible" =>
            \A name \in deps :
                LET e == EntryNamed(table.schema, name)
                    n == EntryNamed(target, name)
                    c == FindColumn(table, name).cells
                IN  /\ HasCol(target, name)
                    /\ e.unit # <<>> => n.unit = e.unit
                    /\ \A r \in DOMAIN c : Fits(e.type, c[r]) => Fits(n.type, c[r])

\* A schema delta can be shipped in the place of the schema it leads to, and its
\* class tells a consumer whether it must react.
SchemaDeltasHold == PatchRoundTrip /\ CompatibleKeepsCells
=============================================================================
