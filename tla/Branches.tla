------------------------------ MODULE Branches ------------------------------
(***************************************************************************)
(* Two branches of one document: each edits its copy through ops.Apply,    *)
(* the pair is merged over the common ancestor (package merge), and one    *)
(* branch can catch up with the other by a derived op script (diff).       *)
(***************************************************************************)
EXTENDS TreeDiff

CONSTANTS
    ForkTrees,      \* the documents branches fork from
    BranchOps,      \* the ops a branch may apply
    MaxEdits        \* how many each branch applies, by side

VARIABLES base, left, right,    \* the common ancestor and the two branches
          edits                 \* how many ops each branch has applied

vars == <<base, left, right, edits>>

Versions == [base |-> base, a |-> left, b |-> right]
Merge3Way == MergeTrees(Versions, "none")

-----------------------------------------------------------------------------
Init ==
    /\ base \in ForkTrees
    /\ left = base /\ right = base
    /\ edits = [side \in Sides |-> 0]

EditLeft(op) ==
    /\ edits.a < MaxEdits.a
    /\ left' = Apply(op, left).tree
    /\ edits' = [edits EXCEPT !.a = @ + 1]
    /\ UNCHANGED <<base, right>>

EditRight(op) ==
    /\ edits.b < MaxEdits.b
    /\ right' = Apply(op, right).tree
    /\ edits' = [edits EXCEPT !.b = @ + 1]
    /\ UNCHANGED <<base, left>>

\* Both branches go on from a merge that succeeded.
AdoptMerge ==
    /\ left # base /\ right # base
    /\ \E merged \in {Merge3Way} : merged.ok /\ base' = merged.tree
    /\ left' = base' /\ right' = base'
    /\ UNCHANGED edits

Next == (\E op \in BranchOps : EditLeft(op) \/ EditRight(op)) \/ AdoptMerge

Spec == Init /\ [][Next]_vars

-----------------------------------------------------------------------------
(* What the branches did, read off two trees by id.                        *)

Changed(id, facet, from, to) ==
    /\ id \in DOMAIN from \cap DOMAIN to
    /\ FacetOf(from[id].node, facet) # FacetOf(to[id].node, facet)
Inserted(from, to) == DOMAIN to \ DOMAIN from
Removed(from, to) == DOMAIN from \ DOMAIN to
Moved(from, to) == {id \in DOMAIN from \cap DOMAIN to : from[id].parent # to[id].parent}

\* merged holds every edit of some nodes that leads from one placement to
\* another, wherever the node has gone
Keeps(merged, from, to, ids) ==
    \A m \in {Placement(merged)} :
       /\ \A id \in ids \cap DOMAIN from, facet \in Facets : Changed(id, facet, from, to) =>
            id \in DOMAIN m /\ FacetOf(m[id].node, facet) = FacetOf(to[id].node, facet)
       /\ ids \cap Inserted(from, to) \subseteq DOMAIN m
       /\ ids \cap Removed(from, to) \cap DOMAIN m = {}
       /\ \A id \in ids \cap Moved(from, to) : id \in DOMAIN m /\ m[id].parent = to[id].parent

Places == Three(Versions, Placement)

\* The forks merge3 decides without seeing the disagreement: a node removed by
\* one branch and moved by the other, children given to a node that the other
\* branch turned into a kind that has none, and a node that is in a child list
\* of one version and in a single-node arm or a state block of another.
Overlooked ==
    \E p \in {Places} :
       \/ \E side, other \in Sides :
            \/ Removed(p.base, p[side]) \cap Moved(p.base, p[other]) # {}
            \/ \E id \in DOMAIN p.base \cap DOMAIN p.a \cap DOMAIN p.b :
                 /\ IsLayout(p.base[id].node) /\ ~IsLayout(p[side][id].node)
                 /\ KidIds(p[other][id].node) # KidIds(p.base[id].node)
       \/ \E u, w \in DOMAIN p : DOMAIN p[u] \cap (IdSet(Versions[w]) \ DOMAIN p[w]) # {}

-----------------------------------------------------------------------------
(* Properties.                                                             *)

\* A merge that succeeds keeps every edit, insertion, removal and move of both
\* branches.
NoEditIsLost ==
    \A merged \in {Merge3Way}, p \in {Places} :
        merged.ok => \A side \in Sides : Keeps(merged.tree, p.base, p[side], ToSet(IdsInOrder))

\* ... unless the branches disagree where merge3 does not look.
NoSeenEditIsLost == Overlooked \/ NoEditIsLost

IsUnreadable(c) == c.class = "UnencodableFacet"

\* Of two branches that do not encode, a cell reports the error met first, which
\* is the one of the branch named first.
Mirrors(c, d) ==
    /\ c.nodeId = d.nodeId /\ c.facet = d.facet /\ c.class = d.class
    /\ \/ c.a = d.b /\ c.b = d.a
       \/ IsUnreadable(c) /\ ~Encodes(left) /\ ~Encodes(right)

\* Swapping the branches transposes the two sides of every cell and changes
\* nothing else, the tree of a refused merge included; the error text in the
\* cells, and the tree, are spared where a branch does not encode.
MergeIsSymmetric ==
    \A one \in {Merge3Way}, other \in {MergeTrees([base |-> base, a |-> right, b |-> left], "none")} :
       /\ Len(other.cells) = Len(one.cells)
       /\ \A i \in DOMAIN one.cells : \E j \in DOMAIN other.cells :
            Mirrors(one.cells[i], other.cells[j])
       /\ (\A i \in DOMAIN one.cells : ~IsUnreadable(one.cells[i])) => other.tree = one.tree

\* (NodeID, Facet) is unique within one merge, so that SortCanonical totally
\* orders an envelope.
CellsAreDistinct ==
    \A cells \in {Merge3Way.cells} : \A i, j \in DOMAIN cells :
         cells[i].nodeId = cells[j].nodeId /\ cells[i].facet = cells[j].facet => i = j

\* The envelope of a conflict is the same from both branches' sides, and has one
\* reading.
EnvelopeIsCanonical == MergeIsSymmetric /\ CellsAreDistinct

SameMotion(from, to) ==
    \A id \in DOMAIN from \cap DOMAIN to : from[id].node.style.motion = to[id].node.style.motion

\* Two branches that did the same thing, or one that did nothing, merge into
\* the edited tree.  (A one-sided move is refused as contested when its
\* subtree was edited on the way, and an edit of motion is not carried over.)
AgreementMerges ==
    \A same \in {MergeTrees([base |-> base, a |-> left, b |-> left], "none")} :
       Encodes(base) /\ Encodes(left) /\ SameMotion(Placement(base), Placement(left))
         => same.ok /\ same.tree = left

UnchangedBranchYields ==
    \A one \in {MergeTrees([base |-> base, a |-> left, b |-> base], "none")},
       from \in {Placement(base)}, to \in {Placement(left)} :
       Encodes(base) /\ Encodes(left) /\ SameMotion(from, to)
       /\ (\A id \in Moved(from, to) : from[id].node = to[id].node)
         => one.ok /\ one.tree = left

\* Where nothing is contested a merge is the edited branch itself.
TrivialMergesYield == AgreementMerges /\ UnchangedBranchYields

\* A document comes out of documents: no id is held twice, unless both
\* branches brought the same new id to different places.
MergedIsADocument ==
    \A p \in {Places}, merged \in {Merge3Way} :
    LET twice == {id \in Inserted(p.base, p.a) \cap Inserted(p.base, p.b) :
                    p.a[id].parent # p.b[id].parent}
    IN merged.ok /\ UniqueIds(left) /\ UniqueIds(right) /\ twice = {} /\ ~Overlooked
         => UniqueIds(merged.tree)

\* a node and what any of the versions holds inside it
Within(id) == UNION {IdSet(FindNode(id, Versions[v])) :
                       v \in {u \in DOMAIN Versions : Holds(Versions[u], id)}}

\* the nodes at or inside those that cells of some kind name
Named(cells, Test(_)) == UNION {Within(cells[i].nodeId) : i \in {j \in DOMAIN cells : Test(cells[j])}}

\* The cells a pin does not decide although the envelope says it does: merge3
\* records them as held and goes on by the child lists, so that the secondary's
\* removal of a node, its move, or its node of the same new id can stand.
MovedAway(c) == c.facet = "move" /\ c.b # c.base
Undecided(c) ==
    \/ MovedAway(c)
    \/ c.class = "DeleteModify" /\ c.b = Gone
    \/ c.facet = "insert"

\* Under a pin nothing blocks but what cannot be read, and the primary's edits
\* are kept: its removals, but for what the secondary moves along, and
\* every edit, insertion and move of a node no undecided cell is about.
PrimaryWinsFacets ==
    \A pinned \in {MergeTrees(Versions, Pin("primary", "secondary"))}, p \in {Places} :
        /\ pinned.ok <=> \A i \in DOMAIN pinned.cells : ~IsUnreadable(pinned.cells[i])
        /\ pinned.ok /\ ~Overlooked =>
             /\ (Removed(p.base, p.a) \ Named(pinned.cells, MovedAway))
                  \cap DOMAIN Placement(pinned.tree) = {}
             /\ Keeps(pinned.tree, p.base, p.a, ToSet(IdsInOrder) \ Named(pinned.cells, Undecided))

ParentOf(n, id) == {p.id : p \in {q \in ToSet(NodesOf(n)) :
                                    \E c \in ToSet(ChildSlots(q)) : c.id = id}}
SameParents(n, o) == \A id \in IdSet(n) \cap IdSet(o) : ParentOf(n, id) = ParentOf(o, id)

\* (Two trees that do not encode have one encoding to diff, the empty one.)
Documents == \A n \in {left, right} : UniqueIds(n) /\ WithinLimits(n) /\ Encodes(n)

\* The round-trip law, Apply(Diff(a, b), a) == b, between two branches.
RoundTrip == Documents => Replay(Diff(left, right), left) = Done(right)

\* Where no node has changed parent the script reaches the other branch: as one
\* Batch always, and op by op when no document on the way can pass the node
\* limit, all of them holding ids of the two branches only.
RoundTripStaying ==
    Documents /\ SameParents(left, right) =>
      /\ Replay(DiffBatched(left, right), left) = Done(right)
      /\ Cardinality(IdSet(left) \cup IdSet(right)) <= MaxNodes => RoundTrip
=============================================================================
