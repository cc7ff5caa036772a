------------------------------ MODULE Timeline -----------------------------
(***************************************************************************)
(* What an edit history promises: a line of documents with a cursor on it. *)
(* An edit forgets what comes after the cursor and appends; at most        *)
(* Capacity documents stand before the cursor.  An edit that cannot be     *)
(* undone starts a new line.  Undo and redo only move the cursor.          *)
(***************************************************************************)
EXTENDS Integers, Sequences

CONSTANTS First, Capacity
VARIABLES line, at

LastOf(s, n) == IF Len(s) <= n THEN s ELSE SubSeq(s, Len(s) - n + 1, Len(s))

TInit == line = <<First>> /\ at = 1

Edit == LET d == line'[Len(line')]
        IN  /\ line' = LastOf(Append(SubSeq(line, 1, at), d), Capacity + 1)
            /\ at' = Len(line')
Restart == Len(line') = 1 /\ at' = 1
UndoMove == at > 1 /\ at' = at - 1 /\ line' = line
RedoMove == at < Len(line) /\ at' = at + 1 /\ line' = line

TNext == Edit \/ Restart \/ UndoMove \/ RedoMove
TSpec == TInit /\ [][TNext]_<<line, at>>
=============================================================================
