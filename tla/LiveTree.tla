------------------------------ MODULE LiveTree ------------------------------
(***************************************************************************)
(* What a server-driven connection promises its client: the client sees    *)
(* the successive trees of the server one by one, in order, skipping and   *)
(* repeating none, unless it is re-seeded with the current one; and a      *)
(* client that stays reachable sees the last one.  Connection implements   *)
(* this (serverdriven/connection.go, docs/SERVER-DRIVEN.md).               *)
(***************************************************************************)
EXTENDS Integers, Sequences

CONSTANT Trees  \* the trees a server may hold

VARIABLES
    history,    \* every tree the server has held, oldest first
    at,         \* which of them the client holds
    seen        \* the client's tree

liveVars == <<history, at, seen>>

LiveInit ==
    /\ Len(history) = 1
    /\ at = 1
    /\ seen = history[1]

Publish ==
    /\ \E t \in Trees : history' = Append(history, t)
    /\ UNCHANGED <<at, seen>>

See ==
    /\ at < Len(history)
    /\ at' = at + 1
    /\ seen' = history[at + 1]
    /\ UNCHANGED history

Reseeded ==
    /\ at' = Len(history)
    /\ seen' = history[Len(history)]
    /\ UNCHANGED history

LiveNext == Publish \/ See \/ Reseeded

LiveSpec == LiveInit /\ [][LiveNext]_liveVars

\* The client ends on the server's last tree.
CatchesUp == <>[](at = Len(history))
=============================================================================
