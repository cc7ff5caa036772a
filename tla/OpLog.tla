------------------------------- MODULE OpLog -------------------------------
(***************************************************************************)
(* What persisting to one op-stream promises, whatever the interleaving of *)
(* its writers: a call in flight either appends its op to the log in one   *)
(* atomic step, exactly once, or is lost; and a call may be lost only when *)
(* its op cannot be encoded, or at least LossNeeds[w] other ops reached    *)
(* the log while it was in flight.  OpStream (opstream/sink.go,            *)
(* opstream/replay.go) implements this.                                    *)
(***************************************************************************)
EXTENDS Integers, Sequences

CONSTANTS
    Writers,    \* goroutines that persist to the stream
    Ops,        \* op payloads
    NoOp,       \* "no call in flight" (no element of Ops)
    Unencodable,    \* the ops no record can hold
    LossNeeds   \* [Writers -> Nat]: landings of others that excuse a loss

VARIABLES
    log,        \* the landed ops, with their authors, in chain order
    pending,    \* [Writers -> Ops \cup {NoOp}]: the call in flight
    since       \* [Writers -> Nat]: length of the log when that call began

logVars == <<log, pending, since>>

LogEntry == [actor: Writers, op: Ops]

LogTypeOK ==
    /\ log \in Seq(LogEntry)
    /\ pending \in [Writers -> Ops \cup {NoOp}]
    /\ since \in [Writers -> Nat]

LogInit ==
    /\ log = <<>>
    /\ pending = [w \in Writers |-> NoOp]
    /\ since = [w \in Writers |-> 0]

Call(w, op) ==
    /\ pending[w] = NoOp
    /\ pending' = [pending EXCEPT ![w] = op]
    /\ since' = [since EXCEPT ![w] = Len(log)]
    /\ UNCHANGED log

Land(w) ==
    /\ pending[w] \notin Unencodable \cup {NoOp}
    /\ log' = Append(log, [actor |-> w, op |-> pending[w]])
    /\ pending' = [pending EXCEPT ![w] = NoOp]
    /\ UNCHANGED since

Lose(w) ==
    /\ pending[w] # NoOp
    /\ pending[w] \in Unencodable \/ Len(log) >= since[w] + LossNeeds[w]
    /\ pending' = [pending EXCEPT ![w] = NoOp]
    /\ UNCHANGED <<log, since>>

LogNext ==
    \E w \in Writers :
        \/ \E op \in Ops : Call(w, op)
        \/ Land(w)
        \/ Lose(w)

LogSpec ==
    /\ LogInit
    /\ [][LogNext]_logVars
    /\ \A w \in Writers : WF_logVars(Land(w) \/ Lose(w))
=============================================================================
