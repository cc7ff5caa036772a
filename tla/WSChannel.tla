------------------------------ MODULE WSChannel ------------------------------
(***************************************************************************)
(* serverdriven.WSChannel: the WebSocket transport's goroutines over one   *)
(* stream and one write mutex.                                             *)
(*                                                                         *)
(* ListenContext's read loop, its ping loop and its cancellation goroutine *)
(* run beside host goroutines that push frames and close the channel.  A   *)
(* frame is two writes, header and payload.  A write blocks while the peer *)
(* is stalled (its window and the socket buffers are full): the channel    *)
(* sets a read deadline and no write deadline.                             *)
(***************************************************************************)
EXTENDS Integers

CONSTANTS
    Pushers,        \* host goroutines that call Push
    Closers,        \* host goroutines that call Close
    NoOne,          \* nobody
    Frames,         \* the frames a client may send
    HasDeadline,    \* readTimeout > 0
    MaxPushes,      \* bound: frames each pusher pushes
    MaxInbound,     \* bound: frames the client sends
    MaxPings,       \* bound: ticks of the ping loop
    MaxStalls       \* bound: times the peer stops reading

Tasks == {"loop", "ping", "cancel"}
Procs == Tasks \cup Pushers \cup Closers

\* a client frame, as far as readFrame looks at it
Frame == [fin: BOOLEAN, opcode: {"text", "ping", "pong", "close", "other"},
          size: {"control", "message", "oversize"}, masked: BOOLEAN]

ASSUME ChannelAssumption ==
    /\ Pushers \cap Closers = {} /\ (Pushers \cup Closers) \cap Tasks = {}
    /\ NoOne \notin Procs
    /\ Frames \subseteq Frame /\ HasDeadline \in BOOLEAN
    /\ MaxPushes \in Nat /\ MaxInbound \in Nat /\ MaxPings \in Nat /\ MaxStalls \in Nat

VARIABLES
    mu,         \* the holder of writeMu, or NoOne
    closed,     \* WSChannel.closed
    stream,     \* the underlying stream: "open" or "closed"
    peer,       \* "reading", "stalled" or "gone"
    cancelled,  \* the context is cancelled
    pc,         \* [Procs -> where each goroutine is]
    job,        \* [Procs -> the opcode of the frame it is writing]
    unfinished, \* whose frame has its header on the wire and not its payload
    pushes, inbound, pings, stalls  \* counters for the bounds

wireVars == <<stream, peer, unfinished>>
counters == <<pushes, inbound, pings, stalls>>
vars == <<mu, closed, stream, peer, cancelled, pc, job, unfinished, counters>>

-----------------------------------------------------------------------------
(* readFrame: its refusals, in the order it makes them.                    *)

IsControl(f) == f.opcode \in {"ping", "pong", "close"}

ReadFrame(f) ==
    IF ~f.fin THEN "protocol error"
    ELSE IF IsControl(f) /\ f.size # "control" THEN "protocol error"
    ELSE IF ~f.masked THEN "protocol error"
    ELSE IF f.size = "oversize" THEN "too big"
    ELSE f.opcode

-----------------------------------------------------------------------------
Init ==
    /\ mu = NoOne
    /\ closed = FALSE
    /\ stream = "open"
    /\ peer = "reading"
    /\ cancelled = FALSE
    /\ pc = [p \in Procs |-> CASE p = "loop" -> "read"
                               [] p = "ping" -> "tick"
                               [] p = "cancel" -> "select"
                               [] OTHER -> "idle"]
    /\ job = [p \in Procs |-> "none"]
    /\ unfinished = NoOne
    /\ pushes = [p \in Pushers |-> 0]
    /\ inbound = 0
    /\ pings = 0
    /\ stalls = 0

GoTo(p, label) == pc' = [pc EXCEPT ![p] = label]

\* p is to write a frame: first it needs the mutex.
WantsToWrite(p, opcode) ==
    /\ GoTo(p, "lock")
    /\ job' = [job EXCEPT ![p] = opcode]

\* where p goes on once its frame is written, refused or failed
Back(p) ==
    CASE p = "loop" -> IF job[p] = "close" THEN "returned" ELSE "read"
      [] p = "ping" -> "tick"
      [] OTHER -> "idle"

-----------------------------------------------------------------------------
(* Writing a frame under the mutex.                                        *)

\* Push and the ping loop look at closed under the lock, a pong reply and a
\* close frame do not.
Refused(p) == closed /\ job[p] \in {"text", "ping"}

\* A pong written without the mutex.
LockWriteUnlessPong(p) ==
    /\ pc[p] = "lock"
    /\ mu = NoOne \/ job[p] = "pong"
    /\ IF Refused(p)
         THEN /\ GoTo(p, IF p = "ping" THEN "ended" ELSE Back(p))
              /\ UNCHANGED mu
         ELSE GoTo(p, "header") /\ mu' = IF job[p] = "pong" THEN mu ELSE p
    /\ UNCHANGED <<closed, wireVars, cancelled, job, counters>>

LockWrite(p) ==
    /\ pc[p] = "lock"
    /\ mu = NoOne
    /\ IF Refused(p)
         THEN /\ GoTo(p, IF p = "ping" THEN "ended" ELSE Back(p))
              /\ UNCHANGED mu
         ELSE GoTo(p, "header") /\ mu' = p
    /\ UNCHANGED <<closed, wireVars, cancelled, job, counters>>

Flows == stream = "open" /\ peer = "reading"
Broken == stream = "closed" \/ peer = "gone"

WriteHeader(p) ==
    /\ pc[p] = "header"
    /\ Flows
    /\ GoTo(p, "payload")
    /\ unfinished' = p
    /\ UNCHANGED <<mu, closed, stream, peer, cancelled, job, counters>>

WritePayload(p) ==
    /\ pc[p] = "payload"
    /\ Flows
    /\ GoTo(p, Back(p))
    /\ unfinished' = NoOne
    /\ mu' = NoOne
    /\ UNCHANGED <<closed, stream, peer, cancelled, job, counters>>

\* The sink hears of a failed pong; as host code it may close the channel, or
\* panic into ListenAndRecover.
AfterFailure(p) ==
    IF p = "loop" /\ job[p] = "pong" THEN {"read", "closing", "returned"} ELSE {Back(p)}

\* A failed write that leaves the mutex locked.
WriteFailsLocked(p) ==
    /\ pc[p] \in {"header", "payload"}
    /\ Broken
    /\ \E label \in AfterFailure(p) : GoTo(p, label)
    /\ UNCHANGED <<mu, closed, wireVars, cancelled, job, counters>>

WriteFails(p) ==
    /\ pc[p] \in {"header", "payload"}
    /\ Broken
    /\ \E label \in AfterFailure(p) : GoTo(p, label)
    /\ mu' = NoOne
    /\ UNCHANGED <<closed, wireVars, cancelled, job, counters>>

-----------------------------------------------------------------------------
(* Close: the flag under the mutex, then the stream.                       *)

AfterClose(p) ==
    CASE p = "loop" -> "read" [] p = "cancel" -> "ended" [] OTHER -> "idle"

\* The flag set without the mutex, and a close that is only the flag.
SetClosedUnlocked(p) ==
    /\ pc[p] = "closing"
    /\ closed' = TRUE
    /\ GoTo(p, IF closed THEN AfterClose(p) ELSE "closeStream")
    /\ UNCHANGED <<mu, wireVars, cancelled, job, counters>>

SetClosedOnly(p) ==
    /\ pc[p] = "closing"
    /\ mu = NoOne
    /\ closed' = TRUE
    /\ GoTo(p, AfterClose(p))
    /\ UNCHANGED <<mu, wireVars, cancelled, job, counters>>

SetClosed(p) ==
    /\ pc[p] = "closing"
    /\ mu = NoOne
    /\ closed' = TRUE
    /\ GoTo(p, IF closed THEN AfterClose(p) ELSE "closeStream")
    /\ UNCHANGED <<mu, wireVars, cancelled, job, counters>>

CloseStream(p) ==
    /\ pc[p] = "closeStream"
    /\ stream' = "closed"
    /\ GoTo(p, AfterClose(p))
    /\ UNCHANGED <<mu, closed, peer, cancelled, job, unfinished, counters>>

-----------------------------------------------------------------------------
(* The read loop.                                                          *)

\* A frame arrives, or is still in the reader's buffer when the stream or the
\* peer is gone: the loop answers it, hands it on, or hangs up.
Receive ==
    /\ pc["loop"] = "read"
    /\ inbound < MaxInbound
    /\ inbound' = inbound + 1
    /\ \E f \in Frames :
         CASE ReadFrame(f) \in {"protocol error", "too big"} -> WantsToWrite("loop", "close")
           [] ReadFrame(f) = "close" -> GoTo("loop", "returned") /\ UNCHANGED job
           [] ReadFrame(f) = "ping" -> WantsToWrite("loop", "pong")
           [] ReadFrame(f) = "text" -> GoTo("loop", "decode") /\ UNCHANGED job
           [] ReadFrame(f) \in {"pong", "other"} -> UNCHANGED <<pc, job>>
    /\ UNCHANGED <<mu, closed, wireVars, cancelled, pushes, pings, stalls>>

\* An event goes to the host's handler, which may push; or it does not decode
\* and the drop sink hears of it, which may close the channel; or either
\* panics, and ListenAndRecover returns.
Deliver ==
    /\ pc["loop"] = "decode"
    /\ \/ WantsToWrite("loop", "text")
       \/ \E label \in {"read", "closing", "returned"} : GoTo("loop", label) /\ UNCHANGED job
    /\ UNCHANGED <<mu, closed, wireVars, cancelled, counters>>

\* The stream fails or ends, or the deadline passes with nothing read.
ReadFails ==
    /\ pc["loop"] = "read"
    /\ Broken \/ HasDeadline
    /\ GoTo("loop", "returned")
    /\ UNCHANGED <<mu, closed, wireVars, cancelled, job, counters>>

-----------------------------------------------------------------------------
(* The loop's two companions: each also waits for the loop to return.      *)

Tick ==
    /\ pc["ping"] = "tick"
    /\ pings < MaxPings
    /\ pings' = pings + 1
    /\ WantsToWrite("ping", "ping")
    /\ UNCHANGED <<mu, closed, wireVars, cancelled, pushes, inbound, stalls>>

OnCancel ==
    /\ pc["cancel"] = "select"
    /\ cancelled
    /\ GoTo("cancel", "closing")
    /\ UNCHANGED <<mu, closed, wireVars, cancelled, job, counters>>

OnDone(p) ==
    /\ pc[p] \in {"select", "tick"}
    /\ pc["loop"] = "returned"
    /\ GoTo(p, "ended")
    /\ UNCHANGED <<mu, closed, wireVars, cancelled, job, counters>>

-----------------------------------------------------------------------------
(* The host and the peer.                                                  *)

Push(p) ==
    /\ pc[p] = "idle"
    /\ pushes[p] < MaxPushes
    /\ pushes' = [pushes EXCEPT ![p] = @ + 1]
    /\ WantsToWrite(p, "text")
    /\ UNCHANGED <<mu, closed, wireVars, cancelled, inbound, pings, stalls>>

Close(p) ==
    /\ pc[p] = "idle"
    /\ GoTo(p, "closing")
    /\ UNCHANGED <<mu, closed, wireVars, cancelled, job, counters>>

CancelContext ==
    /\ ~cancelled
    /\ cancelled' = TRUE
    /\ UNCHANGED <<mu, closed, wireVars, pc, job, counters>>

PeerStalls ==
    /\ peer = "reading"
    /\ stalls < MaxStalls
    /\ stalls' = stalls + 1
    /\ peer' = "stalled"
    /\ UNCHANGED <<mu, closed, stream, cancelled, pc, job, unfinished, pushes, inbound, pings>>

PeerResumes ==
    /\ peer = "stalled"
    /\ peer' = "reading"
    /\ UNCHANGED <<mu, closed, stream, cancelled, pc, job, unfinished, counters>>

PeerHangsUp ==
    /\ peer # "gone"
    /\ peer' = "gone"
    /\ UNCHANGED <<mu, closed, stream, cancelled, pc, job, unfinished, counters>>

-----------------------------------------------------------------------------
\* What a goroutine inside a call does next.
Proceed(p) ==
    \/ LockWrite(p) \/ WriteHeader(p) \/ WritePayload(p) \/ WriteFails(p)
    \/ SetClosed(p) \/ CloseStream(p)

LoopStep == Receive \/ Deliver \/ ReadFails
PeerStep == PeerStalls \/ PeerResumes \/ PeerHangsUp

Next ==
    \/ \E p \in Procs : Proceed(p)
    \/ LoopStep
    \/ Tick \/ OnCancel \/ OnDone("ping") \/ OnDone("cancel")
    \/ \E p \in Pushers : Push(p)
    \/ \E p \in Closers : Close(p)
    \/ CancelContext
    \/ PeerStep

\* Every goroutine inside a call is scheduled.  Clients, hosts and tickers
\* owe nothing: they may send, push, close and tick, or not.
Scheduled ==
    /\ \A p \in Procs \ {"loop"} : WF_vars(Proceed(p))
    /\ WF_vars(Proceed("loop") \/ Deliver \/ ReadFails)
    /\ WF_vars(OnCancel \/ OnDone("cancel")) /\ WF_vars(OnDone("ping"))

\* A peer may stall for good ...
Spec == Init /\ [][Next]_vars /\ Scheduled

\* ... or is only slow, and reads again.
SlowPeerSpec == Spec /\ WF_vars(PeerResumes)

-----------------------------------------------------------------------------
(* Properties.                                                             *)

Labels == {"idle", "lock", "header", "payload", "closing", "closeStream",
           "read", "decode", "returned", "tick", "select", "ended"}

\* Every variable keeps its type, and the mutex is held exactly from a frame's
\* first write to its last, by the goroutine that writes it.
TypeOK ==
    /\ mu \in Procs \cup {NoOne}
    /\ closed \in BOOLEAN
    /\ stream \in {"open", "closed"}
    /\ peer \in {"reading", "stalled", "gone"}
    /\ cancelled \in BOOLEAN
    /\ pc \in [Procs -> Labels]
    /\ job \in [Procs -> {"none", "text", "ping", "pong", "close"}]
    /\ unfinished \in Procs \cup {NoOne}
    /\ \A p \in Procs : mu = p <=> pc[p] \in {"header", "payload"}
    /\ pushes \in [Pushers -> Nat]
    /\ inbound \in Nat /\ pings \in Nat /\ stalls \in Nat

\* Frames never interleave: while a frame's payload is missing nobody starts
\* another, though pushes, pings, pongs and the close frame come from four
\* goroutines.
FramesStayWhole ==
    [][\A p \in Procs : unfinished = p /\ unfinished' # p => unfinished' = NoOne]_vars

\* Close lets the frame being written finish and no later one begin: neither a
\* push nor a ping ever writes on a channel marked closed.
NoFrameOnceClosed ==
    \A p \in Procs : pc[p] \in {"header", "payload"} /\ job[p] \in {"text", "ping"} => ~closed

\* Cancelling the context ends the read loop (ListenContext).
CancelEndsLoop == cancelled ~> pc["loop"] = "returned"

\* The loop's goroutines do not outlive it.
NoGoroutineLeft ==
    pc["loop"] = "returned" ~> pc["ping"] = "ended" /\ pc["cancel"] = "ended"

\* No Push and no Close is left waiting for the mutex.
HostCallsReturn == \A p \in Pushers \cup Closers : pc[p] # "idle" ~> pc[p] = "idle"

\* Nothing the channel starts is left behind: neither its own goroutines nor the
\* calls of its host.
NothingIsLeftBehind == NoGoroutineLeft /\ HostCallsReturn
=============================================================================
