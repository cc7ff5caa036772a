----------------------------- MODULE Connection -----------------------------
(***************************************************************************)
(* serverdriven.Connection: one Session driven through one Channel, with   *)
(* the bounded replay buffer, and the client at the other end.             *)
(*                                                                         *)
(* Handle and Resync hold the connection's mutex from entry to return, so  *)
(* each is one step.  What the repository leaves to others is external and *)
(* taken from its documentation: the client (applies a frame's ops, skips  *)
(* a frame at or below its cursor), the transport (a FIFO that loses what  *)
(* is in flight when it breaks) and the host's reconnect handler, which    *)
(* attaches the new transport to the connection's channel and then calls   *)
(* Resync with the cursor the client presented.                            *)
(***************************************************************************)
EXTENDS Session

CONSTANTS
    BufferCap,          \* Connection.bufferCap (512 by default)
    EventNames,         \* event names clients send
    HandlerLists,       \* the op lists the host handler may return
    Projections,        \* the op lists WithRejectProjection may answer
    AtomicReattach,     \* the host lets no event in between attach and Resync
    MaxSeq,             \* bound: frames pushed
    MaxDrops            \* bound: transport drops

ASSUME ConnectionAssumption ==
    /\ BufferCap \in Nat \ {0}
    /\ \A list \in HandlerLists \cup Projections : list \in Seq(FrameOps)
    /\ AtomicReattach \in BOOLEAN
    /\ MaxSeq \in Nat
    /\ MaxDrops \in Nat

VARIABLES
    tree,       \* Session.tree
    seq,        \* Connection.seq
    buffer,     \* Connection.buffer
    outcome,    \* what the last step told the host (onReject, or the result)
    link,       \* "up", "down", or "attached": up again, Resync not yet called
    wire,       \* frames the transport holds for the client
    cursor,     \* the lastSeq the client presented when it reconnected
    clientTree, \* the client's copy of the tree
    lastSeq,    \* the sequence of the last frame the client applied
    drops,      \* transport drops so far
    history     \* history: the server's tree after each frame, from frame 0

serverVars == <<tree, seq, buffer, history>>
clientVars == <<clientTree, lastSeq>>
vars == <<tree, seq, buffer, outcome, link, wire, cursor, clientTree,
          lastSeq, drops, history>>

Events == [node: Nodes, event: EventNames]

Answers == {[did |-> d, ops |-> <<>>] : d \in {"panic", "error"}}
             \cup [did: {"ops"}, ops: HandlerLists]

-----------------------------------------------------------------------------
\* The host opens with any tree; one that gates has vetted it (AuditMounts).
Init ==
    /\ tree \in {t \in Trees : \A n \in t : ~Gated \/ Withheld(n) = {}}
    /\ seq = 0
    /\ buffer = <<>>
    /\ outcome = "none"
    /\ link = "up"
    /\ wire = <<>>
    /\ cursor = 0
    /\ clientTree = tree
    /\ lastSeq = 0
    /\ drops = 0
    /\ history = <<tree>>

\* A buffer that evicts one frame late.
BufferedLate(frame) ==
    IF Len(buffer) > BufferCap THEN Append(Tail(buffer), frame) ELSE Append(buffer, frame)

\* bufferFrame: the oldest frame is evicted at capacity
Buffered(frame) ==
    IF Len(buffer) >= BufferCap THEN Append(Tail(buffer), frame)
                                ELSE Append(buffer, frame)

\* channel.Push: a broken transport returns an error, which the closure
\* NewConnection registers drops
Pushed(frames) == IF link = "down" THEN wire ELSE wire \o frames

\* pushOps: the sequence, the buffer and the push, in that order
PushOps(list) ==
    LET frame == [seq |-> seq + 1, ops |-> list]
    IN /\ seq < MaxSeq
       /\ seq' = seq + 1
       /\ buffer' = Buffered(frame)
       /\ wire' = Pushed(<<frame>>)
       /\ history' = Append(history, tree')

NoPush == UNCHANGED <<seq, buffer, wire, history>>

-----------------------------------------------------------------------------
(* Handle.  A client may send any event: from a stale tree, or forged.     *)

HandleApplied(ev, answer) ==
    /\ Verdict(tree, ev, answer) = "applied"
    /\ outcome' = "applied"
    /\ IF answer.ops = <<>>
         THEN UNCHANGED tree /\ NoPush
         ELSE tree' = ApplyAll(tree, answer.ops) /\ PushOps(answer.ops)

\* A step that keeps the ops it applied before the one that failed.
HandleRejectedPartly(ev, answer) ==
    /\ Verdict(tree, ev, answer) \in RejectReasons
    /\ outcome' = Verdict(tree, ev, answer)
    /\ tree' = IF outcome' = "DispatchDenied" /\ answer.ops # <<>>
                 THEN ApplyAll(tree, <<Head(answer.ops)>>) ELSE tree
    /\ NoPush

HandleRejected(ev, answer) ==
    /\ Verdict(tree, ev, answer) \in RejectReasons
    /\ outcome' = Verdict(tree, ev, answer)
    /\ UNCHANGED tree
    /\ \E list \in Projections \cup {<<>>} :
         IF list = <<>> THEN NoPush ELSE PushOps(list)

Handle ==
    /\ ~(AtomicReattach /\ link = "attached")
    /\ \E ev \in Events, answer \in Answers :
         HandleApplied(ev, answer) \/ HandleRejected(ev, answer)
    /\ UNCHANGED <<link, cursor, clientVars, drops>>

\* Resync's loop over the buffer: the frames newer than a cursor, in order
NewerFrames(frames, after) ==
    LET upTo[i \in 0 .. Len(frames)] ==
            IF i = 0 THEN <<>>
            ELSE IF frames[i].seq > after THEN Append(upTo[i - 1], frames[i])
                                          ELSE upTo[i - 1]
    IN  upTo[Len(frames)]

\* Off by one at either end of the replay.
ResyncSkippingFirst ==
    /\ link = "attached"
    /\ wire' = wire \o NewerFrames(buffer, cursor + 1)
    /\ link' = "up"
    /\ outcome' = "none"
    /\ UNCHANGED <<serverVars, cursor, clientVars, drops>>

ResyncStoppingShort ==
    /\ link = "attached"
    /\ wire' = wire \o NewerFrames(SubSeq(buffer, 1, Len(buffer) - 1), cursor)
    /\ link' = "up"
    /\ outcome' = "none"
    /\ UNCHANGED <<serverVars, cursor, clientVars, drops>>

\* Resync(lastSeq): every retained frame newer than the cursor is pushed
\* again, up to the first push error.
Resync ==
    /\ link = "attached"
    /\ wire' = wire \o NewerFrames(buffer, cursor)
    /\ link' = "up"
    /\ outcome' = "none"
    /\ UNCHANGED <<serverVars, cursor, clientVars, drops>>

-----------------------------------------------------------------------------
(* The transport, the host's reconnect handler and the client.             *)

\* The transport breaks: what it had not delivered is gone.
Drop ==
    /\ link # "down"
    /\ drops < MaxDrops
    /\ drops' = drops + 1
    /\ link' = "down"
    /\ wire' = <<>>
    /\ outcome' = "none"
    /\ UNCHANGED <<serverVars, cursor, clientVars>>

\* The client's next frame is still retained, or there is none.
WithinWindow == lastSeq >= seq - Len(buffer)

\* The client reconnects with its cursor and the host attaches the transport.
Reconnect ==
    /\ link = "down"
    /\ WithinWindow
    /\ link' = "attached"
    /\ cursor' = lastSeq
    /\ outcome' = "none"
    /\ UNCHANGED <<serverVars, wire, clientVars, drops>>

\* A client from behind the retained window is re-seeded with a fresh tree.
Reseed ==
    /\ link = "down"
    /\ ~WithinWindow
    /\ link' = "up"
    /\ clientTree' = tree
    /\ lastSeq' = seq
    /\ outcome' = "none"
    /\ UNCHANGED <<serverVars, wire, cursor, drops>>

\* The client takes the next frame; an op that does not apply to its tree
\* leaves it where it was.
ClientApplies(frame) ==
    LET next == ApplyAll(clientTree, frame.ops)
    IN clientTree' = IF next = NoTree THEN clientTree ELSE next

ClientReceive ==
    /\ wire # <<>>
    /\ wire' = Tail(wire)
    /\ IF Head(wire).seq <= lastSeq
         THEN UNCHANGED clientVars
         ELSE ClientApplies(Head(wire)) /\ lastSeq' = Head(wire).seq
    /\ outcome' = "none"
    /\ UNCHANGED <<serverVars, link, cursor, drops>>

Next == Handle \/ Resync \/ Drop \/ Reconnect \/ Reseed \/ ClientReceive

\* A connected client keeps reading, a disconnected one keeps retrying, and
\* the host's reconnect handler runs to its end.
Fairness ==
    /\ WF_vars(ClientReceive)
    /\ WF_vars(Reconnect \/ Reseed)
    /\ WF_vars(Resync)

Spec == Init /\ [][Next]_vars /\ Fairness

-----------------------------------------------------------------------------
(* Properties.                                                             *)

Frame == [seq: Nat \ {0}, ops: Seq(UNION {ToSet(l) : l \in HandlerLists \cup Projections})]

\* The replay buffer is exactly the newest min(seq, BufferCap) frames, without
\* a hole, whatever pushes failed: a cursor inside the window misses nothing
\* (bufferFrame, Resync).
RetainedWindow ==
    /\ Len(buffer) = IF seq < BufferCap THEN seq ELSE BufferCap
    /\ \A i \in DOMAIN buffer : buffer[i].seq = seq - Len(buffer) + i

\* Without a reject projection every change of the server's tree is one frame,
\* and replaying a retained frame over the tree it was made for gives the tree
\* that followed it: the buffer and the session never drift apart.
FramesReproduceTrees ==
    /\ Len(history) = seq + 1
    /\ tree = history[seq + 1]
    /\ \A i \in DOMAIN buffer :
         ApplyAll(history[buffer[i].seq], buffer[i].ops) = history[buffer[i].seq + 1]

\* With the gate on, no answer of the handler brings a Mount with an ungranted
\* capability into the server's tree or, through a frame, into the client's
\* (opMissingCapabilities in serverdriven/gate.go): not alone, not in a Batch,
\* not in a new root.
NoUngrantedMount ==
    Gated => \A n \in tree \cup clientTree : Withheld(n) = {}

\* The client walks the server's trees one by one, across transport drops,
\* lost pushes and replays (docs/SERVER-DRIVEN.md, "Reconnects").
Live == INSTANCE LiveTree WITH at <- lastSeq + 1, seen <- clientTree

ImplementsLiveTree == Live!LiveSpec

\* Once drops and events stop, the client ends on the server's last tree: no
\* frame stays behind for good.
ClientCatchesUp == Live!CatchesUp

=============================================================================
