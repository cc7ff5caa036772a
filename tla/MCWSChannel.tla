---------------------------- MODULE MCWSChannel ----------------------------
(* Small instances of WSChannel.                                           *)
EXTENDS WSChannel

CONSTANTS h1, h2, k

Sent(opcode, size) == [fin |-> TRUE, opcode |-> opcode, size |-> size, masked |-> TRUE]

\* An event, a ping, a pong, a close, and a frame refused on each ground.
ClientFrames ==
    {Sent("text", "message"), Sent("ping", "control"), Sent("pong", "control"),
     Sent("close", "control"), Sent("ping", "message"), Sent("text", "oversize"),
     [Sent("text", "message") EXCEPT !.fin = FALSE],
     [Sent("text", "message") EXCEPT !.masked = FALSE]}
=============================================================================
