--------------------------- MODULE WSChannelProofs ---------------------------
(***************************************************************************)
(* Mutual exclusion on the stream, for any number of pushing and closing   *)
(* goroutines, frames and stalls.                                          *)
(***************************************************************************)
EXTENDS WSChannel, TLAPS

\* A frame cut short belongs to the goroutine still writing it, or the stream
\* is gone for good.
CutShort == unfinished # NoOne => pc[unfinished] = "payload" \/ Broken

\* The inductive invariant.
WriteInv == TypeOK /\ CutShort /\ NoFrameOnceClosed

Writing == {"header", "payload"}

-----------------------------------------------------------------------------
\* The start: nobody writes, nothing is cut short.
LEMMA InitWrites == Init => WriteInv
<1> SUFFICES ASSUME Init PROVE WriteInv
  OBVIOUS
<1>1. pc \in [Procs -> Labels] /\ \A p \in Procs : pc[p] \notin Writing
  BY DEF Init, Labels, Writing
<1>2. TypeOK
  BY <1>1, ChannelAssumption DEF Init, TypeOK, Writing
<1>3. CutShort /\ NoFrameOnceClosed
  BY <1>1 DEF Init, CutShort, NoFrameOnceClosed, Writing
<1> QED
  BY <1>2, <1>3 DEF WriteInv

\* A step that only moves the goroutines that are not writing.
LEMMA MovesOutside ==
    ASSUME WriteInv,
           pc' \in [Procs -> Labels],
           \A q \in Procs : IF pc[q] \in Writing THEN pc'[q] = pc[q] /\ job'[q] = job[q]
                                                 ELSE pc'[q] \notin Writing,
           UNCHANGED <<mu, closed, unfinished>>, Broken => Broken'
    PROVE  /\ \A q \in Procs : mu' = q <=> pc'[q] \in Writing
           /\ CutShort' /\ NoFrameOnceClosed'
<1>1. \A q \in Procs : mu' = q <=> pc'[q] \in Writing
  BY DEF WriteInv, TypeOK, Writing
<1>2. CutShort'
  BY DEF WriteInv, TypeOK, CutShort, Writing
<1>3. NoFrameOnceClosed'
  BY DEF WriteInv, NoFrameOnceClosed, Writing
<1> QED
  BY <1>1, <1>2, <1>3

-----------------------------------------------------------------------------
\* The critical section, one lemma per step of it.
LEMMA LockKeeps == ASSUME WriteInv, NEW p \in Procs, LockWrite(p) PROVE WriteInv'
<1> USE DEF WriteInv, LockWrite, GoTo, wireVars, counters
<1>1. TypeOK'
  <2>1. Back(p) \in {"returned", "read", "tick", "idle"}
    BY DEF Back
  <2>2. pc' \in [Procs -> Labels]
    BY <2>1 DEF TypeOK, Labels
  <2>3. \A q \in Procs : mu' = q <=> pc'[q] \in {"header", "payload"}
    BY <2>1, ChannelAssumption DEF TypeOK
  <2> QED
    BY <2>2, <2>3 DEF TypeOK
<1>2. CutShort'
  BY DEF TypeOK, CutShort, Broken
<1>3. NoFrameOnceClosed'
  <2>1. Back(p) \in {"returned", "read", "tick", "idle"}
    BY DEF Back
  <2> QED
    BY <2>1 DEF TypeOK, NoFrameOnceClosed, Refused
<1> QED
  BY <1>1, <1>2, <1>3

LEMMA HeaderKeeps == ASSUME WriteInv, NEW p \in Procs, WriteHeader(p) PROVE WriteInv'
<1> USE DEF WriteInv, WriteHeader, GoTo, counters
<1>1. TypeOK'
  BY DEF TypeOK, Labels
<1>2. CutShort'
  BY DEF TypeOK, CutShort
<1>3. NoFrameOnceClosed'
  BY DEF TypeOK, NoFrameOnceClosed
<1> QED
  BY <1>1, <1>2, <1>3

LEMMA PayloadKeeps == ASSUME WriteInv, NEW p \in Procs, WritePayload(p) PROVE WriteInv'
<1> USE DEF WriteInv, WritePayload, GoTo, counters
<1>1. Back(p) \in {"returned", "read", "tick", "idle"}
  BY DEF Back
<1>2. TypeOK'
  BY <1>1, ChannelAssumption DEF TypeOK, Labels
<1>3. CutShort'
  BY DEF TypeOK, CutShort
<1>4. NoFrameOnceClosed'
  BY <1>1 DEF TypeOK, NoFrameOnceClosed
<1> QED
  BY <1>2, <1>3, <1>4

LEMMA FailureKeeps == ASSUME WriteInv, NEW p \in Procs, WriteFails(p) PROVE WriteInv'
<1> USE DEF WriteInv, WriteFails, GoTo, wireVars, counters
<1>1. AfterFailure(p) \subseteq {"returned", "read", "closing", "tick", "idle"}
  BY DEF Back, AfterFailure
<1>2. TypeOK'
  BY <1>1, ChannelAssumption DEF TypeOK, Labels
<1>3. CutShort'
  BY DEF TypeOK, CutShort, Broken
<1>4. NoFrameOnceClosed'
  BY <1>1 DEF TypeOK, NoFrameOnceClosed
<1> QED
  BY <1>2, <1>3, <1>4

LEMMA SetClosedKeeps == ASSUME WriteInv, NEW p \in Procs, SetClosed(p) PROVE WriteInv'
<1> USE DEF WriteInv, SetClosed, GoTo, wireVars, counters
<1>1. AfterClose(p) \in {"read", "ended", "idle"}
  BY DEF AfterClose
<1>2. TypeOK'
  BY <1>1, ChannelAssumption DEF TypeOK, Labels
<1>3. CutShort'
  BY <1>1 DEF TypeOK, CutShort, Broken
<1>4. NoFrameOnceClosed'
  BY <1>1, ChannelAssumption DEF TypeOK, NoFrameOnceClosed
<1> QED
  BY <1>2, <1>3, <1>4

-----------------------------------------------------------------------------
\* Every other step leaves mutex, flag and frame alone.
LEMMA OtherKeeps ==
    ASSUME WriteInv,
           \/ \E p \in Procs : CloseStream(p)
           \/ LoopStep \/ Tick \/ OnCancel \/ OnDone("ping") \/ OnDone("cancel")
           \/ \E p \in Pushers : Push(p)
           \/ \E p \in Closers : Close(p)
           \/ CancelContext \/ PeerStep
    PROVE  WriteInv'
<1> DEFINE Outside == /\ pc' \in [Procs -> Labels]
                      /\ \A q \in Procs : IF pc[q] \in Writing
                                            THEN pc'[q] = pc[q] /\ job'[q] = job[q]
                                            ELSE pc'[q] \notin Writing
                      /\ job' \in [Procs -> {"none", "text", "ping", "pong", "close"}]
                      /\ UNCHANGED <<mu, closed, unfinished>>
                      /\ Broken => Broken'
           Typed == /\ stream' \in {"open", "closed"} /\ peer' \in {"reading", "stalled", "gone"}
                    /\ cancelled' \in BOOLEAN /\ pushes' \in [Pushers -> Nat]
                    /\ inbound' \in Nat /\ pings' \in Nat /\ stalls' \in Nat
<1>0. {"loop", "ping", "cancel"} \subseteq Procs /\ Pushers \subseteq Procs /\ Closers \subseteq Procs
  BY DEF Procs, Tasks
<1> USE DEF WriteInv, TypeOK, Labels, Writing, GoTo, WantsToWrite, wireVars, counters, Broken
<1>1. ASSUME NEW p \in Procs, CloseStream(p) PROVE Outside /\ Typed
  <2>1. AfterClose(p) \in {"read", "ended", "idle"}
    BY DEF AfterClose
  <2> QED
    BY <1>1, <2>1 DEF CloseStream
<1>2. ASSUME Receive PROVE Outside /\ Typed
  <2>1. PICK f \in Frames :
          \/ WantsToWrite("loop", "close") \/ WantsToWrite("loop", "pong")
          \/ \E label \in {"returned", "decode"} : GoTo("loop", label) /\ UNCHANGED job
          \/ UNCHANGED <<pc, job>>
    <3>1. \A f \in Frames : ReadFrame(f) \in {"protocol error", "too big", "text", "ping",
                                              "pong", "close", "other"}
      BY ChannelAssumption DEF ReadFrame, Frame
    <3> QED
      BY <1>2, <3>1 DEF Receive
  <2>2. pc["loop"] = "read" /\ inbound' = inbound + 1
        /\ UNCHANGED <<mu, closed, wireVars, cancelled, pushes, pings, stalls>>
    BY <1>2 DEF Receive
  <2> QED
    BY <1>0, <2>1, <2>2
<1>3. ASSUME Deliver PROVE Outside /\ Typed
  BY <1>0, <1>3 DEF Deliver
<1>4. ASSUME ReadFails PROVE Outside /\ Typed
  BY <1>0, <1>4 DEF ReadFails
<1>5. ASSUME Tick PROVE Outside /\ Typed
  BY <1>0, <1>5 DEF Tick
<1>6. ASSUME OnCancel PROVE Outside /\ Typed
  BY <1>0, <1>6 DEF OnCancel
<1>7. ASSUME OnDone("ping") \/ OnDone("cancel") PROVE Outside /\ Typed
  BY <1>0, <1>7 DEF OnDone
<1>8. ASSUME NEW p \in Pushers, Push(p) PROVE Outside /\ Typed
  BY <1>0, <1>8 DEF Push
<1>9. ASSUME NEW p \in Closers, Close(p) PROVE Outside /\ Typed
  BY <1>0, <1>9 DEF Close
<1>10. ASSUME CancelContext PROVE Outside /\ Typed
  BY <1>10 DEF CancelContext
<1>11. ASSUME PeerStalls PROVE Outside /\ Typed
  BY <1>11 DEF PeerStalls
<1>12. ASSUME PeerResumes \/ PeerHangsUp PROVE Outside /\ Typed
  BY <1>12 DEF PeerResumes, PeerHangsUp
<1>13. Outside /\ Typed
  BY <1>1, <1>2, <1>3, <1>4, <1>5, <1>6, <1>7, <1>8, <1>9, <1>10, <1>11, <1>12 DEF LoopStep, PeerStep
<1>14. (\A q \in Procs : mu' = q <=> pc'[q] \in Writing) /\ CutShort' /\ NoFrameOnceClosed'
  BY <1>13, MovesOutside
<1>15. TypeOK'
  BY <1>13, <1>14
<1> QED
  BY <1>14, <1>15

-----------------------------------------------------------------------------
\* The invariant holds throughout, whichever goroutines run and whatever the
\* peer does.
THEOREM WritesAreExclusive == Spec => []WriteInv
<1>1. WriteInv /\ [Next]_vars => WriteInv'
  <2> SUFFICES ASSUME WriteInv, [Next]_vars PROVE WriteInv'
    OBVIOUS
  <2>1. CASE UNCHANGED vars
    BY <2>1 DEF vars, counters, WriteInv, TypeOK, CutShort, NoFrameOnceClosed, Broken
  <2>2. CASE Next
    BY <2>2, LockKeeps, HeaderKeeps, PayloadKeeps, FailureKeeps, SetClosedKeeps, OtherKeeps
       DEF Next, Proceed
  <2> QED
    BY <2>1, <2>2
<1> QED
  BY <1>1, InitWrites, PTL DEF Spec

\* Once closed is set no push and no ping writes (Push, pingLoop, Close).
THEOREM QuietOnceClosed == Spec => []NoFrameOnceClosed
  BY WritesAreExclusive, PTL DEF WriteInv

\* While a frame's payload is missing nobody starts another: whatever pushes,
\* pongs, pings and close frames race, the client's parser is never broken by
\* two frames in one (writeFrame under writeMu).
THEOREM FramesAlwaysWhole == Spec => FramesStayWhole
<1>1. ASSUME WriteInv, [Next]_vars, NEW p \in Procs, unfinished = p, unfinished' # p
      PROVE  unfinished' = NoOne
  <2>1. CASE \E q \in Procs : WriteHeader(q)
    <3>1. PICK q \in Procs : WriteHeader(q)
      BY <2>1
    <3>2. unfinished' = q /\ pc[q] = "header" /\ Flows
      BY <3>1 DEF WriteHeader
    <3>3. pc[p] = "payload"
      BY <1>1, <3>2, ChannelAssumption DEF WriteInv, CutShort, Flows, Broken
    <3> QED
      BY <1>1, <3>2, <3>3 DEF WriteInv, TypeOK
  <2>2. CASE \E q \in Procs : WritePayload(q)
    BY <2>2 DEF WritePayload
  <2>3. CASE ~(\E q \in Procs : WriteHeader(q) \/ WritePayload(q))
    BY <1>1, <2>3 DEF Next, vars, counters, wireVars, Proceed, LockWrite, WriteFails, SetClosed,
       CloseStream, LoopStep, Receive, Deliver, ReadFails, Tick, OnCancel, OnDone, Push, Close,
       CancelContext, PeerStep, PeerStalls, PeerResumes, PeerHangsUp
  <2> QED
    BY <2>1, <2>2, <2>3
<1>2. WriteInv /\ [Next]_vars
        => [\A p \in Procs : unfinished = p /\ unfinished' # p => unfinished' = NoOne]_vars
  BY <1>1
<1> QED
  BY <1>2, WritesAreExclusive, PTL DEF Spec, FramesStayWhole
=============================================================================
