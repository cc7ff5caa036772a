-------------------------- MODULE ConnectionProofs --------------------------
(***************************************************************************)
(* Proofs about Connection, for any handler, any tree, any capacity and    *)
(* any number of frames and transport drops.  Where an argument is about   *)
(* the sequence, the buffer and the order of their updates, what an op     *)
(* does to a tree (ApplyAll) stays opaque; what it can do to the set of    *)
(* nodes is taken from the lemmas about the session, which come first.     *)
(***************************************************************************)
EXTENDS Connection, LoopProofs, SequenceTheorems

-----------------------------------------------------------------------------
(* What a frame's ops, simple or in a Batch, can do to the nodes of a      *)
(* tree, and what the gate sees of them (Session).                         *)

\* The results of ops that can be within a set of nodes.
ResultsIn(V) == {t \in Trees : t \subseteq V} \cup {NoTree}

\* The nodes that a simple op may add are among V.
AddsWithin(o, V) == o.tag # "RemoveNode" => o.nodes \subseteq V

\* The same for all the simple ops that an op of a frame holds.
FrameAddsWithin(list, V) ==
    \A i \in 1 .. Len(list) : \A j \in 1 .. Len(Flatten(list[i])) :
        AddsWithin(Flatten(list[i])[j], V)

\* ops.Apply of a simple op gives a tree or nothing, with no node but the
\* tree's own and those the op adds.
LEMMA SimpleResult ==
    ASSUME NEW V, NEW base \in ResultsIn(V), NEW o \in SimpleOps, AddsWithin(o, V)
    PROVE  ApplySimple(base, o) \in ResultsIn(V)
<1>1. CASE base = NoTree
  BY <1>1 DEF ApplySimple, ResultsIn
<1>2. CASE base # NoTree
  <2>1. base \in Trees /\ base \subseteq V
    BY <1>2 DEF ResultsIn
  <2>2. CASE o.tag = "InsertChild"
    <3>1. o.nodes \in SUBSET Nodes /\ o.nodes \subseteq V
      BY <2>2 DEF SimpleOps, Trees, AddsWithin
    <3>2. base \cup o.nodes \in Trees
      BY <2>1, <3>1 DEF Trees
    <3>3. ApplySimple(base, o) \in {base \cup o.nodes, NoTree}
      BY <1>2, <2>2 DEF ApplySimple
    <3>4. QED
      BY <2>1, <3>1, <3>2, <3>3 DEF ResultsIn
  <2>3. CASE o.tag = "RemoveNode"
    <3>1. o.nodes \subseteq base \ {Root} => base \ o.nodes \in Trees
      BY <2>1 DEF Trees
    <3>2. ApplySimple(base, o) = IF o.nodes \subseteq base \ {Root} THEN base \ o.nodes ELSE NoTree
      BY <1>2, <2>3 DEF ApplySimple
    <3>3. QED
      BY <2>1, <3>1, <3>2 DEF ResultsIn
  <2>4. CASE o.tag \in {"ReplaceRoot", "EditNode"}
    <3>1. o.nodes \in Trees /\ o.nodes \subseteq V
      BY <2>4 DEF SimpleOps, AddsWithin
    <3>2. ApplySimple(base, o) = o.nodes
      BY <1>2, <2>4 DEF ApplySimple
    <3>3. QED
      BY <3>1, <3>2 DEF ResultsIn
  <2>5. QED
    BY <2>2, <2>3, <2>4 DEF SimpleOps
<1>3. QED
  BY <1>1, <1>2

\* The loop over the simple ops of one op.
LEMMA EachResult ==
    ASSUME NEW V, NEW base \in ResultsIn(V), NEW list \in Seq(SimpleOps),
           \A j \in 1 .. Len(list) : AddsWithin(list[j], V)
    PROVE  ApplyEach(base, list) \in ResultsIn(V)
<1> DEFINE n == Len(list)
           step == [p \in (1 .. n) \X ResultsIn(V) |-> ApplySimple(p[2], list[p[1]])]
           Body(f) == [i \in 0 .. n |-> IF i = 0 THEN base ELSE ApplySimple(f[i - 1], list[i])]
           after == CHOOSE f : f = Body(f)
<1>1. n \in Nat
  BY LenProperties
<1>2. ASSUME NEW i \in 1 .. n, NEW t \in ResultsIn(V)
      PROVE  step[<<i, t>>] = ApplySimple(t, list[i]) /\ step[<<i, t>>] \in ResultsIn(V)
  <2>1. list[i] \in SimpleOps
    BY ElementOfSeq
  <2>2. QED
    BY <2>1, SimpleResult
<1>3. ApplyEach(base, list) = after[n]
  BY DEF ApplyEach
<1> HIDE DEF step, n
<1>4. PICK run \in [0 .. n -> ResultsIn(V)] : RunsFrom(run, n, base, step)
  BY <1>1, <1>2, LoopRuns DEF StaysIn
<1>5. run = Body(run)
  <2>1. ASSUME NEW i \in 0 .. n PROVE run[i] = Body(run)[i]
    <3>1. CASE i = 0
      BY <3>1, <1>4 DEF RunsFrom
    <3>2. CASE i # 0
      <4>1. i \in 1 .. n /\ i - 1 \in 0 .. n
        BY <1>1, <3>2
      <4>2. run[i] = step[<<i, run[i - 1]>>] /\ run[i - 1] \in ResultsIn(V)
        BY <4>1, <1>4 DEF RunsFrom
      <4>3. QED
        BY <3>2, <4>1, <4>2, <1>2
    <3>3. QED
      BY <3>1, <3>2
  <2>2. run = [i \in 0 .. n |-> run[i]]
    OBVIOUS
  <2>3. QED
    BY <2>1, <2>2
<1>6. after = Body(after)
  BY <1>5
<1> HIDE DEF after
<1> DEFINE T == {i \in 0 .. n : after[i] \in ResultsIn(V)}
<1>7. 0 \in T
  BY <1>1, <1>6
<1>8. ASSUME NEW i \in 1 .. n, i - 1 \in T PROVE i \in T
  <2>1. i # 0 /\ i \in 0 .. n
    BY <1>1
  <2>2. Body(after)[i] = ApplySimple(after[i - 1], list[i])
    BY <2>1
  <2> HIDE DEF Body
  <2>3. after[i] = ApplySimple(after[i - 1], list[i])
    BY <1>6, <2>2
  <2>4. list[i] \in SimpleOps /\ AddsWithin(list[i], V)
    BY ElementOfSeq DEF n
  <2>5. QED
    BY <1>8, <2>1, <2>3, <2>4, SimpleResult
<1>9. \A i \in 0 .. n : i \in T
  <2> HIDE DEF T
  <2>1. QED
    BY <1>1, <1>7, <1>8, CountingUp
<1>10. QED
  BY <1>1, <1>3, <1>9

\* A Batch holds simple ops, any other op is one.
LEMMA FlattenFacts ==
    ASSUME NEW o \in FrameOps
    PROVE  Flatten(o) \in Seq(SimpleOps)
<1>1. CASE o.tag = "Batch"
  <2>1. o \in [tag: {"Batch"}, ops: Seq(SimpleOps)]
    BY <1>1 DEF FrameOps, SimpleOps
  <2>2. QED
    BY <1>1, <2>1 DEF Flatten
<1>2. CASE o.tag # "Batch"
  <2>1. o \in SimpleOps
    BY <1>2 DEF FrameOps
  <2>2. QED
    BY <1>2, <2>1 DEF Flatten
<1>3. QED
  BY <1>1, <1>2

\* The loop over the ops of a frame (Session.Step): it ends on a tree or on
\* nothing, with no node but the tree's own and those the ops add.
LEMMA AllResult ==
    ASSUME NEW V, NEW base \in ResultsIn(V), NEW list \in Seq(FrameOps),
           FrameAddsWithin(list, V)
    PROVE  ApplyAll(base, list) \in ResultsIn(V)
<1> DEFINE n == Len(list)
           step == [p \in (1 .. n) \X ResultsIn(V) |-> ApplyEach(p[2], Flatten(list[p[1]]))]
           Body(f) == [i \in 0 .. n |-> IF i = 0 THEN base ELSE ApplyEach(f[i - 1], Flatten(list[i]))]
           after == CHOOSE f : f = Body(f)
<1>1. n \in Nat
  BY LenProperties
<1>2. ASSUME NEW i \in 1 .. n, NEW t \in ResultsIn(V)
      PROVE  step[<<i, t>>] = ApplyEach(t, Flatten(list[i])) /\ step[<<i, t>>] \in ResultsIn(V)
  <2>1. /\ Flatten(list[i]) \in Seq(SimpleOps)
        /\ \A j \in 1 .. Len(Flatten(list[i])) : AddsWithin(Flatten(list[i])[j], V)
    BY FlattenFacts, ElementOfSeq DEF FrameAddsWithin
  <2>2. QED
    BY <2>1, EachResult
<1>3. ApplyAll(base, list) = after[n]
  BY DEF ApplyAll
<1> HIDE DEF step, n
<1>4. PICK run \in [0 .. n -> ResultsIn(V)] : RunsFrom(run, n, base, step)
  BY <1>1, <1>2, LoopRuns DEF StaysIn
<1>5. run = Body(run)
  <2>1. ASSUME NEW i \in 0 .. n PROVE run[i] = Body(run)[i]
    <3>1. CASE i = 0
      BY <3>1, <1>4 DEF RunsFrom
    <3>2. CASE i # 0
      <4>1. i \in 1 .. n /\ i - 1 \in 0 .. n
        BY <1>1, <3>2
      <4>2. run[i] = step[<<i, run[i - 1]>>] /\ run[i - 1] \in ResultsIn(V)
        BY <4>1, <1>4 DEF RunsFrom
      <4>3. QED
        BY <3>2, <4>1, <4>2, <1>2
    <3>3. QED
      BY <3>1, <3>2
  <2>2. run = [i \in 0 .. n |-> run[i]]
    OBVIOUS
  <2>3. QED
    BY <2>1, <2>2
<1>6. after = Body(after)
  BY <1>5
<1> HIDE DEF after
<1> DEFINE T == {i \in 0 .. n : after[i] \in ResultsIn(V)}
<1>7. 0 \in T
  BY <1>1, <1>6
<1>8. ASSUME NEW i \in 1 .. n, i - 1 \in T PROVE i \in T
  <2>1. i # 0 /\ i \in 0 .. n
    BY <1>1
  <2>2. Body(after)[i] = ApplyEach(after[i - 1], Flatten(list[i]))
    BY <2>1
  <2> HIDE DEF Body
  <2>3. after[i] = ApplyEach(after[i - 1], Flatten(list[i]))
    BY <1>6, <2>2
  <2>4. /\ Flatten(list[i]) \in Seq(SimpleOps)
        /\ \A j \in 1 .. Len(Flatten(list[i])) : AddsWithin(Flatten(list[i])[j], V)
    BY FlattenFacts, ElementOfSeq DEF FrameAddsWithin, n
  <2>5. QED
    BY <1>8, <2>1, <2>3, <2>4, EachResult
<1>9. \A i \in 0 .. n : i \in T
  <2> HIDE DEF T
  <2>1. QED
    BY <1>1, <1>7, <1>8, CountingUp
<1>10. QED
  BY <1>1, <1>3, <1>9

-----------------------------------------------------------------------------
(* The gate.                                                               *)

\* The nodes the gate has nothing against.
Granted == {n \in Nodes : Withheld(n) = {}}

\* No op of the list, alone or in a Batch, is the EditNode the gate looks past.
NoEditNode(list) ==
    \A i \in 1 .. Len(list) : \A j \in 1 .. Len(Flatten(list[i])) :
        Flatten(list[i])[j].tag # "EditNode"

\* opMissingCapabilities sees every node an op adds, in a Batch too, unless an
\* EditNode adds it: a list the gate lets through adds granted nodes only.
LEMMA GateSeesAdditions ==
    ASSUME Gated, NEW list \in Seq(FrameOps), NoEditNode(list), ~GateRefuses(list)
    PROVE  FrameAddsWithin(list, Granted)
<1> SUFFICES ASSUME NEW i \in 1 .. Len(list), NEW j \in 1 .. Len(Flatten(list[i])),
                    NEW o, o = Flatten(list[i])[j], o.tag # "RemoveNode",
                    NEW n \in o.nodes
             PROVE  n \in Granted
  BY DEF FrameAddsWithin, AddsWithin
<1>1. list[i] \in FrameOps
  BY ElementOfSeq
<1>2. Flatten(list[i]) \in Seq(SimpleOps)
  BY <1>1, FlattenFacts
<1>3. o \in SimpleOps
  BY <1>2, ElementOfSeq
<1>4. o.tag \in {"InsertChild", "ReplaceRoot"} /\ n \in Nodes
  <2>1. o.tag # "EditNode"
    BY DEF NoEditNode
  <2>2. QED
    BY <1>3, <2>1 DEF SimpleOps, Trees
<1>5. o \in ToSet(Flatten(list[i]))
  <2>1. j \in DOMAIN Flatten(list[i])
    BY <1>2, LenProperties
  <2>2. QED
    BY <2>1 DEF ToSet
<1>6. MissingCapabilities(list[i]) = {}
  <2>1. i \in DOMAIN list
    BY LenProperties
  <2>2. QED
    BY <2>1 DEF GateRefuses
<1>7. Withheld(n) \subseteq MissingCapabilities(list[i])
  BY <1>4, <1>5 DEF MissingCapabilities
<1>8. QED
  BY <1>4, <1>6, <1>7 DEF Granted

-----------------------------------------------------------------------------
(* The connection.                                                         *)

\* Every op list pushOps is ever given.
PushedLists == HandlerLists \cup Projections

BufferedFrame == [seq: Nat \ {0}, ops: PushedLists]

\* The server's trees, one per frame and the first one before them.
HistoryInv ==
    /\ \E S : history \in Seq(S)
    /\ FramesReproduceTrees

WindowInv ==
    /\ seq \in Nat
    /\ buffer \in Seq(BufferedFrame)
    /\ RetainedWindow

-----------------------------------------------------------------------------
(* The replay buffer.                                                      *)

\* bufferFrame keeps the newest frames: one more below the capacity, the same
\* number at it, each still in its place behind the new one.
LEMMA BufferedFacts ==
    ASSUME WindowInv, NEW frame \in BufferedFrame, frame.seq = seq + 1,
           NEW kept, kept = Buffered(frame)
    PROVE  /\ kept \in Seq(BufferedFrame)
           /\ Len(kept) = IF seq + 1 < BufferCap THEN seq + 1 ELSE BufferCap
           /\ \A i \in 1 .. Len(kept) :
                 /\ kept[i].seq = (seq + 1) - Len(kept) + i
                 /\ kept[i] = frame \/ \E j \in 1 .. Len(buffer) : kept[i] = buffer[j]
<1>1. PICK n \in Nat : n = Len(buffer)
  BY LenProperties DEF WindowInv
<1>2. seq \in Nat /\ BufferCap \in Nat \ {0}
  BY ConnectionAssumption DEF WindowInv
<1>3. n = IF seq < BufferCap THEN seq ELSE BufferCap
  BY <1>1 DEF WindowInv, RetainedWindow
<1>4. \A i \in 1 .. n : buffer[i].seq = seq - n + i
  <2>1. DOMAIN buffer = 1 .. n
    BY <1>1, LenProperties DEF WindowInv
  <2>2. QED
    BY <1>1, <2>1 DEF WindowInv, RetainedWindow
<1>5. CASE n >= BufferCap
  <2>1. n = BufferCap /\ seq >= BufferCap
    BY <1>2, <1>3, <1>5
  <2>2. buffer \in Seq(BufferedFrame) /\ buffer # <<>>
    BY <1>1, <1>2, <2>1 DEF WindowInv
  <2>3. /\ Tail(buffer) \in Seq(BufferedFrame)
        /\ Len(Tail(buffer)) = n - 1
        /\ \A i \in 1 .. n - 1 : Tail(buffer)[i] = buffer[i + 1]
    BY <1>1, <2>2, HeadTailProperties
  <2>4. kept = Append(Tail(buffer), frame)
    BY <1>1, <1>5 DEF Buffered
  <2>5. /\ kept \in Seq(BufferedFrame)
        /\ Len(kept) = n
        /\ \A i \in 1 .. n - 1 : kept[i] = buffer[i + 1]
        /\ kept[n] = frame
    BY <2>3, <2>4, AppendProperties
  <2>6. ASSUME NEW i \in 1 .. n
        PROVE  /\ kept[i].seq = (seq + 1) - n + i
               /\ kept[i] = frame \/ \E j \in 1 .. n : kept[i] = buffer[j]
    <3>1. CASE i = n
      BY <3>1, <1>2, <2>5
    <3>2. CASE i # n
      <4>1. i \in 1 .. n - 1 /\ i + 1 \in 1 .. n
        BY <3>2
      <4>2. kept[i] = buffer[i + 1] /\ buffer[i + 1].seq = seq - n + (i + 1)
        BY <4>1, <1>4, <2>5
      <4>3. QED
        BY <4>1, <4>2, <1>2
    <3>3. QED
      BY <3>1, <3>2
  <2>7. n = IF seq + 1 < BufferCap THEN seq + 1 ELSE BufferCap
    BY <1>2, <2>1
  <2>8. QED
    BY <1>1, <2>5, <2>6, <2>7
<1>6. CASE ~(n >= BufferCap)
  <2>1. n = seq /\ seq < BufferCap
    BY <1>2, <1>3, <1>6
  <2>2. kept = Append(buffer, frame)
    BY <1>1, <1>6 DEF Buffered
  <2>3. /\ kept \in Seq(BufferedFrame)
        /\ Len(kept) = n + 1
        /\ \A i \in 1 .. n : kept[i] = buffer[i]
        /\ kept[n + 1] = frame
    BY <1>1, <2>2, AppendProperties DEF WindowInv
  <2>4. ASSUME NEW i \in 1 .. n + 1
        PROVE  /\ kept[i].seq = (seq + 1) - (n + 1) + i
               /\ kept[i] = frame \/ \E j \in 1 .. n : kept[i] = buffer[j]
    <3>1. CASE i = n + 1
      BY <3>1, <1>2, <2>3
    <3>2. CASE i # n + 1
      <4>1. i \in 1 .. n
        BY <3>2
      <4>2. kept[i] = buffer[i] /\ buffer[i].seq = seq - n + i
        BY <4>1, <1>4, <2>3
      <4>3. QED
        BY <4>1, <4>2, <1>2
    <3>3. QED
      BY <3>1, <3>2
  <2>5. n + 1 = IF seq + 1 < BufferCap THEN seq + 1 ELSE BufferCap
    BY <1>2, <2>1
  <2>6. QED
    BY <1>1, <2>3, <2>4, <2>5
<1>7. QED
  BY <1>5, <1>6

\* pushOps keeps the window whole.
LEMMA PushKeepsWindow ==
    ASSUME WindowInv, NEW list \in PushedLists, PushOps(list)
    PROVE  WindowInv'
<1> DEFINE frame == [seq |-> seq + 1, ops |-> list]
<1>1. seq' = seq + 1 /\ buffer' = Buffered(frame) /\ seq \in Nat
  BY DEF PushOps, WindowInv
<1>2. frame \in BufferedFrame /\ frame.seq = seq + 1
  BY <1>1 DEF BufferedFrame
<1> HIDE DEF frame
<1>3. /\ buffer' \in Seq(BufferedFrame)
      /\ Len(buffer') = IF seq' < BufferCap THEN seq' ELSE BufferCap
      /\ \A i \in 1 .. Len(buffer') : buffer'[i].seq = seq' - Len(buffer') + i
  BY <1>1, <1>2, BufferedFacts
<1>4. DOMAIN buffer' = 1 .. Len(buffer')
  BY <1>3
<1>5. QED
  BY <1>1, <1>3, <1>4 DEF WindowInv, RetainedWindow

\* Every step pushes one frame or leaves the sequence and the buffer alone.
LEMMA StepPushesOrNot ==
    ASSUME [Next]_vars
    PROVE  \/ \E list \in PushedLists : PushOps(list)
           \/ UNCHANGED <<seq, buffer, history>>
<1>1. CASE Handle
  <2>1. PICK ev \in Events, answer \in Answers : HandleApplied(ev, answer) \/ HandleRejected(ev, answer)
    BY <1>1 DEF Handle
  <2>2. CASE HandleApplied(ev, answer)
    <3>1. answer.ops = <<>> \/ answer.ops \in PushedLists
      BY <2>1 DEF Answers, PushedLists
    <3>2. QED
      BY <2>2, <3>1 DEF HandleApplied, NoPush
  <2>3. CASE HandleRejected(ev, answer)
    BY <2>3 DEF HandleRejected, NoPush, PushedLists
  <2>4. QED
    BY <2>1, <2>2, <2>3
<1>2. CASE Resync \/ Drop \/ Reconnect \/ Reseed \/ ClientReceive \/ UNCHANGED vars
  BY <1>2 DEF Resync, Drop, Reconnect, Reseed, ClientReceive, serverVars, vars
<1>3. QED
  BY <1>1, <1>2 DEF Next

\* The retained frames are always the newest min(seq, BufferCap), in order and
\* without a hole (bufferFrame in serverdriven/connection.go), so a client that
\* presents a cursor inside the window is offered every frame it has missed.
THEOREM RetainedWindowHolds == Spec => []RetainedWindow
<1>1. Init => WindowInv
  <2> SUFFICES ASSUME Init PROVE WindowInv
    OBVIOUS
  <2>1. seq = 0 /\ buffer = <<>> /\ BufferCap \in Nat \ {0}
    BY ConnectionAssumption DEF Init
  <2>2. QED
    BY <2>1 DEF WindowInv, RetainedWindow
<1>2. WindowInv /\ [Next]_vars => WindowInv'
  <2> SUFFICES ASSUME WindowInv, [Next]_vars PROVE WindowInv'
    OBVIOUS
  <2>1. ASSUME NEW list \in PushedLists, PushOps(list) PROVE WindowInv'
    BY <2>1, PushKeepsWindow
  <2>2. CASE UNCHANGED <<seq, buffer, history>>
    BY <2>2 DEF WindowInv, RetainedWindow
  <2>3. QED
    BY <2>1, <2>2, StepPushesOrNot
<1>3. WindowInv => RetainedWindow
  BY DEF WindowInv
<1>4. QED
  BY <1>1, <1>2, <1>3, PTL DEF Spec

-----------------------------------------------------------------------------
(* The frames against the trees.                                           *)

\* One frame pushed for a tree that is the result of its ops.
LEMMA PushKeepsHistory ==
    ASSUME WindowInv, HistoryInv, NEW list \in PushedLists,
           tree' = ApplyAll(tree, list), PushOps(list)
    PROVE  HistoryInv'
<1> DEFINE frame == [seq |-> seq + 1, ops |-> list]
<1>1. PICK n \in Nat : n = seq
  BY DEF WindowInv
<1>2. PICK S : history \in Seq(S)
  BY DEF HistoryInv
<1>3. /\ history' = Append(history, tree') /\ seq' = n + 1
      /\ buffer' = Buffered(frame) /\ Len(history) = n + 1
  BY <1>1 DEF PushOps, HistoryInv, FramesReproduceTrees
<1>4. /\ history' \in Seq(S \cup {tree'})
      /\ Len(history') = n + 2
      /\ \A k \in 1 .. n + 1 : history'[k] = history[k]
      /\ history'[n + 2] = tree'
  <2>1. history \in Seq(S \cup {tree'}) /\ tree' \in S \cup {tree'}
    BY <1>2
  <2> DEFINE T == S \cup {tree'}
  <2> HIDE DEF T
  <2>2. history \in Seq(T) /\ tree' \in T
    BY <2>1 DEF T
  <2>3. /\ Append(history, tree') \in Seq(T)
        /\ Len(Append(history, tree')) = Len(history) + 1
        /\ \A k \in 1 .. Len(history) : Append(history, tree')[k] = history[k]
        /\ Append(history, tree')[Len(history) + 1] = tree'
    BY <2>2, AppendProperties
  <2>4. QED
    BY <1>3, <2>3 DEF T
<1>5. frame \in BufferedFrame /\ frame.seq = seq + 1 /\ frame.seq = n + 1 /\ frame.ops = list
  BY <1>1 DEF BufferedFrame
<1> HIDE DEF frame
<1>6. /\ buffer' \in Seq(BufferedFrame)
      /\ \A i \in 1 .. Len(buffer') :
            buffer'[i] = frame \/ \E j \in 1 .. Len(buffer) : buffer'[i] = buffer[j]
  BY <1>3, <1>5, BufferedFacts
<1>7. \A j \in 1 .. Len(buffer) :
         /\ buffer[j].seq \in 1 .. n
         /\ ApplyAll(history[buffer[j].seq], buffer[j].ops) = history[buffer[j].seq + 1]
  <2>1. PICK m \in Nat : m = Len(buffer)
    BY LenProperties DEF WindowInv
  <2>2. DOMAIN buffer = 1 .. m
    BY <2>1, LenProperties DEF WindowInv
  <2>3. m <= n
    BY <1>1, <2>1, ConnectionAssumption DEF WindowInv, RetainedWindow
  <2>4. \A j \in 1 .. m : buffer[j].seq = n - m + j
    BY <1>1, <2>1, <2>2 DEF WindowInv, RetainedWindow
  <2>5. \A j \in 1 .. m :
           ApplyAll(history[buffer[j].seq], buffer[j].ops) = history[buffer[j].seq + 1]
    BY <2>2 DEF HistoryInv, FramesReproduceTrees
  <2>6. \A j \in 1 .. m : buffer[j].seq \in 1 .. n
    BY <2>3, <2>4
  <2>7. QED
    BY <2>1, <2>5, <2>6
<1>8. \A i \in 1 .. Len(buffer') :
         ApplyAll(history'[buffer'[i].seq], buffer'[i].ops) = history'[buffer'[i].seq + 1]
  <2> TAKE i \in 1 .. Len(buffer')
  <2>1. CASE buffer'[i] = frame
    <3>1. history'[n + 1] = tree /\ history'[(n + 1) + 1] = tree'
      BY <1>1, <1>4 DEF HistoryInv, FramesReproduceTrees
    <3>2. QED
      BY <1>5, <2>1, <3>1
  <2>2. CASE \E j \in 1 .. Len(buffer) : buffer'[i] = buffer[j]
    <3>1. PICK j \in 1 .. Len(buffer) : buffer'[i] = buffer[j]
      BY <2>2
    <3>2. PICK k \in 1 .. n : k = buffer[j].seq
      BY <1>7
    <3>3. history'[k] = history[k] /\ history'[k + 1] = history[k + 1]
      BY <1>4
    <3>4. QED
      BY <1>7, <3>1, <3>2, <3>3
  <2>3. QED
    BY <1>6, <2>1, <2>2
<1>9. DOMAIN buffer' = 1 .. Len(buffer')
  BY <1>6, LenProperties
<1>10. Len(history') = seq' + 1 /\ tree' = history'[seq' + 1]
  BY <1>3, <1>4
<1>11. FramesReproduceTrees'
  BY <1>8, <1>9, <1>10 DEF FramesReproduceTrees
<1>12. QED
  BY <1>4, <1>11 DEF HistoryInv

\* Without a reject projection only an applied step pushes, and it pushes the
\* ops it applied.
LEMMA StepAppliesOrNot ==
    ASSUME Projections = {}, [Next]_vars
    PROVE  \/ \E list \in PushedLists : tree' = ApplyAll(tree, list) /\ PushOps(list)
           \/ UNCHANGED <<tree, seq, buffer, history>>
<1>1. CASE Handle
  <2>1. PICK ev \in Events, answer \in Answers : HandleApplied(ev, answer) \/ HandleRejected(ev, answer)
    BY <1>1 DEF Handle
  <2>2. CASE HandleApplied(ev, answer)
    <3>1. answer.ops = <<>> \/ answer.ops \in PushedLists
      BY <2>1 DEF Answers, PushedLists
    <3>2. QED
      BY <2>2, <3>1 DEF HandleApplied, NoPush
  <2>3. CASE HandleRejected(ev, answer)
    BY <2>3 DEF HandleRejected, NoPush
  <2>4. QED
    BY <2>1, <2>2, <2>3
<1>2. CASE Resync \/ Drop \/ Reconnect \/ Reseed \/ ClientReceive \/ UNCHANGED vars
  BY <1>2 DEF Resync, Drop, Reconnect, Reseed, ClientReceive, serverVars, vars
<1>3. QED
  BY <1>1, <1>2 DEF Next

\* Every retained frame, replayed over the tree it was made for, gives the tree
\* that followed it (Step and pushOps agree), for a connection that has no
\* reject projection.
THEOREM FramesAlwaysReproduceTrees ==
    ASSUME Projections = {}
    PROVE  Spec => []FramesReproduceTrees
<1>1. Init => WindowInv /\ HistoryInv
  <2> SUFFICES ASSUME Init PROVE WindowInv /\ HistoryInv
    OBVIOUS
  <2>1. seq = 0 /\ buffer = <<>> /\ history = <<tree>> /\ BufferCap \in Nat \ {0}
    BY ConnectionAssumption DEF Init
  <2>2. WindowInv
    BY <2>1 DEF WindowInv, RetainedWindow
  <2>3. history \in Seq({tree})
    BY <2>1
  <2>4. FramesReproduceTrees
    BY <2>1 DEF FramesReproduceTrees
  <2>5. QED
    BY <2>2, <2>3, <2>4 DEF HistoryInv
<1>2. WindowInv /\ HistoryInv /\ [Next]_vars => WindowInv' /\ HistoryInv'
  <2> SUFFICES ASSUME WindowInv, HistoryInv, [Next]_vars PROVE WindowInv' /\ HistoryInv'
    OBVIOUS
  <2>1. ASSUME NEW list \in PushedLists, tree' = ApplyAll(tree, list), PushOps(list)
        PROVE  WindowInv' /\ HistoryInv'
    BY <2>1, PushKeepsWindow, PushKeepsHistory
  <2>2. CASE UNCHANGED <<tree, seq, buffer, history>>
    BY <2>2 DEF WindowInv, RetainedWindow, HistoryInv, FramesReproduceTrees
  <2>3. QED
    BY <2>1, <2>2, StepAppliesOrNot
<1>3. WindowInv /\ HistoryInv => FramesReproduceTrees
  BY DEF HistoryInv
<1>4. QED
  BY <1>1, <1>2, <1>3, PTL DEF Spec

-----------------------------------------------------------------------------
(* Resync's loop over the buffer.                                          *)

\* The loop's variable after each round: the newer frames so far.
LEMMA NewerRun ==
    ASSUME NEW R, NEW frames \in Seq(R), NEW after
    PROVE  \E upTo \in [0 .. Len(frames) -> Seq(R)] :
              /\ NewerFrames(frames, after) = upTo[Len(frames)]
              /\ upTo[0] = <<>>
              /\ \A i \in 1 .. Len(frames) :
                    upTo[i] = IF frames[i].seq > after THEN Append(upTo[i - 1], frames[i])
                                                       ELSE upTo[i - 1]
<1> DEFINE n == Len(frames)
           Lists == Seq(R)
           none == <<>>
           Round(i, t) == IF frames[i].seq > after THEN Append(t, frames[i]) ELSE t
           step == [p \in (1 .. n) \X Lists |-> Round(p[1], p[2])]
           Body(f) == [i \in 0 .. n |->
                         IF i = 0 THEN none
                         ELSE IF frames[i].seq > after THEN Append(f[i - 1], frames[i])
                                                       ELSE f[i - 1]]
           upTo == CHOOSE f : f = Body(f)
<1>1. n \in Nat /\ none \in Lists
  BY LenProperties
<1>2. ASSUME NEW i \in 1 .. n, NEW t \in Lists PROVE Round(i, t) \in Lists
  <2>1. frames[i] \in R
    BY ElementOfSeq
  <2>2. QED
    BY <2>1, AppendProperties
<1>3. NewerFrames(frames, after) = upTo[n]
  BY DEF NewerFrames
<1> HIDE DEF n, Lists, none, Round
<1>4. ASSUME NEW i \in 1 .. n, NEW t \in Lists PROVE step[<<i, t>>] = Round(i, t)
  OBVIOUS
<1> HIDE DEF step
<1>5. PICK run \in [0 .. n -> Lists] : RunsFrom(run, n, none, step)
  <2>1. StaysIn(step, n, Lists)
    BY <1>2, <1>4 DEF StaysIn
  <2>2. QED
    BY <1>1, <2>1, LoopRuns
<1>6. run = Body(run)
  <2>1. ASSUME NEW i \in 0 .. n PROVE run[i] = Body(run)[i]
    <3>1. CASE i = 0
      BY <3>1, <1>5 DEF RunsFrom
    <3>2. CASE i # 0
      <4>1. i \in 1 .. n /\ i - 1 \in 0 .. n
        BY <1>1, <3>2
      <4>2. run[i] = step[<<i, run[i - 1]>>] /\ run[i - 1] \in Lists
        BY <4>1, <1>5 DEF RunsFrom
      <4>3. run[i] = Round(i, run[i - 1])
        BY <4>1, <4>2, <1>4
      <4>4. QED
        BY <3>2, <4>3 DEF Round
    <3>3. QED
      BY <3>1, <3>2
  <2>2. run = [i \in 0 .. n |-> run[i]]
    OBVIOUS
  <2>3. QED
    BY <2>1, <2>2
<1>7. upTo = Body(upTo)
  BY <1>6
<1> HIDE DEF upTo
<1>8. upTo[0] = none
  BY <1>1, <1>7
<1>9. ASSUME NEW i \in 1 .. n PROVE upTo[i] = Round(i, upTo[i - 1])
  <2>1. i # 0 /\ i \in 0 .. n
    BY <1>1
  <2>2. Body(upTo)[i] = Round(i, upTo[i - 1])
    BY <2>1 DEF Round
  <2> HIDE DEF Body
  <2>3. QED
    BY <1>7, <2>2
<1> DEFINE T == {i \in 0 .. n : upTo[i] \in Lists}
<1>10. 0 \in T
  BY <1>1, <1>8
<1>11. ASSUME NEW i \in 1 .. n, i - 1 \in T PROVE i \in T
  BY <1>1, <1>2, <1>9, <1>11
<1>12. \A i \in 0 .. n : upTo[i] \in Lists
  <2>1. \A i \in 0 .. n : i \in T
    <3> HIDE DEF T
    <3>1. QED
      BY <1>1, <1>10, <1>11, CountingUp
  <2>2. QED
    BY <2>1
<1>13. upTo \in [0 .. n -> Lists]
  <2>1. Body(upTo) = [i \in 0 .. n |-> Body(upTo)[i]]
    OBVIOUS
  <2> HIDE DEF Body
  <2>2. QED
    BY <2>1, <1>7, <1>12
<1>14. QED
  BY <1>3, <1>8, <1>9, <1>13 DEF n, Lists, none, Round

\* What is replayed are frames of the buffer.
LEMMA NewerTyped ==
    ASSUME NEW R, NEW frames \in Seq(R), NEW after
    PROVE  NewerFrames(frames, after) \in Seq(R)
BY NewerRun, LenProperties

\* The frames newer than the cursor are those behind position m.
StartsBehind(frames, after, m) ==
    \A i \in 1 .. Len(frames) : frames[i].seq > after <=> i > m

\* When the newer frames are those behind position m, what is replayed is
\* exactly the buffer from there on.
LEMMA NewerIsTail ==
    ASSUME NEW R, NEW frames \in Seq(R), NEW after, NEW m \in 0 .. Len(frames),
           StartsBehind(frames, after, m),
           NEW replayed, replayed = NewerFrames(frames, after)
    PROVE  /\ replayed \in Seq(R)
           /\ Len(replayed) = Len(frames) - m
           /\ \A k \in 1 .. Len(frames) - m : replayed[k] = frames[m + k]
<1> DEFINE n == Len(frames)
<1>1. n \in Nat
  BY LenProperties
<1>2. PICK upTo \in [0 .. n -> Seq(R)] :
         /\ replayed = upTo[n]
         /\ upTo[0] = <<>>
         /\ \A i \in 1 .. n :
               upTo[i] = IF frames[i].seq > after THEN Append(upTo[i - 1], frames[i])
                                                  ELSE upTo[i - 1]
  BY NewerRun
<1> DEFINE sofar(i) == IF i > m THEN i - m ELSE 0
           T == {i \in 0 .. n : /\ Len(upTo[i]) = sofar(i)
                                /\ \A k \in 1 .. sofar(i) : upTo[i][k] = frames[m + k]}
<1>3. 0 \in T
  BY <1>1, <1>2
<1>4. ASSUME NEW i \in 1 .. n, i - 1 \in T PROVE i \in T
  <2>1. i - 1 \in 0 .. n /\ i \in 0 .. n /\ i \in Int /\ m \in Int
    BY <1>1
  <2>2. upTo[i - 1] \in Seq(R) /\ frames[i] \in R
    BY <2>1, ElementOfSeq
  <2>3. /\ Len(upTo[i - 1]) = sofar(i - 1)
        /\ \A k \in 1 .. sofar(i - 1) : upTo[i - 1][k] = frames[m + k]
    BY <1>4
  <2>4. CASE i > m
    <3>1. upTo[i] = Append(upTo[i - 1], frames[i])
      BY <1>2, <2>4 DEF StartsBehind
    <3>2. sofar(i) = i - m /\ sofar(i - 1) = i - m - 1
      BY <2>1, <2>4
    <3> HIDE DEF sofar
    <3>3. /\ Len(upTo[i]) = i - m
          /\ \A k \in 1 .. i - m - 1 : upTo[i][k] = upTo[i - 1][k]
          /\ upTo[i][i - m] = frames[i]
      <4>1. /\ Len(Append(upTo[i - 1], frames[i])) = Len(upTo[i - 1]) + 1
            /\ \A k \in 1 .. Len(upTo[i - 1]) : Append(upTo[i - 1], frames[i])[k] = upTo[i - 1][k]
            /\ Append(upTo[i - 1], frames[i])[Len(upTo[i - 1]) + 1] = frames[i]
        BY <2>2, AppendProperties
      <4>2. (i - m - 1) + 1 = i - m
        BY <2>1
      <4>3. QED
        BY <2>3, <3>1, <3>2, <4>1, <4>2
    <3>4. ASSUME NEW k \in 1 .. i - m PROVE upTo[i][k] = frames[m + k]
      <4>1. CASE k = i - m
        <5>1. m + k = i
          BY <2>1, <4>1
        <5>2. QED
          BY <3>3, <4>1, <5>1
      <4>2. CASE k # i - m
        <5>1. k \in 1 .. i - m - 1
          BY <2>1, <4>2
        <5>2. QED
          BY <2>3, <3>2, <3>3, <5>1
      <4>3. QED
        BY <4>1, <4>2
    <3>5. QED
      BY <2>1, <3>2, <3>3, <3>4
  <2>5. CASE ~(i > m)
    <3>1. upTo[i] = upTo[i - 1] /\ sofar(i) = 0 /\ sofar(i - 1) = 0
      BY <1>2, <2>1, <2>5 DEF StartsBehind
    <3> HIDE DEF sofar
    <3>2. QED
      BY <2>1, <2>3, <3>1
  <2>6. QED
    BY <2>4, <2>5
<1>5. n \in T
  <2> HIDE DEF T
  <2>1. \A i \in 0 .. n : i \in T
    BY <1>1, <1>3, <1>4, CountingUp
  <2>2. QED
    BY <1>1, <2>1
<1>6. sofar(n) = n - m
  BY <1>1
<1>7. QED
  BY <1>1, <1>2, <1>5, <1>6

-----------------------------------------------------------------------------
(* The client's copy.                                                      *)

\* The frame, applied to the tree it was made for, gives the next one.
Reproduces(frame) ==
    ApplyAll(history[frame.seq], frame.ops) = history[frame.seq + 1]

\* The client holds one of the server's trees, and what is on the wire are all
\* the frames after it; a reconnecting client has missed retained frames only.
ClientInv ==
    /\ history \in Seq(Trees)
    /\ lastSeq \in Nat /\ lastSeq <= seq
    /\ clientTree = history[lastSeq + 1]
    /\ wire \in Seq(BufferedFrame)
    /\ link \in {"up", "down", "attached"}
    /\ link = "up" =>
         /\ Len(wire) = seq - lastSeq
         /\ \A i \in 1 .. Len(wire) : wire[i].seq = lastSeq + i /\ Reproduces(wire[i])
    /\ link # "up" => wire = <<>>
    /\ link = "attached" => cursor = lastSeq /\ WithinWindow

LiveInv == WindowInv /\ HistoryInv /\ ClientInv

\* No tree of the server is the value that stands for a failed op.
LEMMA TreeIsNotNoTree ==
    ASSUME NEW t \in Trees
    PROVE  t # NoTree
BY DEF Trees, NoTree

\* What a list of ops leaves is a tree, or nothing.
LEMMA ApplyAllType ==
    ASSUME NEW t \in Trees, NEW list \in PushedLists
    PROVE  ApplyAll(t, list) \in Trees \cup {NoTree}
<1>1. list \in Seq(FrameOps)
  BY ConnectionAssumption DEF PushedLists
<1>2. FrameAddsWithin(list, Nodes)
  <2> SUFFICES ASSUME NEW i \in 1 .. Len(list), NEW j \in 1 .. Len(Flatten(list[i]))
               PROVE  AddsWithin(Flatten(list[i])[j], Nodes)
    BY DEF FrameAddsWithin
  <2>1. Flatten(list[i]) \in Seq(SimpleOps)
    BY <1>1, ElementOfSeq, FlattenFacts
  <2>2. Flatten(list[i])[j] \in SimpleOps
    BY <2>1, ElementOfSeq
  <2>3. QED
    BY <2>2 DEF AddsWithin, SimpleOps, Trees
<1>3. t \in ResultsIn(Nodes)
  BY DEF ResultsIn, Trees
<1>4. QED
  BY <1>1, <1>2, <1>3, AllResult DEF ResultsIn

\* Two facts about the handler's step: only a list that applies is pushed.
LEMMA HandlePushesOrNot ==
    ASSUME Projections = {}, Handle, tree \in Trees
    PROVE  /\ UNCHANGED <<link, cursor, clientVars>>
           /\ link = "attached" => ~AtomicReattach
           /\ \/ \E list \in PushedLists :
                     tree' = ApplyAll(tree, list) /\ tree' \in Trees /\ PushOps(list)
              \/ UNCHANGED <<tree, seq, buffer, wire, history>>
<1>1. PICK ev \in Events, answer \in Answers : HandleApplied(ev, answer) \/ HandleRejected(ev, answer)
  BY DEF Handle
<1>2. CASE HandleApplied(ev, answer)
  <2>1. CASE answer.ops = <<>>
    BY <1>2, <2>1 DEF HandleApplied, NoPush, Handle
  <2>2. CASE answer.ops # <<>>
    <3>1. answer.ops \in PushedLists
      BY <2>2, <1>1 DEF Answers, PushedLists
    <3>2. tree' = ApplyAll(tree, answer.ops) /\ PushOps(answer.ops)
      BY <1>2, <2>2 DEF HandleApplied
    <3>3. ApplyAll(tree, answer.ops) # NoTree
      BY <1>2 DEF HandleApplied, Verdict
    <3>4. tree' \in Trees
      BY <3>1, <3>2, <3>3, ApplyAllType
    <3>5. QED
      BY <3>1, <3>2, <3>4 DEF Handle
  <2>3. QED
    BY <2>1, <2>2
<1>3. CASE HandleRejected(ev, answer)
  BY <1>3 DEF HandleRejected, NoPush, Handle
<1>4. QED
  BY <1>1, <1>2, <1>3

\* channel.Push puts the frame behind what is on the wire.
LEMMA PushedFrame ==
    ASSUME NEW R, NEW s \in Seq(R), NEW frame \in R, NEW longer, longer = s \o <<frame>>
    PROVE  /\ longer \in Seq(R)
           /\ Len(longer) = Len(s) + 1
           /\ \A i \in 1 .. Len(s) : longer[i] = s[i]
           /\ longer[Len(s) + 1] = frame
<1> DEFINE last == <<frame>>
<1>1. last \in Seq(R) /\ Len(last) = 1 /\ last[1] = frame
  OBVIOUS
<1>2. longer = s \o last
  OBVIOUS
<1> HIDE DEF last
<1>3. s \o last \in Seq(R) /\ Len(s \o last) = Len(s) + Len(last)
  BY <1>1, ConcatProperties
<1>4. \A i \in 1 .. Len(s) : (s \o last)[i] = s[i]
  BY <1>1, ConcatProperties
<1>5. \A i \in 1 .. Len(last) : (s \o last)[Len(s) + i] = last[i]
  BY <1>1, ConcatProperties
<1>6. QED
  BY <1>1, <1>2, <1>3, <1>4, <1>5

\* A pushed frame leaves the client's copy one frame further behind, with the
\* frame it needs at the end of the wire.
LEMMA PushKeepsClient ==
    ASSUME LiveInv, NEW list \in PushedLists, PushOps(list),
           tree' = ApplyAll(tree, list), tree' \in Trees,
           UNCHANGED <<link, cursor, clientVars>>, link # "attached",
           HistoryInv'
    PROVE  ClientInv'
<1> DEFINE frame == [seq |-> seq + 1, ops |-> list]
<1>1. seq \in Nat /\ seq' = seq + 1 /\ history' = Append(history, tree') /\ wire' = Pushed(<<frame>>)
  BY DEF PushOps, LiveInv, WindowInv
<1>2. frame \in BufferedFrame /\ frame.seq = seq + 1 /\ frame.ops = list
  BY <1>1 DEF BufferedFrame
<1> HIDE DEF frame
<1>3. history \in Seq(Trees) /\ Len(history) = seq + 1
  BY DEF LiveInv, ClientInv, HistoryInv, FramesReproduceTrees
<1>4. /\ history' \in Seq(Trees)
      /\ \A k \in 1 .. seq + 1 : history'[k] = history[k]
      /\ history'[seq + 2] = tree'
  <2>1. /\ Append(history, tree') \in Seq(Trees)
        /\ \A k \in 1 .. Len(history) : Append(history, tree')[k] = history[k]
        /\ Append(history, tree')[Len(history) + 1] = tree'
    BY <1>3, AppendProperties
  <2>2. (seq + 1) + 1 = seq + 2
    BY <1>1
  <2>3. QED
    BY <1>1, <1>3, <2>1, <2>2
<1>5. lastSeq' = lastSeq /\ lastSeq \in Nat /\ lastSeq <= seq /\ link' = link /\ clientTree' = clientTree
  BY DEF LiveInv, ClientInv, clientVars
<1>6. clientTree' = history'[lastSeq' + 1]
  <2>1. lastSeq + 1 \in 1 .. seq + 1
    BY <1>1, <1>5
  <2>2. QED
    BY <1>4, <1>5, <2>1 DEF LiveInv, ClientInv
<1>7. wire \in Seq(BufferedFrame)
  BY DEF LiveInv, ClientInv
<1>8. CASE link = "up"
  <2>1. /\ Len(wire) = seq - lastSeq
        /\ \A i \in 1 .. seq - lastSeq : wire[i].seq = lastSeq + i /\ Reproduces(wire[i])
    BY <1>8 DEF LiveInv, ClientInv
  <2>2. wire' = wire \o <<frame>>
    BY <1>1, <1>8 DEF Pushed
  <2>3. /\ wire' \in Seq(BufferedFrame)
        /\ Len(wire') = seq' - lastSeq'
        /\ \A i \in 1 .. seq - lastSeq : wire'[i] = wire[i]
        /\ wire'[seq - lastSeq + 1] = frame
    <3>1. /\ wire' \in Seq(BufferedFrame)
          /\ Len(wire') = Len(wire) + 1
          /\ \A i \in 1 .. Len(wire) : wire'[i] = wire[i]
          /\ wire'[Len(wire) + 1] = frame
      BY <1>2, <1>7, <2>2, PushedFrame
    <3>2. Len(wire) + 1 = seq' - lastSeq'
      BY <1>1, <1>5, <2>1
    <3>3. QED
      BY <2>1, <3>1, <3>2
  <2>4. ASSUME NEW i \in 1 .. Len(wire')
        PROVE  wire'[i].seq = lastSeq' + i /\ Reproduces(wire[i])'
    <3>1. CASE i = seq - lastSeq + 1
      <4>1. wire'[i] = frame /\ lastSeq + i = seq + 1
        BY <1>1, <1>5, <2>3, <3>1
      <4>2. history'[seq + 1] = tree
        BY <1>1, <1>4 DEF LiveInv, HistoryInv, FramesReproduceTrees
      <4>3. ApplyAll(history'[seq + 1], list) = history'[(seq + 1) + 1]
        <5>1. (seq + 1) + 1 = seq + 2
          BY <1>1
        <5>2. QED
          BY <1>4, <4>2, <5>1
      <4>4. Reproduces(wire[i])'
        BY <1>2, <4>1, <4>3 DEF Reproduces
      <4>5. QED
        BY <1>2, <1>5, <4>1, <4>4
    <3>2. CASE i # seq - lastSeq + 1
      <4>1. i \in 1 .. seq - lastSeq
        BY <1>1, <1>5, <2>3, <3>2
      <4>2. wire'[i] = wire[i] /\ wire[i].seq = lastSeq + i /\ Reproduces(wire[i])
        BY <2>1, <2>3, <4>1
      <4>3. lastSeq + i \in 1 .. seq + 1 /\ (lastSeq + i) + 1 \in 1 .. seq + 1
        BY <1>1, <1>5, <4>1
      <4>4. history'[lastSeq + i] = history[lastSeq + i] /\ history'[(lastSeq + i) + 1] = history[(lastSeq + i) + 1]
        BY <1>4, <4>3
      <4>5. Reproduces(wire[i])'
        BY <4>2, <4>4 DEF Reproduces
      <4>6. QED
        BY <1>5, <4>2, <4>5
    <3>3. QED
      BY <3>1, <3>2
  <2>5. lastSeq' \in Nat /\ lastSeq' <= seq' /\ link' = "up"
    BY <1>1, <1>5, <1>8
  <2>6. QED
    BY <1>4, <1>6, <2>3, <2>4, <2>5 DEF ClientInv
<1>9. CASE link = "down"
  <2>1. wire = <<>> /\ wire' = <<>>
    BY <1>1, <1>9 DEF LiveInv, ClientInv, Pushed
  <2>2. QED
    BY <1>1, <1>4, <1>5, <1>6, <1>7, <1>9, <2>1 DEF ClientInv
<1>10. QED
  BY <1>8, <1>9 DEF LiveInv, ClientInv

\* The client takes a frame (ClientReceive): it is the one after its last, and
\* it gives the server's next tree.
LEMMA ReceiveSees ==
    ASSUME LiveInv, ClientReceive
    PROVE  /\ link = "up" /\ UNCHANGED <<tree, seq, buffer, history, link, cursor>>
           /\ lastSeq < seq /\ lastSeq' = lastSeq + 1
           /\ clientTree' = history[lastSeq + 2]
           /\ wire # <<>> /\ wire' = Tail(wire)
<1>1. wire # <<>> /\ wire' = Tail(wire) /\ UNCHANGED <<tree, seq, buffer, history, link, cursor>>
  BY DEF ClientReceive, serverVars
<1>2. link = "up" /\ wire \in Seq(BufferedFrame) /\ seq \in Nat /\ lastSeq \in Nat
  BY <1>1 DEF LiveInv, ClientInv, WindowInv
<1>3. /\ Len(wire) = seq - lastSeq
      /\ \A i \in 1 .. Len(wire) : wire[i].seq = lastSeq + i /\ Reproduces(wire[i])
  BY <1>2 DEF LiveInv, ClientInv
<1>4. Len(wire) \in Nat \ {0} /\ 1 \in 1 .. Len(wire) /\ Head(wire) = wire[1]
  BY <1>1, <1>2
<1> DEFINE frame == Head(wire)
<1>5. frame.seq = lastSeq + 1 /\ Reproduces(frame)
  BY <1>3, <1>4
<1>6. ClientApplies(frame) /\ lastSeq' = lastSeq + 1
  <2>1. ~(frame.seq <= lastSeq)
    BY <1>2, <1>5
  <2>2. QED
    BY <1>5, <2>1 DEF ClientReceive
<1> HIDE DEF frame
<1>7. ApplyAll(clientTree, frame.ops) = history[lastSeq + 2]
  <2>1. clientTree = history[frame.seq]
    BY <1>5 DEF LiveInv, ClientInv
  <2>2. frame.seq + 1 = lastSeq + 2
    BY <1>2, <1>5
  <2>3. QED
    BY <1>5, <2>1, <2>2 DEF Reproduces
<1>8. history[lastSeq + 2] \in Trees
  <2>1. history \in Seq(Trees) /\ Len(history) = seq + 1
    BY DEF LiveInv, ClientInv, HistoryInv, FramesReproduceTrees
  <2>2. lastSeq + 2 \in 1 .. Len(history)
    BY <1>2, <1>3, <1>4, <2>1
  <2>3. QED
    BY <2>1, <2>2, ElementOfSeq
<1>9. clientTree' = history[lastSeq + 2]
  BY <1>6, <1>7, <1>8, TreeIsNotNoTree DEF ClientApplies
<1>10. lastSeq < seq
  BY <1>2, <1>3, <1>4
<1>11. QED
  BY <1>1, <1>2, <1>6, <1>9, <1>10

\* Taking a frame leaves the frames behind it on the wire.
LEMMA ReceiveKeepsClient ==
    ASSUME LiveInv, ClientReceive
    PROVE  ClientInv'
<1>1. /\ link = "up" /\ UNCHANGED <<tree, seq, buffer, history, link, cursor>>
      /\ lastSeq < seq /\ lastSeq' = lastSeq + 1
      /\ clientTree' = history[lastSeq + 2]
      /\ wire # <<>> /\ wire' = Tail(wire)
  BY ReceiveSees
<1>2. /\ seq \in Nat /\ lastSeq \in Nat
      /\ wire \in Seq(BufferedFrame) /\ history \in Seq(Trees)
      /\ Len(wire) = seq - lastSeq
      /\ \A i \in 1 .. Len(wire) : wire[i].seq = lastSeq + i /\ Reproduces(wire[i])
  BY <1>1 DEF LiveInv, ClientInv, WindowInv
<1>3. /\ wire' \in Seq(BufferedFrame)
      /\ Len(wire') = Len(wire) - 1
      /\ \A i \in 1 .. Len(wire) - 1 : wire'[i] = wire[i + 1]
  BY <1>1, <1>2, HeadTailProperties
<1>4. lastSeq' \in Nat /\ lastSeq' <= seq' /\ (lastSeq + 1) + 1 = lastSeq + 2
  BY <1>1, <1>2
<1>5. clientTree' = history'[lastSeq' + 1]
  BY <1>1, <1>4
<1>6. ASSUME NEW i \in 1 .. Len(wire')
      PROVE  wire'[i].seq = lastSeq' + i /\ Reproduces(wire[i])'
  <2>1. i \in 1 .. Len(wire) - 1 /\ i + 1 \in 1 .. Len(wire)
    BY <1>2, <1>3
  <2>2. wire'[i] = wire[i + 1] /\ wire[i + 1].seq = lastSeq + (i + 1) /\ Reproduces(wire[i + 1])
    BY <1>2, <1>3, <2>1
  <2>3. Reproduces(wire[i])'
    BY <1>1, <2>2 DEF Reproduces
  <2>4. lastSeq + (i + 1) = lastSeq' + i
    BY <1>1, <1>2, <2>1
  <2>5. QED
    BY <2>2, <2>3, <2>4
<1>7. Len(wire') = seq' - lastSeq' /\ link' = "up"
  BY <1>1, <1>2, <1>3
<1>8. QED
  BY <1>1, <1>2, <1>3, <1>4, <1>5, <1>6, <1>7 DEF ClientInv

\* Resync puts exactly the frames the client has missed on the wire: a cursor
\* inside the window is the position in the buffer behind which they start.
LEMMA ResyncKeepsClient ==
    ASSUME LiveInv, Resync
    PROVE  ClientInv'
<1>1. /\ link = "attached" /\ link' = "up"
      /\ UNCHANGED <<tree, seq, buffer, history, cursor, clientTree, lastSeq>>
      /\ wire' = wire \o NewerFrames(buffer, cursor)
  BY DEF Resync, serverVars, clientVars
<1>2. /\ seq \in Nat /\ lastSeq \in Nat /\ lastSeq <= seq
      /\ wire = <<>> /\ cursor = lastSeq /\ WithinWindow
      /\ history \in Seq(Trees) /\ clientTree = history[lastSeq + 1]
      /\ buffer \in Seq(BufferedFrame)
  BY <1>1 DEF LiveInv, ClientInv, WindowInv
<1> DEFINE n == Len(buffer)
           m == lastSeq - (seq - n)
           replayed == NewerFrames(buffer, cursor)
<1>3. n \in Nat /\ DOMAIN buffer = 1 .. n
  BY <1>2, LenProperties
<1>4. \A i \in 1 .. n : buffer[i].seq = seq - n + i /\ Reproduces(buffer[i])
  BY <1>3 DEF LiveInv, WindowInv, RetainedWindow, HistoryInv, FramesReproduceTrees, Reproduces
<1>5. m \in 0 .. n
  BY <1>2, <1>3 DEF WithinWindow
<1>6. \A i \in 1 .. n : buffer[i].seq > cursor <=> i > m
  BY <1>2, <1>3, <1>4
<1>7. /\ replayed \in Seq(BufferedFrame)
      /\ Len(replayed) = n - m
      /\ \A k \in 1 .. n - m : replayed[k] = buffer[m + k]
  <2>1. replayed = NewerFrames(buffer, cursor) /\ StartsBehind(buffer, cursor, m)
    BY <1>6 DEF StartsBehind
  <2> HIDE DEF m, replayed
  <2>2. QED
    BY <1>2, <1>5, <2>1, NewerIsTail
<1>8. wire' = replayed
  <2> HIDE DEF replayed
  <2>1. <<>> \o replayed = replayed
    BY <1>7, ConcatEmptySeq
  <2>2. wire' = <<>> \o replayed
    BY <1>1, <1>2 DEF replayed
  <2>3. QED
    BY <2>1, <2>2
<1>9. n - m = seq - lastSeq
  BY <1>2, <1>3
<1>10. ASSUME NEW k \in 1 .. n - m
       PROVE  wire'[k].seq = lastSeq + k /\ Reproduces(wire[k])'
  <2>1. m + k \in 1 .. n
    BY <1>3, <1>5
  <2>2. wire'[k] = buffer[m + k] /\ buffer[m + k].seq = seq - n + (m + k) /\ Reproduces(buffer[m + k])
    BY <1>4, <1>7, <1>8, <2>1
  <2>3. seq - n + (m + k) = lastSeq + k
    BY <1>2, <1>3
  <2>4. Reproduces(wire[k])'
    BY <1>1, <2>2 DEF Reproduces
  <2>5. QED
    BY <2>2, <2>3, <2>4
<1> HIDE DEF n, m, replayed
<1>11. /\ wire' \in Seq(BufferedFrame)
       /\ Len(wire') = seq' - lastSeq'
       /\ \A k \in 1 .. Len(wire') : wire'[k].seq = lastSeq' + k /\ Reproduces(wire[k])'
  BY <1>1, <1>7, <1>8, <1>9, <1>10
<1>12. QED
  BY <1>1, <1>2, <1>11 DEF ClientInv

\* The transport's and the host's steps: nothing is on the wire of a broken
\* transport, and a client behind the window starts over at the current tree.
LEMMA LinkKeepsClient ==
    ASSUME LiveInv, Drop \/ Reconnect \/ Reseed
    PROVE  ClientInv'
<1>1. /\ UNCHANGED <<tree, seq, buffer, history>> /\ seq \in Nat
      /\ history \in Seq(Trees) /\ wire \in Seq(BufferedFrame)
      /\ lastSeq \in Nat /\ lastSeq <= seq /\ clientTree = history[lastSeq + 1]
      /\ Len(history) = seq + 1 /\ tree = history[seq + 1]
  BY DEF Drop, Reconnect, Reseed, serverVars, LiveInv, ClientInv, WindowInv, HistoryInv,
         FramesReproduceTrees
<1>2. CASE Drop
  <2>1. link' = "down" /\ wire' = <<>> /\ UNCHANGED <<clientTree, lastSeq>>
    BY <1>2 DEF Drop, clientVars
  <2>2. QED
    BY <1>1, <2>1 DEF ClientInv
<1>3. CASE Reconnect
  <2>1. link = "down" /\ link' = "attached" /\ cursor' = lastSeq /\ WithinWindow
        /\ UNCHANGED <<wire, clientTree, lastSeq>>
    BY <1>3 DEF Reconnect, clientVars
  <2>2. wire = <<>>
    BY <2>1 DEF LiveInv, ClientInv
  <2>3. WithinWindow'
    BY <1>1, <2>1 DEF WithinWindow
  <2>4. QED
    BY <1>1, <2>1, <2>2, <2>3 DEF ClientInv
<1>4. CASE Reseed
  <2>1. link = "down" /\ link' = "up" /\ clientTree' = tree /\ lastSeq' = seq /\ UNCHANGED wire
    BY <1>4 DEF Reseed
  <2>2. wire = <<>> /\ Len(wire') = 0
    BY <2>1 DEF LiveInv, ClientInv
  <2>3. Len(wire') = seq' - lastSeq' /\ lastSeq' <= seq'
    BY <1>1, <2>1, <2>2
  <2>4. QED
    BY <1>1, <2>1, <2>2, <2>3 DEF ClientInv
<1>5. QED
  BY <1>2, <1>3, <1>4

\* A step that moves neither side.
LEMMA ClientUnmoved ==
    ASSUME ClientInv, UNCHANGED <<seq, buffer, wire, history, link, cursor, clientTree, lastSeq>>
    PROVE  ClientInv'
<1>1. \A i \in 1 .. Len(wire) : Reproduces(wire[i]) => Reproduces(wire[i])'
  BY DEF Reproduces
<1>2. WithinWindow' = WithinWindow
  BY DEF WithinWindow
<1>3. QED
  BY <1>1, <1>2 DEF ClientInv

\* Every step keeps the window, the history and the client's copy together.
LEMMA LiveStep ==
    ASSUME Projections = {}, AtomicReattach, LiveInv, [Next]_vars
    PROVE  LiveInv'
<1>1. WindowInv' /\ HistoryInv'
  <2>1. ASSUME NEW list \in PushedLists, tree' = ApplyAll(tree, list), PushOps(list)
        PROVE  WindowInv' /\ HistoryInv'
    BY <2>1, PushKeepsWindow, PushKeepsHistory DEF LiveInv
  <2>2. CASE UNCHANGED <<tree, seq, buffer, history>>
    BY <2>2 DEF LiveInv, WindowInv, RetainedWindow, HistoryInv, FramesReproduceTrees
  <2>3. QED
    BY <2>1, <2>2, StepAppliesOrNot
<1>2. CASE Handle
  <2>1. tree \in Trees
    <3>1. history \in Seq(Trees) /\ Len(history) = seq + 1 /\ tree = history[seq + 1] /\ seq \in Nat
      BY DEF LiveInv, ClientInv, WindowInv, HistoryInv, FramesReproduceTrees
    <3>2. seq + 1 \in 1 .. Len(history)
      BY <3>1
    <3>3. QED
      BY <3>1, <3>2, ElementOfSeq
  <2>2. link # "attached" /\ UNCHANGED <<link, cursor, clientVars>>
    BY <1>2, <2>1, HandlePushesOrNot
  <2>3. ASSUME NEW list \in PushedLists, tree' = ApplyAll(tree, list), tree' \in Trees, PushOps(list)
        PROVE  ClientInv'
    BY <1>1, <2>2, <2>3, PushKeepsClient
  <2>4. CASE UNCHANGED <<tree, seq, buffer, wire, history>>
    <3>1. UNCHANGED <<seq, buffer, wire, history, link, cursor, clientTree, lastSeq>>
      BY <2>2, <2>4 DEF clientVars
    <3>2. QED
      BY <1>1, <3>1, ClientUnmoved DEF LiveInv
  <2>5. QED
    BY <1>1, <1>2, <2>1, <2>3, <2>4, HandlePushesOrNot DEF LiveInv
<1>3. CASE ClientReceive
  BY <1>1, <1>3, ReceiveKeepsClient DEF LiveInv
<1>4. CASE Resync
  BY <1>1, <1>4, ResyncKeepsClient DEF LiveInv
<1>5. CASE Drop \/ Reconnect \/ Reseed
  BY <1>1, <1>5, LinkKeepsClient DEF LiveInv
<1>6. CASE UNCHANGED vars
  BY <1>1, <1>6, ClientUnmoved DEF vars, LiveInv
<1>7. QED
  BY <1>2, <1>3, <1>4, <1>5, <1>6 DEF Next

\* The first tree is the client's, and nothing is on the wire.
LEMMA LiveStarts == Init => LiveInv
<1> SUFFICES ASSUME Init PROVE LiveInv
  OBVIOUS
<1>1. /\ seq = 0 /\ buffer = <<>> /\ history = <<tree>> /\ tree \in Trees
      /\ link = "up" /\ wire = <<>> /\ clientTree = tree /\ lastSeq = 0
      /\ BufferCap \in Nat \ {0}
  BY ConnectionAssumption DEF Init
<1>2. WindowInv
  BY <1>1 DEF WindowInv, RetainedWindow
<1>3. history \in Seq(Trees) /\ Len(history) = 1 /\ history[1] = tree
  BY <1>1
<1>4. HistoryInv
  BY <1>1, <1>3 DEF HistoryInv, FramesReproduceTrees
<1>5. ClientInv
  BY <1>1, <1>3 DEF ClientInv
<1>6. QED
  BY <1>2, <1>4, <1>5 DEF LiveInv

\* What a step does to the server's trees and the client's copy: it publishes
\* a tree, shows the client its next one, re-seeds it, or neither moves.
LEMMA LiveStepIsAllowed ==
    ASSUME Projections = {}, AtomicReattach, LiveInv, [Next]_vars
    PROVE  [Live!LiveNext]_(Live!liveVars)
<1>1. /\ history \in Seq(Trees) /\ Len(history) = seq + 1 /\ tree = history[seq + 1]
      /\ seq \in Nat /\ lastSeq \in Nat
  BY DEF LiveInv, ClientInv, WindowInv, HistoryInv, FramesReproduceTrees
<1>2. CASE Handle
  <2>1. tree \in Trees
    <3>1. seq + 1 \in 1 .. Len(history)
      BY <1>1
    <3>2. QED
      BY <1>1, <3>1, ElementOfSeq
  <2>2. UNCHANGED <<clientTree, lastSeq>>
    BY <1>2, <2>1, HandlePushesOrNot DEF clientVars
  <2>3. ASSUME NEW list \in PushedLists, tree' \in Trees, PushOps(list)
        PROVE  Live!Publish
    <3>1. history' = Append(history, tree')
      BY <2>3 DEF PushOps
    <3>2. QED
      BY <2>2, <2>3, <3>1 DEF Live!Publish
  <2>4. CASE UNCHANGED <<tree, seq, buffer, wire, history>>
    BY <2>2, <2>4 DEF Live!liveVars
  <2>5. QED
    BY <1>2, <2>1, <2>3, <2>4, HandlePushesOrNot DEF Live!LiveNext
<1>3. CASE ClientReceive
  <2>1. /\ UNCHANGED history /\ lastSeq < seq /\ lastSeq' = lastSeq + 1
        /\ clientTree' = history[lastSeq + 2]
    BY <1>3, ReceiveSees
  <2>2. (lastSeq + 1) + 1 = lastSeq + 2 /\ lastSeq + 1 < Len(history)
    BY <1>1, <2>1
  <2>3. Live!See
    BY <2>1, <2>2 DEF Live!See
  <2>4. QED
    BY <2>3 DEF Live!LiveNext
<1>4. CASE Reseed
  <2>1. UNCHANGED history /\ lastSeq' = seq /\ clientTree' = tree
    BY <1>4 DEF Reseed, serverVars
  <2>2. Live!Reseeded
    BY <1>1, <2>1 DEF Live!Reseeded
  <2>3. QED
    BY <2>2 DEF Live!LiveNext
<1>5. CASE Resync \/ Drop \/ Reconnect \/ UNCHANGED vars
  BY <1>5 DEF Resync, Drop, Reconnect, vars, serverVars, clientVars, Live!liveVars
<1>6. QED
  BY <1>2, <1>3, <1>4, <1>5 DEF Next

\* The connection implements LiveTree: whatever breaks, is lost and is replayed,
\* the client's copy goes through the server's trees one by one, in order, unless
\* it is re-seeded with the current one (serverdriven/connection.go).  It rests on
\* a host that re-attaches and resyncs in one go, and on no reject projection:
\* the ops of one are pushed and never applied by the session.
THEOREM ClientWalksTheTrees ==
    ASSUME Projections = {}, AtomicReattach
    PROVE  Spec => ImplementsLiveTree
<1>1. LiveInv /\ [Next]_vars => LiveInv'
  BY LiveStep
<1>2. Init => Live!LiveInit
  <2> SUFFICES ASSUME Init PROVE Live!LiveInit
    OBVIOUS
  <2>1. history = <<tree>> /\ clientTree = tree /\ lastSeq = 0
    BY DEF Init
  <2>2. Len(history) = 1 /\ history[1] = tree /\ lastSeq + 1 = 1
    BY <2>1
  <2>3. QED
    BY <2>1, <2>2 DEF Live!LiveInit
<1>3. LiveInv /\ [Next]_vars => [Live!LiveNext]_(Live!liveVars)
  BY LiveStepIsAllowed
<1>4. QED
  BY LiveStarts, <1>1, <1>2, <1>3, PTL DEF Spec, ImplementsLiveTree, Live!LiveSpec

-----------------------------------------------------------------------------
(* The gate.                                                               *)

\* The op lists that add granted nodes only, and the frames that hold them.
VettedLists == {list \in PushedLists : FrameAddsWithin(list, Granted)}

VettedFrame == [seq: Nat \ {0}, ops: VettedLists]

\* Both trees hold granted nodes only, and so does whatever can still reach the
\* client: on the wire, or in the buffer for a later Resync.
VettedInv ==
    /\ seq \in Nat
    /\ tree \in Trees /\ tree \subseteq Granted
    /\ clientTree \in Trees /\ clientTree \subseteq Granted
    /\ buffer \in Seq(VettedFrame)
    /\ wire \in Seq(VettedFrame)

\* A vetted list takes a tree of granted nodes to another one, or to nothing.
LEMMA VettedResult ==
    ASSUME NEW t \in Trees, t \subseteq Granted, NEW list \in VettedLists
    PROVE  LET next == ApplyAll(t, list)
           IN  next # NoTree => next \in Trees /\ next \subseteq Granted
<1>1. list \in Seq(FrameOps) /\ FrameAddsWithin(list, Granted)
  BY ConnectionAssumption DEF VettedLists, PushedLists
<1>2. t \in ResultsIn(Granted)
  BY DEF ResultsIn
<1>3. ApplyAll(t, list) \in ResultsIn(Granted)
  BY <1>1, <1>2, AllResult
<1>4. QED
  BY <1>3 DEF ResultsIn

\* Pushing a vetted list keeps the buffer and the wire vetted.
LEMMA PushKeepsVetted ==
    ASSUME VettedInv, NEW list \in VettedLists, PushOps(list)
    PROVE  seq' \in Nat /\ buffer' \in Seq(VettedFrame) /\ wire' \in Seq(VettedFrame)
<1> DEFINE frame == [seq |-> seq + 1, ops |-> list]
<1>1. /\ seq \in Nat /\ seq' = seq + 1 /\ buffer' = Buffered(frame) /\ wire' = Pushed(<<frame>>)
      /\ buffer \in Seq(VettedFrame) /\ wire \in Seq(VettedFrame)
  BY DEF PushOps, VettedInv
<1>2. frame \in VettedFrame
  BY <1>1 DEF VettedFrame
<1> HIDE DEF frame
<1>3. buffer' \in Seq(VettedFrame)
  <2>1. CASE Len(buffer) >= BufferCap
    <3>1. buffer # <<>>
      BY <2>1, ConnectionAssumption
    <3>2. Tail(buffer) \in Seq(VettedFrame)
      BY <1>1, <3>1, HeadTailProperties
    <3>3. QED
      BY <1>1, <1>2, <2>1, <3>2, AppendProperties DEF Buffered
  <2>2. CASE ~(Len(buffer) >= BufferCap)
    BY <1>1, <1>2, <2>2, AppendProperties DEF Buffered
  <2>3. QED
    BY <2>1, <2>2
<1>4. wire' \in Seq(VettedFrame)
  <2>1. wire \o <<frame>> \in Seq(VettedFrame)
    BY <1>1, <1>2, PushedFrame
  <2>2. QED
    BY <1>1, <2>1 DEF Pushed
<1>5. QED
  BY <1>1, <1>3, <1>4

\* What the gate and a careful projection let a step push is vetted.
LEMMA VettedHandle ==
    ASSUME Gated,
           \A list \in PushedLists : NoEditNode(list),
           \A list \in Projections : ~GateRefuses(list),
           VettedInv, Handle
    PROVE  VettedInv'
<1>1. UNCHANGED clientTree
  BY DEF Handle, clientVars
<1>2. ASSUME NEW list \in PushedLists, ~GateRefuses(list) PROVE list \in VettedLists
  <2>1. list \in Seq(FrameOps)
    BY ConnectionAssumption DEF PushedLists
  <2>2. FrameAddsWithin(list, Granted)
    BY <1>2, <2>1, GateSeesAdditions
  <2>3. QED
    BY <2>2 DEF VettedLists
<1>3. PICK ev \in Events, answer \in Answers : HandleApplied(ev, answer) \/ HandleRejected(ev, answer)
  BY DEF Handle
<1>4. CASE HandleApplied(ev, answer)
  <2>1. CASE answer.ops = <<>>
    BY <1>1, <1>4, <2>1 DEF HandleApplied, NoPush, VettedInv
  <2>2. CASE answer.ops # <<>>
    <3>1. answer.ops \in PushedLists
      BY <1>3, <2>2 DEF Answers, PushedLists
    <3>2. ~GateRefuses(answer.ops) /\ ApplyAll(tree, answer.ops) # NoTree
      BY <1>4 DEF HandleApplied, Verdict
    <3>3. answer.ops \in VettedLists
      BY <1>2, <3>1, <3>2
    <3>4. tree' = ApplyAll(tree, answer.ops) /\ PushOps(answer.ops)
      BY <1>4, <2>2 DEF HandleApplied
    <3>5. tree' \in Trees /\ tree' \subseteq Granted
      BY <3>2, <3>3, <3>4, VettedResult DEF VettedInv
    <3>6. QED
      BY <1>1, <3>3, <3>4, <3>5, PushKeepsVetted DEF VettedInv
  <2>3. QED
    BY <2>1, <2>2
<1>5. CASE HandleRejected(ev, answer)
  <2>1. UNCHANGED tree
    BY <1>5 DEF HandleRejected
  <2>2. PICK list \in Projections \cup {<<>>} : IF list = <<>> THEN NoPush ELSE PushOps(list)
    BY <1>5 DEF HandleRejected
  <2>3. CASE list = <<>>
    BY <1>1, <2>1, <2>2, <2>3 DEF NoPush, VettedInv
  <2>4. CASE list # <<>>
    <3>1. list \in VettedLists
      BY <1>2, <2>2, <2>4 DEF PushedLists
    <3>2. PushOps(list)
      BY <2>2, <2>4
    <3>3. QED
      BY <1>1, <2>1, <3>1, <3>2, PushKeepsVetted DEF VettedInv
  <2>5. QED
    BY <2>3, <2>4
<1>6. QED
  BY <1>3, <1>4, <1>5

\* The steps of the client, the host and the transport move vetted frames.
LEMMA VettedElsewhere ==
    ASSUME VettedInv, Resync \/ Drop \/ Reconnect \/ Reseed \/ ClientReceive \/ UNCHANGED vars
    PROVE  VettedInv'
<1>1. UNCHANGED <<tree, seq, buffer>>
  BY DEF Resync, Drop, Reconnect, Reseed, ClientReceive, vars, serverVars
<1>2. CASE Resync
  <2>1. wire' = wire \o NewerFrames(buffer, cursor) /\ UNCHANGED clientTree
    BY <1>2 DEF Resync, clientVars
  <2>2. NewerFrames(buffer, cursor) \in Seq(VettedFrame)
    BY NewerTyped DEF VettedInv
  <2>3. wire' \in Seq(VettedFrame)
    BY <2>1, <2>2, ConcatProperties DEF VettedInv
  <2>4. QED
    BY <1>1, <2>1, <2>3 DEF VettedInv
<1>3. CASE ClientReceive
  <2>1. wire # <<>> /\ wire \in Seq(VettedFrame) /\ wire' = Tail(wire)
    BY <1>3 DEF ClientReceive, VettedInv
  <2>2. wire' \in Seq(VettedFrame) /\ Head(wire) \in VettedFrame
    BY <2>1, HeadTailProperties
  <2>3. Head(wire).ops \in VettedLists
    BY <2>2 DEF VettedFrame
  <2>4. UNCHANGED clientTree \/ ClientApplies(Head(wire))
    BY <1>3 DEF ClientReceive, clientVars
  <2>5. clientTree' \in Trees /\ clientTree' \subseteq Granted
    BY <2>3, <2>4, VettedResult DEF VettedInv, ClientApplies
  <2>6. QED
    BY <1>1, <2>2, <2>5 DEF VettedInv
<1>4. CASE Drop
  BY <1>1, <1>4 DEF Drop, clientVars, VettedInv
<1>5. CASE Reseed
  BY <1>1, <1>5 DEF Reseed, VettedInv
<1>6. CASE Reconnect \/ UNCHANGED vars
  BY <1>1, <1>6 DEF Reconnect, clientVars, vars, VettedInv
<1>7. QED
  BY <1>2, <1>3, <1>4, <1>5, <1>6

\* With the gate on, no Mount with a withheld capability is ever in the server's
\* tree or in the client's (serverdriven/gate.go): not through a Batch or a new
\* root, and not through a frame that is replayed after a reconnect.  It holds for
\* handlers and reject projections that send no EditNode, whose nodes the gate
\* does not vet (the run connection_edit_gate shows one), and for projections
\* whose ops the gate would let through, as nothing checks them.
THEOREM UngrantedMountsStayOut ==
    ASSUME \A list \in HandlerLists \cup Projections : NoEditNode(list),
           \A list \in Projections : ~GateRefuses(list)
    PROVE  Spec => []NoUngrantedMount
<1>1. CASE Gated
  <2>1. Init => VettedInv
    <3> SUFFICES ASSUME Init PROVE VettedInv
      OBVIOUS
    <3>1. /\ tree \in Trees /\ (\A n \in tree : Withheld(n) = {})
          /\ seq = 0 /\ buffer = <<>> /\ wire = <<>> /\ clientTree = tree
      BY <1>1 DEF Init
    <3>2. tree \subseteq Granted
      BY <3>1 DEF Trees, Granted
    <3>3. QED
      BY <3>1, <3>2 DEF VettedInv
  <2>2. VettedInv /\ [Next]_vars => VettedInv'
    <3> SUFFICES ASSUME VettedInv, [Next]_vars PROVE VettedInv'
      OBVIOUS
    <3>1. CASE Handle
      BY <1>1, <3>1, VettedHandle DEF PushedLists
    <3>2. CASE Resync \/ Drop \/ Reconnect \/ Reseed \/ ClientReceive \/ UNCHANGED vars
      BY <3>2, VettedElsewhere
    <3>3. QED
      BY <3>1, <3>2 DEF Next
  <2>3. VettedInv => NoUngrantedMount
    BY DEF VettedInv, NoUngrantedMount, Granted
  <2>4. QED
    BY <2>1, <2>2, <2>3, PTL DEF Spec
<1>2. CASE ~Gated
  <2>1. NoUngrantedMount
    BY <1>2 DEF NoUngrantedMount
  <2>2. QED
    BY <2>1, PTL
<1>3. QED
  BY <1>1, <1>2
=============================================================================
