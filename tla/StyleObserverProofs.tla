------------------------ MODULE StyleObserverProofs ------------------------
(***************************************************************************)
(* Proofs about StyleObserver, for any nodes and inputs, any number of     *)
(* subscriptions and changes, and emissions inside one another to any      *)
(* depth, when no subscriber unsubscribes from inside a callback.          *)
(***************************************************************************)
EXTENDS StyleObserver, SequenceTheorems, FiniteSetTheorems, TLAPS

Flags == {FlagsOf[inp] : inp \in Inputs}

Loops == [node : Nodes, flags : Flags, array : Nat, len : Nat, at : Nat,
          called : Seq(Nat), due : SUBSET Ids]

\* The first l slots of the array hold subscriptions already made, each once.
Numbered(a, l) ==
    /\ a \in 1 .. Len(arrays) /\ l \in 0 .. Len(arrays[a])
    /\ \A i \in 1 .. l : arrays[a][i] \in 0 .. nextSubID - 1
    /\ \A i, j \in 1 .. l : arrays[a][i] = arrays[a][j] => i = j

RegistryInv ==
    /\ registry \in [Nodes -> Inputs \cup {None}]
    /\ lastFlags = [n \in Nodes |-> IF registry[n] = None THEN None ELSE FlagsOf[registry[n]]]

SliceInv ==
    /\ arrays \in Seq(Seq(Nat))
    /\ slice \in [array : Nat, len : Nat]
    /\ nextSubID \in 0 .. MaxSubs
    /\ Numbered(slice.array, slice.len)

\* A loop walks slots that Subscribe does not write: it appends behind them, or
\* into another array.
InsideSlice(e) ==
    /\ Numbered(e.array, e.len)
    /\ e.at \in 1 .. e.len
    /\ e.array = slice.array => e.len <= slice.len

\* It has called the subscriptions in its slots so far, and all that are due are in them.
CallsInTurn(e) ==
    /\ Len(e.called) = e.at
    /\ \A j \in 1 .. e.at : e.called[j] = arrays[e.array][j]
    /\ \A id \in e.due : \E j \in 1 .. e.len : arrays[e.array][j] = id

TellsTheState(e) ==
    e.node \notin overtaken => registry[e.node] # None /\ e.flags = FlagsOf[registry[e.node]]

LoopsInv ==
    /\ stack \in Seq(Loops)
    /\ \A k \in 1 .. Len(stack) :
         InsideSlice(stack[k]) /\ CallsInTurn(stack[k]) /\ TellsTheState(stack[k])

\* A loop about the node has the subscription still before it.
ToHear(id, n) ==
    \E k \in 1 .. Len(stack) :
        /\ stack[k].node = n
        /\ \E j \in stack[k].at + 1 .. stack[k].len : arrays[stack[k].array][j] = id

HeardInv ==
    /\ heard \in [Ids -> [Nodes -> Flags \cup {None}]]
    /\ \A id \in Ids, n \in Nodes : id >= nextSubID => heard[id][n] = None
    /\ \A id \in Current, n \in Nodes :
         registry[n] # None /\ n \notin overtaken /\ heard[id][n] # None
           => heard[id][n] = FlagsOf[registry[n]] \/ ToHear(id, n)

ObserverInv == RegistryInv /\ SliceInv /\ LoopsInv /\ HeardInv

-----------------------------------------------------------------------------
(* What the loops read.                                                    *)

\* Without its last entry a sequence keeps the others.
LEMMA FrontFacts ==
    ASSUME NEW S, NEW s \in Seq(S), s # <<>>
    PROVE  /\ Front(s) \in Seq(S) /\ Len(Front(s)) = Len(s) - 1
           /\ \A k \in 1 .. Len(s) - 1 : Front(s)[k] = s[k]
<1>1. PICK n \in Nat \ {0} : n = Len(s)
  BY EmptySeq
<1>2. \A k \in 1 .. n - 1 : s[k] \in S
  BY <1>1, ElementOfSeq
<1>3. 1 \in Int /\ n - 1 \in Int
  BY <1>1
<1>4. /\ SubSeq(s, 1, n - 1) \in Seq(S)
      /\ Len(SubSeq(s, 1, n - 1)) = IF 1 <= n - 1 THEN n - 1 - 1 + 1 ELSE 0
      /\ \A k \in 1 .. n - 1 - 1 + 1 : SubSeq(s, 1, n - 1)[k] = s[1 + k - 1]
  BY <1>2, <1>3, SubSeqProperties
<1>5. Len(SubSeq(s, 1, n - 1)) = n - 1
  BY <1>1, <1>4
<1>6. \A k \in 1 .. n - 1 : SubSeq(s, 1, n - 1)[k] = s[k]
  BY <1>1, <1>4
<1>7. QED
  BY <1>1, <1>4, <1>5, <1>6 DEF Front

\* The subscriptions in the first slots of an array are among the Ids.
LEMMA NumberedAreIds ==
    ASSUME SliceInv, NEW a, NEW l, Numbered(a, l), NEW i \in 1 .. l
    PROVE  arrays[a][i] \in Ids /\ arrays[a][i] < nextSubID
<1>1. arrays[a][i] \in 0 .. nextSubID - 1 /\ nextSubID \in 0 .. MaxSubs /\ MaxSubs \in Nat
  BY ObserverAssumption DEF Numbered, SliceInv
<1>2. QED
  BY <1>1 DEF Ids

\* An emission starts as a loop over the whole slice, at its first slot.
LEMMA EmissionFacts ==
    ASSUME SliceInv, NEW n \in Nodes, NEW flags \in Flags, slice.len # 0
    PROVE  LET e == Emission(n, flags)
           IN  /\ e \in Loops /\ e.node = n /\ e.flags = flags /\ e.at = 1
               /\ e.array = slice.array /\ e.len = slice.len
               /\ InsideSlice(e) /\ CallsInTurn(e)
<1> DEFINE e == Emission(n, flags)
<1>1. /\ slice.array \in Nat /\ slice.len \in Nat \ {0}
      /\ 1 \in 1 .. slice.len
  BY DEF SliceInv
<1>2. Numbered(slice.array, slice.len)
  BY DEF SliceInv
<1>3. arrays[slice.array][1] \in Nat
  BY <1>1, <1>2, NumberedAreIds, ObserverAssumption DEF Ids
<1>4. Current \in SUBSET Ids
  BY DEF Current
<1>5. /\ e.node = n /\ e.flags = flags /\ e.at = 1 /\ e.due = Current
      /\ e.array = slice.array /\ e.len = slice.len /\ e.called = <<arrays[slice.array][1]>>
  BY DEF Emission
<1>6. e \in Loops
  BY <1>1, <1>3, <1>4 DEF Emission, Loops
<1>7. InsideSlice(e)
  BY <1>1, <1>2, <1>5 DEF InsideSlice
<1>8. CallsInTurn(e)
  <2>1. Len(e.called) = 1 /\ e.called[1] = arrays[slice.array][1]
    BY <1>5
  <2>2. \A id \in e.due : \E j \in 1 .. e.len : arrays[e.array][j] = id
    BY <1>5 DEF Current, Subscribed
  <2>3. QED
    BY <2>1, <2>2, <1>5 DEF CallsInTurn
<1>9. QED
  BY <1>5, <1>6, <1>7, <1>8

\* The loop that goes on calls the next of its slots.
LEMMA NextFacts ==
    ASSUME SliceInv, NEW e \in Loops, InsideSlice(e), CallsInTurn(e), e.at # e.len,
           NEW next, next = [e EXCEPT !.at = @ + 1,
                                      !.called = Append(@, arrays[e.array][e.at + 1])]
    PROVE  /\ next \in Loops /\ next.node = e.node /\ next.flags = e.flags
           /\ next.array = e.array /\ next.len = e.len /\ next.at = e.at + 1
           /\ InsideSlice(next) /\ CallsInTurn(next)
<1>1. /\ e.at \in Nat /\ e.len \in Nat /\ e.at + 1 \in 1 .. e.len /\ e.called \in Seq(Nat)
      /\ Numbered(e.array, e.len)
  BY DEF InsideSlice, Loops
<1> DEFINE x == arrays[e.array][e.at + 1]
<1>2. x \in Nat
  BY <1>1, NumberedAreIds, ObserverAssumption DEF Ids
<1>3. /\ Append(e.called, x) \in Seq(Nat)
      /\ Len(Append(e.called, x)) = Len(e.called) + 1
      /\ \A j \in 1 .. Len(e.called) : Append(e.called, x)[j] = e.called[j]
      /\ Append(e.called, x)[Len(e.called) + 1] = x
  BY <1>1, <1>2, AppendProperties
<1>4. /\ next.node = e.node /\ next.flags = e.flags /\ next.array = e.array
      /\ next.len = e.len /\ next.at = e.at + 1 /\ next.called = Append(e.called, x)
      /\ next.due = e.due
  BY DEF Loops
<1>5. next \in Loops
  <2>1. next = [node |-> e.node, flags |-> e.flags, array |-> e.array, len |-> e.len,
                at |-> e.at + 1, called |-> Append(e.called, x), due |-> e.due]
    BY DEF Loops
  <2>2. e.at + 1 \in Nat
    BY <1>1
  <2>3. QED
    BY <1>3, <2>1, <2>2 DEF Loops
<1>6. InsideSlice(next)
  BY <1>1, <1>4 DEF InsideSlice
<1>7. CallsInTurn(next)
  <2>1. Len(e.called) = e.at /\ \A j \in 1 .. e.at : e.called[j] = arrays[e.array][j]
    BY DEF CallsInTurn
  <2>2. \A j \in 1 .. next.at : next.called[j] = arrays[next.array][j]
    <3>1. ASSUME NEW j \in 1 .. e.at + 1
          PROVE  Append(e.called, x)[j] = arrays[e.array][j]
      <4>1. CASE j = e.at + 1
        BY <1>3, <2>1, <4>1
      <4>2. CASE j # e.at + 1
        BY <1>1, <1>3, <2>1, <4>2
      <4>3. QED
        BY <4>1, <4>2
    <3>2. QED
      BY <1>4, <3>1
  <2>3. Len(next.called) = next.at
    BY <1>3, <1>4, <2>1
  <2>4. \A id \in next.due : \E j \in 1 .. next.len : arrays[next.array][j] = id
    BY <1>4 DEF CallsInTurn
  <2>5. QED
    BY <2>2, <2>3, <2>4 DEF CallsInTurn
<1>8. QED
  BY <1>4, <1>5, <1>6, <1>7

-----------------------------------------------------------------------------
(* What the properties need of the invariant.                              *)

\* It holds of the empty observer.
LEMMA InitObserver ==
    ASSUME Init
    PROVE  ObserverInv
<1>1. RegistryInv
  BY DEF Init, RegistryInv
<1>2. /\ arrays \in Seq(Seq(Nat)) /\ Len(arrays) = 1 /\ arrays[1] = <<>> /\ Len(arrays[1]) = 0
      /\ slice.array = 1 /\ slice.len = 0 /\ nextSubID = 0
  <2>1. <<>> \in Seq(Nat)
    BY EmptySeq
  <2>2. QED
    BY <2>1 DEF Init
<1>3. SliceInv
  <2>1. Numbered(slice.array, slice.len)
    BY <1>2 DEF Numbered
  <2>2. slice \in [array : Nat, len : Nat] /\ nextSubID \in 0 .. MaxSubs
    BY ObserverAssumption DEF Init
  <2>3. QED
    BY <1>2, <2>1, <2>2 DEF SliceInv
<1>4. LoopsInv
  <2>1. stack \in Seq(Loops) /\ Len(stack) = 0
    BY EmptySeq DEF Init
  <2>2. QED
    BY <2>1 DEF LoopsInv
<1>5. HeardInv
  <2>1. \A id \in Ids, n \in Nodes : heard[id][n] = None
    BY DEF Init
  <2>2. heard \in [Ids -> [Nodes -> Flags \cup {None}]]
    BY DEF Init
  <2>3. Current \subseteq Ids
    BY DEF Current
  <2>4. QED
    BY <2>1, <2>2, <2>3 DEF HeardInv
<1>6. QED
  BY <1>1, <1>3, <1>4, <1>5 DEF ObserverInv

\* With no loop under way nobody has anything still to hear.
LEMMA QuietMeansTold ==
    ASSUME ObserverInv
    PROVE  NobodyIsBehind
<1>1. SUFFICES ASSUME stack = <<>>, NEW id \in Current, NEW n \in Nodes,
                      registry[n] # None, n \notin overtaken, heard[id][n] # None
               PROVE  heard[id][n] = FlagsOf[registry[n]]
  BY DEF NobodyIsBehind
<1>2. Len(stack) = 0
  BY <1>1
<1>3. ~ ToHear(id, n)
  BY <1>2 DEF ToHear
<1>4. QED
  BY <1>1, <1>3 DEF ObserverInv, HeardInv

\* A loop at its last slot has called whoever is due in exactly one place.
LEMMA DueCalledOnce ==
    ASSUME NEW e \in Loops, InsideSlice(e), CallsInTurn(e), e.at = e.len, NEW id \in e.due
    PROVE  Cardinality({i \in DOMAIN e.called : e.called[i] = id}) = 1
<1>1. DOMAIN e.called = 1 .. e.len
  <2>1. e.called \in Seq(Nat)
    BY DEF Loops
  <2>2. QED
    BY <2>1, LenProperties DEF CallsInTurn
<1>2. \A j \in 1 .. e.len : e.called[j] = arrays[e.array][j]
  BY DEF CallsInTurn
<1>3. PICK j \in 1 .. e.len : arrays[e.array][j] = id
  BY DEF CallsInTurn
<1>4. \A i \in 1 .. e.len : arrays[e.array][i] = arrays[e.array][j] => i = j
  BY DEF InsideSlice, Numbered
<1>5. {i \in DOMAIN e.called : e.called[i] = id} = {j}
  BY <1>1, <1>2, <1>3, <1>4
<1>6. QED
  BY <1>5, FS_Singleton

-----------------------------------------------------------------------------
(* The loop goes on.                                                       *)

\* The loop ends, or its next subscriber hears what the loop tells.
LEMMA CallbackEndsKeeps ==
    ASSUME ObserverInv, CallbackEnds
    PROVE  ObserverInv'
<1> DEFINE top == Len(stack)
           e == Last(stack)
<1>1. /\ stack \in Seq(Loops) /\ top \in Nat \ {0} /\ e = stack[top]
      /\ \A k \in 1 .. top : stack[k] \in Loops
  <2>1. stack \in Seq(Loops) /\ stack # <<>>
    BY DEF ObserverInv, LoopsInv, CallbackEnds
  <2>2. top \in Nat \ {0}
    BY <2>1, EmptySeq
  <2>3. QED
    BY <2>1, <2>2, ElementOfSeq DEF Last
<1>2. /\ e \in Loops /\ InsideSlice(e) /\ CallsInTurn(e) /\ TellsTheState(e)
      /\ e.at \in Nat /\ e.len \in Nat /\ e.at <= e.len
  <2>1. top \in 1 .. top
    BY <1>1
  <2>2. e \in Loops /\ InsideSlice(e) /\ CallsInTurn(e) /\ TellsTheState(e)
    BY <1>1, <2>1 DEF ObserverInv, LoopsInv
  <2>3. QED
    BY <2>2 DEF InsideSlice, Loops
<1>3. UNCHANGED <<registry, lastFlags, arrays, slice, nextSubID, overtaken>>
  BY DEF CallbackEnds
<1>4. RegistryInv' /\ SliceInv' /\ Current' = Current
  BY <1>3 DEF ObserverInv, RegistryInv, SliceInv, Numbered, Current, Subscribed
<1>5. \A x : (InsideSlice(x)' <=> InsideSlice(x)) /\ (CallsInTurn(x)' <=> CallsInTurn(x))
             /\ (TellsTheState(x)' <=> TellsTheState(x))
  BY <1>3 DEF InsideSlice, CallsInTurn, TellsTheState, Numbered
<1>6. CASE e.at = e.len
  <2>1. stack' = Front(stack) /\ stack # <<>> /\ heard' = heard
    BY <1>6 DEF CallbackEnds
  <2>2. /\ stack' \in Seq(Loops) /\ Len(stack') = top - 1
        /\ \A k \in 1 .. top - 1 : stack'[k] = stack[k]
    BY <1>1, <2>1, FrontFacts
  <2>3. LoopsInv'
    BY <1>1, <1>5, <2>2 DEF ObserverInv, LoopsInv
  <2>4. ASSUME NEW id, NEW n, ToHear(id, n)
        PROVE  ToHear(id, n)'
    <3>1. PICK k \in 1 .. top : /\ stack[k].node = n
                                /\ \E j \in stack[k].at + 1 .. stack[k].len : arrays[stack[k].array][j] = id
      BY <2>4 DEF ToHear
    <3>2. k # top
      BY <1>1, <1>2, <1>6, <3>1
    <3>3. k \in 1 .. Len(stack') /\ stack'[k] = stack[k]
      BY <1>1, <2>2, <3>2
    <3>4. QED
      BY <1>3, <3>1, <3>3 DEF ToHear
  <2>5. HeardInv'
    BY <1>3, <1>4, <2>1, <2>4 DEF ObserverInv, HeardInv
  <2>6. QED
    BY <1>4, <2>3, <2>5 DEF ObserverInv
<1>7. CASE e.at # e.len
  <2>1. PICK next :
          /\ next = [e EXCEPT !.at = @ + 1, !.called = Append(@, arrays[e.array][e.at + 1])]
          /\ stack' = [stack EXCEPT ![top] = next] /\ Hears(next)
    BY <1>7, Zenon DEF CallbackEnds
  <2>2. SliceInv
    BY DEF ObserverInv
  <2>3. /\ next \in Loops /\ next.node = e.node /\ next.flags = e.flags
        /\ next.array = e.array /\ next.len = e.len /\ next.at = e.at + 1
        /\ InsideSlice(next) /\ CallsInTurn(next)
    BY <1>2, <1>7, <2>1, <2>2, NextFacts
  <2>4. /\ stack' \in Seq(Loops) /\ Len(stack') = top
        /\ \A k \in 1 .. top : stack'[k] = IF k = top THEN next ELSE stack[k]
    <3>1. top \in 1 .. Len(stack) /\ stack \in Seq(Loops) /\ next \in Loops
      BY <1>1, <2>3
    <3> HIDE DEF top
    <3>2. /\ [stack EXCEPT ![top] = next] \in Seq(Loops)
          /\ Len([stack EXCEPT ![top] = next]) = Len(stack)
          /\ \A k \in 1 .. Len(stack) :
               [stack EXCEPT ![top] = next][k] = IF k = top THEN next ELSE stack[k]
      BY <3>1, ExceptSeq
    <3>3. QED
      BY <2>1, <3>2 DEF top
  <2>5. TellsTheState(next)
    BY <1>2, <2>3 DEF TellsTheState
  <2>6. LoopsInv'
    BY <1>1, <1>5, <2>3, <2>4, <2>5 DEF ObserverInv, LoopsInv
  <2> DEFINE told == arrays[e.array][e.at + 1]
  <2>7. /\ heard' = [heard EXCEPT ![told][e.node] = e.flags]
        /\ told \in Ids /\ told < nextSubID /\ e.node \in Nodes /\ e.flags \in Flags
    <3>1. e.at + 1 \in 1 .. e.len /\ Numbered(e.array, e.len)
      BY <1>2, <1>7 DEF InsideSlice
    <3>2. told \in Ids /\ told < nextSubID
      BY <2>2, <3>1, NumberedAreIds
    <3>3. QED
      BY <1>2, <2>1, <2>3, <3>2 DEF Hears, Calling, Loops
  <2>8. heard \in [Ids -> [Nodes -> Flags \cup {None}]]
    BY DEF ObserverInv, HeardInv
  <2>9. /\ heard' \in [Ids -> [Nodes -> Flags \cup {None}]]
        /\ \A id \in Ids, n \in Nodes :
             heard'[id][n] = IF id = told /\ n = e.node THEN e.flags ELSE heard[id][n]
    BY <2>7, <2>8
  <2>10. \A id \in Ids, n \in Nodes : id >= nextSubID' => heard'[id][n] = None
    <3>1. ASSUME NEW id \in Ids, NEW n \in Nodes, id >= nextSubID
          PROVE  heard'[id][n] = None
      <4>1. id # told
        BY <2>2, <2>7, <3>1, ObserverAssumption, SMTT(30) DEF Ids, SliceInv
      <4>2. heard[id][n] = None
        BY <3>1 DEF ObserverInv, HeardInv
      <4>3. QED
        BY <2>9, <4>1, <4>2
    <3>2. QED
      BY <1>3, <3>1
  <2>11. ASSUME NEW id \in Current, NEW n \in Nodes,
                registry[n] # None, n \notin overtaken, heard'[id][n] # None
         PROVE  heard'[id][n] = FlagsOf[registry[n]] \/ ToHear(id, n)'
    <3>1. id \in Ids
      BY DEF Current
    <3>2. CASE id = told /\ n = e.node
      BY <1>2, <2>9, <2>11, <3>1, <3>2 DEF TellsTheState
    <3>3. CASE ~ (id = told /\ n = e.node)
      <4>1. heard'[id][n] = heard[id][n]
        BY <2>9, <3>1, <3>3
      <4>2. CASE heard[id][n] = FlagsOf[registry[n]]
        BY <4>1, <4>2
      <4>3. CASE ToHear(id, n)
        <5>1. PICK k \in 1 .. top :
                /\ stack[k].node = n
                /\ \E j \in stack[k].at + 1 .. stack[k].len : arrays[stack[k].array][j] = id
          BY <4>3 DEF ToHear
        <5>2. CASE k # top
          <6>1. k \in 1 .. Len(stack') /\ stack'[k] = stack[k]
            BY <2>4, <5>2
          <6>2. QED
            BY <1>3, <5>1, <6>1 DEF ToHear
        <5>3. CASE k = top
          <6>1. PICK j \in e.at + 1 .. e.len : arrays[e.array][j] = id
            BY <1>1, <5>1, <5>3
          <6>2. e.node = n /\ j # e.at + 1
            BY <1>1, <3>3, <5>1, <5>3, <6>1
          <6>3. j \in next.at + 1 .. next.len
            BY <1>2, <2>3, <6>1, <6>2
          <6>4. stack'[top] = next /\ top \in 1 .. Len(stack')
            BY <1>1, <2>4
          <6>5. next.node = n /\ arrays'[next.array][j] = id
            BY <1>3, <2>3, <6>1, <6>2
          <6>6. QED
            BY <6>3, <6>4, <6>5 DEF ToHear
        <5>4. QED
          BY <5>2, <5>3
      <4>4. QED
        BY <2>11, <4>1, <4>2, <4>3 DEF ObserverInv, HeardInv
    <3>4. QED
      BY <3>2, <3>3
  <2>12. HeardInv'
    BY <1>3, <1>4, <2>9, <2>10, <2>11 DEF HeardInv
  <2>13. QED
    BY <1>4, <2>6, <2>12 DEF ObserverInv
<1>8. QED
  BY <1>6, <1>7

-----------------------------------------------------------------------------
(* The registry changes.                                                   *)

\* The flags cached for a node are those of its input, as they were told.
LEMMA RegistryChanges ==
    ASSUME RegistryInv, NEW n \in Nodes, NEW x \in Inputs \cup {None},
           registry' = [registry EXCEPT ![n] = x],
           lastFlags' = [lastFlags EXCEPT ![n] = IF x = None THEN None ELSE FlagsOf[x]]
    PROVE  /\ RegistryInv'
           /\ registry'[n] = x /\ \A m \in Nodes : m # n => registry'[m] = registry[m]
<1>1. registry' \in [Nodes -> Inputs \cup {None}]
  BY DEF RegistryInv
<1>2. registry'[n] = x /\ \A m \in Nodes : m # n => registry'[m] = registry[m]
  BY DEF RegistryInv
<1>3. lastFlags' = [m \in Nodes |-> IF registry'[m] = None THEN None ELSE FlagsOf[registry'[m]]]
  <2> DEFINE now == IF x = None THEN None ELSE FlagsOf[x]
             cached(m) == IF registry[m] = None THEN None ELSE FlagsOf[registry[m]]
             fresh(m) == IF registry'[m] = None THEN None ELSE FlagsOf[registry'[m]]
  <2>1. lastFlags = [m \in Nodes |-> cached(m)]
    BY DEF RegistryInv
  <2>2. lastFlags' = [m \in Nodes |-> IF m = n THEN now ELSE cached(m)]
    <3>1. lastFlags' = [lastFlags EXCEPT ![n] = now]
      OBVIOUS
    <3> HIDE DEF now, cached
    <3>2. QED
      BY <2>1, <3>1
  <2>3. \A m \in Nodes : (IF m = n THEN now ELSE cached(m)) = fresh(m)
    BY <1>2
  <2>4. lastFlags' = [m \in Nodes |-> fresh(m)]
    <3> HIDE DEF now, cached, fresh
    <3>1. QED
      BY <2>2, <2>3
  <2>5. QED
    BY <2>4
<1>4. QED
  BY <1>1, <1>2, <1>3 DEF RegistryInv

\* A node that is not overtaken by its change is one no loop is about; the loops
\* about other nodes still tell how those are.
LEMMA ChangingFacts ==
    ASSUME ObserverInv, NEW n \in Nodes, Changing(n),
           \A m \in Nodes : m # n => registry'[m] = registry[m],
           UNCHANGED <<arrays, slice, nextSubID>>
    PROVE  /\ SliceInv' /\ Current' = Current
           /\ overtaken \subseteq overtaken'
           /\ n \notin overtaken' => \A k \in 1 .. Len(stack) : stack[k].node # n
           /\ \A k \in 1 .. Len(stack), e \in Loops :
                e = stack[k] => InsideSlice(e)' /\ CallsInTurn(e)' /\ TellsTheState(e)'
<1>1. SliceInv' /\ Current' = Current
  BY DEF ObserverInv, SliceInv, Numbered, Current, Subscribed
<1>2. DOMAIN stack = 1 .. Len(stack) /\ \A k \in 1 .. Len(stack) : stack[k].node \in Nodes
  <2>1. stack \in Seq(Loops)
    BY DEF ObserverInv, LoopsInv
  <2>2. DOMAIN stack = 1 .. Len(stack) /\ \A k \in 1 .. Len(stack) : stack[k] \in Loops
    BY <2>1, LenProperties, ElementOfSeq
  <2>3. QED
    BY <2>2 DEF Loops
<1>3. /\ overtaken \subseteq overtaken'
      /\ n \notin overtaken' => \A k \in 1 .. Len(stack) : stack[k].node # n
  BY <1>2 DEF Changing
<1>4. ASSUME NEW k \in 1 .. Len(stack)
      PROVE  InsideSlice(stack[k]) /\ CallsInTurn(stack[k]) /\ TellsTheState(stack[k])
  BY <1>4 DEF ObserverInv, LoopsInv
<1>5. ASSUME NEW k \in 1 .. Len(stack), NEW e \in Loops, e = stack[k]
      PROVE  InsideSlice(e)' /\ CallsInTurn(e)' /\ TellsTheState(e)'
  <2>1. InsideSlice(e) /\ CallsInTurn(e) /\ TellsTheState(e) /\ e.node \in Nodes
    BY <1>2, <1>4, <1>5
  <2>2. InsideSlice(e)' /\ CallsInTurn(e)'
    BY <2>1 DEF InsideSlice, CallsInTurn, Numbered
  <2>3. TellsTheState(e)'
    BY <1>3, <1>5, <2>1 DEF TellsTheState
  <2>4. QED
    BY <2>2, <2>3
<1>6. QED
  BY <1>1, <1>3, <1>5

\* An emission about a node no other loop is about: its first subscriber hears,
\* the others are before it.
LEMMA EmissionKeeps ==
    ASSUME ObserverInv, NEW n \in Nodes, NEW inp \in Inputs, Changing(n),
           registry' = [registry EXCEPT ![n] = inp],
           lastFlags' = [lastFlags EXCEPT ![n] = FlagsOf[inp]],
           Emit(n, FlagsOf[inp]), UNCHANGED <<arrays, slice, nextSubID>>
    PROVE  ObserverInv'
<1>1. inp # None /\ FlagsOf[inp] \in Flags
  BY ObserverAssumption DEF Flags
<1>2. RegistryInv' /\ registry'[n] = inp /\ \A m \in Nodes : m # n => registry'[m] = registry[m]
  BY <1>1, RegistryChanges DEF ObserverInv
<1>3. /\ SliceInv' /\ Current' = Current
      /\ overtaken \subseteq overtaken'
      /\ n \notin overtaken' => \A k \in 1 .. Len(stack) : stack[k].node # n
      /\ \A k \in 1 .. Len(stack), e \in Loops :
           e = stack[k] => InsideSlice(e)' /\ CallsInTurn(e)' /\ TellsTheState(e)'
  BY <1>2, ChangingFacts
<1>4. /\ stack \in Seq(Loops) /\ \A k \in 1 .. Len(stack) : stack[k] \in Loops
      /\ heard \in [Ids -> [Nodes -> Flags \cup {None}]]
      /\ Current \subseteq Ids /\ SliceInv
  <2>1. stack \in Seq(Loops)
    BY DEF ObserverInv, LoopsInv
  <2>2. QED
    BY <2>1, ElementOfSeq DEF ObserverInv, HeardInv, Current
<1>5. CASE slice.len = 0
  <2>1. stack' = stack /\ heard' = heard
    BY <1>5 DEF Emit
  <2>2. LoopsInv'
    BY <1>3, <1>4, <2>1 DEF LoopsInv
  <2>3. Current = {}
    BY <1>5 DEF Current, Subscribed
  <2>4. HeardInv'
    BY <1>3, <1>4, <2>1, <2>3 DEF ObserverInv, HeardInv
  <2>5. QED
    BY <1>2, <1>3, <2>2, <2>4 DEF ObserverInv
<1>6. CASE slice.len # 0
  <2> DEFINE e == Emission(n, FlagsOf[inp])
             first == arrays[slice.array][1]
  <2>1. /\ e \in Loops /\ e.node = n /\ e.flags = FlagsOf[inp] /\ e.at = 1
        /\ e.array = slice.array /\ e.len = slice.len
        /\ InsideSlice(e) /\ CallsInTurn(e)
    BY <1>1, <1>4, <1>6, EmissionFacts
  <2>2. stack' = Append(stack, e) /\ heard' = [heard EXCEPT ![first][n] = FlagsOf[inp]]
    BY <1>6, <2>1 DEF Emit, Hears, Calling
  <2> HIDE DEF e
  <2>3. /\ stack' \in Seq(Loops) /\ Len(stack') = Len(stack) + 1
        /\ \A k \in 1 .. Len(stack) : stack'[k] = stack[k]
        /\ stack'[Len(stack) + 1] = e
    BY <1>4, <2>1, <2>2, AppendProperties
  <2>4. Len(stack) \in Nat
    BY <1>4, LenProperties
  <2>5. ASSUME NEW f, f = e
        PROVE  InsideSlice(f)' /\ CallsInTurn(f)' /\ TellsTheState(f)'
    <3>1. InsideSlice(f) /\ CallsInTurn(f) /\ f.node = n /\ f.flags = FlagsOf[inp]
      BY <2>1, <2>5
    <3>2. InsideSlice(f)' /\ CallsInTurn(f)'
      BY <3>1 DEF InsideSlice, CallsInTurn, Numbered
    <3>3. TellsTheState(f)'
      BY <1>1, <1>2, <3>1 DEF TellsTheState
    <3>4. QED
      BY <3>2, <3>3
  <2>6. LoopsInv'
    <3>1. ASSUME NEW k \in 1 .. Len(stack'), NEW f, f = stack'[k]
          PROVE  InsideSlice(f)' /\ CallsInTurn(f)' /\ TellsTheState(f)'
      <4>1. CASE k = Len(stack) + 1
        BY <2>3, <2>5, <3>1, <4>1
      <4>2. CASE k # Len(stack) + 1
        <5>1. k \in 1 .. Len(stack)
          BY <2>3, <2>4, <4>2
        <5>2. QED
          BY <1>3, <1>4, <2>3, <3>1, <5>1
      <4>3. QED
        BY <4>1, <4>2
    <3>2. QED
      BY <2>3, <3>1 DEF LoopsInv
  <2>7. /\ first \in Ids /\ first < nextSubID /\ 1 \in 1 .. slice.len
    <3>1. 1 \in 1 .. slice.len /\ Numbered(slice.array, slice.len)
      BY <1>4, <1>6 DEF SliceInv
    <3>2. QED
      BY <1>4, <3>1, NumberedAreIds
  <2>8. /\ heard' \in [Ids -> [Nodes -> Flags \cup {None}]]
        /\ \A id \in Ids, m \in Nodes :
             heard'[id][m] = IF id = first /\ m = n THEN FlagsOf[inp] ELSE heard[id][m]
    BY <1>1, <1>4, <2>2, <2>7
  <2>9. ASSUME NEW id \in Ids, NEW m \in Nodes, id >= nextSubID
        PROVE  heard'[id][m] = None
    <3>1. id # first
      BY <1>4, <2>7, <2>9, ObserverAssumption DEF Ids, SliceInv
    <3>2. heard[id][m] = None
      BY <2>9 DEF ObserverInv, HeardInv
    <3>3. QED
      BY <2>8, <3>1, <3>2
  <2>10. ASSUME NEW id \in Current, NEW m \in Nodes,
                registry'[m] # None, m \notin overtaken', heard'[id][m] # None
         PROVE  heard'[id][m] = FlagsOf[registry'[m]] \/ ToHear(id, m)'
    <3>1. id \in Ids
      BY <1>4
    <3>2. CASE m # n
      <4>1. /\ heard'[id][m] = heard[id][m] /\ registry'[m] = registry[m] /\ m \notin overtaken
        BY <1>2, <1>3, <2>8, <2>10, <3>1, <3>2
      <4>2. heard[id][m] = FlagsOf[registry[m]] \/ ToHear(id, m)
        BY <2>10, <4>1 DEF ObserverInv, HeardInv
      <4>3. ToHear(id, m) => ToHear(id, m)'
        BY <2>3, <2>4 DEF ToHear
      <4>4. QED
        BY <4>1, <4>2, <4>3
    <3>3. CASE m = n
      <4>1. PICK i \in 1 .. slice.len : arrays[slice.array][i] = id
        BY DEF Current, Subscribed
      <4>2. CASE i = 1
        BY <1>2, <2>8, <3>1, <3>3, <4>1, <4>2
      <4>3. CASE i # 1
        <5>1. i \in e.at + 1 .. e.len /\ arrays'[e.array][i] = id
          BY <1>4, <2>1, <4>1, <4>3 DEF SliceInv
        <5>2. Len(stack) + 1 \in 1 .. Len(stack') /\ stack'[Len(stack) + 1] = e
          BY <2>3, <2>4
        <5>3. QED
          BY <2>1, <3>3, <5>1, <5>2 DEF ToHear
      <4>4. QED
        BY <4>2, <4>3
    <3>4. QED
      BY <3>2, <3>3
  <2>11. HeardInv'
    BY <1>3, <2>8, <2>9, <2>10 DEF HeardInv
  <2>12. QED
    BY <1>2, <1>3, <2>6, <2>11 DEF ObserverInv
<1>7. QED
  BY <1>5, <1>6

\* A change nobody is told of: the node goes, or keeps its flags.
LEMMA QuietChangeKeeps ==
    ASSUME ObserverInv, NEW n \in Nodes, NEW x \in Inputs \cup {None}, Changing(n),
           registry' = [registry EXCEPT ![n] = x],
           lastFlags' = [lastFlags EXCEPT ![n] = IF x = None THEN None ELSE FlagsOf[x]],
           x # None => registry[n] # None /\ FlagsOf[x] = FlagsOf[registry[n]],
           UNCHANGED <<arrays, slice, nextSubID, stack, heard>>
    PROVE  ObserverInv'
<1>1. RegistryInv' /\ registry'[n] = x /\ \A m \in Nodes : m # n => registry'[m] = registry[m]
  BY RegistryChanges DEF ObserverInv
<1>2. /\ SliceInv' /\ Current' = Current
      /\ overtaken \subseteq overtaken'
      /\ \A k \in 1 .. Len(stack), e \in Loops :
           e = stack[k] => InsideSlice(e)' /\ CallsInTurn(e)' /\ TellsTheState(e)'
  BY <1>1, ChangingFacts
<1>3. LoopsInv'
  <2>1. stack \in Seq(Loops) /\ \A k \in 1 .. Len(stack) : stack[k] \in Loops
    BY ElementOfSeq DEF ObserverInv, LoopsInv
  <2>2. ASSUME NEW k \in 1 .. Len(stack'), NEW e, e = stack'[k]
        PROVE  InsideSlice(e)' /\ CallsInTurn(e)' /\ TellsTheState(e)'
    BY <1>2, <2>1, <2>2
  <2>3. QED
    BY <2>1, <2>2 DEF LoopsInv
<1>4. ASSUME NEW id \in Current, NEW m \in Nodes,
             registry'[m] # None, m \notin overtaken', heard'[id][m] # None
      PROVE  heard'[id][m] = FlagsOf[registry'[m]] \/ ToHear(id, m)'
  <2>1. registry[m] # None /\ FlagsOf[registry'[m]] = FlagsOf[registry[m]]
    BY <1>1, <1>4
  <2>2. m \notin overtaken /\ heard[id][m] # None
    BY <1>2, <1>4
  <2>3. heard[id][m] = FlagsOf[registry[m]] \/ ToHear(id, m)
    BY <2>1, <2>2 DEF ObserverInv, HeardInv
  <2>4. ToHear(id, m) => ToHear(id, m)'
    BY DEF ToHear
  <2>5. QED
    BY <2>1, <2>3, <2>4
<1>5. HeardInv'
  BY <1>2, <1>4 DEF ObserverInv, HeardInv
<1>6. QED
  BY <1>1, <1>2, <1>3, <1>5 DEF ObserverInv

\* Registering always tells.
LEMMA RegisterKeeps ==
    ASSUME ObserverInv, NEW n \in Nodes, NEW inp \in Inputs, RegisterFixture(n, inp)
    PROVE  ObserverInv'
BY EmissionKeeps DEF RegisterFixture

\* Update compares with the cached flags, which are those of the input it replaces.
LEMMA UpdateKeeps ==
    ASSUME ObserverInv, NEW n \in Nodes, NEW inp \in Inputs, Update(n, inp)
    PROVE  ObserverInv'
<1>1. /\ Changing(n) /\ registry[n] # None
      /\ registry' = [registry EXCEPT ![n] = inp]
      /\ lastFlags' = [lastFlags EXCEPT ![n] = FlagsOf[inp]]
      /\ UNCHANGED <<arrays, slice, nextSubID>>
  BY DEF Update
<1>2. CASE EmitOnFlagChangeOnly /\ FlagsOf[inp] = lastFlags[n]
  <2>1. FlagsOf[inp] = FlagsOf[registry[n]]
    BY <1>1, <1>2 DEF ObserverInv, RegistryInv
  <2>2. inp # None /\ inp \in Inputs \cup {None}
    BY ObserverAssumption
  <2>3. stack' = stack /\ heard' = heard
    BY <1>2 DEF Update
  <2>4. lastFlags' = [lastFlags EXCEPT ![n] = IF inp = None THEN None ELSE FlagsOf[inp]]
    BY <1>1, <2>2
  <2>5. QED
    BY <1>1, <2>1, <2>2, <2>3, <2>4, QuietChangeKeeps
<1>3. CASE ~ (EmitOnFlagChangeOnly /\ FlagsOf[inp] = lastFlags[n])
  BY <1>1, <1>3, EmissionKeeps DEF Update
<1>4. QED
  BY <1>2, <1>3

\* Unregistering tells nobody: the node is gone, with its cached flags.
LEMMA UnregisterKeeps ==
    ASSUME ObserverInv, NEW n \in Nodes, Unregister(n)
    PROVE  ObserverInv'
<1>1. lastFlags' = [lastFlags EXCEPT ![n] = IF None = None THEN None ELSE FlagsOf[None]]
  BY DEF Unregister
<1>2. QED
  BY <1>1, QuietChangeKeeps DEF Unregister

-----------------------------------------------------------------------------
(* Subscribing writes behind every slot a loop reads.                      *)

\* The slots in use: those of the slice, and every slot of the other arrays.
InUse(a, i) == /\ a \in 1 .. Len(arrays) /\ i \in 1 .. Len(arrays[a])
               /\ a = slice.array => i <= slice.len

\* The slots in use stay, and the slice gets one slot more, for the new
\* subscription: behind its own, or in a new array that begins as a copy.
AppendsOne ==
    /\ arrays' \in Seq(Seq(Nat)) /\ slice' \in [array : Nat, len : Nat]
    /\ \A a \in 1 .. Len(arrays) : a \in 1 .. Len(arrays') /\ Len(arrays'[a]) = Len(arrays[a])
    /\ \A a, i : InUse(a, i) => arrays'[a][i] = arrays[a][i]
    /\ slice'.array \in 1 .. Len(arrays')
    /\ slice'.array # slice.array => slice'.array = Len(arrays) + 1
    /\ slice'.len = slice.len + 1 /\ slice'.len <= Len(arrays'[slice'.array])
    /\ \A i \in 1 .. slice.len : arrays'[slice'.array][i] = arrays[slice.array][i]
    /\ arrays'[slice'.array][slice.len + 1] = nextSubID

\* append does so, whether the array has room or not.
LEMMA SubscribeAppends ==
    ASSUME SliceInv, Subscribe
    PROVE  AppendsOne
<1> DEFINE k == slice.array
           l == slice.len
           a0 == arrays[k]
<1>1. /\ arrays \in Seq(Seq(Nat)) /\ Len(arrays) \in Nat /\ k \in 1 .. Len(arrays)
      /\ l \in 0 .. Len(a0) /\ slice \in [array : Nat, len : Nat]
      /\ a0 \in Seq(Nat) /\ Len(a0) \in Nat /\ nextSubID \in Nat
  <2>1. /\ arrays \in Seq(Seq(Nat)) /\ k \in 1 .. Len(arrays) /\ l \in 0 .. Len(a0)
        /\ slice \in [array : Nat, len : Nat] /\ nextSubID \in Nat
    BY ObserverAssumption DEF SliceInv, Numbered
  <2>2. a0 \in Seq(Nat)
    BY <2>1, ElementOfSeq
  <2>3. QED
    BY <2>1, <2>2, LenProperties
<1>2. CASE l < Len(a0)
  <2> DEFINE b == [a0 EXCEPT ![l + 1] = nextSubID]
  <2>1. arrays' = [arrays EXCEPT ![k] = b] /\ slice' = [slice EXCEPT !.len = l + 1]
    BY <1>2 DEF Subscribe
  <2>2. l + 1 \in 1 .. Len(a0)
    BY <1>1, <1>2
  <2>3. /\ b \in Seq(Nat) /\ Len(b) = Len(a0)
        /\ \A j \in 1 .. Len(a0) : b[j] = IF j = l + 1 THEN nextSubID ELSE a0[j]
    BY <1>1, <2>2, ExceptSeq, SMTT(30)
  <2> HIDE DEF b
  <2>4. /\ arrays' \in Seq(Seq(Nat)) /\ Len(arrays') = Len(arrays)
        /\ \A a \in 1 .. Len(arrays) : arrays'[a] = IF a = k THEN b ELSE arrays[a]
    BY <1>1, <2>1, <2>3, ExceptSeq
  <2>5. slice' \in [array : Nat, len : Nat] /\ slice'.array = k /\ slice'.len = l + 1
    <3>1. l + 1 \in Nat
      BY <1>1
    <3>2. QED
      BY <1>1, <2>1, <3>1
  <2>6. ASSUME NEW a, NEW i, InUse(a, i)
        PROVE  arrays'[a][i] = arrays[a][i]
    <3>1. CASE a = k
      <4>1. i \in 1 .. Len(a0) /\ i # l + 1
        BY <1>1, <2>6, <3>1 DEF InUse
      <4>2. QED
        BY <1>1, <2>3, <2>4, <3>1, <4>1
    <3>2. CASE a # k
      BY <2>4, <2>6, <3>2 DEF InUse
    <3>3. QED
      BY <3>1, <3>2
  <2>7. ASSUME NEW i \in 1 .. l
        PROVE  arrays'[k][i] = a0[i]
    <3>1. InUse(k, i)
      BY <1>1 DEF InUse
    <3>2. QED
      BY <2>6, <3>1
  <2>8. arrays'[k] = b /\ b[l + 1] = nextSubID
    BY <1>1, <2>2, <2>3, <2>4
  <2>9. \A a \in 1 .. Len(arrays) : a \in 1 .. Len(arrays') /\ Len(arrays'[a]) = Len(arrays[a])
    BY <2>3, <2>4
  <2>10. l + 1 <= Len(b)
    BY <1>1, <2>2, <2>3
  <2>11. /\ slice'.array \in 1 .. Len(arrays')
         /\ slice'.array # slice.array => slice'.array = Len(arrays) + 1
         /\ slice'.len <= Len(arrays'[slice'.array])
         /\ \A i \in 1 .. l : arrays'[slice'.array][i] = arrays[slice.array][i]
         /\ arrays'[slice'.array][l + 1] = nextSubID
    BY <1>1, <2>4, <2>5, <2>7, <2>8, <2>10
  <2>12. QED
    BY <2>4, <2>5, <2>6, <2>9, <2>11 DEF AppendsOne
<1>3. CASE ~ (l < Len(a0))
  <2> DEFINE more == IF a0 = <<>> THEN 1 ELSE Len(a0)
             vacant == [i \in 1 .. more |-> Vacant]
             wider == a0 \o vacant
             b == [wider EXCEPT ![l + 1] = nextSubID]
  <2>1. arrays' = Append(arrays, b) /\ slice' = [array |-> Len(arrays) + 1, len |-> l + 1]
    BY <1>3 DEF Subscribe
  <2>2. l = Len(a0)
    BY <1>1, <1>3
  <2>3. more \in Nat \ {0}
    BY <1>1, EmptySeq
  <2> HIDE DEF more
  <2>4. vacant \in Seq(Nat) /\ Len(vacant) = more
    <3>1. Vacant \in Nat
      BY ObserverAssumption DEF Vacant
    <3>2. QED
      BY <2>3, <3>1
  <2> HIDE DEF vacant
  <2>5. /\ wider \in Seq(Nat) /\ Len(wider) = Len(a0) + more
        /\ \A i \in 1 .. Len(a0) + more : wider[i] = IF i <= Len(a0) THEN a0[i] ELSE vacant[i - Len(a0)]
    BY <1>1, <2>4, ConcatProperties, ZenonT(30)
  <2> HIDE DEF wider
  <2>6. l + 1 \in 1 .. Len(wider)
    BY <1>1, <2>2, <2>3, <2>5
  <2>7. /\ b \in Seq(Nat) /\ Len(b) = Len(wider)
        /\ \A j \in 1 .. Len(wider) : b[j] = IF j = l + 1 THEN nextSubID ELSE wider[j]
    BY <1>1, <2>5, <2>6, ExceptSeq
  <2> HIDE DEF b
  <2>8. /\ arrays' \in Seq(Seq(Nat)) /\ Len(arrays') = Len(arrays) + 1
        /\ \A a \in 1 .. Len(arrays) : arrays'[a] = arrays[a]
        /\ arrays'[Len(arrays) + 1] = b
    BY <1>1, <2>1, <2>7, AppendProperties
  <2>9. /\ slice' \in [array : Nat, len : Nat]
        /\ slice'.array = Len(arrays) + 1 /\ slice'.len = l + 1
    BY <1>1, <2>1
  <2>10. ASSUME NEW i \in 1 .. l
         PROVE  b[i] = a0[i]
    <3>1. i \in 1 .. Len(a0) + more /\ i <= Len(a0) /\ i # l + 1
      BY <1>1, <2>2, <2>3
    <3>2. QED
      BY <2>5, <2>7, <3>1
  <2>11. b[l + 1] = nextSubID /\ l + 1 <= Len(b)
    <3>1. Len(wider) \in Nat
      BY <1>1, <2>3, <2>5
    <3>2. b[l + 1] = nextSubID
      BY <2>6, <2>7
    <3>3. QED
      BY <2>6, <2>7, <3>1, <3>2
  <2>12. \A a \in 1 .. Len(arrays) : a \in 1 .. Len(arrays') /\ Len(arrays'[a]) = Len(arrays[a])
    BY <1>1, <2>8, SMTT(30)
  <2>13. \A a, i : InUse(a, i) => arrays'[a][i] = arrays[a][i]
    BY <2>8 DEF InUse
  <2>14. /\ slice'.array \in 1 .. Len(arrays')
         /\ slice'.array # slice.array => slice'.array = Len(arrays) + 1
         /\ slice'.len <= Len(arrays'[slice'.array])
         /\ \A i \in 1 .. l : arrays'[slice'.array][i] = arrays[slice.array][i]
         /\ arrays'[slice'.array][l + 1] = nextSubID
    <3>1. arrays'[slice'.array] = b /\ slice'.array \in 1 .. Len(arrays')
      BY <1>1, <2>8, <2>9
    <3>2. slice'.len <= Len(arrays'[slice'.array]) /\ arrays'[slice'.array][l + 1] = nextSubID
      BY <2>9, <2>11, <3>1
    <3>3. \A i \in 1 .. l : arrays'[slice'.array][i] = arrays[slice.array][i]
      BY <2>10, <3>1
    <3>4. QED
      BY <2>9, <3>1, <3>2, <3>3
  <2>15. QED
    BY <2>8, <2>9, <2>12, <2>13, <2>14 DEF AppendsOne
<1>4. QED
  BY <1>2, <1>3

\* What a loop walks is in use, so that it finds the same subscriptions.
LEMMA LoopSlotsInUse ==
    ASSUME SliceInv, LoopsInv, NEW k \in 1 .. Len(stack), NEW i \in 1 .. stack[k].len
    PROVE  InUse(stack[k].array, i)
<1>1. InsideSlice(stack[k])
  BY DEF LoopsInv
<1>2. stack \in Seq(Loops)
  BY DEF LoopsInv
<1>3. stack[k] \in Loops
  BY <1>2, ElementOfSeq
<1>4. /\ stack[k].array \in 1 .. Len(arrays) /\ stack[k].len \in Nat
      /\ stack[k].len \in 0 .. Len(arrays[stack[k].array])
      /\ stack[k].array = slice.array => stack[k].len <= slice.len
  BY <1>1, <1>3 DEF InsideSlice, Numbered, Loops
<1>5. Len(arrays[stack[k].array]) \in Nat
  <2>1. arrays \in Seq(Seq(Nat))
    BY DEF SliceInv
  <2>2. arrays[stack[k].array] \in Seq(Nat)
    BY <1>4, <2>1, ElementOfSeq
  <2>3. QED
    BY <2>2, LenProperties
<1>6. i \in 1 .. Len(arrays[stack[k].array]) /\ i <= stack[k].len
  BY <1>4, <1>5
<1>7. stack[k].array = slice.array => i <= slice.len
  <2>1. slice.len \in Nat
    BY DEF SliceInv
  <2>2. QED
    BY <1>4, <1>6, <2>1
<1>8. QED
  BY <1>4, <1>6, <1>7 DEF InUse

\* A new subscription joins the slice, and has heard of nothing.
LEMMA SubscribeKeeps ==
    ASSUME ObserverInv, Subscribe
    PROVE  ObserverInv'
<1>1. /\ nextSubID \in Nat /\ nextSubID < MaxSubs /\ nextSubID' = nextSubID + 1
      /\ UNCHANGED <<registry, lastFlags, stack, heard, overtaken>>
      /\ SliceInv /\ LoopsInv /\ nextSubID \in Ids
  BY ObserverAssumption DEF ObserverInv, SliceInv, Subscribe, Ids
<1>2. AppendsOne
  BY <1>1, SubscribeAppends
<1>3. /\ slice.array \in 1 .. Len(arrays) /\ slice.len \in Nat /\ Len(arrays) \in Nat
      /\ \A i \in 1 .. slice.len : arrays[slice.array][i] \in 0 .. nextSubID - 1
      /\ \A i, j \in 1 .. slice.len : arrays[slice.array][i] = arrays[slice.array][j] => i = j
  BY <1>1, LenProperties DEF SliceInv, Numbered
<1>4. RegistryInv'
  BY <1>1 DEF ObserverInv, RegistryInv
<1> DEFINE s == slice'.array
           last == slice.len + 1
<1>5. /\ s \in 1 .. Len(arrays') /\ slice'.len = last /\ last <= Len(arrays'[s])
      /\ \A i \in 1 .. slice.len : arrays'[s][i] = arrays[slice.array][i]
      /\ arrays'[s][last] = nextSubID
  BY <1>2 DEF AppendsOne
<1>6. \A i \in 1 .. last : i \in 1 .. slice.len \/ i = last
  BY <1>3
<1>7. SliceInv'
  <2>1. ASSUME NEW i \in 1 .. last
        PROVE  arrays'[s][i] \in 0 .. nextSubID
    <3>1. CASE i \in 1 .. slice.len
      <4>1. arrays'[s][i] \in 0 .. nextSubID - 1
        BY <1>3, <1>5, <3>1
      <4>2. QED
        BY <1>1, <4>1
    <3>2. CASE i = last
      BY <1>1, <1>5, <3>2
    <3>3. QED
      BY <1>6, <3>1, <3>2
  <2>2. ASSUME NEW i \in 1 .. last, NEW j \in 1 .. last, arrays'[s][i] = arrays'[s][j]
        PROVE  i = j
    <3>1. CASE i = last /\ j = last
      BY <3>1
    <3>2. CASE i \in 1 .. slice.len /\ j \in 1 .. slice.len
      BY <1>3, <1>5, <2>2, <3>2
    <3>3. CASE i = last /\ j \in 1 .. slice.len
      BY <1>1, <1>3, <1>5, <2>2, <3>3, SMTT(30)
    <3>4. CASE i \in 1 .. slice.len /\ j = last
      BY <1>1, <1>3, <1>5, <2>2, <3>4, SMTT(30)
    <3>5. QED
      BY <1>6, <3>1, <3>2, <3>3, <3>4
  <2>3. nextSubID' \in 0 .. MaxSubs /\ nextSubID' - 1 = nextSubID
    BY <1>1, ObserverAssumption
  <2>4. last \in 0 .. Len(arrays'[s])
    <3>1. Len(arrays'[s]) \in Nat
      BY <1>2, <1>5, ElementOfSeq, LenProperties DEF AppendsOne
    <3>2. QED
      BY <1>3, <1>5, <3>1
  <2>5. Numbered(slice.array, slice.len)'
    BY <1>5, <2>1, <2>2, <2>3, <2>4 DEF Numbered
  <2>6. QED
    BY <1>2, <2>3, <2>5 DEF SliceInv, AppendsOne
<1>8. ASSUME NEW k \in 1 .. Len(stack), NEW e, e = stack[k]
      PROVE  InsideSlice(e)' /\ CallsInTurn(e)' /\ TellsTheState(e)'
  <2>1. e \in Loops /\ InsideSlice(e) /\ CallsInTurn(e) /\ TellsTheState(e)
    BY <1>1, <1>8, ElementOfSeq DEF LoopsInv
  <2>2. \A i \in 1 .. e.len : arrays'[e.array][i] = arrays[e.array][i]
    <3>1. \A i \in 1 .. e.len : InUse(e.array, i)
      BY <1>1, <1>8, LoopSlotsInUse
    <3>2. QED
      BY <1>2, <3>1 DEF AppendsOne
  <2>3. /\ e.array \in 1 .. Len(arrays) /\ e.array \in 1 .. Len(arrays')
        /\ Len(arrays'[e.array]) = Len(arrays[e.array])
        /\ e.len \in 0 .. Len(arrays[e.array]) /\ e.len \in Nat /\ e.at \in 1 .. e.len
    BY <1>2, <2>1 DEF AppendsOne, InsideSlice, Numbered, Loops
  <2>4. ASSUME NEW i \in 1 .. e.len
        PROVE  arrays'[e.array][i] \in 0 .. nextSubID' - 1
    <3>1. arrays[e.array][i] \in 0 .. nextSubID - 1
      BY <2>1 DEF InsideSlice, Numbered
    <3>2. arrays[e.array][i] \in 0 .. nextSubID' - 1
      BY <1>1, <3>1
    <3>3. QED
      BY <2>2, <3>2
  <2>5. \A i, j \in 1 .. e.len : arrays'[e.array][i] = arrays'[e.array][j] => i = j
    BY <2>1, <2>2 DEF InsideSlice, Numbered
  <2>6. e.array = s => e.len <= slice'.len
    <3>1. e.array # Len(arrays) + 1
      BY <1>3, <2>3
    <3>2. CASE s = slice.array
      BY <1>3, <1>5, <2>1, <2>3, <3>2, SMTT(30) DEF InsideSlice
    <3>3. CASE s # slice.array
      BY <1>2, <3>1, <3>3 DEF AppendsOne
    <3>4. QED
      BY <3>2, <3>3
  <2>7. InsideSlice(e)'
    BY <2>3, <2>4, <2>5, <2>6 DEF InsideSlice, Numbered
  <2>8. CallsInTurn(e)'
    <3>1. \A j \in 1 .. e.at : j \in 1 .. e.len
      BY <2>3
    <3>2. QED
      BY <2>1, <2>2, <3>1 DEF CallsInTurn
  <2>9. TellsTheState(e)'
    BY <1>1, <2>1 DEF TellsTheState
  <2>10. QED
    BY <2>7, <2>8, <2>9
<1>9. LoopsInv'
  BY <1>1, <1>8 DEF LoopsInv
<1>10. ASSUME NEW id, NEW n, ToHear(id, n)
       PROVE  ToHear(id, n)'
  <2>1. PICK k \in 1 .. Len(stack) :
          /\ stack[k].node = n
          /\ \E j \in stack[k].at + 1 .. stack[k].len : arrays[stack[k].array][j] = id
    BY <1>10 DEF ToHear
  <2>2. PICK j \in stack[k].at + 1 .. stack[k].len : arrays[stack[k].array][j] = id
    BY <2>1
  <2>3. stack[k] \in Loops
    BY <1>1, ElementOfSeq DEF LoopsInv
  <2>4. j \in 1 .. stack[k].len
    BY <2>2, <2>3 DEF Loops
  <2>5. arrays'[stack[k].array][j] = id
    <3>1. InUse(stack[k].array, j)
      BY <1>1, <2>4, LoopSlotsInUse
    <3>2. QED
      BY <1>2, <2>2, <3>1 DEF AppendsOne
  <2>6. QED
    BY <1>1, <2>1, <2>2, <2>5 DEF ToHear
<1>11. ASSUME NEW id \in Current'
       PROVE  id \in Current \/ id = nextSubID
  BY <1>5, <1>6, <1>11 DEF Current, Subscribed
<1>12. HeardInv'
  <2>1. \A id \in Ids, n \in Nodes : id >= nextSubID' => heard[id][n] = None
    <3>1. \A id \in Ids : id >= nextSubID' => id >= nextSubID
      BY <1>1, ObserverAssumption DEF Ids
    <3>2. QED
      BY <3>1 DEF ObserverInv, HeardInv
  <2>2. \A n \in Nodes : heard[nextSubID][n] = None
    BY <1>1 DEF ObserverInv, HeardInv
  <2>3. ASSUME NEW id \in Current', NEW n \in Nodes,
               registry[n] # None, n \notin overtaken, heard[id][n] # None
        PROVE  heard[id][n] = FlagsOf[registry[n]] \/ ToHear(id, n)'
    <3>1. id \in Current
      BY <1>11, <2>2, <2>3
    <3>2. QED
      BY <1>10, <2>3, <3>1 DEF ObserverInv, HeardInv
  <2>4. QED
    BY <1>1, <2>1, <2>3 DEF ObserverInv, HeardInv
<1>13. QED
  BY <1>4, <1>7, <1>9, <1>12 DEF ObserverInv

-----------------------------------------------------------------------------
(* Unsubscribing between emissions.                                        *)

\* The entries behind the one removed move up in an array no loop walks.
LEMMA UnsubscribeKeeps ==
    ASSUME ObserverInv, ~ UnsubscribeInCallback, NEW id \in Ids, Unsubscribe(id)
    PROVE  ObserverInv'
<1>1. /\ stack = <<>> /\ slice' = [slice EXCEPT !.len = @ - 1]
      /\ UNCHANGED <<registry, lastFlags, nextSubID, heard, overtaken>>
      /\ stack' = [k \in DOMAIN stack |-> [stack[k] EXCEPT !.due = @ \ {id}]]
  BY DEF Unsubscribe
<1>2. stack' = <<>>
  <2>1. DOMAIN stack = {}
    BY <1>1
  <2>2. QED
    BY <1>1, <2>1
<1>3. PICK i \in 1 .. slice.len : arrays' = [arrays EXCEPT ![slice.array] = Shifted(@, i)]
  BY DEF Unsubscribe
<1> DEFINE s == slice.array
           l == slice.len
           a0 == arrays[s]
           b == Shifted(a0, i)
<1>4. /\ SliceInv /\ arrays \in Seq(Seq(Nat)) /\ s \in 1 .. Len(arrays) /\ l \in 0 .. Len(a0)
      /\ slice \in [array : Nat, len : Nat] /\ a0 \in Seq(Nat)
      /\ Len(a0) \in Nat /\ DOMAIN a0 = 1 .. Len(a0) /\ \A j \in 1 .. Len(a0) : a0[j] \in Nat
  <2>1. /\ SliceInv /\ arrays \in Seq(Seq(Nat)) /\ s \in 1 .. Len(arrays) /\ l \in 0 .. Len(a0)
        /\ slice \in [array : Nat, len : Nat]
    BY DEF ObserverInv, SliceInv, Numbered
  <2>2. a0 \in Seq(Nat)
    BY <2>1, ElementOfSeq
  <2>3. QED
    BY <2>1, <2>2, LenProperties, ElementOfSeq
<1>5. /\ b \in Seq(Nat) /\ Len(b) = Len(a0)
      /\ \A j \in 1 .. Len(a0) : b[j] = IF i <= j /\ j < l THEN a0[j + 1] ELSE a0[j]
  <2>1. b = [j \in 1 .. Len(a0) |-> IF i <= j /\ j < l THEN a0[j + 1] ELSE a0[j]]
    BY <1>4 DEF Shifted
  <2>2. \A j \in 1 .. Len(a0) : (IF i <= j /\ j < l THEN a0[j + 1] ELSE a0[j]) \in Nat
    BY <1>4
  <2> HIDE DEF b
  <2>3. QED
    BY <1>4, <2>1, <2>2
<1>6. arrays' = [arrays EXCEPT ![s] = b]
  BY <1>3
<1> HIDE DEF b
<1>7. /\ arrays' \in Seq(Seq(Nat)) /\ Len(arrays') = Len(arrays) /\ arrays'[s] = b
  BY <1>4, <1>5, <1>6, ExceptSeq
<1>8. slice' \in [array : Nat, len : Nat] /\ slice'.array = s /\ slice'.len = l - 1
  <2>1. l - 1 \in Nat
    BY <1>4
  <2>2. QED
    BY <1>1, <1>4, <2>1
\* Where the entry at a slot of the shifted slice was before.
<1> DEFINE was(j) == IF i <= j THEN j + 1 ELSE j
<1>9. ASSUME NEW j \in 1 .. l - 1
      PROVE  was(j) \in 1 .. l /\ b[j] = a0[was(j)]
  <2>1. j \in 1 .. Len(a0) /\ j < l /\ j + 1 \in 1 .. l /\ j \in 1 .. l
    BY <1>4, SMTT(30)
  <2>2. QED
    BY <1>4, <1>5, <2>1
<1>10. SliceInv'
  <2>1. ASSUME NEW j \in 1 .. l - 1, NEW k \in 1 .. l - 1, b[j] = b[k]
        PROVE  j = k
    <3>1. a0[was(j)] = a0[was(k)] /\ was(j) \in 1 .. l /\ was(k) \in 1 .. l
      BY <1>9, <2>1
    <3>2. was(j) = was(k)
      BY <1>4, <3>1 DEF SliceInv, Numbered
    <3>3. i \in Nat /\ j \in Nat /\ k \in Nat
      BY <1>4
    <3>4. QED
      BY <3>2, <3>3
  <2>2. \A j \in 1 .. l - 1 : b[j] \in 0 .. nextSubID - 1
    BY <1>4, <1>9 DEF SliceInv, Numbered
  <2>3. l - 1 \in 0 .. Len(b)
    BY <1>4, <1>5, SMTT(30)
  <2>4. Numbered(slice.array, slice.len)'
    <3>1. s \in 1 .. Len(arrays')
      BY <1>4, <1>7
    <3>2. /\ slice'.array \in 1 .. Len(arrays') /\ slice'.len \in 0 .. Len(arrays'[slice'.array])
          /\ arrays'[slice'.array] = b /\ slice'.len = l - 1
      BY <1>7, <1>8, <2>3, <3>1
    <3>3. QED
      BY <1>1, <2>1, <2>2, <3>2 DEF Numbered
  <2>5. QED
    BY <1>1, <1>4, <1>7, <1>8, <2>4 DEF SliceInv
<1>11. Current' \subseteq Current
  <2>1. ASSUME NEW x \in Current'
        PROVE  x \in Current
    <3>1. x \in Ids /\ \E j \in 1 .. l - 1 : b[j] = x
      BY <1>7, <1>8 DEF Current, Subscribed
    <3>2. QED
      BY <1>9, <3>1 DEF Current, Subscribed
  <2>2. QED
    BY <2>1
<1>12. RegistryInv'
  BY <1>1 DEF ObserverInv, RegistryInv
<1>13. LoopsInv'
  <2>1. stack' \in Seq(Loops) /\ Len(stack') = 0
    BY <1>2, EmptySeq
  <2>2. QED
    BY <2>1 DEF LoopsInv
<1>14. HeardInv'
  <2>1. \A x, n : ~ ToHear(x, n)
    BY <1>1 DEF ToHear
  <2>2. ASSUME NEW x \in Current', NEW n \in Nodes,
               registry[n] # None, n \notin overtaken, heard[x][n] # None
        PROVE  heard[x][n] = FlagsOf[registry[n]]
    BY <1>11, <2>1, <2>2 DEF ObserverInv, HeardInv
  <2>3. QED
    BY <1>1, <2>2 DEF ObserverInv, HeardInv
<1>15. QED
  BY <1>10, <1>12, <1>13, <1>14 DEF ObserverInv

-----------------------------------------------------------------------------
(* The theorems.                                                           *)

\* Every step keeps the invariant.
LEMMA NextKeeps ==
    ASSUME ObserverInv, ~ UnsubscribeInCallback, [Next]_vars
    PROVE  ObserverInv'
<1>1. CASE CallbackEnds
  BY <1>1, CallbackEndsKeeps
<1>2. CASE \E n \in Nodes, inp \in Inputs : RegisterFixture(n, inp) \/ Update(n, inp)
  BY <1>2, RegisterKeeps, UpdateKeeps
<1>3. CASE \E n \in Nodes : Unregister(n)
  BY <1>3, UnregisterKeeps
<1>4. CASE Subscribe
  BY <1>4, SubscribeKeeps
<1>5. CASE \E id \in Ids : Unsubscribe(id)
  BY <1>5, UnsubscribeKeeps
<1>6. CASE UNCHANGED vars
  <2>1. RegistryInv' /\ SliceInv' /\ Current' = Current
    BY <1>6 DEF vars, ObserverInv, RegistryInv, SliceInv, Numbered, Current, Subscribed
  <2>2. \A x : (InsideSlice(x)' <=> InsideSlice(x)) /\ (CallsInTurn(x)' <=> CallsInTurn(x))
               /\ (TellsTheState(x)' <=> TellsTheState(x))
    BY <1>6 DEF vars, InsideSlice, CallsInTurn, TellsTheState, Numbered
  <2>3. LoopsInv'
    BY <1>6, <2>2 DEF vars, ObserverInv, LoopsInv
  <2>4. \A x, n : ToHear(x, n)' <=> ToHear(x, n)
    BY <1>6 DEF vars, ToHear
  <2>5. HeardInv'
    BY <1>6, <2>1, <2>4 DEF vars, ObserverInv, HeardInv
  <2>6. QED
    BY <2>1, <2>3, <2>5 DEF ObserverInv
<1>7. QED
  BY <1>1, <1>2, <1>3, <1>4, <1>5, <1>6 DEF Next

\* An emission ends only where its loop does, at the last slot.
LEMMA EndingStep ==
    ASSUME ObserverInv, ~ UnsubscribeInCallback, [Next]_vars, Len(stack') < Len(stack)
    PROVE  /\ stack # <<>> /\ Last(stack) \in Loops
           /\ InsideSlice(Last(stack)) /\ CallsInTurn(Last(stack))
           /\ Last(stack).at = Last(stack).len
<1>1. stack \in Seq(Loops) /\ Len(stack) \in Nat
  BY LenProperties DEF ObserverInv, LoopsInv
<1>2. \A n, flags : Emit(n, flags) => stack' = stack \/ stack' = Append(stack, Emission(n, flags))
  BY DEF Emit
<1>3. \A x : Len(Append(stack, x)) = Len(stack) + 1
  BY <1>1
<1>4. CASE CallbackEnds
  <2>1. stack # <<>> /\ Len(stack) \in 1 .. Len(stack) /\ Last(stack) = stack[Len(stack)]
    BY <1>1, <1>4, EmptySeq DEF CallbackEnds, Last
  <2>2. Last(stack).at = Last(stack).len
    <3>1. ASSUME Last(stack).at # Last(stack).len
          PROVE  FALSE
      <4>1. \E next : stack' = [stack EXCEPT ![Len(stack)] = next]
        BY <1>4, <3>1, Zenon DEF CallbackEnds
      <4>2. PICK next : stack' = [stack EXCEPT ![Len(stack)] = next]
        BY <4>1
      <4>3. Len(stack') = Len(stack)
        BY <1>1, <4>2
      <4>4. QED
        BY <1>1, <4>3
    <3>2. QED
      BY <3>1
  <2>3. Last(stack) \in Loops
    BY <1>1, <2>1, ElementOfSeq
  <2>4. QED
    BY <2>1, <2>2, <2>3 DEF ObserverInv, LoopsInv
<1>5. CASE \E n \in Nodes, inp \in Inputs : RegisterFixture(n, inp) \/ Update(n, inp)
  BY <1>1, <1>2, <1>3, <1>5 DEF RegisterFixture, Update
<1>6. CASE (\E n \in Nodes : Unregister(n)) \/ Subscribe \/ UNCHANGED vars
  BY <1>1, <1>6 DEF Unregister, Subscribe, vars
<1>7. CASE \E id \in Ids : Unsubscribe(id)
  <2>1. stack = <<>> /\ Len(stack) = 0
    BY <1>7, EmptySeq DEF Unsubscribe
  <2>2. stack' = <<>>
    <3>1. PICK id \in Ids : stack' = [k \in DOMAIN stack |-> [stack[k] EXCEPT !.due = @ \ {id}]]
      BY <1>7 DEF Unsubscribe
    <3>2. DOMAIN stack = {}
      BY <2>1
    <3>3. QED
      BY <3>1, <3>2
  <2>3. QED
    BY <1>1, <2>1, <2>2
<1>8. QED
  BY <1>4, <1>5, <1>6, <1>7 DEF Next

\* The invariant holds of every observer whose callbacks do not unsubscribe.
THEOREM ObserverInvariant == ~ UnsubscribeInCallback => (Spec => []ObserverInv)
<1> SUFFICES ASSUME ~ UnsubscribeInCallback
             PROVE  Spec => []ObserverInv
  OBVIOUS
<1>1. Init => ObserverInv
  BY InitObserver
<1>2. ObserverInv /\ [Next]_vars => ObserverInv'
  BY NextKeeps
<1>3. QED
  BY <1>1, <1>2, PTL DEF Spec

\* Between emissions no subscriber holds flags that a node no longer has, for any
\* number of nodes, subscriptions, changes and emissions inside one another.
THEOREM NobodyLeftBehind == ~ UnsubscribeInCallback => (Spec => []NobodyIsBehind)
<1> SUFFICES ASSUME ~ UnsubscribeInCallback
             PROVE  Spec => []NobodyIsBehind
  OBVIOUS
<1>1. ObserverInv => NobodyIsBehind
  BY QuietMeansTold
<1>2. Spec => []ObserverInv
  BY ObserverInvariant
<1>3. QED
  BY <1>1, <1>2, PTL

\* An emission that ends has called whoever was subscribed throughout it once.
THEOREM EmissionReachesEachOnce == ~ UnsubscribeInCallback => (Spec => EachHearsOnce)
<1> SUFFICES ASSUME ~ UnsubscribeInCallback
             PROVE  Spec => EachHearsOnce
  OBVIOUS
<1> DEFINE Reached == Len(stack') < Len(stack)
             => LET e == Last(stack) IN
                \A id \in e.due : Cardinality({i \in DOMAIN e.called : e.called[i] = id}) = 1
<1>1. ObserverInv /\ [Next]_vars => Reached
  BY EndingStep, DueCalledOnce
<1>2. Spec => []ObserverInv
  BY ObserverInvariant
<1>3. EachHearsOnce <=> [][Reached]_vars
  BY DEF EachHearsOnce
<1> HIDE DEF Reached
<1>4. QED
  BY <1>1, <1>2, <1>3, PTL DEF Spec
=============================================================================
