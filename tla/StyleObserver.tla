---------------------------- MODULE StyleObserver ----------------------------
(***************************************************************************)
(* styleobserver.InMemoryStyleObserver: a registry of nodes with the style *)
(* facts supplied for them, and subscribers told of each observation.      *)
(*                                                                         *)
(* Subscribers are host code called in the middle of a loop over the       *)
(* subscriber slice, and may call the observer again: update the node they *)
(* are told of (an emission inside the emission), register, subscribe,     *)
(* unsubscribe, panic.  The slice is modelled as Go has it: a backing      *)
(* array that append may write in place, and the loop's own header.        *)
(***************************************************************************)
EXTENDS Naturals, Sequences, SequencesExt, FiniteSets

CONSTANTS
    Nodes, Inputs, None,
    FlagsOf,                \* the flags DeriveStyleFlags finds in an input
    EmitOnFlagChangeOnly,   \* the option of that name
    UnsubscribeInCallback,  \* subscribers unsubscribe from inside a callback
    MaxSubs,                \* bound: subscriptions ever made
    MaxDepth,               \* bound: emissions inside one another
    MaxChanges              \* bound: calls that register, update or unregister

ASSUME ObserverAssumption ==
    /\ None \notin Inputs
    /\ DOMAIN FlagsOf = Inputs /\ \A inp \in Inputs : FlagsOf[inp] # None
    /\ EmitOnFlagChangeOnly \in BOOLEAN /\ UnsubscribeInCallback \in BOOLEAN
    /\ MaxSubs \in Nat /\ MaxDepth \in Nat /\ MaxChanges \in Nat

VARIABLES
    registry,   \* [Nodes -> the input of a registered node, or None]
    lastFlags,  \* [Nodes -> the flags cached for it, or None]
    arrays,     \* the backing arrays ever allocated, each as long as its capacity
    slice,      \* o.subscribers: the number of its array, and its length
    nextSubID,
    stack,      \* the emissions under way, the innermost last
    heard,      \* history: [subscription -> [Nodes -> the flags it last heard of, or None]]
    overtaken,  \* history: nodes changed from inside an emission about them
    changes     \* calls so far

vars == <<registry, lastFlags, arrays, slice, nextSubID, stack, heard, overtaken, changes>>

Ids == 0 .. MaxSubs - 1
Vacant == MaxSubs   \* a slot of a backing array nothing was written to

Subscribed(id) == \E i \in 1 .. slice.len : arrays[slice.array][i] = id
Current == {id \in Ids : Subscribed(id)}

Init ==
    /\ registry = [n \in Nodes |-> None]
    /\ lastFlags = [n \in Nodes |-> None]
    /\ arrays = <<<<>>>>
    /\ slice = [array |-> 1, len |-> 0]
    /\ nextSubID = 0
    /\ stack = <<>>
    /\ heard = [id \in Ids |-> [n \in Nodes |-> None]]
    /\ overtaken = {}
    /\ changes = 0

-----------------------------------------------------------------------------
(* emit: a loop over the slice as it was when the loop began.              *)

\* The loop e calls the subscriber it finds at its position.
Calling(e) == arrays[e.array][e.at]

Hears(e) == heard' = [heard EXCEPT ![Calling(e)][e.node] = e.flags]

\* called and due are history: whom the loop has called, and who has been
\* subscribed since before it.
Emission(n, flags) ==
    [node |-> n, flags |-> flags, array |-> slice.array, len |-> slice.len, at |-> 1,
     called |-> <<arrays[slice.array][1]>>, due |-> Current]

Emit(n, flags) ==
    IF slice.len = 0
      THEN UNCHANGED <<stack, heard>>
      ELSE /\ Len(stack) < MaxDepth
           /\ stack' = Append(stack, Emission(n, flags))
           /\ Hears(Emission(n, flags))

\* A panic that ends the loop it happens in.
CallbackEndsLoop ==
    /\ stack # <<>>
    /\ stack' = Front(stack)
    /\ UNCHANGED <<registry, lastFlags, arrays, slice, nextSubID, heard, overtaken, changes>>

\* The callback returns, or panics and is recovered: the loop goes on.
CallbackEnds ==
    /\ stack # <<>>
    /\ LET e == Last(stack) IN
       IF e.at = e.len
         THEN /\ stack' = Front(stack)
              /\ UNCHANGED heard
         ELSE LET next == [e EXCEPT !.at = @ + 1,
                                    !.called = Append(@, arrays[e.array][e.at + 1])]
              IN /\ stack' = [stack EXCEPT ![Len(stack)] = next]
                 /\ Hears(next)
    /\ UNCHANGED <<registry, lastFlags, arrays, slice, nextSubID, overtaken, changes>>

-----------------------------------------------------------------------------
(* The registry, called by the host or by a subscriber.                    *)

Changing(n) ==
    /\ changes < MaxChanges
    /\ changes' = changes + 1
    /\ overtaken' = IF \E i \in DOMAIN stack : stack[i].node = n
                      THEN overtaken \cup {n} ELSE overtaken

RegisterFixture(n, inp) ==
    /\ Changing(n)
    /\ registry' = [registry EXCEPT ![n] = inp]
    /\ lastFlags' = [lastFlags EXCEPT ![n] = FlagsOf[inp]]
    /\ Emit(n, FlagsOf[inp])
    /\ UNCHANGED <<arrays, slice, nextSubID>>

\* An update that compares with, and keeps, the flags it last told of.
UpdateOnEmitOnly(n, inp) ==
    /\ Changing(n)
    /\ registry[n] # None
    /\ registry' = [registry EXCEPT ![n] = inp]
    /\ UNCHANGED lastFlags
    /\ IF EmitOnFlagChangeOnly /\ FlagsOf[inp] = lastFlags[n]
         THEN UNCHANGED <<stack, heard>>
         ELSE Emit(n, FlagsOf[inp])
    /\ UNCHANGED <<arrays, slice, nextSubID>>

Update(n, inp) ==
    /\ Changing(n)
    /\ registry[n] # None
    /\ registry' = [registry EXCEPT ![n] = inp]
    /\ lastFlags' = [lastFlags EXCEPT ![n] = FlagsOf[inp]]
    /\ IF EmitOnFlagChangeOnly /\ FlagsOf[inp] = lastFlags[n]
         THEN UNCHANGED <<stack, heard>>
         ELSE Emit(n, FlagsOf[inp])
    /\ UNCHANGED <<arrays, slice, nextSubID>>

Unregister(n) ==
    /\ Changing(n)
    /\ registry' = [registry EXCEPT ![n] = None]
    /\ lastFlags' = [lastFlags EXCEPT ![n] = None]
    /\ UNCHANGED <<arrays, slice, nextSubID, stack, heard>>

-----------------------------------------------------------------------------
(* Subscriptions.                                                          *)

\* append: in place while the array has room, else into one twice as large.
Subscribe ==
    /\ nextSubID < MaxSubs
    /\ nextSubID' = nextSubID + 1
    /\ LET a == arrays[slice.array]
           wider == a \o [i \in 1 .. IF a = <<>> THEN 1 ELSE Len(a) |-> Vacant]
       IN IF slice.len < Len(a)
            THEN /\ arrays' = [arrays EXCEPT ![slice.array][slice.len + 1] = nextSubID]
                 /\ slice' = [slice EXCEPT !.len = @ + 1]
            ELSE /\ arrays' = Append(arrays, [wider EXCEPT ![slice.len + 1] = nextSubID])
                 /\ slice' = [array |-> Len(arrays) + 1, len |-> slice.len + 1]
    /\ UNCHANGED <<registry, lastFlags, stack, heard, overtaken, changes>>

\* The slice without its i-th entry, shifted in place.
Shifted(a, i) == [j \in DOMAIN a |-> IF i <= j /\ j < slice.len THEN a[j + 1] ELSE a[j]]

Unsubscribe(id) ==
    /\ Subscribed(id)
    /\ stack = <<>> \/ UnsubscribeInCallback
    /\ \E i \in 1 .. slice.len :
         /\ arrays[slice.array][i] = id
         /\ arrays' = [arrays EXCEPT ![slice.array] = Shifted(@, i)]
    /\ slice' = [slice EXCEPT !.len = @ - 1]
    /\ stack' = [k \in DOMAIN stack |-> [stack[k] EXCEPT !.due = @ \ {id}]]
    /\ UNCHANGED <<registry, lastFlags, nextSubID, heard, overtaken, changes>>

-----------------------------------------------------------------------------
Next ==
    \/ CallbackEnds
    \/ \E n \in Nodes, inp \in Inputs : RegisterFixture(n, inp) \/ Update(n, inp)
    \/ \E n \in Nodes : Unregister(n)
    \/ Subscribe
    \/ \E id \in Ids : Unsubscribe(id)

Spec == Init /\ [][Next]_vars

-----------------------------------------------------------------------------
(* Properties.                                                             *)

\* "Subscriber receives (nodeID, observation) on each emission": whoever is
\* subscribed from the emission's start to its end is called once, whatever the
\* callbacks do to the observer meanwhile, and whether or not they panic.
EachHearsOnce ==
    [][Len(stack') < Len(stack)
         => LET e == Last(stack) IN
            \A id \in e.due : Cardinality({i \in DOMAIN e.called : e.called[i] = id}) = 1]_vars

\* What a subscriber heard last of a node is how the node now is, change-only
\* emission or not: unless a callback changed the node while others had still to
\* hear of it, or the subscription is younger than the node's last emission.
NobodyIsBehind ==
    stack = <<>> =>
      \A id \in Current, n \in Nodes :
        registry[n] # None /\ n \notin overtaken /\ heard[id][n] # None
          => heard[id][n] = FlagsOf[registry[n]]
=============================================================================
