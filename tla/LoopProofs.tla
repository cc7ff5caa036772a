----------------------------- MODULE LoopProofs -----------------------------
(***************************************************************************)
(* Loops over a list, written in the modules as functions that call        *)
(* themselves on the position before (after[i] == ... after[i - 1] ...).   *)
(* Such a function is a CHOOSE: that it has a value at every position is   *)
(* proved here once, by counting up, from the least-element principle of   *)
(* the library.                                                            *)
(***************************************************************************)
EXTENDS Integers, SequencesExt, SequenceTheorems, FiniteSetTheorems, WellFoundedInduction, NaturalsInduction, TLAPS

\* run holds what the loop's variable was after each of n rounds.
RunsFrom(run, n, base, step) ==
    /\ run[0] = base
    /\ \A i \in 1 .. n : run[i] = step[<<i, run[i - 1]>>]

\* No round takes the loop's variable out of S.
StaysIn(step, n, S) == \A i \in 1 .. n : \A v \in S : step[<<i, v>>] \in S

\* Every set of naturals that is not empty has a least element.
LEMMA LeastElement ==
    ASSUME NEW T \in SUBSET Nat, T # {}
    PROVE  \E x \in T : \A y \in T : ~(y < x)
<1>1. IsWellFoundedOn(OpToRel(<, Nat), Nat)
  BY NatLessThanWellFounded
<1>2. \E x \in T : \A y \in T : ~(<<y, x>> \in OpToRel(<, Nat))
  BY <1>1, WFMin
<1>3. QED
  BY <1>2 DEF OpToRel

\* Induction up to n, for the positions of a list: a set that holds 0, and i
\* whenever it holds i - 1, holds every position.
LEMMA CountingUp ==
    ASSUME NEW n \in Nat, NEW T, 0 \in T,
           \A i \in 1 .. n : i - 1 \in T => i \in T
    PROVE  \A i \in 0 .. n : i \in T
<1> SUFFICES ASSUME NEW k \in 0 .. n, k \notin T PROVE FALSE
  OBVIOUS
<1> DEFINE Missed == {i \in 0 .. n : i \notin T}
<1>1. Missed \in SUBSET Nat /\ Missed # {}
  OBVIOUS
<1>2. PICK x \in Missed : \A y \in Missed : ~(y < x)
  BY <1>1, LeastElement
<1>3. x \in 1 .. n /\ x - 1 \in 0 .. n /\ x - 1 < x
  BY <1>2
<1>4. x - 1 \in T
  BY <1>2, <1>3
<1>5. QED
  BY <1>2, <1>3, <1>4

\* A loop of n rounds that starts in S and stays there has a run.
LEMMA LoopRuns ==
    ASSUME NEW n \in Nat, NEW S, NEW base \in S, NEW step, StaysIn(step, n, S)
    PROVE  \E run \in [0 .. n -> S] : RunsFrom(run, n, base, step)
<1> DEFINE T == {k \in 0 .. n : \E run \in [0 .. k -> S] : RunsFrom(run, k, base, step)}
<1>1. 0 \in T
  <2> DEFINE run == [i \in 0 .. 0 |-> base]
  <2>1. run \in [0 .. 0 -> S] /\ RunsFrom(run, 0, base, step)
    BY DEF RunsFrom
  <2> HIDE DEF run
  <2>2. 0 \in 0 .. n
    OBVIOUS
  <2>3. QED
    BY <2>1, <2>2
<1>2. ASSUME NEW k \in 1 .. n, k - 1 \in T PROVE k \in T
  <2>1. PICK run \in [0 .. k - 1 -> S] : RunsFrom(run, k - 1, base, step)
    BY <1>2
  <2> DEFINE longer == [i \in 0 .. k |-> IF i = k THEN step[<<k, run[k - 1]>>] ELSE run[i]]
  <2>2. run[k - 1] \in S
    OBVIOUS
  <2>3. step[<<k, run[k - 1]>>] \in S
    BY <2>2 DEF StaysIn
  <2>4. longer \in [0 .. k -> S] /\ longer[0] = base
    BY <2>1, <2>3 DEF RunsFrom
  <2>5. ASSUME NEW i \in 1 .. k PROVE longer[i] = step[<<i, longer[i - 1]>>]
    <3>1. CASE i = k
      <4>1. longer[k] = step[<<k, run[k - 1]>>] /\ longer[k - 1] = run[k - 1]
        OBVIOUS
      <4>2. QED
        BY <3>1, <4>1
    <3>2. CASE i # k
      <4>1. i \in 1 .. k - 1 /\ i \in 0 .. k - 1 /\ i - 1 \in 0 .. k - 1
        BY <3>2
      <4>2. longer[i] = run[i] /\ longer[i - 1] = run[i - 1]
        BY <4>1, <3>2
      <4>3. QED
        BY <2>1, <4>1, <4>2 DEF RunsFrom
    <3>3. QED
      BY <3>1, <3>2
  <2> HIDE DEF longer
  <2>6. RunsFrom(longer, k, base, step)
    BY <2>4, <2>5 DEF RunsFrom
  <2>7. QED
    BY <2>4, <2>6
<1>3. \A i \in 0 .. n : i \in T
  <2> HIDE DEF T
  <2>1. QED
    BY <1>1, <1>2, CountingUp
<1>4. QED
  BY <1>3

\* Two runs that agree at the start and stay together end together.
LEMMA RunsMeet ==
    ASSUME NEW n \in Nat, NEW f, NEW g, f[0] = g[0], \A i \in 1 .. n : f[i - 1] = g[i - 1] => f[i] = g[i]
    PROVE  f[n] = g[n]
<1> DEFINE T == {i \in 0 .. n : f[i] = g[i]}
<1>1. 0 \in T
  OBVIOUS
<1>2. ASSUME NEW i \in 1 .. n, i - 1 \in T PROVE i \in T
  BY <1>2
<1>3. \A i \in 0 .. n : i \in T
  <2> HIDE DEF T
  <2>1. QED
    BY <1>1, <1>2, CountingUp
<1>4. QED
  BY <1>3

-----------------------------------------------------------------------------
(* Lists as functions, and the elements of a set, listed.                  *)

\* A function on the first n numbers is a sequence of n.
LEMMA SeqOfFunction ==
    ASSUME NEW S, NEW n \in Nat, NEW f \in [1 .. n -> S]
    PROVE  f \in Seq(S) /\ Len(f) = n
<1>1. f \in Seq(S)
  BY SeqDef
<1>2. DOMAIN f = 1 .. n /\ DOMAIN f = 1 .. Len(f) /\ Len(f) \in Nat
  BY <1>1, LenProperties
<1>3. QED
  BY <1>1, <1>2

OnceEach(s) == \A q, r \in 1 .. Len(s) : s[q] = s[r] => q = r

\* A finite set listed: each element, once.
LEMMA ListIs ==
    ASSUME NEW S, IsFiniteSet(S)
    PROVE  SetToSeq(S) \in Seq(S) /\ OnceEach(SetToSeq(S)) /\ ToSet(SetToSeq(S)) = S
<1> DEFINE n == Cardinality(S)
           list == SetToSeq(S)
<1>1. n \in Nat /\ ExistsBijection(1 .. n, S)
  BY FS_CardinalityType
<1>2. \E f \in [1 .. n -> S] : IsInjective(f)
  BY <1>1 DEF ExistsBijection, Bijection, Injection
<1>3. list \in [1 .. n -> S] /\ IsInjective(list)
  BY <1>2 DEF SetToSeq
<1> HIDE DEF list
<1>4. list \in Injection(1 .. n, S)
  BY <1>3 DEF Injection
<1>5. Cardinality(1 .. n) = n
  <2>1. 1 \in Int /\ n \in Int /\ (1 > n <=> n = 0) /\ n - 1 + 1 = n
    BY <1>1
  <2>2. QED
    BY <2>1, FS_Interval
<1>6. list \in Surjection(1 .. n, S)
  BY <1>4, <1>5, FS_Injection
<1>7. list \in Seq(S) /\ Len(list) = n /\ DOMAIN list = 1 .. n
  BY <1>1, <1>3, SeqOfFunction
<1>8. OnceEach(list)
  BY <1>3, <1>7 DEF OnceEach, IsInjective
<1>9. ToSet(list) = S
  BY <1>3, <1>6, <1>7 DEF ToSet, Surjection
<1>10. QED
  BY <1>7, <1>8, <1>9 DEF list
=============================================================================
