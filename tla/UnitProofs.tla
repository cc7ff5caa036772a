----------------------------- MODULE UnitProofs -----------------------------
(***************************************************************************)
(* The units of measure: the algebra on factors, and that the parser reads *)
(* the canonical text of every unit as that unit (Units), whatever the     *)
(* atoms, their number and the largest exponent.                           *)
(*                                                                         *)
(* A text is read by a loop over its tokens; it is followed component by   *)
(* component, at the top of any stack of open terms, so that the same      *)
(* facts serve a unit alone and one in a group.                            *)
(***************************************************************************)
EXTENDS GridProofs

-----------------------------------------------------------------------------
(* The algebra.                                                            *)

\* The factors of u at the atoms of A.
Part(u, A) == [x \in A |-> u[x]]

\* A part of a unit is a unit.
LEMMA PartIsUnit ==
    ASSUME NEW u, IsUnit(u), NEW A, A \subseteq DOMAIN u
    PROVE  IsUnit(Part(u, A))
<1>1. IsFiniteSet(A)
  BY FS_Subset DEF IsUnit
<1>2. QED
  BY <1>1 DEF IsUnit, Part

\* A unit is not a refusal, whose exponent is zero.
LEMMA NotRefused ==
    ASSUME NEW u, IsUnit(u)
    PROVE  u # UnitRefused
BY DEF IsUnit, UnitRefused

\* Exponents are whole numbers in the range.
LEMMA ExponentType ==
    ASSUME NEW u, IsUnit(u), NEW x
    PROVE  /\ Exponent(u, x) \in Int /\ InRange(Exponent(u, x))
           /\ Exponent(u, x) # 0 <=> x \in DOMAIN u
<1>1. MaxUnitExp \in Nat
  BY UnitsAssumption
<1>2. CASE x \in DOMAIN u
  BY <1>2 DEF IsUnit, Exponent
<1>3. CASE x \notin DOMAIN u
  BY <1>1, <1>3 DEF Exponent, InRange
<1>4. QED
  BY <1>2, <1>3

\* Units with the same exponents are the same.
LEMMA SameUnit ==
    ASSUME NEW a, IsUnit(a), NEW b, IsUnit(b), \A x : Exponent(a, x) = Exponent(b, x)
    PROVE  a = b
<1>1. ASSUME NEW x PROVE x \in DOMAIN a <=> x \in DOMAIN b
  BY ExponentType
<1>2. DOMAIN a = DOMAIN b
  BY <1>1
<1>3. ASSUME NEW x \in DOMAIN a PROVE a[x] = b[x]
  <2>1. x \in DOMAIN b
    BY <1>2
  <2>2. Exponent(a, x) = a[x] /\ Exponent(b, x) = b[x]
    BY <2>1 DEF Exponent
  <2>3. QED
    BY <2>2
<1>4. QED
  BY <1>2, <1>3 DEF IsUnit

\* What combineFactors makes of two units, where no exponent leaves the range, is the
\* unit of the combined exponents.
LEMMA CombineIs ==
    ASSUME NEW a, IsUnit(a), NEW b, IsUnit(b), NEW sign \in {1, -1},
           \A x \in DOMAIN b : InRange(Exponent(a, x) + sign * Exponent(b, x))
    PROVE  /\ IsUnit(CombineFactors(a, sign, b))
           /\ \A x : Exponent(CombineFactors(a, sign, b), x) = Exponent(a, x) + sign * Exponent(b, x)
<1> DEFINE sum == [x \in DOMAIN a \cup DOMAIN b |-> Exponent(a, x) + sign * Exponent(b, x)]
           c == CombineFactors(a, sign, b)
           Kept == {x \in DOMAIN sum : sum[x] # 0}
<1>1. ASSUME NEW x
      PROVE  /\ Exponent(a, x) \in Int /\ Exponent(b, x) \in Int
             /\ Exponent(a, x) + sign * Exponent(b, x) \in Int
  <2>1. Exponent(a, x) \in Int /\ Exponent(b, x) \in Int
    BY ExponentType
  <2>2. QED
    BY <2>1
<1>2. c = [x \in Kept |-> sum[x]]
  BY DEF CombineFactors, NonZero
<1>3. IsFiniteSet(Kept)
  <2>1. IsFiniteSet(DOMAIN a \cup DOMAIN b)
    BY FS_Union DEF IsUnit
  <2>2. Kept \subseteq DOMAIN a \cup DOMAIN b
    OBVIOUS
  <2> HIDE DEF Kept
  <2>3. QED
    BY <2>1, <2>2, FS_Subset
<1>4. ASSUME NEW x \in Kept PROVE sum[x] \in Int \ {0} /\ InRange(sum[x])
  <2>1. sum[x] = Exponent(a, x) + sign * Exponent(b, x) /\ sum[x] # 0
    OBVIOUS
  <2>2. CASE x \in DOMAIN b
    BY <1>1, <2>1, <2>2
  <2>3. CASE x \notin DOMAIN b
    <3>1. Exponent(b, x) = 0 /\ InRange(Exponent(a, x)) /\ Exponent(a, x) \in Int
      BY <2>3, ExponentType
    <3>2. sum[x] = Exponent(a, x)
      BY <2>1, <3>1
    <3>3. QED
      BY <2>1, <3>1, <3>2
  <2>4. QED
    BY <2>2, <2>3
<1>5. ASSUME NEW x PROVE Exponent(c, x) = Exponent(a, x) + sign * Exponent(b, x)
  <2>1. CASE x \in Kept
    BY <1>2, <2>1 DEF Exponent
  <2>2. CASE x \notin Kept /\ x \in DOMAIN a \cup DOMAIN b
    <3>1. Exponent(a, x) + sign * Exponent(b, x) = 0
      BY <2>2
    <3>2. Exponent(c, x) = 0
      BY <1>2, <2>2 DEF Exponent
    <3>3. QED
      BY <3>1, <3>2
  <2>3. CASE x \notin DOMAIN a \cup DOMAIN b
    <3>1. Exponent(a, x) = 0 /\ Exponent(b, x) = 0 /\ x \notin Kept
      BY <2>3 DEF Exponent
    <3>2. Exponent(c, x) = 0
      BY <1>2, <3>1 DEF Exponent
    <3>3. QED
      BY <3>1, <3>2
  <2>4. QED
    BY <2>1, <2>2, <2>3
<1>6. IsUnit(c)
  <2>1. DOMAIN c = Kept /\ c = [x \in DOMAIN c |-> c[x]] /\ \A x \in Kept : c[x] = sum[x]
    BY <1>2
  <2> HIDE DEF c, Kept, sum
  <2>2. QED
    BY <1>3, <1>4, <2>1 DEF IsUnit
<1>7. QED
  BY <1>5, <1>6

\* An exponent out of the range is refused.
LEMMA CombineRefused ==
    ASSUME NEW a, NEW b, NEW sign, ~ \A x \in DOMAIN b : InRange(Exponent(a, x) + sign * Exponent(b, x))
    PROVE  CombineFactors(a, sign, b) = UnitRefused
<1> DEFINE sum == [x \in DOMAIN a \cup DOMAIN b |-> Exponent(a, x) + sign * Exponent(b, x)]
<1>1. \E x \in DOMAIN b : ~InRange(sum[x])
  OBVIOUS
<1>2. QED
  BY <1>1 DEF CombineFactors

\* Dividing by what was multiplied gives back what there was.
LEMMA DivideUndoes ==
    ASSUME NEW u, IsUnit(u), NEW v, IsUnit(v), MulUnit(u, v) # UnitRefused
    PROVE  IsUnit(MulUnit(u, v)) /\ DivUnit(MulUnit(u, v), v) = u
<1> DEFINE w == MulUnit(u, v)
           back == DivUnit(w, v)
<1>1. /\ IsUnit(w)
      /\ \A x : Exponent(w, x) = Exponent(u, x) + 1 * Exponent(v, x)
  <2>1. \A x \in DOMAIN v : InRange(Exponent(u, x) + 1 * Exponent(v, x))
    BY CombineRefused DEF MulUnit
  <2>2. QED
    BY <2>1, CombineIs DEF MulUnit
<1> HIDE DEF w
<1>2. ASSUME NEW x PROVE Exponent(w, x) + (-1) * Exponent(v, x) = Exponent(u, x)
  <2>1. Exponent(u, x) \in Int /\ Exponent(v, x) \in Int
    BY ExponentType
  <2>2. QED
    BY <1>1, <2>1
<1>3. \A x \in DOMAIN v : InRange(Exponent(w, x) + (-1) * Exponent(v, x))
  BY <1>2, ExponentType
<1>4. IsUnit(back) /\ \A x : Exponent(back, x) = Exponent(w, x) + (-1) * Exponent(v, x)
  BY <1>1, <1>3, CombineIs DEF DivUnit
<1> HIDE DEF back
<1>5. back = u
  BY <1>2, <1>4, SameUnit
<1>6. QED
  BY <1>1, <1>5 DEF w, back

\* A factor read is a factor more, whether it is written with its exponent or, after a
\* slash, with the opposite.
LEMMA FactorRead ==
    ASSUME NEW u, IsUnit(u), NEW A, A \subseteq DOMAIN u, NEW x \in DOMAIN u \ A,
           NEW sign \in {1, -1}, NEW e \in Int, sign * e = u[x]
    PROVE  CombineFactors(Part(u, A), sign, Component(x, e)) = Part(u, A \cup {x})
<1> DEFINE a == Part(u, A)
           b == Component(x, e)
           c == CombineFactors(a, sign, b)
           new == Part(u, A \cup {x})
<1>1. u[x] \in Int \ {0} /\ InRange(u[x])
  BY DEF IsUnit
<1>2. e # 0
  BY <1>1
<1>3. b = [y \in {x} |-> e]
  BY <1>2 DEF Component
<1>4. IsUnit(a) /\ IsUnit(new)
  <2>1. A \cup {x} \subseteq DOMAIN u
    OBVIOUS
  <2>2. QED
    BY <2>1, PartIsUnit
<1>5. IsUnit(b)
  <2>1. IsFiniteSet({x})
    BY FS_Singleton
  <2>2. InRange(e)
    <3>1. MaxUnitExp \in Nat
      BY UnitsAssumption
    <3>2. QED
      BY <1>1, <3>1 DEF InRange
  <2>3. QED
    BY <1>2, <1>3, <2>1, <2>2 DEF IsUnit
<1>6. ASSUME NEW y PROVE Exponent(a, y) + sign * Exponent(b, y) = Exponent(new, y)
  <2>1. CASE y = x
    <3>1. Exponent(a, y) = 0 /\ Exponent(b, y) = e /\ Exponent(new, y) = u[x]
      BY <1>3, <2>1 DEF Exponent, Part
    <3>2. QED
      BY <1>1, <3>1
  <2>2. CASE y # x
    <3>1. Exponent(b, y) = 0 /\ Exponent(a, y) = Exponent(new, y)
      BY <1>3, <2>2 DEF Exponent, Part
    <3>2. Exponent(a, y) \in Int
      BY <1>4, ExponentType
    <3>3. QED
      BY <3>1, <3>2
  <2>3. QED
    BY <2>1, <2>2
<1> HIDE DEF a, b, new
<1>7. \A y \in DOMAIN b : InRange(Exponent(a, y) + sign * Exponent(b, y))
  BY <1>4, <1>6, ExponentType
<1>8. IsUnit(c) /\ \A y : Exponent(c, y) = Exponent(new, y)
  BY <1>4, <1>5, <1>6, <1>7, CombineIs
<1> HIDE DEF c
<1>9. c = new
  BY <1>4, <1>8, SameUnit
<1>10. QED
  BY <1>9 DEF a, b, c, new

-----------------------------------------------------------------------------
(* The parser, one token at a time.                                        *)

\* An open term; the parser where a term begins, where it wants a component, and behind one.
Open(acc, next, outer) == [acc |-> acc, next |-> next, outer |-> outer]
Starts(stack) == Parsing(stack, TRUE, TRUE)
Wants(stack)  == Parsing(stack, TRUE, FALSE)
Behind(stack) == Parsing(stack, FALSE, FALSE)

IsList(list) == list \in Seq(ToSet(list))

\* A function on the first n numbers is a list of its values.
LEMMA FunctionList ==
    ASSUME NEW n \in Nat, NEW f, f = [i \in 1 .. n |-> f[i]]
    PROVE  IsList(f) /\ Len(f) = n
<1>1. f \in [1 .. n -> ToSet(f)]
  BY DEF ToSet
<1>2. QED
  BY <1>1, SeqOfFunction DEF IsList

\* A list is a function on its positions, and its values may be taken from a larger set.
LEMMA ListFunction ==
    ASSUME NEW list, IsList(list), NEW R, ToSet(list) \subseteq R
    PROVE  Len(list) \in Nat /\ list = [i \in 1 .. Len(list) |-> list[i]] /\ list \in Seq(R)
<1>1. Len(list) \in Nat /\ list \in [1 .. Len(list) -> ToSet(list)]
  BY LenProperties DEF IsList
<1>2. list \in [1 .. Len(list) -> R]
  BY <1>1
<1>3. QED
  BY <1>1, <1>2, SeqOfFunction

\* A list with one more element is a list.
LEMMA AppendList ==
    ASSUME NEW list, IsList(list), NEW e
    PROVE  IsList(Append(list, e))
<1> DEFINE S == ToSet(list) \cup {e}
           longer == Append(list, e)
<1>1. list \in Seq(S) /\ e \in S
  BY ListFunction
<1> HIDE DEF S
<1>2. longer \in Seq(S)
  BY <1>1, AppendProperties
<1> HIDE DEF longer
<1>3. Len(longer) \in Nat /\ longer = [i \in 1 .. Len(longer) |-> longer[i]]
  BY <1>2, LenProperties
<1>4. IsList(longer)
  BY <1>3, FunctionList
<1>5. QED
  BY <1>4 DEF longer

\* So is a list with another one behind it.
LEMMA ConcatList ==
    ASSUME NEW a, IsList(a), NEW b, IsList(b)
    PROVE  /\ IsList(a \o b) /\ Len(a) \in Nat /\ Len(b) \in Nat /\ Len(a \o b) = Len(a) + Len(b)
           /\ \A i \in 1 .. Len(a) + Len(b) : (a \o b)[i] = IF i <= Len(a) THEN a[i] ELSE b[i - Len(a)]
<1> DEFINE S == ToSet(a) \cup ToSet(b)
           both == a \o b
<1>1. Len(a) \in Nat /\ Len(b) \in Nat /\ a \in Seq(S) /\ b \in Seq(S)
  BY ListFunction
<1> HIDE DEF S
<1>2. /\ both \in Seq(S) /\ Len(both) = Len(a) + Len(b)
      /\ \A i \in 1 .. Len(a) + Len(b) : both[i] = IF i <= Len(a) THEN a[i] ELSE b[i - Len(a)]
  BY <1>1, ConcatProperties
<1> HIDE DEF both
<1>3. Len(both) \in Nat /\ both = [i \in 1 .. Len(both) |-> both[i]]
  BY <1>2, LenProperties
<1>4. IsList(both)
  BY <1>3, FunctionList
<1>5. QED
  BY <1>1, <1>2, <1>4 DEF both

\* The top of a stack.
LEMMA StackTop ==
    ASSUME NEW below, IsList(below), NEW t
    PROVE  /\ Last(Append(below, t)) = t /\ Front(Append(below, t)) = below
           /\ Len(Append(below, t)) = Len(below) + 1
           /\ \A new : WithTop(Append(below, t), new) = Append(below, new)
<1> DEFINE S == ToSet(below)
           R == S \cup {t}
           stack == Append(below, t)
           n == Len(below)
<1>1. n \in Nat /\ below \in [1 .. n -> R] /\ below \in Seq(R)
  <2>1. n \in Nat /\ below \in [1 .. n -> S]
    BY LenProperties DEF IsList
  <2>2. below \in [1 .. n -> R]
    BY <2>1
  <2>3. QED
    BY <2>1, <2>2, SeqOfFunction
<1>2. t \in R
  OBVIOUS
<1> HIDE DEF R
<1>3. stack \in Seq(R) /\ Len(stack) = n + 1 /\ stack[n + 1] = t /\ \A i \in 1 .. n : stack[i] = below[i]
  BY <1>1, <1>2, AppendProperties
<1> HIDE DEF stack
<1>4. Last(stack) = t
  BY <1>3 DEF Last
<1>5. Front(stack) = below
  <2>1. Front(stack) = [i \in 1 .. n |-> stack[i]]
    BY <1>1, <1>3 DEF Front
  <2>2. QED
    BY <1>1, <1>3, <2>1
<1>6. QED
  BY <1>3, <1>4, <1>5 DEF WithTop, stack

\* The next component takes a sign.
LEMMA SignNextIs ==
    ASSUME NEW below, IsList(below), NEW acc, NEW next, NEW outer, NEW sign
    PROVE  SignNext(Append(below, Open(acc, next, outer)), sign)
             = Wants(Append(below, Open(acc, sign, outer)))
<1> DEFINE top == Open(acc, next, outer)
           new == Open(acc, sign, outer)
           stack == Append(below, top)
<1>1. [top EXCEPT !.next = sign] = new
  BY DEF Open
<1> HIDE DEF top, new
<1>2. Last(stack) = top /\ WithTop(stack, new) = Append(below, new)
  BY StackTop
<1> HIDE DEF stack
<1>3. SignNext(stack, sign) = Wants(Append(below, new))
  BY <1>1, <1>2 DEF SignNext, Wants
<1>4. QED
  BY <1>3 DEF stack, top, new

\* The term at the top takes a product.
LEMMA TakeIs ==
    ASSUME NEW below, IsList(below), NEW acc, NEW next, NEW outer, NEW s, NEW new, new # UnitRefused
    PROVE  Take(s, Append(below, Open(acc, next, outer)), new)
             = Behind(Append(below, Open(new, next, outer)))
<1> DEFINE top == Open(acc, next, outer)
           term == Open(new, next, outer)
           rest == Append(below, top)
<1>1. [top EXCEPT !.acc = new] = term
  BY DEF Open
<1> HIDE DEF top, term
<1>2. Last(rest) = top /\ WithTop(rest, term) = Append(below, term)
  BY StackTop
<1> HIDE DEF rest
<1>3. Take(s, rest, new) = Behind(Append(below, term))
  BY <1>1, <1>2 DEF Take, Behind
<1>4. QED
  BY <1>3 DEF rest, top, term

\* A slash, before the first component of a term or behind one.
LEMMA StepSlash ==
    ASSUME NEW below, IsList(below), NEW acc, NEW next, NEW outer,
           NEW s, s \in {Starts(Append(below, Open(acc, next, outer))), Behind(Append(below, Open(acc, next, outer)))}
    PROVE  ParseStep(s, Tok("/")) = Wants(Append(below, Open(acc, -1, outer)))
<1> DEFINE stack == Append(below, Open(acc, next, outer))
           minus == -1
<1>1. SignNext(stack, minus) = Wants(Append(below, Open(acc, minus, outer)))
  <2> HIDE DEF minus
  <2>1. QED
    BY SignNextIs
<1>2. Tok("/").t = "/"
  BY DEF Tok
<1> HIDE DEF stack
<1>3. s.stack = stack /\ s.ok = TRUE /\ ((s.expect = TRUE /\ s.start = TRUE) \/ s.expect = FALSE)
  BY DEF stack, Starts, Behind, Parsing
<1>4. ParseStep(s, Tok("/")) = SignNext(stack, -1)
  BY <1>2, <1>3 DEF ParseStep
<1>5. QED
  BY <1>1, <1>4

\* A dot behind a component.
LEMMA StepDot ==
    ASSUME NEW below, IsList(below), NEW acc, NEW next, NEW outer
    PROVE  ParseStep(Behind(Append(below, Open(acc, next, outer))), Tok("."))
             = Wants(Append(below, Open(acc, 1, outer)))
<1> DEFINE stack == Append(below, Open(acc, next, outer))
           s == Behind(stack)
           plus == 1
<1>1. SignNext(stack, plus) = Wants(Append(below, Open(acc, plus, outer)))
  <2> HIDE DEF plus
  <2>1. QED
    BY SignNextIs
<1>2. Tok(".").t = "."
  BY DEF Tok
<1>3. s.stack = stack /\ s.ok = TRUE /\ s.expect = FALSE
  BY DEF Behind, Parsing
<1> HIDE DEF stack, s
<1>4. ParseStep(s, Tok(".")) = SignNext(stack, 1)
  BY <1>2, <1>3 DEF ParseStep
<1>5. QED
  BY <1>1, <1>4 DEF s, stack

\* An atom where a component is expected.
LEMMA StepAtom ==
    ASSUME NEW below, IsList(below), NEW acc, NEW next, NEW outer, NEW s, NEW x, NEW e,
           s \in {Starts(Append(below, Open(acc, next, outer))), Wants(Append(below, Open(acc, next, outer)))},
           NEW new, new = CombineFactors(acc, next, Component(x, e)), new # UnitRefused,
           InRange(e)
    PROVE  ParseStep(s, AtomTok(x, e)) = Behind(Append(below, Open(new, next, outer)))
<1> DEFINE top == Open(acc, next, outer)
           stack == Append(below, top)
           tok == AtomTok(x, e)
<1>1. Take(s, stack, new) = Behind(Append(below, Open(new, next, outer)))
  BY TakeIs
<1>2. tok.t = "atom" /\ tok.atom = x /\ tok.exp = e
  BY DEF AtomTok
<1>3. top.acc = acc /\ top.next = next
  BY DEF Open
<1> HIDE DEF top
<1>4. Last(stack) = top
  BY StackTop
<1> HIDE DEF stack, tok
<1>5. s.stack = stack /\ s.ok = TRUE /\ s.expect = TRUE
  BY DEF stack, top, Starts, Wants, Parsing
<1>6. ParseStep(s, tok) = Take(s, stack, new)
  <2>1. ParseStep(s, tok) = Take(s, s.stack, CombineFactors(Last(s.stack).acc, Last(s.stack).next,
                                                            Component(tok.atom, tok.exp)))
    BY <1>2, <1>5 DEF ParseStep
  <2>2. QED
    BY <1>2, <1>3, <1>4, <1>5, <2>1
<1>7. QED
  BY <1>1, <1>6 DEF tok

\* A one in place of a component.
LEMMA StepOne ==
    ASSUME NEW stack
    PROVE  ParseStep(Starts(stack), Tok("1")) = Behind(stack)
<1> DEFINE s == Starts(stack)
<1>1. Tok("1").t = "1"
  BY DEF Tok
<1>2. s.stack = stack /\ s.ok = TRUE /\ s.expect = TRUE
  BY DEF Starts, Parsing
<1> HIDE DEF s
<1>3. QED
  BY <1>1, <1>2 DEF ParseStep, Behind, s

\* A group is a term of its own, with the sign it has outside.
LEMMA StepOpen ==
    ASSUME NEW below, IsList(below), NEW acc, NEW next, NEW outer
    PROVE  ParseStep(Wants(Append(below, Open(acc, next, outer))), Tok("("))
             = Starts(Append(Append(below, Open(acc, next, outer)), Term(next)))
<1> DEFINE top == Open(acc, next, outer)
           stack == Append(below, top)
           s == Wants(stack)
<1>1. Tok("(").t = "("
  BY DEF Tok
<1>2. s.stack = stack /\ s.ok = TRUE /\ s.expect = TRUE /\ s.start = FALSE
  BY DEF Wants, Parsing
<1>3. top.next = next
  BY DEF Open
<1> HIDE DEF top
<1>4. Last(stack) = top
  BY StackTop
<1> HIDE DEF stack, s
<1>5. ParseStep(s, Tok("(")) = Parsing(Append(stack, Term(Last(stack).next)), TRUE, TRUE)
  BY <1>1, <1>2 DEF ParseStep
<1>6. ParseStep(s, Tok("(")) = Starts(Append(stack, Term(next)))
  BY <1>3, <1>4, <1>5 DEF Starts
<1>7. QED
  BY <1>6 DEF s, stack, top

\* The parser s is at the end of a group, which makes the term around it new.
AtClose(s, below, acc, next, outer, inner, last, sign, new) ==
    /\ IsList(below) /\ new = CombineFactors(acc, sign, inner)
    /\ s = Behind(Append(Append(below, Open(acc, next, outer)), Open(inner, last, sign)))

\* A closed group is a factor of the term around it.
LEMMA StepClose ==
    ASSUME NEW s, NEW below, NEW acc, NEW next, NEW outer, NEW inner, NEW last, NEW sign, NEW new,
           AtClose(s, below, acc, next, outer, inner, last, sign, new)
    PROVE  IF new = UnitRefused THEN ParseStep(s, Tok(")")).ok = FALSE
           ELSE ParseStep(s, Tok(")")) = Behind(Append(below, Open(new, next, outer)))
<1>0. /\ IsList(below) /\ new = CombineFactors(acc, sign, inner)
      /\ s = Behind(Append(Append(below, Open(acc, next, outer)), Open(inner, last, sign)))
  BY DEF AtClose
<1> DEFINE under == Open(acc, next, outer)
           rest == Append(below, under)
           top == Open(inner, last, sign)
           stack == Append(rest, top)
<1>1. new # UnitRefused => Take(s, rest, new) = Behind(Append(below, Open(new, next, outer)))
  BY <1>0, TakeIs
<1>2. Tok(")").t = ")"
  BY DEF Tok
<1>3. under.acc = acc /\ top.acc = inner /\ top.outer = sign
  BY DEF Open
<1>4. s.stack = stack /\ s.ok = TRUE /\ s.expect = FALSE
  BY <1>0 DEF Behind, Parsing
<1>5. s = [ok |-> s.ok, stack |-> s.stack, expect |-> s.expect, start |-> s.start]
  BY <1>0 DEF Behind, Parsing
<1> HIDE DEF under, top
<1>6. Last(rest) = under /\ Len(rest) = Len(below) + 1 /\ Len(below) \in Nat
  <2>1. Len(below) \in Nat
    BY <1>0, LenProperties DEF IsList
  <2>2. QED
    BY <1>0, <2>1, StackTop
<1>7. IsList(rest)
  BY <1>0, AppendList
<1> HIDE DEF rest
<1>8. Last(stack) = top /\ Front(stack) = rest /\ Len(stack) = Len(rest) + 1
  BY <1>7, StackTop
<1> HIDE DEF stack
<1>9. Len(s.stack) > 1
  BY <1>4, <1>6, <1>8
<1>10. ParseStep(s, Tok(")")) = Take(s, rest, CombineFactors(Last(rest).acc, Last(s.stack).outer, Last(s.stack).acc))
  BY <1>2, <1>4, <1>8, <1>9 DEF ParseStep
<1>11. ParseStep(s, Tok(")")) = Take(s, rest, new)
  BY <1>0, <1>3, <1>4, <1>6, <1>8, <1>10
<1>12. new = UnitRefused => Take(s, rest, new).ok = FALSE
  BY <1>5 DEF Take
<1>13. QED
  BY <1>1, <1>11, <1>12

-----------------------------------------------------------------------------
(* The parser, along a text.                                               *)

\* run holds the parser after each token of a text.
Reads(run, s, text) == run[0] = s /\ \A i \in 1 .. Len(text) : run[i] = ParseStep(run[i - 1], text[i])

\* The loop over the tokens has a value after each of them.
LEMMA ParseRuns ==
    ASSUME NEW s, NEW text, IsList(text)
    PROVE  \E run : Reads(run, s, text) /\ ParseFrom(s, text) = run[Len(text)]
<1> DEFINE n == Len(text)
           Step(f, i) == IF i = 0 THEN s ELSE ParseStep(f[i - 1], text[i])
           IsLoop(f, k) == f = [i \in 0 .. k |-> Step(f, i)]
           T == {k \in 0 .. n : \E f : IsLoop(f, k)}
<1>1. n \in Nat
  BY ListFunction
<1>2. 0 \in T
  <2> DEFINE f == [i \in 0 .. 0 |-> s]
  <2>1. IsLoop(f, 0)
    OBVIOUS
  <2>2. 0 \in 0 .. n
    BY <1>1
  <2> HIDE DEF f, IsLoop
  <2>3. QED
    BY <2>1, <2>2
<1>3. ASSUME NEW k \in 1 .. n, k - 1 \in T PROVE k \in T
  <2>1. PICK f : IsLoop(f, k - 1)
    BY <1>3
  <2> DEFINE g == [i \in 0 .. k |-> IF i = k THEN ParseStep(f[k - 1], text[k]) ELSE f[i]]
  <2>2. ASSUME NEW i \in 0 .. k PROVE g[i] = Step(g, i)
    <3>1. CASE i = k
      <4>1. k # 0 /\ k - 1 \in 0 .. k /\ k - 1 # k
        BY <1>1
      <4>2. g[k - 1] = f[k - 1]
        BY <4>1
      <4>3. g[k] = ParseStep(f[k - 1], text[k])
        BY <1>1
      <4> HIDE DEF g
      <4>4. QED
        BY <3>1, <4>1, <4>2, <4>3
    <3>2. CASE i # k
      <4>1. i \in 0 .. k - 1 /\ (i # 0 => i - 1 \in 0 .. k /\ i - 1 # k)
        BY <1>1, <3>2
      <4>2. g[i] = f[i] /\ (i # 0 => g[i - 1] = f[i - 1])
        BY <3>2, <4>1
      <4>3. f[i] = Step(f, i)
        BY <2>1, <4>1
      <4> HIDE DEF g
      <4>4. QED
        BY <4>2, <4>3
    <3>3. QED
      BY <3>1, <3>2
  <2>3. g = [i \in 0 .. k |-> g[i]]
    OBVIOUS
  <2> HIDE DEF g
  <2>4. IsLoop(g, k)
    BY <2>2, <2>3
  <2>5. k \in 0 .. n
    BY <1>1
  <2> HIDE DEF IsLoop
  <2>6. QED
    BY <2>4, <2>5
<1>4. n \in T
  <2> HIDE DEF T, n
  <2>1. \A i \in 0 .. n : i \in T
    BY <1>1, <1>2, <1>3, CountingUp
  <2>2. QED
    BY <1>1, <2>1
<1>5. \E f : IsLoop(f, n)
  BY <1>4
<1> DEFINE after == CHOOSE f : IsLoop(f, n)
<1>6. IsLoop(after, n)
  BY <1>5
<1>7. ParseFrom(s, text) = after[n]
  BY DEF ParseFrom
<1> HIDE DEF after
<1>8. Reads(after, s, text)
  <2>1. \A i \in 0 .. n : after[i] = Step(after, i)
    BY <1>6
  <2>2. 0 \in 0 .. n /\ \A i \in 1 .. n : i \in 0 .. n /\ i # 0
    BY <1>1
  <2>3. QED
    BY <2>1, <2>2 DEF Reads
<1>9. QED
  BY <1>7, <1>8

\* What a run of the parser ends with is what it makes of the text.
LEMMA ParseEnds ==
    ASSUME NEW s, NEW text, IsList(text), NEW run, Reads(run, s, text)
    PROVE  ParseFrom(s, text) = run[Len(text)]
<1>1. PICK after : Reads(after, s, text) /\ ParseFrom(s, text) = after[Len(text)]
  BY ParseRuns
<1>2. Len(text) \in Nat
  BY ListFunction
<1>3. run[Len(text)] = after[Len(text)]
  <2>1. run[0] = after[0]
    BY <1>1 DEF Reads
  <2>2. \A i \in 1 .. Len(text) : run[i - 1] = after[i - 1] => run[i] = after[i]
    BY <1>1 DEF Reads
  <2> DEFINE n == Len(text)
  <2>3. n \in Nat /\ run[0] = after[0] /\ \A i \in 1 .. n : run[i - 1] = after[i - 1] => run[i] = after[i]
    BY <1>2, <2>1, <2>2
  <2> HIDE DEF n
  <2>4. run[n] = after[n]
    BY <2>3, RunsMeet
  <2>5. QED
    BY <2>4 DEF n
<1>4. QED
  BY <1>1, <1>3

\* A text is read up to any place, and then on from there.
LEMMA ParseOn ==
    ASSUME NEW s, NEW a, IsList(a), NEW b, IsList(b)
    PROVE  ParseFrom(s, a \o b) = ParseFrom(ParseFrom(s, a), b)
<1> DEFINE m == Len(a)
           n == Len(b)
           both == a \o b
<1>1. /\ IsList(both) /\ m \in Nat /\ n \in Nat /\ Len(both) = m + n
      /\ \A i \in 1 .. m + n : both[i] = IF i <= m THEN a[i] ELSE b[i - m]
  BY ConcatList
<1>2. PICK f : Reads(f, s, a) /\ ParseFrom(s, a) = f[m]
  BY ParseRuns
<1>3. PICK g : Reads(g, f[m], b) /\ ParseFrom(f[m], b) = g[n]
  BY ParseRuns
<1> DEFINE run == [i \in 0 .. m + n |-> IF i <= m THEN f[i] ELSE g[i - m]]
<1>4. /\ f[0] = s /\ g[0] = f[m]
      /\ \A i \in 1 .. m : f[i] = ParseStep(f[i - 1], a[i])
      /\ \A i \in 1 .. n : g[i] = ParseStep(g[i - 1], b[i])
  BY <1>2, <1>3 DEF Reads
<1> HIDE DEF m, n, both
<1>5. run[0] = s
  BY <1>1, <1>4
<1>6. ASSUME NEW i \in 1 .. m + n PROVE run[i] = ParseStep(run[i - 1], both[i])
  <2>0. i \in 0 .. m + n /\ i - 1 \in 0 .. m + n
    BY <1>1
  <2>1. CASE i <= m
    <3>1. i \in 1 .. m /\ i - 1 <= m
      BY <1>1, <2>1
    <3>2. run[i] = f[i] /\ run[i - 1] = f[i - 1] /\ both[i] = a[i]
      BY <1>1, <2>0, <2>1, <3>1
    <3> HIDE DEF run
    <3>3. QED
      BY <1>4, <3>1, <3>2
  <2>2. CASE i = m + 1
    <3>1. ~(i <= m) /\ i - 1 <= m /\ i - m = 1 /\ i - 1 = m /\ 1 \in 1 .. n
      BY <1>1, <2>2
    <3>2. run[i] = g[1] /\ run[i - 1] = f[m] /\ both[i] = b[1]
      BY <1>1, <2>0, <3>1
    <3>3. g[1] = ParseStep(g[0], b[1])
      <4>1. 1 - 1 = 0
        OBVIOUS
      <4>2. QED
        BY <1>4, <3>1, <4>1
    <3> HIDE DEF run
    <3>4. QED
      BY <1>4, <3>2, <3>3
  <2>3. CASE i > m + 1
    <3>1. ~(i <= m) /\ ~(i - 1 <= m) /\ i - m \in 1 .. n /\ (i - 1) - m = (i - m) - 1
      BY <1>1, <2>3
    <3>2. run[i] = g[i - m] /\ run[i - 1] = g[(i - 1) - m] /\ both[i] = b[i - m]
      BY <1>1, <2>0, <3>1
    <3> HIDE DEF run
    <3>3. QED
      BY <1>4, <3>1, <3>2
  <2>4. QED
    BY <1>1, <2>1, <2>2, <2>3
<1>7. run[m + n] = g[n]
  <2>1. CASE n = 0
    <3>1. m + n = m /\ m <= m /\ m \in 0 .. m + n
      BY <1>1, <2>1
    <3>2. run[m + n] = f[m]
      BY <3>1
    <3> HIDE DEF run
    <3>3. QED
      BY <1>4, <2>1, <3>2
  <2>2. CASE n # 0
    <3>1. ~(m + n <= m) /\ (m + n) - m = n /\ m + n \in 0 .. m + n
      BY <1>1, <2>2
    <3>2. run[m + n] = g[(m + n) - m]
      BY <3>1
    <3> HIDE DEF run
    <3>3. QED
      BY <3>1, <3>2
  <2>3. QED
    BY <2>1, <2>2
<1> HIDE DEF run
<1>8. Reads(run, s, both)
  BY <1>1, <1>5, <1>6 DEF Reads
<1>9. ParseFrom(s, both) = run[m + n]
  BY <1>1, <1>8, ParseEnds
<1>10. ParseFrom(s, both) = g[n]
  BY <1>7, <1>9
<1>11. QED
  BY <1>2, <1>3, <1>10 DEF both, m, n

\* Texts of one token, and of two.
LEMMA ParseOne ==
    ASSUME NEW s, NEW t
    PROVE  IsList(<<t>>) /\ ParseFrom(s, <<t>>) = ParseStep(s, t)
<1> DEFINE text == <<t>>
<1>1. text = [i \in 1 .. 1 |-> text[i]] /\ text[1] = t
  OBVIOUS
<1> HIDE DEF text
<1>2. IsList(text) /\ Len(text) = 1
  BY <1>1, FunctionList
<1> DEFINE run == [i \in 0 .. 1 |-> IF i = 0 THEN s ELSE ParseStep(s, t)]
<1>3. run[0] = s /\ run[1] = ParseStep(s, t)
  OBVIOUS
<1> HIDE DEF run
<1>4. \A i \in 1 .. 1 : i = 1 /\ i - 1 = 0
  OBVIOUS
<1>5. Reads(run, s, text)
  BY <1>1, <1>2, <1>3, <1>4 DEF Reads
<1>6. ParseFrom(s, text) = run[1]
  BY <1>2, <1>5, ParseEnds
<1>7. QED
  BY <1>2, <1>3, <1>6 DEF text

LEMMA ParseTwo ==
    ASSUME NEW s, NEW t, NEW t2
    PROVE  IsList(<<t, t2>>) /\ ParseFrom(s, <<t, t2>>) = ParseStep(ParseStep(s, t), t2)
<1> DEFINE one == <<t>>
           two == <<t2>>
           first == ParseStep(s, t)
<1>1. one[1] = t /\ two[1] = t2 /\ Len(one) = 1 /\ Len(two) = 1
  OBVIOUS
<1>2. IsList(one) /\ IsList(two) /\ ParseFrom(s, one) = first /\ ParseFrom(first, two) = ParseStep(first, t2)
  BY ParseOne
<1> HIDE DEF one, two, first
<1> DEFINE both == one \o two
<1>3. /\ IsList(both) /\ Len(both) = Len(one) + Len(two)
      /\ \A i \in 1 .. Len(one) + Len(two) : both[i] = IF i <= Len(one) THEN one[i] ELSE two[i - Len(one)]
  BY <1>2, ConcatList
<1>4. ParseFrom(s, both) = ParseFrom(ParseFrom(s, one), two)
  BY <1>2, ParseOn
<1> HIDE DEF both
<1>5. Len(both) = 2 /\ both[1] = t /\ both[2] = t2
  BY <1>1, <1>3
<1>6. both = [i \in 1 .. 2 |-> both[i]]
  BY <1>3, <1>5, ListFunction
<1>7. both = <<t, t2>>
  BY <1>5, <1>6
<1>8. QED
  BY <1>2, <1>3, <1>4, <1>7 DEF first

-----------------------------------------------------------------------------
(* The canonical text, component by component.                             *)

\* The first n atoms of a list.
Up(atoms, n) == {atoms[k] : k \in 1 .. n}

\* One more of them is one that was not there.
LEMMA UpNext ==
    ASSUME NEW atoms, IsList(atoms), OnceEach(atoms), NEW n \in 1 .. Len(atoms)
    PROVE  /\ Up(atoms, n) = Up(atoms, n - 1) \cup {atoms[n]} /\ atoms[n] \notin Up(atoms, n - 1)
           /\ atoms[n] \in ToSet(atoms) /\ Up(atoms, n - 1) \subseteq ToSet(atoms)
<1>1. Len(atoms) \in Nat /\ DOMAIN atoms = 1 .. Len(atoms)
  BY LenProperties DEF IsList
<1>2. \A k \in 1 .. n : k = n \/ k \in 1 .. n - 1
  BY <1>1
<1>3. n \in 1 .. n /\ \A k \in 1 .. n - 1 : k \in 1 .. n /\ k # n /\ k \in 1 .. Len(atoms)
  BY <1>1
<1>4. Up(atoms, n) = Up(atoms, n - 1) \cup {atoms[n]}
  BY <1>2, <1>3 DEF Up
<1>5. atoms[n] \notin Up(atoms, n - 1)
  BY <1>3 DEF Up, OnceEach
<1>6. atoms[n] \in ToSet(atoms) /\ Up(atoms, n - 1) \subseteq ToSet(atoms)
  BY <1>1, <1>3 DEF Up, ToSet
<1>7. QED
  BY <1>4, <1>5, <1>6

LEMMA UpEnds ==
    ASSUME NEW atoms, IsList(atoms)
    PROVE  Up(atoms, 0) = {} /\ Up(atoms, Len(atoms)) = ToSet(atoms)
<1>1. Len(atoms) \in Nat /\ DOMAIN atoms = 1 .. Len(atoms)
  BY LenProperties DEF IsList
<1>2. 1 .. 0 = {}
  OBVIOUS
<1>3. QED
  BY <1>1, <1>2 DEF Up, ToSet

\* The term at the top once the factors of the atoms of A are read.
ReadTerm(u, A, next, outer) == Open(Part(u, A), next, outer)

\* The parser s can take the factor of x, which is not in A and which the text gives the
\* exponent e behind a sign.
CanTake(s, below, u, A, x, sign, e, outer) ==
    /\ IsList(below) /\ IsUnit(u) /\ A \subseteq DOMAIN u /\ x \in DOMAIN u \ A
    /\ sign \in {1, -1} /\ e \in Int /\ sign * e = u[x]
    /\ s \in {Starts(Append(below, ReadTerm(u, A, sign, outer))), Wants(Append(below, ReadTerm(u, A, sign, outer)))}

\* A factor read, at the top of any stack: behind a dot or first in its term, or behind
\* a slash, where it is written with the opposite exponent.
LEMMA StepFactor ==
    ASSUME NEW s, NEW below, NEW u, NEW A, NEW x, NEW sign, NEW e, NEW outer,
           CanTake(s, below, u, A, x, sign, e, outer)
    PROVE  ParseStep(s, AtomTok(x, e)) = Behind(Append(below, ReadTerm(u, A \cup {x}, sign, outer)))
<1> DEFINE acc == Part(u, A)
           new == Part(u, A \cup {x})
<1>0. /\ IsList(below) /\ IsUnit(u) /\ A \subseteq DOMAIN u /\ x \in DOMAIN u \ A
      /\ sign \in {1, -1} /\ e \in Int /\ sign * e = u[x]
  BY DEF CanTake
<1>1. new = CombineFactors(acc, sign, Component(x, e))
  BY <1>0, FactorRead
<1>2. new # UnitRefused
  <2>1. A \cup {x} \subseteq DOMAIN u
    BY <1>0
  <2>2. IsUnit(new)
    BY <1>0, <2>1, PartIsUnit
  <2> HIDE DEF new
  <2>3. QED
    BY <2>2, NotRefused
<1>3. s \in {Starts(Append(below, Open(acc, sign, outer))), Wants(Append(below, Open(acc, sign, outer)))}
  BY DEF ReadTerm, CanTake
<1>4. InRange(e)
  <2>1. u[x] \in Int /\ InRange(u[x]) /\ MaxUnitExp \in Nat
    BY <1>0, UnitsAssumption DEF IsUnit
  <2>2. QED
    BY <1>0, <2>1 DEF InRange
<1> HIDE DEF acc, new
<1>5. ParseStep(s, AtomTok(x, e)) = Behind(Append(below, Open(new, sign, outer)))
  BY <1>0, <1>1, <1>2, <1>3, <1>4, StepAtom
<1>6. QED
  BY <1>5 DEF new, ReadTerm

\* The positions of a text of pairs.
LEMMA OddOrEven ==
    ASSUME NEW i \in Nat \ {0}
    PROVE  \/ /\ i % 2 = 1 /\ (i + 1) \div 2 \in Nat \ {0} /\ i = 2 * ((i + 1) \div 2) - 1
              /\ (i - 1) % 2 = 0 /\ (i - 1) \div 2 = (i + 1) \div 2 - 1
           \/ /\ i % 2 = 0 /\ i \div 2 \in Nat \ {0} /\ i = 2 * (i \div 2)
              /\ (i - 1) % 2 = 1 /\ ((i - 1) + 1) \div 2 = i \div 2
OBVIOUS

\* Factors with dots between them, from where the term begins.
LEMMA DottedRead ==
    ASSUME NEW below, IsList(below), NEW u, IsUnit(u), NEW atoms, IsList(atoms), OnceEach(atoms),
           ToSet(atoms) \subseteq DOMAIN u, atoms # <<>>, NEW outer
    PROVE  /\ IsList(Dotted(u, atoms))
           /\ ParseFrom(Starts(Append(below, ReadTerm(u, {}, 1, outer))), Dotted(u, atoms))
                = Behind(Append(below, ReadTerm(u, ToSet(atoms), 1, outer)))
<1> DEFINE n == Len(atoms)
           text == Dotted(u, atoms)
           Stack(A) == Append(below, ReadTerm(u, A, 1, outer))
           run == [i \in 0 .. 2 * n - 1 |->
                      IF i = 0 THEN Starts(Stack({}))
                      ELSE IF i % 2 = 1 THEN Behind(Stack(Up(atoms, (i + 1) \div 2)))
                      ELSE Wants(Stack(Up(atoms, i \div 2)))]
<1>1. n \in Nat \ {0}
  BY EmptySeq, LenProperties DEF IsList
<1>2. /\ text = [i \in 1 .. 2 * n - 1 |-> text[i]]
      /\ \A i \in 1 .. 2 * n - 1 :
            text[i] = IF i % 2 = 1 THEN AtomTok(atoms[(i + 1) \div 2], u[atoms[(i + 1) \div 2]]) ELSE Tok(".")
  BY DEF Dotted
<1> HIDE DEF text
<1>3. IsList(text) /\ Len(text) = 2 * n - 1
  <2> DEFINE m == 2 * n - 1
  <2>1. m \in Nat
    BY <1>1
  <2> HIDE DEF m
  <2>2. QED
    BY <1>2, <2>1, FunctionList DEF m
<1>4. ASSUME NEW j \in 1 .. n, NEW s, s \in {Starts(Stack(Up(atoms, j - 1))), Wants(Stack(Up(atoms, j - 1)))}
      PROVE  ParseStep(s, AtomTok(atoms[j], u[atoms[j]])) = Behind(Stack(Up(atoms, j)))
  <2> DEFINE A == Up(atoms, j - 1)
             x == atoms[j]
             e == u[x]
             one == 1
  <2>1. A \subseteq DOMAIN u /\ x \in DOMAIN u \ A /\ Up(atoms, j) = A \cup {x}
    BY UpNext
  <2>2. e \in Int /\ one * e = u[x] /\ one \in {1, -1}
    BY <2>1 DEF IsUnit
  <2>3. CanTake(s, below, u, A, x, one, e, outer)
    BY <1>4, <2>1, <2>2 DEF CanTake
  <2> HIDE DEF A, x, one, e
  <2>4. ParseStep(s, AtomTok(x, e)) = Behind(Append(below, ReadTerm(u, A \cup {x}, one, outer)))
    BY <2>3, StepFactor
  <2>5. QED
    BY <2>1, <2>4 DEF x, e, one
<1>5. ASSUME NEW A PROVE ParseStep(Behind(Stack(A)), Tok(".")) = Wants(Stack(A))
  <2> DEFINE acc == Part(u, A)
             one == 1
  <2> HIDE DEF acc, one
  <2>1. ParseStep(Behind(Append(below, Open(acc, one, outer))), Tok(".")) = Wants(Append(below, Open(acc, 1, outer)))
    BY StepDot
  <2>2. QED
    BY <2>1 DEF acc, one, ReadTerm
<1> HIDE DEF Stack
<1>6. run[0] = Starts(Stack({})) /\ run[2 * n - 1] = Behind(Stack(ToSet(atoms)))
  <2>1. Up(atoms, n) = ToSet(atoms)
    BY UpEnds
  <2>2. 0 \in 0 .. 2 * n - 1 /\ 2 * n - 1 \in 0 .. 2 * n - 1 /\ 2 * n - 1 # 0
    BY <1>1
  <2>3. (2 * n - 1) % 2 = 1 /\ ((2 * n - 1) + 1) \div 2 = n
    BY <1>1
  <2> HIDE DEF n
  <2>4. QED
    BY <2>1, <2>2, <2>3
<1>7. ASSUME NEW i \in 1 .. 2 * n - 1 PROVE run[i] = ParseStep(run[i - 1], text[i])
  <2>1. i \in Nat \ {0} /\ i \in 0 .. 2 * n - 1 /\ i - 1 \in 0 .. 2 * n - 1
    BY <1>1
  <2>2. CASE i % 2 = 1
    <3> DEFINE j == (i + 1) \div 2
    <3>1. j \in 1 .. n /\ (i - 1) % 2 = 0 /\ (i - 1) \div 2 = j - 1 /\ (i = 1 => j - 1 = 0)
      BY <1>1, <2>1, <2>2, OddOrEven
    <3>2. run[i] = Behind(Stack(Up(atoms, j))) /\ text[i] = AtomTok(atoms[j], u[atoms[j]])
      BY <1>2, <2>1, <2>2
    <3>3. run[i - 1] = IF i = 1 THEN Starts(Stack({})) ELSE Wants(Stack(Up(atoms, (i - 1) \div 2)))
      BY <2>1, <3>1
    <3>4. Up(atoms, 0) = {}
      BY UpEnds
    <3> HIDE DEF j, run
    <3>5. run[i - 1] \in {Starts(Stack(Up(atoms, j - 1))), Wants(Stack(Up(atoms, j - 1)))}
      BY <3>1, <3>3, <3>4
    <3>6. QED
      BY <1>4, <3>1, <3>2, <3>5
  <2>3. CASE i % 2 # 1
    <3>1. i - 1 # 0 /\ (i - 1) % 2 = 1 /\ ((i - 1) + 1) \div 2 = i \div 2
      BY <2>1, <2>3, OddOrEven
    <3>2. run[i] = Wants(Stack(Up(atoms, i \div 2))) /\ text[i] = Tok(".")
      BY <1>2, <2>1, <2>3
    <3>3. run[i - 1] = Behind(Stack(Up(atoms, ((i - 1) + 1) \div 2)))
      BY <2>1, <3>1
    <3> HIDE DEF run
    <3>4. QED
      BY <1>5, <3>1, <3>2, <3>3
  <2>4. QED
    BY <2>2, <2>3
<1> DEFINE start == Starts(Stack({}))
<1> HIDE DEF run, start
<1>8. Reads(run, start, text)
  BY <1>3, <1>6, <1>7 DEF Reads, start
<1>9. ParseFrom(start, text) = run[Len(text)]
  BY <1>3, <1>8, ParseEnds
<1>10. ParseFrom(start, text) = Behind(Stack(ToSet(atoms)))
  BY <1>3, <1>6, <1>9
<1>11. QED
  BY <1>3, <1>10 DEF start, text, Stack

\* The parser s has read the factors of A and can go on with a slash; atoms are others.
CanGoOn(s, below, u, A, atoms, next, outer) ==
    /\ IsList(below) /\ IsUnit(u) /\ A \subseteq DOMAIN u
    /\ IsList(atoms) /\ OnceEach(atoms) /\ atoms # <<>> /\ ToSet(atoms) \subseteq DOMAIN u \ A
    /\ s \in {Starts(Append(below, ReadTerm(u, A, next, outer))), Behind(Append(below, ReadTerm(u, A, next, outer)))}

\* Factors with a slash before each of them.
LEMMA SlashedRead ==
    ASSUME NEW s, NEW below, NEW u, NEW A, NEW atoms, NEW next, NEW outer,
           CanGoOn(s, below, u, A, atoms, next, outer)
    PROVE  /\ IsList(Slashed(u, atoms))
           /\ ParseFrom(s, Slashed(u, atoms)) = Behind(Append(below, ReadTerm(u, A \cup ToSet(atoms), -1, outer)))
<1> DEFINE n == Len(atoms)
           text == Slashed(u, atoms)
           Stack(B) == Append(below, ReadTerm(u, B, -1, outer))
           Has(k) == A \cup Up(atoms, k)
           run == [i \in 0 .. 2 * n |->
                      IF i = 0 THEN s
                      ELSE IF i % 2 = 1 THEN Wants(Stack(Has((i + 1) \div 2 - 1)))
                      ELSE Behind(Stack(Has(i \div 2)))]
<1>0. /\ IsList(below) /\ IsUnit(u) /\ A \subseteq DOMAIN u
      /\ IsList(atoms) /\ OnceEach(atoms) /\ atoms # <<>> /\ ToSet(atoms) \subseteq DOMAIN u \ A
  BY DEF CanGoOn
<1>1. n \in Nat \ {0}
  BY <1>0, EmptySeq, LenProperties DEF IsList
<1>2. /\ text = [i \in 1 .. 2 * n |-> text[i]]
      /\ \A i \in 1 .. 2 * n :
            text[i] = IF i % 2 = 1 THEN Tok("/") ELSE AtomTok(atoms[i \div 2], -u[atoms[i \div 2]])
  BY DEF Slashed
<1> HIDE DEF text
<1>3. IsList(text) /\ Len(text) = 2 * n
  <2> DEFINE m == 2 * n
  <2>1. m \in Nat
    BY <1>1
  <2> HIDE DEF m
  <2>2. QED
    BY <1>2, <2>1, FunctionList DEF m
<1>4. ASSUME NEW j \in 1 .. n
      PROVE  ParseStep(Wants(Stack(Has(j - 1))), AtomTok(atoms[j], -u[atoms[j]])) = Behind(Stack(Has(j)))
  <2> DEFINE B == Has(j - 1)
             x == atoms[j]
             e == -u[x]
             minus == -1
             from == Wants(Stack(B))
  <2>1. B \subseteq DOMAIN u /\ x \in DOMAIN u \ B /\ Has(j) = B \cup {x}
    BY <1>0, UpNext
  <2>2. e \in Int /\ minus * e = u[x] /\ minus \in {1, -1}
    <3>1. u[x] \in Int
      BY <1>0, <2>1 DEF IsUnit
    <3>2. QED
      BY <3>1
  <2>3. CanTake(from, below, u, B, x, minus, e, outer)
    <3> HIDE DEF B, x, e
    <3>1. QED
      BY <1>0, <2>1, <2>2 DEF CanTake
  <2> HIDE DEF B, x, e, minus, from
  <2>4. ParseStep(from, AtomTok(x, e)) = Behind(Append(below, ReadTerm(u, B \cup {x}, minus, outer)))
    BY <2>3, StepFactor
  <2>5. QED
    BY <2>1, <2>4 DEF x, e, minus, from, B
<1>5. ASSUME NEW B, NEW t, NEW nx,
             t \in {Starts(Append(below, ReadTerm(u, B, nx, outer))), Behind(Append(below, ReadTerm(u, B, nx, outer)))}
      PROVE  ParseStep(t, Tok("/")) = Wants(Stack(B))
  <2> DEFINE acc == Part(u, B)
  <2>1. t \in {Starts(Append(below, Open(acc, nx, outer))), Behind(Append(below, Open(acc, nx, outer)))}
    BY <1>5 DEF ReadTerm
  <2> HIDE DEF acc
  <2>2. ParseStep(t, Tok("/")) = Wants(Append(below, Open(acc, -1, outer)))
    BY <1>0, <2>1, StepSlash
  <2>3. QED
    BY <2>2 DEF acc, ReadTerm
<1>6. Has(0) = A /\ Has(n) = A \cup ToSet(atoms)
  BY <1>0, UpEnds
<1>7. ParseStep(s, Tok("/")) = Wants(Stack(A))
  BY <1>5 DEF CanGoOn
<1>8. ASSUME NEW j \in 1 .. n PROVE ParseStep(Behind(Stack(Has(j))), Tok("/")) = Wants(Stack(Has(j)))
  BY <1>5
<1> HIDE DEF Stack, Has
<1>9. run[0] = s /\ run[2 * n] = Behind(Stack(Has(n)))
  <2>1. 0 \in 0 .. 2 * n /\ 2 * n \in 0 .. 2 * n /\ 2 * n # 0 /\ (2 * n) % 2 # 1 /\ (2 * n) \div 2 = n
    BY <1>1
  <2> HIDE DEF n
  <2>2. QED
    BY <2>1
<1>10. ASSUME NEW i \in 1 .. 2 * n PROVE run[i] = ParseStep(run[i - 1], text[i])
  <2>1. i \in Nat \ {0} /\ i \in 0 .. 2 * n /\ i - 1 \in 0 .. 2 * n
    BY <1>1
  <2>2. CASE i % 2 = 1
    <3> DEFINE j == (i + 1) \div 2 - 1
    <3>1. /\ i = 1 => j = 0
          /\ i # 1 => j \in 1 .. n /\ i - 1 # 0 /\ (i - 1) % 2 # 1 /\ (i - 1) \div 2 = j
      BY <1>1, <2>1, <2>2, OddOrEven
    <3>2. run[i] = Wants(Stack(Has(j))) /\ text[i] = Tok("/")
      BY <1>2, <2>1, <2>2
    <3>3. run[i - 1] = IF i = 1 THEN s ELSE Behind(Stack(Has(j)))
      BY <2>1, <3>1
    <3> HIDE DEF j, run
    <3>4. QED
      BY <1>6, <1>7, <1>8, <3>1, <3>2, <3>3
  <2>3. CASE i % 2 # 1
    <3> DEFINE j == i \div 2
    <3>1. j \in 1 .. n /\ i - 1 # 0 /\ (i - 1) % 2 = 1 /\ ((i - 1) + 1) \div 2 - 1 = j - 1
      BY <1>1, <2>1, <2>3, OddOrEven
    <3>2. run[i] = Behind(Stack(Has(j))) /\ text[i] = AtomTok(atoms[j], -u[atoms[j]])
      BY <1>2, <2>1, <2>3
    <3>3. run[i - 1] = Wants(Stack(Has(j - 1)))
      BY <2>1, <3>1
    <3> HIDE DEF j, run
    <3>4. QED
      BY <1>4, <3>1, <3>2, <3>3
  <2>4. QED
    BY <2>2, <2>3
<1> HIDE DEF run
<1>11. Reads(run, s, text)
  BY <1>3, <1>9, <1>10 DEF Reads
<1>12. ParseFrom(s, text) = run[Len(text)]
  BY <1>3, <1>11, ParseEnds
<1>13. ParseFrom(s, text) = Behind(Stack(A \cup ToSet(atoms)))
  BY <1>3, <1>6, <1>9, <1>12
<1>14. QED
  BY <1>3, <1>13 DEF text, Stack

\* The atoms with positive exponents and those with negative ones, listed.
LEMMA SignsListed ==
    ASSUME NEW u, IsUnit(u)
    PROVE  LET above == SetToSeq({x \in DOMAIN u : u[x] > 0})
               under == SetToSeq({x \in DOMAIN u : u[x] < 0})
           IN  /\ IsList(above) /\ OnceEach(above) /\ IsList(under) /\ OnceEach(under)
               /\ ToSet(above) \subseteq DOMAIN u /\ ToSet(under) \subseteq DOMAIN u \ ToSet(above)
               /\ ToSet(above) \cup ToSet(under) = DOMAIN u
<1> DEFINE P == {x \in DOMAIN u : u[x] > 0}
           N == {x \in DOMAIN u : u[x] < 0}
<1>1. IsFiniteSet(P) /\ IsFiniteSet(N)
  <2>1. P \subseteq DOMAIN u /\ N \subseteq DOMAIN u /\ IsFiniteSet(DOMAIN u)
    BY DEF IsUnit
  <2> HIDE DEF P, N
  <2>2. QED
    BY <2>1, FS_Subset
<1>2. P \subseteq DOMAIN u /\ N \subseteq DOMAIN u \ P /\ P \cup N = DOMAIN u
  BY DEF IsUnit
<1> HIDE DEF P, N
<1>3. /\ SetToSeq(P) \in Seq(P) /\ OnceEach(SetToSeq(P)) /\ ToSet(SetToSeq(P)) = P
      /\ SetToSeq(N) \in Seq(N) /\ OnceEach(SetToSeq(N)) /\ ToSet(SetToSeq(N)) = N
  BY <1>1, ListIs
<1>4. IsList(SetToSeq(P)) /\ IsList(SetToSeq(N))
  BY <1>3 DEF IsList
<1>5. QED
  BY <1>2, <1>3, <1>4 DEF P, N

\* The parser reads the canonical text of a unit as that unit, on top of any stack.
LEMMA TextRead ==
    ASSUME NEW below, IsList(below), NEW u, IsUnit(u), NEW outer
    PROVE  /\ IsList(UnitText(u))
           /\ \E next : ParseFrom(Starts(Append(below, Term(outer))), UnitText(u))
                          = Behind(Append(below, Open(u, next, outer)))
<1> DEFINE above == SetToSeq({x \in DOMAIN u : u[x] > 0})
           under == SetToSeq({x \in DOMAIN u : u[x] < 0})
           A == ToSet(above)
           B == ToSet(under)
           one == 1
           start == Starts(Append(below, Term(outer)))
           Stack(C, next) == Append(below, ReadTerm(u, C, next, outer))
<1>1. /\ IsList(above) /\ OnceEach(above) /\ IsList(under) /\ OnceEach(under)
      /\ A \subseteq DOMAIN u /\ B \subseteq DOMAIN u \ A /\ A \cup B = DOMAIN u
  BY SignsListed
<1>2. Part(u, {}) = Dimensionless /\ Part(u, DOMAIN u) = u
  BY DEF Part, Dimensionless, IsUnit
<1>3. Term(outer) = Open(Dimensionless, 1, outer)
  BY DEF Term, Open
<1>4. start = Starts(Stack({}, 1))
  BY <1>2, <1>3 DEF ReadTerm
<1>5. ASSUME NEW next PROVE Stack(DOMAIN u, next) = Append(below, Open(u, next, outer))
  BY <1>2 DEF ReadTerm
<1>6. CASE u = Dimensionless
  <2>1. UnitText(u) = <<Tok("1")>>
    BY <1>6 DEF UnitText
  <2> DEFINE stack == Append(below, Term(outer))
  <2> HIDE DEF stack
  <2>2. IsList(<<Tok("1")>>) /\ ParseFrom(Starts(stack), <<Tok("1")>>) = Behind(stack)
    BY ParseOne, StepOne
  <2>3. stack = Append(below, Open(u, 1, outer))
    BY <1>3, <1>6 DEF stack
  <2>4. QED
    BY <2>1, <2>2, <2>3 DEF stack
<1>7. CASE u # Dimensionless
  <2> DEFINE first == Dotted(u, above)
             second == Slashed(u, under)
  <2>1. UnitText(u) = first \o second
    BY <1>7 DEF UnitText
  <2>2. above # <<>> \/ under # <<>>
    <3>1. ASSUME above = <<>>, under = <<>> PROVE FALSE
      <4>1. A = {} /\ B = {}
        BY <3>1 DEF ToSet
      <4>2. u = Part(u, {})
        BY <1>1, <1>2, <4>1
      <4>3. QED
        BY <1>2, <1>7, <4>2
    <3>2. QED
      BY <3>1
  <2>3. above = <<>> => first = <<>> /\ A = {}
    BY DEF Dotted, ToSet
  <2>4. above # <<>> => IsList(first) /\ ParseFrom(start, first) = Behind(Stack(A, 1))
    <3> HIDE DEF above
    <3>1. QED
      BY <1>1, <1>4, DottedRead
  <2>5. under = <<>> => second = <<>> /\ B = {}
    <3>1. ASSUME under = <<>> PROVE second = <<>>
      <4> HIDE DEF under
      <4>0. Len(under) = 0
        BY <3>1
      <4>1. 1 .. 2 * Len(under) = {}
        BY <4>0
      <4>2. second = [i \in {} |-> {}]
        BY <4>1 DEF Slashed
      <4>3. QED
        BY <4>2
    <3>2. under = <<>> => B = {}
      BY DEF ToSet
    <3>3. QED
      BY <3>1, <3>2
  <2>6. ASSUME under # <<>>, NEW s, NEW C, C \subseteq DOMAIN u, B \subseteq DOMAIN u \ C,
               s \in {Starts(Stack(C, 1)), Behind(Stack(C, 1))}
        PROVE  IsList(second) /\ ParseFrom(s, second) = Behind(Stack(C \cup B, -1))
    <3> HIDE DEF under
    <3>1. CanGoOn(s, below, u, C, under, one, outer)
      BY <1>1, <2>6 DEF CanGoOn
    <3> HIDE DEF one
    <3>2. QED
      BY <3>1, SlashedRead
  <2> HIDE DEF above, under, Stack, start
  <2>7. CASE above = <<>>
    <3>1. IsList(second) /\ ParseFrom(start, second) = Behind(Stack({} \cup B, -1))
      BY <1>1, <1>4, <2>2, <2>3, <2>6, <2>7
    <3>2. {} \cup B = DOMAIN u
      BY <1>1, <2>3, <2>7
    <3>3. first \o second = second
      <4>1. second \in Seq(ToSet(second))
        BY <3>1 DEF IsList
      <4> HIDE DEF second
      <4>2. QED
        BY <2>3, <2>7, <4>1, ConcatEmptySeq
    <3>4. QED
      BY <1>5, <2>1, <3>1, <3>2, <3>3 DEF start
  <2>8. CASE above # <<>> /\ under = <<>>
    <3>1. IsList(first) /\ ParseFrom(start, first) = Behind(Stack(A, 1))
      BY <2>4, <2>8
    <3>2. A = DOMAIN u
      BY <1>1, <2>5, <2>8
    <3>3. first \o second = first
      <4>1. first \in Seq(ToSet(first))
        BY <3>1 DEF IsList
      <4> HIDE DEF first
      <4>2. QED
        BY <2>5, <2>8, <4>1, ConcatEmptySeq
    <3>4. QED
      BY <1>5, <2>1, <3>1, <3>2, <3>3 DEF start
  <2>9. CASE above # <<>> /\ under # <<>>
    <3>1. IsList(first) /\ ParseFrom(start, first) = Behind(Stack(A, 1))
      BY <2>4, <2>9
    <3> DEFINE s == ParseFrom(start, first)
    <3>2. IsList(second) /\ ParseFrom(s, second) = Behind(Stack(A \cup B, -1))
      <4>1. s \in {Starts(Stack(A, 1)), Behind(Stack(A, 1))}
        BY <3>1
      <4> HIDE DEF s, A, B, second
      <4>2. QED
        BY <1>1, <2>6, <2>9, <4>1
    <3> HIDE DEF first, second
    <3>3. IsList(first \o second) /\ ParseFrom(start, first \o second) = ParseFrom(s, second)
      BY <3>1, <3>2, ConcatList, ParseOn
    <3>4. QED
      BY <1>1, <1>5, <2>1, <3>2, <3>3 DEF start
  <2>10. QED
    BY <2>7, <2>8, <2>9
<1>8. QED
  BY <1>6, <1>7

-----------------------------------------------------------------------------
(* What is read from a text alone and from a quotient.                     *)

\* A parser that ends with one term and expects nothing more has read its factors.
LEMMA ParseAll ==
    ASSUME NEW text, NEW u, NEW next, NEW outer,
           ParseFrom(Starts(Append(<<>>, Term(1))), text) = Behind(Append(<<>>, Open(u, next, outer)))
    PROVE  ParseUnit(text) = u
<1> DEFINE end == Behind(Append(<<>>, Open(u, next, outer)))
<1>1. <<Term(1)>> = Append(<<>>, Term(1)) /\ <<Open(u, next, outer)>> = Append(<<>>, Open(u, next, outer))
  OBVIOUS
<1>2. end.ok = TRUE /\ end.expect = FALSE /\ end.stack = <<Open(u, next, outer)>>
  BY <1>1 DEF Behind, Parsing
<1>3. ParseFrom(Parsing(<<Term(1)>>, TRUE, TRUE), text) = end
  BY <1>1 DEF Starts
<1> HIDE DEF end
<1>4. Len(end.stack) = 1 /\ end.stack[1].acc = u
  BY <1>2 DEF Open
<1>5. QED
  BY <1>2, <1>3, <1>4 DEF ParseUnit

\* And one that has met a fault has read nothing.
LEMMA ParseFault ==
    ASSUME NEW text, ParseFrom(Starts(Append(<<>>, Term(1))), text).ok = FALSE
    PROVE  ParseUnit(text) = UnitRefused
<1>1. <<Term(1)>> = Append(<<>>, Term(1))
  OBVIOUS
<1>2. ParseFrom(Parsing(<<Term(1)>>, TRUE, TRUE), text).ok = FALSE
  BY <1>1 DEF Starts
<1>3. QED
  BY <1>2 DEF ParseUnit

LEMMA EmptyList == IsList(<<>>)
<1>1. <<>> = [i \in 1 .. 0 |-> <<>>[i]] /\ 0 \in Nat
  OBVIOUS
<1>2. QED
  BY <1>1, FunctionList

\* The canonical text of every unit is read as that unit.
LEMMA UnitParses ==
    ASSUME NEW u, IsUnit(u)
    PROVE  ParseUnit(UnitText(u)) = u
<1> DEFINE none == <<>>
           one == 1
<1>1. IsList(none)
  BY EmptyList
<1> HIDE DEF none, one
<1>2. PICK next : ParseFrom(Starts(Append(none, Term(one))), UnitText(u)) = Behind(Append(none, Open(u, next, one)))
  BY <1>1, TextRead
<1>3. QED
  BY <1>2, ParseAll DEF none, one

\* A quotient with a group is read as the quotient of the units.
LEMMA QuotientParses ==
    ASSUME NEW u, IsUnit(u), NEW v, IsUnit(v)
    PROVE  ParseUnit(QuotientText(u, v)) = DivUnit(u, v)
<1> DEFINE none == <<>>
           one == 1
           minus == -1
           start == Starts(Append(none, Term(one)))
           quotient == DivUnit(u, v)
           tu == UnitText(u)
           tv == UnitText(v)
           opening == <<Tok("/"), Tok("(")>>
           closing == <<Tok(")")>>
           under == Append(none, Open(u, minus, one))
<1>1. IsList(none)
  BY EmptyList
<1>2. quotient = CombineFactors(u, minus, v)
  BY DEF DivUnit
<1>3. ASSUME NEW next
      PROVE  ParseStep(Behind(Append(none, Open(u, next, one))), Tok("/")) = Wants(under)
  <2> DEFINE s == Behind(Append(none, Open(u, next, one)))
  <2>1. s \in {Starts(Append(none, Open(u, next, one))), Behind(Append(none, Open(u, next, one)))}
    OBVIOUS
  <2> HIDE DEF none, one, s
  <2>2. ParseStep(s, Tok("/")) = Wants(Append(none, Open(u, -1, one)))
    BY <1>1, <2>1, StepSlash
  <2>3. QED
    BY <2>2 DEF s
<1> HIDE DEF none, one, minus
<1>4. IsList(under)
  BY <1>1, AppendList
<1>5. IsList(tu) /\ \E next : ParseFrom(start, tu) = Behind(Append(none, Open(u, next, one)))
  BY <1>1, TextRead
<1>6. ParseStep(Wants(under), Tok("(")) = Starts(Append(under, Term(minus)))
  BY <1>1, StepOpen
<1>7. ASSUME NEW s PROVE IsList(opening) /\ ParseFrom(s, opening) = ParseStep(ParseStep(s, Tok("/")), Tok("("))
  BY ParseTwo
<1>8. ASSUME NEW s PROVE IsList(closing) /\ ParseFrom(s, closing) = ParseStep(s, Tok(")"))
  BY ParseOne
<1> DEFINE inside == Starts(Append(under, Term(minus)))
<1>9. IsList(tv) /\ \E last : ParseFrom(inside, tv) = Behind(Append(under, Open(v, last, minus)))
  <2> HIDE DEF under
  <2>1. QED
    BY <1>4, TextRead
<1>10. PICK last : ParseFrom(inside, tv) = Behind(Append(under, Open(v, last, minus)))
  BY <1>9
<1> DEFINE end == ParseStep(ParseFrom(inside, tv), Tok(")"))
<1>11. IF quotient = UnitRefused THEN end.ok = FALSE ELSE end = Behind(Append(none, Open(quotient, minus, one)))
  <2> DEFINE s == ParseFrom(inside, tv)
  <2>1. s = Behind(Append(Append(none, Open(u, minus, one)), Open(v, last, minus)))
    BY <1>10
  <2> HIDE DEF s, quotient
  <2>2. AtClose(s, none, u, minus, one, v, last, minus, quotient)
    BY <1>1, <1>2, <2>1 DEF AtClose
  <2>3. IF quotient = UnitRefused THEN ParseStep(s, Tok(")")).ok = FALSE
        ELSE ParseStep(s, Tok(")")) = Behind(Append(none, Open(quotient, minus, one)))
    BY <2>2, StepClose
  <2>4. QED
    BY <2>3 DEF s
<1> HIDE DEF opening, closing, tu, tv, inside, end, start, under
<1> DEFINE a == tu \o opening
           b == a \o tv
           c == b \o closing
<1> DEFINE read == ParseFrom(start, tu)
<1>20. IsList(opening) /\ ParseFrom(read, opening) = ParseStep(ParseStep(read, Tok("/")), Tok("("))
  BY <1>7
<1>12. IsList(a) /\ ParseFrom(start, a) = ParseFrom(ParseFrom(start, tu), opening)
  BY <1>5, <1>20, ConcatList, ParseOn
<1> HIDE DEF a
<1>13. IsList(b) /\ ParseFrom(start, b) = ParseFrom(ParseFrom(start, a), tv)
  BY <1>9, <1>12, ConcatList, ParseOn
<1> HIDE DEF b
<1>14. ParseFrom(start, c) = ParseFrom(ParseFrom(start, b), closing)
  BY <1>8, <1>13, ParseOn
<1> HIDE DEF c
<1>15. ParseFrom(start, a) = inside
  BY <1>3, <1>5, <1>6, <1>12, <1>20 DEF inside
<1>16. ParseFrom(start, c) = end
  BY <1>8, <1>13, <1>14, <1>15 DEF end
<1>17. QuotientText(u, v) = c
  BY DEF QuotientText, c, b, a, tu, tv, opening, closing
<1>18. ParseUnit(c) = quotient
  <2>1. CASE quotient = UnitRefused
    <3>1. ParseFrom(Starts(Append(<<>>, Term(1))), c).ok = FALSE
      BY <1>11, <1>16, <2>1 DEF start, none, one
    <3>2. QED
      BY <2>1, <3>1, ParseFault
  <2>2. CASE quotient # UnitRefused
    <3>1. ParseFrom(Starts(Append(<<>>, Term(1))), c) = Behind(Append(<<>>, Open(quotient, minus, one)))
      BY <1>11, <1>16, <2>2 DEF start, none, one
    <3> HIDE DEF quotient
    <3>2. QED
      BY <3>1, ParseAll
  <2>3. QED
    BY <2>1, <2>2
<1>19. QED
  BY <1>17, <1>18

-----------------------------------------------------------------------------
(* The theorems.                                                           *)

\* Every two units read back: the text of each as itself, that of their product as the
\* product, where it is in the range, and that of their quotient as the quotient, or as
\* the refusal that the quotient is (Unit.String, ParseUnit and combineFactors, unit.go).
THEOREM UnitsReadBack ==
    ASSUME NEW u, IsUnit(u), NEW v, IsUnit(v)
    PROVE  ReadBack(u, v)
<1> DEFINE w == MulUnit(u, v)
<1>1. ParseUnit(UnitText(u)) = u /\ ParseUnit(QuotientText(u, v)) = DivUnit(u, v)
  BY UnitParses, QuotientParses
<1>2. ASSUME w # UnitRefused PROVE ParseUnit(UnitText(w)) = w /\ DivUnit(w, v) = u
  <2>1. IsUnit(w) /\ DivUnit(w, v) = u
    BY <1>2, DivideUndoes
  <2> HIDE DEF w
  <2>2. QED
    BY <2>1, UnitParses
<1>3. QED
  BY <1>1, <1>2 DEF ReadBack

\* The units of the columns of every table that a history reaches are units, and they
\* read back with all others, when the pipelines among the edits keep tables in order.
THEOREM UnitsAlwaysRoundTrip ==
    ASSUME PipelinesKeepOrder
    PROVE  Spec => []UnitsRoundTrip
<1>1. TablesStayInOrder => UnitsRoundTrip
  <2> SUFFICES ASSUME TablesStayInOrder, NEW u \in SomeUnits \cup StatedUnits, NEW v \in SomeUnits \cup StatedUnits
               PROVE  ReadBack(u, v)
    BY DEF UnitsRoundTrip
  <2>1. ASSUME NEW i \in DOMAIN table.schema, NEW x \in ToSet(table.schema[i].unit) PROVE IsUnit(x)
    <3> DEFINE unit == table.schema[i].unit
    <3>1. MayBeUnit(unit)
      BY DEF TablesStayInOrder, InOrder, IsEntry
    <3> HIDE DEF unit
    <3>2. CASE unit = <<>>
      <4>1. ToSet(unit) = {}
        BY <3>2 DEF ToSet
      <4>2. QED
        BY <4>1 DEF unit
    <3>3. CASE unit = <<unit[1]>> /\ IsUnit(unit[1])
      <4>1. \A k \in DOMAIN unit : k = 1
        BY <3>3
      <4>2. ToSet(unit) \subseteq {unit[1]}
        BY <4>1 DEF ToSet
      <4>3. QED
        BY <3>3, <4>2 DEF unit
    <3>4. QED
      BY <3>1, <3>2, <3>3 DEF MayBeUnit
  <2>2. \A x \in StatedUnits : IsUnit(x)
    BY <2>1 DEF StatedUnits
  <2>3. IsUnit(u) /\ IsUnit(v)
    BY <2>2, UnitsAssumption
  <2>4. QED
    BY <2>3, UnitsReadBack
<1>2. QED
  BY <1>1, TablesAlwaysInOrder, PTL
=============================================================================
