------------------------------- MODULE Units -------------------------------
(***************************************************************************)
(* The algebra of units of measure, src/internal/core/dataframe/unit.go.   *)
(*                                                                         *)
(* A unit is its factors: a function from atoms, a symbol with a prefix,   *)
(* to exponents that are not zero (the code keeps the same set as a sorted *)
(* list).  The table of atoms is data and a constant here.  A text is the  *)
(* sequence of its tokens, with an atom and its exponent as one token; the *)
(* characters of a token are left out, and so are the tokens whose only    *)
(* outcome is a refusal of the table (an unknown or arbitrary symbol, a    *)
(* number other than 1, an annotation).                                    *)
(***************************************************************************)
EXTENDS Integers, Sequences, SequencesExt, FiniteSets

CONSTANTS UnitAtoms,    \* symbol -> [dims, num, den]: exponents of the base dimensions, scale
          Currencies,   \* symbols that are a dimension of their own and have no scale
          PrefixPower,  \* prefix -> power of ten, "" -> 0
          MaxUnitExp,   \* the largest exponent
          SomeUnits     \* units of measure

Dimensionless == [a \in {} |-> 0]
UnitRefused   == [a \in {[symbol |-> "", prefix |-> ""]} |-> 0]   \* no unit: an exponent of zero
Exponent(factors, a) == IF a \in DOMAIN factors THEN factors[a] ELSE 0
NonZero(f) == [a \in {b \in DOMAIN f : f[b] # 0} |-> f[a]]
InRange(e) == e <= MaxUnitExp /\ e >= -MaxUnitExp
IsUnit(u) == /\ u = [x \in DOMAIN u |-> u[x]] /\ IsFiniteSet(DOMAIN u)
             /\ \A x \in DOMAIN u : u[x] \in Int \ {0} /\ InRange(u[x])

ASSUME UnitsAssumption == MaxUnitExp \in Nat /\ \A u \in SomeUnits : IsUnit(u)

\* a times b to the power sign, refused when an exponent of b leaves the range
CombineFactors(a, sign, b) ==
    LET sum == [x \in DOMAIN a \cup DOMAIN b |-> Exponent(a, x) + sign * Exponent(b, x)]
    IN  IF \E x \in DOMAIN b : ~InRange(sum[x]) THEN UnitRefused ELSE NonZero(sum)

MulUnit(a, b) == CombineFactors(a, 1, b)
DivUnit(a, b) == CombineFactors(a, -1, b)
PowUnit(u, n) ==
    CASE n = 0 -> Dimensionless
      [] \E x \in DOMAIN u : ~InRange(u[x] * n) -> UnitRefused
      [] OTHER -> [x \in DOMAIN u |-> u[x] * n]

\* the exponent of every base dimension and of every currency, zeros dropped
SumOver(S, F(_)) == FoldSet(LAMBDA x, s : s + F(x), 0, S)
BaseDims == UNION {DOMAIN UnitAtoms[s].dims : s \in DOMAIN UnitAtoms}
Dimension(u) ==
    NonZero([d \in BaseDims |-> SumOver({x \in DOMAIN u : ~(x.symbol \in Currencies)},
                                         LAMBDA x : u[x] * UnitAtoms[x.symbol].dims[d])])
    @@ NonZero([d \in Currencies |-> SumOver({x \in DOMAIN u : x.symbol = d}, LAMBDA x : u[x])])

CompatibleUnits(a, b) == Dimension(a) = Dimension(b)

\* the size of a unit in base units: a ratio in lowest terms
PowerOf(x, k) == LET power[i \in 0 .. k] == IF i = 0 THEN 1 ELSE x * power[i - 1] IN power[k]
GCD(m, n) == LET gcd[a \in Nat, b \in Nat] == IF b = 0 THEN a ELSE gcd[b, a % b] IN gcd[m, n]
Ratio(n, d) == [num |-> n \div GCD(n, d), den |-> d \div GCD(n, d)]
TimesRatio(p, q) == Ratio(p.num * q.num, p.den * q.den)
RatioPower(num, den, k) == IF k >= 0 THEN Ratio(PowerOf(num, k), PowerOf(den, k))
                                     ELSE Ratio(PowerOf(den, -k), PowerOf(num, -k))
Scale(u) ==
    LET ten == SumOver(DOMAIN u, LAMBDA x : PrefixPower[x.prefix] * u[x])
        scaled == {x \in DOMAIN u : ~(x.symbol \in Currencies)}
    IN  TimesRatio(RatioPower(10, 1, ten),
                   FoldSet(LAMBDA x, r : TimesRatio(r, RatioPower(UnitAtoms[x.symbol].num,
                                                                 UnitAtoms[x.symbol].den, u[x])),
                           Ratio(1, 1), scaled))

NoFactor == [num |-> 0, den |-> 1]
ConversionFactor(source, target) ==
    LET q == DivUnit(source, target)
    IN  IF ~CompatibleUnits(source, target) \/ q = UnitRefused THEN NoFactor ELSE Scale(q)

-----------------------------------------------------------------------------
(* The parser: a stack of open terms, each with the factors so far, the    *)
(* sign of the next component and the sign its group had outside.          *)

AtomTok(x, e) == [t |-> "atom", atom |-> x, exp |-> e]
Tok(t) == [t |-> t]
Term(outer) == [acc |-> Dimensionless, next |-> 1, outer |-> outer]

Component(x, e) == IF e = 0 THEN Dimensionless ELSE [a \in {x} |-> e]
WithTop(stack, term) == Append(Front(stack), term)

Parsing(stack, expect, start) == [ok |-> TRUE, stack |-> stack, expect |-> expect, start |-> start]
SignNext(stack, sign) == Parsing(WithTop(stack, [Last(stack) EXCEPT !.next = sign]), TRUE, FALSE)
Take(s, stack, acc) == IF acc = UnitRefused THEN [s EXCEPT !.ok = FALSE]
                       ELSE Parsing(WithTop(stack, [Last(stack) EXCEPT !.acc = acc]), FALSE, FALSE)

\* one token; expect: a component must come; start: the term has just begun
ParseStep(s, tok) ==
    LET top == Last(s.stack)
        outside == Front(s.stack)
    IN  IF s.ok /\ s.expect /\ tok.t = "/" /\ s.start THEN SignNext(s.stack, -1)
        ELSE IF s.ok /\ s.expect /\ tok.t = "("
             THEN Parsing(Append(s.stack, Term(top.next)), TRUE, TRUE)
        ELSE IF s.ok /\ s.expect /\ tok.t = "1" THEN Parsing(s.stack, FALSE, FALSE)
        ELSE IF s.ok /\ s.expect /\ tok.t = "atom" /\ InRange(tok.exp)
             THEN Take(s, s.stack, CombineFactors(top.acc, top.next, Component(tok.atom, tok.exp)))
        ELSE IF s.ok /\ ~s.expect /\ tok.t = "." THEN SignNext(s.stack, 1)
        ELSE IF s.ok /\ ~s.expect /\ tok.t = "/" THEN SignNext(s.stack, -1)
        ELSE IF s.ok /\ ~s.expect /\ tok.t = ")" /\ Len(s.stack) > 1
             THEN Take(s, outside, CombineFactors(Last(outside).acc, top.outer, top.acc))
        ELSE [s EXCEPT !.ok = FALSE]

ParseFrom(s, text) ==
    LET after[i \in 0 .. Len(text)] == IF i = 0 THEN s ELSE ParseStep(after[i - 1], text[i])
    IN  after[Len(text)]

ParseUnit(text) ==
    LET end == ParseFrom(Parsing(<<Term(1)>>, TRUE, TRUE), text)
    IN  IF end.ok /\ ~end.expect /\ Len(end.stack) = 1 THEN end.stack[1].acc ELSE UnitRefused

Dotted(u, atoms) == [i \in 1 .. (IF atoms = <<>> THEN 0 ELSE 2 * Len(atoms) - 1) |->
    IF i % 2 = 1 THEN AtomTok(atoms[(i + 1) \div 2], u[atoms[(i + 1) \div 2]]) ELSE Tok(".")]
Slashed(u, atoms) == [i \in 1 .. 2 * Len(atoms) |->
    IF i % 2 = 1 THEN Tok("/") ELSE AtomTok(atoms[i \div 2], -u[atoms[i \div 2]])]

UnitTextOneSlash(u) ==
    Dotted(u, SetToSeq({x \in DOMAIN u : u[x] > 0})) \o <<Tok("/")>>
        \o Dotted([x \in DOMAIN u |-> -u[x]], SetToSeq({x \in DOMAIN u : u[x] < 0}))

\* Unit.String: the positive powers with dots, then a slash before every other
UnitText(u) ==
    IF u = Dimensionless THEN <<Tok("1")>>
    ELSE Dotted(u, SetToSeq({x \in DOMAIN u : u[x] > 0})) \o Slashed(u, SetToSeq({x \in DOMAIN u : u[x] < 0}))

-----------------------------------------------------------------------------
(* What the algebra and the parser promise.                                *)

QuotientText(u, v) == UnitText(u) \o <<Tok("/"), Tok("(")>> \o UnitText(v) \o <<Tok(")")>>

\* The canonical text of a unit parses back to it, that of a product too; dividing
\* undoes multiplying; and a quotient written with a group is the quotient, or is
\* refused where that leaves the range (ParseUnit, Unit.String, combineFactors).
ReadBack(u, v) ==
    LET w == MulUnit(u, v)
    IN  /\ ParseUnit(UnitText(u)) = u
        /\ w # UnitRefused => ParseUnit(UnitText(w)) = w /\ DivUnit(w, v) = u
        /\ ParseUnit(QuotientText(u, v)) = DivUnit(u, v)
=============================================================================
