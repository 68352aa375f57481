------------------------------ MODULE Algebra ------------------------------
(***************************************************************************)
(* MTK/block2: five programs that parse an arithmetic expression and work  *)
(* on its tree.  lab6.flow turns it into reverse Polish notation and       *)
(* evaluates that, lab7.flow calculates with fractions, lab8.flow          *)
(* simplifies and differentiates, lab9.flow makes it a quotient of         *)
(* polynomials, lab10.flow rewrites it by a table of rules.                *)
(*                                                                         *)
(* A tree is a tuple: the name of its node, then the node's fields; the    *)
(* labs spell some names in other ways (Mult and Multiply).  A Maybe is a  *)
(* set with at most one element.  Doubles are exact fractions here, and    *)
(* ints are not cut to 32 bits.  Keys that are equal as monomials are one  *)
(* key, although the code keeps a tree of another shape apart until        *)
(* filterPolynom brings both into one shape.                               *)
(***************************************************************************)
EXTENDS Integers, SequencesExt

CONSTANTS
    Labs,     \* the programs that are run
    Sums,     \* what lab6 is given: sums and products of numbers
    Exprs,    \* what the others are given
    Names,    \* the variables of the expressions
    Envs      \* values for them

VARIABLES
    lab,     \* the program that runs
    exp,     \* the expression, as parsed
    pc,      \* how far main is
    out,     \* the trees it has made from exp; in lab6 the tokens to come
    acc,     \* lab6: the array of two numbers it folds the tokens into
    env,     \* lab7 and lab8: the variables main sets
    answer   \* what it calculated, a Maybe

vars == <<lab, exp, pc, out, acc, env, answer>>

Number(n) == <<"Number", n>>
Variable(v) == <<"Variable", v>>
Neg(e) == <<"Negative", e>>
Add(l, r) == <<"Add", l, r>>
Sub(l, r) == <<"Subtract", l, r>>
Mult(l, r) == <<"Multiply", l, r>>
Div(l, r) == <<"Divide", l, r>>

Operators == {"Add", "Subtract", "Multiply", "Divide"}

RECURSIVE Parts(_)
\* e and all expressions inside it.
Parts(e) ==
    {e} \union (IF e[1] = "Negative" THEN Parts(e[2])
                ELSE IF e[1] \in Operators THEN Parts(e[2]) \union Parts(e[3])
                ELSE {})

Abs(n) == IF n < 0 THEN -n ELSE n

RECURSIVE Gcd(_, _)
Gcd(m, n) == IF n = 0 THEN Abs(m) ELSE Gcd(n, Abs(m) % Abs(n))

Quotient(m, n) == IF (m < 0) = (n < 0) THEN Abs(m) \div Abs(n) ELSE -(Abs(m) \div Abs(n))

-----------------------------------------------------------------------------
(* lab8.flow: calculate is the meaning of an expression, whichever lab it  *)
(* is in.                                                                  *)

\* The number n/d, of which there is one representation.
Exact(n, d) ==
    LET g == IF d < 0 THEN -Gcd(n, d) ELSE Gcd(n, d)
    IN  <<Quotient(n, g), Quotient(d, g)>>

Operate(op, l, r) ==
    CASE op = "Add" -> {Exact(l[1] * r[2] + r[1] * l[2], l[2] * r[2])}
      [] op = "Subtract" -> {Exact(l[1] * r[2] - r[1] * l[2], l[2] * r[2])}
      [] op = "Multiply" -> {Exact(l[1] * r[1], l[2] * r[2])}
      [] op = "Divide" -> IF r[1] = 0 THEN {} ELSE {Exact(l[1] * r[2], l[2] * r[1])}

RECURSIVE Calculate(_, _)
Calculate(e, values) ==
    CASE e[1] = "Number" -> {<<e[2], 1>>}
      [] e[1] = "Variable" ->
           IF e[2] \in DOMAIN values THEN {<<values[e[2]], 1>>} ELSE {}
      [] e[1] = "Negative" -> {<<-v[1], v[2]>> : v \in Calculate(e[2], values)}
      [] OTHER -> UNION {Operate(e[1], l, r) : l \in Calculate(e[2], values),
                                               r \in Calculate(e[3], values)}

\* The five branches of simplify, on operands that are simplified.
SimplifyAdd(l, r) ==
    CASE l = Number(0) -> r
      [] l # Number(0) /\ r = Number(0) -> l
      [] OTHER -> IF r[1] = "Negative" THEN Sub(l, r[2]) ELSE Add(l, r)

SimplifySubtract(l, r) ==
    CASE r = Number(0) -> l
      [] l = Number(0) /\ r # Number(0) -> Neg(r)
      [] OTHER -> IF r[1] = "Negative" THEN Add(l, r[2]) ELSE Sub(l, r)

SimplifyMultiply(l, r) ==
    CASE l = Number(1) -> r
      [] l # Number(1) /\ r = Number(1) -> l
      [] OTHER -> IF Number(0) \in {l, r} THEN Number(0) ELSE Mult(l, r)

SimplifyDivide(l, r) ==
    CASE r = Number(0) -> Div(l, r)
      [] r # Number(0) /\ l = Number(0) -> Number(0)
      [] r = Number(1) /\ l # Number(0) -> l
      [] OTHER -> IF l = r THEN Number(1) ELSE Div(l, r)

SimplifyNegative(e) ==
    CASE e[1] = "Negative" -> e[2]
      [] e = Number(0) -> Number(0)
      [] OTHER -> Neg(e)

RECURSIVE Simplify(_)
Simplify(e) ==
    CASE e[1] = "Add" -> SimplifyAdd(Simplify(e[2]), Simplify(e[3]))
      [] e[1] = "Subtract" -> SimplifySubtract(Simplify(e[2]), Simplify(e[3]))
      [] e[1] = "Multiply" -> SimplifyMultiply(Simplify(e[2]), Simplify(e[3]))
      [] e[1] = "Divide" -> SimplifyDivide(Simplify(e[2]), Simplify(e[3]))
      [] e[1] = "Negative" -> SimplifyNegative(Simplify(e[2]))
      [] OTHER -> e

RECURSIVE Derivative(_, _)
Derivative(e, var) ==
    CASE e[1] = "Number" -> Number(0)
      [] e[1] = "Variable" -> Number(IF e[2] = var THEN 1 ELSE 0)
      [] e[1] = "Negative" -> Neg(Derivative(e[2], var))
      [] e[1] = "Add" -> Add(Derivative(e[2], var), Derivative(e[3], var))
      [] e[1] = "Subtract" -> Sub(Derivative(e[2], var), Derivative(e[3], var))
      [] e[1] = "Multiply" -> Add(Mult(Derivative(e[2], var), e[3]),
                                  Mult(Derivative(e[3], var), e[2]))
      [] e[1] = "Divide" -> Div(Sub(Mult(Derivative(e[2], var), e[3]),
                                    Mult(Derivative(e[3], var), e[2])),
                                Mult(e[3], e[3]))

-----------------------------------------------------------------------------
(* lab7.flow: fractions are not reduced before the end, and a denominator  *)
(* may be 0.                                                               *)

RationalOperate(op, l, r) ==
    CASE op = "Multiply" -> <<l[1] * r[1], l[2] * r[2]>>
      [] op = "Divide" -> <<l[1] * r[2], l[2] * r[1]>>
      [] op = "Add" -> IF l[2] = r[2] THEN <<l[1] + r[1], l[2]>>
                       ELSE <<l[1] * r[2] + r[1] * l[2], l[2] * r[2]>>
      [] op = "Subtract" -> IF l[2] = r[2] THEN <<l[1] - r[1], l[2]>>
                            ELSE <<l[1] * r[2] - r[1] * l[2], l[2] * r[2]>>

RECURSIVE CalculateRational(_, _)
CalculateRational(e, values) ==
    CASE e[1] = "Number" -> {<<e[2], 1>>}
      [] e[1] = "Variable" ->
           IF e[2] \in DOMAIN values THEN {<<values[e[2]], 1>>} ELSE {}
      [] e[1] = "Negative" -> {<<-q[1], q[2]>> : q \in CalculateRational(e[2], values)}
      [] OTHER -> {RationalOperate(e[1], l, r) : l \in CalculateRational(e[2], values),
                                                 r \in CalculateRational(e[3], values)}

\* simplifyRational: 0/0 has no common divider to divide by.
SimplifyRational(q) ==
    LET divider == Gcd(q[1], q[2])
    IN  IF divider = 0 THEN {} ELSE {<<Quotient(q[1], divider), Quotient(q[2], divider)>>}

-----------------------------------------------------------------------------
(* lab9.flow: a PolyDegree gives each variable its degree, 0 where it has  *)
(* no entry; a Polynom gives some monomials their coefficients.            *)

Coef(p, m) == IF m \in DOMAIN p THEN p[m] ELSE 0

One == [v \in Names |-> 0]
Const(n) == [m \in {One} |-> n]
Linear(var) == [m \in {[v \in Names |-> IF v = var THEN 1 ELSE 0]} |-> 1]

MultPolyDegrees(l, r) == [v \in Names |-> l[v] + r[v]]

SumPolynoms(l, r) == [m \in DOMAIN l \union DOMAIN r |-> Coef(l, m) + Coef(r, m)]

\* Mutant: of several products with one monomial the last one counts.
MultPolynoms_Last(l, r) ==
    LET products == {<<lp, rp>> : lp \in DOMAIN l, rp \in DOMAIN r}
        Power(p) == MultPolyDegrees(p[1], p[2])
    IN  [m \in {Power(p) : p \in products} |->
           LET p == CHOOSE q \in products : Power(q) = m IN l[p[1]] * r[p[2]]]

MultPolynoms(l, r) ==
    LET products == {<<lp, rp>> : lp \in DOMAIN l, rp \in DOMAIN r}
        Power(p) == MultPolyDegrees(p[1], p[2])
    IN  [m \in {Power(p) : p \in products} |->
           MapThenSumSet(LAMBDA p : l[p[1]] * r[p[2]],
                         {p \in products : Power(p) = m})]

MinusPolynom(p) == [m \in DOMAIN p |-> -p[m]]

DivPolynomByInt(p, c) == [m \in DOMAIN p |-> Quotient(p[m], c)]

FilterPolynom(p) == [m \in {n \in DOMAIN p : p[n] # 0} |-> p[m]]

CoefGCD(p) == FoldSet(Gcd, 0, {p[m] : m \in DOMAIN p})

Fraction(num, den) == [num |-> num, den |-> den]

Combine(op, l, r) ==
    CASE op = "Add" ->
           Fraction(SumPolynoms(MultPolynoms(l.num, r.den), MultPolynoms(r.num, l.den)),
                    MultPolynoms(l.den, r.den))
      [] op = "Subtract" ->
           Fraction(SumPolynoms(MultPolynoms(l.num, r.den),
                                MinusPolynom(MultPolynoms(r.num, l.den))),
                    MultPolynoms(l.den, r.den))
      [] op = "Multiply" -> Fraction(MultPolynoms(l.num, r.num), MultPolynoms(l.den, r.den))
      [] op = "Divide" -> Fraction(MultPolynoms(l.num, r.den), MultPolynoms(l.den, r.num))

\* The second half of expr2rf.  A polynomial with no terms has no first
\* coefficient for coefGCD to begin with, and the program stops there.
Cancelled(rf) ==
    LET num == FilterPolynom(rf.num)
        den == FilterPolynom(rf.den)
        divider == Gcd(CoefGCD(num), CoefGCD(den))
        n == DivPolynomByInt(num, divider)
        d == DivPolynomByInt(den, divider)
        factor == CoefGCD(n)
    IN  IF DOMAIN num = {} \/ DOMAIN den = {} THEN {}
        ELSE IF DivPolynomByInt(n, factor) = d THEN {Fraction(Const(factor), Const(1))}
        ELSE {Fraction(n, d)}

RECURSIVE Expr2rf(_)
Expr2rf(e) ==
    UNION {Cancelled(rf) : rf \in
      CASE e[1] = "Number" -> {Fraction(Const(e[2]), Const(1))}
        [] e[1] = "Variable" -> {Fraction(Linear(e[2]), Const(1))}
        [] e[1] = "Negative" -> {Fraction(MinusPolynom(q.num), q.den) : q \in Expr2rf(e[2])}
        [] OTHER -> {Combine(e[1], l, r) : l \in Expr2rf(e[2]), r \in Expr2rf(e[3])}}

-----------------------------------------------------------------------------
(* lab10.flow: the names in a rule match themselves, and nothing else.     *)

x == Variable("x")
y == Variable("y")
z == Variable("z")
a == Variable("a")
b == Variable("b")
zero == Number(0)
one == Number(1)
two == Number(2)
Squares == Add(Mult(x, x), Mult(y, y))
TwoXY == Mult(two, Mult(x, y))
X2_Y2 == Sub(Mult(x, x), Mult(y, y))
Y2_X2 == Sub(Mult(y, y), Mult(x, x))

Rules == <<
    <<Add(Sub(x, z), Add(y, z)), Add(x, y)>>,
    <<Add(Add(x, z), Sub(y, z)), Add(x, y)>>,
    <<Add(x, x), Mult(two, x)>>,
    <<Neg(Neg(x)), x>>,
    <<Add(x, y), Add(y, x)>>,
    <<Mult(x, y), Mult(y, x)>>,
    <<Add(x, zero), x>>,
    <<Sub(x, zero), x>>,
    <<Sub(x, x), zero>>,
    <<Add(x, Neg(x)), zero>>,
    <<Add(Neg(x), x), zero>>,
    <<Mult(x, zero), zero>>,
    <<Mult(x, one), x>>,
    <<Add(zero, x), x>>,
    <<Mult(zero, x), zero>>,
    <<Mult(one, x), x>>,
    <<Mult(x, Neg(one)), Neg(x)>>,
    <<Mult(Neg(one), x), Neg(x)>>,
    <<Div(x, x), one>>,
    <<Div(zero, x), zero>>,
    <<Add(Mult(x, z), Mult(y, z)), Mult(Add(x, y), z)>>,
    <<Add(Mult(x, z), Mult(y, z)), Mult(Add(x, y), z)>>,
    <<Mult(Add(x, y), z), Add(Mult(x, z), Mult(y, z))>>,
    <<Add(Add(x, y), z), Add(x, Add(y, z))>>,
    <<Mult(Mult(x, y), z), Mult(x, Mult(y, z))>>,
    <<X2_Y2, Mult(Sub(x, y), Add(x, y))>>,
    <<Mult(Sub(x, y), Add(x, y)), X2_Y2>>,
    <<Mult(Sub(x, y), Add(y, x)), one>>,
    <<Mult(Sub(y, x), Add(x, y)), Y2_X2>>,
    <<Mult(Sub(y, x), Add(y, x)), Y2_X2>>,
    <<Mult(Add(x, y), Sub(x, y)), X2_Y2>>,
    <<Mult(Add(x, y), Sub(y, x)), Y2_X2>>,
    <<Mult(Add(y, x), Sub(x, y)), X2_Y2>>,
    <<Mult(Add(y, x), Sub(y, x)), Y2_X2>>,
    <<Mult(Sub(x, y), Sub(x, y)), Sub(Squares, TwoXY)>>,
    <<Sub(Squares, TwoXY), Mult(Sub(x, y), Sub(x, y))>>,
    <<Mult(Add(x, y), Add(x, y)), Add(Squares, TwoXY)>>,
    <<Add(Squares, TwoXY), Mult(Add(x, y), Add(x, y))>>,
    <<Add(Squares, TwoXY), Mult(Add(x, y), Add(x, y))>>,
    <<Div(Sub(a, b), Sub(a, b)), one>> >>

\* The first rule for e, once.
ByRule(e) ==
    LET i == SelectInSeq(Rules, LAMBDA rule : rule[1] = e)
    IN  IF i = 0 THEN e ELSE Rules[i][2]

RECURSIVE SimplifyByRules(_)

\* e with the rules applied to its operands.
Inside(e) ==
    CASE e[1] \in Operators -> <<e[1], SimplifyByRules(e[2]), SimplifyByRules(e[3])>>
      [] e[1] = "Negative" -> Neg(SimplifyByRules(e[2]))
      [] OTHER -> e

SimplifyByRules(e) == ByRule(Inside(e))

-----------------------------------------------------------------------------
(* lab6.flow *)

RECURSIVE BackToReality2RNP(_)
BackToReality2RNP(e) ==
    CASE e[1] = "Number" -> <<e>>
      [] e[1] = "Add" -> BackToReality2RNP(e[2]) \o BackToReality2RNP(e[3]) \o <<<<"+">>>>
      [] e[1] = "Multiply" -> BackToReality2RNP(e[2]) \o BackToReality2RNP(e[3]) \o <<<<"*">>>>

\* One step of main's foldi: num is an array of two, and no stack.
Folded(num, token) ==
    CASE token[1] = "*" -> <<num[1] * num[2], 0>>
      [] token[1] = "+" -> <<num[1] + num[2], 0>>
      [] OTHER -> <<num[1], token[2]>>

-----------------------------------------------------------------------------
(* The main of each program. *)

Init ==
    /\ lab \in Labs
    /\ exp \in IF lab = "lab6" THEN Sums ELSE Exprs
    /\ pc = "parsed"
    /\ out = <<>>
    /\ acc = <<0, 0>>
    /\ env \in IF lab = "lab7" THEN Envs ELSE {[v \in {"x", "y"} |-> 2]}
    /\ answer = {}

Runs(l, from, to) == lab = l /\ pc = from /\ pc' = to /\ UNCHANGED <<lab, exp, env>>

Latest == out[Len(out)]

\* lab6: the first number begins the array, then one token after the other.
Split ==
    /\ Runs("lab6", "parsed", "counting")
    /\ LET tokens == BackToReality2RNP(exp)
       IN  acc' = <<tokens[1][2], 0>> /\ out' = Tail(tokens)
    /\ UNCHANGED answer

Count ==
    /\ Runs("lab6", "counting", "counting")
    /\ out # <<>>
    /\ acc' = Folded(acc, Head(out))
    /\ out' = Tail(out)
    /\ UNCHANGED answer

Counted ==
    /\ Runs("lab6", "counting", "done")
    /\ out = <<>>
    /\ answer' = {<<acc[1], 1>>}
    /\ UNCHANGED <<out, acc>>

\* lab7: a denominator of 0 is reported, 0/0 stops the program.
CalculateFraction ==
    /\ Runs("lab7", "parsed", "calculated")
    /\ answer' = CalculateRational(exp, env)
    /\ UNCHANGED <<out, acc>>

PrintFraction ==
    /\ Runs("lab7", "calculated", "done")
    /\ answer' = UNION {SimplifyRational(q) : q \in answer}
    /\ UNCHANGED <<out, acc>>

\* lab8: simplify, derivative, simplify again, calculate.
SimplifyInput ==
    /\ Runs("lab8", "parsed", "simplified")
    /\ out' = <<Simplify(exp)>>
    /\ UNCHANGED <<acc, answer>>

Differentiate ==
    /\ Runs("lab8", "simplified", "derived")
    /\ out' = Append(out, Derivative(Latest, "x"))
    /\ UNCHANGED <<acc, answer>>

SimplifyDerivative ==
    /\ Runs("lab8", "derived", "again")
    /\ out' = Append(out, Simplify(Latest))
    /\ UNCHANGED <<acc, answer>>

CalculateDerivative ==
    /\ Runs("lab8", "again", "done")
    /\ answer' = Calculate(Latest, env)
    /\ UNCHANGED <<out, acc>>

MakeFraction ==
    /\ Runs("lab9", "parsed", "done")
    /\ answer' = Expr2rf(exp)
    /\ UNCHANGED <<out, acc>>

Rewrite ==
    /\ Runs("lab10", "parsed", "done")
    /\ out' = <<SimplifyByRules(exp)>>
    /\ UNCHANGED <<acc, answer>>

Next ==
    \/ Split \/ Count \/ Counted
    \/ CalculateFraction \/ PrintFraction
    \/ SimplifyInput \/ Differentiate \/ SimplifyDerivative \/ CalculateDerivative
    \/ MakeFraction
    \/ Rewrite

Spec == Init /\ [][Next]_vars

-----------------------------------------------------------------------------
(* Properties. *)

Polynomial(e) == \A part \in Parts(e) : part[1] # "Divide"

\* The number a polynomial expression comes to, k further along x.
At(e, values, k) == (CHOOSE v \in Calculate(e, [values EXCEPT !["x"] = @ + k]) : TRUE)[1]

\* Twelve times the derivative in x of a polynomial of degree 4 at most,
\* from its values alone.
Slope12(e, values) ==
    8 * (At(e, values, 1) - At(e, values, -1)) - (At(e, values, 2) - At(e, values, -2))

\* Whether v is the derivative of e: for a quotient e = l/r, l' = e' r + e r'.
HasSlope(e, values, v) ==
    IF Polynomial(e) THEN 12 * v[1] = v[2] * Slope12(e, values)
    ELSE LET l == At(e[2], values, 0)
             r == At(e[3], values, 0)
         IN  v[2] * Slope12(e[2], values) * r
               = 12 * v[1] * r * r + v[2] * l * Slope12(e[3], values)

\* What HasSlope can judge.
Judged(e) == Polynomial(e) \/ (e[1] = "Divide" /\ Polynomial(e[2]) /\ Polynomial(e[3]))

SameWhereDefined(e, f) ==
    \A values \in Envs : Calculate(e, values) \subseteq Calculate(f, values)

\* lab6: an array of two in the place of a stack is enough as long as every
\* right operand is a number.
LeansLeft(e) ==
    \A part \in Parts(e) : part[1] \in Operators => part[3][1] = "Number"
PolishRight == pc = "done" /\ LeansLeft(exp) => answer = Calculate(exp, env)

\* lab7: what has a value is calculated and reduced to it, and a denominator
\* of 0 stands for a division by 0 somewhere.
FractionsRight ==
    /\ pc = "calculated" =>
         \A q \in answer : q[2] = 0 => Calculate(exp, env) = {}
    /\ pc = "done" =>
         \A v \in Calculate(exp, env) :
           \E q \in answer : q[2] \in {v[2], -v[2]} /\ q[1] * v[2] = v[1] * q[2]

\* lab8: simplifying changes no value that there is, and the derivative is
\* the slope of the expression.
DerivativeRight ==
    /\ pc = "simplified" => SameWhereDefined(exp, out[1])
    /\ pc = "derived" /\ Judged(out[1]) =>
         \A values \in Envs : \A v \in Calculate(out[2], values) :
           HasSlope(out[1], values, v)
    /\ pc = "again" => SameWhereDefined(out[2], out[3])

PolyAt(p, values) ==
    LET Power(m) == FoldSet(LAMBDA v, product : product * values[v] ^ m[v], 1,
                            {v \in Names : m[v] # 0})
    IN  MapThenSumSet(LAMBDA m : p[m] * Power(m), DOMAIN p)

\* lab9: the quotient has the value of the expression wherever both have
\* one, and there is none only if some part of the expression vanishes.
QuotientRight ==
    pc = "done" =>
      /\ \A q \in answer, values \in Envs :
           LET num == PolyAt(q.num, values)
               den == PolyAt(q.den, values)
           IN  den # 0 => \A v \in Calculate(exp, values) : num * v[2] = den * v[1]
      /\ answer = {} =>
           \E part \in Parts(exp) : \A values \in Envs :
             Calculate(part, values) \subseteq {<<0, 1>>}

\* lab10: rewriting changes no value that there is, but for the one rule that
\* makes 1 of (x - y) * (y + x).
WrongRule == Mult(Sub(x, y), Add(y, x))
RewritingRight ==
    pc = "done" /\ (\A part \in Parts(exp) : Inside(part) # WrongRule)
      => SameWhereDefined(exp, out[1])

\* Whatever a program makes of an expression has the value the expression
\* has, or is its derivative: the notation of lab6 for expressions that lean
\* left, the fractions of lab7, the simplified trees and the derivative of
\* lab8, the polynomials of lab9 and, where the wrong rule does not match,
\* the rewritten trees of lab10.
ValueKept ==
    CASE lab = "lab6" -> PolishRight
      [] lab = "lab7" -> FractionsRight
      [] lab = "lab8" -> DerivativeRight
      [] lab = "lab9" -> QuotientRight
      [] lab = "lab10" -> RewritingRight

=============================================================================
