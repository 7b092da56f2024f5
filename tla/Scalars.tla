------------------------------ MODULE Scalars ------------------------------
(***************************************************************************)
(* The values of components.  The code keeps expression trees and hands    *)
(* them to the CAS (phy_cas_add, _mul, _diff, _pow, _is_zero); the         *)
(* algorithms above it use nothing of an expression but its ring           *)
(* operations and its derivatives.  Here a scalar is the Taylor expansion  *)
(* at the origin of an expression in Axes coordinates, up to degree Order, *)
(* its coefficients modulo Prime: a tuple with an entry for each monomial. *)
(* Two expressions with different values have different expansions, apart  *)
(* from a multiple of Prime and from what lies above Order; a derivative   *)
(* loses the last degree, and Agree compares what is left.                 *)
(***************************************************************************)
EXTENDS Accumulate, FiniteSets

CONSTANTS Axes, Order, Prime

ASSUME ScalarsAssumption == Axes \in Nat \ {0} /\ Order \in Nat /\ Prime \in Nat \ {0, 1}

\* A monomial is coded by its exponents, as digits in base Order + 1: the code
\* of a product is the sum of the codes.
Radix == Order + 1
Exponent(code, axis) == (code \div Radix ^ axis) % Radix
TotalDegree(code) == Across(LAMBDA sum, axis : sum + Exponent(code, axis), 0, 0, Axes - 1)
Monomials == SelectSeq(UpTo(Radix ^ Axes), LAMBDA code : TotalDegree(code) <= Order)
Size == Len(Monomials)
Degrees == [k \in 1 .. Size |-> TotalDegree(Monomials[k])]
Position == [code \in {Monomials[k] : k \in 1 .. Size} |-> CHOOSE k \in 1 .. Size : Monomials[k] = code]

\* The pairs of monomials whose product is a monomial.
Splits ==
    [k \in 1 .. Size |->
       Through(LAMBDA pairs, i :
                 LET rest == Monomials[k] - Monomials[i]
                 IN  IF /\ rest \in DOMAIN Position
                        /\ Degrees[i] + Degrees[Position[rest]] = Degrees[k]
                     THEN Append(pairs, <<i, Position[rest]>>) ELSE pairs,
               <<>>, [i \in 1 .. Size |-> i])]

Zero == [k \in 1 .. Size |-> 0]
Constant(n) == [k \in 1 .. Size |-> IF k = 1 THEN n % Prime ELSE 0]
One == Constant(1)
Coordinate(axis) == [k \in 1 .. Size |-> IF Monomials[k] = Radix ^ axis THEN 1 ELSE 0]

Plus(a, b) == IF a = Zero THEN b ELSE IF b = Zero THEN a ELSE [k \in 1 .. Size |-> (a[k] + b[k]) % Prime]
Minus(a, b) == IF b = Zero THEN a ELSE [k \in 1 .. Size |-> (a[k] - b[k]) % Prime]
Negated(a) == Minus(Zero, a)
Signed(a, sign) == IF sign = 0 THEN Zero ELSE IF sign < 0 THEN Negated(a) ELSE a
Times(a, b) ==
    IF a = Zero \/ b = Zero THEN Zero
    ELSE [k \in 1 .. Size |-> Through(LAMBDA sum, p : sum + a[p[1]] * b[p[2]], 0, Splits[k]) % Prime]
Scaled(n, a) == [k \in 1 .. Size |-> (n * a[k]) % Prime]

SumOver(term(_), n) == Through(LAMBDA sum, i : Plus(sum, term(i)), Zero, UpTo(n))

Diff(a, axis) ==
    [k \in 1 .. Size |->
       IF Degrees[k] = Order THEN 0
       ELSE ((Exponent(Monomials[k], axis) + 1) * a[Position[Monomials[k] + Radix ^ axis]]) % Prime]

\* Inverses of numbers and of scalars with a constant term.
Inverse1 == [n \in 1 .. Prime - 1 |-> CHOOSE m \in 1 .. Prime - 1 : (n * m) % Prime = 1]
Fraction(n, d) == Constant((n % Prime) * Inverse1[d % Prime])
Invertible(a) == a[1] # 0
Reciprocal(a) ==
    LET scale == Inverse1[a[1]]
        rest == Minus(One, Scaled(scale, a))
    IN  Scaled(scale, Across(LAMBDA r, n : Plus(One, Times(rest, r)), One, 1, Order))

\* A square root, for a scalar whose constant term is a square.
HasRoot(a) == \E s \in 1 .. Prime - 1 : (s * s) % Prime = a[1]
Root(a) ==
    LET start == Constant(CHOOSE s \in 1 .. Prime - 1 : (s * s) % Prime = a[1])
    IN  Across(LAMBDA r, n : Times(Fraction(1, 2), Plus(r, Times(a, Reciprocal(r)))), start, 1, Order)

\* a with a scalar that vanishes at the origin put in for every coordinate.
Power(a, n) == Across(LAMBDA p, i : Times(p, a), One, 1, n)
Substituted(a, scalars) ==
    LET Term(k) == IF a[k] = 0 THEN Zero
                   ELSE Across(LAMBDA p, axis : LET e == Exponent(Monomials[k], axis)
                                                IN  IF e = 0 THEN p ELSE Times(p, Power(scalars[axis], e)),
                               Constant(a[k]), 0, Axes - 1)
    IN  SumOver(LAMBDA k : Term(k + 1), Size)

Agree(a, b, order) == \A k \in 1 .. Size : Degrees[k] <= order => a[k] = b[k]
=============================================================================
