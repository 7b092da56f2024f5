----------------------------- MODULE FinitePoly -----------------------------
(***************************************************************************)
(* Polynomials over the field of Prime elements: src/src/cas/finite_poly.c *)
(* The CAS factors with them.  A polynomial is the sequence of its         *)
(* coefficients from the constant up, with none that is zero at the end;   *)
(* degrees and columns of matrices count from 0.  Every operation checks   *)
(* the degree limit where the code does; the step budget and the           *)
(* interruption it polls are not modelled.                                 *)
(***************************************************************************)
EXTENDS Accumulate, FiniteSets

CONSTANTS Prime, MaxDegree

Poly(coefficients) == [status |-> "ok", c |-> coefficients]
Refusal(status) == [status |-> status, c |-> <<>>]
Nil == Poly(<<>>)
One == Poly(<<1>>)
Size(a) == Len(a.c)

\* phy_fpoly_coefficient: 0 above the degree.
At(a, degree) == IF degree < Size(a) THEN a.c[degree + 1] ELSE 0

\* trim
Trimmed(coefficients) ==
    LET kept == {n \in 0 .. Len(coefficients) : n = 0 \/ coefficients[n] # 0}
    IN  Poly(SubSeq(coefficients, 1, CHOOSE n \in kept : \A m \in kept : m <= n))

\* phy_fpoly_set
SetTo(coefficients) ==
    IF Len(coefficients) > MaxDegree + 1 THEN Refusal("terms")
    ELSE Trimmed([i \in DOMAIN coefficients |-> coefficients[i] % Prime])

Longer(a, b) == IF Size(a) > Size(b) THEN Size(a) ELSE Size(b)
Plus(a, b) == Trimmed([i \in 1 .. Longer(a, b) |-> (At(a, i - 1) + At(b, i - 1)) % Prime])
Minus(a, b) == Trimmed([i \in 1 .. Longer(a, b) |-> (At(a, i - 1) - At(b, i - 1)) % Prime])
Scaled(a, scalar) == Trimmed([i \in DOMAIN a.c |-> (a.c[i] * scalar) % Prime])
Derivative(a) ==
    IF Size(a) <= 1 THEN Nil ELSE Trimmed([i \in 1 .. (Size(a) - 1) |-> (a.c[i + 1] * i) % Prime])

\* multiply_internal
Product(a, b) ==
    [n \in 1 .. (Size(a) + Size(b) - 1) |->
       Across(LAMBDA sum, i : (sum + At(a, i) * (IF n - 1 < i THEN 0 ELSE At(b, n - 1 - i))) % Prime, 0, 0, n - 1)]
Times(a, b) ==
    IF Size(a) = 0 \/ Size(b) = 0 THEN Nil
    ELSE IF Size(a) + Size(b) - 1 > MaxDegree + 1 THEN Refusal("terms")
    ELSE Trimmed(Product(a, b))

\* inverse_mod: the power Prime - 2, by squaring.
InverseOf(value) ==
    While(LAMBDA s : s.exponent # 0,
          LAMBDA s : [result |-> IF s.exponent % 2 = 1 THEN (s.result * s.factor) % Prime ELSE s.result,
                      factor |-> (s.factor * s.factor) % Prime, exponent |-> s.exponent \div 2],
          [result |-> 1, factor |-> value, exponent |-> Prime - 2], 16).result

LeadingInverse(a) == InverseOf(a.c[Size(a)])
Monic(a) == IF Size(a) = 0 THEN a ELSE Scaled(a, LeadingInverse(a))

\* The coefficients of factor * x^shift * a, as many as width.
ShiftedBy(a, factor, shift, width) ==
    [i \in 1 .. width |-> IF i - 1 < shift THEN 0 ELSE (factor * At(a, i - 1 - shift)) % Prime]

\* divrem_internal
DivRem(a, b) ==
    LET Step(s) ==
            LET shift == Size(s.remainder) - Size(b)
                factor == (s.remainder.c[Size(s.remainder)] * LeadingInverse(b)) % Prime
                taken == ShiftedBy(b, factor, shift, Size(s.remainder))
            IN  [quotient |-> [s.quotient EXCEPT ![shift + 1] = factor],
                 remainder |-> Trimmed([i \in DOMAIN taken |-> (s.remainder.c[i] - taken[i]) % Prime])]
        done == While(LAMBDA s : Size(s.remainder) >= Size(b) /\ Size(s.remainder) # 0, Step,
                      [quotient |-> [i \in 1 .. (IF Size(a) >= Size(b) THEN Size(a) - Size(b) + 1 ELSE 0) |-> 0],
                       remainder |-> a], Size(a))
    IN  IF Size(b) = 0 THEN [status |-> "domain", quotient |-> Nil, remainder |-> Nil]
        ELSE [status |-> "ok", quotient |-> Trimmed(done.quotient), remainder |-> done.remainder]

\* multiply_remainder_internal: the product is reduced in a workspace of twice
\* the degree, from the top down, and so meets no degree limit.
MulMod(a, b, modulus) ==
    LET m == Size(modulus) - 1
        n == Size(a) + Size(b) - 1
        Reduce(work, k) ==
            LET degree == n - 1 - k
                factor == (work[degree + 1] * LeadingInverse(modulus)) % Prime
                taken == ShiftedBy(modulus, factor, degree - m, n)
            IN  [i \in 1 .. n |-> (work[i] - taken[i]) % Prime]
        work == Across(Reduce, Product(a, b), 0, n - 1 - m)
    IN  IF Size(modulus) = 0 THEN Refusal("domain")
        ELSE IF Size(a) = 0 \/ Size(b) = 0 \/ Size(modulus) = 1 THEN Nil
        ELSE Trimmed(SubSeq(work, 1, IF n < m THEN n ELSE m))

\* gcd_internal
GcdOf(a, b) ==
    Monic(While(LAMBDA s : Size(s[2]) # 0, LAMBDA s : <<s[2], DivRem(s[1], s[2]).remainder>>,
                <<a, b>>, Size(b) + 1)[1])

\* xgcd_internal: the remainders with their cofactors, made monic at the end.
XGcd(a, b) ==
    LET Step(s) ==
            LET parts == DivRem(s.old.r, s.new.r)
            IN  [old |-> s.new,
                 new |-> [r |-> parts.remainder,
                          left |-> Minus(s.old.left, Times(parts.quotient, s.new.left)),
                          right |-> Minus(s.old.right, Times(parts.quotient, s.new.right))]]
        done == While(LAMBDA s : Size(s.new.r) # 0, Step,
                      [old |-> [r |-> a, left |-> One, right |-> Nil], new |-> [r |-> b, left |-> Nil, right |-> One]],
                      Size(b) + 1).old
    IN  IF Size(a) = 0 /\ Size(b) = 0 THEN [gcd |-> Nil, left |-> Nil, right |-> Nil]
        ELSE LET inverse == LeadingInverse(done.r)
             IN  [gcd |-> Scaled(done.r, inverse), left |-> Scaled(done.left, inverse), right |-> Scaled(done.right, inverse)]

\* powmod_internal
PowMod(a, exponent, modulus) ==
    IF Size(modulus) = 0 THEN Refusal("domain")
    ELSE While(LAMBDA s : s.exponent # 0,
               LAMBDA s : [result |-> IF s.exponent % 2 = 1 THEN MulMod(s.result, s.factor, modulus) ELSE s.result,
                           factor |-> MulMod(s.factor, s.factor, modulus), exponent |-> s.exponent \div 2],
               [result |-> DivRem(One, modulus).remainder, factor |-> DivRem(a, modulus).remainder,
                exponent |-> exponent], 16).result

\* phy_fpoly_is_square_free
IsSquareFree(a) == Size(a) <= 2 \/ Size(GcdOf(a, Derivative(a))) <= 1

-----------------------------------------------------------------------------
(* Factorization *)

\* berlekamp_rref: column k holds x^(Prime k) - x^k modulo the polynomial, in
\* reduced row echelon form.
BerlekampMatrix(a) ==
    LET d == Size(a) - 1
        powers == [column \in 0 .. (d - 1) |-> PowMod(Poly(<<0, 1>>), Prime * column, a)]
    IN  Evaluated([row \in 0 .. (d - 1) |->
           Evaluated([column \in 0 .. (d - 1) |-> (At(powers[column], row) - (IF row = column THEN 1 ELSE 0)) % Prime])])

Swapped(matrix, i, j) == [matrix EXCEPT ![i] = matrix[j], ![j] = matrix[i]]
Cleared(matrix, pivot, column) ==
    LET inverse == InverseOf(matrix[pivot][column])
        row == Evaluated([e \in DOMAIN matrix[pivot] |-> (matrix[pivot][e] * inverse) % Prime])
    IN  [r \in DOMAIN matrix |->
           IF r = pivot THEN row ELSE Evaluated([e \in DOMAIN row |-> (matrix[r][e] - matrix[r][column] * row[e]) % Prime])]

BerlekampRref(a) ==
    LET d == Size(a) - 1
        Step(s, column) ==
            LET rows == {r \in Len(s.pivots) .. (d - 1) : s.matrix[r][column] # 0}
                rank == Len(s.pivots)
                pivot == CHOOSE r \in rows : \A q \in rows : r <= q
            IN  IF rows = {} THEN s
                ELSE [matrix |-> Evaluated(Cleared(Swapped(s.matrix, rank, pivot), rank, column)),
                      pivots |-> Append(s.pivots, column)]
    IN  Through(Step, [matrix |-> BerlekampMatrix(a), pivots |-> <<>>], UpTo(d))

\* Variant: the entries of the null vector keep their sign.
BasisUnsigned(a, reduced, free) ==
    LET Pivot(degree) == CHOOSE r \in DOMAIN reduced.pivots : reduced.pivots[r] = degree
    IN  Trimmed([i \in 1 .. (Size(a) - 1) |->
                   IF i - 1 = free THEN 1
                   ELSE IF \E r \in DOMAIN reduced.pivots : reduced.pivots[r] = i - 1
                   THEN reduced.matrix[Pivot(i - 1) - 1][free] ELSE 0])

\* The vector of the null space that a column without pivot gives.
BasisPolynomial(a, reduced, free) ==
    LET Pivot(degree) == CHOOSE r \in DOMAIN reduced.pivots : reduced.pivots[r] = degree
    IN  Trimmed([i \in 1 .. (Size(a) - 1) |->
                   IF i - 1 = free THEN 1
                   ELSE IF \E r \in DOMAIN reduced.pivots : reduced.pivots[r] = i - 1
                   THEN (-reduced.matrix[Pivot(i - 1) - 1][free]) % Prime ELSE 0])

\* split_with_basis: every factor there is, against the basis polynomial less
\* each value of the field, until there are as many factors as there must be.
SplitWith(basis, target, factors) ==
    LET SplitOne(found, at, value) ==
            LET candidate == found[at.index]
                shifted == Minus(basis, SetTo(<<value>>))
                divisor == GcdOf(candidate, shifted)
                quotient == DivRem(candidate, divisor).quotient
            IN  IF Size(candidate) <= 2 \/ Len(found) >= target THEN found
                ELSE IF Size(divisor) <= 1 \/ Size(divisor) = Size(candidate) THEN found
                ELSE Append([found EXCEPT ![at.index] = divisor], Monic(quotient))
        Pass(found, value) ==
            Through(LAMBDA f, i : SplitOne(f, [index |-> i], value), found, [i \in DOMAIN found |-> i])
    IN  Through(Pass, factors, UpTo(Prime))

\* polynomial_order and sort_factors
OrderBefore(a, b) ==
    \/ Size(a) < Size(b)
    \/ /\ Size(a) = Size(b)
       /\ \E i \in DOMAIN a.c : a.c[i] < b.c[i] /\ \A j \in (i + 1) .. Size(a) : a.c[j] = b.c[j]
InOrder(factors) ==
    Through(LAMBDA sorted, f :
              LET later == {i \in DOMAIN sorted : OrderBefore(f, sorted[i])}
                  at == IF later = {} THEN Len(sorted) ELSE (CHOOSE i \in later : \A j \in later : i <= j) - 1
              IN  SubSeq(sorted, 1, at) \o <<f>> \o SubSeq(sorted, at + 1, Len(sorted)), <<>>, factors)

Factors(status, list) == [status |-> status, list |-> list]

\* phy_fpoly_factor_square_free
FactorSquareFree(a) ==
    LET reduced == BerlekampRref(a)
        free == SelectSeq(UpTo(Size(a) - 1), LAMBDA k : \A r \in DOMAIN reduced.pivots : reduced.pivots[r] # k)
        split == Through(LAMBDA factors, k : IF Len(factors) >= Len(free) THEN factors
                                             ELSE SplitWith(BasisPolynomial(a, reduced, k), Len(free), factors),
                         <<a>>, free)
        sorted == InOrder(split)
    IN  IF Size(a) < 2 \/ a.c[Size(a)] # 1 THEN Factors("domain", <<>>)
        ELSE IF Size(GcdOf(a, Derivative(a))) > 1 THEN Factors("domain", <<>>)
        ELSE IF free = <<>> \/ Len(split) # Len(free) THEN Factors("corrupt", <<>>)
        ELSE IF Through(LAMBDA p, f : Times(p, f), One, sorted) # a THEN Factors("corrupt", <<>>)
        ELSE Factors("ok", sorted)
=============================================================================
