----------------------------- MODULE MCAlgebra -----------------------------
(* The algorithms of the algebra layer, each run on bounded inputs and      *)
(* compared with what it should compute.  A state is one input; a step      *)
(* chooses it, an operand at a time, and another concludes with it: the     *)
(* properties are about that step.  Balls have a module of their own.       *)
EXTENDS ExactNumbers, FiniteSets

VARIABLE case

Init == case = [kind |-> "none"]

-----------------------------------------------------------------------------
(* Inputs *)

\* Every number of up to three limbs over the limbs where carries turn.
Digits == {0, 1, Base \div 2, Base - 1}
Magnitudes == {s \in UNION {[1 .. n -> Digits] : n \in 1 .. MaxLimbs} : s[Len(s)] # 0}
Integers3 == {Zero} \cup {Number(sign, limbs) : sign \in {-1, 1}, limbs \in Magnitudes}

\* Small fractions, and one at the limit of a limb.
Fractions == {-15, -2, 0, 1, 3, 8} \X {-4, 1, 6, 15}
Gaussians == ({0, 2} \X {1, 3}) \X ({-1, 0, 1} \X {1, 2})

ChooseInteger == case.kind = "none" /\ \E x \in Integers3 : case' = [kind |-> "integer", x |-> x]
ChooseIntegers == case.kind = "integer" /\ \E y \in Integers3 :
                     case' = [kind |-> "integers", x |-> case.x, y |-> y]
ChooseFraction == case.kind = "none" /\ \E p \in Fractions : case' = [kind |-> "fraction", x |-> p]
ChooseFractions == case.kind = "fraction" /\ \E q \in Fractions :
                     case' = [kind |-> "fractions", x |-> case.x, y |-> q]
ChooseGaussian == case.kind = "none" /\ \E z \in Gaussians : case' = [kind |-> "gaussian", x |-> z]
ChooseGaussians == case.kind = "gaussian" /\ \E z \in Gaussians :
                     case' = [kind |-> "gaussians", x |-> case.x, y |-> z]

\* Polynomials over the fields of 2, 3 and 5 elements, one and two at a time.
F(p) == INSTANCE FinitePoly WITH Prime <- p, MaxDegree <- 5

\* All polynomials of at most n coefficients.
Polynomials(p, n) ==
    {F(p)!Poly(c) : c \in {s \in UNION {[1 .. k -> 0 .. (p - 1)] : k \in 0 .. n} : s = <<>> \/ s[Len(s)] # 0}}
Monics(p, n) == {a \in Polynomials(p, n) : a.c # <<>> /\ a.c[Len(a.c)] = 1}

Longest == [p \in {2, 3, 5} |-> CASE p = 2 -> 6 [] p = 3 -> 5 [] p = 5 -> 4]
\* A monic one is factored and the others are refused: two leading coefficients.
\* A shift of the variable takes the square term from a cubic over five elements.
Kept(p, a) == /\ a.c # <<>> => a.c[Len(a.c)] <= 2
              /\ (Len(a.c) = 4 /\ p = 5) => a.c[3] <= 1
Singles == [p \in {2, 3, 5} |-> {a \in Polynomials(p, Longest[p]) : Kept(p, a)}]
Halves == [p \in {2, 3, 5} |-> Polynomials(p, CASE p = 2 -> 5 [] p = 3 -> 3 [] p = 5 -> 2)]

ChooseField == case.kind = "none" /\ \E p \in {2, 3, 5} : case' = [kind |-> "field", p |-> p]
ChoosePolynomial == case.kind = "field" /\ \E a \in Singles[case.p] :
                        case' = [kind |-> "polynomial", p |-> case.p, a |-> a]
ChooseModulus == /\ case.kind = "polynomial" /\ case.a \in Halves[case.p]
                 /\ \E b \in Halves[case.p] : case' = [kind |-> "polynomials", p |-> case.p, a |-> case.a, b |-> b]
PolynomialNext == ChooseField \/ ChoosePolynomial \/ ChooseModulus

\* Matrices over the field of 5 elements with numbers and with a parameter.
L == INSTANCE Linear WITH Field <- 5, Points <- 0 .. 3

U == [p \in 0 .. 3 |-> p]
Const(n) == L!Number(n)
Entries == {Const(0), Const(1), Const(3), U, L!Sum(U, Const(1))}
Threes == {<<Const(0), Const(1), Const(2)>>, <<Const(1), Const(0), Const(0)>>, <<Const(0), Const(0), U>>, <<U, Const(1), Const(0)>>,
           <<Const(1), Const(2), Const(1)>>, <<Const(0), Const(0), Const(0)>>, <<Const(2), U, Const(1)>>, <<Const(0), Const(2), Const(4)>>}

Shapes == {<<2, 2>>, <<2, 3>>, <<3, 2>>, <<3, 3>>}
MatricesOf(shape) ==
    IF shape = <<3, 3>> THEN [1 .. 3 -> Threes]
    ELSE IF shape = <<2, 3>> THEN [1 .. 2 -> Threes]
    ELSE [1 .. shape[1] -> [1 .. 2 -> IF shape[1] = 2 THEN Entries ELSE {Const(0), Const(2), U}]]

ChooseShape == case.kind = "none" /\ \E shape \in Shapes : case' = [kind |-> "shape", shape |-> shape]
ChooseRow == case.kind = "shape" /\ \E m \in MatricesOf(case.shape) : case' = [kind |-> "matrix", m |-> m]
MatrixNext == ChooseShape \/ ChooseRow

\* Four digits of pi where the code has forty, and six bits kept at least.
Intervals == INSTANCE MCBalls WITH LeastBits <- 6, MaxReductions <- 32, MaxRounds <- 16, MaxTerms <- 68,
                                   MaxLogTerms <- 64, PiBounds <- <<<<201, 64>>, <<202, 64>>>>

\* The input has been looked at; the next choice starts afresh.
Conclude == case.kind # "none" /\ case' = [kind |-> "none"]

Next == \/ Conclude \/ PolynomialNext \/ MatrixNext \/ Intervals!Next
        \/ ChooseInteger \/ ChooseIntegers
        \/ ChooseFraction \/ ChooseFractions
        \/ ChooseGaussian \/ ChooseGaussians

Spec == Init /\ [][Next]_case

-----------------------------------------------------------------------------
(* Integers *)

Abs(n) == IF n < 0 THEN -n ELSE n
Limit == Base ^ MaxLimbs
Value(x) == x.sign * Across(LAMBDA sum, i : sum + x.limbs[i] * Base ^ (i - 1), 0, 1, Count(x))
Quotient(a, b) == (IF (a < 0) = (b < 0) THEN 1 ELSE -1) * (Abs(a) \div Abs(b))
Divides(d, n) == d # 0 /\ n % d = 0
ResultIs(r, n) == Ok(r) /\ Normal(r) /\ Value(r) = n

PairAgrees(x, y) ==
    LET a == Value(x)  b == Value(y)
        sum == Add(x, y)  difference == Subtract(x, y)  product == Multiply(x, y)
        parts == Divmod(x, y)
        gcd == Gcd(x, y)
        AtLimit == Count(x) = MaxLimbs \/ Count(y) = MaxLimbs
    IN  /\ IF Ok(sum) THEN ResultIs(sum, a + b) ELSE AtLimit
        /\ IF Ok(difference) THEN ResultIs(difference, a - b) ELSE AtLimit
        /\ IF Ok(product) THEN ResultIs(product, a * b) ELSE Abs(a) * Abs(b) >= Limit
        /\ Compare(x, y) = (IF a > b THEN 1 ELSE IF a < b THEN -1 ELSE 0)
        /\ IF b = 0 THEN parts.quotient.status = "domain"
           ELSE /\ ResultIs(parts.quotient, Quotient(a, b))
                /\ ResultIs(parts.remainder, a - b * Quotient(a, b))
        /\ Ok(gcd) /\ Normal(gcd)
        /\ IF a = 0 /\ b = 0 THEN IsZero(gcd)
           ELSE LET g == Value(gcd) IN
                /\ g > 0 /\ Divides(g, Abs(a)) /\ Divides(g, Abs(b))
                /\ Gcd(DivideExact(x, gcd), DivideExact(y, gcd)) = FromInt(1)

RoundTrips(x) ==
    LET written == WriteChunks(x)
        digits == [i \in 1 .. Len(written.chunks) |-> written.chunks[Len(written.chunks) + 1 - i]]
        back == ReadDecimal(x.sign, digits)
    IN  /\ IsZero(written.rest)
        /\ ~IsZero(x) => IF Ok(back) THEN back = x ELSE Count(x) = MaxLimbs
        /\ TryInt(x).fits => TryInt(x).n = Value(x)
        /\ \A m \in {1, 3, 8, 15} : ModSmall(x, m) = Value(x) % m
        /\ \A e \in 0 .. (IF Abs(Value(x)) < 30 THEN 6 ELSE 2) :
             LET p == Power(x, e) IN
             IF Ok(p) THEN ResultIs(p, IF e = 0 THEN 1 ELSE Value(x) ^ e)
             ELSE e # 0 /\ Abs(Value(x)) ^ e >= Limit

\* Limbs-and-carries computations and integer arithmetic agree: whatever
\* phy_bigint_add, _subtract, _multiply, _divmod, _gcd, _compare and _pow_u32
\* return is the integer they promise, in normal form; addition refuses only
\* beside the limb limit, multiplication only a product that does not fit, and
\* division and gcd never refuse for want of limbs.  What phy_bigint_write
\* prints, phy_bigint_read reads back as the same number, unless it has every
\* limb the context allows (reading reserves a limb more than it needs), and
\* the chunks fit the array sized for them.
IntegersAgree ==
    /\ case.kind = "integers" => PairAgrees(case.x, case.y)
    /\ case.kind = "integer" => RoundTrips(case.x)

-----------------------------------------------------------------------------
(* Rationals *)

\* The numerators and denominators of exact results, as integers.
N(q) == Value(q.num)
D(q) == Value(q.den)
\* The rational of a chosen pair.
Fraction(pair) == RatFromInts(pair[1], pair[2])
Equals(q, n, d) == RatOk(q) => RatCanonical(q) /\ N(q) * d = n * D(q)

FractionsAgree(p, q) ==
    /\ RatCanonical(p) /\ RatCanonical(q)
    /\ Equals(RatAdd(p, q), N(p) * D(q) + N(q) * D(p), D(p) * D(q))
    /\ Equals(RatSubtract(p, q), N(p) * D(q) - N(q) * D(p), D(p) * D(q))
    /\ Equals(RatMultiply(p, q), N(p) * N(q), D(p) * D(q))
    /\ IF N(q) = 0 THEN RatDivide(p, q).num.status = "domain"
       ELSE /\ Equals(RatDivide(p, q), N(p) * D(q), D(p) * N(q))
            /\ RatReciprocal(RatReciprocal(q)) = q
            /\ Equals(RatPower(q, -2), D(q) * D(q), N(q) * N(q))
    /\ Equals(RatPower(p, 2), N(p) * N(p), D(p) * D(p))
    /\ RatCompare(p, q).status = "ok" =>
         LET d == N(p) * D(q) - N(q) * D(p) IN
         RatCompare(p, q).order = (IF d > 0 THEN 1 ELSE IF d < 0 THEN -1 ELSE 0)

GaussianPairAgrees(y, z) ==
    LET product == GaussMultiply(y, z)
        quotient == GaussDivide(y, z)
        back == GaussMultiply(quotient, z)
        norms == RatMultiply(GaussNorm(y), GaussNorm(z))
    IN  /\ GaussOk(product) /\ RatOk(GaussNorm(product)) /\ RatOk(norms)
             => GaussNorm(product) = norms
        /\ GaussMultiply(y, GaussConjugate(y)).re = GaussNorm(y)
        /\ IF z = Gaussian(Whole(Zero), Whole(Zero)) THEN quotient.re.num.status = "domain"
           ELSE GaussOk(back) => back = y
        /\ GaussOk(GaussPower(y, 3)) => GaussPower(y, 3) = GaussMultiply(y, GaussMultiply(y, y))
        /\ GaussSubtract(GaussAdd(y, z), z) = y /\ GaussAdd(y, GaussNegate(y)).re.num = Zero

\* Rational arithmetic is exact and leaves lowest terms with a positive
\* denominator, whatever order the crosswise reductions ran in; equal numbers
\* are therefore equal records, which the memo tables and the term order of
\* the callers rely on.  Multiplication of Gaussian rationals respects the
\* norm, and a quotient times its divisor is the dividend: fill_multiply,
\* fill_reciprocal and the power loop put every cross term in its place.
RationalsAgree ==
    /\ case.kind = "fractions" => FractionsAgree(Fraction(case.x), Fraction(case.y))
    /\ case.kind = "gaussians" =>
         GaussianPairAgrees(Gaussian(Fraction(case.x[1]), Fraction(case.x[2])),
                            Gaussian(Fraction(case.y[1]), Fraction(case.y[2])))

-----------------------------------------------------------------------------
(* Polynomials, by multiplication alone *)

\* The product as a sequence of coefficients, without a degree limit.
Raw(p, a, b) == IF a.c = <<>> \/ b.c = <<>> THEN F(p)!Nil ELSE F(p)!Trimmed(F(p)!Product(a, b))
Positive(p, n) == {d \in Monics(p, n) : Len(d.c) >= 2}
\* Every monic product of two smaller ones, and every monic multiple of a square.
Composites == Evaluated([p \in {2, 3, 5} |->
    UNION {{Raw(p, d, e) : e \in Positive(p, Longest[p] + 1 - Len(d.c))} : d \in Positive(p, (Longest[p] + 1) \div 2)}])
Squareful == Evaluated([p \in {2, 3, 5} |->
    UNION {{Raw(p, Raw(p, d, d), e) : e \in Monics(p, Longest[p] + 2 - 2 * Len(d.c))} : d \in Positive(p, (Longest[p] + 1) \div 2)}])
Irreducible(p, a) == a \notin Composites[p]
HasSquare(p, a) == F(p)!Monic(a) \in Squareful[p]

FactorizationAgrees(p, a) ==
    LET factors == F(p)!FactorSquareFree(a)
        list == factors.list
        monic == Len(a.c) >= 2 /\ a.c[Len(a.c)] = 1
    IN  /\ a.c # <<>> => F(p)!IsSquareFree(a) = ~HasSquare(p, a)
        /\ IF ~monic \/ HasSquare(p, a) THEN factors.status = "domain"
           ELSE /\ factors.status = "ok"
                /\ Through(LAMBDA product, f : Raw(p, product, f), F(p)!One, list) = a
                /\ \A i \in DOMAIN list : list[i].c[Len(list[i].c)] = 1 /\ Irreducible(p, list[i])
                /\ \A i \in 2 .. Len(list) : F(p)!OrderBefore(list[i - 1], list[i])

ArithmeticAgrees(p, a, b) ==
    LET product == F(p)!Times(a, b)
        parts == F(p)!DivRem(a, b)
        gcd == F(p)!GcdOf(a, b)
        bezout == F(p)!XGcd(a, b)
        modulus == F(p)!Plus(b, F(p)!Poly(<<0, 1>>))
    IN  /\ IF Len(a.c) + Len(b.c) > 7 /\ a.c # <<>> /\ b.c # <<>> THEN product.status = "terms" ELSE product = Raw(p, a, b)
        /\ F(p)!Minus(F(p)!Plus(a, b), b) = a
        /\ IF b.c = <<>> THEN parts.status = "domain"
           ELSE /\ Len(parts.remainder.c) < Len(b.c)
                /\ F(p)!Plus(Raw(p, parts.quotient, b), parts.remainder) = a
        /\ bezout.gcd = gcd
        /\ F(p)!Plus(Raw(p, bezout.left, a), Raw(p, bezout.right, b)) = gcd
        /\ gcd.c # <<>> => F(p)!DivRem(a, gcd).remainder = F(p)!Nil /\ F(p)!DivRem(b, gcd).remainder = F(p)!Nil
        /\ modulus.c # <<>> =>
             /\ F(p)!MulMod(a, b, modulus) = F(p)!DivRem(Raw(p, a, b), modulus).remainder
             /\ \A e \in 0 .. 3 :
                  F(p)!PowMod(a, e, modulus) =
                  Across(LAMBDA power, k : F(p)!MulMod(power, a, modulus), F(p)!DivRem(F(p)!One, modulus).remainder, 1, e)

-----------------------------------------------------------------------------
(* Matrices at one value of the parameter, by plain sums over permutations  *)
(* and over vectors                                                         *)

At(m, p) == [r \in DOMAIN m |-> [c \in DOMAIN m[r] |-> m[r][c][p]]]
Vectors(n) == [1 .. n -> 0 .. 4]
Dot(a, x) == Across(LAMBDA s, c : s + a[c] * x[c], 0, 1, Len(x)) % 5
Kernel(a) == {x \in Vectors(Len(a[1])) : \A r \in DOMAIN a : Dot(a[r], x) = 0}
Sign(g) == IF Cardinality({<<i, j>> \in (DOMAIN g) \X (DOMAIN g) : i < j /\ g[i] > g[j]}) % 2 = 0 THEN 1 ELSE -1
Leibniz(a) ==
    LET n == Len(a)
        all == {g \in [1 .. n -> 1 .. n] : \A i, j \in 1 .. n : g[i] = g[j] => i = j}
        Term(g) == Sign(g) * Across(LAMBDA s, i : s * a[i][g[i]], 1, 1, n)
        RECURSIVE Total(_)
        Total(left) == IF left = {} THEN 0 ELSE LET g == CHOOSE h \in left : TRUE IN Term(g) + Total(left \ {g})
    IN  Total(all) % 5

Plain(m) == \A r \in DOMAIN m : \A c \in DOMAIN m[r] : L!IsNumber(m[r][c])

MatrixAgrees(m) ==
    LET rref == L!MatrixRref(m)
        null == L!NullSpace(m)
        determinant == L!Determinant(m)
        inverse == L!MatrixInverse(m)
        square == Len(m) = Len(m[1])
        double == L!MatrixAdd(m, m)
    IN  /\ rref.status = null.status /\ (Plain(m) => rref.status = "ok")
        /\ L!MatrixTranspose(L!MatrixTranspose(m)) = m
        /\ double.value = L!MatrixScale(m, Const(2))
        /\ L!MatrixMultiply(m, L!Identity(Len(m[1]))).value = m
        /\ LET squared == L!MatrixMultiply(L!MatrixTranspose(m), m) IN
             squared.status = "ok" /\ L!MatrixTranspose(squared.value) = squared.value
        /\ rref.status = "ok" =>
             \A p \in 0 .. 3 :
               /\ Kernel(At(rref.m, p)) = Kernel(At(m, p))
               /\ Cardinality(Kernel(At(m, p))) = 5 ^ (Len(m[1]) - Len(rref.pivots))
               /\ \A k \in 1 .. (Len(m[1]) - Len(rref.pivots)) :
                    [r \in DOMAIN null.value |-> null.value[r][k][p]] \in Kernel(At(m, p))
        /\ IF ~square THEN determinant.status = "type" /\ inverse.status = "type"
           ELSE /\ determinant.status = "ok" => \A p \in 0 .. 3 : determinant.value[p] = Leibniz(At(m, p))
                /\ Plain(m) => determinant.status = "ok" /\ inverse.status # "unsupported"
                /\ inverse.status = "ok" => L!MatrixMultiply(inverse.value, m).value = L!Identity(Len(m))
                /\ inverse.status = "domain" => \A p \in 0 .. 3 : Leibniz(At(m, p)) = 0

\* The solutions of a system at one value of the parameter, the last column
\* being its right side.
Solutions(m, p) == {x \in Vectors(Len(m[1]) - 1) : \A r \in DOMAIN m :
                       Dot(SubSeq(At(m, p)[r], 1, Len(x)), x) = m[r][Len(x) + 1][p]}
Meets(solution, x, p) ==
    \A q \in DOMAIN solution :
        LET s == solution[q]
            shift == Across(LAMBDA sum, c : IF c \in DOMAIN s.free THEN sum + s.free[c][p] * x[c] ELSE sum, 0, 1, Len(x))
        IN  x[s.variable] = (s.constant[p] + shift) % 5

Equation(row, square) ==
    LET n == Len(row) - 1 IN
    [e \in L!Exponents(n) |->
        IF L!Constant(e) THEN L!Negative(row[n + 1])
        ELSE IF \E c \in 1 .. n : e = [i \in 1 .. n |-> IF i = c THEN 1 ELSE 0] THEN row[CHOOSE c \in 1 .. n : e[c] = 1]
        ELSE IF e[1] = 2 THEN square ELSE Const(0)]

SystemAgrees(m) ==
    LET n == Len(m[1]) - 1
        solved == L!SolveSystem([r \in DOMAIN m |-> Equation(m[r], Const(0))], n)
        curved == L!SolveSystem([r \in DOMAIN m |-> Equation(m[r], IF r = 1 THEN Const(1) ELSE Const(0))], n)
    IN
    /\ solved.status \notin {"not linear", "corrupt"} /\ curved.status = "not linear"
    /\ Plain(m) => solved.status # "unsupported"
    /\ solved.status = "none" => \A p \in 0 .. 3 : Solutions(m, p) = {}
    /\ solved.status = "ok" => \A p \in 0 .. 3 :
         Solutions(m, p) = {x \in Vectors(Len(m[1]) - 1) : Meets(solved.value, x, p)}

-----------------------------------------------------------------------------
(* The properties of the runs *)

\* Division, greatest common divisors, their cofactors and powers over a
\* finite field agree with multiplication, and a monic polynomial without a
\* repeated factor (the others are refused) comes back as its irreducible
\* factors, in order: Berlekamp's null space has as many vectors as there are
\* factors, and splitting by them stops exactly when all are found.
FieldsAgree ==
    [][Conclude => /\ case.kind = "polynomial" => FactorizationAgrees(case.p, case.a)
                   /\ case.kind = "polynomials" => ArithmeticAgrees(case.p, case.a, case.b)]_case

\* Elimination with a parameter among the entries: what is reduced, inverted
\* or solved is right at every value of the parameter, because no pivot is
\* taken that might vanish, and a system without a parameter is never refused.
\* The fraction-free determinant is the sum over permutations, and the
\* solutions of a system are exactly those its free variables generate.
LinearAgrees == [][Conclude /\ case.kind = "matrix" => MatrixAgrees(case.m) /\ SystemAgrees(case.m)]_case

\* A real ball that is answered holds the answer for every number of its
\* arguments, through the cut series, the rounding of every term and the way
\* back from a smaller argument; what is refused has no answer, or a ball that
\* became too wide on the way.
BallsEnclose == [][Conclude => Intervals!BallsEnclose]_case

\* The operations on integers and on rationals, built from limbs and halves,
\* give what arithmetic gives or refuse with the status the limits call for
\* (src/exact/integer.c, src/exact/rational.c).
NumbersAgree == [][Conclude => IntegersAgree /\ RationalsAgree]_case
=============================================================================
