------------------------------ MODULE MCBalls ------------------------------
(* Balls with ends at the halves, and at the quarters for the functions,     *)
(* against values known to four places.                                      *)
EXTENDS Balls, FiniteSets

LOCAL INSTANCE TLC

VARIABLE case

Quarter(k) == Lowest(k, 4)
Between(a, b) == SetInterval(Quarter(a), Quarter(b))

Widths == {0, 1, 2, 4}
Ends == {-8, -3, -2, 0, 1, 2, 4}
FunctionNames == {"exp", "log", "sin", "cos", "tan", "sinh", "cosh", "tanh", "atan", "asin", "acos", "asinh", "acosh", "atanh"}

\* A function that takes roots of what it is given, not rounded, needs large
\* numbers for many rounds.
Rounds(name) ==
    CASE name \in {"exp", "sin", "cos", "tan", "sinh", "cosh", "tanh"} -> {0, 8, MaxRounds + 1}
      [] name \in {"log", "asinh", "acosh", "atanh"} -> {0, 4}
      [] OTHER -> {0, 2}

Starts(name) == IF name = "atan" THEN -4 .. 3 ELSE -8 .. 8

ChooseBall == case.kind = "none" /\ \E a, b \in Ends : case' = [kind |-> "ball", a |-> a, b |-> b]
ChooseOther ==
    /\ case.kind = "ball" /\ case.a <= case.b
    /\ \E c, d \in Ends : c <= d /\ case' = [kind |-> "balls", a |-> case.a, b |-> case.b, c |-> c, d |-> d]
ChooseFunction ==
    /\ case.kind = "none"
    /\ \E name \in FunctionNames : \E rounds \in Rounds(name) : case' = [kind |-> "function", name |-> name, rounds |-> rounds]
ChooseArgument ==
    /\ case.kind = "function"
    /\ \E a \in Starts(case.name), width \in Widths :
         case' = [kind |-> "value", name |-> case.name, rounds |-> case.rounds, a |-> a, b |-> a + width]
Next == ChooseBall \/ ChooseOther \/ ChooseFunction \/ ChooseArgument

-----------------------------------------------------------------------------
(* Arithmetic *)

Holds(b, p) == AtMost(LowerBound(b), p) /\ AtMost(p, UpperBound(b))
Points(a, b) == {Quarter(k) : k \in a .. b}
WidthOf(b) == Sum(b.r, b.r)
PowerOf(p, n) == Across(LAMBDA power, i : Times(power, p), Whole(1), 1, n)

ArithmeticAgrees(a, b, c, d) ==
    LET x == Between(a, b)  y == Between(c, d)
        sum == BallAdd(x, y)  difference == BallSubtract(x, y)  product == BallMultiply(x, y)  quotient == BallDivide(x, y)
    IN  /\ WidthOf(sum) = Sum(WidthOf(x), WidthOf(y)) /\ WidthOf(difference) = WidthOf(sum)
        /\ (quotient.status = "ok") = (c > 0 \/ d < 0)
        \* No number of a product is further out than the furthest one.
        /\ MagnitudeUpper(product) = Times(MagnitudeUpper(x), MagnitudeUpper(y))
        /\ \A p \in Points(a, b), q \in Points(c, d) :
             /\ Holds(sum, Sum(p, q)) /\ Holds(difference, Less(p, q)) /\ Holds(product, Times(p, q))
             /\ Good(quotient) => Holds(quotient, Over(p, q))

\* The ball of a root: the end squared is on its side of the end, and two
\* roots are as close as the rounds of bisection make them.
RootAgrees(x, rounds) ==
    LET root == BallSqrt(x, rounds)
        lower == LowerBound(root)  upper == UpperBound(root)
        start == Higher(UpperBound(x), Whole(1))
    IN  IF LowerBound(x)[1] < 0 THEN root.status = "domain"
        ELSE /\ Good(root) /\ AtMost(Nil, lower)
             /\ AtMost(Times(lower, lower), LowerBound(x)) /\ AtMost(UpperBound(x), Times(upper, upper))
             /\ WidthOf(x) = Nil => AtMost(Less(upper, lower), Times(start, Lowest(1, 2 ^ rounds)))

BallAgrees(a, b) ==
    LET x == Between(a, b) IN
    IF a > b THEN x.status = "domain"
    ELSE /\ LowerBound(x) = Quarter(a) /\ UpperBound(x) = Quarter(b)
         /\ ContainsZero(x) = (a <= 0 /\ b >= 0)
         /\ \A n \in 0 .. 5 : \A p \in Points(a, b) :
              /\ Holds(BallPower(x, n), PowerOf(p, n))
              /\ IF ContainsZero(x) THEN n > 0 => BallPower(x, -n).status = "domain"
                 ELSE n <= 3 => /\ a = b => Good(BallPower(x, -n))
                                /\ Good(BallPower(x, -n)) => Holds(BallPower(x, -n), Over(Whole(1), PowerOf(p, n)))
         /\ \A rounds \in {0, 1, 5} : RootAgrees(x, rounds)
         /\ LET unit == ClampUnit(x)  positive == ClampNonnegative(x) IN
            /\ IF b < -4 \/ a > 4 THEN unit.status = "corrupt"
               ELSE \A p \in Points(a, b) : Holds(unit, p) = (AtMost(AbsoluteOf(p), Whole(1)))
            /\ IF b < 0 THEN positive.status = "corrupt"
               ELSE \A p \in Points(a, b) : Holds(positive, p) = (p[1] >= 0)
         \* Rounded outwards, by less than one unit on each side.
         /\ \A bits \in 0 .. 3, d \in {3, 5} :
              LET thin == SetInterval(Times(Quarter(a), Lowest(1, d)), Times(Quarter(b), Lowest(1, d)))
                  rounded == RoundDyadic(thin, bits)
                  unit == Lowest(1, 2 ^ bits)
              IN  /\ AtMost(LowerBound(rounded), LowerBound(thin)) /\ AtMost(UpperBound(thin), UpperBound(rounded))
                  /\ Below(LowerBound(thin), Sum(LowerBound(rounded), unit))
                  /\ Below(Less(UpperBound(rounded), unit), UpperBound(thin))

-----------------------------------------------------------------------------
(* Functions: ten thousand times the value at each quarter, cut downwards *)

At(first, values) == [k \in first .. (first + Len(values) - 1) |-> values[k - first + 1]]
Table ==
       "exp" :> At(-8, <<1353, 1737, 2231, 2865, 3678, 4723, 6065, 7788, 10000, 12840, 16487, 21170, 27182, 34903, 44816, 57546, 73890>>)
    @@ "log" :> At(1, <<-13863, -6932, -2877, 0, 2231, 4054, 5596, 6931>>)
    @@ "sin" :> At(-8, <<-9093, -9840, -9975, -9490, -8415, -6817, -4795, -2475, 0, 2474, 4794, 6816, 8414, 9489, 9974, 9839, 9092>>)
    @@ "cos" :> At(-8, <<-4162, -1783, 707, 3153, 5403, 7316, 8775, 9689, 10000, 9689, 8775, 7316, 5403, 3153, 707, -1783, -4162>>)
    @@ "tan" :> At(-8, <<21850, 55203, -141015, -30096, -15575, -9316, -5464, -2554, 0, 2553, 5463, 9315, 15574, 30095, 141014, -55204, -21851>>)
    @@ "sinh" :> At(-8, <<-36269, -27905, -21293, -16020, -11753, -8224, -5211, -2527, 0, 2526, 5210, 8223, 11752, 16019, 21292, 27904, 36268>>)
    @@ "cosh" :> At(-8, <<37621, 29641, 23524, 18884, 15430, 12946, 11276, 10314, 10000, 10314, 11276, 12946, 15430, 18884, 23524, 29641, 37621>>)
    @@ "tanh" :> At(-8, <<-9641, -9414, -9052, -8483, -7616, -6352, -4622, -2450, 0, 2449, 4621, 6351, 7615, 8482, 9051, 9413, 9640>>)
    @@ "atan" :> At(-8, <<-11072, -10517, -9828, -8961, -7854, -6436, -4637, -2450, 0, 2449, 4636, 6435, 7853, 8960, 9827, 10516, 11071>>)
    @@ "asin" :> At(-4, <<-15708, -8481, -5236, -2527, 0, 2526, 5235, 8480, 15707>>)
    @@ "acos" :> At(-4, <<31415, 24188, 20943, 18234, 15707, 13181, 10471, 7227, 0>>)
    @@ "asinh" :> At(-8, <<-14437, -13259, -11948, -10476, -8814, -6932, -4813, -2475, 0, 2474, 4812, 6931, 8813, 10475, 11947, 13258, 14436>>)
    @@ "acosh" :> At(4, <<0, 6931, 9624, 11588, 13169>>)
    @@ "atanh" :> At(-3, <<-9730, -5494, -2555, 0, 2554, 5493, 9729>>)

Answer(name, b, rounds) ==
    CASE name = "exp" -> BallExp(b, rounds) [] name = "log" -> BallLog(b, rounds)
      [] name = "sin" -> BallSin(b, rounds) [] name = "cos" -> BallCos(b, rounds) [] name = "tan" -> BallTan(b, rounds)
      [] name = "sinh" -> BallSinh(b, rounds) [] name = "cosh" -> BallCosh(b, rounds) [] name = "tanh" -> BallTanh(b, rounds)
      [] name = "atan" -> BallAtan(b, rounds) [] name = "asin" -> BallAsin(b, rounds) [] name = "acos" -> BallAcos(b, rounds)
      [] name = "asinh" -> BallAsinh(b, rounds) [] name = "acosh" -> BallAcosh(b, rounds) [] name = "atanh" -> BallAtanh(b, rounds)

\* Where the function is defined on all of the ball.
Defined(name, a, b) ==
    CASE name = "log" -> a > 0
      [] name \in {"asin", "acos"} -> a >= -4 /\ b <= 4
      [] name = "acosh" -> a >= 4
      [] name = "atanh" -> a > -4 /\ b < 4
      [] name = "tan" -> ~(\E k \in {-7, 6} : a <= k /\ b >= k + 1)
      [] OTHER -> TRUE
\* What a wide ball, or few rounds of the roots inside, may take over the edge
\* of a function used on the way, or keep from getting small.
MayGiveUp == {"tan", "tanh", "atan", "asin", "acos", "asinh", "acosh"}

ValueAgrees(name, a, b, rounds) ==
    LET result == Answer(name, Between(a, b), rounds) IN
    IF rounds > MaxRounds THEN result.status = "term limit"
    ELSE /\ ~Defined(name, a, b) => result.status = "domain"
         /\ Defined(name, a, b) /\ (name \notin MayGiveUp \/ (a = b /\ rounds > 0 /\ a \in -4 .. 4)) => Good(result)
         /\ Good(result) =>
              \A k \in (a .. b) \cap DOMAIN Table[name] :
                /\ AtMost(LowerBound(result), Lowest(Table[name][k] + 1, 10000))
                /\ AtMost(Lowest(Table[name][k], 10000), UpperBound(result))

\* A ball that is answered holds the answer for every number of its arguments:
\* sums, products, quotients, powers and roots of balls, a ball rounded to
\* some bits or cut to where a value can be, and the functions, whose series
\* are cut, rounded at every term and carried back from a smaller argument by
\* doubling or squaring.  What is refused is refused because no answer exists,
\* or, for the functions of MayGiveUp, because the ball became too wide on the way.
BallsEnclose ==
    CASE case.kind = "ball" -> BallAgrees(case.a, case.b)
      [] case.kind = "balls" -> ArithmeticAgrees(case.a, case.b, case.c, case.d)
      [] case.kind = "value" -> ValueAgrees(case.name, case.a, case.b, case.rounds)
      [] OTHER -> TRUE
=============================================================================
