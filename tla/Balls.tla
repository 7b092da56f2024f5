------------------------------- MODULE Balls -------------------------------
(***************************************************************************)
(* Real balls of src/exact/ball.c: a midpoint and a radius, rationals, that *)
(* stand for every number between.  An operation answers a ball that       *)
(* holds the answers for every number in its arguments, or a status; one   *)
(* that is handed a failed ball hands it on, as the chains of              *)
(* "if (status == PHY_OK)" do.  The answer is made in a temporary, so an   *)
(* output that is also an input is never half written.                     *)
(*                                                                         *)
(* A rational is <<numerator, denominator>> in lowest terms.               *)
(***************************************************************************)
EXTENDS Accumulate

CONSTANTS LeastBits,      \* bits kept at least: 16 in the code
          MaxReductions,  \* PHY_REAL_BALL_MAX_REDUCTIONS: 32
          MaxRounds,      \* PHY_REAL_BALL_MAX_SERIES_ROUNDS: 256
          MaxTerms,       \* PHY_REAL_BALL_MAX_SERIES_TERMS: 68
          MaxLogTerms,    \* PHY_REAL_BALL_MAX_LOG_TERMS: 64
          PiBounds        \* two rationals around pi: forty digits in the code

-----------------------------------------------------------------------------
(* Rationals *)

RECURSIVE CommonDivisor(_, _)
CommonDivisor(a, b) == IF b = 0 THEN a ELSE CommonDivisor(b, a % b)
Absolute(n) == IF n < 0 THEN -n ELSE n
Lowest(n, d) ==
    LET g == CommonDivisor(Absolute(n), Absolute(d))
        sign == IF d < 0 THEN -1 ELSE 1
    IN  <<sign * ((Absolute(n) \div g) * (IF n < 0 THEN -1 ELSE 1)), Absolute(d) \div g>>
Whole(n) == <<n, 1>>
Nil == Whole(0)
Opposite(p) == <<-p[1], p[2]>>
Sum(p, q) ==
    LET g == CommonDivisor(p[2], q[2]) IN Lowest(p[1] * (q[2] \div g) + q[1] * (p[2] \div g), (p[2] \div g) * q[2])
Less(p, q) == Sum(p, Opposite(q))
\* Common factors go first, so that the numbers stay small.
Times(p, q) ==
    LET left == Lowest(p[1], q[2])  right == Lowest(q[1], p[2]) IN <<left[1] * right[1], left[2] * right[2]>>
Over(p, q) == Times(p, Lowest(q[2], q[1]))
\* By the whole parts, and where they are equal by what is left, turned over.
RECURSIVE AtMost(_, _)
AtMost(p, q) ==
    LET left == p[1] \div p[2]  right == q[1] \div q[2]
        rest == p[1] % p[2]  other == q[1] % q[2]
    IN  left < right \/ (left = right /\ (rest = 0 \/ (other # 0 /\ AtMost(<<q[2], other>>, <<p[2], rest>>))))
Below(p, q) == ~AtMost(q, p)
AbsoluteOf(p) == <<Absolute(p[1]), p[2]>>
Higher(p, q) == IF AtMost(p, q) THEN q ELSE p
Lower(p, q) == IF AtMost(p, q) THEN p ELSE q
Halved(p) == Times(p, <<1, 2>>)

-----------------------------------------------------------------------------
(* Balls *)

Ball(m, r) == [status |-> "ok", m |-> m, r |-> r]
NoBall(status) == [status |-> status, m |-> Nil, r |-> Nil]
Good(b) == b.status = "ok"
\* op, unless an argument has failed.
With1(a, op(_)) == IF Good(a) THEN op(a) ELSE a
With2(a, b, op(_, _)) == IF ~Good(a) THEN a ELSE IF ~Good(b) THEN b ELSE op(a, b)

Exactly(p) == Ball(p, Nil)
LowerBound(b) == Less(b.m, b.r)
UpperBound(b) == Sum(b.m, b.r)
SetInterval(lower, upper) ==
    IF Below(upper, lower) THEN NoBall("domain")
    ELSE Ball(Halved(Sum(lower, upper)), Halved(Less(upper, lower)))
ContainsZero(b) == AtMost(AbsoluteOf(b.m), b.r)
MagnitudeUpper(b) == Sum(AbsoluteOf(b.m), b.r)

BallAdd(a, b) == With2(a, b, LAMBDA x, y : Ball(Sum(x.m, y.m), Sum(x.r, y.r)))
BallSubtract(a, b) == With2(a, b, LAMBDA x, y : Ball(Less(x.m, y.m), Sum(x.r, y.r)))
\* The radius without the product of the two radii.
BallMultiplyLinear(a, b) ==
    With2(a, b, LAMBDA x, y : Ball(Times(x.m, y.m), Sum(Times(AbsoluteOf(x.m), y.r), Times(AbsoluteOf(y.m), x.r))))

BallMultiply(a, b) ==
    With2(a, b, LAMBDA x, y :
            Ball(Times(x.m, y.m),
                 Sum(Sum(Times(AbsoluteOf(x.m), y.r), Times(AbsoluteOf(y.m), x.r)), Times(x.r, y.r))))

BallDivide(a, b) ==
    With2(a, b, LAMBDA x, y :
            IF ContainsZero(y) THEN NoBall("domain")
            ELSE BallMultiply(x, SetInterval(Over(Whole(1), UpperBound(y)), Over(Whole(1), LowerBound(y)))))
BallScale(b, n, d) == BallMultiply(b, Exactly(Lowest(n, d)))
BallNegate(b) == BallScale(b, -1, 1)

\* Square and multiply over the bits of the exponent.
BallPower(base, exponent) ==
    LET Step(s) == [power |-> s.power \div 2,
                    result |-> IF s.power % 2 = 1 THEN BallMultiply(s.result, s.factor) ELSE s.result,
                    factor |-> IF s.power > 1 THEN BallMultiply(s.factor, s.factor) ELSE s.factor]
        powered == While(LAMBDA s : s.power # 0, Step,
                         [power |-> Absolute(exponent), result |-> Exactly(Whole(1)), factor |-> base], Absolute(exponent)).result
    IN  With1(base, LAMBDA b :
                CASE exponent < 0 /\ ContainsZero(b) -> NoBall("domain")
                  [] exponent < 0 -> BallDivide(Exactly(Whole(1)), powered)
                  [] OTHER -> powered)

\* Bisection: low squared is at most the value, and high squared at least.
SqrtIntervalBound(value, rounds, upper) ==
    LET Step(s) ==
            LET middle == Halved(Sum(s.low, s.high))
                square == Times(middle, middle)
            IN  CASE square = value -> [low |-> middle, high |-> middle, done |-> TRUE]
                  [] Below(square, value) -> [s EXCEPT !.low = middle]
                  [] OTHER -> [s EXCEPT !.high = middle]
        found == While(LAMBDA s : ~s.done, Step, [low |-> Nil, high |-> Higher(value, Whole(1)), done |-> FALSE], rounds)
    IN  IF upper THEN found.high ELSE found.low
BallSqrt(b, rounds) ==
    With1(b, LAMBDA x :
            IF LowerBound(x)[1] < 0 THEN NoBall("domain")
            ELSE SetInterval(SqrtIntervalBound(LowerBound(x), rounds, FALSE), SqrtIntervalBound(UpperBound(x), rounds, TRUE)))

AddSymmetricError(b, error) == With1(b, LAMBDA x : Ball(x.m, Sum(x.r, error)))
ClampUnit(b) ==
    With1(b, LAMBDA x :
            LET lower == Higher(LowerBound(x), Whole(-1))  upper == Lower(UpperBound(x), Whole(1))
            IN  IF Below(upper, lower) THEN NoBall("corrupt") ELSE SetInterval(lower, upper))
ClampNonnegative(b) ==
    With1(b, LAMBDA x : IF UpperBound(x)[1] < 0 THEN NoBall("corrupt") ELSE SetInterval(Higher(LowerBound(x), Nil), UpperBound(x)))
SquareNonnegative(b) == ClampNonnegative(BallMultiply(b, b))

\* The multiple of 2^-bits next to a value on the side asked for: the quotient
\* is cut towards zero, and one is added or taken where that is the wrong side.
ScaledQuotient(n, d, bits) ==
    Across(LAMBDA s, i : LET r == 2 * s.rest IN [quotient |-> 2 * s.quotient + r \div d, rest |-> r % d],
           [quotient |-> n \div d, rest |-> n % d], 1, bits)
DyadicCut(value, bits, upper) ==
    LET parts == ScaledQuotient(Absolute(value[1]), value[2], bits)
    IN  Lowest((IF value[1] < 0 THEN -1 ELSE 1) * parts.quotient, 2 ^ bits)

DyadicBound(value, bits, upper) ==
    LET parts == ScaledQuotient(Absolute(value[1]), value[2], bits)
        away == parts.rest # 0 /\ upper = (value[1] > 0)
    IN  Lowest((IF value[1] < 0 THEN -1 ELSE 1) * (parts.quotient + (IF away THEN 1 ELSE 0)), 2 ^ bits)

RoundDyadic(b, bits) ==
    With1(b, LAMBDA x : SetInterval(DyadicBound(LowerBound(x), bits, FALSE), DyadicBound(UpperBound(x), bits, TRUE)))

-----------------------------------------------------------------------------
(* Series.  A series stops after some terms; the rest is at most a number     *)
(* known beforehand, since the argument was made small first.  That number is *)
(* positive and far below 2^-bits, and the ball it is added to is rounded     *)
(* to bits right after: any such number gives the same ball, so it is kept    *)
(* here as a multiple of 2^-TailBits, rounded up.                             *)

TailBits == 20
Remainder(n, divisors) ==
    Lowest(Through(LAMBDA k, d : (k + d - 1) \div d, n * 2 ^ TailBits, divisors), 2 ^ TailBits)
Sixteens(n) == [i \in 1 .. n |-> 16]
UpToFactors(n) == [i \in 1 .. n |-> i]

Bits(rounds) == IF rounds < LeastBits THEN LeastBits ELSE rounds
SeriesTerms(rounds) == LET n == 2 + (rounds + 3) \div 4 IN IF n > MaxTerms THEN MaxTerms ELSE n
LogTerms(rounds) == LET n == 8 + rounds \div 4 IN IF n > MaxLogTerms THEN MaxLogTerms ELSE n

\* Halves until no number of the ball is above a sixteenth.
HalveToUnit(b, bits) ==
    LET small == <<1, 16>>
        Large(s) == Good(s.b) /\ Below(small, MagnitudeUpper(s.b))
        Step(s) == IF s.reductions = MaxReductions THEN [s EXCEPT !.b = NoBall("term limit")]
                   ELSE [b |-> RoundDyadic(BallScale(s.b, 1, 2), bits), reductions |-> s.reductions + 1]
    IN  While(Large, Step, [b |-> RoundDyadic(b, bits), reductions |-> 0], MaxReductions + 1)

TrigTaylorReduced(x, terms, bits) ==
    LET square == RoundDyadic(BallMultiply(x, x), bits)
        Next1(term, d) == RoundDyadic(BallMultiply(BallMultiply(term, square), Exactly(Lowest(-1, d))), bits)
        Step(s, i) ==
            LET sine == Next1(s.sineTerm, 2 * i * (2 * i + 1))
                cosine == Next1(s.cosineTerm, (2 * i - 1) * 2 * i)
            IN  [sineTerm |-> sine, cosineTerm |-> cosine,
                 sine |-> RoundDyadic(BallAdd(s.sine, sine), bits), cosine |-> RoundDyadic(BallAdd(s.cosine, cosine), bits)]
        sums == Across(Step, [sineTerm |-> x, cosineTerm |-> Exactly(Whole(1)), sine |-> x, cosine |-> Exactly(Whole(1))], 1, terms - 1)
        Finished(b, degree) == RoundDyadic(AddSymmetricError(b, Remainder(1, Sixteens(degree) \o UpToFactors(degree))), bits)
    IN  [sine |-> Finished(sums.sine, 2 * terms + 1), cosine |-> Finished(sums.cosine, 2 * terms)]

\* Doubled angles, one for each halving.
TrigCore(b, rounds) ==
    LET bits == Bits(rounds)
        reduced == HalveToUnit(b, bits)
        Kept(x) == RoundDyadic(ClampUnit(x), bits)
        Doubled(s, i) == [sine |-> Kept(BallScale(BallMultiply(s.sine, s.cosine), 2, 1)),
                          cosine |-> Kept(BallSubtract(BallMultiply(s.cosine, s.cosine), BallMultiply(s.sine, s.sine)))]
    IN  IF ~Good(reduced.b) THEN [sine |-> reduced.b, cosine |-> reduced.b]
        ELSE Across(Doubled, TrigTaylorReduced(reduced.b, SeriesTerms(rounds), bits), 1, reduced.reductions)

\* The series at the reduced argument, squared once for each halving.
ExpCore(b, rounds) ==
    LET bits == Bits(rounds)
        terms == SeriesTerms(rounds)
        reduced == HalveToUnit(b, bits)
        Step(s, i) ==
            LET term == RoundDyadic(BallMultiply(BallMultiply(s.term, reduced.b), Exactly(Lowest(1, i))), bits)
            IN  [term |-> term, sum |-> RoundDyadic(BallAdd(s.sum, term), bits)]
        sum == Across(Step, [term |-> Exactly(Whole(1)), sum |-> Exactly(Whole(1))], 1, terms - 1).sum
        start == RoundDyadic(AddSymmetricError(sum, Remainder(3, Sixteens(terms) \o UpToFactors(terms))), bits)
    IN  IF ~Good(reduced.b) THEN reduced.b
        ELSE Across(LAMBDA e, i : RoundDyadic(ClampNonnegative(BallMultiply(e, e)), bits), start, 1, reduced.reductions)

\* y = (x - 1) / (x + 1), x a root of the argument taken until |y| <= 1 / 4.
LogReduced(b, bits) ==
    LET one == Exactly(Whole(1))
        Ratio1(x) == RoundDyadic(BallDivide(BallSubtract(x, one), BallAdd(x, one)), bits)
        Large(s) == Good(s.y) /\ Below(<<1, 4>>, MagnitudeUpper(s.y))
        Step(s) == IF s.reductions = MaxReductions THEN [s EXCEPT !.y = NoBall("term limit")]
                   ELSE LET root == RoundDyadic(BallSqrt(s.x, bits), bits)
                        IN  [x |-> root, y |-> Ratio1(root), reductions |-> s.reductions + 1]
        first == RoundDyadic(b, bits)
    IN  While(Large, Step, [x |-> first, y |-> Ratio1(first), reductions |-> 0], MaxReductions + 1)
LogSeries(y, terms, bits) ==
    LET square == RoundDyadic(BallMultiply(y, y), bits)
        Step(s, i) ==
            LET term == RoundDyadic(BallMultiply(s.term, square), bits)
            IN  [term |-> term, sum |-> RoundDyadic(BallAdd(s.sum, RoundDyadic(BallScale(term, 1, 2 * i + 1), bits)), bits)]
    IN  RoundDyadic(BallScale(Across(Step, [term |-> y, sum |-> y], 1, terms - 1).sum, 2, 1), bits)
LogTail(terms) == Remainder(32, <<15, 2 * terms + 1>> \o [i \in 1 .. 2 * terms + 1 |-> 4])
LogCore(b, rounds) ==
    LET bits == Bits(rounds)
        terms == LogTerms(rounds)
        reduced == LogReduced(b, bits)
        sum == RoundDyadic(AddSymmetricError(LogSeries(reduced.y, terms, bits), LogTail(terms)), bits)
    IN  IF LowerBound(b)[1] <= 0 THEN NoBall("domain")
        ELSE IF ~Good(reduced.y) THEN reduced.y
        ELSE RoundDyadic(BallScale(sum, 2 ^ reduced.reductions, 1), bits)

\* x / (1 + sqrt(1 + x^2)) halves the angle, until |x| <= 1 / 2.
AtanReduced(b, rounds, bits) ==
    LET one == Exactly(Whole(1))
        Large(s) == Good(s.x) /\ Below(<<1, 2>>, MagnitudeUpper(s.x))
        HalfAngle(x) == BallDivide(x, BallAdd(one, BallSqrt(BallAdd(one, SquareNonnegative(x)), rounds)))
        Step(s) == IF s.reductions >= 30 THEN [s EXCEPT !.x = NoBall("term limit")]
                   ELSE [x |-> RoundDyadic(HalfAngle(s.x), bits), reductions |-> s.reductions + 1]
    IN  While(Large, Step, [x |-> b, reductions |-> 0], 31)
AtanCore(b, rounds) ==
    LET bits == Bits(rounds)
        terms == 8 + (bits + 1) \div 2
        reduced == AtanReduced(b, rounds, bits)
        square == SquareNonnegative(reduced.x)
        Step(s, i) ==
            LET term == RoundDyadic(BallNegate(BallMultiply(s.term, square)), bits)
            IN  [term |-> term, sum |-> RoundDyadic(BallAdd(s.sum, BallScale(term, 1, 2 * i + 1)), bits)]
        sum == Across(Step, [term |-> reduced.x, sum |-> reduced.x], 1, terms - 1).sum
        whole == RoundDyadic(AddSymmetricError(sum, <<1, 2 ^ (bits + 8)>>), bits)
    IN  IF ~Good(reduced.x) THEN reduced.x
        ELSE RoundDyadic(BallScale(whole, 2 ^ reduced.reductions, 1), bits)

-----------------------------------------------------------------------------
(* The functions *)

Elementary(b, rounds, core(_)) == With1(b, LAMBDA x : IF rounds > MaxRounds THEN NoBall("term limit") ELSE core(x))
BoundsWithin(b, lower, upper, strict) ==
    IF strict THEN Below(Whole(lower), LowerBound(b)) /\ Below(UpperBound(b), Whole(upper))
    ELSE AtMost(Whole(lower), LowerBound(b)) /\ AtMost(UpperBound(b), Whole(upper))
LowerAtLeast(b, least) == AtMost(Whole(least), LowerBound(b))

BallExp(b, rounds) == Elementary(b, rounds, LAMBDA x : ExpCore(x, rounds))
BallLog(b, rounds) == Elementary(b, rounds, LAMBDA x : LogCore(x, rounds))
BallSin(b, rounds) == Elementary(b, rounds, LAMBDA x : TrigCore(x, rounds).sine)
BallCos(b, rounds) == Elementary(b, rounds, LAMBDA x : TrigCore(x, rounds).cosine)
BallTan(b, rounds) ==
    Elementary(b, rounds, LAMBDA x : LET both == TrigCore(x, rounds) IN
                                     RoundDyadic(BallDivide(both.sine, both.cosine), Bits(rounds)))
BallSinh(b, rounds) ==
    Elementary(b, rounds, LAMBDA x : BallScale(BallSubtract(BallExp(x, rounds), BallExp(BallNegate(x), rounds)), 1, 2))
BallCosh(b, rounds) ==
    Elementary(b, rounds, LAMBDA x : BallScale(BallAdd(BallExp(x, rounds), BallExp(BallNegate(x), rounds)), 1, 2))
BallTanh(b, rounds) == Elementary(b, rounds, LAMBDA x : BallDivide(BallSinh(x, rounds), BallCosh(x, rounds)))
BallAtan(b, rounds) == Elementary(b, rounds, LAMBDA x : AtanCore(x, rounds))
\* Twice the arctangent of x / (1 + sqrt(1 - x^2)).
BallAsin(b, rounds) ==
    LET one == Exactly(Whole(1))
        Root(x) == BallSqrt(ClampNonnegative(BallSubtract(one, SquareNonnegative(x))), rounds)
    IN  Elementary(b, rounds, LAMBDA x :
                     IF ~BoundsWithin(x, -1, 1, FALSE) THEN NoBall("domain")
                     ELSE BallScale(BallAtan(BallDivide(x, BallAdd(one, Root(x))), rounds), 2, 1))
BallPi == SetInterval(PiBounds[1], PiBounds[2])
BallAcos(b, rounds) == Elementary(b, rounds, LAMBDA x : BallSubtract(BallScale(BallPi, 1, 2), BallAsin(x, rounds)))
BallAsinh(b, rounds) ==
    Elementary(b, rounds, LAMBDA x :
                 BallLog(BallAdd(x, BallSqrt(BallAdd(SquareNonnegative(x), Exactly(Whole(1))), rounds)), rounds))
BallAcosh(b, rounds) ==
    LET one == Exactly(Whole(1))
    IN  Elementary(b, rounds, LAMBDA x :
                     IF ~LowerAtLeast(x, 1) THEN NoBall("domain")
                     ELSE BallLog(BallAdd(x, BallMultiply(BallSqrt(BallSubtract(x, one), rounds),
                                                          BallSqrt(BallAdd(x, one), rounds))), rounds))
BallAtanh(b, rounds) ==
    LET one == Exactly(Whole(1))
    IN  Elementary(b, rounds, LAMBDA x :
                     IF ~BoundsWithin(x, -1, 1, TRUE) THEN NoBall("domain")
                     ELSE BallScale(BallSubtract(BallLog(BallAdd(one, x), rounds), BallLog(BallSubtract(one, x), rounds)), 1, 2))
=============================================================================
