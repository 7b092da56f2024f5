---------------------------- MODULE ExactNumbers ----------------------------
(***************************************************************************)
(* The exact number kernel of src/src/exact: signed integers of limbs      *)
(* (integer.c), canonical rationals (rational.c) and Gaussian rationals    *)
(* (gaussian.c), as operators.                                             *)
(*                                                                         *)
(* An integer is [status, sign, limbs], least limb first.  A limb is a     *)
(* digit of Base (2^32 in the code); MaxLimbs is limits.max_limbs of the   *)
(* context.  An operation that the code ends with an error returns a       *)
(* number with that status; every operation hands on the first operand     *)
(* that has failed, as the "if (status == PHY_OK)" chains of the code do.  *)
(* Results are built in a temporary and swapped in at the end, so an       *)
(* operand the caller owns is never half written: operators say just that. *)
(* The step budget and cancellation stop any operation and are not         *)
(* modelled here (ExactContext).                                           *)
(***************************************************************************)
EXTENDS Accumulate

CONSTANTS LimbBits,   \* bits in a limb: 32
          MaxLimbs,   \* limits.max_limbs
          Ten,        \* the radix of phy_bigint_read: 10
          Chunk       \* what phy_bigint_write divides by: 10^9

Base == 2 ^ LimbBits

ASSUME LimbAssumption == LimbBits \in Nat \ {0} /\ MaxLimbs \in Nat \ {0}
ASSUME RadixAssumption == Ten \in 2 .. (Base - 1) /\ Chunk \in Ten .. (Base - 1)

Failed(status) == [status |-> status, sign |-> 0, limbs |-> <<>>]
Number(sign, limbs) == [status |-> "ok", sign |-> sign, limbs |-> limbs]
Zero == Number(0, <<>>)
Ok(x) == x.status = "ok"
IsZero(x) == x.limbs = <<>>
Count(x) == Len(x.limbs)

\* phy_bigint_shallow_valid: no leading zero limb, a sign exactly when nonzero.
Normal(x) == /\ Count(x) <= MaxLimbs
             /\ IF IsZero(x) THEN x.sign = 0
                ELSE x.sign \in {-1, 1} /\ x.limbs[Count(x)] # 0

LimbAt(x, i) == IF i <= Count(x) THEN x.limbs[i] ELSE 0

\* phy_bigint_normalize
Normalize(sign, limbs) ==
    LET last == Through(LAMBDA top, i : IF limbs[i] # 0 THEN i ELSE top, 0,
                        [i \in DOMAIN limbs |-> i])
    IN  IF last = 0 THEN Zero ELSE Number(sign, SubSeq(limbs, 1, last))

\* The capacity phy_bigint_reserve gives a fresh number: doubled from one limb,
\* never above the limit.
Capacity(needed) ==
    While(LAMBDA c : c < needed, LAMBDA c : IF c <= MaxLimbs \div 2 THEN c * 2 ELSE MaxLimbs,
          1, MaxLimbs)

\* A carry rippling through limbs: digit(i) is what position i adds up to.
Ripple(digit(_), count, first) ==
    Across(LAMBDA acc, i : LET sum == digit(i) + acc.carry IN
                           [limbs |-> Append(acc.limbs, sum % Base), carry |-> sum \div Base],
           [limbs |-> <<>>, carry |-> first], 1, count)

WithCarry(acc) == IF acc.carry = 0 THEN acc.limbs ELSE Append(acc.limbs, acc.carry)

\* phy_bigint_assign_u64, phy_bigint_set_i64: an integer of at most two limbs.
FromInt(n) ==
    LET m == IF n < 0 THEN -n ELSE n
        limbs == IF m = 0 THEN <<>> ELSE IF m < Base THEN <<m>> ELSE <<m % Base, m \div Base>>
    IN  IF Len(limbs) > MaxLimbs THEN Failed("memory")
        ELSE Number(IF n < 0 THEN -1 ELSE IF n > 0 THEN 1 ELSE 0, limbs)

\* phy_bigint_try_i64: two limbs hold the magnitude, and the negative side has
\* one more value than the positive.
TryInt(x) ==
    LET magnitude == LimbAt(x, 1) + Base * LimbAt(x, 2)
        top == Base * (Base \div 2)
    IN  IF Count(x) > 2 \/ (x.sign > 0 /\ magnitude > top - 1) \/ magnitude > top
        THEN [fits |-> FALSE, n |-> 0]
        ELSE [fits |-> TRUE, n |-> x.sign * magnitude]

\* phy_bigint_compare_abs
CompareAbs(x, y) ==
    IF Count(x) # Count(y) THEN (IF Count(x) > Count(y) THEN 1 ELSE -1)
    ELSE Across(LAMBDA order, i : IF x.limbs[i] = y.limbs[i] THEN order
                                  ELSE IF x.limbs[i] > y.limbs[i] THEN 1 ELSE -1,
                0, 1, Count(x))

\* phy_bigint_compare
Compare(x, y) ==
    IF x.sign # y.sign THEN (IF x.sign > y.sign THEN 1 ELSE -1)
    ELSE x.sign * CompareAbs(x, y)

WithSign(x, sign) == IF IsZero(x) THEN x ELSE [x EXCEPT !.sign = sign]
Magnitude(x) == WithSign(x, 1)

\* add_magnitudes: room for a carry is reserved whether or not one comes.
AddMagnitudes(x, y) ==
    LET count == IF Count(x) > Count(y) THEN Count(x) ELSE Count(y) IN
    IF count + 1 > MaxLimbs THEN Failed("memory")
    ELSE Number(1, WithCarry(Ripple(LAMBDA i : LimbAt(x, i) + LimbAt(y, i), count, 0)))

\* subtract_magnitudes and subtract_abs_in_place, for |x| >= |y|: the borrow is
\* a carry of -1.
SubtractMagnitudes(x, y) ==
    LET r == Ripple(LAMBDA i : LimbAt(x, i) - LimbAt(y, i), Count(x), 0) IN
    IF r.carry # 0 THEN Failed("corrupt") ELSE Normalize(1, r.limbs)

\* add_signed: y enters with the sign given, its own or the opposite.
AddSigned(x, y, sign) ==
    IF IsZero(x) THEN WithSign(y, sign)
    ELSE IF IsZero(y) THEN x
    ELSE IF x.sign = sign
    THEN LET sum == AddMagnitudes(x, y) IN IF Ok(sum) THEN WithSign(sum, x.sign) ELSE sum
    ELSE LET order == CompareAbs(x, y) IN
         IF order = 0 THEN Zero
         ELSE IF order > 0 THEN WithSign(SubtractMagnitudes(x, y), x.sign)
         ELSE WithSign(SubtractMagnitudes(y, x), sign)

Strict(x, y, op(_, _)) == IF ~Ok(x) THEN x ELSE IF ~Ok(y) THEN y ELSE op(x, y)

Add(x, y) == Strict(x, y, LAMBDA a, b : AddSigned(a, b, b.sign))
Subtract(x, y) == Strict(x, y, LAMBDA a, b : AddSigned(a, b, -b.sign))
Negate(x) == IF Ok(x) THEN WithSign(x, -x.sign) ELSE x

\* phy_bigint_multiply: schoolbook.  A product of n by m limbs has n+m-1 or n+m
\* of them; at the limit the shorter is reserved, and a last carry that does
\* not fit the capacity is an error.
MultiplyLimbs(x, y) ==
    LET full == Count(x) + Count(y)
        count == IF full <= MaxLimbs THEN full ELSE full - 1
        start == [limbs |-> [i \in 1 .. count |-> 0], status |-> "ok"]
        Row(acc, i) ==
            LET row == Across(LAMBDA st, j :
                                LET at == i + j - 1
                                    product == x.limbs[i] * y.limbs[j] + st.limbs[at] + st.carry
                                IN  [limbs |-> [st.limbs EXCEPT ![at] = product % Base],
                                     carry |-> product \div Base],
                              [limbs |-> acc.limbs, carry |-> 0], 1, Count(y))
                at == i + Count(y)
            IN  IF acc.status # "ok" THEN acc
                ELSE IF at <= count
                THEN [limbs |-> [row.limbs EXCEPT ![at] = row.carry], status |-> "ok"]
                ELSE [limbs |-> row.limbs,
                      status |-> IF at > Capacity(count) /\ row.carry # 0 THEN "memory" ELSE "ok"]
        product == Across(Row, start, 1, Count(x))
    IN  IF full - 1 > MaxLimbs THEN Failed("memory")
        ELSE IF product.status # "ok" THEN Failed(product.status)
        ELSE Normalize(x.sign * y.sign, product.limbs)

Multiply(x, y) ==
    Strict(x, y, LAMBDA a, b : IF IsZero(a) \/ IsZero(b) THEN Zero ELSE MultiplyLimbs(a, b))

\* phy_bigint_pow_u32: square and multiply, low bit first, the last square
\* left out.
Power(x, exponent) ==
    LET Step(st) ==
            LET result == IF st.left % 2 = 1 THEN Multiply(st.result, st.factor) ELSE st.result
                left == st.left \div 2
            IN  [result |-> result, left |-> left,
                 factor |-> IF left # 0 /\ Ok(result) THEN Multiply(st.factor, st.factor)
                            ELSE st.factor]
        end == While(LAMBDA st : st.left # 0 /\ Ok(st.result) /\ Ok(st.factor), Step,
                     [result |-> FromInt(1), factor |-> x, left |-> exponent], exponent)
    IN  IF ~Ok(x) THEN x ELSE IF ~Ok(end.factor) THEN end.factor ELSE end.result

\* phy_bigint_bit_length and bit_at
BitLength(x) ==
    IF IsZero(x) THEN 0
    ELSE (Count(x) - 1) * LimbBits
         + While(LAMBDA b : x.limbs[Count(x)] >= 2 ^ b, LAMBDA b : b + 1, 0, LimbBits)
BitAt(x, bit) == (LimbAt(x, bit \div LimbBits + 1) \div 2 ^ (bit % LimbBits)) % 2

\* shift_left_one: a limb more is reserved only when the top bit is set.
ShiftLeftOne(x, low) ==
    LET grows == IsZero(x) \/ x.limbs[Count(x)] >= Base \div 2 IN
    IF Count(x) + (IF grows THEN 1 ELSE 0) > MaxLimbs THEN Failed("memory")
    ELSE Normalize(1, WithCarry(Ripple(LAMBDA i : 2 * x.limbs[i], Count(x), low)))

\* set_bit on a quotient that is filled from its top bit down.
SetBit(x, bit) ==
    LET limb == bit \div LimbBits + 1
        count == IF limb > Count(x) THEN limb ELSE Count(x)
    IN  Number(1, [i \in 1 .. count |->
                     LimbAt(x, i) + (IF i = limb THEN 2 ^ (bit % LimbBits) ELSE 0)])

\* One limb dividing many, from the top limb down: divide_small_in_place, the
\* single-limb path of divmod_abs, phy_bigint_mod_u32.
DivideSmall(x, small) ==
    LET r == Across(LAMBDA acc, k :
                      LET i == Count(x) + 1 - k
                          current == acc.carry * Base + x.limbs[i]
                      IN  [limbs |-> [acc.limbs EXCEPT ![i] = current \div small],
                           carry |-> current % small],
                    [limbs |-> x.limbs, carry |-> 0], 1, Count(x))
    IN  [quotient |-> Normalize(1, r.limbs), remainder |-> r.carry]

\* divmod_abs: binary long division, one bit of the dividend at a time.
DivmodAbs(x, y) ==
    LET Bring(st, k) ==
            LET bit == BitLength(x) - k
                shifted == ShiftLeftOne(st.remainder, BitAt(x, bit))
                over == Ok(shifted) /\ CompareAbs(shifted, y) >= 0
            IN  IF ~Ok(st.remainder) THEN st
                ELSE [remainder |-> IF over THEN SubtractMagnitudes(shifted, y) ELSE shifted,
                      quotient  |-> IF over THEN SetBit(st.quotient, bit) ELSE st.quotient]
        small == DivideSmall(x, y.limbs[1])
    IN  IF CompareAbs(x, y) < 0 THEN [quotient |-> Zero, remainder |-> Magnitude(x)]
        ELSE IF Count(y) = 1
        THEN [quotient |-> small.quotient, remainder |-> FromInt(small.remainder)]
        ELSE Across(Bring, [quotient |-> Zero, remainder |-> Zero], 1, BitLength(x))

\* Variant: the remainder takes the sign of the divisor.
DivmodOfDivisor(x, y) ==
    LET r == DivmodAbs(x, y) IN
    IF ~Ok(x) \/ ~Ok(y) \/ IsZero(y) \/ ~Ok(r.remainder)
    THEN [quotient |-> Failed("domain"), remainder |-> Failed("domain")]
    ELSE [quotient |-> WithSign(r.quotient, x.sign * y.sign), remainder |-> WithSign(r.remainder, y.sign)]

\* phy_bigint_divmod: truncates towards zero, the remainder takes the sign of
\* the dividend.
Divmod(x, y) ==
    LET r == DivmodAbs(x, y)
        Both(status) == [quotient |-> Failed(status), remainder |-> Failed(status)]
    IN  IF ~Ok(x) THEN Both(x.status) ELSE IF ~Ok(y) THEN Both(y.status)
        ELSE IF IsZero(y) THEN Both("domain")
        ELSE IF ~Ok(r.remainder) THEN Both(r.remainder.status)
        ELSE [quotient  |-> WithSign(r.quotient, x.sign * y.sign),
              remainder |-> WithSign(r.remainder, x.sign)]

\* phy_bigint_divide_exact
DivideExact(x, y) ==
    LET r == Divmod(x, y) IN
    IF ~Ok(r.remainder) THEN r.remainder
    ELSE IF IsZero(r.remainder) THEN r.quotient ELSE Failed("domain")

\* phy_bigint_gcd: Euclid on magnitudes.
Gcd(x, y) ==
    Strict(x, y, LAMBDA left, right :
        While(LAMBDA p : Ok(p.b) /\ ~IsZero(p.b),
              LAMBDA p : [a |-> p.b, b |-> Divmod(p.a, p.b).remainder],
              [a |-> Magnitude(left), b |-> Magnitude(right)],
              1 + BitLength(left) + BitLength(right)).a)

\* phy_bigint_mod_u32: a residue in 0 .. modulus - 1 also for a negative value.
ModSmall(x, modulus) ==
    LET r == DivideSmall(x, modulus).remainder IN
    IF x.sign < 0 /\ r # 0 THEN modulus - r ELSE r

\* phy_bigint_read on decimal digits, most significant first: multiply_small
\* and add_small both reserve a limb for the carry before they write.
ReadDecimal(sign, digits) ==
    LET TimesTen(x) ==
            IF IsZero(x) THEN x ELSE IF Count(x) + 1 > MaxLimbs THEN Failed("memory")
            ELSE Number(1, WithCarry(Ripple(LAMBDA i : x.limbs[i] * Ten, Count(x), 0)))
        Plus(x, d) ==
            IF ~Ok(x) \/ d = 0 THEN x
            ELSE IF IsZero(x) THEN FromInt(d)
            ELSE IF Count(x) + 1 > MaxLimbs THEN Failed("memory")
            ELSE Number(1, WithCarry(Ripple(LAMBDA i : x.limbs[i], Count(x), d)))
        value == Through(LAMBDA x, d : IF Ok(x) THEN Plus(TimesTen(x), d) ELSE x, Zero, digits)
    IN  IF digits = <<>> THEN Failed("parse")
        ELSE IF Ok(value) THEN WithSign(value, sign) ELSE value

\* phy_bigint_write: the chunks the value is cut into, least first.  The array
\* for them is sized from the limb count.
ChunkCapacity(x) == (Count(x) * 10 + 8) \div 9 + 2
WriteChunks(x) ==
    While(LAMBDA st : ~IsZero(st.rest) /\ Len(st.chunks) < ChunkCapacity(x),
          LAMBDA st : LET r == DivideSmall(st.rest, Chunk) IN
                      [rest |-> r.quotient, chunks |-> Append(st.chunks, r.remainder)],
          [rest |-> Magnitude(x), chunks |-> <<>>], ChunkCapacity(x))

-----------------------------------------------------------------------------
(* Rationals: rational.c *)

Ratio(n, d) == [num |-> n, den |-> d]
RatOk(q) == Ok(q.num)
RatFailed(status) == Ratio(Failed(status), Failed(status))
Whole(x) == IF Ok(x) THEN Ratio(x, FromInt(1)) ELSE RatFailed(x.status)
RatIsZero(q) == IsZero(q.num)

\* rational_valid_shallow, with the lowest terms normalize_in_place leaves.
RatCanonical(q) ==
    /\ Normal(q.num) /\ Normal(q.den) /\ q.den.sign = 1
    /\ Gcd(q.num, q.den) = FromInt(1)

\* Variant: a negative denominator stays as it is.
RatNormalizeUnsigned(n, d) ==
    LET gcd == Gcd(n, d) IN
    IF ~Ok(n) \/ ~Ok(d) \/ IsZero(d) \/ ~Ok(gcd) THEN RatFailed("domain")
    ELSE IF IsZero(n) THEN Ratio(Zero, FromInt(1))
    ELSE Ratio(DivideExact(n, gcd), DivideExact(d, gcd))

\* normalize_in_place
RatNormalize(n, d) ==
    LET flip == d.sign < 0
        num == IF flip THEN Negate(n) ELSE n
        den == IF flip THEN Negate(d) ELSE d
        gcd == Gcd(num, den)
        a == DivideExact(num, gcd)
        b == DivideExact(den, gcd)
    IN  IF ~Ok(n) THEN RatFailed(n.status) ELSE IF ~Ok(d) THEN RatFailed(d.status)
        ELSE IF IsZero(d) THEN RatFailed("domain")
        ELSE IF IsZero(n) THEN Ratio(Zero, FromInt(1))
        ELSE IF ~Ok(gcd) THEN RatFailed(gcd.status)
        ELSE IF ~Ok(a) THEN RatFailed(a.status)
        ELSE IF ~Ok(b) THEN RatFailed(b.status) ELSE Ratio(a, b)

RatStrict(p, q, op(_, _)) == IF ~RatOk(p) THEN p ELSE IF ~RatOk(q) THEN q ELSE op(p, q)

\* phy_bigrat_set_i64, and phy_bigrat_read on two integers.
RatFromInts(n, d) == RatNormalize(FromInt(n), FromInt(d))

\* phy_bigrat_add: over the least common denominator.
RatAdd(p, q) ==
    RatStrict(p, q, LAMBDA l, r :
        LET gcd == Gcd(l.den, r.den)
            leftScale == DivideExact(r.den, gcd)
            rightScale == DivideExact(l.den, gcd)
        IN  RatNormalize(Add(Multiply(l.num, leftScale), Multiply(r.num, rightScale)),
                         Multiply(l.den, leftScale)))

RatNegate(q) == IF RatOk(q) THEN Ratio(Negate(q.num), q.den) ELSE q
RatSubtract(p, q) == RatAdd(p, RatNegate(q))

\* phy_bigrat_multiply: reduced crosswise first, so that the factors stay small.
RatMultiply(p, q) ==
    RatStrict(p, q, LAMBDA l, r :
        LET gcdLeft == Gcd(l.num, r.den)
            gcdRight == Gcd(r.num, l.den)
        IN  RatNormalize(Multiply(DivideExact(l.num, gcdLeft), DivideExact(r.num, gcdRight)),
                         Multiply(DivideExact(l.den, gcdRight), DivideExact(r.den, gcdLeft))))

\* phy_bigrat_reciprocal, phy_bigrat_divide
RatReciprocal(q) ==
    IF ~RatOk(q) THEN q ELSE IF RatIsZero(q) THEN RatFailed("domain")
    ELSE RatNormalize(q.den, q.num)
RatDivide(p, q) == RatMultiply(p, RatReciprocal(q))

\* phy_bigrat_pow_i32: a negative exponent swaps the parts before the power.
RatPower(q, exponent) ==
    IF ~RatOk(q) THEN q
    ELSE IF exponent < 0 /\ RatIsZero(q) THEN RatFailed("domain")
    ELSE IF exponent >= 0 THEN RatNormalize(Power(q.num, exponent), Power(q.den, exponent))
    ELSE RatNormalize(Power(q.den, -exponent), Power(q.num, -exponent))

\* phy_bigrat_compare: by cross multiplication, which may run out of limbs.
RatCompare(p, q) ==
    LET left == Multiply(p.num, q.den)
        right == Multiply(q.num, p.den)
    IN  IF Ok(left) /\ Ok(right) THEN [status |-> "ok", order |-> Compare(left, right)]
        ELSE [status |-> "memory", order |-> 0]

-----------------------------------------------------------------------------
(* Gaussian rationals: gaussian.c *)

Gaussian(re, im) == [re |-> re, im |-> im]
GaussOk(z) == RatOk(z.re) /\ RatOk(z.im)

GaussAdd(y, z) == Gaussian(RatAdd(y.re, z.re), RatAdd(y.im, z.im))
GaussSubtract(y, z) == Gaussian(RatSubtract(y.re, z.re), RatSubtract(y.im, z.im))
GaussNegate(z) == Gaussian(RatNegate(z.re), RatNegate(z.im))
GaussConjugate(z) == Gaussian(z.re, RatNegate(z.im))

\* fill_multiply
GaussMultiply(y, z) ==
    Gaussian(RatSubtract(RatMultiply(y.re, z.re), RatMultiply(y.im, z.im)),
             RatAdd(RatMultiply(y.re, z.im), RatMultiply(y.im, z.re)))

\* norm_into, fill_reciprocal, phy_gaussian_divide
GaussNorm(z) == RatAdd(RatMultiply(z.re, z.re), RatMultiply(z.im, z.im))
GaussReciprocal(z) ==
    LET norm == GaussNorm(z) IN
    IF RatOk(norm) /\ RatIsZero(norm) THEN Gaussian(RatFailed("domain"), RatFailed("domain"))
    ELSE Gaussian(RatDivide(z.re, norm), RatDivide(RatNegate(z.im), norm))
GaussDivide(y, z) == GaussMultiply(y, GaussReciprocal(z))

\* phy_gaussian_pow_i32: a negative exponent inverts the base first.
GaussPower(z, exponent) ==
    LET one == Gaussian(Whole(FromInt(1)), Whole(Zero))
        base == IF exponent < 0 THEN GaussReciprocal(z) ELSE z
        Step(st) == [result |-> IF st.left % 2 = 1 THEN GaussMultiply(st.result, st.factor)
                                ELSE st.result,
                     left   |-> st.left \div 2,
                     factor |-> IF st.left \div 2 # 0 THEN GaussMultiply(st.factor, st.factor)
                                ELSE st.factor]
    IN  While(LAMBDA st : st.left # 0, Step,
              [result |-> one, factor |-> base, left |-> IF exponent < 0 THEN -exponent ELSE exponent],
              IF exponent < 0 THEN -exponent ELSE exponent).result
=============================================================================
