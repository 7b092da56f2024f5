----------------------------- MODULE Curvature -----------------------------
(***************************************************************************)
(* Dense tensors in a chart (src/src/tensor/ops.c) and the curvature of a  *)
(* metric (src/src/gr/gr.c).  A tensor here is [n, variance, at]: the      *)
(* dimension of its chart, "lower" or "upper" for each slot, and what      *)
(* phy_tensor_component_expression reads at each tuple of indices.         *)
(* TensorSymmetry models how components are stored behind that.            *)
(***************************************************************************)
EXTENDS Scalars

Indices(n, rank) == [1 .. rank -> 0 .. (n - 1)]
Rank(t) == Len(t.variance)
Tensor(n, variance, at) == [status |-> "ok", n |-> n, variance |-> variance, at |-> at]
Refusal(status) == [status |-> status, n |-> 0, variance |-> <<>>, at |-> <<>>]
Ok(t) == t.status = "ok"
Lower(rank) == [slot \in 1 .. rank |-> "lower"]
Upper(rank) == [slot \in 1 .. rank |-> "upper"]

\* An index tuple with one slot changed.
With(index, slot, value) == [index EXCEPT ![slot] = value]
Without(index, a, b) ==
    Joined([slot \in DOMAIN index |-> IF slot \in {a, b} THEN <<>> ELSE <<index[slot]>>])

-----------------------------------------------------------------------------
(* ops.c *)

Minor(matrix, n, row, column) ==
    LET Skip(i, gone) == IF i < gone THEN i ELSE i + 1
    IN  [i \in Indices(n - 1, 2) |-> matrix[<<Skip(i[1], row), Skip(i[2], column)>>]]

\* determinant_recursive: along the first row.  Dimensions are at most four.
Expand(matrix, n, smaller(_)) ==
    SumOver(LAMBDA column : Times(Signed(matrix[<<0, column>>], IF column % 2 = 0 THEN 1 ELSE -1),
                                  smaller(Minor(matrix, n, 0, column))), n)
Determinant1(m) == m[<<0, 0>>]
Determinant2(m) == Expand(m, 2, Determinant1)
Determinant3(m) == Expand(m, 3, Determinant2)
Determinant(matrix, n) ==
    CASE n = 0 -> One
      [] n = 1 -> Determinant1(matrix)
      [] n = 2 -> Determinant2(matrix)
      [] n = 3 -> Determinant3(matrix)
      [] n = 4 -> Expand(matrix, 4, Determinant3)

\* phy_tensor_inverse_metric: the adjugate over the determinant.  A determinant
\* that vanishes at the origin has no expansion there, and counts as zero.
InverseMetric(g) ==
    LET det == Determinant(g.at, g.n)
        over == Evaluated(Reciprocal(det))
        Cofactor(i) == Signed(Determinant(Minor(g.at, g.n, i[2], i[1]), g.n - 1),
                              IF (i[1] + i[2]) % 2 = 0 THEN 1 ELSE -1)
    IN  IF g.variance # Lower(2) THEN Refusal("type")
        ELSE IF \E i \in Indices(g.n, 2) : g.at[i] # g.at[<<i[2], i[1]>>] THEN Refusal("assumption")
        ELSE IF ~Invertible(det) THEN Refusal("domain")
        ELSE Tensor(g.n, Upper(2), [i \in Indices(g.n, 2) |-> Times(Cofactor(i), over)])

\* change_slot: the new index is the metric's first.
ChangeSlot(t, slot, metric, from, to) ==
    IF t.variance[slot] # from \/ metric.variance # <<to, to>> THEN Refusal("type")
    ELSE Tensor(t.n, With(t.variance, slot, to),
                [i \in Indices(t.n, Rank(t)) |->
                   SumOver(LAMBDA e : Times(metric.at[<<i[slot], e>>], t.at[With(i, slot, e)]), t.n)])

RaiseSlot(t, slot, inverse) == ChangeSlot(t, slot, inverse, "lower", "upper")
LowerSlot(t, slot, metric) == ChangeSlot(t, slot, metric, "upper", "lower")

\* phy_tensor_contract
Contract(t, a, b) ==
    LET Source(index, e) ==
            LET before(slot) == Cardinality({s \in {a, b} : s < slot})
            IN  [slot \in 1 .. Rank(t) |-> IF slot \in {a, b} THEN e ELSE index[slot - before(slot)]]
    IN  IF t.variance[a] = t.variance[b] THEN Refusal("type")
        ELSE Tensor(t.n, Without(t.variance, a, b),
                    [i \in Indices(t.n, Rank(t) - 2) |-> SumOver(LAMBDA e : t.at[Source(i, e)], t.n)])

\* phy_tensor_partial
Partial(t, axis) == Tensor(t.n, t.variance, [i \in Indices(t.n, Rank(t)) |-> Diff(t.at[i], axis)])

-----------------------------------------------------------------------------
(* gr.c *)

\* The components a loop computes, and the others by the declared symmetry of
\* two slots: the larger of the two indices comes last.
BySlots(n, rank, a, b, sign, compute(_)) ==
    LET Ordered(i) == i[a] < i[b] \/ (sign = 1 /\ i[a] = i[b])
        computed == Evaluated([i \in {j \in Indices(n, rank) : Ordered(j)} |-> compute(i)])
        Swapped(i) == [i EXCEPT ![a] = i[b], ![b] = i[a]]
    IN  [i \in Indices(n, rank) |->
           IF Ordered(i) THEN computed[i]
           ELSE IF i[a] = i[b] THEN Zero ELSE Signed(computed[Swapped(i)], sign)]

\* christoffel
ChristoffelUnsigned(g, inverse) ==
    LET Symbol(i) ==
            SumOver(LAMBDA d : Times(Fraction(1, 2), Times(inverse.at[<<i[1], d>>],
                        Plus(Plus(Diff(g.at[<<d, i[3]>>], i[2]), Diff(g.at[<<d, i[2]>>], i[3])),
                             Diff(g.at[<<i[2], i[3]>>], d)))), g.n)
    IN  Tensor(g.n, <<"upper", "lower", "lower">>, BySlots(g.n, 3, 2, 3, 1, Symbol))
Christoffel(g, inverse) ==
    LET half == Fraction(1, 2)
        partial == Evaluated([axis \in 0 .. (g.n - 1) |-> Partial(g, axis).at])
        Symbol(i) ==
            SumOver(LAMBDA d : Times(half, Times(inverse.at[<<i[1], d>>],
                        Minus(Plus(partial[i[2]][<<d, i[3]>>], partial[i[3]][<<d, i[2]>>]),
                              partial[d][<<i[2], i[3]>>]))), g.n)
    IN  Tensor(g.n, <<"upper", "lower", "lower">>, BySlots(g.n, 3, 2, 3, 1, Symbol))

\* riemann_mixed
RiemannMixed(gamma) ==
    LET G(a, b, c) == gamma.at[<<a, b, c>>]
        Entry(i) ==
            LET a == i[1]  b == i[2]  c == i[3]  d == i[4] IN
            Plus(Minus(Diff(G(a, b, d), c), Diff(G(a, b, c), d)),
                 SumOver(LAMBDA e : Minus(Times(G(a, c, e), G(e, b, d)),
                                          Times(G(a, d, e), G(e, b, c))), gamma.n))
    IN  Tensor(gamma.n, <<"upper", "lower", "lower", "lower">>,
               BySlots(gamma.n, 4, 3, 4, -1, Entry))

\* The sum of the products of two tensors' components: scalar_curvature, and
\* the last loops of phy_gr_kretschmann and ricci_squared.
FullContraction(s, t) ==
    LET all == Indices(s.n, Rank(s))
        Flat(k) == [slot \in 1 .. Rank(s) |-> (k \div s.n ^ (Rank(s) - slot)) % s.n]
    IN  SumOver(LAMBDA k : Times(s.at[Flat(k)], t.at[Flat(k)]), s.n ^ Rank(s))

\* einstein_tensor
EinsteinTensor(g, ricci, scalar) ==
    Tensor(g.n, Lower(2),
           BySlots(g.n, 2, 1, 2, 1,
                   LAMBDA i : Minus(ricci.at[i], Times(Fraction(1, 2), Times(scalar, g.at[i])))))

\* phy_gr_compute
Compute(g) ==
    LET inverse == Evaluated(InverseMetric(g))
        gamma == Evaluated(Christoffel(g, inverse))
        mixed == Evaluated(RiemannMixed(gamma))
        ricci == Evaluated(Contract(mixed, 1, 3))
        scalar == Evaluated(FullContraction(inverse, ricci))
    IN  IF ~Ok(inverse) THEN [status |-> inverse.status]
        ELSE [status |-> "ok", metric |-> g, inverse |-> inverse, gamma |-> gamma, mixed |-> mixed,
              riemann |-> LowerSlot(mixed, 1, g), ricci |-> ricci, scalar |-> scalar,
              einstein |-> EinsteinTensor(g, ricci, scalar)]

\* inverse_is_diagonal, kretschmann_diagonal
InverseIsDiagonal(r) ==
    \A i \in Indices(r.metric.n, 2) : i[1] # i[2] => r.inverse.at[i] = Zero
KretschmannDiagonal(r) ==
    LET n == r.metric.n
        Weight(slot, i) == r.inverse.at[<<i[slot], i[slot]>>]
        Flat(k) == [slot \in 1 .. 4 |-> (k \div n ^ (4 - slot)) % n]
        Term(k) == LET i == Flat(k) IN
                   IF r.riemann.at[i] = Zero THEN Zero
                   ELSE Across(LAMBDA product, slot : Times(product, Weight(slot, i)),
                               Times(r.riemann.at[i], r.riemann.at[i]), 1, 4)
    IN  SumOver(Term, n ^ 4)

\* phy_gr_kretschmann: three raises, the mixed tensor has its first index up.
RiemannUpper(r) == RaiseSlot(RaiseSlot(RaiseSlot(r.mixed, 2, r.inverse), 3, r.inverse), 4, r.inverse)
KretschmannTwoRaises(r) ==
    LET upper == RaiseSlot(RaiseSlot(r.mixed, 2, r.inverse), 3, r.inverse)
    IN  FullContraction(r.riemann, Evaluated(upper))
KretschmannGeneral(r) == FullContraction(r.riemann, Evaluated(RiemannUpper(r)))

Kretschmann(r) == IF InverseIsDiagonal(r) THEN KretschmannDiagonal(r) ELSE KretschmannGeneral(r)

\* The entry build_weyl computes for increasing pairs in increasing order.
WeylEntry(r, i) ==
    LET n == r.metric.n
        a == i[1]  b == i[2]  c == i[3]  d == i[4]
        G(x, y) == r.metric.at[<<x, y>>]
        R(x, y) == r.ricci.at[<<x, y>>]
        correction == Plus(Minus(Minus(Times(G(a, c), R(d, b)), Times(G(a, d), R(c, b))),
                                 Times(G(b, c), R(d, a))), Times(G(b, d), R(c, a)))
        wedge == Minus(Times(G(a, c), G(b, d)), Times(G(a, d), G(b, c)))
    IN  Plus(Minus(r.riemann.at[i], Times(Fraction(1, n - 2), correction)),
             Times(Times(r.scalar, Fraction(1, (n - 1) * (n - 2))), wedge))

\* build_weyl: the Riemann symmetries give the other components.
Weyl(r) ==
    LET n == r.metric.n
        Sorted(x, y) == IF x < y THEN <<x, y>> ELSE <<y, x>>
        Earlier(p, q) == p[1] < q[1] \/ (p[1] = q[1] /\ p[2] <= q[2])
        Representative(i) ==
            LET p == Sorted(i[1], i[2])  q == Sorted(i[3], i[4])
            IN  IF Earlier(p, q) THEN p \o q ELSE q \o p
        Sign(i) == (IF i[1] < i[2] THEN 1 ELSE -1) * (IF i[3] < i[4] THEN 1 ELSE -1)
        Forced(i) == i[1] = i[2] \/ i[3] = i[4]
        computed == Evaluated([i \in {Representative(j) : j \in {k \in Indices(n, 4) : ~Forced(k)}} |->
                                 WeylEntry(r, i)])
    IN  Tensor(n, Lower(4),
               [i \in Indices(n, 4) |->
                  IF n < 3 \/ Forced(i) THEN Zero ELSE Signed(computed[Representative(i)], Sign(i))])

\* ricci_squared, phy_gr_weyl_squared
RicciSquared(r) == FullContraction(r.ricci, RaiseSlot(RaiseSlot(r.ricci, 1, r.inverse), 2, r.inverse))
WeylSquared(r) ==
    LET n == r.metric.n IN
    IF n < 3 THEN Zero
    ELSE Plus(Kretschmann(r),
              Plus(Times(Fraction(-4, n - 2), RicciSquared(r)),
                   Times(Fraction(2, (n - 1) * (n - 2)), Times(r.scalar, r.scalar))))

\* phy_gr_geodesic_acceleration
GeodesicAcceleration(r, v) ==
    IF v.variance # Upper(1) THEN Refusal("type")
    ELSE Tensor(v.n, Upper(1),
                [i \in Indices(v.n, 1) |->
                   Negated(SumOver(LAMBDA b : SumOver(LAMBDA c :
                       Times(r.gamma.at[<<i[1], b, c>>], Times(v.at[<<b>>], v.at[<<c>>])), v.n), v.n))])

\* phy_gr_covariant_derivative: the derivative's index comes first.
CovariantDerivative(r, t) ==
    LET Connection(slot, base, axis, e) ==
            IF t.variance[slot] = "upper"
            THEN Times(r.gamma.at[<<base[slot], axis, e>>], t.at[With(base, slot, e)])
            ELSE Negated(Times(r.gamma.at[<<e, axis, base[slot]>>], t.at[With(base, slot, e)]))
        Entry(i) ==
            LET axis == i[1]  base == SubSeq(i, 2, Len(i)) IN
            Across(LAMBDA sum, slot : Plus(sum, SumOver(LAMBDA e : Connection(slot, base, axis, e), t.n)),
                   Diff(t.at[base], axis), 1, Rank(t))
    IN  IF Rank(t) + 1 > 4 THEN Refusal("unsupported")
        ELSE Tensor(t.n, <<"lower">> \o t.variance, [i \in Indices(t.n, Rank(t) + 1) |-> Entry(i)])
=============================================================================
