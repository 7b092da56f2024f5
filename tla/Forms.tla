------------------------------- MODULE Forms -------------------------------
(***************************************************************************)
(* Manifolds and differential forms: src/src/geom (manifold.c, form.c,     *)
(* exterior.c, metric.c).  A manifold is [n, orientation, signature,       *)
(* charts]; a form is [manifold, chart, degree, at] with a component at    *)
(* every increasing tuple of indices.  A refused operation returns a form  *)
(* of that status; the code builds its result first and publishes it last, *)
(* so that nothing else changes.                                           *)
(***************************************************************************)
EXTENDS Curvature

CONSTANTS MaxDimension,   \* PHY_MANIFOLD_MAX_DIM
          MaxCharts       \* PHY_MANIFOLD_MAX_CHARTS

ASSUME ManifoldAssumption == MaxDimension \in 1 .. Axes /\ MaxCharts \in Nat \ {0}

-----------------------------------------------------------------------------
(* manifold.c *)

\* phy_manifold_create; no signature means Euclidean.
Manifold(n, orientation, signature) ==
    IF n = 0 THEN [status |-> "invalid"]
    ELSE IF n > MaxDimension THEN [status |-> "unsupported"]
    ELSE IF \E axis \in 0 .. (n - 1) : signature[axis] \notin {-1, 1} THEN [status |-> "invalid"]
    ELSE [status |-> "ok", n |-> n, orientation |-> orientation, signature |-> signature,
          charts |-> <<>>]

\* phy_manifold_metric_sign
MetricSign(m) == IF Cardinality({axis \in 0 .. (m.n - 1) : m.signature[axis] < 0}) % 2 = 0 THEN 1 ELSE -1

\* phy_manifold_add_chart
AddChart(m, chart) ==
    IF chart.n # m.n \/ \E i \in DOMAIN m.charts : m.charts[i] = chart THEN [m EXCEPT !.status = "invalid"]
    ELSE IF Len(m.charts) >= MaxCharts THEN [m EXCEPT !.status = "unsupported"]
    ELSE [m EXCEPT !.charts = Append(@, chart)]

-----------------------------------------------------------------------------
(* Combinatorics *)

\* phy_geom_binomial: exact at every step.
Binomial(n, k) ==
    IF k > n THEN 0 ELSE Across(LAMBDA c, i : (c * (n - i)) \div (i + 1), 1, 0, k - 1)

\* The step of phy_geom_combination_at: the last slot below its ceiling moves
\* on, and those after it follow as closely as they can.
Successor(n, k, tuple) ==
    LET movable == {slot \in 1 .. k : tuple[slot] < n - k + slot - 1}
        slot == CHOOSE s \in movable : \A t \in movable : t <= s
    IN  [s \in 1 .. k |-> IF s < slot THEN tuple[s] ELSE tuple[slot] + 1 + s - slot]

CombinationsOf(n, k) ==
    Across(LAMBDA list, i : IF i = 0 THEN <<[slot \in 1 .. k |-> slot - 1]>>
                            ELSE Append(list, Successor(n, k, list[i])),
           <<>>, 0, Binomial(n, k) - 1)

\* All combinations, tabulated; phy_geom_combination_index finds one in its list.
Combinations == [n \in 0 .. Axes |-> [k \in 0 .. n |-> CombinationsOf(n, k)]]
Increasing(n, k) == {Combinations[n][k][i] : i \in 1 .. Len(Combinations[n][k])}

\* phy_geom_sort_parity: 0 for a repeated value, else the parity of the sort.
Inversions(tuple) ==
    Cardinality({p \in (1 .. Len(tuple)) \X (1 .. Len(tuple)) : p[1] < p[2] /\ tuple[p[1]] > tuple[p[2]]})
Repeats(tuple) == \E p \in (1 .. Len(tuple)) \X (1 .. Len(tuple)) : p[1] < p[2] /\ tuple[p[1]] = tuple[p[2]]
SortParity(tuple) == IF Repeats(tuple) THEN 0 ELSE IF Inversions(tuple) % 2 = 0 THEN 1 ELSE -1
Elements(tuple) == {tuple[slot] : slot \in 1 .. Len(tuple)}
Sorted(n, tuple) == CHOOSE c \in Increasing(n, Len(tuple)) : Elements(c) = Elements(tuple)

\* complement_of
ComplementOf(n, tuple) ==
    CHOOSE c \in Increasing(n, n - Len(tuple)) : Elements(c) \cap Elements(tuple) = {}

-----------------------------------------------------------------------------
(* form.c *)

\* phy_form_create, with its components.
Form(m, chart, degree, at) ==
    IF chart \notin DOMAIN m.charts \/ degree > m.n THEN [status |-> "invalid"]
    ELSE [status |-> "ok", manifold |-> m, chart |-> chart, degree |-> degree, at |-> at]
Like(form, degree, component(_)) ==
    Form(form.manifold, form.chart, degree,
         [i \in Increasing(form.manifold.n, degree) |-> component(i)])
FormRefusal(status) == [status |-> status]
Dimension(form) == form.manifold.n
IndexTuples(form) == [1 .. form.degree -> 0 .. (Dimension(form) - 1)]

\* phy_form_get: any order of the indices.
FormGet(form, tuple) ==
    LET sign == SortParity(tuple)
    IN  IF sign = 0 THEN Zero ELSE Signed(form.at[Sorted(Dimension(form), tuple)], sign)

\* phy_form_set: a repeated index can only be set to zero.
FormSet(form, tuple, value) ==
    LET sign == SortParity(tuple)
    IN  IF sign # 0 THEN [form EXCEPT !.at[Sorted(Dimension(form), tuple)] = Signed(value, sign)]
        ELSE IF value = Zero THEN form ELSE FormRefusal("assumption")

\* phy_geom_check_pair
SamePlace(left, right) == left.manifold = right.manifold /\ left.chart = right.chart

\* combine, phy_form_scale
Combine(left, right, op(_, _)) ==
    IF ~SamePlace(left, right) \/ left.degree # right.degree THEN FormRefusal("type")
    ELSE Like(left, left.degree, LAMBDA i : op(left.at[i], right.at[i]))
FormAdd(left, right) == Combine(left, right, Plus)
FormSub(left, right) == Combine(left, right, Minus)
FormScale(form, scalar) == Like(form, form.degree, LAMBDA i : Times(scalar, form.at[i]))

\* phy_form_is_zero, phy_form_equivalent; up to an order.
FormIsZero(form, order) == \A i \in DOMAIN form.at : Agree(form.at[i], Zero, order)
FormEquivalent(left, right, order) ==
    left.degree = right.degree /\ \A i \in DOMAIN left.at : Agree(left.at[i], right.at[i], order)

-----------------------------------------------------------------------------
(* exterior.c *)

Selected(tuple, slots) == [s \in 1 .. Len(slots) |-> tuple[slots[s] + 1]]

\* phy_form_wedge: a component is a sum over the ways to share its indices
\* between the factors.
Wedge(left, right) ==
    LET p == left.degree
        total == p + right.degree
        Term(tuple, chosen) ==
            LET rest == ComplementOf(total, chosen)
            IN  Signed(Times(left.at[Selected(tuple, chosen)], right.at[Selected(tuple, rest)]),
                       SortParity(chosen \o rest))
    IN  IF ~SamePlace(left, right) THEN FormRefusal("type")
        ELSE IF total > Dimension(left) THEN FormRefusal("domain")
        ELSE Like(left, total,
                  LAMBDA tuple : Through(LAMBDA sum, chosen : Plus(sum, Term(tuple, chosen)), Zero,
                                         Combinations[total][p]))

Omitting(tuple, slot) == Joined([s \in 1 .. Len(tuple) |-> IF s = slot THEN <<>> ELSE <<tuple[s]>>])

\* phy_form_exterior_derivative
ExteriorDerivativeUnsigned(form) ==
    IF form.degree >= Dimension(form) THEN FormRefusal("domain")
    ELSE Like(form, form.degree + 1,
              LAMBDA tuple : Across(LAMBDA sum, slot : Plus(sum, Diff(form.at[Omitting(tuple, slot)], tuple[slot])),
                                    Zero, 1, form.degree + 1))
ExteriorDerivative(form) ==
    LET Term(tuple, slot) ==
            Signed(Diff(form.at[Omitting(tuple, slot)], tuple[slot]), IF slot % 2 = 1 THEN 1 ELSE -1)
    IN  IF form.degree >= Dimension(form) THEN FormRefusal("domain")
        ELSE Like(form, form.degree + 1,
                  LAMBDA tuple : Across(LAMBDA sum, slot : Plus(sum, Term(tuple, slot)), Zero,
                                        1, form.degree + 1))

\* phy_form_interior_product
InteriorProduct(form, v) ==
    LET Term(tuple, axis) ==
            LET whole == <<axis>> \o tuple
                sign == SortParity(whole)
            IN  IF sign = 0 THEN Zero
                ELSE Signed(Times(v.at[<<axis>>], form.at[Sorted(Dimension(form), whole)]), sign)
    IN  IF v.variance # Upper(1) \/ v.n # Dimension(form) THEN FormRefusal("type")
        ELSE IF form.degree = 0 THEN FormRefusal("domain")
        ELSE Like(form, form.degree - 1,
                  LAMBDA tuple : SumOver(LAMBDA axis : Term(tuple, axis), Dimension(form)))

\* phy_form_lie_derivative: Cartan's formula, its terms where they exist.
LieDerivative(form, v) ==
    LET inner == ExteriorDerivative(InteriorProduct(form, v))
        outer == InteriorProduct(ExteriorDerivative(form), v)
    IN  IF v.variance # Upper(1) \/ v.n # Dimension(form) THEN FormRefusal("type")
        ELSE IF form.degree > 0 /\ form.degree < Dimension(form) THEN FormAdd(inner, outer)
        ELSE IF form.degree > 0 THEN inner
        ELSE IF form.degree < Dimension(form) THEN outer ELSE FormRefusal("corrupt")

\* The sign of the source indices followed by the dual ones.
DualUnsigned(n, source) == 1
DualSign(n, source) == SortParity(source \o ComplementOf(n, source))

\* phy_form_hodge: an orthonormal coframe, so raising an index is its sign.
Hodge(form) ==
    LET m == form.manifold
        Component(dual) ==
            LET source == ComplementOf(m.n, dual)
                raising == Across(LAMBDA s, slot : s * m.signature[source[slot]], 1, 1, form.degree)
            IN  Signed(form.at[source], DualSign(m.n, source) * raising * m.orientation)
    IN  IF m.orientation = 0 THEN FormRefusal("assumption")
        ELSE Like(form, m.n - form.degree, Component)

\* phy_form_volume
VolumeForm(m, chart) ==
    IF m.orientation = 0 THEN FormRefusal("assumption")
    ELSE Form(m, chart, m.n, [i \in Increasing(m.n, m.n) |-> Constant(m.orientation)])

-----------------------------------------------------------------------------
(* metric.c *)

\* raised_component: every index of the form, by the inverse metric.
RaisedComponent(form, inverse, upper) ==
    LET Flat(k) == [slot \in 1 .. form.degree |-> (k \div Dimension(form) ^ (form.degree - slot)) % Dimension(form)]
        Term(lower) == Across(LAMBDA product, slot : Times(product, inverse.at[<<upper[slot], lower[slot]>>]),
                              FormGet(form, lower), 1, form.degree)
    IN  SumOver(LAMBDA k : Term(Flat(k)), Dimension(form) ^ form.degree)

\* The sign a number has; residues up to half the prime stand for the positive
\* numbers.  exact_numeric_sign knows no other sign.
IsNumeric(a) == a = Constant(a[1])
NumericSign(a) == IF a[1] = 0 THEN 0 ELSE IF 2 * a[1] < Prime THEN 1 ELSE -1

\* phy_form_hodge_metric
HodgeMetric(form, metric) ==
    LET m == form.manifold
        inverse == Evaluated(InverseMetric(metric))
        det == Determinant(metric.at, metric.n)
        root == Evaluated(Root(Signed(det, MetricSign(m))))
        Component(dual) ==
            LET source == ComplementOf(m.n, dual)
            IN  Signed(Times(root, RaisedComponent(form, inverse, source)),
                       DualSign(m.n, source) * m.orientation)
    IN  IF m.orientation = 0 THEN FormRefusal("assumption")
        ELSE IF metric.n # m.n \/ metric.variance # Lower(2) THEN FormRefusal("type")
        ELSE IF ~Ok(inverse) THEN FormRefusal(inverse.status)
        ELSE IF IsNumeric(det) /\ NumericSign(det) # MetricSign(m) THEN FormRefusal("assumption")
        ELSE Like(form, m.n - form.degree, Component)

\* phy_form_volume_metric: the dual of one.
VolumeMetric(m, chart, metric) ==
    HodgeMetric(Form(m, chart, 0, [i \in Increasing(m.n, 0) |-> One]), metric)
=============================================================================
