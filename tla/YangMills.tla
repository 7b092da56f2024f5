----------------------------- MODULE YangMills -----------------------------
(***************************************************************************)
(* Forms with values in a Lie algebra, and the gauge field made of them:   *)
(* src/src/qft/yang_mills.c.  Such a form is [status, algebra, manifold,   *)
(* chart, degree, parts], a form for each generator.  An operation         *)
(* publishes its result last, so a refusal is only a status.               *)
(***************************************************************************)
EXTENDS Lie

\* phy_lie_form_create, with the forms that replace its zeros.
LieForm(g, m, chart, degree, part(_)) ==
    IF chart \notin DOMAIN m.charts \/ degree > m.n THEN [status |-> "invalid"]
    ELSE [status |-> "ok", algebra |-> g, manifold |-> m, chart |-> chart, degree |-> degree,
          parts |-> Evaluated([a \in Generators(g.n) |-> Evaluated(part(a))])]
ZeroForm(m, chart, degree) == Form(m, chart, degree, [i \in Increasing(m.n, degree) |-> Zero])
LieFormLike(form, degree, part(_)) == LieForm(form.algebra, form.manifold, form.chart, degree, part)

\* compatible
Compatible(left, right) ==
    left.algebra = right.algebra /\ left.manifold = right.manifold /\ left.chart = right.chart

LieFormAdd(left, right) ==
    IF ~Compatible(left, right) \/ left.degree # right.degree THEN FormRefusal("type")
    ELSE LieFormLike(left, left.degree, LAMBDA a : FormAdd(left.parts[a], right.parts[a]))
LieFormScale(form, scalar) == LieFormLike(form, form.degree, LAMBDA a : FormScale(form.parts[a], scalar))

\* phy_lie_form_is_zero, phy_lie_form_equivalent; up to an order.
LieFormIsZero(form, order) == \A a \in DOMAIN form.parts : FormIsZero(form.parts[a], order)
LieFormEquivalent(left, right, order) ==
    \A a \in DOMAIN left.parts : FormEquivalent(left.parts[a], right.parts[a], order)

\* phy_lie_form_bracket_wedge: [A, B]^c is f_ab^c A^a /\ B^b, over the pairs in
\* order and without those whose constant is zero.
BracketWedge(left, right) ==
    LET g == left.algebra
        degree == left.degree + right.degree
        Sum(out) ==
            Through(LAMBDA sum, t :
                        LET structure == g.f[<<t[1], t[2], out>>] IN
                        IF structure = Zero THEN sum
                        ELSE FormAdd(sum, FormScale(Wedge(left.parts[t[1]], right.parts[t[2]]), structure)),
                    ZeroForm(left.manifold, left.chart, degree),
                    [k \in 1 .. (g.n * g.n) |-> <<(k - 1) \div g.n, (k - 1) % g.n>>])
    IN  IF ~Compatible(left, right) THEN FormRefusal("type")
        ELSE IF degree > left.manifold.n THEN FormRefusal("domain")
        ELSE LieFormLike(left, degree, Sum)

\* phy_lie_form_exterior_derivative
LieExteriorDerivative(form) ==
    IF form.degree >= form.manifold.n THEN FormRefusal("domain")
    ELSE LieFormLike(form, form.degree + 1, LAMBDA a : ExteriorDerivative(form.parts[a]))

\* phy_yang_mills_covariant_derivative: dB + g [A, B].
GaugeDerivative(connection, coupling, form) ==
    LET derivative == LieExteriorDerivative(form) IN
    IF ~Compatible(connection, form) \/ connection.degree # 1 THEN FormRefusal("type")
    ELSE IF derivative.status # "ok" THEN derivative
    ELSE LieFormAdd(derivative, LieFormScale(BracketWedge(connection, form), coupling))

\* Variant: the bracket of the connection with itself counts in full.
FieldStrengthWhole(connection, coupling) ==
    IF connection.degree # 1 THEN FormRefusal("type")
    ELSE IF connection.manifold.n < 2 THEN FormRefusal("domain")
    ELSE LieFormAdd(LieExteriorDerivative(connection), LieFormScale(BracketWedge(connection, connection), coupling))

\* phy_yang_mills_field_strength: dA + (g/2) [A, A].
FieldStrength(connection, coupling) ==
    LET derivative == LieExteriorDerivative(connection)
        bracket == BracketWedge(connection, connection)
    IN  IF connection.degree # 1 THEN FormRefusal("type")
        ELSE IF derivative.status # "ok" THEN derivative
        ELSE LieFormAdd(derivative, LieFormScale(bracket, Times(Fraction(1, 2), coupling)))

\* phy_yang_mills_gauge_variation_connection, _curvature
VariationOfConnection(connection, coupling, parameter) ==
    IF parameter.degree # 0 THEN FormRefusal("type") ELSE GaugeDerivative(connection, coupling, parameter)
VariationOfCurvature(curvature, coupling, parameter) ==
    IF ~Compatible(curvature, parameter) \/ curvature.degree # 2 \/ parameter.degree # 0 THEN FormRefusal("type")
    ELSE LieFormScale(BracketWedge(curvature, parameter), coupling)

\* phy_yang_mills_bianchi
BianchiResidual(connection, coupling) ==
    LET curvature == FieldStrength(connection, coupling) IN
    IF curvature.status # "ok" THEN curvature ELSE GaugeDerivative(connection, coupling, curvature)

\* phy_yang_mills_lagrangian: minus a half of k_ab F^a /\ *F^b, with Killing's
\* form or one that is given; the first dual that is refused ends it.
Lagrangian(curvature, metric, inner(_, _)) ==
    LET g == curvature.algebra
        Sum == Through(LAMBDA sum, t :
                           LET k == inner(t[1], t[2]) IN
                           IF sum.status # "ok" \/ k = Zero THEN sum
                           ELSE LET dual == HodgeMetric(curvature.parts[t[2]], metric) IN
                                IF dual.status # "ok" THEN dual
                                ELSE FormAdd(sum, FormScale(Wedge(curvature.parts[t[1]], dual), k)),
                       ZeroForm(curvature.manifold, curvature.chart, curvature.manifold.n),
                       [i \in 1 .. (g.n * g.n) |-> <<(i - 1) \div g.n, (i - 1) % g.n>>])
    IN  IF curvature.degree # 2 THEN FormRefusal("type")
        ELSE IF Sum.status # "ok" THEN Sum ELSE FormScale(Sum, Fraction(-1, 2))
=============================================================================
