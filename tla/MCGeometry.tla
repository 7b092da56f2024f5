----------------------------- MODULE MCGeometry -----------------------------
(* Forms and curvature on bounded inputs.  A state is one input; a step      *)
(* chooses it, an operand at a time, and another concludes with it: the      *)
(* properties are about that step.  What the input names is computed in the  *)
(* property.                                                                 *)
EXTENDS MCQuantum

Init == case = [kind |-> "none"]

-----------------------------------------------------------------------------
(* Inputs *)

Shifted(axis) == Plus(One, X(axis))
Square(a) == Times(a, a)

Diagonal(n, entry(_)) ==
    Tensor(n, Lower(2), [i \in Indices(n, 2) |-> IF i[1] = i[2] THEN entry(i[1]) ELSE Zero])
Mixed(n, entry(_), off) ==
    Tensor(n, Lower(2), [i \in Indices(n, 2) |-> IF i[1] = i[2] THEN entry(i[1])
                                                 ELSE IF i[1] + i[2] = 1 THEN off ELSE Zero])

\* Polar coordinates, a sphere of curvature one to the order kept, a metric in
\* three coordinates that is not diagonal, a static one in four with the shape
\* of Schwarzschild's, one conformally flat, one in four that is not diagonal.
Polar == Diagonal(2, LAMBDA a : IF a = 0 THEN One ELSE Square(Shifted(0)))
Round == Diagonal(2, LAMBDA a : IF a = 0 THEN One ELSE Minus(One, Square(X(0))))
Skew == Mixed(3, LAMBDA a : IF a = 2 THEN Plus(Shifted(0), Times(X(0), X(1))) ELSE Plus(Constant(2), Times(X(2), X(a))),
              Plus(X(0), X(2)))
Static == LET f == Minus(Constant(3), Reciprocal(Shifted(0))) IN
          Diagonal(4, LAMBDA a : CASE a = 0 -> Reciprocal(f)
                                   [] a = 1 -> Square(Shifted(0))
                                   [] a = 2 -> Times(Square(Shifted(0)), Square(Shifted(1)))
                                   [] a = 3 -> Negated(f))
Conformal == LET f == Plus(Shifted(0), Times(X(1), X(2))) IN
             Diagonal(4, LAMBDA a : IF a = 3 THEN Negated(f) ELSE f)
Twisted == Mixed(4, LAMBDA a : IF a = 3 THEN Shifted(1) ELSE Constant(2), X(3))

Metrics == [polar |-> Polar, round |-> Round, skew |-> Skew, static |-> Static,
            conformal |-> Conformal, twisted |-> Twisted]

ChooseMetric ==
    /\ case.kind = "none"
    /\ \E name \in {"polar", "round", "skew", "static", "conformal", "twisted"} :
         case' = [kind |-> "metric", name |-> name]

\* Components and fields that differ from one another, by a number.
Spaces == {Space(n, o, s) : n \in {2}, o \in {0, -1}, s \in {Lorentzian(2)}}
          \cup {Space(3, 1, Euclidean(3)), Space(3, -1, Lorentzian(3)), Space(4, 1, Lorentzian(4))}
Filled(m, degree, seed) ==
    Form(m, 1, degree, [i \in Increasing(m.n, degree) |->
                          Field(Across(LAMBDA code, slot : m.n * code + i[slot], seed, 1, degree))])
Vector(n) == Tensor(n, Upper(1), [i \in Indices(n, 1) |-> Field(5 * i[1] + 3)])

ChooseForm ==
    /\ case.kind = "none"
    /\ \E m \in Spaces : \E degree \in 0 .. m.n : \E seed \in {1, 5} :
         case' = [kind |-> "form", m |-> m, degree |-> degree, seed |-> seed]
ChooseSecond ==
    /\ case.kind = "form"
    /\ \E degree \in 0 .. case.m.n :
         case' = [kind |-> "forms", m |-> case.m, degree |-> case.degree, seed |-> case.seed, second |-> degree]

\* The input has been looked at; the next choice starts afresh.
Conclude == case.kind # "none" /\ case' = [kind |-> "none"]

Next == Conclude \/ ChooseMetric \/ ChooseForm \/ ChooseSecond \/ ScalarNext

Spec == Init /\ [][Next]_case

-----------------------------------------------------------------------------
(* Curvature *)

Everywhere(t, order) == \A i \in DOMAIN t.at : Agree(t.at[i], Zero, order)

\* The connection is metric, Riemann has its symmetries and satisfies Bianchi's
\* first identity, Einstein's tensor has no divergence and a velocity keeps its
\* length while it accelerates along a geodesic: the signs and index
\* positions of christoffel, riemann_mixed, einstein_tensor, change_slot and
\* covariant_derivative agree with one another.
CurvatureIsConsistent(r) ==
    LET n == r.metric.n
        R(i) == r.riemann.at[i]
        K == Order - 2
        upper == Evaluated(RaiseSlot(r.einstein, 1, r.inverse))
        divergence == Evaluated(Contract(CovariantDerivative(r, upper), 1, 2))
    IN  /\ Everywhere(CovariantDerivative(r, r.metric), Order - 1)
        /\ \A i \in Indices(n, 4) :
             LET a == i[1]  b == i[2]  c == i[3]  d == i[4] IN
             /\ Agree(R(i), Negated(R(<<b, a, c, d>>)), K)
             /\ Agree(R(i), R(<<c, d, a, b>>), K)
             /\ Agree(Plus(R(i), Plus(R(<<a, c, d, b>>), R(<<a, d, b, c>>))), Zero, K)
        /\ Everywhere(divergence, Order - 3)
        /\ LET v == Tensor(n, Upper(1), [i \in Indices(n, 1) |-> Constant(i[1] + 2)])
               acceleration == GeodesicAcceleration(r, v)
               V(a) == v.at[<<a>>]
               Lengthens(c) == SumOver(LAMBDA a : SumOver(LAMBDA b : Times(Diff(r.metric.at[<<a, b>>], c), Times(V(a), V(b))), n), n)
               Bends(a) == SumOver(LAMBDA b : Times(r.metric.at[<<a, b>>], Times(V(a), acceleration.at[<<b>>])), n)
           IN  Agree(Plus(SumOver(LAMBDA c : Times(V(c), Lengthens(c)), n), Scaled(2, SumOver(Bends, n))), Zero, Order - 1)

\* The scalars do not depend on the way they are computed: the short cut of a
\* diagonal metric gives the Kretschmann scalar of the general case, Weyl's
\* tensor is free of traces and vanishes where it must, and its square from the
\* other scalars is its contraction with itself.
InvariantsAgree(r) ==
    LET n == r.metric.n
        K == Order - 2
        weyl == Evaluated(Weyl(r))
        Raised(t, slots) == Through(LAMBDA u, slot : Evaluated(RaiseSlot(u, slot, r.inverse)), t, slots)
        once == Raised(weyl, <<1>>)
    IN  /\ Agree(Kretschmann(r), KretschmannGeneral(r), K)
        /\ Everywhere(Contract(once, 1, 3), K)
        /\ n = 3 \/ r.metric = Conformal => Everywhere(weyl, K)
        /\ r.metric = Polar => Everywhere(r.riemann, K)
        /\ Agree(WeylSquared(r), FullContraction(weyl, Raised(once, <<2, 3, 4>>)), K)

-----------------------------------------------------------------------------
(* Forms *)

Graded(n, sign) == IF n % 2 = 0 THEN 1 ELSE sign
SignedForm(form, sign) == Like(form, form.degree, LAMBDA i : Signed(form.at[i], sign))
Same(left, right, order) == left.status = "ok" /\ right.status = "ok" /\ FormEquivalent(left, right, order)
d(form) == Evaluated(ExteriorDerivative(form))
i(form) == Evaluated(InteriorProduct(form, Vector(Dimension(form))))
L(form) == Evaluated(LieDerivative(form, Vector(Dimension(form))))

\* The forms that were chosen.
First == Filled(case.m, case.degree, case.seed)
Second == Filled(case.m, case.second, 2)

\* The derivative of a derivative is zero, and so is a double contraction; a
\* component has the sign of the order its indices are read in; a product
\* commutes up to a sign; and d, the contraction and the Lie derivative each
\* follow their rule on products.
FormsObeyCalculus ==
    /\ case.kind = "form" =>
         LET a == Evaluated(First)  n == Dimension(a)  p == a.degree IN
         /\ p + 2 <= n => FormIsZero(d(d(a)), Order - 2)
         /\ p >= 2 => FormIsZero(i(i(a)), Order)
         /\ p < n => Same(L(d(a)), d(L(a)), Order - 2)
         /\ \A tuple \in IndexTuples(a) :
              LET set == FormSet(a, tuple, X(0)) IN
              IF Repeats(tuple) THEN set.status = "assumption" /\ FormGet(a, tuple) = Zero
              ELSE /\ \A s \in 1 .. p - 1 : LET swapped == [tuple EXCEPT ![s] = tuple[s + 1], ![s + 1] = tuple[s]]
                                           IN FormGet(a, swapped) = Negated(FormGet(a, tuple))
                   /\ FormGet(set, tuple) = X(0)
    /\ case.kind = "forms" =>
         LET a == Evaluated(First)  b == Evaluated(Second)
             n == Dimension(a)  p == a.degree  q == b.degree
             ab == Evaluated(Wedge(a, b))
         IN  IF p + q > n THEN ab.status = "domain"
             ELSE /\ Same(ab, SignedForm(Wedge(b, a), Graded(p * q, -1)), Order)
                  /\ p + q < n =>
                       Same(d(ab), FormAdd(Wedge(d(a), b), SignedForm(Wedge(a, d(b)), Graded(p, -1))), Order - 1)
                  /\ p > 0 /\ q > 0 =>
                       Same(i(ab), FormAdd(Wedge(i(a), b), SignedForm(Wedge(a, i(b)), Graded(p, -1))), Order)
                  /\ Same(L(ab), FormAdd(Wedge(L(a), b), Wedge(a, L(b))), Order - 1)

\* A metric of the signature of a manifold, neither diagonal nor constant.
MetricOf(m) ==
    Mixed(m.n, LAMBDA a : IF m.signature[a] < 0 THEN Plus(Constant(-1), X(0)) ELSE Plus(Constant(1), X(a)), X(1))
Flat(m) == Diagonal(m.n, LAMBDA a : Constant(m.signature[a]))

\* The dual of a dual is the form up to the sign its degree and the signature
\* fix; a product with a dual is symmetric; the dual of a metric is that of the
\* coframe where both apply; there is none without an orientation, nor for a
\* metric whose determinant has the other sign.
HodgeIsConsistent ==
    case.kind \in {"form", "forms"} =>
    LET a == Evaluated(First)  b == Evaluated(Second)  m == a.manifold  n == m.n  p == a.degree
        g == MetricOf(m)
        sign == Graded(p * (n - p), -1) * MetricSign(m)
        Star(form) == Evaluated(Hodge(form))
        MetricStar(form) == Evaluated(HodgeMetric(form, g))
    IN  IF m.orientation = 0
        THEN /\ Star(a).status = "assumption" /\ MetricStar(a).status = "assumption"
             /\ VolumeForm(m, 1).status = "assumption"
        ELSE IF case.kind = "form"
        THEN /\ Star(Star(a)) = SignedForm(a, sign)
             /\ MetricStar(MetricStar(a)) = SignedForm(a, sign)
             /\ HodgeMetric(a, Flat(m)) = Star(a)
             /\ HodgeMetric(a, Diagonal(n, LAMBDA axis : Constant(IF axis = 0 THEN -m.signature[0] ELSE m.signature[axis]))).status = "assumption"
             /\ VolumeMetric(m, 1, Flat(m)) = VolumeForm(m, 1)
        ELSE p = b.degree =>
             /\ Wedge(a, Star(b)) = Wedge(b, Star(a))
             /\ Wedge(a, MetricStar(b)) = Wedge(b, MetricStar(a))

-----------------------------------------------------------------------------
(* The three layers, each as a whole.                                      *)

\* Curvature, its parts and its scalars fit together for every metric, at every
\* variance of the result (src/gr/gr.c).
RelativityIsConsistent ==
    [][Conclude /\ case.kind = "metric" =>
         LET r == Evaluated(Compute(Metrics[case.name])) IN CurvatureIsConsistent(r) /\ InvariantsAgree(r)]_case

\* The exterior calculus and the dual of a metric obey their laws on the same
\* forms (src/geom/exterior.c, src/geom/metric.c).
FormsAreConsistent == [][Conclude => FormsObeyCalculus /\ HodgeIsConsistent]_case

\* Every algebra of the catalog is one, and the gauge fields and Lagrangians
\* built over it are covariant (src/lie, src/qft/yang_mills.c).
GaugeTheoryIsConsistent == [][Conclude => LieAlgebrasAgree /\ GaugeFieldsAreConsistent]_case

\* Momenta, invariants and diagrams: a reduction keeps the value it reduces,
\* and the diagrams found are those there are (src/qft/lorentz.c,
\* src/qft/scalar.c).
AmplitudesAgree == [][Conclude => KinematicsAgree /\ DiagramsAgree]_case

\* The two algebras of the numerator, color and Dirac matrices: each rewriting
\* has the value of what it rewrites (src/qft/color.c, src/qft/dirac.c).
NumeratorsAgree == [][Conclude => ColorAgrees /\ DiracAgrees]_case

\* Two expressions phy_dirac_equivalent tells apart are different: "a surviving
\* term with a proved-nonzero coefficient is a proof of difference, not merely a
\* different-looking form" (dirac.c:1574).
DifferenceIsProved == [][Conclude => ContractionsAreProved]_case
=============================================================================
