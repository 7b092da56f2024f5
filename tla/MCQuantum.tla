----------------------------- MODULE MCQuantum -----------------------------
(* The built-in algebras against matrices, and gauge fields in two and three *)
(* dimensions; kinematics against vectors that satisfy what was declared,    *)
(* color algebra and gamma strings against matrices, and the scalar theory   *)
(* against Wick contractions.  Modulo 97 there are a root of minus one and   *)
(* one of three.                                                             *)
EXTENDS YangMills, Color, Dirac, Phi4

LOCAL INSTANCE FiniteSetsExt

VARIABLE case

X(axis) == Coordinate(axis)
Field(k) == Plus(Times(X(k % 3), Plus(X((k \div 3) % 4), Constant(k % 5))), Plus(Constant(k % 7), Scaled(k, X((k + 1) % 4))))
Space(n, orientation, signature) == AddChart(Manifold(n, orientation, signature), [n |-> n])
Euclidean(n) == [axis \in 0 .. (n - 1) |-> 1]
Lorentzian(n) == [axis \in 0 .. (n - 1) |-> IF axis = n - 1 THEN -1 ELSE 1]
GaugeSpaces == {Space(2, 1, Euclidean(2)), Space(3, -1, Lorentzian(3))}

\* The algebras, once for all of a run.
Groups == [kind \in Kinds |-> Builtin(kind)]

LieFilled(g, m, degree, seed) ==
    LieForm(g, m, 1, degree,
            LAMBDA a : Form(m, 1, degree, [i \in Increasing(m.n, degree) |->
                              Field(Across(LAMBDA code, slot : m.n * code + i[slot], seed + 4 * a, 1, degree))]))

ChooseKind == case.kind = "none" /\ \E kind \in Kinds : case' = [kind |-> "group", name |-> kind]
ChooseElements ==
    /\ case.kind = "group"
    /\ \E seed \in 0 .. 11 : case' = [kind |-> "elements", name |-> case.name, seed |-> seed]
\* The forms are computed in the state they are used in.
ChooseField ==
    /\ case.kind = "none"
    /\ \E kind \in {"U1", "SU2", "SO13"}, m \in GaugeSpaces : \E degree \in 0 .. m.n, seed \in {0, 3} :
         case' = [kind |-> "gauge", name |-> kind, m |-> m, degree |-> degree, seed |-> seed]
GaugeNext == ChooseKind \/ ChooseElements \/ ChooseField

-----------------------------------------------------------------------------
(* Matrices modulo Prime, as functions of <<row, column>> *)

RootOfMinusOne == CHOOSE i \in 1 .. Prime - 1 : (i * i + 1) % Prime = 0
Third == Inverse1[RootThree[1]]
Matrix(n, entries) ==
    [p \in (1 .. n) \X (1 .. n) |->
        LET here == {e \in entries : e[1] = p[1] /\ e[2] = p[2]} IN IF here = {} THEN 0 ELSE (CHOOSE e \in here : TRUE)[3] % Prime]
SymmetricOne(n, i, j) == Matrix(n, {<<i, j, 1>>, <<j, i, 1>>})
Imaginary(n, i, j) == Matrix(n, {<<i, j, -RootOfMinusOne>>, <<j, i, RootOfMinusOne>>})
Rotation(i, j) == Matrix(4, {<<i, j, -1>>, <<j, i, 1>>})
GellMann ==
    <<SymmetricOne(3, 1, 2), Imaginary(3, 1, 2), Matrix(3, {<<1, 1, 1>>, <<2, 2, -1>>}), SymmetricOne(3, 1, 3),
      Imaginary(3, 1, 3), SymmetricOne(3, 2, 3), Imaginary(3, 2, 3),
      Matrix(3, {<<1, 1, Third>>, <<2, 2, Third>>, <<3, 3, -2 * Third>>})>>
Pauli == <<SymmetricOne(2, 1, 2), Imaginary(2, 1, 2), Matrix(2, {<<1, 1, 1>>, <<2, 2, -1>>})>>
Rotations == <<Rotation(2, 3), Rotation(3, 1), Rotation(1, 2)>>
Boosts == <<SymmetricOne(4, 1, 4), SymmetricOne(4, 2, 4), SymmetricOne(4, 3, 4)>>

Times2(m, n, size) == [p \in (1 .. size) \X (1 .. size) |->
                         Across(LAMBDA s, k : s + m[<<p[1], k>>] * n[<<k, p[2]>>], 0, 1, size) % Prime]

\* Size, matrices and the factor k of [M_a, M_b] = k f_ab^c M_c.
Representation(kind) ==
    CASE kind = "U1" -> [size |-> 1, m |-> <<Matrix(1, {<<1, 1, 1>>})>>, factor |-> 1]
      [] kind = "SU2" -> [size |-> 2, m |-> Pauli, factor |-> 2 * RootOfMinusOne]
      [] kind = "SO3" -> [size |-> 4, m |-> Rotations, factor |-> 1]
      [] kind = "SU3" -> [size |-> 3, m |-> GellMann, factor |-> 2 * RootOfMinusOne]
      [] kind = "SO13" -> [size |-> 4, m |-> Rotations \o Boosts, factor |-> 1]

IsRepresentation(g, r) ==
    \A a, b \in Generators(g.n) :
        LET left == Times2(r.m[a + 1], r.m[b + 1], r.size)
            right == Times2(r.m[b + 1], r.m[a + 1], r.size)
            Sum(p) == Across(LAMBDA s, c : (s + g.f[<<a, b, c>>][1] * r.m[c + 1][p]) % Prime, 0, 0, g.n - 1)
        IN  \A p \in DOMAIN left : (left[p] - right[p] - r.factor * Sum(p)) % Prime = 0

ElementOf(g, seed) == Element(g, LAMBDA a : Constant((seed * (a + 2) + a * a) % 13))
KillingOf(g, x, y) == SumOver(LAMBDA a : SumOver(LAMBDA b : Times(Times(x.at[a], y.at[b]), Killing(g, a, b)), g.n), g.n)

\* Each built-in group is the one its name says: its constants are those of the
\* matrices, and one constant changed is refused.  Brackets obey Jacobi, and
\* Killing's form does not change under them.
LieAlgebrasAgree ==
    /\ case.kind = "group" =>
         LET group == Groups[case.name]  g == group.algebra
             broken == [g.f EXCEPT ![<<0, g.n - 1, 0>>] = Plus(@, One)]
             Repeated == [i \in 1 .. g.n |-> g.names[1]]
         IN  /\ group.status = "ok" /\ IsRepresentation(g, Representation(case.name))
             /\ Algebra(g.names, broken).status = "assumption"
             /\ g.n > 1 => Algebra(Repeated, g.f).status = "assumption"
             /\ Algebra([i \in 1 .. MaxLieDimension + 1 |-> i], <<>>).status = "unsupported"
    /\ case.kind = "elements" =>
         LET g == Groups[case.name].algebra
             x == ElementOf(g, case.seed)
             y == BasisElement(g, case.seed % g.n)
             z == ElementAdd(ElementScale(x, Constant(case.seed)), ElementOf(g, case.seed + 1))
             B(u, v) == Evaluated(Bracket(u, v))
         IN  /\ ElementAdd(B(x, z), B(z, x)).at = [a \in Generators(g.n) |-> Zero]
             /\ ElementAdd(B(x, B(y, z)), ElementAdd(B(y, B(z, x)), B(z, B(x, y)))).at = [a \in Generators(g.n) |-> Zero]
             /\ g.n < 8 => KillingOf(g, B(x, y), z) = KillingOf(g, x, B(y, z))
             /\ g.n = 8 => \A a, b \in Generators(8) : a <= b => Killing(g, a, b) = Constant(IF a = b THEN -3 ELSE 0)

-----------------------------------------------------------------------------
(* Gauge fields *)

Coupling == Constant(3)
GaugeMetric(m) ==
    Tensor(m.n, Lower(2), [i \in Indices(m.n, 2) |->
        IF i[1] = i[2] THEN Plus(Constant(m.signature[i[1]]), X(i[1])) ELSE IF i[1] + i[2] = 1 THEN X(1) ELSE Zero])
SameLieForm(left, right, order) ==
    left.status = "ok" /\ right.status = "ok" /\ left.degree = right.degree /\ LieFormEquivalent(left, right, order)

\* Two gauge derivatives are the bracket with the field strength; the field
\* strength obeys Bianchi's identity, changes as the connection does, and its
\* Lagrangian does not change: the factors and signs of field_strength,
\* bracket_wedge and the two variations belong together.
GaugeFieldsAreConsistent ==
    case.kind = "gauge" =>
    LET g == Groups[case.name].algebra
        m == case.m
        a == LieFilled(g, m, 1, case.seed)
        b == LieFilled(g, m, case.degree, case.seed + 7)
        f == Evaluated(FieldStrength(a, Coupling))
        D(form) == Evaluated(GaugeDerivative(a, Coupling, form))
        changed == Evaluated(VariationOfCurvature(f, Coupling, b))
        L(form) == Lagrangian(form, GaugeMetric(m), LAMBDA p, q : Killing(g, p, q))
    IN  /\ f.status = "ok"
        /\ case.degree + 2 <= m.n =>
             SameLieForm(D(D(b)), LieFormScale(BracketWedge(f, b), Coupling), Order - 2)
        /\ case.degree = m.n => D(b).status = "domain"
        /\ D(f).status = (IF m.n = 2 THEN "domain" ELSE "ok")
        /\ m.n = 3 => LieFormIsZero(BianchiResidual(a, Coupling), Order - 2)
        /\ BracketWedge(f, a).status = (IF m.n = 2 THEN "domain" ELSE "ok")
        /\ IF case.degree # 0 THEN changed.status = "type" /\ VariationOfConnection(a, Coupling, b).status = "type"
           ELSE /\ SameLieForm(changed, D(VariationOfConnection(a, Coupling, b)), Order - 2)
                /\ LET mixed == FormSub(FormSub(L(LieFormAdd(f, changed)), L(f)), L(changed))
                   IN  mixed.status = "ok" /\ FormIsZero(mixed, Order - 1)
        /\ L(b).status = (IF case.degree = 2 THEN "ok" ELSE "type")

-----------------------------------------------------------------------------
(* Inputs *)

Four == Through(LAMBDA m, name : Momentum(m, name), LorentzMetric(4), <<"p", "k", "q", "l">>)
Five == Momentum(Four, "r")
Relations == UNION {[slots -> {0, 1, 2, 96}] : slots \in {{1, 2, 3}, {2, 4}, {1, 2, 3, 4}}}
\* The momenta that have a mass declared.
Shells == {{}, {1, 3}, 1 .. 4}
Orders == {<<1, 2, 3, 4>>, <<4, 2, 1, 3>>, <<5, 1, 3, 2>>, <<1, 2, 2, 3>>, <<1, 2, 3, 6>>}
Nodes == {LorentzIndex("a", TRUE), LorentzIndex("a", FALSE), LorentzIndex("b", TRUE), [kind |-> "symbol"]}

ChooseRelation ==
    /\ case.kind = "none"
    /\ \E relation \in Relations : case' = [kind |-> "relation", relation |-> relation]
ChooseShells ==
    /\ case.kind = "relation"
    /\ \E shell \in Shells, slot \in 1 .. 4 :
         case' = [kind |-> "conserved", relation |-> case.relation, slot |-> slot, shell |-> shell]
ChooseScattering ==
    /\ case.kind = "none"
    /\ \E routing \in Routings, momentum \in Orders, mass \in {<<1, 2, 3, 4>>, <<1, 1, 2, 2>>, <<1, 1, 1, 1>>} :
         case' = [kind |-> "scattering", routing |-> routing, momentum |-> momentum, mass |-> mass]
ChooseNodes ==
    /\ case.kind = "none"
    /\ \E length \in 0 .. 4 : \E nodes \in [1 .. length -> Nodes] : case' = [kind |-> "nodes", nodes |-> nodes]

Expressions ==
    {<<Term(1, <<Factor("f", <<1, 2, 3>>)>>)>>,
     <<Term(1, <<Factor("d", <<1, 1, 2>>)>>)>>,
     <<Term(3, <<Factor("delta", <<1, 2>>), Factor("f", <<2, 3, 4>>)>>)>>,
     <<Term(1, <<Factor("f", <<1, 2, 3>>)>>), Term(2, <<Factor("d", <<2, 3, 4>>), Factor("delta", <<1, 4>>)>>)>>,
     <<Term(1, <<[Factor("d", <<1, 2, 3>>) EXCEPT !.power = 2]>>)>>,
     <<Term(5, <<>>)>>}
ChooseColor ==
    /\ case.kind = "none"
    /\ \/ \E e \in Expressions, a, b \in 1 .. 4 : case' = [kind |-> "contraction", e |-> e, a |-> a, b |-> b]
       \/ \E n \in {2, 3}, length \in 0 .. 4 : \E indices \in [1 .. length -> 1 .. 3] :
            /\ \A i \in 1 .. 3 : Cardinality({s \in DOMAIN indices : indices[s] = i}) <= 2
            /\ case' = [kind |-> "trace", n |-> n, indices |-> indices]
       \/ \E n \in {2, 3}, fresh \in {4, 0} : case' = [kind |-> "commutator", n |-> n, fresh |-> fresh]
       \/ \E n \in [kind : {"integer"}, value : {1, 2, 3, 4}] \cup [kind : {"symbol", "rational", "form"}, value : {0}] :
            case' = [kind |-> "view", n |-> n]

QuantumNext == GaugeNext \/ ChooseRelation \/ ChooseShells \/ ChooseScattering \/ ChooseNodes \/ ChooseColor

-----------------------------------------------------------------------------
(* Kinematics *)

\* Vectors in two dimensions with one sign each, the one at a slot being what
\* the relation makes of the others.
Given(seed) == [i \in 1 .. 5 |-> <<(3 * i * i + seed) % Prime, (5 * seed + 7 * i) % Prime>>]
Solved(vectors, relation, slot) ==
    LET Rest(axis) == MapThenSumSet(LAMBDA i : relation[i] * vectors[i][axis], DOMAIN relation \ {slot})
    IN  [vectors EXCEPT ![slot] = [axis \in 1 .. 2 |-> (-Rest(axis) * Inverse1[relation[slot] % Prime]) % Prime]]
Product(v, w) == (v[1] * w[1] - v[2] * w[2]) % Prime
AtomValue(a, vectors, squares, invariants) ==
    CASE a[1] = "dot" -> Product(vectors[a[2]], vectors[a[3]])
      [] a[1] = "mass" -> squares[a[2]]
      [] a[1] = "invariant" -> invariants[a[2]]
Value(expr, vectors, squares, invariants) ==
    MapThenSumSet(LAMBDA a : expr[a] * AtomValue(a, vectors, squares, invariants), DOMAIN expr) % Prime
VectorValue(vector, vectors) ==
    [axis \in 1 .. 2 |-> MapThenSumSet(LAMBDA i : vector[i] * vectors[i][axis], DOMAIN vector) % Prime]
Bodies == {[a \in {Dot(i, j), Dot(j, k)} |-> IF a = Dot(i, j) THEN 2 ELSE 95] : i, j, k \in 1 .. 4}
AllDots(expr) == {a \in DOMAIN expr : a[1] = "dot"}

ConservedAgrees(relation, slot, shell) ==
    LET conserved == DeclareConservation(Four, relation, slot)
        metric == Evaluated(Through(LAMBDA m, i : IF i \in shell THEN DeclareOnShell(m, i, i) ELSE m, conserved, <<1, 2, 3, 4>>))
    IN
    IF slot \notin DOMAIN relation \/ relation[slot] = 0 THEN conserved.status = "domain" /\ ~conserved.conserved
    ELSE \A seed \in {1, 11} :
           LET vectors == Evaluated(Solved(Given(seed), relation, slot))
               squares == [i \in 1 .. 4 |-> Product(vectors[i], vectors[i])]
           IN  /\ \A e \in Bodies :
                    LET reduced == Evaluated(Reduce(metric, e)) IN
                    /\ Value(reduced, vectors, squares, <<>>) = Value(e, vectors, squares, <<>>)
                    /\ \A a \in AllDots(reduced) : slot \notin {a[2], a[3]} /\ (a[2] = a[3] => a[2] \notin shell)
               /\ \A i, j \in 1 .. 4 :
                    LET v == VectorAdd(VectorScale(VectorOf(i), 3), VectorSub(VectorOf(j), VectorOf(slot)))
                        w == Evaluated(ReduceVector(metric, v))
                    IN  /\ VectorValue(v, vectors) = VectorValue(w, vectors) /\ slot \notin DOMAIN w
                        /\ Value(VectorDot(v, w), vectors, squares, <<>>) = Product(VectorValue(v, vectors), VectorValue(v, vectors))

ScatteringAgrees(routing, momentum, mass) ==
    LET made == Evaluated(Mandelstam(Five, momentum, mass, routing))
        sign == [k \in 1 .. 4 |-> IF routing = "peskin" /\ k >= 3 THEN -1 ELSE 1]
    IN  IF made.status # "ok"
        THEN /\ made.metric = Five
             /\ made.status = (IF 6 \in {momentum[k] : k \in 1 .. 4} THEN "type" ELSE "assumption")
        ELSE /\ \A k \in 1 .. 3 : MandelstamReduce(made, made.definition[k]) = Atom(Invariant(k))
             /\ LET total == Through(LAMBDA s, k : Added(s, Atom(Invariant(k))), [a \in {} |-> 0], <<1, 2, 3>>)
                IN  \A k \in 1 .. 3 : MandelstamEliminate(made, total, k) = made.masses
             /\ mass = <<1, 2, 3, 4>> => \A seed \in {1, 11, 40} :
                  LET relation == [i \in {momentum[k] : k \in 1 .. 4} |-> sign[CHOOSE k \in 1 .. 4 : momentum[k] = i]]
                      vectors == Evaluated(Solved(Given(seed), relation, momentum[4]))
                      squares == [k \in 1 .. 4 |-> Product(vectors[momentum[k]], vectors[momentum[k]])]
                      invariants == [k \in 1 .. 3 |-> Value(made.definition[k], vectors, squares, <<>>)]
                  IN  \A k, l \in 1 .. 4 :
                        LET e == Atom(Dot(momentum[k], momentum[l]))
                            reduced == Evaluated(MandelstamReduce(made, e))
                        IN  /\ AllDots(reduced) = {}
                            /\ Value(reduced, vectors, squares, invariants) = Value(e, vectors, squares, invariants)
                            /\ Value(Reduce(made.metric, e), vectors, squares, invariants) = Value(e, vectors, squares, invariants)
                            /\ \A i \in 1 .. 3 : Value(MandelstamEliminate(made, reduced, i), vectors, squares, invariants)
                                                = Value(e, vectors, squares, invariants)

Uses(nodes, name, upper) == Cardinality({i \in DOMAIN nodes : nodes[i] = LorentzIndex(name, upper)})
Names(nodes) == {nodes[i].name : i \in {j \in DOMAIN nodes : OwnsIndex(nodes[j])}}
IndicesAgree(nodes) ==
    \A capacity \in 0 .. 2 :
      LET census == Census(nodes, capacity)
          renamed == Census(RenameIndex(nodes, "a", "b"), capacity)
      IN  /\ census.status = "ok" <=> Len(nodes) <= CensusBudget /\ Cardinality(Names(nodes)) <= capacity
          /\ census.status = "ok" =>
               \A name \in {"a", "b"} :
                 LET met == {i \in DOMAIN census.uses : census.uses[i].name = name} IN
                 IF name \notin Names(nodes) THEN met = {}
                 ELSE \A i \in met : Cardinality(met) = 1 /\ census.uses[i].upper = Uses(nodes, name, TRUE)
                                     /\ census.uses[i].lower = Uses(nodes, name, FALSE)
          /\ renamed.status = "ok" /\ Names(nodes) # {} =>
               /\ Len(renamed.uses) = 1
               /\ renamed.uses[1].upper = Uses(nodes, "a", TRUE) + Uses(nodes, "b", TRUE)

\* What conservation and mass shells make of an expression is worth the same
\* for every choice of vectors that satisfies them, and is free of what they
\* eliminate; a channel is its invariant and the invariants add up to the
\* masses, in both routings; an index is counted once at each use of it.
KinematicsAgree ==
    /\ case.kind = "conserved" => ConservedAgrees(case.relation, case.slot, case.shell)
    /\ case.kind = "scattering" => ScatteringAgrees(case.routing, case.momentum, case.mass)
    /\ case.kind = "nodes" => IndicesAgree(case.nodes)

-----------------------------------------------------------------------------
(* Color *)

Colors == [n \in {2, 3} |-> Color([kind |-> "integer", value |-> n])]
Dimension1(n) == n * n - 1
Generator1(n) ==
    [a \in 1 .. Dimension1(n) |-> LET m == IF n = 2 THEN Pauli[a] ELSE GellMann[a] IN [p \in DOMAIN m |-> (m[p] * Half) % Prime]]
Matrices1 == [n \in {2, 3} |-> Generator1(n)]
Trace1(m, n) == Across(LAMBDA s, i : s + m[<<i, i>>], 0, 1, n) % Prime
ProductTrace == [n \in {2, 3} |-> [t \in (1 .. Dimension1(n)) \X (1 .. Dimension1(n)) |->
                                     Times2(Matrices1[n][t[1]], Matrices1[n][t[2]], n)]]
\* Tr(T_a T_b T_c), and twice the symmetric part of it.
ThreeTrace ==
    [n \in {2, 3} |-> [t \in (1 .. Dimension1(n)) \X (1 .. Dimension1(n)) \X (1 .. Dimension1(n)) |->
        Trace1(Times2(ProductTrace[n][<<t[1], t[2]>>], Matrices1[n][t[3]], n), n)]]
FValue(n, t) == StructureComponent(Colors[n], Groups, t[1], t[2], t[3]).value[1]
DValue(n, t) == (2 * (ThreeTrace[n][t] + ThreeTrace[n][<<t[2], t[1], t[3]>>])) % Prime

FactorValue(n, factor, at, d(_, _)) ==
    LET i == [s \in DOMAIN factor.indices |-> at[factor.indices[s]]]
        once == CASE factor.head = "delta" -> IF i[1] = i[2] THEN 1 ELSE 0
                  [] factor.head = "f" -> FValue(n, i)
                  [] factor.head = "d" -> d(n, i)
    IN  (once ^ factor.power) % Prime
Occurrences(term, i) ==
    Cardinality({<<k, s>> \in (DOMAIN term.t) \X (1 .. 3) : s \in DOMAIN term.t[k].indices /\ term.t[k].indices[s] = i})
Names1(term) == {term.t[k].indices[s] : <<k, s>> \in {<<k, s>> \in (DOMAIN term.t) \X (1 .. 3) : s \in DOMAIN term.t[k].indices}}
TermValue(n, term, free, d(_, _)) ==
    LET dummies == {i \in Names1(term) : Occurrences(term, i) > 1}
        Product1(at) == Through(LAMBDA p, factor : (p * FactorValue(n, factor, at, d)) % Prime, term.k, term.t)
    IN  MapThenSumSet(LAMBDA at : Product1([i \in Names1(term) |-> IF i \in dummies THEN at[i] ELSE free[i]]),
                      [dummies -> 1 .. Dimension1(n)]) % Prime
TermsValue(n, terms, free, d(_, _)) == Through(LAMBDA s, term : (s + TermValue(n, term, free, d)) % Prime, 0, terms)

\* Contraction is right for any symmetric d.
AnySymmetric(n, i) == (i[1] * i[2] * i[3] + i[1] + i[2] + i[3]) % Prime
ContractionAgrees(e, a, b) ==
    LET result == Evaluated(DeltaContract(Colors[2], a, b, e))
        spelled == Evaluated([k \in DOMAIN e |-> [e[k] EXCEPT !.t = <<Factor("delta", <<a, b>>)>> \o @]])
    IN  /\ a # b => (result.status = "ok" <=> CountRef(e, a) + CountRef(e, b) <= 1)
        /\ result.status = "ok" /\ (a # b \/ CountRef(e, a) = 0) =>
             \A free \in [1 .. 4 -> 1 .. 3] :
               TermsValue(2, result.terms, free, AnySymmetric) = TermsValue(2, spelled, free, AnySymmetric)

TraceAgrees(n, indices) ==
    LET answer == ColorTrace(Colors[n], indices)
        names == {indices[s] : s \in DOMAIN indices}
        dummies == {i \in names : Cardinality({s \in DOMAIN indices : indices[s] = i}) > 1}
        Plain1(i) == CASE Len(i) = 0 -> n
                      [] Len(i) = 1 -> Trace1(Matrices1[n][i[1]], n)
                      [] Len(i) = 2 -> Trace1(ProductTrace[n][<<i[1], i[2]>>], n)
                      [] Len(i) = 3 -> ThreeTrace[n][<<i[1], i[2], i[3]>>]
        Reference(free) ==
            MapThenSumSet(LAMBDA at : Plain1([s \in DOMAIN indices |-> IF indices[s] \in dummies THEN at[indices[s]] ELSE free[indices[s]]]),
                          [dummies -> 1 .. Dimension1(n)]) % Prime
    IN  IF Len(indices) > 3 THEN answer.status = (IF Len(indices) > MaxTrace THEN "term limit" ELSE "ok")
        ELSE \A free \in [names \ dummies -> 1 .. Dimension1(n)] :
               TermsValue(n, answer.terms, free, DValue) = Reference(free)

CommutatorAgrees(n, fresh) ==
    LET made == Evaluated(Commutator(Colors[n], LAMBDA serial : IF fresh = 0 THEN 0 - serial ELSE fresh + serial, 1, 2))
        f == made.terms[1]
        c == f.t[2].indices[1]
        T == Matrices1[n]
        Range1 == 1 .. Dimension1(n)
        Coefficient1(a, b, x) == (f.k * FactorValue(n, f.t[1], [i \in {1, 2, c} |-> IF i = 1 THEN a ELSE IF i = 2 THEN b ELSE x], DValue)) % Prime
    IN  /\ Len(made.terms) = 1 /\ c \notin {1, 2}
        /\ \A a, b \in Range1 : \A p \in (1 .. n) \X (1 .. n) :
             (ProductTrace[n][<<a, b>>][p] - ProductTrace[n][<<b, a>>][p]) % Prime
             = MapThenSumSet(LAMBDA x : Coefficient1(a, b, x) * T[x][p], Range1) % Prime
        /\ \A p \in (1 .. n) \X (1 .. n) :
             MapThenSumSet(LAMBDA a : ProductTrace[n][<<a, a>>][p], Range1) % Prime
             = IF p[1] = p[2] THEN CasimirFundamental(Colors[n]) ELSE 0
        /\ \A a, b \in Range1 :
             MapThenSumSet(LAMBDA x : MapThenSumSet(LAMBDA y : FValue(n, <<a, x, y>>) * FValue(n, <<b, x, y>>), Range1), Range1) % Prime
             = IF a = b THEN CasimirAdjoint(Colors[n]) ELSE 0

ViewAgrees(n) ==
    LET view == ComponentView(n)
        full == Materialize(view, Groups, "f")
        size == AdjointDimension(Color(n))
    IN  IF n.kind \in {"rational", "form"} \/ (n.kind = "integer" /\ n.value < 2) THEN view.status = Color(n).status
        ELSE IF n.kind = "integer" /\ n.value \in {2, 3}
        THEN /\ full.status = "ok" /\ Materialize(full, Groups, "f") = full
             /\ \A t \in Triples(size) :
                  ReadComponent(full, "f", t) = StructureComponent(Color(n), Groups, t[1] + 1, t[2] + 1, t[3] + 1).value
             /\ \A a, b \in 0 .. (size - 1) : ReadComponent(full, "delta", <<a, b>>) = IF a = b THEN One ELSE Zero
        ELSE full.status = "not initialized" /\ [full EXCEPT !.status = "ok"] = view /\ view.concreteN = 0

\* Every rule of the color algebra is an identity of the matrices of SU(2) and
\* SU(3): a contraction with a delta, a trace, a commutator, the two Casimirs;
\* the components the bridge stores read as the structure constants.
ColorAgrees ==
    /\ case.kind = "contraction" => ContractionAgrees(case.e, case.a, case.b)
    /\ case.kind = "trace" => TraceAgrees(case.n, case.indices)
    /\ case.kind = "commutator" => CommutatorAgrees(case.n, case.fresh)
    /\ case.kind = "view" => ViewAgrees(case.n)

-----------------------------------------------------------------------------
(* Gamma strings against the Clifford algebra of four dimensions: a product  *)
(* of gammas is a combination of blades, the sets of axes, on each line.     *)

LorentzFour == Through(LAMBDA m, name : Momentum(m, name), LorentzMetric(4), <<"p", "q">>)
Strings == DiracOf(LorentzFour, 6, 60)
Tight == DiracOf(LorentzFour, 4, 7)

\* Indices 1 and 2, and 101, which is the name a dummy is given.
Up(name) == LorentzIndex(name, TRUE)
Down(name) == LorentzIndex(name, FALSE)
Arguments == {Up(1), Down(1), Up(2), Down(101), MomentumAt(1), MomentumAt(2)}
Inside == {Up(2), Down(101), MomentumAt(1), MomentumAt(2)}
OnLine(arguments, lines) == [i \in DOMAIN arguments |-> Gamma(lines[i], arguments[i])]
OneLine(arguments) == OnLine(arguments, [i \in DOMAIN arguments |-> 1])
TwoLines == {OnLine(<<Up(1), MomentumAt(1), Down(1), Up(2)>>, lines) : lines \in [1 .. 4 -> {1, 2}]}

ChooseString ==
    /\ case.kind = "none"
    /\ \/ \E length \in 0 .. 3 : \E a \in [1 .. length -> Arguments] : case' = [kind |-> "gammas", f |-> OneLine(a)]
       \/ \E length \in 2 .. 4 : \E a \in [1 .. length -> Inside] :
            /\ length = 4 => a[1] # a[2] /\ a[3] = MomentumAt(2)
            /\ \E pair \in {<<Up(1), Down(1)>>, <<Down(1), Up(1)>>} :
                 case' = [kind |-> "gammas", f |-> OneLine(<<pair[1]>> \o a \o <<pair[2]>>)]
       \/ \E f \in TwoLines : case' = [kind |-> "gammas", f |-> f]
DiracNext == QuantumNext \/ ChooseString

-----------------------------------------------------------------------------
(* Values *)

Eta(axis) == IF axis = 0 THEN 1 ELSE -1
MomentumValue == <<[axis \in 0 .. 3 |-> <<3, 5, 0, 7>>[axis + 1]], [axis \in 0 .. 3 |-> <<2, 11, 1, 0>>[axis + 1]]>>
\* The contravariant components of a gamma's argument: an index picks an axis.
ArgumentValue(argument, at) ==
    IF ~OwnsIndex(argument) THEN [axis \in 0 .. 3 |-> Eta(axis) * MomentumValue[argument.name][axis]]
    ELSE [axis \in 0 .. 3 |-> IF axis # at[argument.name] THEN 0 ELSE IF argument.upper THEN 1 ELSE Eta(axis)]

TimesAxis(blade, axis) ==
    [blade |-> (blade \ {axis}) \cup ({axis} \ blade),
     sign |-> (IF Cardinality({x \in blade : x > axis}) % 2 = 0 THEN 1 ELSE -1) * (IF axis \in blade THEN Eta(axis) ELSE 1)]
BladeProduct == [p \in (SUBSET (0 .. 3)) \X (0 .. 3) |-> TimesAxis(p[1], p[2])]
\* A value is a function from a blade on each line to a number.
TimesGamma(value, line, vector) ==
    LET axes == {axis \in 0 .. 3 : vector[axis] # 0}
        Target(b, axis) == [b EXCEPT ![line] = BladeProduct[<<b[line], axis>>].blade]
        From(b, axis) == At(value, Target(b, axis)) * vector[axis] * BladeProduct[<<Target(b, axis)[line], axis>>].sign
    IN  Gathered({Target(p[1], p[2]) : p \in (DOMAIN value) \X axes},
                 LAMBDA b : MapThenSumSet(LAMBDA axis : From(b, axis), axes))
StringValue(f, at) ==
    Through(LAMBDA v, g : TimesGamma(v, g.line, ArgumentValue(g.at, at)), [b \in {<<{}, {}>>} |-> 1], f)

AtomNumber(a, at) ==
    LET i == a[2]  j == a[3]
        Lowered(index, axis) == IF index.upper THEN 1 ELSE Eta(axis)
    IN  CASE a[1] = "metric" -> IF at[i.name] # at[j.name] THEN 0
                                ELSE IF i.upper = j.upper THEN Eta(at[i.name]) ELSE 1
          [] a[1] = "component" -> MomentumValue[j.name][at[i.name]] * Lowered(i, at[i.name])
          [] a[1] = "dot" -> MapThenSumSet(LAMBDA axis : Eta(axis) * MomentumValue[i.name][axis] * MomentumValue[j.name][axis], 0 .. 3)
NumberOf(m, at) ==
    MapThenFoldSet(LAMBDA x, y : (x * y) % Prime, 1, LAMBDA a : AtomNumber(a, at) ^ m[a], LAMBDA S : CHOOSE a \in S : TRUE, DOMAIN m)
Together(S, value(_)) ==
    LET table == Evaluated([x \in S |-> value(x)])
    IN  Gathered(UNION {DOMAIN table[x] : x \in S}, LAMBDA b : MapThenSumSet(LAMBDA x : At(table[x], b), S))

\* A name met twice in a product is summed over.
SpotsIn(m, name) == MapThenSumSet(LAMBDA a : m[a] * Cardinality({k \in {2, 3} : OwnsIndex(a[k]) /\ a[k].name = name}), DOMAIN m)
Summed(m, f) ==
    {name \in GammaNames(f) \cup CoefficientNames([n \in {m} |-> 1]) :
        SpotsIn(m, name) + AtHeight(f, name, TRUE) + AtHeight(f, name, FALSE) = 2}
ProductValue(m, f, free) ==
    LET names == GammaNames(f) \cup CoefficientNames([n \in {m} |-> 1])
        dummies == Summed(m, f)
        Assigned(choice) == [name \in names |-> IF name \in dummies THEN choice[name] ELSE free[name]]
    IN  Together({Assigned(choice) : choice \in [dummies -> 0 .. 3]},
                 LAMBDA at : IF NumberOf(m, at) = 0 THEN [b \in {} |-> 0] ELSE Multiple(StringValue(f, at), NumberOf(m, at)))
TermsValueOf(terms, free) ==
    Through(LAMBDA sum, t : Added(sum, Together(DOMAIN t.c, LAMBDA m : Multiple(ProductValue(m, t.f, free), t.c[m]))),
            [b \in {} |-> 0], terms)

\* The scalar part on a line, four times over.
Scalar(value, line) ==
    Multiple([b \in {x \in DOMAIN value : x[line] = {}} |-> value[b]], 4)

Frees == {[name \in {1, 2, 101, 102} |-> 0], [name \in {1, 2, 101, 102} |-> IF name = 2 THEN 1 ELSE IF name = 1 THEN 3 ELSE 2]}
Known(result, value, free) == TermsValueOf(result.terms, free) = value

\* Each rewriting of a string is an identity of the Clifford algebra; a
\* contraction leaves no pair on a line and a normal form nothing out of order;
\* a string with an index twice at one height is refused; a limit refuses or
\* changes nothing.
DiracAgrees ==
    case.kind = "gammas" =>
    LET e == <<GammaTerm(Numeral(1), case.f)>>
        canonical == Evaluated(Canonical(Strings, e))
        contracted == Evaluated(DiracContract(Strings, e))
        normal == Evaluated(CliffordNormal(Strings, e))
        traced == Evaluated(DiracTrace(Strings, e, 1))
        misused == \E i, j \in DOMAIN case.f : i # j /\ OwnsIndex(case.f[i].at) /\ case.f[i].at = case.f[j].at
        results == {canonical, contracted, normal, traced}
    IN  IF misused THEN \A r \in results : r.status = "type"
        ELSE /\ \A r \in results : r.status = "ok"
             /\ \A free \in Frees :
                  LET value == Evaluated(TermsValueOf(e, free)) IN
                  /\ Known(canonical, value, free) /\ Known(contracted, value, free) /\ Known(normal, value, free)
                  /\ Known(traced, Scalar(value, 1), free)
             /\ Canonical(Strings, canonical.terms).terms = canonical.terms
             /\ \A i \in DOMAIN contracted.terms : ContractedPairs(contracted.terms[i]) = {}
             /\ \A i \in DOMAIN normal.terms : \A k \in 1 .. Len(normal.terms[i].f) - 1 :
                  ~FactorBefore(normal.terms[i].f[k + 1], normal.terms[i].f[k])
             /\ DiracEquivalent(Strings, e, normal.terms) = "zero"
             /\ LET less == Evaluated(CliffordNormal(Tight, e)) IN
                less.status # "term limit" => less = normal
             /\ LET less == Evaluated(DiracTrace(Tight, e, 1)) IN
                less.status # "term limit" => less = traced
             /\ LET spinless == Evaluated(DiracTraceScalar(Strings, e, 1)) IN
                IF \E i \in DOMAIN traced.terms : traced.terms[i].f # <<>> THEN spinless.status = "type"
                ELSE spinless.value = (IF traced.terms = <<>> THEN Numeral(0) ELSE traced.terms[1].c)

\* A contraction that is told apart from the string it contracts has another
\* value (phy_dirac_equivalent).
ContractionsAreProved ==
    case.kind = "gammas" /\ Cardinality(ContractedPairs([c |-> Numeral(1), f |-> case.f])) = 1 =>
    LET e == <<GammaTerm(Numeral(1), case.f)>>
        contracted == Evaluated(DiracContract(Strings, e)).terms
    IN  DiracEquivalent(Strings, e, contracted) = "nonzero" =>
          \E free \in Frees : TermsValueOf(e, free) # TermsValueOf(contracted, free)

-----------------------------------------------------------------------------
(* The scalar theory: a half line of a vertex is <<vertex, 1 .. 4>>, and a   *)
(* contraction joins every half line to another or to an external leg.       *)

Models == {Model(d) : d \in 0 .. 5}

\* An edge matrix from the numbers above and on its diagonal.
Graph(vertices, legs, lines) ==
    [vertices |-> vertices, legs |-> legs,
     edges |-> [v \in 1 .. vertices |-> [w \in 1 .. vertices |-> lines[<<Min({v, w}), Max({v, w})>>]]]]
Pairs(n) == {p \in (1 .. n) \X (1 .. n) : p[1] <= p[2]}
\* One vertex and two, whatever their degrees, and a matrix that is not symmetric.
SmallGraphs ==
    {Graph(1, legs, [p \in Pairs(1) |-> loops]) : loops \in 0 .. 2, legs \in {<<>>, <<1>>, <<1, 1>>, <<1, 1, 1, 1>>, <<1, 2>>}}
    \cup {Graph(2, legs, lines) : legs \in UNION {[1 .. n -> 1 .. 2] : n \in {0, 2, 4}}, lines \in [Pairs(2) -> 0 .. 2]}
    \cup {Graph(2, <<>>, [p \in Pairs(2) |-> IF p = <<1, 2>> THEN 4 ELSE 0]),
          Graph(2, <<1, 2>>, [p \in Pairs(2) |-> IF p = <<1, 2>> THEN 3 ELSE 0]),
          [Graph(2, <<1, 1>>, [p \in Pairs(2) |-> 1]) EXCEPT !.edges[1][2] = 2]}
\* Three and four vertices of degree four, the legs where lines are missing.
Filling(n, lines) ==
    LET graph == Graph(n, <<>>, lines)
        Missing(v) == 4 - VertexDegree(graph, v)
    IN  IF \E v \in 1 .. n : Missing(v) < 0 THEN graph
        ELSE [graph EXCEPT !.legs = Joined([v \in 1 .. n |-> [k \in 1 .. Missing(v) |-> v]])]
ThreeGraphs == {Filling(3, lines) : lines \in {l3 \in [Pairs(3) -> 0 .. 2] : l3[<<2, 3>>] # 0 /\ l3[<<1, 1>>] # 2}}
FourGraphs == {Filling(4, [p \in Pairs(4) |-> IF p[1] = p[2] THEN loop ELSE lines[p]]) :
                 loop \in 0 .. 1, lines \in [{p \in Pairs(4) : p[1] # p[2]} -> {0, 1}]}
               \cup {Filling(4, [p \in Pairs(4) |-> IF p \in {<<1, 2>>, <<2, 3>>, <<3, 4>>, <<1, 4>>} THEN 2 ELSE 0]),
                     Filling(4, [p \in Pairs(4) |-> IF p \in {<<1, 2>>, <<3, 4>>} THEN 3 ELSE IF p[1] # p[2] THEN 0 ELSE 0]),
                     Graph(5, <<>>, [p \in Pairs(5) |-> 1])}

ChooseModel == case.kind = "none" /\ \E d \in 0 .. 5 : case' = [kind |-> "model", model |-> Model(d)]
ChooseGraph ==
    /\ case.kind = "none"
    /\ \E graphs \in {SmallGraphs, ThreeGraphs, FourGraphs} : \E graph \in graphs :
         case' = [kind |-> "graph", graph |-> graph]
ScalarNext == DiracNext \/ ChooseModel \/ ChooseGraph

-----------------------------------------------------------------------------
(* Contractions *)

Halves(graph) == (1 .. graph.vertices) \X (1 .. 4)
\* How many contractions of the free half lines have these lines and legs left.
RECURSIVE Contractions(_, _, _)
Contractions(free, legs, lines) ==
    IF legs # <<>>
    THEN MapThenSumSet(LAMBDA h : Contractions(free \ {h}, Tail(legs), lines), {h \in free : h[1] = Head(legs)})
    ELSE IF free = {} THEN 1
    ELSE LET h == CHOOSE x \in free : \A y \in free : x[1] < y[1] \/ (x[1] = y[1] /\ x[2] <= y[2])
             Less(p) == [lines EXCEPT ![p] = @ - 1]
         IN  MapThenSumSet(LAMBDA k : Contractions(free \ {h, k}, <<>>, Less(<<h[1], k[1]>>)),
                           {k \in free \ {h} : lines[<<h[1], k[1]>>] > 0})
LinesOf(graph) == [p \in Pairs(graph.vertices) |-> graph.edges[p[1]][p[2]]]
Labelings(graph) ==
    {[legs |-> [k \in DOMAIN graph.legs |-> p[graph.legs[k]]],
      edges |-> [v \in 1 .. graph.vertices |-> [w \in 1 .. graph.vertices |->
                   LET From(x) == CHOOSE y \in 1 .. graph.vertices : p[y] = x IN graph.edges[From(v)][From(w)]]]] :
       p \in {f \in [1 .. graph.vertices -> 1 .. graph.vertices] : \A v, w \in DOMAIN f : f[v] = f[w] => v = w}}
InOnePiece(graph) ==
    \A part \in SUBSET (1 .. graph.vertices) :
       (part # {} /\ part # 1 .. graph.vertices) =>
         \E v \in part, w \in (1 .. graph.vertices) \ part : graph.edges[v][w] # 0

\* An analysed graph is one whose degrees are four and which is in one piece;
\* its multiplicity counts the contractions, its labelings the graphs that
\* differ from it by names only, and one over the symmetry factor is what both
\* make of the expansion of the exponential.
GraphCounts(graph) ==
    LET answer == GraphAnalyze(Model(4), graph)
        whole == /\ \A k \in DOMAIN graph.legs : graph.legs[k] <= graph.vertices
                 /\ \A v, w \in 1 .. graph.vertices : graph.edges[v][w] = graph.edges[w][v]
                 /\ Len(graph.legs) + 2 * InternalLines(graph) = 4 * graph.vertices
                 /\ \A v \in 1 .. graph.vertices : VertexDegree(graph, v) = 4
                 /\ InOnePiece(graph)
    IN  /\ (answer.status = "ok") = (graph.vertices <= 4 /\ Len(graph.legs) <= 8 /\ whole)
        /\ answer.status = "ok" =>
             /\ graph.vertices <= 3 => answer.multiplicity = Contractions(Halves(graph), graph.legs, LinesOf(graph))
             /\ answer.labelings = Cardinality(Labelings(graph))
             /\ answer.symmetry * answer.multiplicity * answer.labelings
                  = 24 ^ graph.vertices * Factorial(graph.vertices)
             /\ DiagramValidate(Model(4), Diagram(graph.vertices, answer.lines, answer.loops, Len(graph.legs), answer.degree,
                                                  answer.symmetry, answer.weight, IF answer.loops = 0 THEN "none" ELSE "some")) = "ok"

\* Minus the variation of a Lagrangian with respect to the field: the kinetic
\* term, a square of first derivatives, varies to a box.
Less1(mono, symbol) == [mono EXCEPT ![symbol] = @ - 1]
ByField(e) ==
    Collect(Joined([i \in 1 .. 10 |->
      LET powers == {mono \in DOMAIN e : mono["field"] = i} IN
      IF powers = {} THEN <<>>
      ELSE LET mono == CHOOSE x \in powers : TRUE IN <<<<-i * e[mono], Less1(mono, "field")>>>>]))
FieldEquation(e) ==
    LET kinetic == To("kinetic", 1)
        box == IF kinetic \in DOMAIN e THEN Collect(<<<<2 * e[kinetic], To("box", 1)>>>>) ELSE Collect(<<>>)
    IN  SumOf(box, ByField(e))
\* The field equation of a plane wave, to the first order in the field.
OnPlaneWave(e) ==
    Collect(Joined(<<
      IF To("box", 1) \in DOMAIN e THEN <<<<-e[To("box", 1)], To("momentum2", 1)>>>> ELSE <<>>,
      LET mass == Combined(To("mass", 2), To("field", 1)) IN
      IF mass \in DOMAIN e THEN <<<<e[mass], To("mass", 2)>>>> ELSE <<>> >>))
\* The Lagrangian's terms that have a symbol.
Having(e, symbol) == [mono \in {x \in DOMAIN e : x[symbol] # 0} |-> e[mono]]

ModelAgrees(model) ==
    IF model.status # "ok" THEN model.dimension \notin 1 .. 4
    ELSE /\ EquationOfMotion = FieldEquation(ScalarLagrangian)
         /\ SumOf(InversePropagator, OnPlaneWave(EquationOfMotion)) = Collect(<<>>)
         \* The vertex is what four variations leave of the interaction.
         /\ VertexStripped = Collect(<<<<24 * Having(ScalarLagrangian, "coupling")[Combined(To("coupling", 1), To("field", 4))],
                                         To("coupling", 1)>>>>)
         /\ DiagramExpression(model, Tree2to2).status = "ok"
         /\ LET diagrams == OneLoopDiagrams(model)
                tadpole == GraphAnalyze(model, Graph(1, <<1, 1>>, [p \in Pairs(1) |-> 1]))
                bubble == GraphAnalyze(model, Graph(2, <<1, 1, 2, 2>>, [p \in Pairs(2) |-> IF p = <<1, 2>> THEN 2 ELSE 0]))
            IN  \A i \in 1 .. 4 :
                  LET graph == IF i = 1 THEN tadpole ELSE bubble IN
                  /\ DiagramExpression(model, diagrams[i]).status = "ok"
                  /\ diagrams[i].weight = graph.weight
                  /\ diagrams[i].symmetry = Rational(1, graph.symmetry)
                  /\ diagrams[i].lines = graph.lines /\ diagrams[i].loops = graph.loops /\ diagrams[i].degree = graph.degree
         \* To the first order the counterterms shift the mass and the coupling
         \* of the Lagrangian, and the field's scale stays.
         /\ \A scheme \in {"MS", "MSbar"} :
              LET constants == Renormalization(model, scheme)
                  counterterms == CountertermLagrangian(model, scheme)
              IN  IF model.dimension # 4 THEN constants.status = "unsupported" /\ counterterms.status = "unsupported"
                  ELSE /\ constants.field = Collect(<<>>)
                       /\ counterterms.e = SumOf(ProductOf(Having(ScalarLagrangian, "mass"), constants.mass),
                                                 ProductOf(Having(ScalarLagrangian, "coupling"), constants.coupling))
                       \* Three channels diverge where one loop does.
                       /\ constants.coupling = ProductOf(Single(3, 1, <<>>), constants.mass)

\* The numbers of a diagram are the ones of its Wick contractions: the
\* multiplicity and the labelings of a graph count what they name, its symmetry
\* factor is what is left of the factorials of the perturbation series, the
\* diagrams the code writes down by hand have the weights of their graphs, and
\* the field equation, the propagator, the vertex and the counterterms are the
\* Lagrangian's (phy_phi4_graph_analyze, phy_phi4_one_loop_diagrams,
\* phy_phi4_equation_of_motion).
DiagramsAgree ==
    CASE case.kind = "graph" -> GraphCounts(case.graph)
      [] case.kind = "model" -> ModelAgrees(case.model)
      [] OTHER -> TRUE
=============================================================================
