-------------------------------- MODULE Lie --------------------------------
(***************************************************************************)
(* Lie algebras and groups: src/src/lie/lie.c.  An algebra is [status, n,  *)
(* names, f], with the structure constant of T_c in [T_a, T_b] at          *)
(* f[<<a, b, c>>]; an element is [status, algebra, at].  A refused         *)
(* creation is [status].  phy_lie_commutator_ir builds a tree and is not   *)
(* modelled.                                                               *)
(***************************************************************************)
EXTENDS Forms

CONSTANT MaxLieDimension   \* PHY_LIE_MAX_DIM

Generators(n) == 0 .. (n - 1)
Triples(n) == Generators(n) \X Generators(n) \X Generators(n)

\* fill_zeros
NoConstants(n) == [t \in Triples(n) |-> Zero]

\* phy_lie_algebra_validate; Jacobi is the coefficient of T_e.
Antisymmetric(n, f) == \A t \in Triples(n) : Plus(f[t], f[<<t[2], t[1], t[3]>>]) = Zero
Jacobi(n, f, a, b, c, e) ==
    SumOver(LAMBDA d : Plus(Times(f[<<b, c, d>>], f[<<a, d, e>>]),
                            Plus(Times(f[<<c, a, d>>], f[<<b, d, e>>]), Times(f[<<a, b, d>>], f[<<c, d, e>>]))), n)
Validate(n, f) ==
    /\ Antisymmetric(n, f)
    /\ \A t \in Triples(n) : \A e \in Generators(n) : Jacobi(n, f, t[1], t[2], t[3], e) = Zero

\* phy_lie_algebra_create
Algebra(names, f) ==
    LET n == Len(names) IN
    IF n = 0 THEN [status |-> "invalid"]
    ELSE IF n > MaxLieDimension THEN [status |-> "unsupported"]
    ELSE IF \E i, j \in 1 .. n : i # j /\ names[i] = names[j] THEN [status |-> "assumption"]
    ELSE IF ~Validate(n, f) THEN [status |-> "assumption"]
    ELSE [status |-> "ok", n |-> n, names |-> names, f |-> f]

\* phy_lie_adjoint_component: row and column as the structure constant has them.
Adjoint(g, generator, row, column) == g.f[<<generator, column, row>>]

\* phy_lie_killing_component
Killing(g, a, b) ==
    SumOver(LAMBDA c : SumOver(LAMBDA d : Times(Adjoint(g, a, c, d), Adjoint(g, b, d, c)), g.n), g.n)

-----------------------------------------------------------------------------
(* Elements *)

Element(g, coefficient(_)) == [status |-> "ok", algebra |-> g, at |-> [a \in Generators(g.n) |-> coefficient(a)]]
BasisElement(g, basis) ==
    IF basis >= g.n THEN [status |-> "invalid"]
    ELSE Element(g, LAMBDA a : IF a = basis THEN One ELSE Zero)
ElementAdd(x, y) ==
    IF x.algebra # y.algebra THEN [status |-> "invalid"] ELSE Element(x.algebra, LAMBDA a : Plus(x.at[a], y.at[a]))
ElementScale(x, scalar) == Element(x.algebra, LAMBDA a : Times(scalar, x.at[a]))

\* phy_lie_bracket
Bracket(x, y) ==
    LET g == x.algebra
        Term(a, b, c) == Times(Times(x.at[a], y.at[b]), g.f[<<a, b, c>>])
    IN  IF g # y.algebra THEN [status |-> "invalid"]
        ELSE Element(g, LAMBDA c : SumOver(LAMBDA a : SumOver(LAMBDA b : Term(a, b, c), g.n), g.n))

-----------------------------------------------------------------------------
(* Groups *)

\* phy_lie_group_create
Group(name, representation, compact, names, f) ==
    LET algebra == Algebra(names, f) IN
    IF representation = 0 THEN [status |-> "invalid"]
    ELSE IF algebra.status # "ok" THEN [status |-> algebra.status]
    ELSE [status |-> "ok", name |-> name, representation |-> representation, compact |-> compact, algebra |-> algebra]

\* epsilon3, make_epsilon3
Epsilon3(a, b, c) ==
    IF a = b \/ b = c \/ a = c THEN 0 ELSE IF <<a, b, c>> \in {<<0, 1, 2>>, <<1, 2, 0>>, <<2, 0, 1>>} THEN 1 ELSE -1
MakeEpsilon3(name, representation, compact) ==
    Group(name, representation, compact, <<"T1", "T2", "T3">>,
          [t \in Triples(3) |-> Constant(Epsilon3(t[1], t[2], t[3]))])

\* Variant: two boosts turn as two rotations do, which is another algebra.
LorentzSameWay ==
    [t \in Triples(6) |->
        IF Cardinality({i \in 1 .. 3 : t[i] >= 3}) \in {0, 2}
        THEN Constant(Epsilon3(t[1] % 3, t[2] % 3, t[3] % 3)) ELSE Zero]

\* make_lorentz: three rotations, then three boosts, two of which turn the
\* other way.
LorentzConstants ==
    [t \in Triples(6) |->
        LET boosts == {i \in 1 .. 3 : t[i] >= 3}
            epsilon == Epsilon3(t[1] % 3, t[2] % 3, t[3] % 3)
        IN  IF boosts \in {{}, {2, 3}, {1, 3}} THEN Constant(epsilon)
            ELSE IF boosts = {1, 2} THEN Constant(-epsilon) ELSE Zero]

MakeLorentz == Group("SO(1,3)", 4, FALSE, <<"J1", "J2", "J3", "K1", "K2", "K3">>, LorentzConstants)

\* make_su3: the table of nonzero constants, in halves of one or of the root of
\* three, and set_antisymmetric for each pair in cyclic order.
Su3Table ==
    {<<<<0, 1, 2>>, 2, FALSE>>, <<<<0, 3, 6>>, 1, FALSE>>, <<<<0, 4, 5>>, -1, FALSE>>,
     <<<<1, 3, 5>>, 1, FALSE>>, <<<<1, 4, 6>>, 1, FALSE>>, <<<<2, 3, 4>>, 1, FALSE>>,
     <<<<2, 5, 6>>, -1, FALSE>>, <<<<3, 4, 7>>, 1, TRUE>>, <<<<5, 6, 7>>, 1, TRUE>>}
RootThree == Root(Constant(3))
Su3Value(row) == Times(Fraction(row[2], 2), IF row[3] THEN RootThree ELSE One)
Cyclic(t) == {t, <<t[2], t[3], t[1]>>, <<t[3], t[1], t[2]>>}
Su3Constants ==
    [t \in Triples(8) |->
        LET forward == {row \in Su3Table : t \in Cyclic(row[1])}
            backward == {row \in Su3Table : <<t[2], t[1], t[3]>> \in Cyclic(row[1])}
        IN  IF forward # {} THEN Su3Value(CHOOSE row \in forward : TRUE)
            ELSE IF backward # {} THEN Negated(Su3Value(CHOOSE row \in backward : TRUE)) ELSE Zero]

MakeSu3 == Group("SU(3)", 3, TRUE, <<"T1", "T2", "T3", "T4", "T5", "T6", "T7", "T8">>, Su3Constants)

\* phy_lie_group_builtin
Kinds == {"U1", "SU2", "SO3", "SU3", "SO13"}
Builtin(kind) ==
    CASE kind = "U1" -> Group("U(1)", 1, TRUE, <<"Q">>, NoConstants(1))
      [] kind = "SU2" -> MakeEpsilon3("SU(2)", 2, TRUE)
      [] kind = "SO3" -> MakeEpsilon3("SO(3)", 3, TRUE)
      [] kind = "SU3" -> MakeSu3
      [] kind = "SO13" -> MakeLorentz
=============================================================================
