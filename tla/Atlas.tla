------------------------------- MODULE Atlas -------------------------------
(***************************************************************************)
(* Changes of coordinates: src/src/component (basis.c, map.c, atlas.c).  A *)
(* map gives each coordinate of its target as a scalar in those of its     *)
(* source; here the maps take the origin to the origin, and a scalar is an *)
(* expansion there.  An atlas keeps charts of one space and transitions    *)
(* between them, each with its inverse, and takes a transition only when   *)
(* every triangle of charts still commutes.                                *)
(*                                                                         *)
(* The byte budgets are not modelled.  The limits on components and terms  *)
(* of a transform are TooLarge.                                            *)
(***************************************************************************)
EXTENDS Forms

CONSTANTS Bases,              \* the bases callers hold: [name, n, space, coordinates]
          MaxAtlasCharts,     \* limits.max_charts
          MaxTransitions,     \* limits.max_transitions
          MaxCocycleChecks,   \* limits.max_cocycle_checks
          MaxTransformTerms   \* limits.max_transform_terms

ASSUME AtlasAssumption ==
    /\ \A basis \in Bases : basis.n \in 1 .. Axes /\ basis.coordinates \in BOOLEAN
    /\ {MaxAtlasCharts, MaxTransitions, MaxCocycleChecks, MaxTransformTerms} \subseteq Nat

VARIABLES charts,       \* sequence of bases, the first from the beginning
          transitions   \* sequence of transitions

atlasVars == <<charts, transitions>>

-----------------------------------------------------------------------------
(* map.c *)

\* phy_coordinate_map_create and build_jacobian: a row for each target axis.
CoordinateMap(source, target, at) ==
    IF ~source.coordinates \/ ~target.coordinates THEN [status |-> "type"]
    ELSE IF source = target THEN [status |-> "assumption"]
    ELSE [status |-> "ok", source |-> source, target |-> target, at |-> at,
          jacobian |-> [i \in (0 .. target.n - 1) \X (0 .. source.n - 1) |-> Diff(at[i[1]], i[2])]]

\* phy_coordinate_map_pullback_scalar; the map's rules as a substitution.
Rules(map) == [axis \in 0 .. Axes - 1 |-> IF axis < map.target.n THEN map.at[axis] ELSE Zero]
PullbackScalar(map, scalar) == Substituted(scalar, Rules(map))

\* phy_coordinate_map_pullback_form: minors of the Jacobian.  at has a component
\* for each increasing tuple of target axes.
PullbackForm(map, degree, at) ==
    LET JacobianMinor(targets, sources) ==
            Determinant([i \in Indices(degree, 2) |-> map.jacobian[<<targets[i[1] + 1], sources[i[2] + 1]>>]], degree)
        pulled == Evaluated([t \in Increasing(map.target.n, degree) |-> PullbackScalar(map, at[t])])
    IN  [s \in Increasing(map.source.n, degree) |->
           Through(LAMBDA sum, t : Plus(sum, Times(pulled[t], JacobianMinor(t, s))), Zero,
                   Combinations[map.target.n][degree])]

\* phy_coordinate_map_pushforward_vector_along: components along the map.
PushforwardVector(map, at) ==
    [t \in 0 .. (map.target.n - 1) |-> SumOver(LAMBDA s : Times(map.jacobian[<<t, s>>], at[s]), map.source.n)]

\* verify_inverse_maps
InverseTo(map, back) ==
    \A pair \in {<<map, back>>, <<back, map>>} : \A axis \in 0 .. (pair[1].source.n - 1) :
        PullbackScalar(pair[1], pair[2].at[axis]) = Coordinate(axis)

\* phy_basis_transition_create
Transition(source, target, there, back) ==
    LET forward == CoordinateMap(source, target, there)
        inverse == CoordinateMap(target, source, back)
    IN  IF source.space # target.space \/ source.n # target.n THEN [status |-> "type"]
        ELSE IF forward.status # "ok" THEN forward
        ELSE IF ~InverseTo(forward, inverse) THEN [status |-> "assumption"]
        ELSE [status |-> "ok", forward |-> forward, inverse |-> inverse]

\* phy_basis_transition_pullback_tensor: a lower slot by the Jacobian, an upper
\* one by that of the inverse, brought to the source first.
TooLarge(n, rank) == n ^ rank * n ^ rank > MaxTransformTerms
PullbackTensor(transition, t) ==
    LET map == transition.forward
        back == transition.inverse
        places == Indices(t.n, Rank(t))
        pulled == Evaluated([i \in places |-> PullbackScalar(map, t.at[i])])
        upper == Evaluated([i \in Indices(t.n, 2) |-> PullbackScalar(map, back.jacobian[i])])
        Factor(slot, s, e) == IF t.variance[slot] = "lower" THEN map.jacobian[<<e, s>>] ELSE upper[<<s, e>>]
        Flat(k) == [slot \in 1 .. Rank(t) |-> (k \div t.n ^ (Rank(t) - slot)) % t.n]
        Term(s, e) == Across(LAMBDA p, slot : Times(p, Factor(slot, s[slot], e[slot])), pulled[e], 1, Rank(t))
    IN  IF TooLarge(t.n, Rank(t)) THEN Refusal("limit")
        ELSE Tensor(t.n, t.variance, [s \in places |-> SumOver(LAMBDA k : Term(s, Flat(k)), t.n ^ Rank(t))])

-----------------------------------------------------------------------------
(* atlas.c *)

Contains(basis) == \E i \in DOMAIN charts : charts[i] = basis

\* phy_atlas_transition_map on a list of transitions: the first that joins the
\* two, from either side.
Joins(transition, source, target) ==
    \/ transition.forward.source = source /\ transition.forward.target = target
    \/ transition.inverse.source = source /\ transition.inverse.target = target
Joined2(list, source, target) == {k \in DOMAIN list : Joins(list[k], source, target)}
Reversed(transition) == [transition EXCEPT !.forward = transition.inverse, !.inverse = transition.forward]
Between(list, source, target) ==
    LET first == CHOOSE k \in Joined2(list, source, target) : \A m \in Joined2(list, source, target) : k <= m
    IN  IF list[first].forward.source = source THEN list[first] ELSE Reversed(list[first])

\* phy_atlas_verify_cocycles: the triangles in the order of the loops, an axis
\* at a time, until one fails or the checks run out.
Triangles ==
    SelectSeq(Joined([i \in 1 .. Len(charts) ^ 3 |->
                        LET a == ((i - 1) \div Len(charts) ^ 2) + 1
                            b == (((i - 1) \div Len(charts)) % Len(charts)) + 1
                            c == ((i - 1) % Len(charts)) + 1
                        IN  <<<<charts[a], charts[b], charts[c]>>>>]),
              LAMBDA t : Cardinality({t[1], t[2], t[3]}) = 3)
VerifyCocycles(list) ==
    LET Missing(t) == \E pair \in {<<1, 2>>, <<2, 3>>, <<1, 3>>} : Joined2(list, t[pair[1]], t[pair[2]]) = {}
        Map(a, b) == Between(list, a, b).forward
        Commutes(t, axis) == PullbackScalar(Map(t[1], t[2]), Map(t[2], t[3]).at[axis]) = Map(t[1], t[3]).at[axis]
        Check(acc, t, axis) ==
            IF acc.status # "ok" THEN acc
            ELSE IF acc.checks >= MaxCocycleChecks THEN [acc EXCEPT !.status = "limit"]
            ELSE IF ~Commutes(t, axis) THEN [acc EXCEPT !.status = "assumption"]
            ELSE [acc EXCEPT !.checks = @ + 1]
        Triangle(acc, t) ==
            IF Missing(t) THEN acc ELSE Across(LAMBDA a, axis : Check(a, t, axis), acc, 0, charts[1].n - 1)
    IN  Through(Triangle, [status |-> "ok", checks |-> 0], Triangles)

\* phy_atlas_create
CreateAtlas == \E first \in Bases : first.coordinates /\ charts = <<first>> /\ transitions = <<>>

\* phy_atlas_add_chart
ChartRefused(basis) ==
    \/ Contains(basis) \/ ~basis.coordinates
    \/ basis.space # charts[1].space \/ basis.n # charts[1].n
    \/ Len(charts) >= MaxAtlasCharts
AtlasAddChart(basis) ==
    /\ charts' = IF ChartRefused(basis) THEN charts ELSE Append(charts, basis)
    /\ UNCHANGED transitions

\* phy_atlas_add_transition: entered, verified with all the others, and taken
\* out again when a triangle fails.
AddTransitionUnverified(list, source, target, there, back) ==
    LET made == Transition(source, target, there, back)
    IN  IF source = target \/ ~Contains(source) \/ ~Contains(target) THEN list
        ELSE IF Joined2(list, source, target) # {} \/ Len(list) >= MaxTransitions THEN list
        ELSE IF made.status # "ok" THEN list ELSE Append(list, made)

AddTransitionTo(list, source, target, there, back) ==
    LET Entered(made) ==
            IF made.status = "ok" /\ VerifyCocycles(Append(list, made)).status = "ok" THEN Append(list, made) ELSE list
    IN  IF source = target \/ ~Contains(source) \/ ~Contains(target) THEN list
        ELSE IF Joined2(list, source, target) # {} \/ Len(list) >= MaxTransitions THEN list
        ELSE Entered(Transition(source, target, there, back))

AtlasAddTransition(source, target, there, back) ==
    /\ transitions' = AddTransitionTo(transitions, source, target, there, back)
    /\ UNCHANGED charts

\* phy_atlas_pullback_tensor: by the transition registered for the two charts;
\* no path of transitions is looked for.
AtlasPullback(source, target, t) ==
    IF Joined2(transitions, source, target) = {} THEN Refusal("assumption")
    ELSE PullbackTensor(Between(transitions, source, target), t)
=============================================================================
