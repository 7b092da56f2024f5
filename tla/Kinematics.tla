----------------------------- MODULE Kinematics -----------------------------
(***************************************************************************)
(* Momenta, their products and the invariants of two particles scattering: *)
(* src/src/qft/lorentz.c and mandelstam.c.  Coefficients are numbers       *)
(* modulo Prime.  An expression is a sum of atoms with coefficients:       *)
(* products of momenta, squared masses and the three invariants.  A        *)
(* substitution acts on each atom, so products of atoms add nothing.  For  *)
(* index questions an expression is the list of what its nodes are, in the *)
(* order they are visited.                                                 *)
(***************************************************************************)
EXTENDS Scalars

LOCAL INSTANCE FiniteSetsExt

CONSTANTS MaxMomenta,    \* PHY_LORENTZ_MAX_MOMENTA
          CensusBudget   \* LORENTZ_CENSUS_BUDGET

\* phy_lorentz_metric_create; no mass and no conservation are declared.
NoMass == 0
LorentzMetric(dimension) ==
    IF dimension = 0 THEN [status |-> "invalid"]
    ELSE [status |-> "ok", dimension |-> dimension, momenta |-> <<>>, mass |-> <<>>,
          conserved |-> FALSE, eliminated |-> 0, replacement |-> <<>>]

-----------------------------------------------------------------------------
(* Indices *)

LorentzIndex(name, upper) == [kind |-> "index", name |-> name, upper |-> upper]
OwnsIndex(node) == node.kind = "index"

\* phy_lorentz_metric_tensor: a trace is the dimension, an index met twice at
\* the same height is an error.
MetricTensor(metric, a, b, before(_, _)) ==
    IF ~OwnsIndex(a) \/ ~OwnsIndex(b) THEN [status |-> "type"]
    ELSE IF a.name # b.name
    THEN [status |-> "ok", slots |-> IF a = b \/ before(a, b) THEN <<a, b>> ELSE <<b, a>>]
    ELSE IF a.upper = b.upper THEN [status |-> "type"]
    ELSE [status |-> "ok", trace |-> metric.dimension]

\* census_record, census_walk, phy_lorentz_index_census: a use is counted under
\* its name at its height; a name too many or a node too many stops it.
CensusRecord(state, index, capacity) ==
    LET known == {i \in DOMAIN state.uses : state.uses[i].name = index.name}
        Count(use) == IF index.upper THEN [use EXCEPT !.upper = @ + 1] ELSE [use EXCEPT !.lower = @ + 1]
        at == CHOOSE i \in known : TRUE
    IN  IF known # {} THEN [state EXCEPT !.uses[at] = Count(@)]
        ELSE IF Len(state.uses) = capacity THEN [state EXCEPT !.status = "unsupported"]
        ELSE [state EXCEPT !.uses = Append(@, Count([name |-> index.name, upper |-> 0, lower |-> 0]))]
Census(nodes, capacity) ==
    LET Visit(state, node) ==
            IF state.status # "ok" THEN state
            ELSE IF state.budget = 0 THEN [state EXCEPT !.status = "timeout"]
            ELSE LET paid == [state EXCEPT !.budget = @ - 1]
                 IN  IF OwnsIndex(node) THEN CensusRecord(paid, node, capacity) ELSE paid
        done == Through(Visit, [status |-> "ok", uses |-> <<>>, budget |-> CensusBudget], nodes)
    IN  IF done.status = "ok" THEN [status |-> "ok", uses |-> done.uses] ELSE [status |-> done.status, uses |-> <<>>]

\* phy_lorentz_rename_index: at either height.
RenameIndex(nodes, from, to) ==
    [i \in DOMAIN nodes |-> IF OwnsIndex(nodes[i]) /\ nodes[i].name = from
                            THEN LorentzIndex(to, nodes[i].upper) ELSE nodes[i]]

-----------------------------------------------------------------------------
(* Momenta and vectors *)

Slots(metric) == DOMAIN metric.momenta
SlotOf(metric, name) ==
    IF \E i \in Slots(metric) : metric.momenta[i] = name
    THEN CHOOSE i \in Slots(metric) : metric.momenta[i] = name ELSE 0

\* phy_lorentz_momentum: a name already there keeps its slot.
Momentum(metric, name) ==
    IF SlotOf(metric, name) # 0 THEN metric
    ELSE IF Len(metric.momenta) = MaxMomenta THEN [metric EXCEPT !.status = "unsupported"]
    ELSE [metric EXCEPT !.momenta = Append(@, name), !.mass = Append(@, NoMass)]

\* A vector has a coefficient for each momentum that was put in, which may be
\* zero.
VectorZero == <<>>
VectorOf(slot) == [i \in {slot} |-> 1]
Coefficient(vector, i) == IF i \in DOMAIN vector THEN vector[i] ELSE 0
VectorAdd(left, right) ==
    [i \in DOMAIN left \cup DOMAIN right |-> (Coefficient(left, i) + Coefficient(right, i)) % Prime]
VectorSub(left, right) ==
    [i \in DOMAIN left \cup DOMAIN right |-> (Coefficient(left, i) - Coefficient(right, i)) % Prime]
VectorScale(vector, scalar) == [i \in DOMAIN vector |-> (vector[i] * scalar) % Prime]

\* Atoms are <<kind, i, j>>; phy_lorentz_dot puts its momenta in order.
Dot(i, j) == IF i <= j THEN <<"dot", i, j>> ELSE <<"dot", j, i>>
MassSquared(i) == <<"mass", i, 0>>
Invariant(k) == <<"invariant", k, 0>>

\* An atom whose coefficient is zero is gone.
Gathered(atoms, coefficient(_)) ==
    LET value == Evaluated([a \in atoms |-> coefficient(a) % Prime])
    IN  [a \in {b \in atoms : value[b] # 0} |-> value[a]]
At(expr, a) == IF a \in DOMAIN expr THEN expr[a] ELSE 0
Atom(a) == [b \in {a} |-> 1]
Added(left, right) == Gathered(DOMAIN left \cup DOMAIN right, LAMBDA a : At(left, a) + At(right, a))
Multiple(expr, n) == Gathered(DOMAIN expr, LAMBDA a : n * expr[a])

\* phy_lorentz_vector_dot
VectorDot(left, right) ==
    LET pairs == (DOMAIN left) \X (DOMAIN right)
    IN  Gathered({Dot(p[1], p[2]) : p \in pairs},
                 LAMBDA a : MapThenSumSet(LAMBDA p : left[p[1]] * right[p[2]], {p \in pairs : Dot(p[1], p[2]) = a}))

-----------------------------------------------------------------------------
(* Conservation and mass shells *)

\* Variant: the other momenta keep their sign.
DeclareConservationUnsigned(metric, relation, slot) ==
    IF slot \notin DOMAIN relation \/ relation[slot] = 0 THEN [metric EXCEPT !.status = "domain"]
    ELSE [metric EXCEPT !.conserved = TRUE, !.eliminated = slot,
              !.replacement = [i \in DOMAIN relation \ {slot} |-> (relation[i] * Inverse1[relation[slot]]) % Prime]]

\* phy_lorentz_declare_conservation: a later one replaces an earlier one.
DeclareConservation(metric, relation, slot) ==
    IF slot \notin DOMAIN relation \/ relation[slot] = 0 THEN [metric EXCEPT !.status = "domain"]
    ELSE [metric EXCEPT !.conserved = TRUE, !.eliminated = slot,
              !.replacement = [i \in DOMAIN relation \ {slot} |-> (-relation[i] * Inverse1[relation[slot]]) % Prime]]

\* phy_lorentz_declare_on_shell; masses are named by positive numbers here.
DeclareOnShell(metric, slot, mass) ==
    IF slot \notin Slots(metric) THEN [metric EXCEPT !.status = "type"] ELSE [metric EXCEPT !.mass[slot] = mass]

\* phy_lorentz_reduce_vector
ReduceVector(metric, vector) ==
    LET slot == metric.eliminated IN
    IF ~metric.conserved \/ slot \notin DOMAIN vector THEN vector
    ELSE VectorAdd([i \in DOMAIN vector \ {slot} |-> vector[i]], VectorScale(metric.replacement, vector[slot]))

\* phy_cas_substitute: every atom at once.
Substitute(expr, rules) ==
    LET images == Evaluated([a \in DOMAIN expr |-> IF a \in DOMAIN rules THEN rules[a] ELSE Atom(a)])
    IN  Gathered(UNION {DOMAIN images[a] : a \in DOMAIN expr},
                 LAMBDA b : MapThenSumSet(LAMBDA a : expr[a] * At(images[a], b), DOMAIN expr))

\* phy_lorentz_reduce: the momentum that conservation gives is replaced in all
\* its products, then squares on their shell by the masses.
ConservationRules(metric) ==
    LET slot == metric.eliminated
        Other(j) == IF j = slot THEN metric.replacement ELSE VectorOf(j)
        JOf(a) == IF a[2] = slot THEN a[3] ELSE a[2]
    IN  [a \in {Dot(slot, j) : j \in Slots(metric)} |-> VectorDot(metric.replacement, Other(JOf(a)))]
OnShellRules(metric) ==
    [a \in {Dot(i, i) : i \in {k \in Slots(metric) : metric.mass[k] # NoMass}} |-> Atom(MassSquared(metric.mass[a[2]]))]
Reduce(metric, expr) ==
    Substitute(IF metric.conserved THEN Substitute(expr, ConservationRules(metric)) ELSE expr, OnShellRules(metric))

-----------------------------------------------------------------------------
(* mandelstam.c *)

Routings == {"peskin", "all incoming"}
Particles == 1 .. 4
SquareOf(mass) == Atom(MassSquared(mass))

\* build_definitions: the channels of the first particle with each other one.
CrossedSign(routing) == IF routing = "peskin" THEN -1 ELSE 1
ChannelVector(momentum, left, right, sign) ==
    IF sign > 0 THEN VectorAdd(VectorOf(momentum[left]), VectorOf(momentum[right]))
    ELSE VectorSub(VectorOf(momentum[left]), VectorOf(momentum[right]))
DefinitionOf(momentum, routing, k) ==
    LET channel == ChannelVector(momentum, 1, k + 1, IF k = 1 THEN 1 ELSE CrossedSign(routing))
    IN  VectorDot(channel, channel)

\* pair_channel: s is 1, t is 2 and u is 3.
PairChannel(left, right) ==
    LET table == <<<<0, 1, 2, 3>>, <<1, 0, 3, 2>>, <<2, 3, 0, 1>>, <<3, 2, 1, 0>>>>
    IN  Atom(Invariant(table[left][right]))

\* Variant: the sign of the crossed pairs is forgotten.
PairValueUncrossed(mass, routing, left, right) ==
    IF left = right THEN SquareOf(mass[left])
    ELSE Multiple(Added(PairChannel(left, right), Multiple(Added(SquareOf(mass[left]), SquareOf(mass[right])), -1)), Inverse1[2])

\* build_pair_table
PairValue(mass, routing, left, right) ==
    LET value == Multiple(Added(PairChannel(left, right),
                                Multiple(Added(SquareOf(mass[left]), SquareOf(mass[right])), -1)), Inverse1[2])
        crossed == routing = "peskin" /\ (left <= 2) # (right <= 2)
    IN  IF left = right THEN SquareOf(mass[left]) ELSE IF crossed THEN Multiple(value, -1) ELSE value

\* declare_routing: the fourth momentum is the one that goes.
RoutingRelation(momentum, routing) ==
    Through(LAMBDA relation, k : IF routing = "peskin" /\ k >= 3 THEN VectorSub(relation, VectorOf(momentum[k]))
                                 ELSE VectorAdd(relation, VectorOf(momentum[k])),
            VectorZero, <<1, 2, 3, 4>>)
DeclareRouting(metric, momentum, mass, routing) ==
    Through(LAMBDA m, k : DeclareOnShell(m, momentum[k], mass[k]),
            DeclareConservation(metric, RoutingRelation(momentum, routing), momentum[4]), <<1, 2, 3, 4>>)

\* phy_mandelstam_create: the metric is changed, whatever it declared before.
Mandelstam(metric, momentum, mass, routing) ==
    IF \E k \in Particles : momentum[k] \notin Slots(metric) THEN [status |-> "type", metric |-> metric]
    ELSE IF \E k, l \in Particles : k # l /\ momentum[k] = momentum[l] THEN [status |-> "assumption", metric |-> metric]
    ELSE [status |-> "ok", metric |-> DeclareRouting(metric, momentum, mass, routing),
          definition |-> [k \in 1 .. 3 |-> DefinitionOf(momentum, routing, k)],
          dots |-> [p \in Particles \X Particles |-> Dot(momentum[p[1]], momentum[p[2]])],
          values |-> [p \in Particles \X Particles |-> PairValue(mass, routing, p[1], p[2])],
          masses |-> Through(LAMBDA sum, k : Added(sum, SquareOf(mass[k])), [a \in {} |-> 0], <<1, 2, 3, 4>>)]

\* phy_mandelstam_reduce: one pair after the other.
MandelstamReduce(kinematics, expr) ==
    Through(LAMBDA e, p : Substitute(e, [a \in {kinematics.dots[p]} |-> kinematics.values[p]]), expr,
            <<<<1, 1>>, <<1, 2>>, <<1, 3>>, <<1, 4>>, <<2, 2>>, <<2, 3>>, <<2, 4>>, <<3, 3>>, <<3, 4>>, <<4, 4>>>>)

\* phy_mandelstam_eliminate: the sum of the masses less the other two.
MandelstamEliminate(kinematics, expr, k) ==
    LET replacement == Through(LAMBDA sum, other : IF other = k THEN sum
                                                   ELSE Added(sum, Multiple(Atom(Invariant(other)), -1)),
                               kinematics.masses, <<1, 2, 3>>)
    IN  Substitute(expr, [a \in {Invariant(k)} |-> replacement])
=============================================================================
