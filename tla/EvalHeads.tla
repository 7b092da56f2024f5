----------------------------- MODULE EvalHeads -----------------------------
(***************************************************************************)
(* The heads a notebook cell may apply, as src/src/eval/dispatch.c         *)
(* evaluates them: which kinds of object each takes, what it checks of     *)
(* them, what its result is and holds on to, and which operands it records *)
(* as dependencies of the result (publish, publish_many, publish_borrowed).*)
(* EvalEnv has the table, the bindings and the sweep in detail; here a     *)
(* sweep is one step.                                                      *)
(*                                                                         *)
(* A thing is an object on the heap, named by its kind and a number.  It   *)
(* holds the addresses of others (its chart, its basis: Of); a part (the   *)
(* algebra of a group, the Ricci tensor of a bundle, the basis of a view)  *)
(* has an owner and is freed with it; index spaces and tensor heads live   *)
(* in a pool that only a reset empties.  A listed thing has an entry in    *)
(* the table.  Component values, names and scalars are left out; slots of  *)
(* one tensor are treated alike, so tensors have one slot.                 *)
(***************************************************************************)
EXTENDS Integers, FiniteSets, Functions

CONSTANTS
    MaxOfKind,     \* bound: things of one kind, parts apart, on the heap
    TableSize,     \* PHY_EVAL_MAX_OBJECTS
    TopDegree,     \* dimension of every manifold
    Topics         \* bound: what a session stays within: its heads, the things
                   \* it has on the heap (of a kind, in the pool), the names it
                   \* binds, the results it nests in one command

VARIABLES
    things,    \* the heap: id to thing
    listed,    \* things with an entry in env->objects
    named,     \* what names are bound to
    results,   \* results of the running command
    shown,     \* the value of the last command if no name was given it
    topic      \* what the session stays within

headVars == <<things, listed, named, results, shown, topic>>

Kinds == {"chart", "manifold", "tensor", "form", "group", "algebra", "element", "lieForm",
          "curvature", "space", "head", "monomial", "expression", "basis", "componentTensor",
          "vector", "matrix", "map", "transition", "atlas", "grView", "qftView"}
Ids == Kinds \X (1 .. 2 * MaxOfKind)
Nothing == <<"scalar", 0>>
Kind(t) == t[1]
Pooled(t) == Kind(t) \in {"space", "head"}

\* A thing by the addresses it holds: of gives those with a role, all the
\* charts of an atlas or the heads of a product's factors.
Thing(of) == [of |-> of, all |-> {}, deps |-> {}, owner |-> Nothing, degree |-> 0, links |-> {}]
Copy(heads) == [Thing(<<>>) EXCEPT !.all = heads]
Of(t) == things[t].of
Holds(t) == Range(Of(t)) \cup things[t].all

HeadsInit ==
    /\ things = <<>> /\ listed = {} /\ named = {} /\ results = {} /\ shown = Nothing
    /\ topic \in Topics

-----------------------------------------------------------------------------
(* Evaluating operands and publishing results *)

\* arg_value: a name that is bound, or a head nested in this one.
OperandsOf(kind) == {t \in named \cup results : Kind(t) = kind}
May(head) == head \in topic.heads /\ Cardinality(results) < topic.nested

\* An address that is not in use; there is one as long as there is room.
Unused(kind) == {t \in Ids : Kind(t) = kind /\ t \notin DOMAIN things}
Fresh(kind) == CHOOSE t \in Unused(kind) : TRUE
Room(kinds) ==
    /\ Cardinality(DOMAIN things) + Cardinality(kinds) <= topic.things
    /\ \A kind \in kinds :
         /\ Unused(kind) # {}
         /\ Cardinality({t \in DOMAIN things : Kind(t) = kind /\ things[t].owner = Nothing}) < topic.each

\* The heap with what a command has made, alone or with a part it owns.
Alone(t, thing) == [u \in {t} |-> thing]
WithPart(t, thing, p, part) == [u \in {t, p} |-> IF u = t THEN thing ELSE [part EXCEPT !.owner = t]]
Joined(made) ==
    [t \in DOMAIN things \cup DOMAIN made |-> IF t \in DOMAIN made THEN made[t] ELSE things[t]]

\* eval_register: the result enters the table with the operands that have an
\* entry there.
Recorded(operands) == operands \cap listed

\* publish and publish_many: made is the new things, result the one that is
\* registered.
Publish(made, result, operands) ==
    /\ Cardinality(listed) < TableSize
    /\ things' = Joined([made EXCEPT ![result].deps = Recorded(operands)])
    /\ listed' = listed \cup {result} /\ results' = results \cup {result}
    /\ UNCHANGED <<named, shown, topic>>

\* A result that is one thing.
PublishOne(kind, thing, operands) ==
    Room({kind}) /\ Publish(Alone(Fresh(kind), thing), Fresh(kind), operands)

\* publish_borrowed: a part of an operand is registered against its owner.
PublishOwned(part, owner) ==
    /\ Cardinality(listed) < TableSize
    /\ things' = [things EXCEPT ![part].deps = IF part \in listed THEN @ ELSE Recorded({owner})]
    /\ listed' = listed \cup {part} /\ results' = results \cup {part}
    /\ UNCHANGED <<named, shown, topic>>

\* A head that edits its operand, or returns it as it is.
HandBack(t) == results' = results \cup {t} /\ UNCHANGED <<listed, named, shown, topic>>

-----------------------------------------------------------------------------
(* Abstract tensors *)

\* eval_index_space and eval_tensor_head look at the table before they declare
\* anything; what they declare belongs to the pool.
Declare(kind, thing) ==
    /\ Cardinality({t \in DOMAIN things : Pooled(t)}) < topic.pooled
    /\ PublishOne(kind, thing, {})

IndexSpace ==
    May("IndexSpace") /\ Declare("space", Thing(<<>>))

TensorHead ==
    May("TensorHead") /\ \E s \in OperandsOf("space") :
        Declare("head", Thing([space |-> s]))

\* A bound head applied to indices of its slots' spaces.
TensorHeadApplication ==
    May("Application") /\ \E h \in {t \in named : Kind(t) = "head"} :
        PublishOne("monomial", Copy({h}), {})

Abstract == OperandsOf("monomial") \cup OperandsOf("expression")
Heads(x) == things[x].all

\* An expression is returned as it is.
TensorCanonicalize ==
    May("TensorCanonicalize") /\ \E x \in Abstract :
        IF Kind(x) = "expression" THEN HandBack(x) /\ UNCHANGED things
        ELSE PublishOne("monomial", Copy(Heads(x)), {x})

\* YoungProject, YoungReduce, GarnirRelation: copies of the input's factors.
YoungProject == May("YoungProject") /\ \E x \in Abstract :
                    PublishOne("expression", Copy(Heads(x)), {x})
YoungReduce == May("YoungReduce") /\ \E x \in Abstract :
                    PublishOne("expression", Copy(Heads(x)), {x})
GarnirRelation == May("GarnirRelation") /\ \E x \in OperandsOf("monomial") :
                    PublishOne("expression", Copy(Heads(x)), {x})

\* A tableau is set in the head itself, which is the value.
YoungDeclare == May("YoungDeclare") /\ \E h \in OperandsOf("head") : HandBack(h) /\ UNCHANGED things

\* eval_abstract_product: the factors are copied, and nothing is recorded.
AbstractProduct ==
    May("Product") /\ \E x, y \in Abstract :
        PublishOne(IF "expression" \in {Kind(x), Kind(y)} THEN "expression" ELSE "monomial",
                   Copy(Heads(x) \cup Heads(y)), {})

-----------------------------------------------------------------------------
(* Components, bases, maps and atlases *)

\* ComponentBasis[V, {x, ...}]; coordinates are free names (EvalEnv).
ComponentBasis ==
    May("ComponentBasis") /\ \E s \in OperandsOf("space") :
        PublishOne("basis", Thing([space |-> s]), {s})

ComponentTensorOf(h, b) == Thing([head |-> h, basis |-> b])

\* phy_component_tensor_create wants each basis in its slot's space.
TensorComponents ==
    May("TensorComponents") /\ \E h \in OperandsOf("head"), b \in OperandsOf("basis") :
        /\ Of(b).space = Of(h).space
        /\ PublishOne("componentTensor", ComponentTensorOf(h, b), {h, b})

\* phy_component_tensor_import_legacy copies the entries.
ComponentLift ==
    May("ComponentLift") /\ \E t \in OperandsOf("tensor"), h \in OperandsOf("head"), b \in OperandsOf("basis") :
        /\ Of(b).space = Of(h).space
        /\ PublishOne("componentTensor", ComponentTensorOf(h, b), {t, h, b})

CoordinateMap ==
    May("CoordinateMap") /\ \E a, b \in OperandsOf("basis") :
        /\ a # b
        /\ PublishOne("map", Thing([source |-> a, target |-> b]), {a, b})

\* phy_basis_transition_create: charts of one space, and distinct, for their
\* coordinates must differ.
BasisTransition ==
    May("BasisTransition") /\ \E a, b \in OperandsOf("basis") :
        /\ a # b /\ Of(a).space = Of(b).space
        /\ PublishOne("transition", Thing([source |-> a, target |-> b]), {a, b})

\* Matrix and vector results are copies and hold nothing: Jacobian, the maps of
\* vectors (PushforwardVector, PullbackCovector), and linear algebra.
Jacobian ==
    May("Jacobian") /\ \E m \in OperandsOf("map") \cup OperandsOf("transition") :
        PublishOne("matrix", Thing(<<>>), {})
MapVector ==
    May("MapVector") /\ \E m \in OperandsOf("map") \cup OperandsOf("transition"), v \in OperandsOf("vector") :
        PublishOne("vector", Thing(<<>>), {})
VectorHead == May("Linear") /\ PublishOne("vector", Thing(<<>>), {})
MatrixHead == May("Linear") /\ PublishOne("matrix", Thing(<<>>), {})

\* Dot of a matrix and a vector or matrix; of two vectors it is a scalar.
Dot ==
    May("Linear") /\ OperandsOf("matrix") # {} /\ \E x \in OperandsOf("vector") \cup OperandsOf("matrix") :
        PublishOne(Kind(x), Thing(<<>>), {})

\* Transpose, Inverse, RowReduce; Determinant and Trace are scalars.
LinearUnary == May("Linear") /\ OperandsOf("matrix") # {} /\ PublishOne("matrix", Thing(<<>>), {})

LinearSolve ==
    /\ May("Linear") /\ OperandsOf("matrix") # {} /\ OperandsOf("vector") # {}
    /\ PublishOne("vector", Thing(<<>>), {})

\* Variant: the result records the tensor it came from, not the transition.
ComponentPullbackUnowned(owner, source, target, t) ==
    /\ Of(t).basis = target
    /\ PublishOne("componentTensor", ComponentTensorOf(Of(t).head, source), {t})

\* eval_component_pullback: the tensor lives on the target, its image on the
\* source; the image holds on to the source through the owner only.
ComponentPullback(owner, source, target, t) ==
    /\ Of(t).basis = target
    /\ PublishOne("componentTensor", ComponentTensorOf(Of(t).head, source), {owner, t})

TransitionPullback ==
    May("TransitionPullback") /\ \E tr \in OperandsOf("transition"), t \in OperandsOf("componentTensor") :
        ComponentPullback(tr, Of(tr).source, Of(tr).target, t)

\* phy_atlas_create, phy_atlas_add_chart: distinct charts of one space.
Atlas ==
    May("Atlas") /\ \E charts \in SUBSET OperandsOf("basis") :
        /\ charts # {} /\ Cardinality({Of(b).space : b \in charts}) = 1
        /\ PublishOne("atlas", [Thing(<<>>) EXCEPT !.all = charts], charts)

\* phy_atlas_transition_map finds a transition from either end.
Linked(atlas, a, b) == <<a, b>> \in things[atlas].links \/ <<b, a>> \in things[atlas].links

\* phy_atlas_add_transition edits the atlas; its maps hold both charts, which
\* are charts of the atlas already.
AtlasAddTransition ==
    May("AtlasAddTransition") /\ \E at \in OperandsOf("atlas"), a, b \in OperandsOf("basis") :
        /\ a # b /\ {a, b} \subseteq things[at].all /\ ~Linked(at, a, b)
        /\ things' = [things EXCEPT ![at].links = @ \cup {<<a, b>>}, ![at].all = @ \cup {a, b}]
        /\ HandBack(at)

AtlasPullback ==
    May("AtlasPullback") /\ \E at \in OperandsOf("atlas"), a, b \in OperandsOf("basis"),
                               t \in OperandsOf("componentTensor") :
        a # b /\ Linked(at, a, b) /\ ComponentPullback(at, a, b, t)

-----------------------------------------------------------------------------
(* Manifolds, forms and tensors on them *)

\* Manifold publishes its chart first.
Manifold ==
    /\ May("Manifold") /\ Room({"chart", "manifold"}) /\ Cardinality(listed) + 1 < TableSize
    /\ LET c == Fresh("chart")
           m == Fresh("manifold")
       IN  /\ things' = Joined([u \in {c, m} |-> IF u = c THEN Thing(<<>>)
                                                ELSE [Thing([chart |-> c]) EXCEPT !.deps = {c}]])
           /\ listed' = listed \cup {c, m} /\ results' = results \cup {m}
           /\ UNCHANGED <<named, shown, topic>>

FormOn(m, degree) ==
    [Thing([manifold |-> m, chart |-> Of(m).chart]) EXCEPT !.degree = degree]
TensorOn(x) == Thing([chart |-> Of(x).chart])

DifferentialForm ==
    May("DifferentialForm") /\ \E m \in OperandsOf("manifold"), degree \in 0 .. TopDegree :
        PublishOne("form", FormOn(m, degree), {m})

\* Metric and VectorField, and ComponentTensor: the tensor holds the chart,
\* which the manifold keeps alive.
TensorOnManifold ==
    May("Tensor") /\ \E m \in OperandsOf("manifold") :
        PublishOne("tensor", TensorOn(m), {m})

LieFormOf(algebra, m, degree) ==
    [Thing([algebra |-> algebra, manifold |-> m, chart |-> Of(m).chart]) EXCEPT !.degree = degree]

\* A Lie form owns a form for each colour: one stands for them.
PublishLieForm(algebra, m, degree, operands) ==
    LET f == Fresh("lieForm")
        part == Fresh("form")
    IN  /\ Room({"lieForm", "form"})
        /\ Publish(WithPart(f, LieFormOf(algebra, m, degree), part, FormOn(m, degree)), f, operands)

\* What a form or Lie form becomes: same manifold, same algebra.
Derived(x, degree, operands) ==
    IF Kind(x) = "form" THEN PublishOne("form", FormOn(Of(x).manifold, degree), operands)
    ELSE PublishLieForm(Of(x).algebra, Of(x).manifold, degree, operands)

Forms == OperandsOf("form") \cup OperandsOf("lieForm")

\* d of a top form is the scalar zero.
ExteriorD ==
    May("ExteriorD") /\ \E x \in Forms :
        IF things[x].degree = TopDegree THEN UNCHANGED headVars
        ELSE Derived(x, things[x].degree + 1, {x})

SameChart(x, y) == Of(x).chart = Of(y).chart

\* Variant: the vector's chart is not compared with the form's.
LieDerivativeAnyChart ==
    May("LieDerivative") /\ \E x \in OperandsOf("form"), v \in OperandsOf("tensor") :
        Derived(x, things[x].degree, {x, v})

\* phy_form_interior_product, phy_form_lie_derivative: a vector of the form's
\* chart.
InteriorProduct ==
    May("InteriorProduct") /\ \E x \in OperandsOf("form"), v \in OperandsOf("tensor") :
        /\ SameChart(x, v) /\ things[x].degree > 0
        /\ Derived(x, things[x].degree - 1, {x})
LieDerivative ==
    May("LieDerivative") /\ \E x \in OperandsOf("form"), v \in OperandsOf("tensor") :
        SameChart(x, v) /\ Derived(x, things[x].degree, {x, v})

\* The metric of a Hodge star or a volume form is a tensor of the same chart;
\* without one the manifold's signature serves.
HodgeStar ==
    May("HodgeStar") /\ \E x \in OperandsOf("form"), g \in OperandsOf("tensor") \cup {Nothing} :
        /\ g # Nothing => SameChart(x, g)
        /\ Derived(x, TopDegree - things[x].degree, {x})
Volume ==
    May("Volume") /\ \E m \in OperandsOf("manifold"), g \in OperandsOf("tensor") \cup {Nothing} :
        /\ g # Nothing => SameChart(m, g)
        /\ PublishOne("form", FormOn(m, TopDegree), {m})

\* phy_geom_check_pair and its like for Lie forms.
CheckPair(x, y) == Of(x) = Of(y)

\* eval_form_wedge reads the kind of every factor but the first; what is not a
\* form has no manifold where a form has one, and phy_form_wedge refuses it.
Wedge ==
    May("Wedge") /\ \E x \in named \cup results, y \in OperandsOf("form") :
        /\ Kind(x) = "form" /\ CheckPair(x, y)
        /\ things[x].degree + things[y].degree <= TopDegree
        /\ Derived(x, things[x].degree + things[y].degree, {x, y})

\* eval_object_sum: terms of one kind, pairwise.
ObjectSum ==
    May("Sum") /\ \/ \E x, y \in Forms :
                       /\ Kind(x) = Kind(y) /\ CheckPair(x, y) /\ things[x].degree = things[y].degree
                       /\ Derived(x, things[x].degree, {x, y})
                  \/ \E x, y \in OperandsOf("element") :
                       /\ Of(x).algebra = Of(y).algebra
                       /\ PublishOne("element", Thing(Of(x)), {x, y})
                  \/ \E x, y \in Abstract :
                       PublishOne("expression", Copy(Heads(x) \cup Heads(y)), {x, y})

\* eval_object_scale
ObjectScale ==
    May("Scale") /\ \/ \E x \in Forms : Derived(x, things[x].degree, {x})
                    \/ \E x \in OperandsOf("element") : PublishOne("element", Thing(Of(x)), {x})
                    \/ \E x \in OperandsOf("expression") : PublishOne("expression", Copy(Heads(x)), {x})
                    \/ \E x \in OperandsOf("monomial") : PublishOne("monomial", Copy(Heads(x)), {})

-----------------------------------------------------------------------------
(* Lie algebras and gauge fields *)

\* A group owns its algebra.
LieGroup ==
    LET g == Fresh("group")
        a == Fresh("algebra")
    IN  /\ May("LieGroup") /\ Room({"group", "algebra"})
        /\ Publish(WithPart(g, Thing([algebra |-> a]), a, Thing(<<>>)), g, {})

LieAlgebra == May("LieAlgebra") /\ \E g \in OperandsOf("group") : PublishOwned(Of(g).algebra, g)

ElementOf(a) == PublishOne("element", Thing([algebra |-> a]), {a})
Generator == May("Generator") /\ \E a \in OperandsOf("algebra") : ElementOf(a)
LieElement == May("LieElement") /\ \E a \in OperandsOf("algebra") : ElementOf(a)

\* phy_lie_bracket and phy_lie_form_bracket_wedge.
LieBracket ==
    May("LieBracket") /\ \/ \E x, y \in OperandsOf("element") :
                              /\ Of(x).algebra = Of(y).algebra
                              /\ PublishOne("element", Thing(Of(x)), {x, y})
                         \/ \E x, y \in OperandsOf("lieForm") :
                              /\ CheckPair(x, y) /\ things[x].degree + things[y].degree <= TopDegree
                              /\ Derived(x, things[x].degree + things[y].degree, {x, y})

\* LieForm and GaugeConnection.
LieFormHead ==
    May("LieForm") /\ \E a \in OperandsOf("algebra"), m \in OperandsOf("manifold"), degree \in 0 .. TopDegree :
        PublishLieForm(a, m, degree, {a, m})

\* FieldStrength and Bianchi take a connection.
FieldStrength ==
    May("FieldStrength") /\ \E x \in OperandsOf("lieForm") :
        things[x].degree = 1 /\ TopDegree >= 2 /\ Derived(x, 2, {x})

CovariantD ==
    May("CovariantD") /\ \E x, y \in OperandsOf("lieForm") :
        /\ things[x].degree = 1 /\ CheckPair(x, y) /\ things[y].degree < TopDegree
        /\ Derived(x, things[y].degree + 1, {x, y})

\* The degree of the target tells a connection from a curvature.
GaugeVariation ==
    May("GaugeVariation") /\ \E x, y \in OperandsOf("lieForm") :
        /\ things[x].degree \in {1, 2} /\ CheckPair(x, y) /\ things[y].degree = 0
        /\ Derived(x, things[x].degree, {x, y})

YangMillsLagrangian ==
    May("YangMillsLagrangian") /\ \E x \in OperandsOf("lieForm"), g \in OperandsOf("tensor") :
        /\ SameChart(x, g) /\ things[x].degree = 2
        /\ PublishOne("form", FormOn(Of(x).manifold, TopDegree), {x, g})

ColorComponent ==
    May("ColorComponent") /\ \E x \in OperandsOf("lieForm") :
        \E part \in {t \in DOMAIN things : things[t].owner = x} : PublishOwned(part, x)

-----------------------------------------------------------------------------
(* Curvature bundles and component views *)

\* phy_gr_compute holds the metric and owns the tensors it computes.
Curvature ==
    May("Curvature") /\ Room({"curvature", "tensor"}) /\ \E g \in OperandsOf("tensor") :
        LET r == Fresh("curvature")
            part == Fresh("tensor")
        IN  Publish(WithPart(r, Thing([metric |-> g, chart |-> Of(g).chart]), part, TensorOn(g)), r, {g})

\* InverseMetric, Christoffel, Riemann, RiemannMixed, Ricci, Einstein.
CurvaturePart ==
    May("CurvaturePart") /\ \E r \in OperandsOf("curvature") :
        \E part \in {t \in DOMAIN things : things[t].owner = r} : PublishOwned(part, r)

\* The Weyl tensor is made on demand, and is then a part like the others.
Weyl == May("Weyl") /\ \E r \in OperandsOf("curvature") :
            \E part \in {t \in DOMAIN things : things[t].owner = r} : PublishOwned(part, r)

\* The result of a derivative holds the chart and is recorded against both
\* operands.
DerivativeAlong(r, t) == SameChart(r, t) /\ PublishOne("tensor", TensorOn(r), {r, t})
GeodesicAcceleration ==
    May("GeodesicAcceleration") /\ \E r \in OperandsOf("curvature"), t \in OperandsOf("tensor") :
        DerivativeAlong(r, t)
TensorCovariantDerivative ==
    May("CovariantDerivative") /\ \E r \in OperandsOf("curvature"), t \in OperandsOf("tensor") :
        DerivativeAlong(r, t)

\* The things a view makes: a space and a head in the pool, a basis and a
\* tensor of its own.
ViewKinds == {"space", "head", "basis", "componentTensor"}
View(kind) ==
    LET v == Fresh(kind)  s == Fresh("space")  h == Fresh("head")
        b == Fresh("basis")  t == Fresh("componentTensor") IN
    [u \in {v, s, h, b, t} |->
        CASE u = v -> Thing([space |-> s, head |-> h, basis |-> b, tensor |-> t])
          [] u = s -> Thing(<<>>)
          [] u = h -> Thing([space |-> s])
          [] u = b -> [Thing([space |-> s]) EXCEPT !.owner = v]
          [] u = t -> [ComponentTensorOf(h, b) EXCEPT !.owner = v]]

\* phy_gr_component_view_create copies the bundle's tensors.
GRComponents ==
    May("GRComponents") /\ Room({"grView"} \cup ViewKinds) /\ \E r \in OperandsOf("curvature") :
        Publish(View("grView"), Fresh("grView"), {r})

\* The names of the pool's QFT spaces are fixed: one system a session.
QFTSystem ==
    /\ May("QFTSystem") /\ Room({"qftView"} \cup ViewKinds)
    /\ \A t \in DOMAIN things : Kind(t) # "qftView" /\ ~Pooled(t)
    /\ Publish(View("qftView"), Fresh("qftView"), {})

\* GRSpace, GRBasis, GRHead, GRTensor and their QFT namesakes.
ViewPart(v) ==
    \E part \in Range(Of(v)) : PublishOwned(part, v)

GRPart == May("GRPart") /\ \E v \in OperandsOf("grView") : ViewPart(v)
QFTPart == May("QFTPart") /\ \E v \in OperandsOf("qftView") : ViewPart(v)

-----------------------------------------------------------------------------
(* Questions: heads whose value is a scalar *)

\* Component, by the kind of what is asked of.
ComponentKinds == {"componentTensor", "vector", "matrix", "map", "transition", "element", "form",
                   "lieForm", "tensor"}

\* Degree, Rank, Dimensions and Dimension.
Measured(head) ==
    CASE head = "Degree" -> {"form", "lieForm"}
      [] head = "Rank" -> {"tensor", "head", "monomial", "expression", "componentTensor", "vector", "matrix"}
      [] head = "Dimensions" -> {"basis", "componentTensor", "tensor", "vector", "matrix"}
      [] head = "Dimension" -> {"manifold", "form", "tensor", "space", "basis", "vector", "lieForm",
                                "algebra", "element", "group"}

\* ZeroQ takes one object, EquivalentQ two of one kind.
ZeroQKinds == {"form", "lieForm", "tensor", "element", "vector", "matrix"}
EquivalentQKinds == {"form", "lieForm", "vector", "matrix"}

\* phy_form_equivalent subtracts: forms of one manifold and one degree.
Comparable(x, y) ==
    /\ Kind(x) = Kind(y) /\ Kind(x) \in EquivalentQKinds
    /\ Kind(x) \in {"form", "lieForm"} => CheckPair(x, y) /\ things[x].degree = things[y].degree

\* StructureConstant and Killing ask the algebra; RicciScalar, Kretschmann and
\* WeylSquared the bundle; AtlasVerify the atlas.
Answerable(t) ==
    \/ Kind(t) \in ComponentKinds \cup ZeroQKinds \cup {"algebra", "curvature", "atlas"}
    \/ \E head \in {"Degree", "Rank", "Dimensions", "Dimension"} : Kind(t) \in Measured(head)

-----------------------------------------------------------------------------
(* The end of a command *)

\* What the marked entries lead to through recorded dependencies.
Closure(roots) ==
    LET marked[s \in SUBSET DOMAIN things] ==
            LET more == (UNION {things[t].deps : t \in s}) \ s
            IN  IF more = {} THEN s ELSE marked[s \cup more]
    IN  marked[roots]

\* eval_sweep: unmarked entries leave the table, and what they own is freed
\* with its parts.
SweepThings(roots) ==
    LET kept == Closure(roots)
        Stays(t) == \/ Pooled(t)
                    \/ things[t].owner = Nothing /\ t \in kept
                    \/ things[t].owner # Nothing /\ things[t].owner \in kept
    IN  /\ listed' = kept
        /\ things' = [t \in {u \in DOMAIN things : Stays(u)} |->
                        IF t \in kept THEN things[t] ELSE [things[t] EXCEPT !.deps = {}]]

\* phy_eval_command: a command fails, ends with a scalar, or with an object,
\* which it may bind to a new name or to one that had another value.
Fail ==
    /\ results # {} /\ results' = {} /\ shown' = Nothing
    /\ SweepThings(named) /\ UNCHANGED <<named, topic>>

Ask ==
    /\ \/ {t \in named \cup results : Answerable(t)} # {}
       \/ {x \in named \cup results : \E y \in named \cup results : Comparable(x, y)} # {}
    /\ results' = {} /\ shown' = Nothing
    /\ SweepThings(named) /\ UNCHANGED <<named, topic>>

FinishHeads ==
    /\ results # {} /\ results' = {}
    /\ \E value \in results, old \in named \cup {Nothing} :
         /\ named' \in {named, (named \ {old}) \cup {value}}
         /\ Cardinality(named') <= topic.names
         /\ shown' = IF value \in named' THEN Nothing ELSE value
         /\ SweepThings(named' \cup {value})
    /\ UNCHANGED topic

\* Clear[x]
Clear ==
    /\ results = {} /\ results' = {} /\ shown' = Nothing
    /\ \E old \in named : named' = named \ {old} /\ SweepThings(named \ {old})
    /\ UNCHANGED topic

Tensors == \/ IndexSpace \/ TensorHead \/ TensorHeadApplication \/ TensorCanonicalize
           \/ YoungProject \/ YoungReduce \/ GarnirRelation \/ YoungDeclare \/ AbstractProduct
Components == \/ ComponentBasis \/ TensorComponents \/ ComponentLift \/ CoordinateMap
              \/ BasisTransition \/ Jacobian \/ MapVector \/ TransitionPullback
              \/ VectorHead \/ MatrixHead \/ Dot \/ LinearUnary \/ LinearSolve
              \/ Atlas \/ AtlasAddTransition \/ AtlasPullback
Geometry == \/ Manifold \/ DifferentialForm \/ TensorOnManifold \/ ExteriorD \/ InteriorProduct
            \/ LieDerivative \/ HodgeStar \/ Volume \/ Wedge \/ ObjectSum \/ ObjectScale
Gauge == \/ LieGroup \/ LieAlgebra \/ Generator \/ LieElement \/ LieBracket \/ LieFormHead \/ FieldStrength
         \/ CovariantD \/ GaugeVariation \/ YangMillsLagrangian \/ ColorComponent
Bundles == \/ Curvature \/ CurvaturePart \/ Weyl \/ GeodesicAcceleration
           \/ TensorCovariantDerivative \/ GRComponents \/ QFTSystem
           \/ GRPart \/ QFTPart

HeadsNext == Tensors \/ Components \/ Geometry \/ Gauge \/ Bundles \/ Fail \/ Ask \/ FinishHeads \/ Clear

HeadsSpec == HeadsInit /\ [][HeadsNext]_headVars

-----------------------------------------------------------------------------
(* Properties *)

\* Whatever a live object holds the address of is alive: every address a head
\* puts into its result is covered by the dependencies it records, directly or
\* through what they record, whatever is swept in the meantime.
NothingDangles == \A t \in DOMAIN things : Holds(t) \subseteq DOMAIN things

\* What a thing lives on: the chart, or the algebra, that it holds or is.
LivesOn(t, home) == Kind(t) = home \/ home \in DOMAIN Of(t)
Home(t, home) == IF Kind(t) = home THEN t ELSE Of(t)[home]

\* Whatever an object that lives on a chart, or an algebra, was built from
\* lives on the same one, and a component tensor's basis is one of its head's
\* space.  Each head checks only its own operands; this is about chains of
\* them, and about the charts an atlas relates.
OperandsBelongTogether ==
    \A t \in listed :
        /\ \A u \in Closure({t}), home \in {"chart", "algebra"} :
             LivesOn(t, home) /\ LivesOn(u, home) => Home(t, home) = Home(u, home)
        /\ Kind(t) = "componentTensor" => Of(Of(t).basis).space = Of(Of(t).head).space
=============================================================================
