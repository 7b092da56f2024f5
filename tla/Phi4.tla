-------------------------------- MODULE Phi4 --------------------------------
(***************************************************************************)
(* The scalar theory of src/qft/scalar.c: its Lagrangian and the field     *)
(* equation, the diagrams of one loop with their weights, the analysis of  *)
(* a graph of up to four vertices, and the counterterms.                   *)
(*                                                                         *)
(* An expression is a function from monomials in the symbols below to      *)
(* coefficients modulo Prime, as the CAS collects it.                      *)
(***************************************************************************)
EXTENDS Kinematics

LOCAL INSTANCE FiniteSetsExt

-----------------------------------------------------------------------------
(* Expressions *)

Symbols == {"field", "kinetic", "box", "mass", "coupling", "momentum2", "epsilon", "gamma", "log", "pi"}
Unit == [s \in Symbols |-> 0]
To(symbol, power) == [Unit EXCEPT ![symbol] = power]
Combined(a, b) == [s \in Symbols |-> a[s] + b[s]]
Rational(n, d) == ((n % Prime) * Inverse1[d % Prime]) % Prime
Collect(terms) ==
    LET Sum(mono) == MapThenSumSet(LAMBDA i : IF terms[i][2] = mono THEN terms[i][1] ELSE 0, DOMAIN terms) % Prime
    IN  [mono \in {x \in {terms[i][2] : i \in DOMAIN terms} : Sum(x) # 0} |-> Sum(mono)]
Single(n, d, factors) == Collect(<<<<Rational(n, d), Through(Combined, Unit, factors)>>>>)
SumOf(a, b) ==
    LET Of(e, x) == IF x \in DOMAIN e THEN e[x] ELSE 0
        Sum(x) == (Of(a, x) + Of(b, x)) % Prime
    IN  [mono \in {x \in (DOMAIN a) \cup DOMAIN b : Sum(x) # 0} |-> Sum(mono)]
ProductOf(a, b) ==
    LET Sum(mono) == MapThenSumSet(LAMBDA p : IF Combined(p[1], p[2]) = mono THEN a[p[1]] * b[p[2]] ELSE 0,
                                   (DOMAIN a) \X DOMAIN b) % Prime
    IN  [mono \in {x \in {Combined(p[1], p[2]) : p \in (DOMAIN a) \X DOMAIN b} : Sum(x) # 0} |-> Sum(mono)]

-----------------------------------------------------------------------------
(* The model *)

Model(dimension) ==
    [dimension |-> dimension, status |-> IF dimension = 0 THEN "invalid" ELSE IF dimension > 4 THEN "unsupported" ELSE "ok"]

MassTerm == Single(-1, 2, <<To("mass", 2), To("field", 2)>>)
Interaction == Single(-1, 24, <<To("coupling", 1), To("field", 4)>>)
ScalarLagrangian == SumOf(Single(1, 2, <<To("kinetic", 1)>>), SumOf(MassTerm, Interaction))
EquationOfMotion ==
    SumOf(Single(1, 1, <<To("box", 1)>>),
          SumOf(Single(1, 1, <<To("mass", 2), To("field", 1)>>), Single(1, 6, <<To("coupling", 1), To("field", 3)>>)))
InversePropagator == SumOf(Single(1, 1, <<To("momentum2", 1)>>), Single(-1, 1, <<To("mass", 2)>>))
Propagator(model) == <<"propagator", "momentum2", "mass", model.dimension>>
VertexStripped == Single(-1, 1, <<To("coupling", 1)>>)

-----------------------------------------------------------------------------
(* Diagrams.  An integral is "none" for a tree. *)

DiagramValidate(model, diagram) ==
    IF /\ 4 * diagram.vertices = 2 * diagram.lines + diagram.legs
       /\ diagram.lines + 1 >= diagram.vertices
       /\ diagram.loops = diagram.lines - diagram.vertices + 1
       /\ diagram.degree = model.dimension * diagram.loops - 2 * diagram.lines
       /\ (diagram.loops = 0) = (diagram.integral = "none")
    THEN "ok" ELSE "assumption"

Diagram(vertices, lines, loops, legs, degree, symmetry, weight, integral) ==
    [vertices |-> vertices, lines |-> lines, loops |-> loops, legs |-> legs, degree |-> degree,
     symmetry |-> symmetry, weight |-> weight, integral |-> integral]

DiagramExpression(model, diagram) ==
    IF DiagramValidate(model, diagram) # "ok" THEN [status |-> "assumption"]
    ELSE [status |-> "ok", weight |-> diagram.weight, integral |-> diagram.integral]

Tree2to2 == Diagram(1, 0, 0, 4, 0, Rational(1, 1), VertexStripped, "none")
MasterIntegral(model, head, invariant) ==
    IF invariant = "none" THEN <<head, "mass", model.dimension>> ELSE <<head, invariant, "mass", model.dimension>>
FillDiagram(model, tadpole, legs, invariant) ==
    LET size == IF tadpole THEN 1 ELSE 2 IN
    Diagram(size, size, 1, legs, model.dimension - 2 * size, Rational(1, 2),
            Single(1, 2, <<To("coupling", size)>>),
            MasterIntegral(model, IF tadpole THEN "tadpole" ELSE "bubble", invariant))
OneLoopDiagrams(model) ==
    <<FillDiagram(model, TRUE, 2, "none"), FillDiagram(model, FALSE, 4, "s"), FillDiagram(model, FALSE, 4, "t"),
      FillDiagram(model, FALSE, 4, "u")>>

-----------------------------------------------------------------------------
(* The analysis of a graph: vertices 1 .. vertices, legs the vertices the    *)
(* external legs end at, edges how many lines join two vertices.             *)

MaxGraphVertices == 4
MaxGraphLegs == 8

Factorial(n) == Across(LAMBDA product, k : product * k, 1, 2, n)
\* The next permutation in lexicographic order, or the same at the last one.
NextPermutation(p) ==
    LET Descends(i) == \E j \in (i + 1) .. Len(p) : p[j] > p[i]
        left == Max({i \in DOMAIN p : Descends(i)})
        right == Max({j \in DOMAIN p : p[j] > p[left]})
        swapped == [p EXCEPT ![left] = p[right], ![right] = p[left]]
    IN  [i \in DOMAIN p |-> IF i <= left THEN swapped[i] ELSE swapped[Len(p) + left + 1 - i]]
IsLast(p) == \A i \in 1 .. Len(p) - 1 : p[i] > p[i + 1]

\* Breadth first from the first vertex.
GraphIsConnected(graph) ==
    LET Neighbours(seen) == seen \cup {w \in 1 .. graph.vertices : \E v \in seen : graph.edges[v][w] # 0}
    IN  Across(LAMBDA seen, n : Neighbours(seen), {1}, 1, graph.vertices) = 1 .. graph.vertices

PermutationIsAutomorphism(graph, p) ==
    /\ \A k \in DOMAIN graph.legs : p[graph.legs[k]] = graph.legs[k]
    /\ \A v, w \in 1 .. graph.vertices : graph.edges[v][w] = graph.edges[p[v]][p[w]]
GraphAutomorphismCount(graph) ==
    While(LAMBDA s : ~s.done,
          LAMBDA s : [p |-> IF IsLast(s.p) THEN s.p ELSE NextPermutation(s.p), done |-> IsLast(s.p),
                      count |-> s.count + (IF PermutationIsAutomorphism(graph, s.p) THEN 1 ELSE 0)],
          [p |-> [v \in 1 .. graph.vertices |-> v], done |-> FALSE, count |-> 0],
          Factorial(graph.vertices)).count

VertexDegree(graph, v) ==
    Cardinality({k \in DOMAIN graph.legs : graph.legs[k] = v}) + 2 * graph.edges[v][v]
      + MapThenSumSet(LAMBDA w : graph.edges[v][w], (1 .. graph.vertices) \ {v})
InternalLines(graph) ==
    MapThenSumSet(LAMBDA v : MapThenSumSet(LAMBDA w : graph.edges[v][w], v .. graph.vertices), 1 .. graph.vertices)
\* A line from a vertex to itself taken for one of several parallel lines.
EdgeDenominatorFlat(graph) ==
    Across(LAMBDA product, v :
             Across(LAMBDA inner, w : inner * Factorial(graph.edges[v][w]), product, v, graph.vertices),
           1, 1, graph.vertices)

\* n! for n parallel lines, and also 2^n for n lines from a vertex to itself.
EdgeDenominator(graph) ==
    Across(LAMBDA product, v :
             Across(LAMBDA inner, w : inner * Factorial(graph.edges[v][w]),
                    product * Factorial(graph.edges[v][v]) * 2 ^ graph.edges[v][v], v + 1, graph.vertices),
           1, 1, graph.vertices)

GraphStatus(graph) ==
    CASE graph.vertices \notin 1 .. MaxGraphVertices \/ Len(graph.legs) > MaxGraphLegs -> "unsupported"
      [] \E k \in DOMAIN graph.legs : graph.legs[k] \notin 1 .. graph.vertices -> "assumption"
      [] \E v, w \in 1 .. graph.vertices : graph.edges[v][w] # graph.edges[w][v] -> "assumption"
      [] \E v \in 1 .. graph.vertices : VertexDegree(graph, v) # 4 -> "assumption"
      [] ~GraphIsConnected(graph) \/ InternalLines(graph) + 1 < graph.vertices -> "assumption"
      [] OTHER -> "ok"

GraphAnalyze(model, graph) ==
    IF GraphStatus(graph) # "ok" THEN [status |-> GraphStatus(graph)]
    ELSE LET lines == InternalLines(graph)
             loops == lines - graph.vertices + 1
             automorphisms == GraphAutomorphismCount(graph)
             denominator == EdgeDenominator(graph)
             symmetry == denominator * automorphisms
         IN  IF Factorial(graph.vertices) % automorphisms # 0 \/ (24 ^ graph.vertices) % denominator # 0
             THEN [status |-> "corrupt"]
             ELSE [status |-> "ok", lines |-> lines, loops |-> loops,
                   degree |-> model.dimension * loops - 2 * lines,
                   multiplicity |-> 24 ^ graph.vertices \div denominator,
                   automorphisms |-> automorphisms, labelings |-> Factorial(graph.vertices) \div automorphisms,
                   symmetry |-> symmetry,
                   weight |-> Single(1, symmetry, <<To("coupling", graph.vertices)>>)]

-----------------------------------------------------------------------------
(* Counterterms at one loop *)

PoleFactor(scheme) ==
    IF scheme = "MS" THEN Single(1, 1, <<To("epsilon", -1)>>)
    ELSE SumOf(Single(1, 1, <<To("epsilon", -1)>>),
               SumOf(Single(-1, 1, <<To("gamma", 1)>>), Single(1, 1, <<To("log", 1)>>)))
NormalizedPole(scheme) == ProductOf(PoleFactor(scheme), Single(1, 32, <<To("pi", -2)>>))
Renormalization(model, scheme) ==
    IF model.dimension # 4 THEN [status |-> "unsupported"]
    ELSE [status |-> "ok", field |-> Collect(<<>>),
          mass |-> ProductOf(Single(1, 1, <<To("coupling", 1)>>), NormalizedPole(scheme)),
          coupling |-> ProductOf(Single(3, 1, <<To("coupling", 1)>>), NormalizedPole(scheme))]
CountertermLagrangian(model, scheme) ==
    LET constants == Renormalization(model, scheme) IN
    IF constants.status # "ok" THEN constants
    ELSE [status |-> "ok",
          e |-> SumOf(ProductOf(MassTerm, constants.mass), ProductOf(Interaction, constants.coupling))]
=============================================================================
