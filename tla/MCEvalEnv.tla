----------------------------- MODULE MCEvalEnv -----------------------------
(* The evaluator, from its two sides.  A behaviour is one of EvalEnv, the  *)
(* table and its sweep step by step under commands that may build anything *)
(* (three names for two bindings, three table slots over three blocks: a   *)
(* chain of dependencies with an object in the middle to free, and a slot  *)
(* for its successor to move down into); or one of EvalHeads, the heads a  *)
(* command may apply, with the sweep as one step.                          *)
EXTENDS EvalEnv, EvalHeads, TLC

CONSTANTS x, y, z, b1, b2, b3

VARIABLE side        \* "table" or "heads"

MCNames == {x, y, z}
MCBlocks == {b1, b2, b3}
MCSymmetry == Permutations(MCNames) \cup Permutations(MCBlocks)

(* Each session stays within one topic: a small set of heads whose results *)
(* feed one another, so that chains of three or four objects fit.          *)

Session(heads, n, each, pooled, names, nested) ==
    [heads |-> heads, things |-> n, each |-> each, pooled |-> pooled, names |-> names, nested |-> nested]

MCTopics ==
    {Session({"IndexSpace", "TensorHead", "Application", "TensorCanonicalize", "YoungProject"}, 6, 2, 3, 2, 2),
     Session({"IndexSpace", "TensorHead", "Application", "YoungReduce", "GarnirRelation", "YoungDeclare",
              "Product", "Sum", "Scale"}, 6, 2, 3, 2, 2),
     Session({"IndexSpace", "TensorHead", "ComponentBasis", "TensorComponents", "BasisTransition",
              "TransitionPullback"}, 8, 2, 3, 3, 1),
     Session({"IndexSpace", "TensorHead", "ComponentBasis", "TensorComponents", "Atlas",
              "AtlasAddTransition", "AtlasPullback"}, 7, 2, 2, 4, 1),
     Session({"IndexSpace", "ComponentBasis", "CoordinateMap", "Jacobian", "MapVector", "Linear"}, 6, 2, 2, 3, 1),
     Session({"Manifold", "Tensor", "IndexSpace", "TensorHead", "ComponentBasis", "ComponentLift"}, 8, 2, 2, 3, 1),
     Session({"Manifold", "DifferentialForm", "Tensor", "InteriorProduct", "LieDerivative", "ExteriorD"}, 7, 2, 0, 2, 1),
     Session({"Manifold", "DifferentialForm", "Tensor", "HodgeStar", "Volume", "Wedge", "Sum", "Scale"}, 6, 2, 0, 3, 1),
     Session({"LieGroup", "LieAlgebra", "Generator", "LieElement", "LieBracket", "Sum", "Scale"}, 8, 2, 0, 3, 2),
     Session({"Manifold", "LieGroup", "LieAlgebra", "LieForm", "FieldStrength", "CovariantD", "ColorComponent"}, 8, 2, 0, 3, 1),
     Session({"Manifold", "LieGroup", "LieAlgebra", "LieForm", "GaugeVariation"}, 10, 3, 0, 3, 1),
     Session({"Manifold", "LieGroup", "LieAlgebra", "LieForm", "LieBracket", "Tensor",
              "YangMillsLagrangian"}, 8, 2, 0, 3, 1),
     Session({"Manifold", "Tensor", "Curvature", "CurvaturePart", "Weyl", "GeodesicAcceleration", "CovariantDerivative"}, 7, 2, 0, 3, 1),
     Session({"Manifold", "Tensor", "Curvature", "GRComponents", "GRPart"}, 10, 2, 2, 2, 1),
     Session({"QFTSystem", "QFTPart"}, 5, 2, 2, 3, 2)}

MCInit == /\ Init /\ HeadsInit
          /\ \/ side = "table" /\ topic = CHOOSE t \in MCTopics : TRUE
             \/ side = "heads"
MCNext == \/ side = "table" /\ Next /\ UNCHANGED <<side, headVars>>
          \/ side = "heads" /\ HeadsNext /\ UNCHANGED <<side, vars>>
MCSpec == MCInit /\ [][MCNext]_<<side, vars, headVars>>
=============================================================================
