------------------------------- MODULE Color -------------------------------
(***************************************************************************)
(* Color algebra and its components: src/src/qft/color.c and bridge.c.     *)
(* An index is a number, in the order the IR compares them.  An expression *)
(* is a sequence of terms [k, t]: a coefficient modulo Prime and a product *)
(* of factors [head, indices, power], an index met twice being summed.     *)
(* Names are not modelled, nor an N that is a compound expression.         *)
(***************************************************************************)
EXTENDS Lie

CONSTANTS MaxTrace,           \* PHY_COLOR_MAX_TRACE
          BasisDimension,     \* max_dimension of phy_basis_limits
          ComponentEntries    \* the smaller of max_dimension and max_entries of phy_component_limits

\* phy_color_create: n is [kind, value].
Color(n) ==
    IF n.kind \notin {"integer", "rational", "symbol"} THEN [status |-> "type"]
    ELSE IF n.kind = "rational" \/ (n.kind = "integer" /\ n.value < 2) THEN [status |-> "domain"]
    ELSE [status |-> "ok", n |-> n, fresh |-> 0]

AdjointDimension(color) == color.n.value * color.n.value - 1
AdjointIndex(node) == node.kind = "adjoint"
Factor(head, indices) == [head |-> head, indices |-> indices, power |-> 1]
Term(k, t) == [k |-> k % Prime, t |-> t]
Answer(terms) == [status |-> "ok", terms |-> terms]
Refused(status) == [status |-> status, terms |-> <<>>]

\* sort_refs: by insertion, and how many swaps that takes.
InsertRef(sorted, ref) ==
    SelectSeq(sorted, LAMBDA r : r <= ref) \o <<ref>> \o SelectSeq(sorted, LAMBDA r : r > ref)
SortRefs(refs) == Through(InsertRef, <<>>, refs)
Swaps(refs) == Inversions(refs)

\* phy_color_delta, _structure_constant, _symmetric_tensor
Delta(color, a, b) ==
    IF a = b THEN Answer(<<Term(AdjointDimension(color), <<>>)>>)
    ELSE Answer(<<Term(1, <<Factor("delta", SortRefs(<<a, b>>))>>)>>)

\* Variant: sorting three indices is taken for an even permutation.
StructureConstantUnsigned(color, a, b, c) ==
    IF a = b \/ a = c \/ b = c THEN Answer(<<>>)
    ELSE Answer(<<Term(1, <<Factor("f", SortRefs(<<a, b, c>>))>>)>>)

StructureConstant(color, a, b, c) ==
    IF a = b \/ a = c \/ b = c THEN Answer(<<>>)
    ELSE Answer(<<Term(IF Swaps(<<a, b, c>>) % 2 = 0 THEN 1 ELSE -1, <<Factor("f", SortRefs(<<a, b, c>>))>>)>>)

SymmetricTensor(color, a, b, c) == Answer(<<Term(1, <<Factor("d", SortRefs(<<a, b, c>>))>>)>>)

-----------------------------------------------------------------------------
(* Contraction *)

\* capped_add, count_ref: none, one or more than one.
CappedAdd(left, right) == IF left + right >= 2 THEN 2 ELSE left + right
CountInFactor(factor, ref) ==
    LET base == Through(LAMBDA count, r : IF r = ref THEN CappedAdd(count, 1) ELSE count, 0, factor.indices)
    IN  IF base # 0 /\ factor.power > 1 THEN 2 ELSE base
CountRef(terms, ref) ==
    Through(LAMBDA count, term : Through(LAMBDA c, factor : CappedAdd(c, CountInFactor(factor, ref)), count, term.t), 0, terms)

ScaledTerms(terms, k) == [i \in DOMAIN terms |-> Term(terms[i].k * k, terms[i].t)]
Renamed(terms, from, to) ==
    [i \in DOMAIN terms |-> [terms[i] EXCEPT !.t =
        [j \in DOMAIN @ |-> [@[j] EXCEPT !.indices = [s \in DOMAIN @ |-> IF @[s] = from THEN to ELSE @[s]]]]]]

\* phy_color_delta_contract
DeltaContract(color, a, b, terms) ==
    LET countA == CountRef(terms, a)
        countB == CountRef(terms, b)
        delta == Factor("delta", SortRefs(<<a, b>>))
    IN  IF a = b THEN Answer(ScaledTerms(terms, AdjointDimension(color)))
        ELSE IF countA > 1 \/ countB > 1 \/ (countA # 0 /\ countB # 0) THEN Refused("unsupported")
        ELSE IF countA = 0 /\ countB = 0 THEN Answer([i \in DOMAIN terms |-> [terms[i] EXCEPT !.t = <<delta>> \o @]])
        ELSE IF countA = 1 THEN Answer(Renamed(terms, a, b)) ELSE Answer(Renamed(terms, b, a))

\* phy_color_structure_constant_component; a constant, indices from one.
ConcreteGroup(n) == IF n = 2 THEN "SU2" ELSE "SU3"
StructureComponent(color, groups, a, b, c) ==
    IF 0 \in {a, b, c} THEN [status |-> "invalid"]
    ELSE IF color.n.kind # "integer" \/ color.n.value \notin {2, 3} THEN [status |-> "unsupported"]
    ELSE IF \E i \in {a, b, c} : i > AdjointDimension(color) THEN [status |-> "invalid"]
    ELSE [status |-> "ok", value |-> groups[ConcreteGroup(color.n.value)].algebra.f[<<a - 1, b - 1, c - 1>>]]

-----------------------------------------------------------------------------
(* Generators *)

\* A root of minus one stands for the imaginary unit.
ImaginaryUnit == CHOOSE i \in 1 .. Prime - 1 : (i * i + 1) % Prime = 0
Half == Inverse1[2]

\* phy_color_commutator: [T_a, T_b] is i f_abc T_c, with an index no one has
\* used; Fresh numbers the names fresh_color_index_name makes.
Commutator(color, Fresh(_), a, b) ==
    LET c == Fresh(color.fresh + 1)
        f == StructureConstant(color, a, b, c)
    IN  IF a = b THEN [color |-> color, terms |-> <<>>]
        ELSE [color |-> [color EXCEPT !.fresh = @ + 1],
              terms |-> [i \in DOMAIN f.terms |-> Term(ImaginaryUnit * f.terms[i].k, f.terms[i].t \o <<Factor("T", <<c>>)>>)]]

\* phy_color_trace: up to three generators; more stay a trace.
ColorTrace(color, indices) ==
    LET f == StructureConstant(color, indices[1], indices[2], indices[3]).terms
        d == SymmetricTensor(color, indices[1], indices[2], indices[3]).terms
    IN  CASE Len(indices) > MaxTrace -> Refused("term limit")
          [] Len(indices) = 0 -> Answer(<<Term(color.n.value, <<>>)>>)
          [] Len(indices) = 1 -> Answer(<<>>)
          [] Len(indices) = 2 -> Answer(ScaledTerms(Delta(color, indices[1], indices[2]).terms, Half))
          [] Len(indices) = 3 -> Answer(ScaledTerms(d, Half * Half) \o ScaledTerms(f, Half * Half * ImaginaryUnit))
          [] OTHER -> Answer(<<Term(1, <<Factor("trace", indices)>>)>>)

\* phy_color_casimir_fundamental, _adjoint
CasimirFundamental(color) == (AdjointDimension(color) * Inverse1[2 * color.n.value]) % Prime
CasimirAdjoint(color) == color.n.value

-----------------------------------------------------------------------------
(* bridge.c *)

Spaces4 == {"lorentz", "spinor", "adjoint", "fundamental"}

\* phy_qft_component_view_create: bases of the color spaces only for a number N
\* within the limits; the metric and its inverse, and a delta where it has a
\* basis.  A tensor is what was set, by indices in a chosen order.
Diagonal4(dimension, sign(_)) == [i \in {<<k, k>> : k \in 0 .. (dimension - 1)} |-> sign(i[1])]
ComponentView(n) ==
    LET color == Color(n)
        concrete == n.kind = "integer" /\ n.value <= BasisDimension
                    /\ AdjointDimension(color) <= BasisDimension /\ AdjointDimension(color) <= ComponentEntries
        Minkowski == Diagonal4(4, LAMBDA axis : IF axis = 0 THEN One ELSE Constant(-1))
        none == [status |-> "not initialized"]
    IN  IF color.status # "ok" THEN [status |-> color.status]
        ELSE [status |-> "ok", concreteN |-> IF concrete THEN n.value ELSE 0,
              dimension |-> [space \in Spaces4 |-> CASE space \in {"lorentz", "spinor"} -> 4
                                                     [] space = "adjoint" -> IF concrete THEN AdjointDimension(color) ELSE 0
                                                     [] space = "fundamental" -> IF concrete THEN n.value ELSE 0],
              tensors |-> [q \in {"metric", "inverse", "delta", "f"} |->
                             CASE q \in {"metric", "inverse"} -> [status |-> "ok", set |-> Minkowski]
                               [] q = "delta" -> IF concrete THEN [status |-> "ok", set |-> Diagonal4(AdjointDimension(color), LAMBDA a : One)]
                                                 ELSE none
                               [] q = "f" -> none]]

\* phy_qft_component_view_materialize: one that is there stays; f is set at the
\* increasing triples, and its declared antisymmetry does the rest.
Materialize(view, groups, quantity) ==
    LET g == groups[ConcreteGroup(view.concreteN)].algebra
        triples == {t \in Triples(g.n) : t[1] < t[2] /\ t[2] < t[3]}
    IN  IF view.tensors[quantity].status = "ok" THEN view
        ELSE IF quantity # "f" \/ view.concreteN \notin {2, 3} THEN [view EXCEPT !.status = "not initialized"]
        ELSE [view EXCEPT !.tensors["f"] = [status |-> "ok", set |-> [t \in triples |-> g.f[t]]]]

\* What a reader of the tensor sees: kQuantities declares f antisymmetric and
\* the others symmetric; what was never set is zero.
ReadComponent(view, quantity, index) ==
    LET set == view.tensors[quantity].set
        sorted == SortRefs(index)
    IN  IF quantity = "f" /\ Repeats(index) THEN Zero
        ELSE IF sorted \notin DOMAIN set THEN Zero
        ELSE IF quantity = "f" THEN Signed(set[sorted], IF Swaps(index) % 2 = 0 THEN 1 ELSE -1) ELSE set[sorted]
=============================================================================
