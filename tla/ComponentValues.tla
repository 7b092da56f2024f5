-------------------------- MODULE ComponentValues --------------------------
(***************************************************************************)
(* Component values of abstract tensors: src/src/component/bridge.c and    *)
(* basis.c.  A binding gives some index spaces a basis (here its           *)
(* dimension) and some heads component tensors; the value of a monomial at *)
(* chosen free indices is a sum over assignments of its dummies, built one *)
(* dummy at a time: a factor is multiplied in as soon as its indices are   *)
(* known, and a branch whose product is zero is cut.                       *)
(*                                                                         *)
(* A binding is [bases: space -> dimension, tensors: head -> [valence,     *)
(* entries]]; entries maps tuples of indices from 0 to numbers modulo      *)
(* Prime.  Budgets of steps, terms and bytes are not modelled.             *)
(***************************************************************************)
EXTENDS YoungTableaux

EmptyBinding == [bases |-> <<>>, tensors |-> <<>>]
With(f, key, value) == [k \in DOMAIN f \cup {key} |-> IF k = key THEN value ELSE f[k]]
Bound(status, binding) == [status |-> status, binding |-> binding]

\* phy_component_binding_add_basis: a second basis of a space is refused.
AddBasis(binding, space, dimension) ==
    IF space \in DOMAIN binding.bases
    THEN Bound(IF binding.bases[space] = dimension THEN "ok" ELSE "already", binding)
    ELSE Bound("ok", [binding EXCEPT !.bases = With(@, space, dimension)])

\* phy_component_binding_add_tensor: every slot in the basis bound to its space.
AddTensor(binding, head, tensor) ==
    IF head \in DOMAIN binding.tensors
    THEN Bound(IF binding.tensors[head] = tensor THEN "ok" ELSE "already", binding)
    ELSE IF \E s \in DOMAIN Heads[head].slots : Heads[head].slots[s] \notin DOMAIN binding.bases
    THEN Bound("uninitialized", binding)
    ELSE Bound("ok", [binding EXCEPT !.tensors = With(@, head, tensor)])

Outcome(status, value) == [status |-> status, value |-> value]

\* The census in its order: the places where a name appears first.
FirstUses(all) == SelectSeq([s \in DOMAIN all |-> s], LAMBDA s : \A t \in Uses(all, all[s]) : s <= t)
UseOf(all, i) == CHOOSE t \in Uses(all, i) : \A u \in Uses(all, i) : t <= u
FreeUses(m) == LET all == Indices(m) IN SelectSeq(FirstUses(all), LAMBDA s : ~IsDummy(all, all[s]))
DummyUses(m) == LET all == Indices(m) IN SelectSeq(FirstUses(all), LAMBDA s : IsDummy(all, all[s]))

\* What eval_prepare refuses.
Prepared(binding, m) ==
    LET all == Indices(m) IN
    IF \E s \in DOMAIN all : all[s].space \notin DOMAIN binding.bases THEN "uninitialized"
    ELSE IF \E f \in DOMAIN m.factors : m.factors[f].head \notin DOMAIN binding.tensors THEN "uninitialized"
    ELSE IF \E f \in DOMAIN m.factors : \E s \in DOMAIN m.factors[f].indices :
              binding.tensors[m.factors[f].head].valence[s] # m.factors[f].indices[s].up THEN "type"
    ELSE "ok"

\* Variant: a factor joins at the first of its dummies.
StageFirst(m, factor) ==
    LET all == Indices(m)
        dummies == DummyUses(m)
        own == {k \in DOMAIN dummies : \E s \in DOMAIN m.factors[factor].indices :
                    SameName(m.factors[factor].indices[s], all[dummies[k]])}
    IN  IF own = {} THEN 0 ELSE CHOOSE k \in own : \A j \in own : j >= k

\* The stage of a factor: 0, or the last of its dummies in census order.
Stage(m, factor) ==
    LET all == Indices(m)
        dummies == DummyUses(m)
        own == {k \in DOMAIN dummies : \E s \in DOMAIN m.factors[factor].indices :
                    SameName(m.factors[factor].indices[s], all[dummies[k]])}
    IN  IF own = {} THEN 0 ELSE CHOOSE k \in own : \A j \in own : j <= k

\* eval_stage: the product so far times the factors of this stage, read at the
\* values assigned to their names; 0 at the first zero factor.
EvalStage(binding, m, values, stage, product) ==
    LET all == Indices(m)
        Entry1(f) == binding.tensors[m.factors[f].head].entries[
                        [s \in DOMAIN m.factors[f].indices |-> values[UseOf(all, m.factors[f].indices[s])]]]
    IN  Through(LAMBDA p, f : IF p = 0 THEN 0 ELSE (p * Entry1(f)) % Prime, product,
                SelectSeq([f \in DOMAIN m.factors |-> f], LAMBDA f : Stage(m, f) = stage))

\* descend and accumulate
RECURSIVE Descend(_, _, _, _, _)
Descend(binding, m, values, stage, product) ==
    LET all == Indices(m)
        dummies == DummyUses(m)
    IN  IF product = 0 THEN 0
        ELSE IF stage = Len(dummies) THEN product
        ELSE LET use == dummies[stage + 1] IN
             Through(LAMBDA sum, v :
                       LET next == [values EXCEPT ![use] = v]
                       IN  (sum + Descend(binding, m, next, stage + 1,
                                          EvalStage(binding, m, next, stage + 1, product))) % Prime,
                     0, UpTo(binding.bases[all[use].space]))

\* phy_component_value_monomial
ValueMonomial(binding, m, free) ==
    LET all == Indices(m)
        uses == FreeUses(m)
        values == [s \in DOMAIN all |-> IF \E k \in DOMAIN uses : uses[k] = s
                                        THEN free[CHOOSE k \in DOMAIN uses : uses[k] = s] ELSE 0]
    IN  IF Prepared(binding, m) # "ok" THEN Outcome(Prepared(binding, m), 0)
        ELSE IF Len(free) # Len(uses) THEN Outcome("argument", 0)
        ELSE IF \E k \in DOMAIN uses : free[k] >= binding.bases[all[uses[k]].space] THEN Outcome("domain", 0)
        ELSE Outcome("ok", Descend(binding, m, values, 0, EvalStage(binding, m, values, 0, m.coefficient)))

\* phy_component_value_expression: every term names its free indices in an
\* order of its own; point gives each index its value.
ValueExpression(binding, e, point) ==
    LET Term(m) == LET all == Indices(m)  uses == FreeUses(m)
                   IN  IF FreeIndices(m) # e.free THEN Outcome("type", 0)
                       ELSE ValueMonomial(binding, m, [k \in DOMAIN uses |-> point[all[uses[k]]]])
    IN  Through(LAMBDA acc, m : IF acc.status # "ok" THEN acc
                                ELSE LET v == Term(m) IN
                                     IF v.status # "ok" THEN v
                                     ELSE Outcome("ok", (acc.value + v.value) % Prime),
                Outcome("ok", 0), e.terms)

\* verify_young_import: a tensor bound to a head with a declared tableau must
\* be its own projection, component by component.
VerifyYoung(binding, head) ==
    LET tensor == binding.tensors[head]
        m == Monomial(1, <<[head |-> head,
                            indices |-> [s \in DOMAIN Heads[head].slots |->
                                           [space |-> Heads[head].slots[s], name |-> s, up |-> tensor.valence[s]]]]>>)
        projected == YoungProject(m, 1, Heads[head].young)
        values == [at \in DOMAIN tensor.entries |->
                     ValueExpression(binding, projected, [i \in FreeIndices(m) |-> at[i.name]])]
        refusals == {values[at].status : at \in DOMAIN values} \ {"ok"}
    IN  IF ~HasYoung(head) THEN "ok"
        ELSE IF refusals # {} THEN CHOOSE r \in refusals : TRUE
        ELSE IF \A at \in DOMAIN values : values[at].value = tensor.entries[at] THEN "ok"
        ELSE "assumption"
=============================================================================
