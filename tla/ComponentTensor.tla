-------------------------- MODULE ComponentTensor --------------------------
(***************************************************************************)
(* Sparse component tensors: src/src/component (component.c and the import *)
(* of a dense tensor in bridge.c).  Only the least member of an orbit of   *)
(* the slot group is stored, and only while it is not zero; an access      *)
(* looks for that member along the group's stabilizer chain, cutting off   *)
(* what cannot improve on the best found.                                  *)
(*                                                                         *)
(* The group and its chain are what PermGroup builds; here the group is    *)
(* the set of all products of the head's generators.  A component is an    *)
(* integer.  Byte budgets and the step budget are not modelled.            *)
(***************************************************************************)
EXTENDS TensorSymmetry

CONSTANTS MaxCandidates,   \* limits.max_candidates
          MaxEntries       \* limits.max_entries

VARIABLE sparse   \* [n, valence, group, entries]

RECURSIVE Closed(_)
Closed(group) ==
    LET more == group \cup {[image |-> [slot \in DOMAIN g.image |-> g.image[h.image[slot]]], sign |-> g.sign * h.sign] :
                               g \in group, h \in group}
    IN  IF more = group THEN group ELSE Closed(more)

\* phy_component_tensor_create, with validate_realization and build_slot_group.
\* slots is a sequence of [dimension, variance], a base being its dimension here.
Realizable(slots, generators) ==
    \A g \in generators : \A slot \in DOMAIN slots : slots[g.image[slot]] = slots[slot]
Realized(slots, generators) ==
    IF ~Realizable(slots, generators) THEN [status |-> "type"]
    ELSE [status |-> "ok", slots |-> slots, entries |-> <<>>,
          group |-> Closed(generators \cup {[image |-> [slot \in DOMAIN slots |-> slot], sign |-> 1]})]

SparsePlaces(c) == {p \in [DOMAIN c.slots -> 0 .. 3] : \A slot \in DOMAIN p : p[slot] < c.slots[slot].dimension}
NegativeIdentity(c) == \E g \in c.group : g.sign < 0 /\ \A slot \in DOMAIN c.slots : g.image[slot] = slot

\* What phy_perm_chain_build files at a level: for every point of its orbit an
\* element that fixes the levels before and takes the level there.
Stabilizer(c, level) == {g \in c.group : \A s \in 1 .. level - 1 : g.image[s] = s}
OrbitOf(c, level) == {g.image[level] : g \in Stabilizer(c, level)}
Representative(c, level, point) == CHOOSE g \in Stabilizer(c, level) : g.image[level] = point

-----------------------------------------------------------------------------
(* Canonical indices *)

\* compare_candidate_to_best on the first count slots.
Worse(input, image, count, best) ==
    \E slot \in 1 .. count : /\ input[image[slot]] > best[slot]
                             /\ \A s \in 1 .. slot - 1 : input[image[s]] = best[s]

\* Whether a choice cannot improve on the best found: only a worse prefix says so,
\* an equal one may still show the component to be zero.
CutTies(input, image, count, best) ==
    best # <<>> /\ ~\E slot \in 1 .. count : input[image[slot]] < best[slot]
Cut(input, image, count, best) == best # <<>> /\ Worse(input, image, count, best)

\* visit_component_candidate
Visit(acc, input, image, sign) ==
    LET candidate == [slot \in DOMAIN input |-> input[image[slot]]]
        better == acc.best = <<>> \/ (candidate # acc.best /\ ~Worse(input, image, Len(input), acc.best))
    IN  IF acc.candidates >= MaxCandidates THEN [acc EXCEPT !.status = "timeout"]
        ELSE LET counted == [acc EXCEPT !.candidates = @ + 1]
             IN  IF better THEN [counted EXCEPT !.best = candidate, !.sign = sign]
                 ELSE IF candidate = acc.best /\ acc.sign # sign THEN [counted EXCEPT !.zero = TRUE]
                 ELSE counted

\* traverse_components: the choices of a level by the value they put there.
RECURSIVE Traverse(_, _, _, _, _, _)
Traverse(c, input, level, current, sign, acc) ==
    LET rank == Len(input)
        Value(point) == input[current[point]]
        choices == Joined([v \in 1 .. 4 |-> SelectSeq([p \in 1 .. rank |-> p],
                              LAMBDA p : p \in OrbitOf(c, level) /\ Value(p) = v - 1)])
        Choose(a, point) ==
            LET g == Representative(c, level, point)
                next == [slot \in 1 .. rank |-> current[g.image[slot]]]
            IN  IF a.status # "ok" \/ a.zero THEN a
                ELSE IF Cut(input, next, level, a.best) THEN a
                ELSE Traverse(c, input, level + 1, next, sign * g.sign, a)
    IN  IF acc.zero THEN acc
        ELSE IF level > rank THEN Visit(acc, input, current, sign)
        ELSE Through(Choose, acc, choices)

\* phy_component_tensor_canonical_indices
CanonicalIndices(c, place) ==
    LET start == [status |-> "ok", best |-> <<>>, sign |-> 1, zero |-> FALSE, candidates |-> 0]
        found == Traverse(c, place, 1, [slot \in DOMAIN place |-> slot], 1, start)
    IN  IF place = <<>> THEN [status |-> "ok", place |-> place, sign |-> 1]
        ELSE IF NegativeIdentity(c) THEN [status |-> "ok", place |-> place, sign |-> 0]
        ELSE [status |-> found.status, place |-> found.best, sign |-> IF found.zero THEN 0 ELSE found.sign]

-----------------------------------------------------------------------------
(* Access *)

Without1(entries, key) == [k \in DOMAIN entries \ {key} |-> entries[k]]
Putting(entries, key, value) ==
    [k \in DOMAIN entries \cup {key} |-> IF k = key THEN value ELSE entries[k]]

\* phy_component_tensor_set on canonical indices; a refused one changes nothing.
StatusAt(c, at, value) ==
    IF at.status # "ok" THEN at.status
    ELSE IF at.sign = 0 THEN IF value = 0 THEN "ok" ELSE "assumption"
    ELSE IF /\ value # 0 /\ at.place \notin DOMAIN c.entries
            /\ Cardinality(DOMAIN c.entries) >= MaxEntries THEN "limit"
    ELSE "ok"
SetAt(c, at, value) ==
    IF StatusAt(c, at, value) # "ok" \/ at.sign = 0 THEN c
    ELSE IF value = 0 THEN [c EXCEPT !.entries = Without1(@, at.place)]
    ELSE [c EXCEPT !.entries = Putting(@, at.place, at.sign * value)]
SetComponent(place, value) == sparse' = SetAt(sparse, CanonicalIndices(sparse, place), value)

\* phy_component_tensor_get
GetAt(c, at) == IF at.sign = 0 \/ at.place \notin DOMAIN c.entries THEN 0 ELSE at.sign * c.entries[at.place]
SparseGet(c, place) == GetAt(c, CanonicalIndices(c, place))

-----------------------------------------------------------------------------
(* Import: bridge.c *)

\* phy_tensor_component_expression on a dense tensor whose handles are numbers.
ComponentExpression(t, place) == IF t.value[place] = None THEN 0 ELSE t.sign[place] * t.value[place]

\* phy_component_tensor_import_legacy: the representatives are set, and then
\* every component of the source must read the same.
ImportLegacy(t, generators) ==
    LET made == Realized([slot \in Slots(t) |-> [dimension |-> t.n, variance |-> t.valence[slot]]], generators)
        at == Evaluated([p \in Places(t) |-> CanonicalIndices(made, p)])
        Flat(k) == [slot \in Slots(t) |-> (k \div t.n ^ (RankOf(t) - slot)) % t.n]
        Put(acc, k) ==
            LET p == Flat(k)  value == ComponentExpression(t, p)
            IN  IF acc.status # "ok" \/ at[p].place # p \/ at[p].sign # 1 THEN acc
                ELSE IF StatusAt(acc, at[p], value) # "ok" THEN [acc EXCEPT !.status = StatusAt(acc, at[p], value)]
                ELSE SetAt(acc, at[p], value)
        lifted == Across(Put, made, 0, t.n ^ RankOf(t) - 1)
    IN  IF made.status # "ok" THEN made
        ELSE IF lifted.status # "ok" THEN [made EXCEPT !.status = lifted.status]
        ELSE IF \E p \in Places(t) : GetAt(lifted, at[p]) # ComponentExpression(t, p)
        THEN [made EXCEPT !.status = "assumption"]
        ELSE lifted
=============================================================================
