--------------------------- MODULE TensorSymmetry ---------------------------
(***************************************************************************)
(* Dense tensors with declared symmetries: src/src/tensor (tensor.c,       *)
(* symmetry.c).  A tensor keeps the closed group of its declared slot      *)
(* permutations, each with one sign, and three tables over all components: *)
(* a handle, the sign it is read with and whether it was assigned.  Every  *)
(* assignment is spread over the orbit of its component; a second one into *)
(* the same orbit must agree with it.                                      *)
(***************************************************************************)
EXTENDS Accumulate, FiniteSets

CONSTANTS Values,         \* handles other than zero: numbers, as an expression and its
                          \* negation have different handles
          MaxSymmetries   \* PHY_TENSOR_MAX_SYMMETRIES

None == 0
Handles == Values \cup {None}

ASSUME DenseAssumption == None \notin Values /\ MaxSymmetries \in Nat \ {0}

VARIABLE tensor   \* [n, valence, group, vanishes, value, sign, assigned]

RankOf(t) == Len(t.valence)
Slots(t) == 1 .. RankOf(t)
Places(t) == [Slots(t) -> 0 .. (t.n - 1)]
Unmoved(t) == [slot \in Slots(t) |-> slot]

-----------------------------------------------------------------------------
(* symmetry.c *)

\* phy_tensor_permute: the index in a slot goes to the slot's image.
Permute(g, place) ==
    [slot \in DOMAIN place |-> place[CHOOSE from \in DOMAIN place : g.image[from] = slot]]

Refused(t) == [t EXCEPT !.refused = TRUE]

\* Signed permutations join the group, as in find_perm and after it: a new
\* permutation with its sign, while there is room; one that is there with the
\* other sign makes everything vanish.
Enter(t, signed) ==
    LET group == t.group \cup {g \in signed : ~\E h \in t.group : h.image = g.image}
        single == {CHOOSE g \in group : g.image = image : image \in {g.image : g \in group}}
    IN  IF Cardinality(single) > MaxSymmetries THEN Refused(t)
        ELSE [t EXCEPT !.group = single,
                       !.vanishes = @ \/ \E g \in signed, h \in single : g.image = h.image /\ g.sign # h.sign]

\* close_group: passes over all pairs until one adds nothing.  The order in
\* which products join is left out; it decides only which sign a permutation
\* keeps in a group where everything vanishes.
Products(t) ==
    {[image |-> [slot \in Slots(t) |-> g.image[h.image[slot]]], sign |-> g.sign * h.sign] :
        g \in t.group, h \in t.group}
CloseGroupOnce(t) == Enter(t, Products(t))
CloseGroup(t) ==
    LET Missing(u) == {p \in Products(u) : ~\E g \in u.group : g.image = p.image}
        closed == While(LAMBDA u : ~u.refused /\ Missing(u) # {}, LAMBDA u : Enter(u, Products(u)), t, RankOf(t) + 1)
    IN  IF closed.refused THEN closed ELSE Enter(closed, Products(closed))

\* phy_tensor_canonical_flat: the first place of the orbit, as the code orders
\* them, and the sign on the way there; zero where the group forces a zero.
Before(p, q) == \E slot \in DOMAIN p : p[slot] < q[slot] /\ \A s \in 1 .. slot - 1 : p[s] = q[s]
Canonical(t, place) ==
    LET Reach(g) == Permute(g, place)
        forced == t.vanishes \/ \E g \in t.group : Reach(g) = place /\ g.sign < 0
        best == CHOOSE g \in t.group : \A h \in t.group : ~Before(Reach(h), Reach(g))
    IN  [place |-> Reach(best), sign |-> IF forced THEN 0 ELSE best.sign]

\* phy_tensor_reset_tables
ResetTables(t) ==
    [t EXCEPT !.value = [p \in Places(t) |-> None],
              !.sign = [p \in Places(t) |-> IF Canonical(t, p).sign = 0 THEN 0 ELSE 1],
              !.assigned = [p \in Places(t) |-> FALSE]]

\* phy_tensor_add_generator
AddToGroup(t, image, sign) == CloseGroup(Enter(t, {[image |-> image, sign |-> sign]}))

-----------------------------------------------------------------------------
(* tensor.c *)

\* phy_tensor_create
Created(n, valence) ==
    LET slots == 1 .. Len(valence) IN
    Evaluated(ResetTables(
        [n |-> n, valence |-> valence, group |-> {[image |-> [slot \in slots |-> slot], sign |-> 1]},
         vanishes |-> FALSE, value |-> <<>>, sign |-> <<>>, assigned |-> <<>>,
         refused |-> FALSE]))

HasAssignment(t) == \E p \in Places(t) : t.assigned[p]
IsPermutation(t, image) == image \in [Slots(t) -> Slots(t)] /\ Cardinality({image[s] : s \in Slots(t)}) = RankOf(t)

\* Whether phy_tensor_declare_permutation takes the declaration.
Declarable(t, image) ==
    /\ ~HasAssignment(t)
    /\ IsPermutation(t, image)
    /\ \A slot \in Slots(t) : t.valence[image[slot]] = t.valence[slot]
DeclarePermutation(t, image, sign) ==
    IF ~Declarable(t, image) THEN Refused(t)
    ELSE LET grown == AddToGroup(t, image, sign) IN IF grown.refused THEN Refused(t) ELSE ResetTables(grown)

\* phy_tensor_declare_slot_symmetry
DeclareSlotSymmetry(t, a, b, sign) ==
    DeclarePermutation(t, [Unmoved(t) EXCEPT ![a] = b, ![b] = a], sign)

\* phy_tensor_declare_riemann_symmetry: all three or none of them.
DeclareRiemannSymmetry(t) ==
    LET first == DeclarePermutation(t, <<2, 1, 3, 4>>, -1)
        second == DeclarePermutation(first, <<1, 2, 4, 3>>, -1)
        third == DeclarePermutation(second, <<3, 4, 1, 2>>, 1)
    IN  IF RankOf(t) # 4 \/ first.refused \/ second.refused \/ third.refused THEN Refused(t) ELSE third

\* assign_orbit: checked over the whole orbit first, then written.
WritableUnchecked(t, place, value) == Canonical(t, place).sign = 0 => value = None
Writable(t, place, value) ==
    IF Canonical(t, place).sign = 0 THEN value = None
    ELSE \A g \in t.group : LET target == Permute(g, place) IN
           t.assigned[target] => t.value[target] = value /\ t.sign[target] = g.sign

AssignOrbit(t, place, value) ==
    LET orbit == {Permute(g, place) : g \in t.group}
        Sign(p) == (CHOOSE g \in t.group : Permute(g, place) = p).sign
        taken == [t EXCEPT !.assigned = [p \in Places(t) |-> p \in orbit \/ @[p]]]
    IN  IF ~Writable(t, place, value) THEN Refused(t)
        ELSE IF Canonical(t, place).sign = 0 THEN taken
        ELSE [taken EXCEPT !.value = [p \in Places(t) |-> IF p \in orbit THEN value ELSE @[p]],
                           !.sign = [p \in Places(t) |-> IF p \in orbit THEN Sign(p) ELSE @[p]]]

\* phy_tensor_clear_component
ClearComponent(t, place) ==
    LET orbit == {Permute(g, place) : g \in t.group}
        empty == ResetTables(t)
        Kept(old, new) == [p \in Places(t) |-> IF p \in orbit THEN new[p] ELSE old[p]]
    IN  [t EXCEPT !.value = Kept(@, empty.value), !.sign = Kept(@, empty.sign),
                  !.assigned = Kept(@, empty.assigned)]

\* phy_tensor_fill_symmetries: from the representatives to their orbits.
FillSymmetries(t) ==
    LET Spread(u, place) ==
            LET c == Canonical(u, place)
                orbit == {Permute(g, place) : g \in u.group}
                Sign(p) == (CHOOSE g \in u.group : Permute(g, place) = p).sign * u.sign[place]
            IN  IF c.place # place \/ c.sign = 0 \/ ~u.assigned[place] THEN u
                ELSE [u EXCEPT !.value = [p \in Places(u) |-> IF p \in orbit THEN u.value[place] ELSE @[p]],
                               !.sign = [p \in Places(u) |-> IF p \in orbit THEN Sign(p) ELSE @[p]],
                               !.assigned = [p \in Places(u) |-> p \in orbit \/ @[p]]]
        Flat(k) == [slot \in Slots(t) |-> (k \div t.n ^ (RankOf(t) - slot)) % t.n]
    IN  Across(LAMBDA u, k : Spread(u, Flat(k)), t, 0, t.n ^ RankOf(t) - 1)

\* phy_tensor_check_symmetries
CheckSymmetries(t) ==
    \A p \in Places(t) :
      /\ t.sign[p] = 0 \/ t.vanishes => t.value[p] = None
      /\ \A g \in t.group :
           LET q == Permute(g, p) IN
           \/ t.value[p] = None /\ t.value[q] = None
           \/ t.value[q] = t.value[p] /\ t.sign[q] = g.sign * t.sign[p]

\* phy_tensor_independent_count
IndependentCount(t) ==
    Cardinality({p \in Places(t) : Canonical(t, p).place = p /\ Canonical(t, p).sign # 0})

-----------------------------------------------------------------------------
(* A session with one tensor; a refused operation leaves it as it was.       *)

Kept(result) == IF result.refused THEN UNCHANGED tensor ELSE tensor' = result

Declare(image, sign) == Kept(DeclarePermutation(tensor, image, sign))
DeclareSlots(a, b, sign) == Kept(DeclareSlotSymmetry(tensor, a, b, sign))
DeclareRiemann == Kept(DeclareRiemannSymmetry(tensor))
Set(place, value) == Kept(AssignOrbit(tensor, place, value))
Clear == tensor' = ResetTables(tensor)
ClearOne(place) == tensor' = ClearComponent(tensor, place)
Fill == tensor' = FillSymmetries(tensor)
=============================================================================
