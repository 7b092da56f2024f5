----------------------------- MODULE MCTensors -----------------------------
(* Tensors that store their components and the charts they are moved between. *)
(* A behaviour is a session with a dense tensor, with a sparse one, with an   *)
(* atlas, or with a permutation group (PermGroup has that one's steps); what  *)
(* was declared and what was asked for is kept beside them.  A session may    *)
(* conclude at any moment; the properties are about that step.                *)
EXTENDS ComponentTensor, Atlas, PermGroup

CONSTANTS MaxAsked,   \* places assigned at a time
          Changes     \* the changes of coordinates offered, with what should be their inverses

VARIABLES session,    \* "dense", "sparse", "atlas", "group" or, in the end, "over"
          declared,   \* the group generated by the permutations that were accepted
          asked       \* what each place was last set to, Unset for the others

tensorVars == <<tensor, declared, asked, sparse, charts, transitions>>

Unset == -1

\* Three charts of a plane, one basis without coordinates and one of a line.
Basis(name, n, coordinates) == [name |-> name, n |-> n, space |-> IF n = 2 THEN "M" ELSE "N", coordinates |-> coordinates]
MCBases == {Basis("A", 2, TRUE), Basis("B", 2, TRUE), Basis("C", 2, TRUE), Basis("F", 2, FALSE), Basis("N", 1, TRUE)}

\* A shear and a turn with their inverses, one after the other, and a shear that
\* is not its own inverse.
Offers == {<<"A", "B">>, <<"C", "B">>, <<"A", "C">>, <<"A", "A">>, <<"F", "A">>, <<"A", "N">>}
X(axis) == Coordinate(axis)
Shear(sign) == [axis \in 0 .. 1 |-> IF axis = 0 THEN X(0) ELSE Plus(X(1), Signed(Times(X(0), X(0)), sign))]
Turn(sign) == [axis \in 0 .. 1 |-> IF axis = 0 THEN Signed(X(1), sign) ELSE Signed(X(0), -sign)]
MCChanges == {<<Shear(1), Shear(-1)>>, <<Turn(1), Turn(-1)>>, <<Shear(1), Shear(1)>>,
              <<[axis \in 0 .. 1 |-> Substituted(Shear(1)[axis], Turn(1))],
                [axis \in 0 .. 1 |-> Substituted(Turn(-1)[axis], Shear(-1))]>>}
Shapes == {<<"lower", "lower">>, <<"upper", "lower">>, <<"lower", "upper", "lower">>,
           <<"lower", "lower", "lower">>, <<"lower", "lower", "lower", "lower">>}

Nothing(t) == [p \in Places(t) |-> Unset]
Swap(a, b, rank, sign) == [image |-> [slot \in 1 .. rank |-> IF slot = a THEN b ELSE IF slot = b THEN a ELSE slot], sign |-> sign]
Riemann == {Swap(1, 2, 4, -1), Swap(3, 4, 4, -1), [image |-> <<3, 4, 1, 2>>, sign |-> 1]}

\* Slots of unlike bases and the generators of their heads.
Slot(n) == [dimension |-> n, variance |-> "lower"]
Sparse == {Realized(<<>>, {}), Realized(<<Slot(2), Slot(3)>>, {}), Realized(<<Slot(3), Slot(3)>>, {Swap(1, 2, 2, -1)}),
           Realized(<<Slot(2), Slot(2), Slot(2)>>, {Swap(1, 2, 3, 1), Swap(2, 3, 3, 1)}),
           Realized(<<Slot(2), Slot(2), Slot(2)>>, {[image |-> <<2, 3, 1>>, sign |-> 1]}),
           Realized(<<Slot(2), Slot(3), Slot(2)>>, {Swap(1, 3, 3, -1)}),
           Realized(<<Slot(2), Slot(2)>>, {Swap(1, 2, 2, -1), Swap(1, 2, 2, 1)}),
           Realized(<<Slot(2), Slot(2), Slot(2), Slot(2)>>, Riemann)}

Some == Created(2, <<>>)
None1 == Realized(<<>>, {})
InitDense == /\ session = "dense" /\ \E valence \in Shapes : tensor = Created(2, valence)
             /\ declared = {<<Unmoved(tensor), 1>>} /\ asked = Nothing(tensor)
             /\ sparse = None1 /\ charts = <<>> /\ transitions = <<>>
InitSparse == /\ session = "sparse" /\ sparse \in Sparse /\ tensor = Some /\ declared = {}
              /\ asked = [p \in SparsePlaces(sparse) |-> 0] /\ charts = <<>> /\ transitions = <<>>
InitAtlas == /\ session = "atlas" /\ CreateAtlas /\ charts[1].name \in {"A", "N"}
             /\ sparse = None1 /\ tensor = Some /\ declared = {} /\ asked = <<>>
InitGroup == /\ session = "group" /\ sparse = None1 /\ tensor = Some /\ declared = {} /\ asked = <<>>
             /\ charts = <<>> /\ transitions = <<>>
MCInit == Init /\ (InitDense \/ InitSparse \/ InitAtlas \/ InitGroup)

\* The reference group, every product of what was declared with its sign, when
\* more is declared.
RECURSIVE Multiplied(_)
Multiplied(group) ==
    LET more == group \cup {<<[slot \in DOMAIN g[1] |-> g[1][h[1][slot]]], g[2] * h[2]>> : g \in group, h \in group}
    IN  IF more = group THEN group ELSE Multiplied(more)
Image(g, place) == Permute([image |-> g[1]], place)
Adding(accepted, signed) ==
    declared' = IF accepted /\ ~(signed \subseteq declared) THEN Multiplied(declared \cup signed) ELSE declared

MCDeclare == \E image \in [Slots(tensor) -> Slots(tensor)], sign \in {1, -1} :
               /\ IsPermutation(tensor, image)
               /\ RankOf(tensor) = 4 => image = <<3, 4, 1, 2>>
               /\ Declare(image, sign) /\ UNCHANGED asked
               /\ Adding(Declarable(tensor, image), {<<image, sign>>})
MCDeclareSlots == \E a, b \in Slots(tensor), sign \in {1, -1} :
                    /\ a < b /\ (RankOf(tensor) = 4 => a = 1 /\ b = 2)
                    /\ DeclareSlots(a, b, sign) /\ UNCHANGED asked
                    /\ LET swap == [Unmoved(tensor) EXCEPT ![a] = b, ![b] = a]
                       IN  Adding(Declarable(tensor, swap), {<<swap, sign>>})
MCDeclareRiemann == /\ RankOf(tensor) = 4 /\ DeclareRiemann /\ UNCHANGED asked
                    /\ Adding(~HasAssignment(tensor),
                              {<<<<2, 1, 3, 4>>, -1>>, <<<<1, 2, 4, 3>>, -1>>, <<<<3, 4, 1, 2>>, 1>>})
MCSet == \E place \in Places(tensor), value \in Handles :
           /\ Cardinality({p \in Places(tensor) : asked[p] # Unset}) < IF RankOf(tensor) = 4 THEN 1 ELSE MaxAsked
           /\ Set(place, value) /\ UNCHANGED declared
           /\ asked' = IF Writable(tensor, place, value) THEN [asked EXCEPT ![place] = value] ELSE asked
MCClear == Clear /\ asked' = Nothing(tensor) /\ UNCHANGED declared
MCClearOne == \E place \in Places(tensor) :
                /\ ClearOne(place) /\ UNCHANGED declared
                /\ asked' = [p \in Places(tensor) |->
                               IF \E g \in declared : Image(g, place) = p THEN Unset ELSE asked[p]]
MCFill == Fill /\ UNCHANGED <<declared, asked>>

\* A sparse tensor: what every place should read, by the elements of its group.
Forced(place) == \E g \in sparse.group : g.sign < 0 /\ [slot \in DOMAIN place |-> place[g.image[slot]]] = place
MCSetComponent ==
    \E place \in SparsePlaces(sparse), value \in Handles :
      /\ SetComponent(place, value)
      /\ asked' = IF StatusAt(sparse, CanonicalIndices(sparse, place), value) # "ok" THEN asked
                  ELSE [p \in SparsePlaces(sparse) |->
                          LET onto == {g \in sparse.group : p = [slot \in DOMAIN place |-> place[g.image[slot]]]}
                          IN  IF onto = {} THEN asked[p] ELSE (CHOOSE g \in onto : TRUE).sign * value]

DenseStep == /\ session = "dense" /\ UNCHANGED <<session, sparse, charts, transitions>>
             /\ MCDeclare \/ MCDeclareSlots \/ MCDeclareRiemann \/ MCSet \/ MCClear \/ MCClearOne \/ MCFill
SparseStep == /\ session = "sparse" /\ UNCHANGED <<session, tensor, declared, charts, transitions>>
              /\ MCSetComponent
AtlasStep ==
    /\ session = "atlas" /\ UNCHANGED <<session, tensor, declared, asked, sparse>>
    /\ \/ \E basis \in Bases : AtlasAddChart(basis)
       \/ \E source, target \in Bases, change \in Changes :
            <<source.name, target.name>> \in Offers /\ AtlasAddTransition(source, target, change[1], change[2])

GroupStep == session = "group" /\ Next /\ UNCHANGED <<session, tensorVars>>

Conclude == session # "over" /\ session' = "over" /\ UNCHANGED <<tensorVars, vars>>

MCNext == Conclude \/ GroupStep \/ (UNCHANGED vars /\ (DenseStep \/ SparseStep \/ AtlasStep))

MCVars == <<session, tensorVars, vars>>
MCSpec == MCInit /\ [][MCNext]_MCVars

\* What a component reads as: nothing, or a value and its sign.
Read(place) == IF tensor.value[place] = None THEN <<>> ELSE <<tensor.value[place], tensor.sign[place]>>
Turned(read, sign) == IF read = <<>> THEN read ELSE <<read[1], read[2] * sign>>

\* After any declarations and assignments, in any order and refused ones
\* included: every component is the one an element of the declared group takes
\* it to, with that element's sign, and is zero where the group asks for both
\* signs (close_group, phy_tensor_canonical_flat, assign_orbit).
ReadsFollowDeclarations ==
    session = "dense" =>
    /\ CheckSymmetries(tensor)
    /\ \A p \in Places(tensor) :
         /\ \A g \in declared : Read(Image(g, p)) = Turned(Read(p), g[2])
         /\ (Canonical(tensor, p).sign = 0) <=> (\E g \in declared : Image(g, p) = p /\ g[2] = -1)

\* A component reads as what it was set to until its orbit is cleared: neither
\* a later assignment to another place nor a fill changes it, and what is not
\* in the orbit of a place that was set is not assigned (assign_orbit,
\* phy_tensor_clear_component, phy_tensor_fill_symmetries).
ReadsWhatWasSet ==
    session = "dense" =>
    \A p \in Places(tensor) :
      /\ asked[p] # Unset => Read(p) = IF asked[p] = None THEN <<>> ELSE <<asked[p], 1>>
      /\ tensor.assigned[p] <=> \E g \in declared : asked[Image(g, p)] # Unset

\* A sparse tensor reads, at every place, what was last set in its orbit with
\* the sign of the way there, and stores no zero; a dense tensor is imported
\* when and only when it has the symmetries of the head, and then reads the same
\* (traverse_components, phy_component_tensor_set, _get, _import_legacy).
SparseReadsLikeDense ==
    /\ session = "sparse" =>
         /\ \A p \in SparsePlaces(sparse) : SparseGet(sparse, p) = IF Forced(p) THEN 0 ELSE asked[p]
         /\ \A key \in DOMAIN sparse.entries : sparse.entries[key] # 0
         /\ Cardinality(DOMAIN sparse.entries) <= MaxEntries
    /\ session = "dense" /\ RankOf(tensor) > 1 =>
         \A gens \in IF RankOf(tensor) = 4 THEN {Riemann, {Swap(1, 2, 4, -1)}}
                        ELSE {{}, {Swap(1, 2, RankOf(tensor), 1)}, {Swap(1, 2, RankOf(tensor), -1)}} :
           LET c == ImportLegacy(tensor, gens)
               Reads(p) == ComponentExpression(tensor, p)
           IN  IF \E g \in gens : \E slot \in Slots(tensor) : tensor.valence[g.image[slot]] # tensor.valence[slot]
               THEN c.status = "type"
               ELSE IF \A g \in gens : \A p \in Places(tensor) : Reads(Permute(g, p)) = g.sign * Reads(p)
               THEN \/ c.status = "ok" /\ \A p \in Places(tensor) : SparseGet(c, p) = Reads(p)
                    \/ c.status = "limit" /\ Cardinality({p \in Places(tensor) : Reads(p) # 0}) > MaxEntries
               ELSE c.status = "assumption"

\* Whatever was added and refused: the maps between three charts agree, a
\* transition undoes its inverse, and a tensor or a form brought along two
\* transitions is the one brought along the third; so no result depends on the
\* order in which the transitions came (phy_atlas_add_transition,
\* phy_atlas_verify_cocycles, phy_basis_transition_pullback_tensor).
EveryPathAgrees ==
    session = "atlas" =>
    LET Sample(valence) == Tensor(2, valence, [i \in Indices(2, Len(valence)) |->
                                   Plus(X(i[1]), Plus(One, Times(X(0), IF Len(i) = 2 THEN X(i[2]) ELSE One)))])
        Linked(a, b) == Joined2(transitions, a, b) # {}
        Map(a, b) == Between(transitions, a, b).forward
        v == [axis \in 0 .. 1 |-> Plus(One, Times(X(axis), X(1)))]
        form(degree) == [i \in Increasing(2, degree) |-> Plus(Constant(3 + degree), Times(X(0), X(1)))]
    IN  /\ \A a, b \in Bases : Linked(a, b) =>
             /\ Contains(a) /\ Contains(b)
             /\ \A valence \in {<<"lower">>, <<"upper", "lower">>} :
                  LET t == Sample(valence)  back == AtlasPullback(b, a, AtlasPullback(a, b, t)) IN
                  \A i \in DOMAIN t.at : Agree(t.at[i], back.at[i], Order - 2)
             /\ \A degree \in 0 .. 1 :
                  LET m == Map(a, b)
                      d0(at) == [i \in Increasing(2, 1) |-> Diff(at[<<>>], i[1])]
                      d1(at) == [i \in Increasing(2, 2) |-> Minus(Diff(at[<<1>>], 0), Diff(at[<<0>>], 1))]
                      D(at) == IF degree = 0 THEN d0(at) ELSE d1(at)
                      left == PullbackForm(m, degree + 1, D(form(degree)))
                      right == D(PullbackForm(m, degree, form(degree)))
                  IN  \A i \in DOMAIN left : Agree(left[i], right[i], Order - 2)
             /\ LET w == Sample(<<"lower">>)
                    moved == PushforwardVector(Map(a, b), v)
                    Paired(at, u) == SumOver(LAMBDA s : Times(at[s], u[s]), 2)
                IN  Agree(Paired([s \in 0 .. 1 |-> AtlasPullback(a, b, w).at[<<s>>]], v),
                          Paired([s \in 0 .. 1 |-> PullbackScalar(Map(a, b), w.at[<<s>>])], moved), Order - 1)
        /\ \A a, b, c \in Bases : Linked(a, b) /\ Linked(b, c) /\ Linked(a, c) =>
             /\ \A axis \in 0 .. 1 : PullbackScalar(Map(a, b), Map(b, c).at[axis]) = Map(a, c).at[axis]
             /\ LET t == Sample(<<"upper", "lower">>)
                    direct == AtlasPullback(a, c, t)
                    around == AtlasPullback(a, b, AtlasPullback(b, c, t))
                IN  \A i \in DOMAIN t.at : Agree(direct.at[i], around.at[i], Order - 1)

-----------------------------------------------------------------------------
(* Groups: every permutation of Degree points, compared with the group      *)
(* generated by brute force.                                                *)

\* Of four points: two transpositions, a double one, a three- and a four-cycle.
MCFew == {[i \in Points |-> IF i = 0 THEN 1 ELSE IF i = 1 THEN 0 ELSE i],
          [i \in Points |-> IF i = 2 THEN 3 ELSE IF i = 3 THEN 2 ELSE i],
          [i \in Points |-> 3 - i],
          [i \in Points |-> IF i = 3 THEN 3 ELSE (i + 1) % 3],
          [i \in Points |-> (i + 1) % 4]}

-----------------------------------------------------------------------------
\* Maps, transitions and what is brought along them agree in every atlas
\* (src/component/map.c, src/component/atlas.c).
ChartsAgree == [][Conclude => EveryPathAgrees]_MCVars

\* Dense and sparse tensors read, everywhere, what was assigned and what their
\* declared symmetries make of it (src/tensor/tensor.c,
\* src/component/component.c).
TensorsReadAsAssigned == [][Conclude => ReadsFollowDeclarations /\ ReadsWhatWasSet /\ SparseReadsLikeDense]_MCVars
=============================================================================
