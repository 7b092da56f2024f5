----------------------------- MODULE MCAbstract -----------------------------
(* Abstract tensors on small inputs: monomials of up to three factors, in    *)
(* three index spaces with a symmetric, an antisymmetric and no metric, with *)
(* component tensors that have exactly the symmetries declared.  A step      *)
(* chooses heads, then indices, then a second monomial; another concludes    *)
(* with what was chosen, and the properties are about that step.             *)
EXTENDS ComponentValues

VARIABLE case

Init == case = [kind |-> "none"]

-----------------------------------------------------------------------------
(* The constants *)

Curved == 1
Symplectic == 2
Plain == 3
MCMetric == [s \in {Curved, Symplectic, Plain} |->
               IF s = Curved THEN "symmetric" ELSE IF s = Symplectic THEN "antisymmetric" ELSE "none"]
Dimension == [s \in {Curved, Symplectic, Plain} |-> IF s = Curved THEN 3 ELSE 2]

Image(seq) == [s \in 0 .. (Len(seq) - 1) |-> seq[s + 1]]
NoTableau == [slots |-> <<>>, rows |-> <<>>, rowLast |-> TRUE]
OneHead(slots, commuting, generators, young) ==
    [slots |-> slots, commuting |-> commuting, generators |-> generators, young |-> young]
Signed(seq, sign) == [image |-> Image(seq), sign |-> sign]

MCHeads ==
    [h \in 1 .. 8 |->
       CASE h = 1 -> OneHead(<<Curved, Curved>>, TRUE, <<Signed(<<1, 0>>, -1)>>, NoTableau)
         [] h = 2 -> OneHead(<<Curved, Curved>>, TRUE, <<Signed(<<1, 0>>, 1)>>, NoTableau)
         [] h = 3 -> OneHead(<<Curved>>, FALSE, <<>>, NoTableau)
         [] h = 4 -> OneHead(<<Symplectic, Symplectic>>, TRUE, <<>>, NoTableau)
         [] h = 5 -> OneHead(<<Plain, Symplectic>>, TRUE, <<>>, NoTableau)
         [] h = 6 -> OneHead(<<Curved, Curved, Curved, Curved>>, TRUE,
                          <<Signed(<<1, 0, 2, 3>>, -1), Signed(<<2, 3, 0, 1>>, 1)>>,
                          [slots |-> <<0, 2, 1, 3>>, rows |-> <<2, 2>>, rowLast |-> TRUE])
         [] h = 7 -> OneHead(<<Curved, Curved, Curved>>, TRUE, <<Signed(<<1, 0, 2>>, 1)>>,
                          [slots |-> <<0, 1, 2>>, rows |-> <<2, 1>>, rowLast |-> FALSE])
         [] OTHER -> OneHead(<<Curved>>, TRUE, <<>>, NoTableau)]

\* Lists of heads, unsorted; the code sorts them.
Inputs == {<<1>>, <<2>>, <<6>>, <<7>>, <<4>>, <<2, 1>>, <<1, 1>>, <<4, 4>>, <<5, 5>>, <<5, 4>>,
           <<2, 3, 3>>, <<3, 1, 3>>, <<3, 2, 1>>, <<8, 3, 8>>, <<8, 8, 2>>, <<8, 7>>, <<4, 8, 8>>}
Sort(list) == LET order == FactorOrder(list) IN [p \in DOMAIN list |-> list[order[p]]]
Few == {<<1>>, <<2>>, <<4>>, <<8>>}
MCHeadLists ==
    {<<>>} \cup {<<h>> : h \in 1 .. 8} \cup {Sort(list) : list \in Inputs}
           \cup {Sort(Sort(list) \o other) : list \in {l \in Inputs : DegreeOf(l) <= 3}, other \in Few}

-----------------------------------------------------------------------------
(* Monomials: dummies take the names 1, 2, .. in order of appearance, free    *)
(* indices come after them, in either order, and _d0 may be one of them.      *)

Slot(list, s) ==
    LET f == CHOOSE g \in DOMAIN list : Offset(list, g) < s /\ s <= Offset(list, g) + Width(list[g])
    IN  Heads[list[f]].slots[s - Offset(list, f)]

Cut(list, indices) ==
    [f \in DOMAIN list |-> [head |-> list[f],
                            indices |-> SubSeq(indices, Offset(list, f) + 1, Offset(list, f) + Width(list[f]))]]

\* Which slots are contracted with which: an involution between equal spaces.
Pairings(list) ==
    LET n == DegreeOf(list) IN
    {p \in [1 .. n -> 1 .. n] : \A s \in 1 .. n : p[p[s]] = s /\ Slot(list, s) = Slot(list, p[s])}

FreeNames == {5, -1000}
Indexings(list) ==
    LET n == DegreeOf(list) IN
    UNION {LET free == {s \in 1 .. n : p[s] = s}
               firsts == {s \in 1 .. n : s < p[s]}
               Number(s) == Cardinality({t \in firsts : t <= s})
               few == Cardinality(free) <= (IF list = <<8, 7>> THEN 1 ELSE 2)
           IN  {[s \in 1 .. n |->
                   IF p[s] = s
                   THEN [space |-> Slot(list, s), name |-> IF few THEN names[s] ELSE s + 4, up |-> s % 2 = 1]
                   ELSE [space |-> Slot(list, s), name |-> Number(IF s < p[s] THEN s ELSE p[s]),
                         up |-> IF s < p[s] THEN up[s] ELSE ~up[p[s]]]] :
                names \in {g \in [free -> IF few THEN FreeNames ELSE {5}] :
                             few => \A i, j \in free : g[i] = g[j] => i = j},
                up \in [firsts -> BOOLEAN]} :
           p \in Pairings(list)}

ChooseHeads == case.kind = "none" /\ \E list \in Inputs : case' = [kind |-> "heads", list |-> list]
ChooseIndices == case.kind = "heads" /\ \E indices \in Indexings(case.list) :
                    case' = [kind |-> "monomial", m |-> Monomial(3, Cut(case.list, indices))]

\* A second monomial with few indices.
Partners == UNION {{Monomial(5, Cut(list, indices)) : indices \in Indexings(list)} : list \in Few}
ChoosePartner == case.kind = "monomial" /\ Len(Indices(case.m)) <= 3 /\ \E m \in Partners :
                    case' = [kind |-> "pair", m |-> case.m, n |-> m]

Shapes == {<<1>>, <<2>>, <<1, 1>>, <<3>>, <<2, 1>>, <<1, 1, 1>>, <<2, 2>>, <<3, 1>>, <<2, 1, 1>>}
SizeOf(rows) == Across(LAMBDA n, r : n + rows[r], 0, 1, Len(rows))
ChooseTableau ==
    case.kind = "none" /\ \E rows \in Shapes, last \in BOOLEAN :
        \E slots \in {g \in [1 .. SizeOf(rows) -> 0 .. (SizeOf(rows) - 1)] :
                        /\ \A i, j \in 1 .. SizeOf(rows) : g[i] = g[j] => i = j
                        /\ SizeOf(rows) = 4 => g \in {<<0, 1, 2, 3>>, <<0, 2, 1, 3>>}} :
            case' = [kind |-> "tableau", t |-> [slots |-> slots, rows |-> rows, rowLast |-> last]]

\* The input has been looked at; the next choice starts afresh.
Conclude == case.kind # "none" /\ case' = [kind |-> "none"]

Next == Conclude \/ ChooseHeads \/ ChooseIndices \/ ChoosePartner \/ ChooseTableau
Spec == Init /\ [][Next]_case

-----------------------------------------------------------------------------
(* Components *)

Hash(h, at) == (h * 41 + Across(LAMBDA sum, s : sum * 7 + (at[s] + 1) * (at[s] + s + h), 0, 1, Len(at))) % 97
Tuples(slots) == {at \in [1 .. Len(slots) -> 0 .. 2] : \A s \in 1 .. Len(slots) : at[s] < Dimension[slots[s]]}

\* What a head with these symmetries may hold: the images of arbitrary numbers
\* under its symmetrizer.
Symmetries(h) ==
    IF HasYoung(h) THEN Symmetrizer(Heads[h].young)
    ELSE EnumerateSlotGroup(Width(h), Heads[h].generators)
Held(h, at) ==
    LET Sum(all) == LET RECURSIVE Go(_)
                        Go(left) == IF left = {} THEN 0
                                    ELSE LET e == CHOOSE x \in left : TRUE
                                             moved == [s \in DOMAIN at |-> at[CHOOSE r \in DOMAIN at : e.image[r - 1] = s - 1]]
                                         IN  e.sign * Hash(h, moved) + Go(left \ {e})
                    IN  Go(all)
    IN  Sum(Symmetries(h)) % Prime
Lower == [h \in DOMAIN MCHeads |-> [at \in Tuples(MCHeads[h].slots) |-> Held(h, at)]]

\* Raising an index: nothing for the symmetric metric (it is the identity
\* here), and the symplectic form v^0 = v_1, v^1 = -v_0.
Component(h, at, ups) ==
    LET Turned(s) == ups[s] /\ Heads[h].slots[s] = Symplectic
        source == [s \in DOMAIN at |-> IF Turned(s) THEN 1 - at[s] ELSE at[s]]
        signs == Cardinality({s \in DOMAIN at : Turned(s) /\ at[s] = 1})
    IN  (IF signs % 2 = 0 THEN 1 ELSE -1) * Lower[h][source]

\* A space without a metric: its upper and lower indices are unrelated, and
\* head 5 holds its components for lower indices only; a hash tells them apart.
Held5(at, ups) == IF ups[1] THEN Hash(50, at) ELSE Lower[5][at]
Value(h, at, ups) ==
    IF h = 5 THEN LET source == IF ups[2] THEN [at EXCEPT ![2] = 1 - @] ELSE at
                  IN  (IF ups[2] /\ at[2] = 1 THEN -1 ELSE 1) * Held5(source, ups)
    ELSE Component(h, at, ups)

\* The meaning of a monomial: the sum over every assignment of its dummies.
Points(free) == {p \in [free -> 0 .. 2] : \A i \in free : p[i] < Dimension[i.space]}
Meaning(m, point) ==
    LET all == Indices(m)
        firsts == {s \in DOMAIN all : IsDummy(all, all[s]) /\ \A t \in Uses(all, all[s]) : s <= t}
        assignments == {a \in [firsts -> 0 .. 2] : \A s \in firsts : a[s] < Dimension[all[s].space]}
        At(i, a) == IF IsDummy(all, i) THEN a[UseOf(all, i)] ELSE point[i]
        Factor(f, a) == LET list == m.factors[f].indices
                        IN  Value(m.factors[f].head, [s \in DOMAIN list |-> At(list[s], a)], [s \in DOMAIN list |-> list[s].up])
        Term(a) == Across(LAMBDA p, f : (p * Factor(f, a)) % Prime, m.coefficient, 1, Len(m.factors))
        RECURSIVE Sum(_)
        Sum(left) == IF left = {} THEN 0
                     ELSE LET a == CHOOSE x \in left : TRUE IN (Term(a) + Sum(left \ {a})) % Prime
    IN  Sum(assignments)
MeaningOf(e, point) == Through(LAMBDA sum, m : (sum + Meaning(m, point)) % Prime, 0, e.terms)

-----------------------------------------------------------------------------
(* Canonical forms *)

\* The elementary ways to write the same monomial differently, with signs.
Moves(m) ==
    LET all == Indices(m)
        Turn(f, g) == [m EXCEPT !.factors[f].indices =
                         [s \in DOMAIN m.factors[f].indices |-> m.factors[f].indices[g.image[s - 1] + 1]]]
        Swap(f) == [m EXCEPT !.factors[f] = m.factors[f + 1], !.factors[f + 1] = m.factors[f]]
        Map(change(_)) == [m EXCEPT !.factors = [f \in DOMAIN m.factors |->
                             [m.factors[f] EXCEPT !.indices = [s \in DOMAIN @ |-> change(@[s])]]]]
        Rename(name) == Map(LAMBDA i : IF i.name = name THEN [i EXCEPT !.name = 40 - name] ELSE i)
        Flip(d) == Map(LAMBDA i : IF SameName(i, d) THEN [i EXCEPT !.up = ~@] ELSE i)
        dummies == {all[s] : s \in {t \in DOMAIN all : IsDummy(all, all[t])}}
    IN  UNION {{[m |-> Turn(f, g), sign |-> g.sign] :
                  g \in {Heads[m.factors[f].head].generators[k] : k \in DOMAIN Heads[m.factors[f].head].generators}} :
               f \in DOMAIN m.factors}
        \cup {[m |-> Swap(f), sign |-> 1] : f \in {g \in 1 .. (Len(m.factors) - 1) :
                  Heads[m.factors[g].head].commuting /\ Heads[m.factors[g + 1].head].commuting}}
        \cup {[m |-> Rename(d.name), sign |-> 1] : d \in dummies}
        \cup {[m |-> Flip(d), sign |-> IF Metric[d.space] = "antisymmetric" THEN -1 ELSE 1] :
                  d \in {i \in dummies : Metric[i.space] # "none"}}

WithSign(m, sign) == [m EXCEPT !.coefficient = (sign * @) % Prime]

\* Two monomials that differ by declared slot symmetries, by an exchange of
\* commuting factors, by the names of their dummies or by raising one end of a
\* contraction and lowering the other have the same canonical form, with the
\* sign the differences carry; so one that equals its own negative becomes
\* zero.  The pruned search and the double coset agree, a canonical form is
\* its own, and it stands for the same components as the monomial.
CanonicalFormsDecide ==
    [][Conclude /\ case.kind = "monomial" =>
        LET m == case.m  c == Canonicalize(m) IN
        /\ c.status = "ok" /\ CanonicalizeDgs(m) = c
        /\ Canonicalize(c) = c
        /\ \A move \in Moves(m) : Canonicalize(move.m) = WithSign(c, move.sign)
        /\ \A point \in Points(FreeIndices(m)) : Meaning(m, point) = Meaning(c, point)]_case

-----------------------------------------------------------------------------
(* Sums, products and components *)

\* The binding a component evaluation reads: the heads hold their components
\* with every other index up, those with a tableau with every index down.
Valence(h) == [s \in DOMAIN Heads[h].slots |-> ~HasYoung(h) /\ s % 2 = 1]
Binding ==
    LET bases == AddBasis(AddBasis(AddBasis(EmptyBinding, 1, 3).binding, 2, 2).binding, 3, 2).binding
        Add(binding, h) == AddTensor(binding, h, [valence |-> Valence(h),
                                                  entries |-> [at \in Tuples(Heads[h].slots) |->
                                                                 Value(h, at, Valence(h))]]).binding
    IN  Across(Add, bases, 1, 8)

\* A value the bridge gives is the meaning; it gives one whenever the indices
\* stand as the components are held.
BridgeAgrees(m) ==
    LET all == Indices(m)  uses == FreeUses(m) IN
    \A point \in Points(FreeIndices(m)) :
        LET v == ValueMonomial(Binding, m, [k \in DOMAIN uses |-> point[all[uses[k]]]]) IN
        IF \A f \in DOMAIN m.factors : \A s \in DOMAIN m.factors[f].indices :
               m.factors[f].indices[s].up = Valence(m.factors[f].head)[s]
        THEN v = Outcome("ok", Meaning(m, point))
        ELSE v.status = "type"

Clash(a, b) == \E s \in DOMAIN Indices(a), t \in DOMAIN Indices(b) :
                    /\ SameName(Indices(a)[s], Indices(b)[t])
                    /\ (IsDummy(Indices(a), Indices(a)[s]) \/ IsDummy(Indices(b), Indices(b)[t]) \/ Indices(a)[s].up = Indices(b)[t].up)

PairAgrees(m, n) ==
    LET a == FromMonomial(m)  b == FromMonomial(n)
        sum == SumOf(a, b)
        product == ProductOf(a, b)
        clash == \/ \E p \in SharedNames(a, b) : p[1].up = p[2].up
                 \/ a.terms # <<>> /\ b.terms # <<>> /\ Clash(a.terms[1], b.terms[1])
    IN  /\ IF FreeIndices(m) # FreeIndices(n) THEN sum.status = "type"
           ELSE /\ sum = SumOf(b, a) /\ SumOf(sum, ScaledBy(b, -1)) = a
                /\ \A point \in Points(sum.free) : MeaningOf(sum, point) = (Meaning(m, point) + Meaning(n, point)) % Prime
        /\ IF clash THEN product.status = "type"
           ELSE /\ product.status = "ok"
                /\ \A k \in DOMAIN product.terms : FreeIndices(product.terms[k]) = product.free
                /\ \A point \in Points(product.free) :
                     LET raw == IF a.terms = <<>> \/ b.terms = <<>> THEN 0
                                ELSE Meaning(Monomial(a.terms[1].coefficient * b.terms[1].coefficient,
                                                      a.terms[1].factors \o b.terms[1].factors), point)
                     IN  MeaningOf(product, point) = raw

\* Expressions add and multiply as their components do: collecting like terms
\* loses none, the order of the operands leaves no trace in a sum, a sum with
\* the negative of a term is rid of it, and a product sums over the names the
\* operands share.  The staged, pruned evaluation gives the plain sum over all
\* assignments, or refuses indices that do not stand as the components do.
ComponentsFollowExpressions ==
    [][Conclude => /\ case.kind = "monomial" => BridgeAgrees(case.m)
                   /\ case.kind = "pair" => PairAgrees(case.m, case.n)]_case

-----------------------------------------------------------------------------
(* Tableaux *)

Coefficients(all, degree) ==
    [p \in {e.image : e \in all} |-> Cardinality({e \in all : e.image = p /\ e.sign = 1})
                                     - Cardinality({e \in all : e.image = p /\ e.sign = -1})]

\* Sum over pairs, as a function of the product.
ProductCoefficient(as, bs, image) ==
    LET good == {e \in as \X bs : After(e[1].image, e[2].image) = image}
    IN  Cardinality({e \in good : e[1].sign = e[2].sign}) - Cardinality({e \in good : e[1].sign # e[2].sign})

\* Fillings by 1 .. dimension with rows that do not fall and columns that rise.
Semistandard(rows, dimension) ==
    LET cells == UNION {{<<r, c>> : c \in 1 .. rows[r]} : r \in DOMAIN rows} IN
    {g \in [cells -> 1 .. dimension] : \A x \in cells :
        /\ x[2] > 1 => g[<<x[1], x[2] - 1>>] <= g[x]
        /\ x[1] > 1 => g[<<x[1] - 1, x[2]>>] < g[x]}

TableauAgrees(t) ==
    LET n == Len(t.slots)
        info == TableauInfo(t)
        sym == Symmetrizer(t)
        images == {e.image : e \in sym}
        list == StandardTableaux(t.rows)
    IN  /\ ValidShape(t) /\ FitsHead(t, [s \in 1 .. n |-> Curved])
        /\ Cardinality(sym) = info.rowOrder * info.columnOrder /\ Cardinality(images) = Cardinality(sym)
        /\ Len(list) = info.standardCount
        /\ \A i, j \in DOMAIN list : list[i] = list[j] => i = j
        /\ \A i \in DOMAIN list : IsStandard([t EXCEPT !.slots = list[i]])
        /\ \A d \in 1 .. 3 : GlDimension(t.rows, d) = Cardinality(Semistandard(t.rows, d))
        /\ \A e \in sym : ProductCoefficient(sym, sym, e.image) = info.hooks * e.sign
        /\ \A which \in DOMAIN GarnirPlaces(t) :
             LET slots == GarnirSlots(t, which)
                 anti == BlockGroup(n, <<slots>>, TRUE)
             IN  /\ Cardinality({slots[i] : i \in DOMAIN slots}) = Len(slots)
                 /\ t.rowLast => \A e \in sym : \A g \in anti :
                      ProductCoefficient(sym, anti, After(e.image, g.image)) = 0
        /\ \A a \in 1 .. t.rows[1] : \A i, j \in DOMAIN Column(t, a) :
             LET turn == [s \in 0 .. (n - 1) |-> IF s = Column(t, a)[i] THEN Column(t, a)[j]
                                                 ELSE IF s = Column(t, a)[j] THEN Column(t, a)[i] ELSE s]
             IN  t.rowLast /\ i # j => IsManifest(t, turn, -1) /\ ~IsManifest(t, turn, 1)

\* Signed exchanges of two slots, the pair exchange of four, and the images
\* that are refused before any tableau is asked.
Exchanges(n) ==
    {[image |-> [s \in 0 .. (n - 1) |-> IF s = i THEN j ELSE IF s = j THEN i ELSE s], sign |-> sign] :
        i, j \in 0 .. (n - 1), sign \in {1, -1}}
    \cup (IF n = 4 THEN {Signed(<<2, 3, 0, 1>>, 1), Signed(<<2, 3, 0, 1>>, -1)} ELSE {})

\* A tableau and a symmetry go together or not, whichever is declared first.
DeclarationsCommute(t) ==
    LET n == Len(t.slots)
        bare == OneHead([s \in 1 .. n |-> Curved], TRUE, <<>>, NoTableau)
    IN  \A g \in Exchanges(n) :
          LET first == AddSymmetry(bare, g)
              late == SetYoungSymmetry(first.head, t)
              other == AddSymmetry(SetYoungSymmetry(bare, t).head, g)
          IN  /\ late.status = other.status
              /\ late.status = "ok" => late.head = other.head /\ SetYoungSymmetry(late.head, t).status = "already"

\* The projector of a tableau is idempotent with the hook product it divides
\* by, for either order of its symmetrizers; the standard tableaux walked out
\* are as many as the hooks count, and the dimension they give is the number
\* of semistandard fillings; a Garnir antisymmetrizer before the projector
\* leaves nothing; the symmetries that are manifest are those of the
\* symmetrizer applied first, and a head takes tableau and symmetries in
\* either order or refuses them in both.
TableauxAreConsistent == case.kind = "tableau" => TableauAgrees(case.t) /\ DeclarationsCommute(case.t)

ProjectionAgrees(m) ==
    LET e == FromMonomial(m)
        reduced == YoungReduce(e)
        declared == {f \in DOMAIN m.factors : HasYoung(m.factors[f].head)}
    IN  /\ YoungReduce(reduced) = reduced
        /\ \A point \in Points(e.free) : MeaningOf(reduced, point) = MeaningOf(e, point)
        /\ declared = {} => reduced = e
        /\ \A f \in declared :
             LET t == Heads[m.factors[f].head].young
                 once == YoungProject(m, f, t)
             IN  /\ Len(m.factors) = 1 => ExpressionYoungProject(once, f, t) = once
                 /\ t.rowLast => \A which \in DOMAIN GarnirPlaces(t) :
                                   YoungReduce(GarnirRelation(m, f, which)).terms = <<>>

\* Reducing an expression by the declared tableaux of all its factors at once
\* is idempotent and changes no component, since components with the declared
\* symmetry are their own projection; a projection repeated changes nothing;
\* a Garnir relation of a head in the Riemann convention reduces to zero; and
\* a component tensor is accepted for a head only with the declared symmetry.
ProjectionsKeepMeaning ==
    /\ case.kind = "monomial" => ProjectionAgrees(case.m)
    /\ case.kind = "heads" /\ Len(case.list) = 1 =>
         LET h == case.list[1]
             spoiled == [Binding EXCEPT !.tensors[h].entries =
                           [at \in DOMAIN @ |-> IF \A s \in DOMAIN at : at[s] = (s - 1) % 2 THEN (@[at] + 1) % Prime ELSE @[at]]]
         IN  /\ VerifyYoung(Binding, h) = "ok"
             /\ HasYoung(h) => VerifyYoung(spoiled, h) = "assumption"

\* Tableaux, projectors and reductions agree with each other and with the
\* components they stand for (src/abstract/young.c, src/abstract/garnir.c).
YoungSymmetriesAgree == [][Conclude => TableauxAreConsistent /\ ProjectionsKeepMeaning]_case
=============================================================================
