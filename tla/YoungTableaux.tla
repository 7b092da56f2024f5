--------------------------- MODULE YoungTableaux ---------------------------
(***************************************************************************)
(* Young tableaux and multi-term symmetries: src/src/abstract/garnir.c and *)
(* young.c.  A tableau fills the cells of a shape with the slots of a      *)
(* head; its normalized symmetrizer is an idempotent of the group algebra, *)
(* applied here to the index list of one factor of a monomial, every image *)
(* canonicalized and collected.  A head that declares a tableau accepts a  *)
(* signed symmetry only when the symmetrizer already has it (is manifest). *)
(*                                                                         *)
(* A tableau is [slots, rows, rowLast]: slots row by row (numbered from    *)
(* 0), the row lengths, and which symmetrizer is applied last.             *)
(***************************************************************************)
EXTENDS AbstractTensors

\* Rows as sequences of slots, and columns.
Row(t, row) == SubSeq(t.slots, Across(LAMBDA n, r : n + t.rows[r], 1, 1, row - 1),
                               Across(LAMBDA n, r : n + t.rows[r], 0, 1, row))
ColumnLength(t, column) == Cardinality({row \in DOMAIN t.rows : t.rows[row] >= column})
Column(t, column) == [row \in 1 .. ColumnLength(t, column) |-> Row(t, row)[column]]
Rows(t) == [row \in DOMAIN t.rows |-> Row(t, row)]
Columns(t) == [column \in 1 .. t.rows[1] |-> Column(t, column)]

\* validate_shape: rows do not grow, and the filling is a permutation.
ValidShape(t) ==
    /\ t.rows # <<>> /\ t.slots # <<>>
    /\ \A r \in DOMAIN t.rows : t.rows[r] > 0 /\ (r > 1 => t.rows[r] <= t.rows[r - 1])
    /\ Across(LAMBDA n, r : n + t.rows[r], 0, 1, Len(t.rows)) = Len(t.slots)
    /\ \A i, j \in DOMAIN t.slots : /\ t.slots[i] \in 0 .. (Len(t.slots) - 1)
                                    /\ t.slots[i] = t.slots[j] => i = j

\* tableau_is_standard
IsStandard(t) ==
    \A row \in DOMAIN t.rows : \A c \in 1 .. t.rows[row] :
        /\ c > 1 => Row(t, row)[c - 1] < Row(t, row)[c]
        /\ row > 1 => Row(t, row - 1)[c] < Row(t, row)[c]

Hook(rows, row, column) ==
    (rows[row] - column + 1) + Cardinality({b \in DOMAIN rows : b > row /\ rows[b] >= column})
HookProduct(rows) ==
    Across(LAMBDA p, row : Across(LAMBDA q, c : q * Hook(rows, row, c), p, 1, rows[row]), 1, 1, Len(rows))
BlockOrder(blocks) == Across(LAMBDA p, b : p * Factorial(Len(blocks[b])), 1, 1, Len(blocks))

\* phy_young_tableau_validate
TableauInfo(t) ==
    [standard |-> IsStandard(t), rowOrder |-> BlockOrder(Rows(t)), columnOrder |-> BlockOrder(Columns(t)),
     hooks |-> HookProduct(t.rows), standardCount |-> Factorial(Len(t.slots)) \div HookProduct(t.rows)]

\* phy_young_tableau_check_head: rows and columns of one index space each.
FitsHead(t, slots) ==
    /\ ValidShape(t) /\ Len(t.slots) = Len(slots)
    /\ \A block \in {Row(t, r) : r \in DOMAIN t.rows} \cup {Column(t, c) : c \in 1 .. t.rows[1]} :
         \A i, j \in DOMAIN block : slots[block[i] + 1] = slots[block[j] + 1]

\* standard_walk and phy_young_standard_tableaux: labels are placed in order,
\* each at the end of a row that the row above still overhangs.
RECURSIVE StandardWalk(_, _, _, _)
StandardWalk(rows, filled, labels, label) ==
    LET size == Across(LAMBDA n, r : n + rows[r], 0, 1, Len(rows))
        Open(r) == filled[r] < rows[r] /\ (r = 1 \/ filled[r] < filled[r - 1])
        Cell(r) == Across(LAMBDA n, q : n + rows[q], 0, 1, r - 1) + filled[r] + 1
    IN  IF label = size THEN <<Evaluated(labels)>>
        ELSE Joined([r \in DOMAIN rows |->
                       IF ~Open(r) THEN <<>>
                       ELSE StandardWalk(rows, [filled EXCEPT ![r] = @ + 1], [labels EXCEPT ![Cell(r)] = label], label + 1)])
StandardTableaux(rows) ==
    StandardWalk(rows, [r \in DOMAIN rows |-> 0],
                 Evaluated([c \in 1 .. Across(LAMBDA n, r : n + rows[r], 0, 1, Len(rows)) |-> 0]), 0)

\* phy_young_gl_dimension: hook content, each hook divided out of the contents
\* one after the other.
RECURSIVE GcdOf(_, _)
GcdOf(a, b) == IF b = 0 THEN a ELSE GcdOf(b, a % b)
GlDimension(rows, dimension) ==
    LET cells == Joined([r \in DOMAIN rows |-> [c \in 1 .. rows[r] |-> <<r, c>>]])
        Content(cell) == dimension - cell[1] + cell[2]
        Divide(numbers, cell) ==
            Through(LAMBDA acc, k : LET g == GcdOf(acc.numbers[k], acc.hook)
                                    IN  [numbers |-> [acc.numbers EXCEPT ![k] = @ \div g], hook |-> acc.hook \div g],
                    [numbers |-> numbers, hook |-> Hook(rows, cell[1], cell[2])], [k \in DOMAIN cells |-> k]).numbers
    IN  IF \E k \in DOMAIN cells : Content(cells[k]) <= 0 THEN 0
        ELSE Through(LAMBDA p, n : p * n, 1,
                     Through(Divide, [k \in DOMAIN cells |-> Content(cells[k])], cells))

-----------------------------------------------------------------------------
(* Symmetrizers *)

\* enumerate_one_block and enumerate_blocks: every product of permutations of
\* the blocks, with its sign when the blocks alternate.  emit_group_element
\* sends each slot of a block to where the swaps have put it.
RECURSIVE BlockElements(_, _, _, _)
BlockElements(work, position, sign, out) ==
    IF position > Len(work) THEN out \cup {[work |-> work, sign |-> sign]}
    ELSE UNION {BlockElements([work EXCEPT ![position] = work[choice], ![choice] = work[position]],
                              position + 1, IF choice = position THEN sign ELSE -sign, out) :
                choice \in position .. Len(work)}

BlockGroup(degree, blocks, alternating) ==
    LET Extend(images, block) ==
            {[image |-> [s \in 0 .. (degree - 1) |->
                           IF \E i \in DOMAIN block : block[i] = s
                           THEN e.work[CHOOSE i \in DOMAIN block : block[i] = s] ELSE p.image[s]],
              sign |-> IF alternating THEN p.sign * e.sign ELSE 1] :
             p \in images, e \in BlockElements(block, 1, 1, {})}
    IN  Through(Extend, {[image |-> [s \in 0 .. (degree - 1) |-> s], sign |-> 1]}, blocks)

After(outer, inner) == [s \in DOMAIN inner |-> outer[inner[s]]]

\* The images and signs of a plan entry: the outer group after the inner one.
Products(outer, inner) ==
    {[image |-> After(a.image, b.image), sign |-> a.sign * b.sign] : a \in outer, b \in inner}

\* Variant: the order of the two symmetrizers is always the same.
SymmetrizerRowLast(t) ==
    Products(BlockGroup(Len(t.slots), Rows(t), FALSE), BlockGroup(Len(t.slots), Columns(t), TRUE))

\* young_algebra_build and plan_append_projector
Symmetrizer(t) ==
    LET rows == BlockGroup(Len(t.slots), Rows(t), FALSE)
        columns == BlockGroup(Len(t.slots), Columns(t), TRUE)
    IN  IF t.rowLast THEN Products(rows, columns) ELSE Products(columns, rows)

\* algebra_manifest: the symmetrizer times the generator is the symmetrizer.
IsManifest(t, image, sign) ==
    LET algebra == Symmetrizer(t) IN
    \A e \in algebra : [image |-> After(e.image, image), sign |-> sign * e.sign] \in algebra

\* phy_tensor_head_add_symmetry and phy_tensor_head_set_young_symmetry, on the
\* head itself: a head with a tableau takes manifest symmetries only, and takes
\* a tableau only when the symmetries it has are manifest.
HeadStatus(status, head) == [status |-> status, head |-> head]
AddSymmetry(head, g) ==
    IF ~ValidImage(head.slots, g.image) THEN HeadStatus("type", head)
    ELSE IF \E k \in DOMAIN head.generators : head.generators[k] = g THEN HeadStatus("ok", head)
    ELSE IF head.young.slots # <<>> /\ ~IsManifest(head.young, g.image, g.sign) THEN HeadStatus("type", head)
    ELSE HeadStatus("ok", [head EXCEPT !.generators = Append(@, g)])
SetYoungSymmetry(head, t) ==
    IF head.young.slots # <<>> THEN HeadStatus("already", head)
    ELSE IF ~FitsHead(t, head.slots) THEN HeadStatus("type", head)
    ELSE IF \E k \in DOMAIN head.generators : ~IsManifest(t, head.generators[k].image, head.generators[k].sign)
    THEN HeadStatus("type", head)
    ELSE HeadStatus("ok", [head EXCEPT !.young = t])

\* phy_young_garnir_count and garnir_locate: the neighbouring columns, split
\* at each row of the shorter one.
GarnirPlaces(t) ==
    Joined([c \in 1 .. (t.rows[1] - 1) |-> [split \in 1 .. ColumnLength(t, c + 1) |-> <<c, split>>]])

\* Variant: the split row is left out of the right column.
GarnirSlotsShort(t, which) ==
    LET place == GarnirPlaces(t)[which]
        Part(row) == (IF row >= place[2] THEN <<Row(t, row)[place[1]]>> ELSE <<>>) \o
                     (IF row < place[2] /\ t.rows[row] >= place[1] + 1 THEN <<Row(t, row)[place[1] + 1]>> ELSE <<>>)
    IN  Joined([row \in 1 .. ColumnLength(t, place[1]) |-> Part(row)])

\* phy_young_garnir_slots: column j from the split row down, and column j + 1
\* down to it.
GarnirSlots(t, which) ==
    LET place == GarnirPlaces(t)[which]
        Part(row) == (IF row >= place[2] THEN <<Row(t, row)[place[1]]>> ELSE <<>>) \o
                     (IF row <= place[2] /\ t.rows[row] >= place[1] + 1 THEN <<Row(t, row)[place[1] + 1]>> ELSE <<>>)
    IN  Joined([row \in 1 .. ColumnLength(t, place[1]) |-> Part(row)])

-----------------------------------------------------------------------------
(* Projection *)

\* A plan entry acts on the slots of the factor that starts at offset.
Entry(offset, elements, denominator) == [offset |-> offset, elements |-> elements, denominator |-> denominator]
ProjectorEntry(m, factor, t) == Entry(Offset(HeadsOf(m), factor), Symmetrizer(t), HookProduct(t.rows))

\* plan_walk: the product of the entries, over all slots of the monomial.
Images(plan, degree) ==
    LET Lift(image, e, entry) ==
            [s \in 0 .. (degree - 1) |-> LET local == s - entry.offset IN
                                         IF local \in DOMAIN e.image THEN entry.offset + e.image[local] ELSE image[s]]
        Extend(all, entry) == {[image |-> Lift(p.image, e, entry), sign |-> p.sign * e.sign] :
                                 p \in all, e \in entry.elements}
    IN  Through(Extend, {[image |-> [s \in 0 .. (degree - 1) |-> s], sign |-> 1]}, plan)

InverseMod(n) == CHOOSE k \in 1 .. (Prime - 1) : (n * k) % Prime = 1
Inverses == [n \in {1, 2, 3, 4, 6, 8, 12, 24, 16, 36, 48, 64, 144} |-> InverseMod(n)]

\* sink_emit: the monomial with its indices moved to their images.
Emitted(m, image, coefficient) ==
    LET old == Indices(m)
        new == [s \in DOMAIN old |-> old[CHOOSE r \in DOMAIN old : image[r - 1] = s - 1]]
        heads == HeadsOf(m)
    IN  MonomialCreate(coefficient,
            [f \in DOMAIN m.factors |->
               [head |-> heads[f], indices |-> SubSeq(new, Offset(heads, f) + 1, Offset(heads, f) + Width(heads[f]))]])

\* plan_apply: an image of every element is canonicalized and collected.
PlanApply(e, plan, m) ==
    LET scale == Through(LAMBDA c, entry : (c * Inverses[entry.denominator]) % Prime, m.coefficient, plan)
        RECURSIVE Collect(_, _)
        Collect(acc, left) ==
            IF left = {} THEN acc
            ELSE LET p == CHOOSE q \in left : TRUE
                     raw == Emitted(m, p.image, (p.sign * scale) % Prime)
                     term == IF raw.status = "ok" THEN Canonicalize(raw) ELSE raw
                 IN  Collect(CollectTerm(acc, term), left \ {p})
    IN  Collect(e, Images(plan, Len(Indices(m))))

\* phy_tensor_monomial_young_project and phy_tensor_expression_young_project
YoungProject(m, factor, t) ==
    Sorted(PlanApply(Expression(FreeIndices(m), <<>>), <<ProjectorEntry(m, factor, t)>>, m))
ExpressionYoungProject(e, factor, t) ==
    LET Fits(m) == factor \in DOMAIN m.factors /\ m.factors[factor].head = e.terms[1].factors[factor].head
    IN  IF e.terms = <<>> THEN e
        ELSE IF \E k \in DOMAIN e.terms : ~Fits(e.terms[k]) THEN Refused("type")
        ELSE Sorted(Through(LAMBDA acc, m : PlanApply(acc, <<ProjectorEntry(m, factor, t)>>, m),
                            Expression(e.free, <<>>), e.terms))

\* phy_tensor_monomial_garnir_relation
GarnirRelation(m, factor, which) ==
    LET t == Heads[m.factors[factor].head].young
        slots == GarnirSlots(t, which)
        entry == Entry(Offset(HeadsOf(m), factor), BlockGroup(Len(t.slots), <<slots>>, TRUE), Factorial(Len(slots)))
    IN  Sorted(PlanApply(Expression(FreeIndices(m), <<>>), <<entry>>, m))

\* build_declared_plan and phy_tensor_expression_young_reduce: every declared
\* factor of a term at once.
HasYoung(head) == Heads[head].young.slots # <<>>
DeclaredPlan(m) ==
    LET declared == SelectSeq([f \in DOMAIN m.factors |-> f], LAMBDA f : HasYoung(m.factors[f].head))
    IN  [k \in DOMAIN declared |-> ProjectorEntry(m, declared[k], Heads[m.factors[declared[k]].head].young)]
YoungReduce(e) ==
    Sorted(Through(LAMBDA acc, m : PlanApply(acc, DeclaredPlan(m), m), Expression(e.free, <<>>), e.terms))
=============================================================================
