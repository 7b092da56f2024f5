-------------------------- MODULE AbstractTensors --------------------------
(***************************************************************************)
(* Abstract tensors: src/src/abstract (index.c, head.c, monomial.c,        *)
(* canonical.c, dgs.c, young.c).  An index names a place in an index       *)
(* space, up or down; a head has a space for each slot, signed slot        *)
(* symmetries, and commutes or not; a monomial is a coefficient times      *)
(* heads with indices, where a name used twice, once up and once down, is  *)
(* summed over.  Two routes compute the canonical form of a monomial: a    *)
(* pruned search down the stabilizer chain of its slot group               *)
(* (canonical.c), and the full double coset (dgs.c).  Expressions are      *)
(* sums of canonical monomials with like terms collected.                  *)
(*                                                                         *)
(* Names are numbers in the order of strcmp; a coefficient is a number     *)
(* modulo Prime in place of a CAS expression.  Slots of a monomial are     *)
(* numbered from 0.  The byte and step budgets are not modelled.           *)
(***************************************************************************)
EXTENDS Accumulate, FiniteSets

CONSTANTS Metric,     \* index space -> "none", "symmetric" or "antisymmetric"
          Heads,      \* head -> [slots, commuting, generators, young]
          HeadLists,  \* the lists of heads monomials are made of, in order
          Prime

\* The strong generators of a slot group, and its stabilizer chain.
Slots(Degree, generators, negativeIdentity) ==
    INSTANCE PermGroup WITH MaxGenerators <- 256, MaxStrong <- 1024, Images <- {},
                            strong <- <<>>, built <- FALSE, order <- 0,
                            chain <- <<>>, phase <- "idle"

Error(status) == [status |-> status, coefficient |-> 0, factors |-> <<>>]
Monomial(coefficient, factors) ==
    [status |-> "ok", coefficient |-> coefficient % Prime, factors |-> factors]

Indices(m) == Joined([f \in DOMAIN m.factors |-> m.factors[f].indices])
HeadsOf(m) == [f \in DOMAIN m.factors |-> m.factors[f].head]
SameName(i, j) == i.space = j.space /\ i.name = j.name
Uses(indices, i) == {s \in DOMAIN indices : SameName(indices[s], i)}
IsDummy(indices, i) == Cardinality(Uses(indices, i)) = 2
FreeIndices(m) == LET all == Indices(m) IN {all[s] : s \in {t \in DOMAIN all : ~IsDummy(all, all[t])}}

\* copy_factors and build_census: every index in the space of its slot; each
\* name once, or once up and once down.
WellTyped(m) ==
    /\ \A f \in DOMAIN m.factors :
         [s \in DOMAIN m.factors[f].indices |-> m.factors[f].indices[s].space] = Heads[m.factors[f].head].slots
    /\ LET all == Indices(m) IN
       \A s, t \in DOMAIN all : s # t /\ SameName(all[s], all[t]) =>
            all[s].up # all[t].up /\ IsDummy(all, all[s])

MonomialCreate(coefficient, factors) ==
    LET m == Monomial(coefficient, factors) IN IF WellTyped(m) THEN m ELSE Error("type")

\* phy_tensor_head_add_symmetry: the image permutes slots of equal space.
ValidImage(slots, image) ==
    /\ DOMAIN image = 0 .. (Len(slots) - 1)
    /\ \A i \in DOMAIN image : image[i] \in DOMAIN image /\ slots[i + 1] = slots[image[i] + 1]
    /\ \A i, j \in DOMAIN image : image[i] = image[j] => i = j

-----------------------------------------------------------------------------
(* The slot group *)

\* A head sorts before another within a run of commuting factors.
Before(a, b) == a < b /\ Heads[a].commuting /\ Heads[b].commuting

\* phy_canonical_factor_order: an insertion sort that never crosses a
\* noncommuting factor.  The result lists positions of factors.
FactorOrder(heads) ==
    LET Insert(order, f) ==
            LET stops == {p \in DOMAIN order : ~Before(heads[f], heads[order[p]])}
                at == IF stops = {} THEN 0 ELSE CHOOSE p \in stops : \A q \in stops : q <= p
            IN  SubSeq(order, 1, at) \o <<f>> \o SubSeq(order, at + 1, Len(order))
    IN  Through(Insert, <<>>, [f \in DOMAIN heads |-> f])

Width(head) == Len(Heads[head].slots)
Offset(heads, f) == Across(LAMBDA sum, g : sum + Width(heads[g]), 0, 1, f - 1)
DegreeOf(heads) == Offset(heads, Len(heads) + 1)

\* add_lifted_generators and add_factor_exchange_generators.
LiftedGenerators(heads) ==
    LET n == DegreeOf(heads)
        Lift(f, g) == [image |-> [s \in 0 .. (n - 1) |->
                                    LET local == s - Offset(heads, f) IN
                                    IF local \in DOMAIN g.image THEN Offset(heads, f) + g.image[local] ELSE s],
                       sign |-> g.sign]
    IN  Joined([f \in DOMAIN heads |->
                  [k \in DOMAIN Heads[heads[f]].generators |-> Lift(f, Heads[heads[f]].generators[k])]])

ExchangeGenerators(heads) ==
    LET n == DegreeOf(heads)
        Exchanged(f) == /\ f > 1 /\ heads[f - 1] = heads[f]
                        /\ Heads[heads[f]].commuting /\ Width(heads[f]) > 0
        Exchange(f) ==
            LET w == Width(heads[f])  left == Offset(heads, f - 1)
            IN  [image |-> [s \in 0 .. (n - 1) |-> IF s \in left .. (left + w - 1) THEN s + w
                                                   ELSE IF s \in (left + w) .. (left + 2 * w - 1) THEN s - w
                                                   ELSE s],
                 sign |-> 1]
        places == SelectSeq([f \in DOMAIN heads |-> f], Exchanged)
    IN  [k \in DOMAIN places |-> Exchange(places[k])]

SlotGenerators(heads) == LiftedGenerators(heads) \o ExchangeGenerators(heads)

\* phy_perm_group_build_bsgs and phy_perm_chain_build on those generators.
SlotGroup(heads) ==
    LET n == DegreeOf(heads)
        generators == SlotGenerators(heads)
        start == Slots(n, generators, FALSE)!InitializeStrongGenerators
        Pass(acc) == LET chain == Slots(n, generators, acc.negative)!ChainBuild(acc.strong)
                         rounds == Slots(n, generators, acc.negative)!Rounds(acc.strong)
                     IN  Slots(n, generators, acc.negative)!AddSchreierGenerators(chain, acc.strong, rounds)
        done == While(LAMBDA acc : acc.changed, Pass, [start EXCEPT !.changed = TRUE], 8)
    IN  [generators |-> generators, negative |-> done.negative,
         chain |-> IF n = 0 THEN <<>> ELSE Slots(n, generators, FALSE)!ChainBuild(done.strong)]

Groups == [heads \in HeadLists |-> SlotGroup(heads)]

-----------------------------------------------------------------------------
(* Keys *)

\* phy_canonical_compare_key over sequences of keys.
KeyLess(a, b) == \E p \in DOMAIN a : a[p] < b[p] /\ \A q \in 1 .. (p - 1) : a[q] = b[q]
ListLess(a, b) == \E p \in DOMAIN a : KeyLess(a[p], b[p]) /\ \A q \in 1 .. (p - 1) : a[q] = b[q]
Rank(i) == IF i.up THEN 0 ELSE 1

\* normalize_prefix over the first count places of an arrangement: a dummy is
\* numbered in its space by first appearance, and where there is a metric the
\* first of a pair is raised, with a sign if the metric is antisymmetric.
Normalized(base, perm, count) ==
    LET index == Evaluated([s \in 1 .. count |-> base[perm[s - 1] + 1]])
        first == Evaluated([s \in 1 .. count |->
                              CHOOSE t \in 1 .. s : /\ SameName(index[t], index[s])
                                                    /\ \A r \in 1 .. (t - 1) : ~SameName(index[r], index[s])])
        dummy == {s \in 1 .. count : IsDummy(base, index[s])}
        Ordinal(s) == Cardinality({t \in dummy : /\ t < first[s] /\ first[t] = t
                                                 /\ index[t].space = index[s].space})
        Raised(s) == first[s] = s
        Out(s) == IF s \in dummy /\ Metric[index[s].space] # "none"
                  THEN [index[s] EXCEPT !.up = Raised(s)] ELSE index[s]
        flips == {s \in dummy : /\ Raised(s) /\ ~index[s].up
                                /\ Metric[index[s].space] = "antisymmetric"}
    IN  [indices |-> Evaluated([s \in 1 .. count |-> Out(s)]),
         keys |-> Evaluated([s \in 1 .. count |->
                     IF s \in dummy THEN <<1, Ordinal(s), Rank(Out(s))>> ELSE <<0, index[s].name, Rank(index[s])>>]),
         sign |-> IF Cardinality(flips) % 2 = 0 THEN 1 ELSE -1]

-----------------------------------------------------------------------------
(* The pruned search *)

\* Variant: an arrangement as good as the best is discarded with the worse.
EvaluateStrictly(search, base, perm, sign) ==
    LET c == Normalized(base, perm, Len(base))
    IN  IF ~search.found \/ ListLess(c.keys, search.keys)
        THEN [search EXCEPT !.found = TRUE, !.keys = c.keys, !.indices = c.indices, !.sign = sign * c.sign]
        ELSE search

\* evaluate_candidate at a leaf.
EvaluateCandidate(search, base, perm, sign) ==
    LET c == Normalized(base, perm, Len(base))
        total == sign * c.sign
    IN  IF ~search.found \/ ListLess(c.keys, search.keys)
        THEN [search EXCEPT !.found = TRUE, !.keys = c.keys, !.indices = c.indices, !.sign = total]
        ELSE IF c.keys = search.keys /\ total # search.sign THEN [search EXCEPT !.zero = TRUE]
        ELSE search

\* The points of an orbit, in the order of the key each would put at level.
ByKey(base, chain, level, perm) ==
    LET Key(p) == Normalized(base, [s \in DOMAIN perm |-> perm[chain[level][p].image[s]]], level + 1).keys[level + 1]
        orbit == DOMAIN chain[level]
        key == Evaluated([p \in orbit |-> Key(p)])
        Position(p) == Cardinality({q \in orbit : KeyLess(key[q], key[p]) \/ (key[q] = key[p] /\ q < p)})
    IN  [i \in 1 .. Cardinality(orbit) |-> CHOOSE p \in orbit : Position(p) = i - 1]

\* traverse_slot_group: a coset whose prefix is already worse than the best
\* arrangement is skipped, and nothing more is visited after a zero.
RECURSIVE Traverse(_, _, _, _, _, _)
Traverse(search, base, chain, level, perm, sign) ==
    IF search.zero THEN search
    ELSE IF level = Len(base) THEN EvaluateCandidate(search, base, perm, sign)
    ELSE Through(LAMBDA s, p :
                   LET next == Evaluated([i \in DOMAIN perm |-> perm[chain[level][p].image[i]]])
                       prefix == Normalized(base, next, level + 1).keys
                   IN  IF s.zero \/ (s.found /\ ListLess(SubSeq(s.keys, 1, level + 1), prefix)) THEN s
                       ELSE Traverse(s, base, chain, level + 1, next, sign * chain[level][p].sign),
                 search, ByKey(base, chain, level, perm))

\* dummy_symbol: _d0, _d1, ... with a suffix while a free index of the space
\* has that name.
Reserved(ordinal, suffix) == 10 * ordinal + suffix - 1000
DummySymbol(m, space, ordinal) ==
    Reserved(ordinal, CHOOSE k \in 0 .. 9 :
        /\ \A i \in FreeIndices(m) : ~SameName(i, [space |-> space, name |-> Reserved(ordinal, k)])
        /\ \A j \in 0 .. (k - 1) : \E i \in FreeIndices(m) :
                SameName(i, [space |-> space, name |-> Reserved(ordinal, j)]))

\* phy_canonical_build_output
BuildOutput(m, order, indices, keys, sign, zero) ==
    LET heads == [p \in DOMAIN order |-> m.factors[order[p]].head]
        renamed == [s \in DOMAIN indices |->
                      IF keys[s][1] = 0 THEN indices[s]
                      ELSE [indices[s] EXCEPT !.name = DummySymbol(m, indices[s].space, keys[s][2])]]
    IN  IF zero THEN Monomial(0, <<>>)
        ELSE MonomialCreate(sign * m.coefficient,
                 [p \in DOMAIN order |->
                    [head |-> heads[p],
                     indices |-> SubSeq(renamed, Offset(heads, p) + 1, Offset(heads, p) + Width(heads[p]))]])

Ordered(m, order) == [m EXCEPT !.factors = [p \in DOMAIN order |-> m.factors[order[p]]]]

\* phy_tensor_monomial_canonicalize
Canonicalize(m) ==
    LET order == FactorOrder(HeadsOf(m))
        base == Indices(Ordered(m, order))
        group == Groups[HeadsOf(Ordered(m, order))]
        start == [found |-> FALSE, keys |-> <<>>, indices |-> <<>>, sign |-> 1, zero |-> FALSE]
        search == IF group.negative THEN [start EXCEPT !.zero = TRUE]
                  ELSE Traverse(start, base, group.chain, 0, [s \in 0 .. (Len(base) - 1) |-> s], 1)
    IN  IF base = <<>> THEN BuildOutput(m, order, <<>>, <<>>, 1, FALSE)
        ELSE BuildOutput(m, order, search.indices, search.keys, search.sign, search.zero)

-----------------------------------------------------------------------------
(* The double coset *)

\* enumerate_slot_group: right products of what is known with the generators.
EnumerateSlotGroup(n, generators) ==
    LET Grow(known) ==
            known \cup {[image |-> [s \in 0 .. (n - 1) |-> e.image[generators[g].image[s]]],
                         sign |-> e.sign * generators[g].sign] : e \in known, g \in DOMAIN generators}
        RECURSIVE Close(_)
        Close(known) == LET more == Grow(known) IN IF more = known THEN known ELSE Close(more)
    IN  Close({[image |-> [s \in 0 .. (n - 1) |-> s], sign |-> 1]})

Factorial(n) == Across(LAMBDA p, i : p * i, 1, 2, n)

\* decode_relabel: the code-th renumbering of count pairs, in the factorial
\* number system.
DecodeRelabel(count, code) ==
    Through(LAMBDA acc, i :
              LET block == Factorial(count - i - 1)
                  choice == 1 + (acc.code \div block)
              IN  [code |-> acc.code % block,
                   out |-> Append(acc.out, acc.pool[choice]),
                   pool |-> SubSeq(acc.pool, 1, choice - 1) \o SubSeq(acc.pool, choice + 1, Len(acc.pool))],
            [code |-> code, out |-> <<>>, pool |-> UpTo(count)], UpTo(count)).out

\* census_dummy_pairs: the spaces that own contracted pairs, by first
\* appearance, each with its pairs; a pair is the place of its first member.
DummySpaces(base) ==
    LET firsts == SelectSeq([s \in DOMAIN base |-> s],
                            LAMBDA s : /\ IsDummy(base, base[s])
                                       /\ \A t \in Uses(base, base[s]) : s <= t)
        Owner(s) == base[s].space
        spaces == Through(LAMBDA seen, s : IF \E k \in DOMAIN seen : seen[k] = Owner(s) THEN seen
                                           ELSE Append(seen, Owner(s)), <<>>, firsts)
    IN  [k \in DOMAIN spaces |-> [space |-> spaces[k], pairs |-> SelectSeq(firsts, LAMBDA s : Owner(s) = spaces[k])]]

FlipCount(space, count) == IF Metric[space] = "none" THEN 1 ELSE 2 ^ count
ElementCount(d) == Factorial(Len(d.pairs)) * FlipCount(d.space, Len(d.pairs))

\* decode_dummy_element: a mixed-radix number over the spaces.
DecodeDummyElement(spaces, code) ==
    LET Decode(acc, d) ==
            LET count == Len(d.pairs)
                local == acc.code % ElementCount(d)
                relabel == DecodeRelabel(count, local % Factorial(count))
                flips == local \div Factorial(count)
                flipped == {k \in 1 .. count : (flips \div 2 ^ (k - 1)) % 2 = 1}
            IN  [code |-> acc.code \div ElementCount(d),
                 ordinal |-> [s \in DOMAIN acc.ordinal \cup {d.pairs[k] : k \in 1 .. count} |->
                                IF s \in DOMAIN acc.ordinal THEN acc.ordinal[s]
                                ELSE relabel[CHOOSE k \in 1 .. count : d.pairs[k] = s]],
                 flipped |-> acc.flipped \cup {d.pairs[k] : k \in flipped},
                 sign |-> IF Metric[d.space] = "antisymmetric" /\ Cardinality(flipped) % 2 = 1
                          THEN -acc.sign ELSE acc.sign]
    IN  Through(Decode, [code |-> code, ordinal |-> <<>>, flipped |-> {}, sign |-> 1], spaces)

\* build_candidate
CosetCandidate(base, element, dummy) ==
    LET index == [s \in DOMAIN base |-> base[element.image[s - 1] + 1]]
        Pair(s) == CHOOSE t \in Uses(base, index[s]) : \A u \in Uses(base, index[s]) : t <= u
        Out(s) == IF IsDummy(base, index[s]) /\ Pair(s) \in dummy.flipped
                  THEN [index[s] EXCEPT !.up = ~@] ELSE index[s]
    IN  [indices |-> [s \in DOMAIN base |-> Out(s)],
         keys |-> [s \in DOMAIN base |->
                     IF IsDummy(base, index[s]) THEN <<1, dummy.ordinal[Pair(s)], Rank(Out(s))>>
                     ELSE <<0, index[s].name, Rank(index[s])>>],
         sign |-> element.sign * dummy.sign]

\* compare_candidate, accept_candidate and visit_double_coset: the least
\* arrangement, zero if it comes with both signs.
Least(candidates) ==
    LET best == CHOOSE c \in candidates : \A d \in candidates : ~ListLess(d.keys, c.keys)
    IN  [best |-> best, zero |-> \E c \in candidates : c.keys = best.keys /\ c.sign # best.sign]

\* phy_tensor_monomial_canonicalize_dgs: over the whole double coset.
CanonicalizeDgs(m) ==
    LET order == FactorOrder(HeadsOf(m))
        base == Indices(Ordered(m, order))
        elements == EnumerateSlotGroup(Len(base), SlotGenerators(HeadsOf(Ordered(m, order))))
        negative == \E e \in elements : [e EXCEPT !.sign = -@] \in elements
        spaces == DummySpaces(base)
        codes == Across(LAMBDA p, k : p * ElementCount(spaces[k]), 1, 1, Len(spaces))
        candidates == UNION {{CosetCandidate(base, e, d) : e \in elements} :
                               d \in {DecodeDummyElement(spaces, code) : code \in 0 .. (codes - 1)}}
        least == Least(candidates)
    IN  IF base = <<>> THEN BuildOutput(m, order, <<>>, <<>>, 1, FALSE)
        ELSE BuildOutput(m, order, least.best.indices, least.best.keys, least.best.sign, negative \/ least.zero)

-----------------------------------------------------------------------------
(* Expressions *)

\* The order of terms: compare_monomial_structure on tuples of numbers.
Structure(m) ==
    <<Len(m.factors)>> \o
    Joined([f \in DOMAIN m.factors |->
              <<m.factors[f].head>> \o
              Joined([s \in DOMAIN m.factors[f].indices |->
                        LET i == m.factors[f].indices[s] IN <<i.space, i.name, IF i.up THEN 1 ELSE 0>>])])
StructureLess(a, b) == \E p \in DOMAIN a \cap DOMAIN b : a[p] < b[p] /\ \A q \in 1 .. (p - 1) : a[q] = b[q]

Expression(free, terms) == [status |-> "ok", free |-> free, terms |-> terms]
Refused(status) == [status |-> status, free |-> {}, terms |-> <<>>]

\* phy_expression_collect_term
CollectTerm(e, term) ==
    LET like == {k \in DOMAIN e.terms : Structure(e.terms[k]) = Structure(term)} IN
    IF e.status # "ok" THEN e
    ELSE IF term.status # "ok" THEN Refused(term.status)
    ELSE IF term.coefficient = 0 THEN e
    ELSE IF like = {} THEN [e EXCEPT !.terms = Append(@, term)]
    ELSE LET k == CHOOSE j \in like : \A i \in like : j <= i
             sum == (e.terms[k].coefficient + term.coefficient) % Prime
         IN  IF sum = 0 THEN [e EXCEPT !.terms = SubSeq(@, 1, k - 1) \o SubSeq(@, k + 1, Len(@))]
             ELSE [e EXCEPT !.terms[k].coefficient = sum]

\* phy_expression_sort
Sorted(e) ==
    LET Insert(terms, t) ==
            LET before == {k \in DOMAIN terms : ~StructureLess(Structure(t), Structure(terms[k]))}
                at == IF before = {} THEN 0 ELSE CHOOSE k \in before : \A j \in before : j <= k
            IN  SubSeq(terms, 1, at) \o <<t>> \o SubSeq(terms, at + 1, Len(terms))
    IN  [e EXCEPT !.terms = Through(Insert, <<>>, e.terms)]

\* clone_canonical_scaled and append_scaled_expression
CanonicalScaled(m, scale) == Canonicalize([m EXCEPT !.coefficient = (@ * scale) % Prime])
AppendScaled(e, source, scale) ==
    Through(LAMBDA acc, t : CollectTerm(acc, CanonicalScaled(t, scale)), e, source.terms)

FromMonomial(m) == Sorted(CollectTerm(Expression(FreeIndices(m), <<>>), CanonicalScaled(m, 1)))

\* phy_tensor_expression_add and _scale
SumOf(left, right) ==
    IF left.free # right.free THEN Refused("type")
    ELSE Sorted(AppendScaled(AppendScaled(Expression(left.free, <<>>), left, 1), right, 1))
ScaledBy(e, scale) == Sorted(AppendScaled(Expression(e.free, <<>>), e, scale))

\* product_signature: a name free on both sides becomes a dummy pair.
SharedNames(left, right) == {<<i, j>> \in left.free \X right.free : SameName(i, j)}

\* canonical_product: the factors side by side, their names as they are.
CanonicalProduct(a, b) ==
    LET m == MonomialCreate(a.coefficient * b.coefficient, a.factors \o b.factors)
    IN  IF m.status = "ok" THEN Canonicalize(m) ELSE m

\* phy_tensor_expression_multiply
ProductOf(left, right) ==
    LET shared == SharedNames(left, right)
        free == (left.free \cup right.free) \ UNION {{p[1], p[2]} : p \in shared}
        pairs == Joined([i \in DOMAIN left.terms |-> [j \in DOMAIN right.terms |-> <<left.terms[i], right.terms[j]>>]])
    IN  IF \E p \in shared : p[1].up = p[2].up THEN Refused("type")
        ELSE Sorted(Through(LAMBDA acc, p : CollectTerm(acc, CanonicalProduct(p[1], p[2])), Expression(free, <<>>), pairs))
=============================================================================
