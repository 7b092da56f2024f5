------------------------------- MODULE Dirac -------------------------------
(***************************************************************************)
(* Gamma strings: src/src/qft/dirac.c.  A term is a coefficient c and a    *)
(* sequence f of factors, each a gamma matrix on a spin line with an index *)
(* or a momentum.  A coefficient is a polynomial modulo Prime: a function  *)
(* from its monomials, which map metric tensors, components of momenta and *)
(* products of momenta to their powers.  An expression is a sequence of    *)
(* terms; what an operation answers also says how many terms it generated. *)
(***************************************************************************)
EXTENDS Kinematics

LOCAL INSTANCE FiniteSetsExt

CONSTANT MaxFactors   \* PHY_DIRAC_MAX_FACTORS

\* phy_dirac_create: a limit of zero is the default one.
Smaller(a, b) == IF a < b THEN a ELSE b
DiracOf(metric, maxGammas, maxTerms) ==
    IF metric.dimension # 4 THEN [status |-> "unsupported"]
    ELSE [status |-> "ok", metric |-> metric, traceOfOne |-> 4,
          maxGammas |-> IF maxGammas = 0 THEN Smaller(12, MaxFactors) ELSE Smaller(maxGammas, MaxFactors),
          maxTerms |-> IF maxTerms = 0 THEN 4096 ELSE maxTerms]

\* phy_dirac_set_trace_of_one
SetTraceOfOne(dirac, n) == [dirac EXCEPT !.traceOfOne = n]

Gamma(line, index) == [line |-> line, at |-> index]
MomentumAt(slot) == [kind |-> "momentum", name |-> slot, upper |-> FALSE]
GammaTerm(c, f) == [c |-> c, f |-> f]

\* factor_compare: by line, then by argument as the IR orders them.
ArgumentBefore(a, b) ==
    IF a.kind # b.kind THEN a.kind = "index"
    ELSE IF a.name # b.name THEN a.name < b.name ELSE a.upper /\ ~b.upper
FactorBefore(a, b) == a.line < b.line \/ (a.line = b.line /\ ArgumentBefore(a.at, b.at))

-----------------------------------------------------------------------------
(* Coefficients *)

MonomialTimes(m, n) == [a \in DOMAIN m \cup DOMAIN n |-> At(m, a) + At(n, a)]
Numeral(n) == Gathered({[a \in {} |-> 0]}, LAMBDA m : n)
SingleAtom(atom) == [m \in {[a \in {atom} |-> 1]} |-> 1]
CoefficientTimes(x, y) ==
    LET pairs == (DOMAIN x) \X (DOMAIN y)
    IN  Gathered({MonomialTimes(p[1], p[2]) : p \in pairs},
                 LAMBDA m : MapThenSumSet(LAMBDA p : x[p[1]] * y[p[2]], {p \in pairs : MonomialTimes(p[1], p[2]) = m}))

\* slot_dot: what two arguments next to each other are worth.
SlotDot(dirac, a, b) ==
    LET tensor == MetricTensor(dirac.metric, a, b, ArgumentBefore)
        first == IF ArgumentBefore(b, a) THEN b ELSE a
        last == IF ArgumentBefore(b, a) THEN a ELSE b
    IN  IF ~(OwnsIndex(a) /\ OwnsIndex(b))
        THEN [status |-> "ok", value |-> SingleAtom(<<IF OwnsIndex(first) THEN "component" ELSE "dot", first, last>>)]
        ELSE IF tensor.status # "ok" THEN [status |-> tensor.status, value |-> Numeral(0)]
        ELSE [status |-> "ok",
              value |-> IF "trace" \in DOMAIN tensor THEN Numeral(tensor.trace)
                        ELSE SingleAtom(<<"metric", tensor.slots[1], tensor.slots[2]>>)]

-----------------------------------------------------------------------------
(* Canonical form *)

\* check_line_lengths
LineTooLong(dirac, f) == \E i \in DOMAIN f : Cardinality({j \in DOMAIN f : f[j].line = f[i].line}) > dirac.maxGammas

\* term_index_records: heights are counted over the gammas, and the names met
\* in the coefficient are not this string's.
IndexPlaces(f) == {i \in DOMAIN f : OwnsIndex(f[i].at)}
GammaNames(f) == {f[i].at.name : i \in IndexPlaces(f)}
CoefficientNames(c) ==
    LET atoms == UNION {DOMAIN m : m \in DOMAIN c}
    IN  UNION {{a[k].name : k \in {j \in {2, 3} : OwnsIndex(a[j])}} : a \in atoms}
AtHeight(f, name, upper) == Cardinality({i \in IndexPlaces(f) : f[i].at.name = name /\ f[i].at.upper = upper})
PairedNames(f) == {name \in GammaNames(f) : AtHeight(f, name, TRUE) = 1 /\ AtHeight(f, name, FALSE) = 1}
Dummies(term) == PairedNames(term.f) \ CoefficientNames(term.c)
IndexStatus(term) ==
    IF \E name \in GammaNames(term.f), upper \in BOOLEAN : AtHeight(term.f, name, upper) > 1 THEN "type"
    ELSE IF PairedNames(term.f) # {} /\ Cardinality(GammaNames(term.f) \cup CoefficientNames(term.c)) > MaxFactors
    THEN "unsupported" ELSE "ok"

\* sort_factors_by_line: factors on one line keep their order.
SortByLine(f) ==
    Through(LAMBDA sorted, key : SelectSeq(sorted, LAMBDA g : g.line <= key.line) \o <<key>>
                                 \o SelectSeq(sorted, LAMBDA g : g.line > key.line), <<>>, f)

\* The names d1, d2, ...
DummyName(ordinal) == 100 + ordinal

\* rename_dummies: in the order they are met; a name used for something else is
\* skipped.  The renaming is applied at once.
NewNames(term) ==
    LET dummies == Dummies(term)
        reserved == (GammaNames(term.f) \cup CoefficientNames(term.c)) \ dummies
        Free(ordinal) ==
            CHOOSE k \in ordinal .. ordinal + Cardinality(reserved) :
                DummyName(k) \notin reserved /\ \A j \in ordinal .. k - 1 : DummyName(j) \in reserved
        Meet(s, i) ==
            LET name == term.f[i].at.name  k == Free(s.next) IN
            IF i \notin IndexPlaces(term.f) \/ name \notin dummies \/ name \in DOMAIN s.to THEN s
            ELSE [next |-> k + 1, to |-> [n \in DOMAIN s.to \cup {name} |-> IF n = name THEN DummyName(k) ELSE s.to[n]]]
    IN  Across(Meet, [next |-> 1, to |-> [n \in {} |-> 0]], 1, Len(term.f)).to
RenameDummies(term) ==
    LET to == Evaluated(NewNames(term))
    IN  [term EXCEPT !.f = [i \in DOMAIN @ |-> IF i \in IndexPlaces(@) /\ @[i].at.name \in DOMAIN to
                                               THEN [@[i] EXCEPT !.at.name = to[@]] ELSE @[i]]]

\* term_compare, sort_terms: fewer factors first, then factor by factor.
TermBefore(s, t) ==
    \/ Len(s) < Len(t)
    \/ /\ Len(s) = Len(t)
       /\ \E i \in DOMAIN s : FactorBefore(s[i], t[i]) /\ \A j \in 1 .. i - 1 : s[j] = t[j]
SortTerms(terms) ==
    Through(LAMBDA sorted, t : SelectSeq(sorted, LAMBDA s : ~TermBefore(t.f, s.f)) \o <<t>>
                               \o SelectSeq(sorted, LAMBDA s : TermBefore(t.f, s.f)), <<>>, terms)
Collected(terms) ==
    Through(LAMBDA out, t : IF out # <<>> /\ out[Len(out)].f = t.f
                            THEN [out EXCEPT ![Len(out)].c = Added(@, t.c)] ELSE Append(out, t), <<>>, terms)
Nonzero(terms) == SelectSeq(terms, LAMBDA t : t.c # Numeral(0))

\* canonical_node
TermStatus(dirac, term) == IF LineTooLong(dirac, term.f) THEN "term limit" ELSE IndexStatus(term)
Canonical(dirac, terms) ==
    LET bad == {i \in DOMAIN terms : TermStatus(dirac, terms[i]) # "ok"}
        first == CHOOSE i \in bad : \A j \in bad : i <= j
        ready == [i \in DOMAIN terms |-> RenameDummies([terms[i] EXCEPT !.f = SortByLine(@)])]
    IN  IF bad # {} THEN [status |-> TermStatus(dirac, terms[first]), terms |-> <<>>]
        ELSE IF Len(Nonzero(ready)) > dirac.maxTerms THEN [status |-> "term limit", terms |-> <<>>]
        ELSE [status |-> "ok", terms |-> Nonzero(Collected(SortTerms(Nonzero(ready))))]

-----------------------------------------------------------------------------
(* Rewriting: terms wait on a stack until no rule applies to them *)

\* note_generated, expr_push, expr_append
Push(dirac, s, term) ==
    IF s.status # "ok" THEN s
    ELSE IF s.generated = dirac.maxTerms \/ Len(s.pending) >= dirac.maxTerms THEN [s EXCEPT !.status = "term limit"]
    ELSE [s EXCEPT !.pending = Append(@, term), !.generated = @ + 1]
Settle(dirac, s, term) ==
    IF Len(s.settled) >= dirac.maxTerms THEN [s EXCEPT !.status = "term limit"] ELSE [s EXCEPT !.settled = Append(@, term)]
PushScaled(dirac, s, term, dot, n, f) ==
    IF dot.status # "ok" THEN [s EXCEPT !.status = dot.status]
    ELSE Push(dirac, s, GammaTerm(Multiple(CoefficientTimes(term.c, dot.value), n), f))
Plain(n) == [status |-> "ok", value |-> Numeral(n)]

Rewritten(dirac, terms, Step(_, _)) ==
    LET start == Canonical(dirac, terms)
        Pop(s) == Step([s EXCEPT !.pending = SubSeq(@, 1, Len(@) - 1)], s.pending[Len(s.pending)])
        done == Evaluated(While(LAMBDA s : s.status = "ok" /\ s.pending # <<>>, Pop,
                                [status |-> start.status, pending |-> start.terms, settled |-> <<>>, generated |-> 0],
                                2 * dirac.maxTerms))
        final == Canonical(dirac, done.settled)
    IN  IF done.status # "ok" THEN [status |-> done.status, terms |-> <<>>, generated |-> done.generated]
        ELSE [status |-> final.status, terms |-> final.terms, generated |-> done.generated]

Least(S) == CHOOSE x \in S : \A y \in S : x <= y
WithoutBoth(f, i, j) == SubSeq(f, 1, i - 1) \o SubSeq(f, i + 1, j - 1) \o SubSeq(f, j + 1, Len(f))
Swapped(f, i) == [f EXCEPT ![i] = f[i + 1], ![i + 1] = f[i]]

\* Variant: what is between the two gammas keeps its order.
KeptInOrder(f) == f

\* copy_segment, reversed
Turned(f) == [i \in DOMAIN f |-> f[Len(f) + 1 - i]]


\* clifford_node: equal neighbours are a square; the first two out of order are
\* twice their product less the two swapped.
CliffordStep(dirac, s, term) ==
    LET f == term.f
        Neighbours(i) == f[i].line = f[i + 1].line
        equals == {i \in 1 .. Len(f) - 1 : Neighbours(i) /\ f[i] = f[i + 1]}
        swaps == {i \in 1 .. Len(f) - 1 : Neighbours(i) /\ FactorBefore(f[i + 1], f[i])}
        e == Least(equals)
        i == Least(swaps)
    IN  IF equals # {} THEN PushScaled(dirac, s, term, SlotDot(dirac, f[e].at, f[e].at), 1, WithoutBoth(f, e, e + 1))
        ELSE IF swaps = {} THEN Settle(dirac, s, term)
        ELSE PushScaled(dirac, PushScaled(dirac, s, term, SlotDot(dirac, f[i].at, f[i + 1].at), 2, WithoutBoth(f, i, i + 1)),
                        term, Plain(1), -1, Swapped(f, i))

CliffordNormal(dirac, terms) == Rewritten(dirac, terms, LAMBDA s, t : CliffordStep(dirac, s, t))

\* find_contracted_pair: the first two gammas on one line with a dummy.
ContractedPairs(term) ==
    {<<i, j>> \in IndexPlaces(term.f) \X IndexPlaces(term.f) :
        i < j /\ term.f[i].at.name = term.f[j].at.name /\ term.f[i].line = term.f[j].line
        /\ term.f[i].at.name \in Dummies(term)}

\* contract_node: with none, two, an odd or an even number between the two.
ContractStep(dirac, s, term) ==
    LET f == term.f
        pairs == ContractedPairs(term)
        p == CHOOSE q \in pairs : \A r \in pairs : q[1] <= r[1]
        between == SubSeq(f, p[1] + 1, p[2] - 1)
        m == Len(between)
        Around(middle) == SubSeq(f, 1, p[1] - 1) \o middle \o SubSeq(f, p[2] + 1, Len(f))
        front == SubSeq(between, 1, m - 1)
        last == <<between[m]>>
    IN  IF pairs = {} THEN Settle(dirac, s, term)
        ELSE IF m = 0 THEN PushScaled(dirac, s, term, SlotDot(dirac, f[p[1]].at, f[p[2]].at), 1, Around(<<>>))
        ELSE IF m = 2 THEN PushScaled(dirac, s, term, SlotDot(dirac, between[1].at, between[2].at), 4, Around(<<>>))
        ELSE IF m % 2 = 1 THEN PushScaled(dirac, s, term, Plain(1), -2, Around(Turned(between)))
        ELSE PushScaled(dirac, PushScaled(dirac, s, term, Plain(1), 2, Around(last \o front)),
                        term, Plain(1), 2, Around(Turned(front) \o last))

DiracContract(dirac, terms) == Rewritten(dirac, terms, LAMBDA s, t : ContractStep(dirac, s, t))

-----------------------------------------------------------------------------
(* Sums, products, traces and comparison *)

DiracAdd(dirac, left, right) ==
    IF Len(left) + Len(right) > dirac.maxTerms THEN [status |-> "term limit", terms |-> <<>>]
    ELSE [status |-> "ok", terms |-> left \o right]
DiracScale(terms, c) == [i \in DOMAIN terms |-> [terms[i] EXCEPT !.c = CoefficientTimes(@, c)]]

\* phy_dirac_mul: the first product refused decides.
DiracMul(dirac, left, right) ==
    LET Joint(i, j) == GammaTerm(CoefficientTimes(left[i].c, right[j].c), left[i].f \o right[j].f)
        terms == Joined([i \in DOMAIN left |-> [j \in DOMAIN right |-> Joint(i, j)]])
        StatusOf(t) == IF Len(t.f) > MaxFactors THEN "unsupported"
                       ELSE IF LineTooLong(dirac, t.f) THEN "term limit" ELSE "ok"
        bad == {i \in DOMAIN terms : StatusOf(terms[i]) # "ok"}
    IN  IF Len(left) * Len(right) > dirac.maxTerms THEN [status |-> "term limit", terms |-> <<>>]
        ELSE IF bad # {} THEN [status |-> StatusOf(terms[Least(bad)]), terms |-> <<>>]
        ELSE [status |-> "ok", terms |-> terms]

\* trace_string: the first with each other one, the signs alternating; a string
\* of 2n is (2n - 1)!! leaves.
RECURSIVE TraceString(_, _)
TraceString(dirac, slots) ==
    IF slots = <<>> THEN Numeral(dirac.traceOfOne)
    ELSE Across(LAMBDA sum, j : Added(sum, Multiple(CoefficientTimes(SlotDot(dirac, slots[1], slots[j]).value,
                                                                    TraceString(dirac, WithoutBoth(slots, 1, j))),
                                                    IF j % 2 = 0 THEN 1 ELSE -1)),
                Numeral(0), 2, Len(slots))
Leaves(count) == Across(LAMBDA product, k : product * (2 * k - 1), 1, 1, count \div 2)

\* trace_node: contracted first; an odd string has no trace.
DiracTrace(dirac, terms, line) ==
    LET contracted == Evaluated(DiracContract(dirac, terms))
        On(t) == SelectSeq(t.f, LAMBDA g : g.line = line)
        even == SelectSeq(contracted.terms, LAMBDA t : Len(On(t)) % 2 = 0)
        generated == Through(LAMBDA n, t : n + Leaves(Len(On(t))), contracted.generated, even)
        Traced(t) == GammaTerm(CoefficientTimes(t.c, TraceString(dirac, [i \in DOMAIN On(t) |-> On(t)[i].at])),
                               SelectSeq(t.f, LAMBDA g : g.line # line))
    IN  IF contracted.status # "ok" THEN [status |-> contracted.status, terms |-> <<>>]
        ELSE IF generated > dirac.maxTerms THEN [status |-> "term limit", terms |-> <<>>]
        ELSE Canonical(dirac, [i \in DOMAIN even |-> Traced(even[i])])

\* phy_dirac_trace_scalar: no gamma may be left.
DiracTraceScalar(dirac, terms, line) ==
    LET traced == Evaluated(DiracTrace(dirac, terms, line))
    IN  IF traced.status # "ok" THEN [status |-> traced.status]
        ELSE IF \E i \in DOMAIN traced.terms : traced.terms[i].f # <<>> THEN [status |-> "type"]
        ELSE [status |-> "ok", value |-> Through(LAMBDA sum, t : Added(sum, t.c), Numeral(0), traced.terms)]

\* phy_dirac_equivalent: the normal form of the difference, term by term; a
\* coefficient here is a polynomial, which phy_cas_is_zero decides.
DiracEquivalent(dirac, left, right) ==
    LET joined == DiracAdd(dirac, left, DiracScale(right, Numeral(-1)))
        gap == CliffordNormal(dirac, joined.terms)
    IN  IF joined.status # "ok" THEN joined.status
        ELSE IF gap.status # "ok" THEN gap.status
        ELSE IF gap.terms = <<>> THEN "zero" ELSE "nonzero"
=============================================================================
