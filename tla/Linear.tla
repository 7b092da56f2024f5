------------------------------- MODULE Linear -------------------------------
(***************************************************************************)
(* Matrices and linear systems: src/src/linear and                         *)
(* src/src/cas/linear_solve.c.  Entries are CAS expressions: here numbers  *)
(* modulo Field, or polynomials in one parameter given by their values at  *)
(* Points.  Whether an entry is zero is decided, refuted or unknown; a     *)
(* pivot must be known not to be zero, and the answer must not depend on   *)
(* the parameter otherwise.                                                *)
(*                                                                         *)
(* A matrix is a sequence of rows.  The step budget and allocation are not *)
(* modelled, nor systems that are not linear (phy_cas_solve_system hands   *)
(* them to the polynomial solver).                                         *)
(***************************************************************************)
EXTENDS Accumulate, FiniteSets

CONSTANTS Field, Points

Number(n) == [p \in Points |-> n % Field]
Sum(a, b) == [p \in Points |-> (a[p] + b[p]) % Field]
Difference(a, b) == [p \in Points |-> (a[p] - b[p]) % Field]
ProductOf(a, b) == [p \in Points |-> (a[p] * b[p]) % Field]
Negative(a) == [p \in Points |-> (-a[p]) % Field]
InverseMod(n) == (n ^ (Field - 2)) % Field
QuotientOf(a, b) == [p \in Points |-> (a[p] * InverseMod(b[p])) % Field]

\* phy_cas_is_zero: numbers are decided, and what cancels to a number; a
\* parameter is not.
IsNumber(a) == \A p, q \in Points : a[p] = a[q]
Decision(a) == IF a = Number(0) THEN "zero" ELSE IF IsNumber(a) THEN "nonzero" ELSE "unknown"

Rows(m) == Len(m)
Columns(m) == Len(m[1])
Result(status, value) == [status |-> status, value |-> value]
Filled(rows, columns, entry(_, _)) ==
    Evaluated([r \in 1 .. rows |-> Evaluated([c \in 1 .. columns |-> Evaluated(entry(r, c))])])
Identity(n) == Filled(n, n, LAMBDA r, c : Number(IF r = c THEN 1 ELSE 0))

\* phy_matrix_add, _scale, _multiply, _transpose and phy_vector_dot
MatrixAdd(a, b) ==
    IF Rows(a) # Rows(b) \/ Columns(a) # Columns(b) THEN Result("type", <<>>)
    ELSE Result("ok", Filled(Rows(a), Columns(a), LAMBDA r, c : Sum(a[r][c], b[r][c])))
MatrixScale(a, scalar) == Filled(Rows(a), Columns(a), LAMBDA r, c : ProductOf(scalar, a[r][c]))
MatrixMultiply(a, b) ==
    IF Columns(a) # Rows(b) THEN Result("type", <<>>)
    ELSE Result("ok", Filled(Rows(a), Columns(b),
             LAMBDA r, c : Across(LAMBDA s, i : Sum(s, ProductOf(a[r][i], b[i][c])), Number(0), 1, Columns(a))))
MatrixTranspose(a) == Filled(Columns(a), Rows(a), LAMBDA r, c : a[c][r])
VectorDot(a, b) ==
    IF Columns(a) # 1 \/ Columns(b) # 1 \/ Rows(a) # Rows(b) THEN Result("type", Number(0))
    ELSE Result("ok", Across(LAMBDA s, i : Sum(s, ProductOf(a[i][1], b[i][1])), Number(0), 1, Rows(a)))

-----------------------------------------------------------------------------
(* Elimination *)

\* Variant: an entry that is not known to be zero is taken for a pivot.
FindPivotUnproven(m, first, column) ==
    LET rows == {r \in first .. Rows(m) : Decision(m[r][column]) # "zero"}
    IN  IF rows = {} THEN Result("ok", 0) ELSE Result("ok", CHOOSE r \in rows : \A q \in rows : r <= q)

\* find_pivot: the first entry known not to be zero; none at all is 0, and
\* none but some unknown is refused.
FindPivot(m, first, column) ==
    LET rows == {r \in first .. Rows(m) : Decision(m[r][column]) = "nonzero"}
    IN  IF rows # {} THEN Result("ok", CHOOSE r \in rows : \A q \in rows : r <= q)
        ELSE IF \E r \in first .. Rows(m) : Decision(m[r][column]) = "unknown" THEN Result("unsupported", 0)
        ELSE Result("ok", 0)

SwapRows(m, i, j) == [m EXCEPT ![i] = m[j], ![j] = m[i]]

\* One pivot of phy_linear_rref_array: its row divided by it, and its column
\* cleared in every other row.
Eliminated(m, rank, column) ==
    LET row == Evaluated([c \in DOMAIN m[rank] |-> Evaluated(QuotientOf(m[rank][c], m[rank][column]))])
    IN  Filled(Rows(m), Columns(m), LAMBDA r, c : IF r = rank THEN row[c]
                                                 ELSE Difference(m[r][c], ProductOf(m[r][column], row[c])))

\* phy_linear_rref_array; rows cleared of an unknown factor are refused here
\* (strict) and not in rref of linear_solve.c.
Rref(m, limit, strict) ==
    LET Step(s, k) ==
            LET column == k + 1
                rank == Len(s.pivots) + 1
                pivot == FindPivot(s.m, rank, column)
                swapped == SwapRows(s.m, rank, pivot.value)
            IN  IF s.status # "ok" \/ rank > Rows(m) THEN s
                ELSE IF pivot.status # "ok" THEN [s EXCEPT !.status = pivot.status]
                ELSE IF pivot.value = 0 THEN s
                ELSE IF strict /\ \E r \in 1 .. Rows(m) : r # rank /\ Decision(swapped[r][column]) = "unknown"
                THEN [s EXCEPT !.status = "unsupported"]
                ELSE [s EXCEPT !.m = Eliminated(swapped, rank, column), !.pivots = Append(@, column)]
    IN  Through(Step, [status |-> "ok", m |-> m, pivots |-> <<>>], UpTo(limit))

MatrixRref(m) == Rref(m, Columns(m), TRUE)

\* phy_matrix_determinant: fraction-free, so each step divides by the pivot
\* before; a column without a pivot makes it zero.
Determinant(m) ==
    LET n == Rows(m)
        Step(s, k) ==
            LET column == k + 1
                pivot == FindPivot(s.m, column, column)
                swapped == SwapRows(s.m, column, pivot.value)
                Entry(r, c) ==
                    IF r <= column \/ c <= column THEN swapped[r][c]
                    ELSE QuotientOf(Difference(ProductOf(swapped[r][c], swapped[column][column]),
                                               ProductOf(swapped[r][column], swapped[column][c])), s.previous)
            IN  IF s.status # "ok" THEN s
                ELSE IF pivot.status # "ok" THEN [s EXCEPT !.status = pivot.status]
                ELSE IF pivot.value = 0 THEN [s EXCEPT !.status = "singular"]
                ELSE [status |-> "ok", m |-> Filled(n, n, Entry),
                      previous |-> swapped[column][column], negate |-> s.negate # (pivot.value # column)]
        done == Through(Step, [status |-> "ok", m |-> m, previous |-> Number(1), negate |-> FALSE], UpTo(n - 1))
    IN  IF n # Columns(m) THEN Result("type", Number(0))
        ELSE IF done.status = "singular" THEN Result("ok", Number(0))
        ELSE IF done.status # "ok" THEN Result(done.status, Number(0))
        ELSE Result("ok", IF done.negate THEN Negative(done.m[n][n]) ELSE done.m[n][n])

\* augmented_rref: pivots on the left only.
AugmentedRref(a, b) == Rref(Evaluated([r \in 1 .. Rows(a) |-> a[r] \o b[r]]), Columns(a), TRUE)
RightOf(reduced, a) == Evaluated([r \in 1 .. Columns(a) |-> SubSeq(reduced.m[r], Columns(a) + 1, Len(reduced.m[r]))])

\* phy_matrix_solve, and phy_matrix_inverse with the identity.
MatrixSolve(a, b) ==
    IF Rows(a) # Columns(a) \/ Rows(b) # Rows(a) THEN Result("type", <<>>)
    ELSE LET reduced == AugmentedRref(a, b) IN
         IF reduced.status # "ok" THEN Result(reduced.status, <<>>)
         ELSE IF Len(reduced.pivots) # Columns(a) THEN Result("domain", <<>>)
         ELSE Result("ok", RightOf(reduced, a))
MatrixInverse(a) ==
    IF Rows(a) # Columns(a) THEN Result("type", <<>>) ELSE MatrixSolve(a, Identity(Rows(a)))

\* phy_matrix_null_space: a column for each column without a pivot.
NullSpace(a) ==
    LET reduced == MatrixRref(a)
        IsPivot(c) == \E r \in DOMAIN reduced.pivots : reduced.pivots[r] = c
        free == SelectSeq([c \in 1 .. Columns(a) |-> c], LAMBDA c : ~IsPivot(c))
        Entry(r, k) == IF IsPivot(r)
                       THEN Negative(reduced.m[CHOOSE q \in DOMAIN reduced.pivots : reduced.pivots[q] = r][free[k]])
                       ELSE Number(IF r = free[k] THEN 1 ELSE 0)
    IN  IF reduced.status # "ok" THEN Result(reduced.status, <<>>)
        ELSE Result("ok", Filled(Columns(a), Len(free), Entry))

-----------------------------------------------------------------------------
(* Systems of equations *)

\* An equation in n unknowns, as what its sides differ by: the coefficient of
\* each monomial, which is the exponents of the unknowns.
Exponents(n) == {e \in [1 .. n -> 0 .. 2] : Cardinality({<<i, k>> \in (1 .. n) \X (1 .. 2) : k <= e[i]}) <= 2}
Derivative(equation, c) ==
    Evaluated([e \in DOMAIN equation |->
        LET raised == [i \in DOMAIN e |-> IF i = c THEN e[i] + 1 ELSE e[i]]
        IN  IF raised \in DOMAIN equation THEN ProductOf(Number(raised[c]), equation[raised]) ELSE Number(0)])
Constant(e) == \A i \in DOMAIN e : e[i] = 0
DependsOnVariables(equation) == \E e \in DOMAIN equation : ~Constant(e) /\ equation[e] # Number(0)

\* extract_linear_row: the derivatives are the coefficients when they are free
\* of the unknowns and put together again give the equation.
ExtractLinearRow(equation, n) ==
    LET zero == [i \in 1 .. n |-> 0]
        derivatives == Evaluated([c \in 1 .. n |-> Derivative(equation, c)])
        Reconstructed(e) ==
            IF Constant(e) THEN equation[zero]
            ELSE IF \E c \in 1 .. n : e = [zero EXCEPT ![c] = 1]
            THEN derivatives[CHOOSE c \in 1 .. n : e[c] = 1][zero] ELSE Number(0)
    IN  IF (\E c \in 1 .. n : DependsOnVariables(derivatives[c]))
           \/ (\E e \in DOMAIN equation : equation[e] # Reconstructed(e))
        THEN Result("unsupported", <<>>)
        ELSE Result("ok", [c \in 1 .. n |-> derivatives[c][zero]] \o <<Negative(equation[zero])>>)

\* rref of linear_solve.c
SystemRref(rows, n) == Rref(rows, n, FALSE)

\* The rows without a pivot, one after the other.
Verdict(reduced, n) ==
    LET rank == Len(reduced.pivots)
        Look(verdict, k) ==
            LET row == reduced.m[rank + 1 + k]
                right == Decision(row[n + 1])
            IN  IF verdict # "ok" THEN verdict
                ELSE IF \E c \in 1 .. n : Decision(row[c]) = "unknown" THEN "unsupported"
                ELSE IF \E c \in 1 .. n : Decision(row[c]) # "zero" THEN verdict
                ELSE IF right = "unknown" THEN "unsupported" ELSE IF right = "nonzero" THEN "none" ELSE verdict
    IN  Through(Look, "ok", UpTo(Rows(reduced.m) - rank))

\* build_system_result: each unknown with a pivot by the free ones.
SystemResult(reduced, n) ==
    LET isFree == {c \in 1 .. n : \A q \in DOMAIN reduced.pivots : reduced.pivots[q] # c}
    IN  [q \in DOMAIN reduced.pivots |->
           [variable |-> reduced.pivots[q], constant |-> reduced.m[q][n + 1],
            free |-> [c \in isFree |-> Negative(reduced.m[q][c])]]]

\* verify_system_result: the equations hold with the answer put in, as
\* polynomials in the free unknowns.
SystemVerified(rows, n, solution) ==
    LET IsPivot(c) == \E q \in DOMAIN solution : solution[q].variable = c
        Over(row, term(_)) ==
            Through(LAMBDA s, q : Sum(s, ProductOf(row[solution[q].variable], term(solution[q]))),
                    Number(0), [q \in DOMAIN solution |-> q])
    IN  \A r \in DOMAIN rows :
          /\ Over(rows[r], LAMBDA s : s.constant) = rows[r][n + 1]
          /\ \A c \in 1 .. n : IsPivot(c) \/ Sum(rows[r][c], Over(rows[r], LAMBDA s : s.free[c])) = Number(0)

\* phy_cas_solve_system; what is not linear goes to the polynomial solver, and
\* one equation in one unknown to phy_cas_solve.  "none" is the empty list.
SolveSystem(equations, n) ==
    LET extracted == Evaluated([r \in DOMAIN equations |-> ExtractLinearRow(equations[r], n)])
        rows == Evaluated([r \in DOMAIN equations |-> extracted[r].value])
        reduced == SystemRref(rows, n)
        verdict == Verdict(reduced, n)
        solution == Evaluated(SystemResult(reduced, n))
    IN  IF n = 1 /\ Len(equations) = 1 THEN Result("one unknown", <<>>)
        ELSE IF \E r \in DOMAIN extracted : extracted[r].status # "ok" THEN Result("not linear", <<>>)
        ELSE IF reduced.status # "ok" THEN Result(reduced.status, <<>>)
        ELSE IF verdict # "ok" THEN Result(verdict, <<>>)
        ELSE IF ~SystemVerified(rows, n, solution) THEN Result("corrupt", <<>>)
        ELSE Result("ok", solution)
=============================================================================
