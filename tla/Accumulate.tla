----------------------------- MODULE Accumulate -----------------------------
(***************************************************************************)
(* The loops of the code, as folds.  FoldLeft of SequencesExt is the same  *)
(* operator, but its definition removes a maximum from a set of indices at *)
(* each step; the runs fold over long lists, so these recurse over the     *)
(* length instead.                                                         *)
(***************************************************************************)
EXTENDS Integers, Sequences

\* v itself; written so that TLC computes a function once, when it is made,
\* and not again at each application.
Evaluated(v) == CHOOSE w \in {v} : w = v

\* op(... op(op(base, seq[1]), seq[2]) ..., seq[Len(seq)]), some elements at a
\* time so that the recursion stays shallow.
Stretch == 16
Through(op(_, _), base, seq) ==
    LET Between(start, first, last) ==
            LET after[n \in (first - 1) .. last] ==
                    IF n < first THEN start ELSE Evaluated(op(after[n - 1], seq[n]))
            IN  after[last]
        Stretched(start, c) ==
            Between(start, Stretch * (c - 1) + 1, IF Stretch * c < Len(seq) THEN Stretch * c ELSE Len(seq))
        chunks[c \in 0 .. (Len(seq) + Stretch - 1) \div Stretch] ==
            IF c = 0 THEN base ELSE CHOOSE r \in {Stretched(start, c) : start \in {chunks[c - 1]}} : TRUE
    IN  chunks[(Len(seq) + Stretch - 1) \div Stretch]

\* The same over the numbers first .. last.
Across(op(_, _), base, first, last) ==
    Through(op, base, [i \in 1 .. (IF last < first THEN 0 ELSE last - first + 1) |-> first + i - 1])

\* step applied while more holds, at most bound times.
While(more(_), step(_), start, bound) ==
    Across(LAMBDA s, n : IF more(s) THEN step(s) ELSE s, start, 1, bound)

\* The numbers 0 .. n - 1 as a sequence, and the elements of a sequence of
\* sequences one after the other.
UpTo(n) == [i \in 1 .. n |-> i - 1]
Joined(seqs) == Through(LAMBDA a, b : a \o b, <<>>, seqs)
=============================================================================
