--------------------------- MODULE NotebookProofs ---------------------------
(***************************************************************************)
(* The notebook and its document, for every number of cards, every text    *)
(* length and every way an evaluation can end.                             *)
(*                                                                         *)
(* What the runs check is not inductive.  That an insertion leaves the     *)
(* cards together needs where they are (Shaped); that the next execution   *)
(* number is one the type allows needs that every number handed out is     *)
(* still on some input, so that there are no more numbers than places      *)
(* (Given, and the pigeonhole of NumbersNeedPlaces); that a replay leaves  *)
(* everything fresh needs that it left fresh what is above the input it is *)
(* at (Fresh).  NotebookInv is the conjunction; its parts are written of   *)
(* any sequence of cells, so that the same lemmas speak of the cells before*)
(* a step, of those in the middle of an evaluation, where the card under   *)
(* the input is exempt, and of those after it.                             *)
(*                                                                         *)
(* The document part carries the same facts of the records on disk, which  *)
(* is what a load takes its cells from.                                    *)
(*                                                                         *)
(* That a notebook opens again once Run all has returned needs two facts   *)
(* more (Lasting): a result that lost its tree is stale, so that the       *)
(* replay runs it again, and an input the replay skips, being in           *)
(* quarantine, has an error under it and no result.                        *)
(***************************************************************************)
EXTENDS NotebookDocument, TLAPS, SequenceTheorems, FiniteSetTheorems

\* The cells of a notebook: PHY_NOTEBOOK_MAX_CELLS at most.
Cards == {cs \in Seq(Cells) : Len(cs) <= MaxCells}

Places(cs) == 1 .. Len(cs)

\* An output lies under the input that owns it.
Shaped(cs) ==
    \A i \in Places(cs) :
        IsOutput(cs[i].kind) => i > 1 /\ cs[i].owner = i - 1 /\ cs[i - 1].kind = "input"

\* In[n] and Out[n] pair up, but for the card at x, and every number is below
\* next.
Numbered(cs, next, x) ==
    /\ \A i, j \in Places(cs) :
        cs[i].kind = "input" /\ cs[j].kind = "input" /\ i # j /\ cs[i].execution # 0
            => cs[i].execution # cs[j].execution
    /\ \A i \in Places(cs) :
        /\ cs[i].execution < next
        /\ IsOutput(cs[i].kind) /\ i # x => cs[i].execution = cs[i - 1].execution

\* Every number below next is on an input: insert_cell copies cards, nothing
\* removes one.
Given(cs, next) ==
    \A n \in 1 .. next - 1 :
        \E i \in Places(cs) : cs[i].kind = "input" /\ cs[i].execution = n

\* Every expression is of the context ctx, or there is none.
Living(cs, ctx) == \A i \in Places(cs) : cs[i].expression \in {NullRef, ctx}

\* A stale source that worked has a stale result, but for the card at x.
Told(cs, x) ==
    \A i \in Places(cs) :
        IsOutput(cs[i].kind) /\ i # x /\ cs[i - 1].stale /\ ~cs[i - 1].failed => cs[i].stale

Sound(cs, next, ctx, x) ==
    Shaped(cs) /\ Numbered(cs, next, x) /\ Given(cs, next) /\ Living(cs, ctx) /\ Told(cs, x)

\* What the selection at and the editor ed need of the cells.
Editable(cs, at, ed) ==
    /\ at \in 1 .. MaxCells + 1
    /\ at <= Len(cs) \/ (Len(cs) = 0 /\ at = 1)
    /\ ed \in [index : 0 .. MaxCells, secondary : BOOLEAN,
               cursor : 0 .. TextCapacity + DetailCapacity]
    /\ ed # NoEdit => /\ ed.index \in Places(cs)
                      /\ IsSource(cs[ed.index].kind)
                      /\ ed.cursor <= TextLength(cs[ed.index], ed.secondary)

----------------------------------------------------------------------------
\* A function on 1 .. n is a sequence of length n.
LEMMA FunctionsAreSequences ==
    ASSUME NEW S, NEW n \in Nat, NEW f \in [1 .. n -> S]
    PROVE  f \in Seq(S) /\ Len(f) = n
<1>1. f \in Seq(S) BY SeqDef
<1>2. Len(f) \in Nat /\ DOMAIN f = 1 .. Len(f) BY <1>1, LenProperties
<1>3. DOMAIN f = 1 .. n OBVIOUS
<1>4. Len(f) = n BY <1>2, <1>3
<1> QED BY <1>1, <1>4

\* What a notebook becomes by a rule for each place is a notebook.
LEMMA CardsArePlaced ==
    ASSUME NEW n \in 0 .. MaxCells, NEW f \in [1 .. n -> Cells]
    PROVE  f \in Cards /\ Len(f) = n
<1>1. n \in Nat /\ n <= MaxCells BY CapacityAssumption
<1> QED BY <1>1, FunctionsAreSequences DEF Cards

\* A notebook is a function of its places.
LEMMA CardsAreFunctions ==
    ASSUME NEW cs \in Cards
    PROVE  /\ Len(cs) \in 0 .. MaxCells /\ cs \in [Places(cs) -> Cells]
           /\ DOMAIN cs = Places(cs) /\ \A i \in Places(cs) : cs[i] \in Cells
<1>1. cs \in Seq(Cells) /\ Len(cs) <= MaxCells BY DEF Cards
<1>2. Len(cs) \in Nat /\ cs \in [1 .. Len(cs) -> Cells] BY <1>1, LenProperties
<1> QED BY <1>1, <1>2, CapacityAssumption DEF Places

\* Pigeonhole: when every number below next is in one of L places, there are no
\* more numbers than places.
LEMMA NumbersNeedPlaces ==
    ASSUME NEW L \in Nat, NEW e \in [1 .. L -> Nat], NEW next \in Nat \ {0},
           \A n \in 1 .. next - 1 : \E i \in 1 .. L : e[i] = n
    PROVE  next - 1 <= L
<1> DEFINE S == 1 .. next - 1
           T == 1 .. L
           holder == [n \in S |-> CHOOSE i \in T : e[i] = n]
<1>1. \A n \in S : holder[n] \in T /\ e[holder[n]] = n OBVIOUS
<1>2. holder \in [S -> T] BY <1>1
<1>3. IsFiniteSet(S) /\ Cardinality(S) = next - 1 BY FS_Interval
<1>4. IsFiniteSet(T) /\ Cardinality(T) = L
  <2>1. 1 \in Int /\ L \in Int /\ L >= 0 OBVIOUS
  <2>2. IsFiniteSet(1 .. L) /\ Cardinality(1 .. L) = IF 1 > L THEN 0 ELSE L - 1 + 1
    BY <2>1, FS_Interval, Zenon
  <2>3. (IF 1 > L THEN 0 ELSE L - 1 + 1) = L BY <2>1
  <2> QED BY <2>2, <2>3
<1>5. holder \in Injection(S, T)
  <2>1. \A m, n \in S : holder[m] = holder[n] => m = n BY <1>1
  <2>2. DOMAIN holder = S OBVIOUS
  <2> HIDE DEF S, holder
  <2> QED BY <1>2, <2>1, <2>2 DEF Injection, IsInjective
<1>6. Cardinality(S) <= Cardinality(T)
  <2> HIDE DEF S, T, holder
  <2> QED BY <1>4, <1>5, FS_Injection
<1> QED BY <1>3, <1>4, <1>6

\* So next_execution is at most one more than the number of cards ...
LEMMA NumbersFit ==
    ASSUME NEW cs \in Cards, NEW next \in Nat \ {0}, Given(cs, next)
    PROVE  next - 1 <= Len(cs) /\ next \in 1 .. MaxCells + 1
<1> DEFINE e == [i \in Places(cs) |-> cs[i].execution]
<1>1. Len(cs) \in 0 .. MaxCells /\ \A i \in Places(cs) : cs[i] \in Cells
  BY CardsAreFunctions
<1>2. e \in [1 .. Len(cs) -> Nat] BY <1>1, CapacityAssumption DEF Cells, Places
<1>3. \A n \in 1 .. next - 1 : \E i \in 1 .. Len(cs) : e[i] = n BY DEF Given, Places
<1>4. next - 1 <= Len(cs)
  <2>1. Len(cs) \in Nat BY <1>1, CapacityAssumption
  <2> HIDE DEF e
  <2> QED BY <1>2, <1>3, <2>1, NumbersNeedPlaces, Zenon
<1> QED BY <1>1, <1>4, CapacityAssumption

\* ... and when a card has no number yet, the next one is a number it may have.
LEMMA NumberLeft ==
    ASSUME NEW cs \in Cards, NEW next \in Nat \ {0}, Given(cs, next),
           NEW k \in Places(cs), cs[k].execution = 0
    PROVE  next \in 1 .. MaxCells
<1> DEFINE e == [i \in Places(cs) |-> IF i = k THEN next ELSE cs[i].execution]
<1>1. Len(cs) \in 0 .. MaxCells /\ \A i \in Places(cs) : cs[i] \in Cells
  BY CardsAreFunctions
<1>2. e \in [1 .. Len(cs) -> Nat] BY <1>1, CapacityAssumption DEF Cells, Places
<1>3. ASSUME NEW n \in 1 .. next PROVE \E i \in 1 .. Len(cs) : e[i] = n
  <2>1. CASE n = next BY <2>1 DEF Places
  <2>2. CASE n # next
    <3>1. PICK i \in Places(cs) : cs[i].execution = n BY <2>2 DEF Given
    <3> QED BY <3>1 DEF Places
  <2> QED BY <2>1, <2>2
<1>4. next <= Len(cs)
  <2>1. Len(cs) \in Nat BY <1>1, CapacityAssumption
  <2>2. next + 1 \in Nat \ {0} /\ next + 1 - 1 = next OBVIOUS
  <2> HIDE DEF e
  <2>3. \A n \in 1 .. (next + 1) - 1 : \E i \in 1 .. Len(cs) : e[i] = n BY <1>3, <2>2
  <2>4. (next + 1) - 1 <= Len(cs) BY <1>2, <2>1, <2>2, <2>3, NumbersNeedPlaces, ZenonT(30)
  <2> QED BY <2>2, <2>4
<1> QED BY <1>1, <1>4, CapacityAssumption

\* insert_cell adjusts the owner of a moved output and nothing else.
LEMMA MovedCell ==
    ASSUME NEW c \in Cells, NEW k \in Nat, IsOutput(c.kind) => c.owner < MaxCells
    PROVE  /\ Moved(c, k) \in Cells
           /\ Moved(c, k) = [c EXCEPT !.owner = Moved(c, k).owner]
           /\ Moved(c, k).owner = IF IsOutput(c.kind) /\ c.owner >= k THEN c.owner + 1
                                  ELSE c.owner
BY CapacityAssumption DEF Moved, Cells

\* insert_cell, place by place.
LEMMA CellsInserted ==
    ASSUME cells \in Cards, Count < MaxCells, Shaped(cells),
           NEW k \in 1 .. Count + 1, NEW c \in Cells
    PROVE  /\ Inserted(k, c) \in Cards
           /\ Len(Inserted(k, c)) = Count + 1
           /\ \A i \in 1 .. Count + 1 :
                Inserted(k, c)[i] = IF i < k THEN cells[i] ELSE IF i = k THEN c
                                    ELSE Moved(cells[i - 1], k)
<1> DEFINE f == Inserted(k, c)
<1>1. Count \in 0 .. MaxCells /\ \A i \in 1 .. Count : cells[i] \in Cells
  BY CardsAreFunctions DEF Count, Places
<1>2. \A i \in 1 .. Count : Moved(cells[i], k) \in Cells
  <2> TAKE i \in 1 .. Count
  <2>1. cells[i] \in Cells /\ k \in Nat BY <1>1, CapacityAssumption
  <2>2. IsOutput(cells[i].kind) => cells[i].owner < MaxCells
    BY <1>1, CapacityAssumption DEF Shaped, Places, Count
  <2> QED BY <2>1, <2>2, MovedCell
<1>3. \A i \in 1 .. Count + 1 : f[i] \in Cells
  BY <1>1, <1>2, CapacityAssumption DEF Inserted
<1>4. f \in [1 .. Count + 1 -> Cells] BY <1>3 DEF Inserted
<1>5. f \in Cards /\ Len(f) = Count + 1
  <2> HIDE DEF f
  <2> QED BY <1>1, <1>4, CardsArePlaced, CapacityAssumption
<1> QED BY <1>1, <1>5, CapacityAssumption DEF Inserted

\* Where the card at place i was before a card was inserted at place k.
Before(i, k) == IF i < k THEN i ELSE i - 1

\* The same card, after insert_cell has moved it.
SameButOwner(c, d) ==
    /\ c.id = d.id /\ c.kind = d.kind /\ c.primary = d.primary /\ c.secondary = d.secondary
    /\ c.expression = d.expression /\ c.failed = d.failed
    /\ c.execution = d.execution /\ c.stale = d.stale /\ c.poisoned = d.poisoned

\* Every card but the new one is a card that was there, and a moved output is
\* owned by the place its input moved to.
LEMMA InsertionMoves ==
    ASSUME cells \in Cards, Count < MaxCells, Shaped(cells),
           NEW k \in 1 .. Count + 1, k <= Count => ~IsOutput(cells[k].kind), NEW c \in Cells
    PROVE  /\ Inserted(k, c)[k] = c
           /\ \A i \in 1 .. Count + 1 :
                i # k => /\ Before(i, k) \in 1 .. Count
                         /\ SameButOwner(Inserted(k, c)[i], cells[Before(i, k)])
                         /\ Inserted(k, c)[i].owner =
                              IF i > k /\ IsOutput(cells[i - 1].kind)
                              THEN cells[i - 1].owner + 1
                              ELSE cells[Before(i, k)].owner
<1> DEFINE f == Inserted(k, c)
<1>1. Count \in 0 .. MaxCells /\ \A i \in 1 .. Count : cells[i] \in Cells
  BY CardsAreFunctions DEF Count, Places
<1>2. \A i \in 1 .. Count + 1 :
         f[i] = IF i < k THEN cells[i] ELSE IF i = k THEN c ELSE Moved(cells[i - 1], k)
  BY CellsInserted
<1>3. f[k] = c BY <1>1, <1>2, CapacityAssumption
<1>4. ASSUME NEW i \in 1 .. Count + 1, i # k
      PROVE  /\ Before(i, k) \in 1 .. Count
             /\ SameButOwner(f[i], cells[Before(i, k)])
             /\ f[i].owner = IF i > k /\ IsOutput(cells[i - 1].kind)
                             THEN cells[i - 1].owner + 1 ELSE cells[Before(i, k)].owner
  <2>1. Before(i, k) \in 1 .. Count BY <1>1, <1>4, CapacityAssumption DEF Before
  <2>2. CASE i < k
    <3>1. f[i] = cells[i] /\ Before(i, k) = i BY <1>1, <1>2, <2>2, CapacityAssumption DEF Before
    <3> HIDE DEF f
    <3> QED BY <1>1, <2>1, <2>2, <3>1, CapacityAssumption DEF SameButOwner
  <2>3. CASE i > k
    <3>1. f[i] = Moved(cells[i - 1], k) /\ Before(i, k) = i - 1
      BY <1>1, <1>2, <2>3, CapacityAssumption DEF Before
    <3> DEFINE d == cells[i - 1]
    <3>2. d \in Cells /\ k \in Nat BY <1>1, <2>1, <3>1, CapacityAssumption
    <3>3. IsOutput(d.kind) => i - 1 > k /\ d.owner = i - 2
      BY <1>1, <2>1, <2>3, <3>1, CapacityAssumption DEF Shaped, Places, Count
    <3>4. IsOutput(d.kind) => d.owner < MaxCells /\ d.owner >= k
      BY <1>1, <3>3, CapacityAssumption
    <3>5. /\ Moved(d, k) = [d EXCEPT !.owner = Moved(d, k).owner]
          /\ Moved(d, k).owner = IF IsOutput(d.kind) /\ d.owner >= k THEN d.owner + 1 ELSE d.owner
      <4> HIDE DEF d
      <4> QED BY <3>2, <3>4, MovedCell
    <3>6. SameButOwner(Moved(d, k), d)
      <4> HIDE DEF d
      <4> QED BY <3>2, <3>5 DEF SameButOwner, Cells
    <3> HIDE DEF f
    <3> QED BY <2>1, <2>3, <3>1, <3>4, <3>5, <3>6
  <2> QED BY <1>1, <1>4, <2>2, <2>3, CapacityAssumption
<1> QED BY <1>3, <1>4

\* A card inserted anywhere but between an input and its output leaves the
\* notebook sound; a new output is exempt until it has been run.
LEMMA InsertionIsSound ==
    ASSUME cells \in Cards, Count < MaxCells,
           NEW next \in Nat \ {0}, NEW ctx, Sound(cells, next, ctx, 0),
           NEW k \in 1 .. Count + 1, k <= Count => ~IsOutput(cells[k].kind),
           NEW c \in Cells, c.execution = 0, c.expression = NullRef,
           IsOutput(c.kind) => k > 1 /\ c.owner = k - 1 /\ cells[k - 1].kind = "input"
    PROVE  Sound(Inserted(k, c), next, ctx, k)
<1> DEFINE f == Inserted(k, c)
<1>1. Count \in 0 .. MaxCells /\ \A i \in 1 .. Count : cells[i] \in Cells
  BY CardsAreFunctions DEF Count, Places
<1>2. Len(f) = Count + 1 /\ Places(f) = 1 .. Count + 1 /\ Places(cells) = 1 .. Count
  BY CellsInserted DEF Places, Count, Sound
<1>3. f[k] = c
  BY InsertionMoves DEF Sound
<1>4. \A i \in Places(f) :
         i # k => /\ Before(i, k) \in Places(cells) /\ SameButOwner(f[i], cells[Before(i, k)])
                  /\ f[i].owner = IF i > k /\ IsOutput(cells[i - 1].kind)
                                  THEN cells[i - 1].owner + 1 ELSE cells[Before(i, k)].owner
  <2>1. \A i \in 1 .. Count + 1 :
           i # k => /\ Before(i, k) \in 1 .. Count
                    /\ SameButOwner(f[i], cells[Before(i, k)])
                    /\ f[i].owner = IF i > k /\ IsOutput(cells[i - 1].kind)
                                    THEN cells[i - 1].owner + 1 ELSE cells[Before(i, k)].owner
    BY InsertionMoves DEF Sound
  <2> HIDE DEF f
  <2> QED BY <1>2, <2>1
<1> HIDE DEF f
<1>5. Shaped(f)
  <2> SUFFICES ASSUME NEW i \in Places(f), IsOutput(f[i].kind)
               PROVE  i > 1 /\ f[i].owner = i - 1 /\ f[i - 1].kind = "input"
    BY DEF Shaped
  <2>1. CASE i = k
    BY <1>1, <1>2, <1>3, <1>4, <2>1, CapacityAssumption DEF Before, SameButOwner
  <2>2. CASE i < k
    BY <1>1, <1>2, <1>3, <1>4, <2>2, CapacityAssumption DEF Before, SameButOwner, Shaped, Sound
  <2>3. CASE i > k
    <3>1. i - 1 \in Places(cells) /\ IsOutput(cells[i - 1].kind) /\ i - 1 # k
      BY <1>1, <1>2, <1>4, <2>3, CapacityAssumption DEF Before, SameButOwner
    <3>2. i - 1 > 1 /\ cells[i - 1].owner = i - 2 /\ cells[i - 2].kind = "input"
      BY <1>1, <1>2, <3>1, CapacityAssumption DEF Shaped, Sound
    <3>3. f[i - 1].kind = cells[i - 2].kind
      BY <1>1, <1>2, <1>4, <2>3, <3>1, <3>2, CapacityAssumption DEF Before, SameButOwner
    <3> QED BY <1>1, <1>2, <1>4, <2>3, <3>1, <3>2, <3>3, CapacityAssumption
  <2> QED BY <1>1, <1>2, <2>1, <2>2, <2>3, CapacityAssumption
<1>6. Numbered(f, next, k)
  <2>1. ASSUME NEW i \in Places(f), NEW j \in Places(f), f[i].kind = "input",
               f[j].kind = "input", i # j, f[i].execution # 0
        PROVE  f[i].execution # f[j].execution
    <3>1. i # k BY <1>3, <2>1
    <3>2. CASE j = k BY <1>3, <2>1, <3>2
    <3>3. CASE j # k
      BY <1>1, <1>2, <1>4, <2>1, <3>1, <3>3, CapacityAssumption, SMTT(30)
         DEF Before, SameButOwner, Numbered, Sound
    <3> QED BY <3>2, <3>3
  <2>2. ASSUME NEW i \in Places(f) PROVE f[i].execution < next
    BY <1>3, <1>4 DEF SameButOwner, Numbered, Sound
  <2>3. ASSUME NEW i \in Places(f), IsOutput(f[i].kind), i # k
        PROVE  f[i].execution = f[i - 1].execution
    <3>1. IsOutput(cells[Before(i, k)].kind) /\ Before(i, k) \in Places(cells)
      BY <1>4, <2>3 DEF SameButOwner
    <3>2. Before(i, k) > 1 /\ Before(i, k) # k
      BY <1>1, <1>2, <3>1, CapacityAssumption DEF Shaped, Sound
    <3>3. i - 1 \in Places(f) /\ i - 1 # k /\ Before(i - 1, k) = Before(i, k) - 1
      BY <1>1, <1>2, <2>3, <3>1, <3>2, CapacityAssumption DEF Before
    <3>4. cells[Before(i, k)].execution = cells[Before(i, k) - 1].execution
      BY <1>1, <1>2, <3>1, CapacityAssumption DEF Numbered, Sound
    <3> QED BY <1>4, <2>3, <3>3, <3>4 DEF SameButOwner
  <2> QED BY <2>1, <2>2, <2>3 DEF Numbered
<1>7. Given(f, next)
  <2> SUFFICES ASSUME NEW n \in 1 .. next - 1
               PROVE  \E i \in Places(f) : f[i].kind = "input" /\ f[i].execution = n
    BY DEF Given
  <2>1. PICK i \in Places(cells) : cells[i].kind = "input" /\ cells[i].execution = n
    BY DEF Given, Sound
  <2> DEFINE j == IF i < k THEN i ELSE i + 1
  <2>2. j \in Places(f) /\ j # k /\ Before(j, k) = i
    BY <1>1, <1>2, <2>1, CapacityAssumption DEF Before
  <2> QED BY <1>4, <2>1, <2>2 DEF SameButOwner
<1>8. Living(f, ctx) BY <1>3, <1>4 DEF Living, Sound, SameButOwner
<1>9. Told(f, k)
  <2> SUFFICES ASSUME NEW i \in Places(f), IsOutput(f[i].kind), i # k,
                      f[i - 1].stale, ~f[i - 1].failed
               PROVE  f[i].stale
    BY DEF Told
  <2>1. IsOutput(cells[Before(i, k)].kind) /\ Before(i, k) \in Places(cells)
    BY <1>4 DEF SameButOwner
  <2>2. Before(i, k) > 1 /\ Before(i, k) # k
    BY <1>1, <1>2, <2>1, CapacityAssumption DEF Shaped, Sound
  <2>3. i - 1 \in Places(f) /\ i - 1 # k /\ Before(i - 1, k) = Before(i, k) - 1
    BY <1>1, <1>2, <2>1, <2>2, CapacityAssumption DEF Before
  <2>4. cells[Before(i, k) - 1].stale /\ ~cells[Before(i, k) - 1].failed
    BY <1>4, <2>3 DEF SameButOwner
  <2>5. Before(i, k) # 0 BY <2>2, <2>1, <1>1, <1>2, CapacityAssumption
  <2>6. cells[Before(i, k)].stale BY <2>1, <2>4, <2>5 DEF Told, Sound
  <2> QED BY <1>4, <2>6 DEF SameButOwner
<1> QED BY <1>5, <1>6, <1>7, <1>8, <1>9 DEF Sound, f

----------------------------------------------------------------------------
\* What an evaluation leaves of a card: which one it is, and the text the user
\* may be editing.
SameCard(c, d) ==
    /\ c.id = d.id /\ (IsOutput(c.kind) <=> IsOutput(d.kind))
    /\ IsOutput(c.kind) => c.owner = d.owner
    /\ ~IsOutput(c.kind) => c.kind = d.kind /\ c.primary = d.primary
    /\ c.kind = "markdown" => c.secondary = d.secondary

\* A card with the fields named.
CardOf(i, k, p, s, x, f, e, o, st, q) ==
    [id |-> i, kind |-> k, primary |-> p, secondary |-> s, expression |-> x, failed |-> f,
     execution |-> e, owner |-> o, stale |-> st, poisoned |-> q]

\* Two steps that leave a card the same card leave it the same.
LEMMA SameCardTwice ==
    ASSUME NEW b, NEW c, NEW d, SameCard(b, c), SameCard(c, d)
    PROVE  SameCard(b, d)
<1>1. CASE IsOutput(b.kind)
  BY <1>1 DEF SameCard, IsOutput
<1>2. CASE ~IsOutput(b.kind)
  BY <1>2 DEF SameCard, IsOutput
<1> QED BY <1>1, <1>2

\* What phy_notebook_evaluate makes of the input.
LEMMA RanInputCell ==
    ASSUME NEW c \in Cells, c.kind = "input", context \in Contexts,
           NEW number \in 0 .. MaxCells, NEW parse \in Parses, NEW result \in Results(parse)
    PROVE  LET d == RanInput(c, number, parse, result)
           IN  /\ d \in Cells /\ SameCard(c, d)
               /\ d.kind = "input" /\ d.execution = number /\ ~d.stale
               /\ d.expression \in {NullRef, context}
               /\ d.poisoned => result # "ok"
<1> DEFINE s == parse.secondary
           x == IF parse.expression THEN context ELSE NullRef
           f == result # "ok"
           q == result \in {"wedged", "rebuilt"}
           d == CardOf(c.id, c.kind, c.primary, s, x, f, number, c.owner, FALSE, q)
<1>1. s \in 0 .. DetailCapacity
  <2>1. CASE parse = [expression |-> FALSE, secondary |-> 0] BY <2>1, CapacityAssumption
  <2>2. CASE \E n \in Canonical : parse = [expression |-> TRUE, secondary |-> n]
    BY <2>2, CapacityAssumption, CanonicalAssumption
  <2> QED BY <2>1, <2>2 DEF Parses
<1>2. x \in {NullRef, context} /\ f \in BOOLEAN /\ q \in BOOLEAN /\ (q => result # "ok")
  OBVIOUS
<1>3. RanInput(c, number, parse, result) = d
  <2>1. RanInput(c, number, parse, result) =
          [c EXCEPT !.execution = number, !.secondary = s, !.expression = x, !.failed = f,
                    !.stale = FALSE, !.poisoned = q]
    BY DEF RanInput
  <2> HIDE DEF s, x, f, q
  <2> QED BY <1>2, <2>1 DEF Cells, CardOf
<1>4. d \in Cells
  <2> HIDE DEF s, x, f, q
  <2> QED BY <1>1, <1>2 DEF Cells, CardOf
<1> HIDE DEF s, x, f, q
<1> QED BY <1>2, <1>3, <1>4 DEF CardOf, SameCard, IsOutput

\* What phy_notebook_evaluate makes of the output card.
LEMMA RanOutputCell ==
    ASSUME NEW c \in Cells, IsOutput(c.kind), context \in Contexts,
           NEW i \in 1 .. MaxCells, c.owner = i,
           NEW number \in 0 .. MaxCells, NEW result
    PROVE  LET d == RanOutput(c, i, number, result)
           IN  /\ d \in Cells /\ SameCard(c, d)
               /\ IsOutput(d.kind) /\ d.owner = i /\ d.execution = number /\ ~d.stale
               /\ d.expression \in {NullRef, context}
               /\ d.kind = (IF result = "ok" THEN "output" ELSE "error")
               /\ result = "ok" => d.expression = context
               /\ d.poisoned = c.poisoned
<1> DEFINE k == IF result = "ok" THEN "output" ELSE "error"
           x == IF result = "ok" THEN context ELSE NullRef
           f == result # "ok"
           d == CardOf(c.id, k, 0, c.secondary, x, f, number, i, FALSE, c.poisoned)
<1>1. k \in {"output", "error"} /\ x \in {NullRef, context} /\ f \in BOOLEAN
      /\ (result = "ok" => x = context)
  OBVIOUS
<1>2. RanOutput(c, i, number, result) = d
  <2>1. RanOutput(c, i, number, result) =
          [c EXCEPT !.kind = k, !.primary = 0, !.expression = x, !.failed = f,
                    !.execution = number, !.owner = i, !.stale = FALSE]
    BY DEF RanOutput
  <2> HIDE DEF k, x, f
  <2> QED BY <1>1, <2>1 DEF Cells, CardOf
<1>3. d \in Cells
  <2> HIDE DEF k, x, f
  <2> QED BY <1>1, CapacityAssumption DEF Cells, CardOf
<1>4. k = (IF result = "ok" THEN "output" ELSE "error") OBVIOUS
<1> HIDE DEF k, x, f
<1> QED BY <1>1, <1>2, <1>3, <1>4 DEF CardOf, SameCard, IsOutput

\* What marking a card stale leaves of it.
LEMMA MarkedCell ==
    ASSUME NEW c \in Cells
    PROVE  LET d == MarkedStale(c)
           IN  /\ d \in Cells /\ SameCard(c, d)
               /\ d.kind = c.kind /\ d.execution = c.execution /\ d.expression = c.expression
               /\ d.failed = c.failed /\ d.primary = c.primary /\ d.poisoned = c.poisoned
               /\ IsOutput(c.kind) => d.owner = c.owner /\ d.stale
BY DEF MarkedStale, Cells, SameCard, IsOutput

\* A card after a rebuild that left it the expression x.
Carried(c, x) == [MarkedStale(c) EXCEPT !.expression = x]

\* What rebuild_context leaves of a card, whether or not its expression could
\* be read again.
LEMMA MigratedCell ==
    ASSUME NEW c \in Cells, context \in Contexts, NEW x \in {NullRef, NextContext}
    PROVE  LET d == Carried(c, x)
           IN  /\ d \in Cells /\ SameCard(c, d)
               /\ d.kind = c.kind /\ d.execution = c.execution /\ d.poisoned = c.poisoned
               /\ d.expression \in {NullRef, NextContext}
               /\ IsOutput(c.kind) => d.owner = c.owner /\ d.stale
<1> DEFINE m == MarkedStale(c)
<1>1. m \in Cells /\ m.kind = c.kind /\ m.execution = c.execution /\ m.poisoned = c.poisoned
      /\ SameCard(c, m) /\ (IsOutput(c.kind) => m.owner = c.owner /\ m.stale)
  BY MarkedCell
<1>2. x \in Contexts \cup {NullRef} BY DEF NextContext, Contexts
<1>3. Carried(c, x) = [m EXCEPT !.expression = x] BY DEF Carried
<1> HIDE DEF m
<1>4. Carried(c, x) = CardOf(m.id, m.kind, m.primary, m.secondary, x, m.failed, m.execution,
                             m.owner, m.stale, m.poisoned)
  BY <1>1, <1>2, <1>3 DEF Cells, CardOf
<1>5. Carried(c, x) \in Cells BY <1>1, <1>2, <1>4 DEF Cells, CardOf
<1> QED BY <1>1, <1>2, <1>4, <1>5 DEF CardOf, SameCard, IsOutput

\* What one evaluation makes of the cards, place by place.
LEMMA CellsEvaluated ==
    ASSUME NEW cs \in Cards, context \in Contexts,
           NEW i \in Places(cs), i + 1 \in Places(cs),
           cs[i].kind = "input", IsOutput(cs[i + 1].kind), cs[i + 1].owner = i,
           NEW number \in 0 .. MaxCells, NEW parse \in Parses, NEW result \in Results(parse)
    PROVE  LET r == Evaluated(cs, i, number, parse, result)
           IN  /\ r \in Cards /\ Len(r) = Len(cs)
               /\ \A j \in Places(cs) :
                    /\ r[j] \in Cells /\ SameCard(cs[j], r[j])
                    /\ r[j] = IF j = i THEN RanInput(cs[j], number, parse, result)
                              ELSE IF j = i + 1 THEN RanOutput(cs[j], i, number, result)
                              ELSE IF j > i + 1 THEN MarkedStale(cs[j]) ELSE cs[j]
<1> DEFINE r == Evaluated(cs, i, number, parse, result)
<1>1. Len(cs) \in 0 .. MaxCells /\ \A j \in Places(cs) : cs[j] \in Cells
  BY CardsAreFunctions
<1>2. i \in 1 .. MaxCells BY <1>1, CapacityAssumption DEF Places
<1>3. \A j \in Places(cs) :
         r[j] = IF j = i THEN RanInput(cs[j], number, parse, result)
                ELSE IF j = i + 1 THEN RanOutput(cs[j], i, number, result)
                ELSE IF j > i + 1 THEN MarkedStale(cs[j]) ELSE cs[j]
  BY DEF Evaluated, Places
<1>4. r = [j \in Places(cs) |-> r[j]] BY DEF Evaluated, Places
<1> HIDE DEF r
<1>5. ASSUME NEW j \in Places(cs) PROVE r[j] \in Cells /\ SameCard(cs[j], r[j])
  <2>1. CASE j = i BY <1>1, <1>3, <2>1, RanInputCell
  <2>2. CASE j = i + 1
    <3>1. r[j] = RanOutput(cs[j], i, number, result)
      BY <1>2, <1>3, <2>2, CapacityAssumption
    <3> QED BY <1>1, <1>2, <2>2, <3>1, RanOutputCell
  <2>3. CASE j > i + 1
    <3>1. r[j] = MarkedStale(cs[j])
      BY <1>2, <1>3, <2>3, CapacityAssumption
    <3> QED BY <1>1, <3>1, MarkedCell
  <2>4. CASE j < i
    <3>1. r[j] = cs[j] BY <1>1, <1>2, <1>3, <2>4, CapacityAssumption DEF Places
    <3> QED BY <1>1, <3>1 DEF SameCard
  <2> QED BY <1>1, <1>2, <2>1, <2>2, <2>3, <2>4, CapacityAssumption DEF Places
<1>6. r \in [1 .. Len(cs) -> Cells] BY <1>4, <1>5 DEF Places
<1>7. r \in Cards /\ Len(r) = Len(cs) BY <1>1, <1>6, CardsArePlaced
<1> QED BY <1>3, <1>5, <1>7 DEF r

\* An evaluation of an input with an output card under it leaves no card
\* exempt, and what is above the input as it was.
LEMMA EvaluationIsSound ==
    ASSUME NEW cs \in Cards, context \in Contexts, NEW next \in Nat \ {0},
           NEW i \in Places(cs), i + 1 \in Places(cs),
           cs[i].kind = "input", IsOutput(cs[i + 1].kind), Sound(cs, next, context, i + 1),
           NEW parse \in Parses, NEW result \in Results(parse)
    PROVE  LET number == IF cs[i].execution = 0 THEN next ELSE cs[i].execution
               next2 == IF cs[i].execution = 0 THEN next + 1 ELSE next
               r == Evaluated(cs, i, number, parse, result)
           IN  /\ r \in Cards /\ Len(r) = Len(cs) /\ next2 \in Nat \ {0}
               /\ Sound(r, next2, context, 0)
               /\ \A j \in Places(cs) : SameCard(cs[j], r[j])
               /\ \A j \in Places(cs) : j < i => r[j] = cs[j]
               /\ ~r[i].stale /\ ~r[i + 1].stale
<1> DEFINE number == IF cs[i].execution = 0 THEN next ELSE cs[i].execution
           next2 == IF cs[i].execution = 0 THEN next + 1 ELSE next
           r == Evaluated(cs, i, number, parse, result)
<1>1. Len(cs) \in 0 .. MaxCells /\ \A j \in Places(cs) : cs[j] \in Cells
  BY CardsAreFunctions
<1>2. /\ i \in Nat /\ cs[i + 1].owner = i
      /\ \A j \in Places(cs) : IsOutput(cs[j].kind) =>
            j > 1 /\ cs[j].owner = j - 1 /\ cs[j - 1].kind = "input"
  BY <1>1, CapacityAssumption DEF Sound, Shaped, Places
<1>3. /\ number \in 1 .. MaxCells /\ next2 \in Nat \ {0} /\ next2 >= next /\ number < next2
      /\ cs[i].execution # 0 => number = cs[i].execution /\ next2 = next
      /\ cs[i].execution = 0 => number = next /\ next2 = next + 1
  <2>1. CASE cs[i].execution = 0 BY <2>1, NumberLeft DEF Sound
  <2>2. CASE cs[i].execution # 0
    <3>1. cs[i].execution \in 0 .. MaxCells /\ cs[i].execution < next
      BY <1>1 DEF Cells, Sound, Numbered
    <3> QED BY <2>2, <3>1, CapacityAssumption
  <2> QED BY <2>1, <2>2
<1>4. /\ r \in Cards /\ Len(r) = Len(cs) /\ Places(r) = Places(cs)
      /\ \A j \in Places(cs) :
            /\ r[j] \in Cells /\ SameCard(cs[j], r[j])
            /\ r[j] = IF j = i THEN RanInput(cs[j], number, parse, result)
                      ELSE IF j = i + 1 THEN RanOutput(cs[j], i, number, result)
                      ELSE IF j > i + 1 THEN MarkedStale(cs[j]) ELSE cs[j]
  <2>1. number \in 0 .. MaxCells BY <1>3, CapacityAssumption
  <2> HIDE DEF number
  <2> QED BY <1>2, <2>1, CellsEvaluated DEF Places
<1> HIDE DEF number, next2, r
<1>5. /\ r[i].kind = "input" /\ r[i].execution = number /\ ~r[i].stale
      /\ r[i].expression \in {NullRef, context}
  <2>1. r[i] = RanInput(cs[i], number, parse, result) BY <1>4
  <2> QED BY <1>1, <1>3, <2>1, RanInputCell, CapacityAssumption
<1>6. /\ IsOutput(r[i + 1].kind) /\ r[i + 1].owner = i /\ r[i + 1].execution = number
      /\ ~r[i + 1].stale /\ r[i + 1].expression \in {NullRef, context}
  <2>1. r[i + 1] = RanOutput(cs[i + 1], i, number, result) BY <1>2, <1>4
  <2>2. i \in 1 .. MaxCells BY <1>1, CapacityAssumption DEF Places
  <2> QED BY <1>1, <1>2, <1>3, <2>1, <2>2, RanOutputCell, CapacityAssumption
<1>7. ASSUME NEW j \in Places(cs), j # i, j # i + 1
      PROVE  /\ r[j].kind = cs[j].kind /\ r[j].execution = cs[j].execution
             /\ r[j].expression = cs[j].expression
             /\ j > i + 1 /\ IsOutput(cs[j].kind) => r[j].stale
             /\ j < i => r[j] = cs[j]
  <2>1. CASE j > i + 1
    <3>1. r[j] = MarkedStale(cs[j]) BY <1>2, <1>4, <2>1
    <3> QED BY <1>1, <1>2, <2>1, <3>1, MarkedCell, CapacityAssumption DEF Places
  <2>2. CASE j < i
    <3>1. r[j] = cs[j] BY <1>1, <1>2, <1>4, <2>2, CapacityAssumption DEF Places
    <3> QED BY <1>1, <1>2, <2>2, <3>1, CapacityAssumption DEF Places
  <2> QED BY <1>1, <1>2, <1>7, <2>1, <2>2, CapacityAssumption DEF Places
<1>8. \A j \in Places(cs) : (IsOutput(r[j].kind) <=> IsOutput(cs[j].kind))
                            /\ (IsOutput(cs[j].kind) => r[j].owner = cs[j].owner)
                            /\ (r[j].kind = "input" <=> cs[j].kind = "input")
  BY <1>4 DEF SameCard, IsOutput
<1>9. Shaped(r)
  BY <1>1, <1>2, <1>4, <1>8, CapacityAssumption DEF Shaped, Places
<1>10. Numbered(r, next2, 0)
  <2>0. \A j \in Places(cs) : cs[j].execution < next /\ cs[j].execution \in Nat
    <3>1. \A j \in Places(cs) : cs[j].execution < next BY DEF Sound, Numbered
    <3>2. \A j \in Places(cs) : cs[j].execution \in 0 .. MaxCells BY <1>1 DEF Cells
    <3> QED BY <3>1, <3>2, CapacityAssumption
  <2>1. ASSUME NEW j \in Places(cs), NEW k \in Places(cs), r[j].kind = "input",
               r[k].kind = "input", j # k, r[j].execution # 0
        PROVE  r[j].execution # r[k].execution
    <3>1. j # i + 1 /\ k # i + 1 BY <1>6, <2>1 DEF IsOutput
    <3>2. cs[j].kind = "input" /\ cs[k].kind = "input" BY <1>8, <2>1
    <3>3. cs[j].execution < next /\ cs[k].execution < next
          /\ cs[j].execution \in Nat /\ cs[k].execution \in Nat
      BY <2>0
    <3>4. (cs[j].execution # 0 \/ cs[k].execution # 0) => cs[j].execution # cs[k].execution
      BY <2>1, <3>2 DEF Sound, Numbered
    <3>5. CASE j = i
      BY <1>3, <1>5, <1>7, <2>1, <3>1, <3>3, <3>4, <3>5, CapacityAssumption
    <3>6. CASE k = i
      BY <1>3, <1>5, <1>7, <2>1, <3>1, <3>3, <3>4, <3>6, CapacityAssumption
    <3>7. CASE j # i /\ k # i
      BY <1>7, <2>1, <3>1, <3>4, <3>7
    <3> QED BY <3>5, <3>6, <3>7
  <2>2. ASSUME NEW j \in Places(cs) PROVE r[j].execution < next2
    <3>1. cs[j].execution < next /\ cs[j].execution \in Nat BY <2>0
    <3> QED BY <1>3, <1>5, <1>6, <1>7, <3>1, CapacityAssumption
  <2>3. ASSUME NEW j \in Places(cs), IsOutput(r[j].kind)
        PROVE  r[j].execution = r[j - 1].execution
    <3>1. IsOutput(cs[j].kind) /\ j > 1 /\ cs[j - 1].kind = "input" /\ j # i
      BY <1>2, <1>5, <1>8, <2>3 DEF IsOutput
    <3>2. CASE j = i + 1 BY <1>2, <1>5, <1>6, <3>2
    <3>3. CASE j # i + 1
      <4>1. j - 1 \in Places(cs) /\ j - 1 # i /\ j - 1 # i + 1
        BY <1>1, <1>2, <3>1, <3>3, CapacityAssumption DEF Places, IsOutput
      <4>2. cs[j].execution = cs[j - 1].execution
        BY <3>1, <3>3 DEF Sound, Numbered
      <4> QED BY <1>7, <3>1, <3>3, <4>1, <4>2
    <3> QED BY <3>2, <3>3
  <2> QED BY <1>4, <2>1, <2>2, <2>3 DEF Numbered
<1>11. Given(r, next2)
  <2> SUFFICES ASSUME NEW n \in 1 .. next2 - 1
               PROVE  \E j \in Places(cs) : r[j].kind = "input" /\ r[j].execution = n
    BY <1>4 DEF Given
  <2>1. CASE n = number BY <1>5, <2>1
  <2>2. CASE n # number
    <3>1. n \in 1 .. next - 1 BY <1>3, <2>2
    <3>2. PICK j \in Places(cs) : cs[j].kind = "input" /\ cs[j].execution = n
      BY <3>1 DEF Sound, Given
    <3>3. j # i /\ j # i + 1 BY <1>3, <2>2, <3>1, <3>2 DEF IsOutput
    <3> QED BY <1>7, <3>2, <3>3
  <2> QED BY <2>1, <2>2
<1>12. Living(r, context)
  <2> SUFFICES ASSUME NEW j \in Places(cs) PROVE r[j].expression \in {NullRef, context}
    BY <1>4 DEF Living
  <2> QED BY <1>5, <1>6, <1>7 DEF Sound, Living
<1>13. Told(r, 0)
  <2> SUFFICES ASSUME NEW j \in Places(cs), IsOutput(r[j].kind), r[j - 1].stale,
                      ~r[j - 1].failed
               PROVE  r[j].stale
    BY <1>4 DEF Told
  <2>1. IsOutput(cs[j].kind) /\ j > 1 /\ cs[j - 1].kind = "input" /\ j # i
    BY <1>2, <1>5, <1>8 DEF IsOutput
  <2>2. j # i + 1 BY <1>2, <1>5
  <2>3. CASE j > i + 1 BY <1>7, <2>1, <2>2, <2>3
  <2>4. CASE j < i
    <3>1. j - 1 \in Places(cs) /\ j - 1 # i /\ j - 1 # i + 1 /\ j - 1 < i
      BY <1>1, <1>2, <2>1, <2>4, CapacityAssumption DEF Places
    <3>2. r[j] = cs[j] /\ r[j - 1] = cs[j - 1] BY <1>7, <2>1, <2>2, <2>4, <3>1
    <3> QED BY <2>1, <2>2, <3>2 DEF Sound, Told
  <2> QED BY <1>1, <1>2, <2>1, <2>2, <2>3, <2>4, CapacityAssumption DEF Places
<1>14. \A j \in Places(cs) : j < i => r[j] = cs[j]
  BY <1>1, <1>2, <1>7, CapacityAssumption DEF Places
<1> QED BY <1>3, <1>4, <1>5, <1>6, <1>9, <1>10, <1>11, <1>12, <1>13, <1>14
        DEF Sound, r, number, next2

\* rebuild_context moves every expression it can read again into the new
\* context, and outdates every result.
LEMMA RebuildIsSound ==
    ASSUME NEW cs \in Cards, context \in Contexts, NEW next \in Nat \ {0}, NEW carried,
           Sound(cs, next, context, 0)
    PROVE  LET r == Rebuilt(cs, carried)
           IN  /\ r \in Cards /\ Len(r) = Len(cs)
               /\ Sound(r, next, NextContext, 0)
               /\ \A j \in Places(cs) :
                    /\ SameCard(cs[j], r[j])
                    /\ r[j].kind = cs[j].kind /\ r[j].poisoned = cs[j].poisoned
                    /\ IsOutput(cs[j].kind) => r[j].stale
<1> DEFINE r == Rebuilt(cs, carried)
<1>1. /\ Len(cs) \in 0 .. MaxCells /\ DOMAIN cs = Places(cs)
      /\ \A j \in Places(cs) : cs[j] \in Cells
  BY CardsAreFunctions
<1>2. \A j \in Places(cs) : r[j] = Migrated(cs[j], j \in carried) BY <1>1 DEF Rebuilt
<1>3. \A j \in Places(cs) :
         /\ r[j] \in Cells /\ SameCard(cs[j], r[j])
         /\ r[j].kind = cs[j].kind /\ r[j].execution = cs[j].execution
         /\ r[j].poisoned = cs[j].poisoned /\ r[j].expression \in {NullRef, NextContext}
         /\ IsOutput(cs[j].kind) => r[j].owner = cs[j].owner /\ r[j].stale
  <2> TAKE j \in Places(cs)
  <2> DEFINE x == IF j \in carried THEN NextContext ELSE NullRef
  <2>1. r[j] = Carried(cs[j], x) BY <1>2 DEF Migrated, Carried
  <2>2. x \in {NullRef, NextContext} OBVIOUS
  <2> HIDE DEF r, x
  <2> QED BY <1>1, <2>1, <2>2, MigratedCell
<1>4. r \in [1 .. Len(cs) -> Cells] BY <1>1, <1>3 DEF Rebuilt, Places
<1> HIDE DEF r
<1>5. r \in Cards /\ Len(r) = Len(cs) /\ Places(r) = Places(cs)
  BY <1>1, <1>4, CardsArePlaced DEF Places
<1>6. Shaped(r)
  <2>1. \A j \in Places(cs) : IsOutput(cs[j].kind) =>
            j > 1 /\ j - 1 \in Places(cs) /\ cs[j].owner = j - 1 /\ cs[j - 1].kind = "input"
    BY <1>1, CapacityAssumption DEF Sound, Shaped, Places
  <2> QED BY <1>3, <1>5, <2>1 DEF Shaped
<1>7. Numbered(r, next, 0)
  <2>1. \A j \in Places(cs) : IsOutput(cs[j].kind) =>
            j - 1 \in Places(cs) /\ cs[j].execution = cs[j - 1].execution
    BY <1>1, CapacityAssumption DEF Sound, Shaped, Numbered, Places
  <2> QED BY <1>3, <1>5, <2>1 DEF Sound, Numbered
<1>8. Given(r, next) BY <1>3, <1>5 DEF Sound, Given
<1>9. Living(r, NextContext) BY <1>3, <1>5 DEF Living
<1>10. Told(r, 0) BY <1>3, <1>5 DEF Told
<1> QED BY <1>3, <1>5, <1>6, <1>7, <1>8, <1>9, <1>10 DEF Sound, r

\* A sound notebook is sound with a card exempt.
LEMMA FewerExempted ==
    ASSUME NEW cs, NEW next, NEW ctx, NEW x, Sound(cs, next, ctx, 0), 0 \notin Places(cs)
    PROVE  Sound(cs, next, ctx, x)
BY DEF Sound, Numbered, Told

----------------------------------------------------------------------------
(* The editor and the selection *)

\* Steps that leave every card the same card leave the selection and the editor
\* theirs.
LEMMA EditorStays ==
    ASSUME NEW cs \in Cards, NEW ds \in Cards, Len(ds) = Len(cs),
           \A j \in Places(cs) : SameCard(cs[j], ds[j]),
           NEW at, NEW ed, Editable(cs, at, ed)
    PROVE  Editable(ds, at, ed)
<1>1. Places(ds) = Places(cs) BY DEF Places
<1>2. ASSUME ed # NoEdit
      PROVE  /\ ed.index \in Places(ds) /\ IsSource(ds[ed.index].kind)
             /\ ed.cursor <= TextLength(ds[ed.index], ed.secondary)
  <2>1. ed.index \in Places(cs) /\ SameCard(cs[ed.index], ds[ed.index])
        /\ IsSource(cs[ed.index].kind)
        /\ ed.cursor <= TextLength(cs[ed.index], ed.secondary)
    BY <1>2 DEF Editable
  <2> QED BY <1>1, <2>1 DEF SameCard, IsSource, IsOutput, TextLength, InSecondary
<1> QED BY <1>1, <1>2 DEF Editable

\* insert_cell shifts the selection and the editor with the cards they name.
LEMMA EditorMoves ==
    ASSUME cells \in Cards, Count < MaxCells, Shaped(cells),
           NEW k \in 1 .. Count + 1, k <= Count => ~IsOutput(cells[k].kind), NEW c \in Cells,
           NEW at, NEW ed, Editable(cells, at, ed)
    PROVE  Editable(Inserted(k, c), MovedSelection(at, k), MovedEdit(ed, k))
<1> DEFINE f == Inserted(k, c)
           to == MovedSelection(at, k)
           moved == MovedEdit(ed, k)
<1>1. Count \in 0 .. MaxCells /\ k \in Nat
      /\ Places(cells) = 1 .. Count /\ Len(f) = Count + 1 /\ Places(f) = 1 .. Count + 1
  BY CardsAreFunctions, CellsInserted, CapacityAssumption DEF Count, Places
<1>2. \A i \in 1 .. Count + 1 :
         i # k => Before(i, k) \in 1 .. Count /\ SameButOwner(f[i], cells[Before(i, k)])
  BY InsertionMoves
<1> HIDE DEF f
<1>3. to \in 1 .. MaxCells + 1 /\ to <= Len(f)
  BY <1>1, CapacityAssumption DEF MovedSelection, Editable, Count, Places
<1>4. ASSUME ed # NoEdit
      PROVE  /\ moved \in [index : 0 .. MaxCells, secondary : BOOLEAN,
                           cursor : 0 .. TextCapacity + DetailCapacity]
             /\ moved.index \in Places(f) /\ IsSource(f[moved.index].kind)
             /\ moved.cursor <= TextLength(f[moved.index], moved.secondary)
  <2>1. /\ ed \in [index : 0 .. MaxCells, secondary : BOOLEAN,
                   cursor : 0 .. TextCapacity + DetailCapacity]
        /\ ed.index \in 1 .. Count /\ IsSource(cells[ed.index].kind)
        /\ ed.cursor <= TextLength(cells[ed.index], ed.secondary)
    BY <1>1, <1>4 DEF Editable
  <2>2. /\ moved.index = IF ed.index >= k THEN ed.index + 1 ELSE ed.index
        /\ moved.secondary = ed.secondary /\ moved.cursor = ed.cursor
        /\ moved = [index |-> moved.index, secondary |-> ed.secondary, cursor |-> ed.cursor]
    BY <1>4, <2>1 DEF MovedEdit
  <2> HIDE DEF moved
  <2>3. moved.index \in 1 .. Count + 1 /\ moved.index # k /\ Before(moved.index, k) = ed.index
    BY <1>1, <2>1, <2>2, CapacityAssumption DEF Before
  <2>4. SameButOwner(f[moved.index], cells[ed.index]) BY <1>2, <2>3
  <2>5. TextLength(f[moved.index], moved.secondary) = TextLength(cells[ed.index], ed.secondary)
    BY <2>2, <2>4 DEF TextLength, InSecondary, SameButOwner
  <2>6. moved.index \in 0 .. MaxCells BY <1>1, <2>3, CapacityAssumption
  <2> QED BY <1>1, <2>1, <2>2, <2>3, <2>4, <2>5, <2>6 DEF SameButOwner
<1>5. CASE ed = NoEdit BY <1>1, <1>3, <1>5 DEF Editable, MovedEdit, f
<1>6. CASE ed # NoEdit BY <1>1, <1>3, <1>4, <1>6 DEF Editable, f
<1> QED BY <1>5, <1>6

----------------------------------------------------------------------------
(* One evaluation *)

\* Every input above place n that is not in quarantine has a result of now.
Fresh(cs, n) ==
    \A j \in Places(cs) :
        j < n /\ cs[j].kind = "input" /\ ~cs[j].poisoned
            /\ j + 1 \in Places(cs) /\ IsOutput(cs[j + 1].kind)
        => ~cs[j].stale /\ ~cs[j + 1].stale

\* The card at place j of cs is at place k of ds.
SamePlaceCard(cs, j, ds, k) == k \in Places(ds) /\ ds[k].id = cs[j].id

\* A new card is blank.
LEMMA NewCellIsACell ==
    ASSUME Count \in Nat, Count < MaxCells, NEW kind \in {"markdown", "input", "output", "error"},
           NEW p \in 0 .. TextCapacity - 1, NEW s \in 0 .. DetailCapacity
    PROVE  LET c == NewCell(kind, p, s)
           IN  /\ c \in Cells /\ c.kind = kind /\ c.primary = p /\ c.secondary = s
               /\ c.execution = 0 /\ c.expression = NullRef /\ ~c.stale /\ ~c.poisoned
BY CapacityAssumption DEF NewCell, Cells

\* ensure_output: the output card is under the input, and the selection and the
\* editor still name the cards they named.
LEMMA OutputIsEnsured ==
    ASSUME cells \in Cards, context \in Contexts, nextExecution \in Nat \ {0},
           Sound(cells, nextExecution, context, 0),
           NEW i, IsInput(i), NEW at, NEW ed, Editable(cells, at, ed),
           HasOutput(i) \/ Count < MaxCells
    PROVE  LET mid == EnsuredCells(i)
               at1 == IF HasOutput(i) THEN at ELSE MovedSelection(at, i + 1)
               ed1 == IF HasOutput(i) THEN ed ELSE MovedEdit(ed, i + 1)
           IN  /\ mid \in Cards /\ Len(mid) >= Count
               /\ i \in Places(mid) /\ i + 1 \in Places(mid)
               /\ \A j \in 1 .. i : mid[j] = cells[j]
               /\ mid[i].kind = "input" /\ IsOutput(mid[i + 1].kind)
               /\ Sound(mid, nextExecution, context, i + 1)
               /\ Editable(mid, at1, ed1)
               /\ at \in 1 .. Count => SamePlaceCard(cells, at, mid, at1)
               /\ ed # NoEdit => SamePlaceCard(cells, ed.index, mid, ed1.index)
               /\ ed = NoEdit => ed1 = NoEdit
<1> DEFINE mid == EnsuredCells(i)
           at1 == IF HasOutput(i) THEN at ELSE MovedSelection(at, i + 1)
           ed1 == IF HasOutput(i) THEN ed ELSE MovedEdit(ed, i + 1)
<1>1. /\ Count \in 0 .. MaxCells /\ Places(cells) = 1 .. Count
      /\ \A j \in 1 .. Count : cells[j] \in Cells
      /\ i \in 1 .. Count /\ i \in Nat /\ cells[i].kind = "input"
  BY CardsAreFunctions, CapacityAssumption DEF Count, Places, IsInput
<1>2. CASE HasOutput(i)
  <2>1. i + 1 \in 1 .. Count /\ IsOutput(cells[i + 1].kind)
    BY <1>1, <1>2, CapacityAssumption DEF HasOutput
  <2>2. mid = cells /\ at1 = at /\ ed1 = ed BY <1>2 DEF EnsuredCells
  <2>3. Sound(cells, nextExecution, context, i + 1)
    BY <1>1, FewerExempted, CapacityAssumption
  <2>4. ed # NoEdit => ed.index \in Places(cells) BY DEF Editable
  <2> HIDE DEF mid, at1, ed1
  <2>5. Len(mid) >= Count BY <1>1, <2>2, CapacityAssumption DEF Count
  <2> QED BY <1>1, <2>1, <2>2, <2>3, <2>4, <2>5 DEF SamePlaceCard, mid, at1, ed1
<1>3. CASE ~HasOutput(i)
  <2> DEFINE c0 == NewCell("output", 0, 0)
             c == [c0 EXCEPT !.owner = i]
  <2>1. Count < MaxCells /\ mid = Inserted(i + 1, c)
        /\ at1 = MovedSelection(at, i + 1) /\ ed1 = MovedEdit(ed, i + 1)
    BY <1>3 DEF EnsuredCells
  <2>2. c0 \in Cells /\ c0.kind = "output" /\ c0.execution = 0 /\ c0.expression = NullRef
    BY <1>1, <2>1, NewCellIsACell, CapacityAssumption, SMTT(30)
  <2>3. i \in 0 .. MaxCells BY <1>1, CapacityAssumption
  <2> HIDE DEF c0
  <2>4. c \in Cells /\ c.kind = "output" /\ c.execution = 0 /\ c.expression = NullRef
        /\ c.owner = i
    BY <2>2, <2>3 DEF Cells
  <2>5. i + 1 \in 1 .. Count + 1 BY <1>1, CapacityAssumption
  <2>6. i + 1 <= Count => ~IsOutput(cells[i + 1].kind)
    <3> SUFFICES ASSUME i + 1 <= Count, IsOutput(cells[i + 1].kind) PROVE FALSE OBVIOUS
    <3>1. i + 1 \in 1 .. Count BY <1>1, CapacityAssumption
    <3>2. cells[i + 1].owner = i BY <1>1, <3>1, CapacityAssumption DEF Sound, Shaped
    <3> QED BY <1>1, <1>3, <3>2, CapacityAssumption DEF HasOutput
  <2> HIDE DEF c, mid, at1, ed1
  <2>7. mid \in Cards /\ Len(mid) = Count + 1 /\ Places(mid) = 1 .. Count + 1
        /\ \A j \in 1 .. Count + 1 : j < i + 1 => mid[j] = cells[j]
    BY <2>1, <2>4, <2>5, CellsInserted DEF Sound, Places
  <2>8. mid[i + 1] = c
        /\ \A j \in 1 .. Count + 1 :
              j # i + 1 => /\ Before(j, i + 1) \in 1 .. Count
                           /\ SameButOwner(mid[j], cells[Before(j, i + 1)])
    BY <2>1, <2>4, <2>5, <2>6, InsertionMoves DEF Sound
  <2>9. Sound(mid, nextExecution, context, i + 1)
    <3>1. i + 1 > 1 /\ c.owner = (i + 1) - 1 /\ cells[(i + 1) - 1].kind = "input"
      BY <1>1, <2>4
    <3> QED BY <2>1, <2>4, <2>5, <2>6, <3>1, InsertionIsSound
  <2>10. Editable(mid, at1, ed1)
    BY <2>1, <2>4, <2>5, <2>6, EditorMoves DEF Sound
  <2>11. ASSUME at \in 1 .. Count PROVE SamePlaceCard(cells, at, mid, at1)
    <3>1. at1 \in 1 .. Count + 1 /\ at1 # i + 1 /\ Before(at1, i + 1) = at
      BY <1>1, <2>1, <2>11, CapacityAssumption DEF MovedSelection, Before
    <3> QED BY <2>7, <2>8, <3>1 DEF SamePlaceCard, SameButOwner
  <2>12. ASSUME ed # NoEdit PROVE SamePlaceCard(cells, ed.index, mid, ed1.index)
    <3>1. ed.index \in 1 .. Count
          /\ ed \in [index : 0 .. MaxCells, secondary : BOOLEAN,
                     cursor : 0 .. TextCapacity + DetailCapacity]
      BY <1>1, <2>12 DEF Editable
    <3>2. ed1.index = IF ed.index >= i + 1 THEN ed.index + 1 ELSE ed.index
      BY <2>1, <2>12, <3>1 DEF MovedEdit
    <3>3. ed1.index \in 1 .. Count + 1 /\ ed1.index # i + 1 /\ Before(ed1.index, i + 1) = ed.index
      BY <1>1, <3>1, <3>2, CapacityAssumption DEF Before
    <3> QED BY <2>7, <2>8, <3>3 DEF SamePlaceCard, SameButOwner
  <2>13. ed = NoEdit => ed1 = NoEdit BY <2>1 DEF MovedEdit
  <2>14. i \in Places(mid) /\ i + 1 \in Places(mid) /\ Len(mid) >= Count
    BY <1>1, <2>7, CapacityAssumption
  <2>15. \A j \in 1 .. i : mid[j] = cells[j]
    BY <1>1, <2>7, CapacityAssumption
  <2>16. mid[i].kind = "input" /\ IsOutput(mid[i + 1].kind)
    BY <1>1, <2>4, <2>8, <2>15 DEF IsOutput
  <2> QED BY <2>7, <2>9, <2>10, <2>11, <2>12, <2>13, <2>14, <2>15, <2>16 DEF mid, at1, ed1
<1> QED BY <1>2, <1>3

\* What a step that evaluates input i, with the selection at at and the editor
\* ed, leaves behind.
EvaluationKeeps(i, at, ed) ==
    /\ cells' \in Cards /\ Len(cells') >= Len(cells)
    /\ Sound(cells', nextExecution', context', 0)
    /\ Editable(cells', selected', edit')
    /\ nextExecution' \in Nat \ {0} /\ context' \in Contexts
    /\ at \in Places(cells) => SamePlaceCard(cells, at, cells', selected')
    /\ ed # NoEdit => SamePlaceCard(cells, ed.index, cells', edit'.index)
    /\ ed = NoEdit => edit' = NoEdit
    /\ Fresh(cells, i) /\ context' = context /\ ~cells[i].poisoned => Fresh(cells', i + 1)

\* What the evaluator made of the cards cs, in which input i has its output
\* card: a rebuild carries some of the expressions over.
Outcome(cs, i, number, parse, result) ==
    LET ran == Evaluated(cs, i, number, parse, result)
    IN  IF result = "rebuilt"
        THEN /\ \E carried \in SUBSET {j \in DOMAIN ran : MayMigrate(ran[j])} :
                    cells' = Rebuilt(ran, carried)
             /\ context' = NextContext
        ELSE cells' = ran /\ UNCHANGED context

\* An evaluation that had room for its output card.
LEMMA RunKeeps ==
    ASSUME cells \in Cards, context \in Contexts, nextExecution \in Nat \ {0},
           Sound(cells, nextExecution, context, 0),
           NEW i, IsInput(i), NEW at, NEW ed, Editable(cells, at, ed),
           EvaluationRun(i, at, ed)
    PROVE  EvaluationKeeps(i, at, ed)
<1> DEFINE mid == EnsuredCells(i)
           at1 == IF HasOutput(i) THEN at ELSE MovedSelection(at, i + 1)
           ed1 == IF HasOutput(i) THEN ed ELSE MovedEdit(ed, i + 1)
           number == IF cells[i].execution = 0 THEN nextExecution ELSE cells[i].execution
           next2 == IF cells[i].execution = 0 THEN nextExecution + 1 ELSE nextExecution
<1>1. /\ Count \in 0 .. MaxCells /\ Places(cells) = 1 .. Count
      /\ i \in 1 .. Count /\ i \in Nat
  BY CardsAreFunctions, CapacityAssumption DEF Count, Places, IsInput
<1>2. /\ mid \in Cards /\ Len(mid) >= Count
      /\ i \in Places(mid) /\ i + 1 \in Places(mid)
      /\ \A j \in 1 .. i : mid[j] = cells[j]
      /\ mid[i].kind = "input" /\ IsOutput(mid[i + 1].kind)
      /\ Sound(mid, nextExecution, context, i + 1)
      /\ Editable(mid, at1, ed1)
      /\ at \in 1 .. Count => SamePlaceCard(cells, at, mid, at1)
      /\ ed # NoEdit => SamePlaceCard(cells, ed.index, mid, ed1.index)
      /\ ed = NoEdit => ed1 = NoEdit
  BY OutputIsEnsured DEF EvaluationRun
<1>3. /\ selected' = at1 /\ edit' = ed1 /\ nextExecution' = next2
  BY DEF EvaluationRun
<1>p. PICK parse \in Parses :
         \E result \in Results(parse) :
            Outcome(mid, i, number, parse, result)
  BY DEF EvaluationRun, Outcome
<1>4. PICK result \in Results(parse) : Outcome(mid, i, number, parse, result)
  BY <1>p
<1> DEFINE ran == Evaluated(mid, i, number, parse, result)
<1>o. /\ result = "rebuilt" => /\ \E carried : cells' = Rebuilt(ran, carried)
                               /\ context' = NextContext
      /\ result # "rebuilt" => cells' = ran /\ context' = context
  BY <1>4 DEF Outcome
<1>5. cells[i] = mid[i] BY <1>1, <1>2
<1> HIDE DEF mid, at1, ed1
<1>6. /\ ran \in Cards /\ Len(ran) = Len(mid) /\ next2 \in Nat \ {0}
      /\ Sound(ran, next2, context, 0)
      /\ \A j \in Places(mid) : SameCard(mid[j], ran[j])
      /\ \A j \in Places(mid) : j < i => ran[j] = mid[j]
      /\ ~ran[i].stale /\ ~ran[i + 1].stale
  BY <1>2, <1>5, EvaluationIsSound
<1> HIDE DEF number, next2, ran
<1>8. /\ cells' \in Cards /\ Len(cells') = Len(mid) /\ Sound(cells', next2, context', 0)
      /\ \A j \in Places(mid) : SameCard(ran[j], cells'[j])
      /\ context' \in Contexts
  <2>1. CASE result = "rebuilt"
    <3>0. PICK carried : cells' = Rebuilt(ran, carried) BY <1>o, <2>1
    <3>1. /\ cells' \in Cards /\ Len(cells') = Len(ran)
          /\ Sound(cells', next2, NextContext, 0)
          /\ \A j \in Places(ran) : SameCard(ran[j], cells'[j])
      BY <1>6, <3>0, RebuildIsSound
    <3>2. NextContext \in Contexts BY DEF NextContext, Contexts
    <3> QED BY <1>6, <1>o, <2>1, <3>1, <3>2 DEF Places
  <2>2. CASE result # "rebuilt"
    <3>1. cells' = ran /\ context' = context BY <1>o, <2>2
    <3>2. \A j \in Places(mid) : SameCard(ran[j], ran[j]) BY DEF SameCard
    <3> QED BY <1>6, <3>1, <3>2
  <2> QED BY <2>1, <2>2
<1>9. \A j \in Places(mid) : SameCard(mid[j], cells'[j]) /\ cells'[j].id = mid[j].id
  <2> TAKE j \in Places(mid)
  <2>1. SameCard(mid[j], ran[j]) /\ SameCard(ran[j], cells'[j]) BY <1>6, <1>8
  <2>2. SameCard(mid[j], cells'[j]) BY <2>1, SameCardTwice
  <2> QED BY <2>2 DEF SameCard
<1>10. Editable(cells', selected', edit')
  BY <1>2, <1>3, <1>8, <1>9, EditorStays
<1>11. ASSUME at \in Places(cells) PROVE SamePlaceCard(cells, at, cells', selected')
  BY <1>1, <1>2, <1>3, <1>8, <1>9, <1>11 DEF SamePlaceCard, Places
<1>12. ASSUME ed # NoEdit PROVE SamePlaceCard(cells, ed.index, cells', edit'.index)
  BY <1>1, <1>2, <1>3, <1>8, <1>9, <1>12 DEF SamePlaceCard, Places
<1>13. ASSUME Fresh(cells, i), context' = context, ~cells[i].poisoned
       PROVE  Fresh(cells', i + 1)
  <2>1. result # "rebuilt" BY <1>o, <1>13 DEF NextContext, Contexts
  <2>2. cells' = ran BY <1>o, <2>1
  <2> SUFFICES ASSUME NEW j \in Places(cells'), j < i + 1, cells'[j].kind = "input",
                      ~cells'[j].poisoned, j + 1 \in Places(cells'),
                      IsOutput(cells'[j + 1].kind)
               PROVE  ~cells'[j].stale /\ ~cells'[j + 1].stale
    BY DEF Fresh
  <2>3. CASE j = i BY <1>6, <2>2, <2>3
  <2>4. CASE j # i
    <3>0. Places(cells') = Places(mid) /\ Len(mid) \in Nat /\ j \in Nat
      BY <1>2, <1>8, CardsAreFunctions, CapacityAssumption DEF Places
    <3>1. j < i /\ j + 1 <= i BY <1>1, <2>4, <3>0
    <3>2. ran[j] = mid[j] /\ mid[j] = cells[j] /\ j \in Places(cells) /\ j + 1 \in Places(cells)
      BY <1>1, <1>2, <1>6, <3>0, <3>1, CapacityAssumption, SMTT(30) DEF Places
    <3>3. j + 1 # i
      <4>1. IsOutput(mid[j + 1].kind) BY <1>9, <3>0 DEF SameCard
      <4> QED BY <1>2, <4>1 DEF IsOutput
    <3>4. j + 1 < i BY <1>1, <3>0, <3>1, <3>3
    <3>5. ran[j + 1] = mid[j + 1] /\ mid[j + 1] = cells[j + 1]
      BY <1>1, <1>2, <1>6, <3>0, <3>4, CapacityAssumption DEF Places
    <3> QED BY <1>13, <2>2, <3>1, <3>2, <3>5 DEF Fresh
  <2> QED BY <2>3, <2>4
<1>14. Len(cells') >= Len(cells) BY <1>2, <1>8 DEF Count
<1>15. ed = NoEdit => edit' = NoEdit BY <1>2, <1>3
<1> QED BY <1>3, <1>6, <1>8, <1>10, <1>11, <1>12, <1>13, <1>14, <1>15 DEF EvaluationKeeps

\* An evaluation without room for it: the input leaves quarantine, and since it
\* has no output the replay owes it nothing.
LEMMA RefusalKeeps ==
    ASSUME cells \in Cards, context \in Contexts, nextExecution \in Nat \ {0},
           Sound(cells, nextExecution, context, 0),
           NEW i, IsInput(i), NEW at, NEW ed, Editable(cells, at, ed),
           EvaluationRefused(i, at, ed)
    PROVE  EvaluationKeeps(i, at, ed)
<1>1. /\ Count \in 0 .. MaxCells /\ Places(cells) = 1 .. Count /\ DOMAIN cells = 1 .. Count
      /\ \A j \in 1 .. Count : cells[j] \in Cells
      /\ i \in 1 .. Count /\ i \in Nat /\ cells[i].kind = "input"
  BY CardsAreFunctions, CapacityAssumption DEF Count, Places, IsInput
<1>2. /\ cells' = [cells EXCEPT ![i].poisoned = FALSE]
      /\ selected' = at /\ edit' = ed /\ nextExecution' = nextExecution /\ context' = context
      /\ ~HasOutput(i)
  BY DEF EvaluationRefused
<1> DEFINE d == [cells[i] EXCEPT !.poisoned = FALSE]
<1>3. d \in Cells /\ SameButOwner([d EXCEPT !.poisoned = cells[i].poisoned], cells[i])
      /\ d.owner = cells[i].owner /\ d.kind = cells[i].kind /\ d.execution = cells[i].execution
      /\ d.expression = cells[i].expression /\ d.stale = cells[i].stale
      /\ d.failed = cells[i].failed /\ SameCard(cells[i], d)
  BY <1>1 DEF Cells, SameCard, SameButOwner
<1>4. \A j \in 1 .. Count : cells'[j] = IF j = i THEN d ELSE cells[j]
  BY <1>1, <1>2
<1>5. cells' \in [1 .. Count -> Cells]
  <2>1. cells' = [j \in 1 .. Count |-> IF j = i THEN d ELSE cells[j]]
    <3>1. cells \in [1 .. Count -> Cells] BY CardsAreFunctions DEF Count, Places
    <3> QED BY <1>1, <1>2, <3>1
  <2> QED BY <1>1, <1>3, <2>1
<1> HIDE DEF d
<1>6. cells' \in Cards /\ Len(cells') = Count /\ Places(cells') = Places(cells)
  BY <1>1, <1>5, CardsArePlaced DEF Places, Count
<1>7. \A j \in Places(cells) :
         /\ SameCard(cells[j], cells'[j])
         /\ cells'[j].owner = cells[j].owner /\ cells'[j].kind = cells[j].kind
         /\ cells'[j].execution = cells[j].execution
         /\ cells'[j].expression = cells[j].expression /\ cells'[j].stale = cells[j].stale
         /\ cells'[j].failed = cells[j].failed /\ cells'[j].id = cells[j].id
  BY <1>1, <1>3, <1>4 DEF SameCard
<1>8. Sound(cells', nextExecution, context, 0)
  <2>1. \A j \in Places(cells) : IsOutput(cells[j].kind) =>
           j > 1 /\ j - 1 \in Places(cells) /\ cells[j].owner = j - 1
           /\ cells[j - 1].kind = "input"
    BY <1>1, CapacityAssumption DEF Sound, Shaped
  <2>2. Shaped(cells') BY <1>6, <1>7, <2>1 DEF Shaped
  <2>3. Numbered(cells', nextExecution, 0) BY <1>6, <1>7, <2>1 DEF Sound, Numbered
  <2>4. Given(cells', nextExecution) BY <1>6, <1>7 DEF Sound, Given
  <2>5. Living(cells', context) BY <1>6, <1>7 DEF Sound, Living
  <2>6. Told(cells', 0) BY <1>6, <1>7, <2>1 DEF Sound, Told
  <2> QED BY <2>2, <2>3, <2>4, <2>5, <2>6 DEF Sound
<1>9. Editable(cells', at, ed) BY <1>6, <1>7, EditorStays DEF Count
<1>10. ASSUME Fresh(cells, i), ~cells[i].poisoned PROVE Fresh(cells', i + 1)
  <2> SUFFICES ASSUME NEW j \in Places(cells), j < i + 1, cells[j].kind = "input",
                      ~cells'[j].poisoned, j + 1 \in Places(cells),
                      IsOutput(cells[j + 1].kind)
               PROVE  ~cells[j].stale /\ ~cells[j + 1].stale
    BY <1>6, <1>7 DEF Fresh
  <2>1. j # i
    <3>1. ASSUME j = i PROVE HasOutput(i)
      <4>1. cells[i + 1].owner = i /\ i < Count
        BY <1>1, <3>1, CapacityAssumption DEF Sound, Shaped
      <4> QED BY <3>1, <4>1 DEF HasOutput
    <3> QED BY <1>2, <3>1
  <2>2. j < i /\ cells'[j] = cells[j] BY <1>1, <1>4, <2>1, CapacityAssumption
  <2> QED BY <1>10, <2>2 DEF Fresh
<1>11. at \in Places(cells) => SamePlaceCard(cells, at, cells', selected')
  BY <1>2, <1>6, <1>7 DEF SamePlaceCard
<1>12. ed # NoEdit => SamePlaceCard(cells, ed.index, cells', edit'.index)
  BY <1>2, <1>6, <1>7 DEF SamePlaceCard, Editable
<1>13. Len(cells') >= Len(cells) BY <1>1, <1>6, CapacityAssumption DEF Count
<1> QED BY <1>2, <1>6, <1>8, <1>9, <1>10, <1>11, <1>12, <1>13 DEF EvaluationKeeps

----------------------------------------------------------------------------
(* The inductive invariant *)

\* The inductive invariant of the notebook.
NotebookInv ==
    /\ cells \in Cards /\ Sound(cells, nextExecution, context, 0)
    /\ Editable(cells, selected, edit)
    /\ dirty \in BOOLEAN /\ nextExecution \in Nat \ {0} /\ context \in Contexts
    /\ replay \in 0 .. Len(cells) + 1 /\ (replay # 0 => Fresh(cells, replay))

\* What the inductive invariant implies of what the runs check.
LEMMA NotebookInvMeans ==
    ASSUME NotebookInv
    PROVE  NotebookTypeOK /\ CardsHoldTogether /\ NothingOutdatedShows
<1>1. Count \in 0 .. MaxCells /\ Places(cells) = 1 .. Count
  BY CardsAreFunctions, CapacityAssumption DEF Count, Places, NotebookInv
<1>2. nextExecution \in 1 .. MaxCells + 1
  BY NumbersFit DEF NotebookInv, Sound
<1>3. NotebookTypeOK
  BY <1>1, <1>2, CapacityAssumption DEF NotebookTypeOK, NotebookInv, Cards, Editable, Count
<1>4. OutputFollowsItsInput
  BY <1>1 DEF OutputFollowsItsInput, NotebookInv, Sound, Shaped
<1>5. EditTargetIsEditable
  BY <1>1 DEF EditTargetIsEditable, NotebookInv, Editable, Editing, EditedCell, EditedLength,
              Count
<1>6. ExecutionNumbersPairUp
  BY <1>1, CapacityAssumption DEF ExecutionNumbersPairUp, NotebookInv, Sound, Numbered
<1>7. ExpressionsAreAlive BY <1>1 DEF ExpressionsAreAlive, NotebookInv, Sound, Living
<1>8. StaleSourceStaleResult
  BY <1>1, CapacityAssumption DEF StaleSourceStaleResult, NotebookInv, Sound, Told
<1> QED BY <1>3, <1>4, <1>5, <1>6, <1>7, <1>8 DEF CardsHoldTogether, NothingOutdatedShows

\* An empty notebook satisfies the inductive invariant.
LEMMA NotebookInvInit == NotebookInit => NotebookInv
<1> SUFFICES ASSUME NotebookInit PROVE NotebookInv OBVIOUS
<1>1. cells = <<>> /\ Len(cells) = 0 /\ Places(cells) = {} /\ cells \in Cards
  BY EmptySeq, CapacityAssumption DEF NotebookInit, Places, Cards
<1>2. Sound(cells, nextExecution, context, 0)
  BY <1>1 DEF Sound, Shaped, Numbered, Given, Living, Told, NotebookInit
<1>3. Editable(cells, selected, edit)
  BY <1>1, CapacityAssumption DEF Editable, NotebookInit, NoEdit
<1>4. replay = 0 /\ dirty \in BOOLEAN /\ nextExecution \in Nat \ {0} /\ context \in Contexts
  <2>1. replay = 0 /\ dirty = FALSE /\ nextExecution = 1 /\ context = 1
    BY Zenon DEF NotebookInit
  <2>2. dirty \in BOOLEAN BY <2>1, Zenon
  <2>3. nextExecution \in Nat \ {0} /\ context \in Contexts BY <2>1 DEF Contexts
  <2> QED BY <2>1, <2>2, <2>3
<1>5. replay \in 0 .. Len(cells) + 1 BY <1>1, <1>4
<1> HIDE DEF NotebookInit
<1> QED BY <1>1, <1>2, <1>3, <1>4, <1>5 DEF NotebookInv

\* The cards the user adds.
LEMMA SourceInserted ==
    ASSUME NotebookInv, Count < MaxCells,
           NEW k \in 1 .. Count + 1, k <= Count => ~IsOutput(cells[k].kind),
           NEW kind \in {"markdown", "input"},
           NEW p \in 0 .. TextCapacity - 1, NEW s \in 0 .. DetailCapacity
    PROVE  LET f == Inserted(k, NewCell(kind, p, s))
           IN  /\ f \in Cards /\ Len(f) = Count + 1
               /\ f[k].kind = kind /\ f[k].primary = p /\ f[k].secondary = s
               /\ Sound(f, nextExecution, context, 0)
               /\ Editable(f, MovedSelection(selected, k), MovedEdit(edit, k))
<1> DEFINE c == NewCell(kind, p, s)
           f == Inserted(k, c)
<1>1. Count \in 0 .. MaxCells /\ Places(cells) = 1 .. Count
  BY CardsAreFunctions, CapacityAssumption DEF Count, Places, NotebookInv
<1>2. /\ c \in Cells /\ c.kind = kind /\ c.primary = p /\ c.secondary = s
      /\ c.execution = 0 /\ c.expression = NullRef /\ ~IsOutput(c.kind)
  <2>1. Count \in Nat BY <1>1, CapacityAssumption
  <2> QED BY <2>1, NewCellIsACell DEF IsOutput
<1> HIDE DEF c
<1>3. cells \in Cards /\ Sound(cells, nextExecution, context, 0) /\ Shaped(cells)
      /\ nextExecution \in Nat \ {0} /\ Editable(cells, selected, edit)
  BY DEF NotebookInv, Sound
<1>4. f \in Cards /\ Len(f) = Count + 1 BY <1>2, <1>3, CellsInserted
<1>5. f[k] = c BY <1>2, <1>3, InsertionMoves
<1>6. Sound(f, nextExecution, context, k) BY <1>2, <1>3, InsertionIsSound
<1>7. Editable(f, MovedSelection(selected, k), MovedEdit(edit, k))
  BY <1>2, <1>3, EditorMoves
<1> HIDE DEF f
<1>8. Sound(f, nextExecution, context, 0)
  <2>1. k \in Places(f) => ~IsOutput(f[k].kind) BY <1>2, <1>5
  <2> QED BY <1>6, <2>1 DEF Sound, Numbered, Told
<1> QED BY <1>2, <1>4, <1>5, <1>7, <1>8 DEF f, c

\* phy_notebook_add_markdown and phy_notebook_add_input append.
LEMMA AppendKeeps ==
    ASSUME NotebookInv, Idle, NEW kind \in {"markdown", "input"},
           NEW p \in 0 .. TextCapacity - 1, NEW s \in 0 .. DetailCapacity,
           InsertCell(Count + 1, NewCell(kind, p, s)),
           UNCHANGED <<selected, edit, nextExecution, context, replay>>
    PROVE  NotebookInv'
<1>1. Count \in 0 .. MaxCells /\ Places(cells) = 1 .. Count
  BY CardsAreFunctions, CapacityAssumption DEF Count, Places, NotebookInv
<1>2. /\ cells' \in Cards /\ Len(cells') = Count + 1
      /\ Sound(cells', nextExecution, context, 0)
      /\ Editable(cells', MovedSelection(selected, Count + 1), MovedEdit(edit, Count + 1))
  <2>1. Count + 1 \in 1 .. Count + 1 /\ ~(Count + 1 <= Count) /\ Count < MaxCells
    BY <1>1, CapacityAssumption DEF InsertCell
  <2> QED BY <2>1, SourceInserted DEF InsertCell
<1>3. MovedSelection(selected, Count + 1) = selected
  BY <1>1, CapacityAssumption DEF MovedSelection, NotebookInv, Editable, Count
<1>4. MovedEdit(edit, Count + 1) = edit
  BY <1>1, CapacityAssumption DEF MovedEdit, NotebookInv, Editable
<1> QED BY <1>1, <1>2, <1>3, <1>4, CapacityAssumption DEF NotebookInv, Idle, InsertCell

\* The insertion buttons never put a card between an input and its output.
LEMMA InsertionPlace ==
    ASSUME NotebookInv
    PROVE  /\ AfterSelection \in 1 .. Count + 1
           /\ AfterSelection <= Count => ~IsOutput(cells[AfterSelection].kind)
<1> DEFINE k == AfterSelection
<1>1. Count \in 0 .. MaxCells /\ Places(cells) = 1 .. Count
  BY CardsAreFunctions, CapacityAssumption DEF Count, Places, NotebookInv
<1>2. Shaped(cells) /\ (selected \in 1 .. Count \/ Count = 0)
  BY <1>1, CapacityAssumption DEF NotebookInv, Sound, Editable, Count
<1>3. k \in 1 .. Count + 1
  BY <1>1, <1>2, CapacityAssumption DEF AfterSelection, HasOutput
<1>4. ASSUME k <= Count, IsOutput(cells[k].kind) PROVE FALSE
  <2>1. k > 1 /\ cells[k].owner = k - 1 /\ cells[k - 1].kind = "input"
    BY <1>1, <1>2, <1>3, <1>4, CapacityAssumption DEF Shaped
  <2>2. CASE k = selected + 1
    <3>1. HasOutput(selected)
      BY <1>1, <1>2, <1>4, <2>1, <2>2, CapacityAssumption DEF HasOutput
    <3> QED BY <1>1, <1>2, <1>4, <2>1, <2>2, <3>1, CapacityAssumption DEF AfterSelection
  <2>3. CASE k # selected + 1
    <3>1. k = selected + 2 /\ HasOutput(selected)
      BY <1>1, <1>2, <1>4, <2>1, <2>3, CapacityAssumption DEF AfterSelection
    <3>2. IsOutput(cells[selected + 1].kind) BY <3>1 DEF HasOutput
    <3>3. k - 1 = selected + 1 BY <1>1, <1>2, <1>3, <1>4, <3>1, CapacityAssumption
    <3> QED BY <2>1, <3>2, <3>3 DEF IsOutput
  <2> QED BY <2>2, <2>3
<1> QED BY <1>3, <1>4

\* The insertion buttons keep the inductive invariant.
LEMMA InsertAtKeeps ==
    ASSUME NotebookInv, NEW kind \in {"markdown", "input"}, InsertAt(kind)
    PROVE  NotebookInv'
<1> DEFINE p == IF kind = "markdown" /\ 1 < TextCapacity THEN 1 ELSE 0
           k == AfterSelection
<1>1. Count \in 0 .. MaxCells /\ Places(cells) = 1 .. Count
  BY CardsAreFunctions, CapacityAssumption DEF Count, Places, NotebookInv
<1>2. /\ Idle /\ Count < MaxCells /\ cells' = Inserted(k, NewCell(kind, p, 0)) /\ dirty' = TRUE
      /\ selected' = k /\ edit' = [index |-> k, secondary |-> FALSE, cursor |-> p]
      /\ UNCHANGED <<nextExecution, context, replay>>
  BY DEF InsertAt, InsertCell
<1>3. p \in 0 .. TextCapacity - 1 /\ p \in 0 .. TextCapacity + DetailCapacity
      /\ 0 \in 0 .. DetailCapacity
  BY CapacityAssumption
<1>4. k \in 1 .. Count + 1 /\ (k <= Count => ~IsOutput(cells[k].kind))
  BY InsertionPlace
<1> HIDE DEF p, k
<1>5. /\ cells' \in Cards /\ Len(cells') = Count + 1
      /\ cells'[k].kind = kind /\ cells'[k].primary = p
      /\ Sound(cells', nextExecution, context, 0)
  BY <1>2, <1>3, <1>4, SourceInserted
<1>6. Editable(cells', selected', edit')
  <2>1. k \in Places(cells') BY <1>4, <1>5 DEF Places
  <2>2. k \in 1 .. MaxCells /\ k <= Len(cells')
    BY <1>1, <1>2, <1>4, <1>5, CapacityAssumption
  <2> QED BY <1>2, <1>3, <1>5, <2>1, <2>2, CapacityAssumption
          DEF Editable, IsSource, TextLength, InSecondary
<1> QED BY <1>1, <1>2, <1>5, <1>6, CapacityAssumption DEF NotebookInv, Idle

\* mark_source_stale marks an input and the output under it.
EditMarks(j) ==
    /\ cells[edit.index].kind = "input"
    /\ j = edit.index \/ (j = edit.index + 1 /\ HasOutput(edit.index))

\* What an edit changes of the cells: the length of one text, and the staleness
\* of an input and of the output under it.
LEMMA TextEdited ==
    ASSUME NotebookInv, Idle, Editing,
           NEW n, n \in 0 .. Capacity(EditedCell, edit.secondary) - 1,
           NEW cursor \in 0 .. n, EditText(n, cursor)
    PROVE  /\ cells' \in Cards /\ Len(cells') = Count
           /\ \A j \in 1 .. Count :
                /\ cells'[j].kind = cells[j].kind /\ cells'[j].id = cells[j].id
                /\ cells'[j].execution = cells[j].execution
                /\ cells'[j].expression = cells[j].expression
                /\ cells'[j].owner = cells[j].owner /\ cells'[j].failed = cells[j].failed
                /\ cells'[j].poisoned = cells[j].poisoned
                /\ j # edit.index => cells'[j].primary = cells[j].primary
                /\ EditMarks(j) => cells'[j].stale
                /\ ~EditMarks(j) => cells'[j].stale = cells[j].stale
           /\ TextLength(cells'[edit.index], edit.secondary) = n
<1> DEFINE e == edit.index
           second == InSecondary(EditedCell, edit.secondary)
           d == IF second THEN [cells[e] EXCEPT !.secondary = n]
                ELSE [cells[e] EXCEPT !.primary = n]
<1>1. /\ Count \in 0 .. MaxCells /\ Places(cells) = 1 .. Count /\ DOMAIN cells = 1 .. Count
      /\ cells \in [1 .. Count -> Cells] /\ \A j \in 1 .. Count : cells[j] \in Cells
      /\ cells \in Cards /\ Sound(cells, nextExecution, context, 0)
  BY CardsAreFunctions, CapacityAssumption DEF Count, Places, NotebookInv
<1>2. /\ e \in 1 .. Count /\ IsSource(cells[e].kind)
      /\ edit \in [index : 0 .. MaxCells, secondary : BOOLEAN,
                   cursor : 0 .. TextCapacity + DetailCapacity]
  BY <1>1 DEF NotebookInv, Editable, Editing
<1>3. /\ second => n \in 0 .. DetailCapacity
      /\ ~second => n \in 0 .. TextCapacity - 1
      /\ cursor \in 0 .. TextCapacity + DetailCapacity
  <2>1. CASE second BY <2>1, CapacityAssumption DEF Capacity
  <2>2. CASE ~second BY <2>2, CapacityAssumption DEF Capacity
  <2> QED BY <2>1, <2>2
<1>4. /\ d \in Cells /\ d.kind = cells[e].kind /\ d.id = cells[e].id
      /\ d.execution = cells[e].execution /\ d.expression = cells[e].expression
      /\ d.owner = cells[e].owner /\ d.stale = cells[e].stale /\ d.failed = cells[e].failed
      /\ d.poisoned = cells[e].poisoned
      /\ TextLength(d, edit.secondary) = n
  <2> PICK c : c = cells[e]
    OBVIOUS
  <2> HIDE DEF e
  <2>0. c \in Cells /\ (second <=> c.kind = "markdown" /\ edit.secondary)
        /\ edit.secondary \in BOOLEAN /\ d = IF second THEN [c EXCEPT !.secondary = n]
                                                      ELSE [c EXCEPT !.primary = n]
    BY <1>1, <1>2 DEF InSecondary, EditedCell, e
  <2> HIDE DEF second, d
  <2>1. CASE second
    <3>1. d = [c EXCEPT !.secondary = n] /\ n \in 0 .. DetailCapacity /\ c.kind = "markdown"
          /\ edit.secondary
      BY <1>3, <2>0, <2>1
    <3>2. d \in Cells /\ d.secondary = n
      BY <2>0, <3>1 DEF Cells
    <3> QED BY <2>0, <3>1, <3>2 DEF Cells, TextLength, InSecondary
  <2>2. CASE ~second
    <3>1. d = [c EXCEPT !.primary = n] /\ n \in 0 .. TextCapacity - 1
          /\ ~(c.kind = "markdown" /\ edit.secondary)
      BY <1>3, <2>0, <2>2
    <3>2. d \in Cells /\ d.primary = n
      BY <2>0, <3>1 DEF Cells
    <3> QED BY <2>0, <3>1, <3>2 DEF Cells, TextLength, InSecondary
  <2> QED BY <2>1, <2>2
<1> DEFINE w == WithLength(n)
<1>5. /\ w \in [1 .. Count -> Cells] /\ DOMAIN w = 1 .. Count
      /\ \A j \in 1 .. Count : w[j] = IF j = e THEN d ELSE cells[j]
  <2>1. w = [cells EXCEPT ![e] = d]
    BY <1>1, <1>2 DEF WithLength, EditedCell
  <2> HIDE DEF d, w, e
  <2> QED BY <1>1, <1>2, <1>4, <2>1
<1> HIDE DEF d, w, second
<1>6. /\ cells' = SourceStale(w) /\ edit' = [edit EXCEPT !.cursor = cursor]
      /\ dirty' = TRUE /\ UNCHANGED <<selected, nextExecution, context, replay>>
  BY DEF EditText, w
<1>7. /\ \A j \in 1 .. Count :
           cells'[j] = IF EditMarks(j) THEN [w[j] EXCEPT !.stale = TRUE] ELSE w[j]
      /\ cells' \in [1 .. Count -> Cells]
  <2>1. cells' = [j \in 1 .. Count |-> IF EditMarks(j) THEN [w[j] EXCEPT !.stale = TRUE] ELSE w[j]]
    <3>1. w[e].kind = cells[e].kind BY <1>2, <1>4, <1>5
    <3>2. w = [j \in 1 .. Count |-> w[j]] BY <1>5
    <3>3. CASE cells[e].kind = "input" BY <1>5, <1>6, <3>1, <3>3 DEF SourceStale, EditMarks
    <3>4. CASE cells[e].kind # "input"
      <4>1. SourceStale(w) = w BY <3>1, <3>4 DEF SourceStale
      <4> QED BY <1>6, <3>2, <3>4, <4>1 DEF EditMarks
    <3> QED BY <3>3, <3>4
  <2>2. \A j \in 1 .. Count : [w[j] EXCEPT !.stale = TRUE] \in Cells
    <3> TAKE j \in 1 .. Count
    <3>1. w[j] \in Cells BY <1>5
    <3> QED BY <3>1 DEF Cells
  <2> QED BY <1>5, <2>1, <2>2
<1>8. \A j \in 1 .. Count :
         /\ cells'[j].kind = cells[j].kind /\ cells'[j].id = cells[j].id
         /\ cells'[j].execution = cells[j].execution
         /\ cells'[j].expression = cells[j].expression /\ cells'[j].owner = cells[j].owner
         /\ cells'[j].failed = cells[j].failed
         /\ cells'[j].poisoned = cells[j].poisoned
         /\ j # e => cells'[j].primary = cells[j].primary
         /\ EditMarks(j) => cells'[j].stale
         /\ ~EditMarks(j) => cells'[j].stale = cells[j].stale
  <2> TAKE j \in 1 .. Count
  <2>1. w[j] \in Cells /\ cells'[j] = IF EditMarks(j) THEN [w[j] EXCEPT !.stale = TRUE] ELSE w[j]
    BY <1>5, <1>7
  <2>2. /\ w[j].kind = cells[j].kind /\ w[j].id = cells[j].id
        /\ w[j].execution = cells[j].execution /\ w[j].expression = cells[j].expression
        /\ w[j].owner = cells[j].owner /\ w[j].failed = cells[j].failed
        /\ w[j].stale = cells[j].stale /\ w[j].poisoned = cells[j].poisoned
        /\ j # e => w[j].primary = cells[j].primary
    BY <1>4, <1>5
  <2> QED BY <2>1, <2>2 DEF Cells
<1>9. cells' \in Cards /\ Len(cells') = Count /\ Places(cells') = 1 .. Count
  BY <1>1, <1>7, CardsArePlaced DEF Places
<1>10. TextLength(cells'[e], edit.secondary) = n
  <2>1. w[e] = d BY <1>2, <1>5
  <2>2. TextLength([d EXCEPT !.stale = TRUE], edit.secondary) = TextLength(d, edit.secondary)
    BY <1>4 DEF TextLength, InSecondary, Cells
  <2>3. cells'[e] = [d EXCEPT !.stale = TRUE] \/ cells'[e] = d
    BY <1>2, <1>7, <2>1
  <2> QED BY <1>4, <2>2, <2>3
<1> QED BY <1>8, <1>9, <1>10

\* An edit keeps the inductive invariant: an edited input takes the output
\* under it along.
LEMMA EditTextKeeps ==
    ASSUME NotebookInv, Idle, Editing,
           NEW n, n \in 0 .. Capacity(EditedCell, edit.secondary) - 1,
           NEW cursor \in 0 .. n, EditText(n, cursor)
    PROVE  NotebookInv'
<1> DEFINE e == edit.index
<1>1. /\ Count \in 0 .. MaxCells /\ Places(cells) = 1 .. Count
      /\ cells \in Cards /\ Sound(cells, nextExecution, context, 0)
  BY CardsAreFunctions, CapacityAssumption DEF Count, Places, NotebookInv
<1>2. /\ e \in 1 .. Count /\ IsSource(cells[e].kind)
      /\ edit \in [index : 0 .. MaxCells, secondary : BOOLEAN,
                   cursor : 0 .. TextCapacity + DetailCapacity]
  BY <1>1 DEF NotebookInv, Editable, Editing
<1>3. cursor \in 0 .. TextCapacity + DetailCapacity /\ cursor <= n
  BY CapacityAssumption DEF Capacity
<1>4. /\ edit' = [edit EXCEPT !.cursor = cursor]
      /\ dirty' = TRUE /\ UNCHANGED <<selected, nextExecution, context, replay>>
  BY DEF EditText
<1>5. /\ cells' \in Cards /\ Len(cells') = Count /\ Places(cells') = 1 .. Count
      /\ \A j \in 1 .. Count :
           /\ cells'[j].kind = cells[j].kind
           /\ cells'[j].execution = cells[j].execution
           /\ cells'[j].expression = cells[j].expression /\ cells'[j].owner = cells[j].owner
           /\ cells'[j].failed = cells[j].failed
           /\ EditMarks(j) => cells'[j].stale
           /\ ~EditMarks(j) => cells'[j].stale = cells[j].stale
      /\ TextLength(cells'[e], edit.secondary) = n
  BY TextEdited DEF Places
<1>6. \A j \in 1 .. Count : IsOutput(cells[j].kind) =>
          j > 1 /\ j - 1 \in 1 .. Count /\ cells[j].owner = j - 1 /\ cells[j - 1].kind = "input"
  BY <1>1, CapacityAssumption DEF Sound, Shaped
<1>7. Sound(cells', nextExecution, context, 0)
  <2>1. Shaped(cells') BY <1>5, <1>6 DEF Shaped
  <2>2. Numbered(cells', nextExecution, 0)
    BY <1>1, <1>5, <1>6, SMTT(30) DEF Numbered, Sound
  <2>3. Given(cells', nextExecution) BY <1>1, <1>5 DEF Given, Sound
  <2>4. Living(cells', context) BY <1>1, <1>5 DEF Living, Sound
  <2>5. Told(cells', 0)
    <3> SUFFICES ASSUME NEW j \in 1 .. Count, IsOutput(cells[j].kind), cells'[j - 1].stale,
                        ~cells[j - 1].failed
                 PROVE  cells'[j].stale
      BY <1>5, <1>6 DEF Told
    <3>1. j > 1 /\ j - 1 \in 1 .. Count /\ cells[j].owner = j - 1 /\ cells[j - 1].kind = "input"
      BY <1>6
    <3>2. CASE j - 1 = e
      <4>1. HasOutput(e) /\ j = e + 1
        BY <1>1, <1>2, <3>1, <3>2, CapacityAssumption DEF HasOutput
      <4>2. EditMarks(j) BY <3>1, <3>2, <4>1 DEF EditMarks
      <4> QED BY <1>5, <4>2
    <3>3. CASE j - 1 # e
      <4>1. ~EditMarks(j - 1)
        <5> SUFFICES ASSUME j - 1 = e + 1, HasOutput(e) PROVE FALSE BY <3>3 DEF EditMarks
        <5> QED BY <3>1 DEF HasOutput, IsOutput
      <4>2. cells[j - 1].stale BY <1>5, <3>1, <4>1
      <4>3. cells[j].stale BY <1>1, <3>1, <4>2 DEF Sound, Told
      <4> QED BY <1>5, <4>3
    <3> QED BY <3>2, <3>3
  <2> QED BY <2>1, <2>2, <2>3, <2>4, <2>5 DEF Sound
<1>8. Editable(cells', selected, edit')
  <2>1. /\ edit' \in [index : 0 .. MaxCells, secondary : BOOLEAN,
                      cursor : 0 .. TextCapacity + DetailCapacity]
        /\ edit'.index = e /\ edit'.secondary = edit.secondary /\ edit'.cursor = cursor
    BY <1>2, <1>3, <1>4
  <2>3. IsSource(cells'[e].kind) BY <1>2, <1>5
  <2>5. selected \in 1 .. MaxCells + 1 /\ (selected <= Count \/ (Count = 0 /\ selected = 1))
    BY DEF NotebookInv, Editable, Count
  <2> HIDE DEF e
  <2> QED BY <1>2, <1>3, <1>5, <2>1, <2>3, <2>5 DEF Editable
<1> QED BY <1>1, <1>4, <1>5, <1>7, <1>8, CapacityAssumption DEF NotebookInv, Idle

\* Steps of the selection and the editor alone.
LEMMA EditorKeeps ==
    ASSUME NotebookInv, Idle, Editable(cells, selected', edit'),
           UNCHANGED <<cells, dirty, nextExecution, context, replay>>
    PROVE  NotebookInv'
BY DEF NotebookInv, Idle

\* Any card may be selected with the editor closed.
LEMMA NoEditIsEditable ==
    ASSUME NotebookInv, NEW i \in 1 .. Count
    PROVE  Editable(cells, i, NoEdit)
<1>1. Count \in 0 .. MaxCells BY CardsAreFunctions DEF NotebookInv, Count
<1> QED BY <1>1, CapacityAssumption DEF Editable, NoEdit, Count

\* No text is longer than the longer of the two buffers.
LEMMA TextsFit ==
    ASSUME NEW c \in Cells, NEW second
    PROVE  TextLength(c, second) \in 0 .. TextCapacity + DetailCapacity
BY CapacityAssumption DEF TextLength, InSecondary, Cells

\* An open editor is inside a text that fits its buffer.
LEMMA EditorInside ==
    ASSUME NotebookInv, Editing
    PROVE  /\ edit \in [index : 0 .. MaxCells, secondary : BOOLEAN,
                        cursor : 0 .. TextCapacity + DetailCapacity]
           /\ edit.index \in 1 .. Count /\ EditedCell \in Cells /\ IsSource(EditedCell.kind)
           /\ edit.cursor <= EditedLength /\ EditedLength \in 0 .. TextCapacity + DetailCapacity
           /\ EditedLength <= Capacity(EditedCell, edit.secondary)
<1>1. /\ Places(cells) = 1 .. Count /\ \A j \in 1 .. Count : cells[j] \in Cells
      /\ Editable(cells, selected, edit)
  BY CardsAreFunctions DEF Count, Places, NotebookInv
<1>2. /\ edit \in [index : 0 .. MaxCells, secondary : BOOLEAN,
                   cursor : 0 .. TextCapacity + DetailCapacity]
      /\ edit.index \in 1 .. Count /\ EditedCell \in Cells /\ IsSource(EditedCell.kind)
      /\ edit.cursor <= EditedLength
  BY <1>1 DEF Editable, Editing, EditedCell, EditedLength
<1>3. EditedLength \in 0 .. TextCapacity + DetailCapacity BY <1>2, TextsFit DEF EditedLength
<1>4. EditedLength <= Capacity(EditedCell, edit.secondary)
  BY <1>2, CapacityAssumption DEF EditedLength, Capacity, TextLength, InSecondary, Cells
<1> QED BY <1>2, <1>3, <1>4

\* An insertion leaves room for the NUL, a deletion takes what is there, and
\* the cursor ends inside the text.
LEMMA EditsFit ==
    ASSUME NotebookInv,
           \/ EditBackspace
           \/ \E length \in Lengths \cup Details : \E offset \in 0 .. length :
                 EditInsertText(length, offset)
    PROVE  /\ Idle /\ Editing
           /\ \E n \in 0 .. Capacity(EditedCell, edit.secondary) - 1 : \E cursor \in 0 .. n :
                 EditText(n, cursor)
<1>1. Idle /\ Editing BY DEF EditBackspace, EditInsertText
<1>2. /\ Capacity(EditedCell, edit.secondary) \in Nat /\ EditedLength \in Nat
      /\ edit.cursor \in Nat /\ edit.cursor <= EditedLength
      /\ EditedLength <= Capacity(EditedCell, edit.secondary)
  <2>1. Capacity(EditedCell, edit.secondary) \in Nat BY CapacityAssumption DEF Capacity
  <2> QED BY <1>1, <2>1, EditorInside, CapacityAssumption
<1>3. CASE EditBackspace
  <2>1. edit.cursor > 0 /\ EditText(EditedLength - 1, Lesser(edit.cursor, EditedLength) - 1)
    BY <1>3 DEF EditBackspace
  <2>2. /\ EditedLength - 1 \in 0 .. Capacity(EditedCell, edit.secondary) - 1
        /\ Lesser(edit.cursor, EditedLength) - 1 \in 0 .. EditedLength - 1
    BY <1>2, <2>1 DEF Lesser
  <2> QED BY <1>1, <2>1, <2>2
<1>4. ASSUME NEW length \in Lengths \cup Details, NEW offset \in 0 .. length,
             EditInsertText(length, offset)
      PROVE  \E n \in 0 .. Capacity(EditedCell, edit.secondary) - 1 : \E cursor \in 0 .. n :
                EditText(n, cursor)
  <2>1. /\ length \in Nat /\ length > 0
        /\ EditedLength + length < Capacity(EditedCell, edit.secondary)
        /\ EditText(EditedLength + length, edit.cursor + offset)
    BY <1>4, CapacityAssumption DEF EditInsertText, Lengths, Details
  <2>2. /\ EditedLength + length \in 0 .. Capacity(EditedCell, edit.secondary) - 1
        /\ edit.cursor + offset \in 0 .. EditedLength + length
    BY <1>2, <2>1
  <2> QED BY <2>1, <2>2
<1> QED BY <1>1, <1>3, <1>4

\* Evaluating a selected input, whatever becomes of the selection and editor.
LEMMA EvaluationStep ==
    ASSUME NotebookInv, NEW i, IsInput(i), NEW at, NEW ed, Editable(cells, at, ed),
           Evaluation(i, at, ed)
    PROVE  EvaluationKeeps(i, at, ed) /\ dirty' \in BOOLEAN
<1>1. cells \in Cards /\ context \in Contexts /\ nextExecution \in Nat \ {0}
      /\ Sound(cells, nextExecution, context, 0) /\ dirty \in BOOLEAN
  BY DEF NotebookInv
<1>2. CASE EvaluationRefused(i, at, ed)
  <2>1. dirty' = dirty BY <1>2 DEF EvaluationRefused
  <2> QED BY <1>1, <1>2, <2>1, RefusalKeeps
<1>3. CASE EvaluationRun(i, at, ed)
  <2>1. dirty' = TRUE BY <1>3 DEF EvaluationRun
  <2> QED BY <1>1, <1>3, <2>1, RunKeeps
<1> QED BY <1>2, <1>3 DEF Evaluation

\* Every operation keeps the inductive invariant.
LEMMA NotebookInvStep ==
    ASSUME NotebookInv, [NotebookNext]_notebookVars
    PROVE  NotebookInv'
<1>a. /\ Count \in 0 .. MaxCells /\ Places(cells) = 1 .. Count /\ Len(cells) = Count
      /\ \A j \in 1 .. Count : cells[j] \in Cells
      /\ Editable(cells, selected, edit)
  BY CardsAreFunctions, CapacityAssumption DEF Count, Places, NotebookInv
<1>b. ASSUME Idle, NEW i, IsInput(i), NEW at, NEW ed, Editable(cells, at, ed),
             Evaluation(i, at, ed), UNCHANGED replay
      PROVE  NotebookInv'
  BY <1>b, EvaluationStep, CapacityAssumption, CardsAreFunctions
     DEF EvaluationKeeps, NotebookInv, Idle
<1>c. Editing =>
        /\ edit \in [index : 0 .. MaxCells, secondary : BOOLEAN,
                    cursor : 0 .. TextCapacity + DetailCapacity]
        /\ edit.index \in 1 .. Count /\ EditedCell \in Cells /\ IsSource(EditedCell.kind)
        /\ edit.cursor <= EditedLength /\ EditedLength \in 0 .. TextCapacity + DetailCapacity
  BY EditorInside
\* A cursor inside the text it was in.
<1>d. ASSUME Idle, Editing, NEW second \in BOOLEAN,
             second => EditedCell.kind = "markdown" \/ edit.secondary,
             NEW to \in 0 .. TextLength(EditedCell, second),
             edit' = [index |-> edit.index, secondary |-> second, cursor |-> to],
             UNCHANGED <<cells, selected, dirty, nextExecution, context, replay>>
      PROVE  NotebookInv'
  <2>1. to \in 0 .. TextCapacity + DetailCapacity /\ to <= TextLength(EditedCell, second)
    BY <1>c, <1>d, TextsFit, CapacityAssumption
  <2>2. Editable(cells, selected', edit')
    BY <1>a, <1>c, <1>d, <2>1 DEF Editable, EditedCell
  <2> QED BY <1>d, <2>2, EditorKeeps
<1>1. ASSUME NEW heading \in Lengths, NEW body \in Details, AddMarkdown(heading, body)
      PROVE  NotebookInv'
  <2>1. body \in 0 .. DetailCapacity BY CapacityAssumption DEF Details
  <2> QED BY <1>1, <2>1, AppendKeeps DEF AddMarkdown, Lengths
<1>2. ASSUME NEW source \in Lengths, AddInput(source) PROVE NotebookInv'
  <2>1. 0 \in 0 .. DetailCapacity BY CapacityAssumption
  <2> QED BY <1>2, <2>1, AppendKeeps DEF AddInput, Lengths
<1>3. ASSUME NEW kind \in {"markdown", "input"}, InsertAt(kind) PROVE NotebookInv'
  BY <1>3, InsertAtKeeps
<1>4. ASSUME NEW i, Evaluate(i) PROVE NotebookInv'
  BY <1>4, <1>a, <1>b DEF Evaluate
<1>5. ASSUME NEW i, RunAt(i) PROVE NotebookInv'
  <2>1. Editable(cells, i, NoEdit) BY <1>5, NoEditIsEditable DEF RunAt, IsInput
  <2> QED BY <1>5, <1>b, <2>1 DEF RunAt
<1>6. ASSUME ActivateSelected PROVE NotebookInv'
  <2>1. Editable(cells, selected, NoEdit) BY <1>6, NoEditIsEditable DEF ActivateSelected, IsInput
  <2> QED BY <1>6, <1>b, <2>1 DEF ActivateSelected
<1>7. ASSUME NEW i, Select(i) PROVE NotebookInv'
  BY <1>7, NoEditIsEditable, EditorKeeps DEF Select
<1>8. ASSUME NEW forward \in BOOLEAN, SelectNext(forward) PROVE NotebookInv'
  <2>1. Count > 0 /\ selected \in 1 .. Count
    BY <1>8, <1>a, CapacityAssumption DEF SelectNext, Editable
  <2>2. (selected % Count) + 1 \in 1 .. Count BY <1>a, <2>1, CapacityAssumption
  <2>3. selected' \in 1 .. Count /\ edit' = NoEdit
    BY <1>8, <1>a, <2>1, <2>2, CapacityAssumption DEF SelectNext
  <2>4. Editable(cells, selected', edit') BY <2>3, NoEditIsEditable
  <2> QED BY <1>8, <2>4, EditorKeeps DEF SelectNext
<1>9. ASSUME NEW i, NEW second \in BOOLEAN, NEW cursor, BeginEditAt(i, second, cursor)
      PROVE  NotebookInv'
  <2>1. i \in 1 .. Count /\ cells[i] \in Cells /\ cursor \in 0 .. TextLength(cells[i], second)
    BY <1>9, <1>a DEF BeginEditAt
  <2>2. cursor \in 0 .. TextCapacity + DetailCapacity /\ cursor <= TextLength(cells[i], second)
    BY <2>1, TextsFit, CapacityAssumption
  <2>3. Editable(cells, selected', edit')
    BY <1>9, <1>a, <2>1, <2>2, CapacityAssumption DEF BeginEditAt, Editable
  <2> QED BY <1>9, <2>3, EditorKeeps DEF BeginEditAt
<1>10. ASSUME BeginEditSelected PROVE NotebookInv'
  <2>1. selected \in 1 .. Count /\ cells[selected] \in Cells
    BY <1>10, <1>a, CapacityAssumption DEF BeginEditSelected, Editable
  <2>2. cells[selected].primary \in 0 .. TextCapacity + DetailCapacity
        /\ cells[selected].primary <= TextLength(cells[selected], FALSE)
    BY <2>1, CapacityAssumption DEF Cells, TextLength, InSecondary
  <2>3. Editable(cells, selected', edit')
    <3>1. /\ IsSource(cells[selected].kind) /\ selected' = selected
          /\ edit' = [index |-> selected, secondary |-> FALSE, cursor |-> cells[selected].primary]
      BY <1>10 DEF BeginEditSelected
    <3>2. selected \in 0 .. MaxCells /\ selected \in 1 .. MaxCells + 1 /\ selected <= Len(cells)
      BY <1>a, <2>1, CapacityAssumption
    <3> QED BY <1>a, <2>1, <2>2, <3>1, <3>2 DEF Editable
  <2> QED BY <1>10, <2>3, EditorKeeps DEF BeginEditSelected
<1>11. ASSUME EndEdit PROVE NotebookInv'
  <2>1. Editable(cells, selected, NoEdit)
    BY <1>a, CapacityAssumption DEF Editable, NoEdit
  <2> QED BY <1>11, <2>1, EditorKeeps DEF EndEdit
<1>12. ASSUME NEW length \in Lengths \cup Details, NEW offset \in 0 .. length,
              EditInsertText(length, offset)
       PROVE  NotebookInv'
  BY <1>12, EditsFit, EditTextKeeps
<1>13. ASSUME EditBackspace PROVE NotebookInv'
  BY <1>13, EditsFit, EditTextKeeps
<1>14. ASSUME NEW forward \in BOOLEAN, EditMove(forward) PROVE NotebookInv'
  <2>1. Idle /\ Editing BY <1>14 DEF EditMove
  <2>2. edit.cursor \in Nat /\ EditedLength \in Nat /\ edit.cursor <= EditedLength
    BY <1>c, <2>1, CapacityAssumption
  <2>3. PICK to \in 0 .. EditedLength : MoveCursor(to)
    BY <1>14, <2>2 DEF EditMove
  <2>4. edit' = [index |-> edit.index, secondary |-> edit.secondary, cursor |-> to]
    BY <1>c, <2>1, <2>3 DEF MoveCursor
  <2> QED BY <1>c, <1>d, <2>1, <2>3, <2>4 DEF MoveCursor, EditedLength
<1>15. ASSUME NEW forward \in BOOLEAN, EditMoveLine(forward) PROVE NotebookInv'
  <2>1. Idle /\ Editing BY <1>15 DEF EditMoveLine
  <2>2. edit.cursor \in Nat /\ EditedLength \in Nat /\ edit.cursor <= EditedLength
    BY <1>c, <2>1, CapacityAssumption
  <2>3. PICK to \in 0 .. EditedLength : MoveCursor(to)
    BY <1>15, <2>2, CapacityAssumption DEF EditMoveLine, Lesser
  <2>4. edit' = [index |-> edit.index, secondary |-> edit.secondary, cursor |-> to]
    BY <1>c, <2>1, <2>3 DEF MoveCursor
  <2> QED BY <1>c, <1>d, <2>1, <2>3, <2>4 DEF MoveCursor, EditedLength
<1>16. ASSUME EditSwitchField PROVE NotebookInv'
  <2>1. /\ Idle /\ Editing /\ EditedCell.kind = "markdown"
        /\ UNCHANGED <<cells, selected, dirty, nextExecution, context, replay>>
        /\ edit' = [edit EXCEPT !.secondary = ~@,
                                !.cursor = TextLength(EditedCell, ~edit.secondary)]
    BY <1>16 DEF EditSwitchField
  <2> DEFINE second == ~edit.secondary
             to == TextLength(EditedCell, second)
  <2>2. second \in BOOLEAN /\ to \in 0 .. to
    BY <1>c, <2>1, TextsFit
  <2>3. edit' = [index |-> edit.index, secondary |-> second, cursor |-> to]
    BY <1>c, <2>1
  <2> QED BY <1>d, <2>1, <2>2, <2>3
<1>17. ASSUME EvaluateAll PROVE NotebookInv'
  <2>1. Fresh(cells, 1) BY <1>a DEF Fresh
  <2> QED BY <1>17, <1>a, <2>1, CapacityAssumption DEF EvaluateAll, NotebookInv
<1>18. ASSUME ReplaySkips PROVE NotebookInv'
  <2>1. Fresh(cells, replay + 1)
    BY <1>18, <1>a, CapacityAssumption DEF ReplaySkips, NotebookInv, Fresh
  <2> QED BY <1>18, <1>a, <2>1, CapacityAssumption DEF ReplaySkips, NotebookInv
<1>19. ASSUME ReplayRuns PROVE NotebookInv'
  <2>1. /\ IsInput(replay) /\ ~cells[replay].poisoned /\ replay # 0 /\ replay \in 1 .. Count
        /\ replay' = IF context' # context THEN 1 ELSE replay + 1
        /\ EvaluationKeeps(replay, selected, edit) /\ dirty' \in BOOLEAN
    BY <1>19, <1>a, EvaluationStep DEF ReplayRuns, IsInput
  <2>2. Fresh(cells, replay) BY <2>1 DEF NotebookInv
  <2>3. Fresh(cells', 1)
    <3>1. \A j \in Places(cells') : ~(j < 1) BY <2>1, CardsAreFunctions DEF EvaluationKeeps, Places
    <3> QED BY <3>1 DEF Fresh
  <2>4. Len(cells') \in Nat /\ Len(cells') >= Count
    BY <1>a, <2>1, CardsAreFunctions, CapacityAssumption DEF EvaluationKeeps
  <2>5. replay' \in 0 .. Len(cells') + 1 BY <1>a, <2>1, <2>4, CapacityAssumption
  <2>6. Fresh(cells', replay') BY <2>1, <2>2, <2>3 DEF EvaluationKeeps
  <2> QED BY <2>1, <2>5, <2>6 DEF EvaluationKeeps, NotebookInv
<1>20. ASSUME ReplayEnds PROVE NotebookInv'
  BY <1>20, <1>a, CapacityAssumption DEF ReplayEnds, NotebookInv
<1>21. ASSUME UNCHANGED notebookVars PROVE NotebookInv'
  BY <1>21 DEF notebookVars, NotebookInv
<1> QED
  BY <1>1, <1>2, <1>3, <1>4, <1>5, <1>6, <1>7, <1>8, <1>9, <1>10, <1>11, <1>12, <1>13,
     <1>14, <1>15, <1>16, <1>17, <1>18, <1>19, <1>20, <1>21
     DEF NotebookNext, Build, Run, Navigate, EditStep, Replay

\* The inductive invariant holds of every notebook (all of
\* src/notebook/notebook.c that is modelled).
THEOREM NotebookInductive == NotebookSpec => []NotebookInv
<1>1. NotebookInv /\ [NotebookNext]_notebookVars => NotebookInv' BY NotebookInvStep
<1> QED BY NotebookInvInit, <1>1, PTL DEF NotebookSpec

\* The type invariant of the notebook: no cell array, text, index or counter of
\* phy_notebook leaves its bounds, next_execution included.
THEOREM NotebookTypeCorrect == NotebookSpec => []NotebookTypeOK
<1>1. NotebookInv => NotebookTypeOK BY NotebookInvMeans
<1> QED BY <1>1, NotebookInductive, PTL

\* Outputs stay under their inputs, the editor stays inside an editable text,
\* and execution numbers pair up, whatever insert_cell and
\* phy_notebook_evaluate do in between.
THEOREM CardsStayTogether == NotebookSpec => []CardsHoldTogether
<1>1. NotebookInv => CardsHoldTogether BY NotebookInvMeans
<1> QED BY <1>1, NotebookInductive, PTL

\* Every expression shown is of the context that is alive, rebuild_context
\* included, and no edited source that worked has a result that looks current.
THEOREM OnlyNowShows == NotebookSpec => []NothingOutdatedShows
<1>1. NotebookInv => NothingOutdatedShows BY NotebookInvMeans
<1> QED BY <1>1, NotebookInductive, PTL

\* Run all is one call: while it runs nothing else does.
LEMMA OnlyReplayRuns ==
    ASSUME NotebookNext, replay # 0
    PROVE  Replay
BY DEF NotebookNext, Build, AddMarkdown, AddInput, InsertAt, Run, Evaluate, RunAt,
       ActivateSelected, Navigate, Select, SelectNext, BeginEditAt, BeginEditSelected, EndEdit,
       EditStep, EditInsertText, EditBackspace, EditMove, EditMoveLine, EditSwitchField,
       EvaluateAll, Idle

\* A turn of the loop in evaluate_all leaves the selection and the editor at
\* the cards they were at.
LEMMA ReplayKeepsPlace ==
    ASSUME NotebookInv, Replay
    PROVE  SelectedId' = SelectedId /\ EditedId' = EditedId
<1>1. CASE ReplaySkips BY <1>1 DEF ReplaySkips, SelectedId, EditedId, IdOf, Count
<1>2. CASE ReplayEnds BY <1>2 DEF ReplayEnds, SelectedId, EditedId, IdOf, Count
<1>3. CASE ReplayRuns
  <2>1. Count \in 0 .. MaxCells /\ Places(cells) = 1 .. Count /\ Editable(cells, selected, edit)
    BY CardsAreFunctions DEF Count, Places, NotebookInv
  <2>2. IsInput(replay) /\ replay \in 1 .. Count /\ EvaluationKeeps(replay, selected, edit)
    BY <1>3, <2>1, EvaluationStep DEF ReplayRuns, IsInput
  <2>3. selected \in 1 .. Count
    BY <2>1, <2>2, CapacityAssumption DEF Editable, Count
  <2>4. SamePlaceCard(cells, selected, cells', selected')
    BY <2>1, <2>2, <2>3 DEF EvaluationKeeps
  <2>5. SelectedId' = SelectedId
    BY <2>1, <2>3, <2>4 DEF SamePlaceCard, SelectedId, IdOf, Count, Places
  <2>6. CASE edit # NoEdit
    <3>1. edit.index \in 1 .. Count /\ SamePlaceCard(cells, edit.index, cells', edit'.index)
      BY <2>1, <2>2, <2>6 DEF EvaluationKeeps, Editable
    <3> QED BY <2>5, <3>1 DEF SamePlaceCard, EditedId, IdOf, Count, Places
  <2>7. CASE edit = NoEdit
    <3>1. edit' = edit BY <2>2, <2>7 DEF EvaluationKeeps
    <3>2. edit.index = 0 /\ edit'.index = 0 BY <2>7, <3>1 DEF NoEdit
    <3> QED BY <2>5, <3>2 DEF EditedId, IdOf
  <2> QED BY <2>6, <2>7
<1> QED BY <1>1, <1>2, <1>3 DEF Replay

\* phy_notebook_evaluate_all moves neither the selection nor the editor to
\* another card, however many output cards it inserts above them.
THEOREM RunAllMovesNothing == NotebookSpec => RunAllKeepsTheUsersPlace
<1>1. NotebookInv /\ [NotebookNext]_notebookVars
      => [replay # 0 => SelectedId' = SelectedId /\ EditedId' = EditedId]_notebookVars
  BY OnlyReplayRuns, ReplayKeepsPlace
<1> QED
  BY <1>1, NotebookInductive, PTL DEF NotebookSpec, RunAllKeepsTheUsersPlace

\* The loop ends past the last card, with everything above it fresh.
LEMMA ReplayEndsFresh ==
    ASSUME NotebookInv, NotebookNext, replay # 0, replay' = 0,
           NEW i \in 1 .. Count, cells[i].kind = "input", ~cells[i].poisoned, HasOutput(i)
    PROVE  ~cells[i].stale /\ ~cells[i + 1].stale
<1>1. Count \in 0 .. MaxCells /\ Places(cells) = 1 .. Count
  BY CardsAreFunctions DEF Count, Places, NotebookInv
<1>2. replay \in Nat /\ Fresh(cells, replay) BY <1>1, CapacityAssumption DEF NotebookInv, Count
<1>3. replay = Count + 1
  BY <1>2, OnlyReplayRuns DEF Replay, ReplaySkips, ReplayRuns, ReplayEnds
<1>4. i < replay /\ i + 1 \in 1 .. Count /\ IsOutput(cells[i + 1].kind)
  BY <1>1, <1>3, CapacityAssumption DEF HasOutput
<1> QED BY <1>1, <1>2, <1>4 DEF Fresh

\* When phy_notebook_evaluate_all returns, every input out of quarantine with
\* an output has a result of this replay, whatever contexts were rebuilt on the
\* way.
THEOREM ReplayFreshens == NotebookSpec => ReplayLeavesItFresh
<1>1. NotebookInv /\ [NotebookNext]_notebookVars
      => [replay # 0 /\ replay' = 0
          => \A i \in 1 .. Count :
               cells[i].kind = "input" /\ ~cells[i].poisoned /\ HasOutput(i)
                  => ~cells[i].stale /\ ~cells[i + 1].stale]_notebookVars
  BY ReplayEndsFresh
<1> QED
  BY <1>1, NotebookInductive, PTL DEF NotebookSpec, ReplayLeavesItFresh

----------------------------------------------------------------------------
(* The stored document *)

\* What a document can hold of a card.
Records ==
    [kind : {"markdown", "input", "output", "error"}, stale : BOOLEAN, failed : BOOLEAN,
     execution : 0 .. MaxCells, owner : 0 .. MaxCells, primary : 0 .. TextCapacity - 1,
     secondary : 0 .. DetailCapacity, tree : BOOLEAN]

\* What every stored document satisfies, and so every load starts from.
Stored(rs, next) ==
    /\ rs \in Seq(Records) /\ Len(rs) <= MaxCells /\ next \in Nat \ {0}
    /\ Numbered(rs, next, 0) /\ Given(rs, next) /\ Told(rs, 0) /\ Shaped(rs)
    /\ \A i \in Places(rs) : rs[i].kind = "input" => ~rs[i].tree

\* The inductive invariant of the notebook with its document.
DocumentInv ==
    /\ NotebookInv
    /\ document = [records |-> document.records, next |-> document.next]
    /\ Stored(document.records, document.next)
    /\ CleanMeansSaved

\* write_record_header keeps what the checks of a load look at.
LEMMA RecordIsARecord ==
    ASSUME NEW c \in Cells
    PROVE  LET r == Record(c)
           IN  /\ r \in Records /\ r.kind = c.kind /\ r.stale = c.stale /\ r.failed = c.failed
               /\ r.execution = c.execution /\ r.owner = c.owner
               /\ r.kind = "input" => ~r.tree
BY CapacityAssumption DEF Record, Records, Cells

\* What is stored of sound cells is sound.
LEMMA SavingStores ==
    ASSUME NotebookInv
    PROVE  /\ Stored(Document.records, Document.next)
           /\ Document = [records |-> Document.records, next |-> Document.next]
           /\ Len(Document.records) = Count /\ Document.next = nextExecution
           /\ \A i \in 1 .. Count : Document.records[i] = Record(cells[i])
<1> DEFINE rs == [i \in 1 .. Count |-> Record(cells[i])]
<1>1. /\ Count \in 0 .. MaxCells /\ Count \in Nat /\ Places(cells) = 1 .. Count
      /\ \A j \in 1 .. Count : cells[j] \in Cells
      /\ Sound(cells, nextExecution, context, 0) /\ nextExecution \in Nat \ {0}
  BY CardsAreFunctions, CapacityAssumption DEF Count, Places, NotebookInv
<1>2. Document.records = rs /\ Document.next = nextExecution BY DEF Document
<1>3. \A i \in 1 .. Count : rs[i] = Record(cells[i]) OBVIOUS
<1>4. \A i \in 1 .. Count :
         /\ rs[i] \in Records /\ rs[i].kind = cells[i].kind /\ rs[i].stale = cells[i].stale
         /\ rs[i].failed = cells[i].failed /\ rs[i].execution = cells[i].execution
         /\ rs[i].owner = cells[i].owner /\ (rs[i].kind = "input" => ~rs[i].tree)
  BY <1>1, <1>3, RecordIsARecord
<1>5. rs \in [1 .. Count -> Records] BY <1>4
<1> HIDE DEF rs
<1>6. rs \in Seq(Records) /\ Len(rs) = Count BY <1>1, <1>5, FunctionsAreSequences
<1>7. Len(rs) = Count BY <1>6
<1>8. Places(rs) = 1 .. Count BY <1>7 DEF Places
<1>9. \A j \in 1 .. Count : IsOutput(cells[j].kind) =>
         j > 1 /\ j - 1 \in 1 .. Count /\ cells[j].owner = j - 1 /\ cells[j - 1].kind = "input"
  BY <1>1, CapacityAssumption DEF Sound, Shaped
<1>10. Shaped(rs) BY <1>4, <1>8, <1>9 DEF Shaped
<1>11. Numbered(rs, nextExecution, 0) BY <1>1, <1>4, <1>8, <1>9 DEF Sound, Numbered
<1>12. Given(rs, nextExecution) BY <1>1, <1>4, <1>8 DEF Sound, Given
<1>13. Told(rs, 0) BY <1>1, <1>4, <1>8, <1>9 DEF Sound, Told
<1>14. Stored(rs, nextExecution)
  BY <1>1, <1>4, <1>6, <1>7, <1>8, <1>10, <1>11, <1>12, <1>13, CapacityAssumption DEF Stored
<1>15. Document = [records |-> Document.records, next |-> Document.next] BY DEF Document
<1> QED BY <1>2, <1>3, <1>7, <1>14, <1>15

\* A new notebook is saved as it is.
LEMMA DocumentInvInit == DocumentInit => DocumentInv
<1> SUFFICES ASSUME DocumentInit PROVE DocumentInv OBVIOUS
<1>1. NotebookInv /\ document = Document BY NotebookInvInit DEF DocumentInit
<1>2. CleanMeansSaved BY <1>1, SavingStores DEF CleanMeansSaved
<1> QED BY <1>1, <1>2, SavingStores DEF DocumentInv

\* A save stores the cells, and clears dirty.
LEMMA SaveStep ==
    ASSUME DocumentInv, SaveDocument
    PROVE  DocumentInv'
<1>1. NotebookInv /\ document' = Document BY DEF DocumentInv, SaveDocument
<1>2. NotebookInv' BY <1>1 DEF SaveDocument, NotebookInv
<1>3. /\ Stored(document'.records, document'.next)
      /\ document' = [records |-> document'.records, next |-> document'.next]
  BY <1>1, SavingStores
<1>4. CleanMeansSaved'
  BY <1>1, SavingStores DEF CleanMeansSaved, SaveDocument, Count
<1> QED BY <1>2, <1>3, <1>4 DEF DocumentInv

\* What a load makes of a card whose text it cannot read.
LEMMA DegradedCell ==
    ASSUME NEW c \in Cells, NEW d,
           d = [c EXCEPT !.expression = NullRef, !.failed = TRUE, !.stale = TRUE]
    PROVE  d = CardOf(c.id, c.kind, c.primary, c.secondary, NullRef, TRUE,
                      c.execution, c.owner, TRUE, c.poisoned)
BY DEF Cells, CardOf

\* What a load makes of a record.
LEMMA LoadedCell ==
    ASSUME NEW r, NEW i, r[i] \in Records, i \in 1 .. MaxCells, NEW degraded,
           context \in Contexts, r[i].kind = "input" => ~r[i].tree
    PROVE  LET c == Loaded(r, i, degraded)
           IN  /\ c \in Cells
               /\ c.kind = r[i].kind /\ c.execution = r[i].execution /\ c.owner = r[i].owner
               /\ c.expression \in {NullRef, NextContext} /\ ~c.poisoned
               /\ c.stale = (r[i].stale \/ i \in degraded)
               /\ c.failed = (r[i].failed \/ i \in degraded)
               /\ i \notin degraded => r[i] = Record(c)
               /\ i \in degraded => SameText(r[i], Record(c)) /\ ~Record(c).tree
               /\ Record(c).stale = c.stale /\ Record(c).failed = c.failed
<1> DEFINE x == IF HasText(r[i]) THEN NextContext ELSE NullRef
           c0 == CardOf(i, r[i].kind, r[i].primary, r[i].secondary, x, r[i].failed,
                        r[i].execution, r[i].owner, r[i].stale, FALSE)
           c1 == CardOf(i, r[i].kind, r[i].primary, r[i].secondary, NullRef, TRUE,
                        r[i].execution, r[i].owner, TRUE, FALSE)
<1>1. x \in {NullRef, NextContext} /\ NextContext \in Contexts /\ NextContext # NullRef
      /\ (x # NullRef <=> HasText(r[i]))
  BY DEF NextContext, Contexts, NullRef
<1>3. c0 \in Cells /\ c1 \in Cells
  <2> HIDE DEF x
  <2> QED BY <1>1, CapacityAssumption DEF CardOf, Cells, Records, NullRef
<1>2. Loaded(r, i, degraded) = IF i \in degraded THEN c1 ELSE c0
  <2>1. Loaded(r, i, degraded) =
          IF i \in degraded
          THEN [c0 EXCEPT !.expression = NullRef, !.failed = TRUE, !.stale = TRUE]
          ELSE c0
    BY DEF Loaded, CardOf
  <2>2. [c0 EXCEPT !.expression = NullRef, !.failed = TRUE, !.stale = TRUE]
          = CardOf(c0.id, c0.kind, c0.primary, c0.secondary, NullRef, TRUE,
                   c0.execution, c0.owner, TRUE, c0.poisoned)
    <3>1. c0 \in Cells BY <1>3
    <3> HIDE DEF c0
    <3> QED BY <3>1, DegradedCell
  <2>3. CardOf(c0.id, c0.kind, c0.primary, c0.secondary, NullRef, TRUE,
               c0.execution, c0.owner, TRUE, c0.poisoned) = c1
    BY DEF CardOf
  <2> QED BY <2>1, <2>2, <2>3
<1>4. r[i] = Record(c0)
  <2>1. (r[i].kind # "input" /\ x # NullRef) = r[i].tree
    <3>1. r[i].tree \in BOOLEAN BY DEF Records
    <3>2. CASE r[i].kind = "input" BY <3>1, <3>2
    <3>3. CASE r[i].kind # "input" BY <1>1, <3>1, <3>3 DEF HasText
    <3> QED BY <3>2, <3>3
  <2>2. Record(c0) = [kind |-> r[i].kind, stale |-> r[i].stale, failed |-> r[i].failed,
                      execution |-> r[i].execution, owner |-> r[i].owner,
                      primary |-> r[i].primary, secondary |-> r[i].secondary,
                      tree |-> r[i].kind # "input" /\ x # NullRef]
    BY DEF CardOf, Record
  <2> HIDE DEF x, c0
  <2> QED BY <2>1, <2>2 DEF Records
<1>5. SameText(r[i], Record(c1)) /\ ~Record(c1).tree
  BY DEF CardOf, Record, SameText
<1>6. CASE i \in degraded
  <2>1. Loaded(r, i, degraded) = c1 BY <1>2, <1>6
  <2>2. /\ c1.kind = r[i].kind /\ c1.execution = r[i].execution /\ c1.owner = r[i].owner
        /\ c1.expression = NullRef /\ ~c1.poisoned /\ c1.stale = TRUE /\ c1.failed = TRUE
        /\ Record(c1).stale = c1.stale /\ Record(c1).failed = c1.failed
    BY DEF CardOf, Record
  <2>3. r[i].stale \in BOOLEAN /\ r[i].failed \in BOOLEAN BY DEF Records
  <2> HIDE DEF c1
  <2> QED BY <1>3, <1>5, <1>6, <2>1, <2>2, <2>3
<1>7. CASE i \notin degraded
  <2>1. Loaded(r, i, degraded) = c0 BY <1>2, <1>7
  <2>2. /\ c0.kind = r[i].kind /\ c0.execution = r[i].execution /\ c0.owner = r[i].owner
        /\ c0.expression = x /\ ~c0.poisoned /\ c0.stale = r[i].stale /\ c0.failed = r[i].failed
        /\ Record(c0).stale = c0.stale /\ Record(c0).failed = c0.failed
    BY DEF CardOf, Record
  <2>3. r[i].stale \in BOOLEAN /\ r[i].failed \in BOOLEAN BY DEF Records
  <2> HIDE DEF x, c0
  <2> QED BY <1>1, <1>3, <1>4, <1>7, <2>1, <2>2, <2>3
<1> QED BY <1>6, <1>7

\* A load makes a sound notebook of the records, whichever texts it cannot
\* read: a source it cannot read has failed, so that it owes nothing to the
\* output under it.
LEMMA LoadStep ==
    ASSUME DocumentInv, Load
    PROVE  DocumentInv'
<1> DEFINE r == document.records
<1>1. /\ r \in Seq(Records) /\ Len(r) <= MaxCells /\ document.next \in Nat \ {0}
      /\ Numbered(r, document.next, 0) /\ Given(r, document.next) /\ Told(r, 0) /\ Shaped(r)
      /\ \A i \in Places(r) : r[i].kind = "input" => ~r[i].tree
      /\ context \in Contexts
  BY DEF DocumentInv, Stored, NotebookInv
<1> HIDE DEF r
<1>2. /\ Len(r) \in 0 .. MaxCells /\ DOMAIN r = Places(r)
      /\ \A i \in Places(r) : r[i] \in Records /\ i \in 1 .. MaxCells
  <2>1. Len(r) \in Nat /\ r \in [1 .. Len(r) -> Records] BY <1>1, LenProperties
  <2> QED BY <1>1, <2>1, CapacityAssumption DEF Places
<1>3. PICK degraded \in SUBSET {i \in DOMAIN r : HasText(r[i])} :
         cells' = [i \in DOMAIN r |-> Loaded(r, i, degraded)]
  BY DEF Load, r
<1>4. /\ nextExecution' = document.next /\ context' = NextContext /\ selected' = 1
      /\ edit' = NoEdit /\ dirty' = FALSE /\ replay = 0 /\ replay' = 0 /\ document' = document
  BY DEF Load, Idle
<1>5. \A i \in Places(r) :
         /\ cells'[i] \in Cells /\ cells'[i].kind = r[i].kind
         /\ cells'[i].execution = r[i].execution /\ cells'[i].owner = r[i].owner
         /\ cells'[i].expression \in {NullRef, NextContext}
         /\ cells'[i].stale = (r[i].stale \/ i \in degraded)
         /\ cells'[i].failed = (r[i].failed \/ i \in degraded)
         /\ i \notin degraded => r[i] = Record(cells'[i])
         /\ i \in degraded => SameText(r[i], Record(cells'[i])) /\ ~Record(cells'[i]).tree
         /\ Record(cells'[i]).stale = cells'[i].stale
         /\ Record(cells'[i]).failed = cells'[i].failed
  <2> TAKE i \in Places(r)
  <2>1. cells'[i] = Loaded(r, i, degraded) BY <1>2, <1>3
  <2> QED BY <1>1, <1>2, <2>1, LoadedCell
<1>6. cells' \in Cards /\ Len(cells') = Len(r) /\ Places(cells') = Places(r)
  <2>1. cells' \in [1 .. Len(r) -> Cells] BY <1>2, <1>3, <1>5 DEF Places
  <2> QED BY <1>2, <2>1, CardsArePlaced DEF Places
<1>7. \A i \in Places(r) : IsOutput(r[i].kind) =>
          i > 1 /\ i - 1 \in Places(r) /\ r[i].owner = i - 1 /\ r[i - 1].kind = "input"
  BY <1>1, <1>2, CapacityAssumption DEF Shaped, Places
<1>8. Sound(cells', document.next, NextContext, 0)
  <2>1. Shaped(cells') BY <1>5, <1>6, <1>7 DEF Shaped
  <2>2. Numbered(cells', document.next, 0) BY <1>1, <1>5, <1>6, <1>7 DEF Numbered
  <2>3. Given(cells', document.next) BY <1>1, <1>5, <1>6 DEF Given
  <2>4. Living(cells', NextContext) BY <1>5, <1>6 DEF Living
  <2>5. Told(cells', 0)
    <3> SUFFICES ASSUME NEW i \in Places(r), IsOutput(r[i].kind), cells'[i - 1].stale,
                        ~cells'[i - 1].failed
                 PROVE  cells'[i].stale
      BY <1>5, <1>6 DEF Told
    <3>1. i - 1 \in Places(r) /\ i # 0 BY <1>2, <1>7, CapacityAssumption DEF Places
    <3>2. i - 1 \notin degraded /\ r[i - 1].stale /\ ~r[i - 1].failed BY <1>5, <3>1
    <3>3. r[i].stale BY <1>1, <3>1, <3>2 DEF Told
    <3> QED BY <1>5, <3>3
  <2> QED BY <2>1, <2>2, <2>3, <2>4, <2>5 DEF Sound
<1>9. Editable(cells', 1, NoEdit)
  BY <1>2, <1>6, CapacityAssumption DEF Editable, NoEdit
<1>10. NotebookInv'
  <2>1. NextContext \in Contexts BY <1>1 DEF NextContext, Contexts
  <2>2. 0 \in 0 .. Len(cells') + 1
    <3>1. Len(cells') \in Nat BY <1>2, <1>6, CapacityAssumption
    <3> QED BY <3>1
  <2> QED BY <1>1, <1>4, <1>6, <1>8, <1>9, <2>1, <2>2 DEF NotebookInv
<1>11. CleanMeansSaved'
  <2>1. \A i \in Places(r) :
           \/ r[i] = Record(cells'[i])
           \/ /\ SameText(r[i], Record(cells'[i])) /\ ~Record(cells'[i]).tree
              /\ Record(cells'[i]).stale /\ Record(cells'[i]).failed
    BY <1>5
  <2> QED BY <1>4, <1>6, <2>1 DEF CleanMeansSaved, Count, Places, r
<1>12. Stored(document'.records, document'.next) /\
       document' = [records |-> document'.records, next |-> document'.next]
  BY <1>4 DEF DocumentInv
<1> QED BY <1>10, <1>11, <1>12 DEF DocumentInv

\* A step that does not set dirty changes nothing a save would store.
LEMMA ChangesAreTold ==
    ASSUME NotebookInv, NotebookNext
    PROVE  \/ dirty' = TRUE
           \/ /\ dirty' = dirty /\ nextExecution' = nextExecution /\ Len(cells') = Len(cells)
              /\ \A i \in 1 .. Count : Record(cells'[i]) = Record(cells[i])
<1>1. /\ Count \in 0 .. MaxCells /\ Places(cells) = 1 .. Count /\ DOMAIN cells = 1 .. Count
      /\ \A j \in 1 .. Count : cells[j] \in Cells
      /\ cells \in [1 .. Count -> Cells]
  BY CardsAreFunctions, CapacityAssumption DEF Count, Places, NotebookInv
<1>2. ASSUME UNCHANGED <<cells, dirty, nextExecution>>
      PROVE  /\ dirty' = dirty /\ nextExecution' = nextExecution /\ Len(cells') = Len(cells)
             /\ \A i \in 1 .. Count : Record(cells'[i]) = Record(cells[i])
  BY <1>2
<1>3. ASSUME NEW i, IsInput(i), NEW at, NEW ed, Evaluation(i, at, ed)
      PROVE  \/ dirty' = TRUE
             \/ /\ dirty' = dirty /\ nextExecution' = nextExecution /\ Len(cells') = Len(cells)
                /\ \A j \in 1 .. Count : Record(cells'[j]) = Record(cells[j])
  <2>1. CASE EvaluationRun(i, at, ed) BY <2>1 DEF EvaluationRun
  <2>2. CASE EvaluationRefused(i, at, ed)
    <3> DEFINE d == [cells[i] EXCEPT !.poisoned = FALSE]
    <3>1. dirty' = dirty /\ nextExecution' = nextExecution
          /\ cells' = [cells EXCEPT ![i] = d]
      BY <2>2 DEF EvaluationRefused
    <3>2. i \in 1 .. Count BY <1>3 DEF IsInput
    <3>3. d \in Cells /\ Record(d) = Record(cells[i]) BY <1>1, <3>2 DEF Cells, Record
    <3> HIDE DEF d
    <3>4. cells' \in [1 .. Count -> Cells] BY <1>1, <3>1, <3>2, <3>3
    <3>5. Len(cells') = Count BY <1>1, <3>4, CardsArePlaced
    <3>6. \A j \in 1 .. Count : Record(cells'[j]) = Record(cells[j])
      BY <1>1, <3>1, <3>2, <3>3
    <3> QED BY <3>1, <3>5, <3>6 DEF Count
  <2> QED BY <1>3, <2>1, <2>2 DEF Evaluation
<1>4. ASSUME Build PROVE dirty' = TRUE
  BY <1>4 DEF Build, AddMarkdown, AddInput, InsertAt, InsertCell
<1>5. CASE Run BY <1>3, <1>5 DEF Run, Evaluate, RunAt, ActivateSelected
<1>6. CASE Navigate
  BY <1>2, <1>6 DEF Navigate, Select, SelectNext, BeginEditAt, BeginEditSelected, EndEdit
<1>7. CASE EditStep
  BY <1>2, <1>7 DEF EditStep, EditInsertText, EditBackspace, EditMove, EditMoveLine, MoveCursor,
                    EditSwitchField, EditText
<1>8. CASE EvaluateAll BY <1>2, <1>8 DEF EvaluateAll
<1>9. CASE Replay BY <1>2, <1>3, <1>9 DEF Replay, ReplaySkips, ReplayRuns, ReplayEnds
<1> QED BY <1>4, <1>5, <1>6, <1>7, <1>8, <1>9 DEF NotebookNext

\* Every operation keeps the inductive invariant.
LEMMA DocumentInvStep ==
    ASSUME DocumentInv, [DocumentNext]_documentVars
    PROVE  DocumentInv'
<1>1. CASE NotebookNext /\ UNCHANGED document
  <2>1. NotebookInv' BY <1>1, NotebookInvStep DEF DocumentInv
  <2>2. CleanMeansSaved'
    <3> SUFFICES ASSUME dirty' # TRUE PROVE CleanMeansSaved'
      BY DEF CleanMeansSaved
    <3>1. /\ dirty' = dirty /\ nextExecution' = nextExecution /\ Len(cells') = Len(cells)
          /\ \A i \in 1 .. Count : Record(cells'[i]) = Record(cells[i])
      BY <1>1, ChangesAreTold DEF DocumentInv
    <3>2. CleanMeansSaved BY DEF DocumentInv
    <3> QED BY <1>1, <3>1, <3>2 DEF CleanMeansSaved, Count
  <2> QED BY <1>1, <2>1, <2>2 DEF DocumentInv
<1>2. CASE SaveDocument BY <1>2, SaveStep
<1>3. CASE Load BY <1>3, LoadStep
<1>4. CASE UNCHANGED documentVars
  <2>1. NotebookInv' BY <1>4 DEF documentVars, notebookVars, DocumentInv, NotebookInv
  <2>2. CleanMeansSaved'
    BY <1>4 DEF documentVars, notebookVars, DocumentInv, CleanMeansSaved, Count
  <2> QED BY <1>4, <2>1, <2>2 DEF documentVars, DocumentInv
<1> QED BY <1>1, <1>2, <1>3, <1>4 DEF DocumentNext

\* The inductive invariant holds of every notebook that is saved and loaded
\* (phy_notebook_serialize, phy_notebook_deserialize).
THEOREM DocumentInductive == DocumentSpec => []DocumentInv
<1>1. DocumentInv /\ [DocumentNext]_documentVars => DocumentInv' BY DocumentInvStep
<1> QED BY DocumentInvInit, <1>1, PTL DEF DocumentSpec

\* What holds of one session holds across saves and loads: a load makes a
\* notebook with its cards together, nothing outdated on show.
THEOREM DocumentKeepsCards == DocumentSpec => [](CardsHoldTogether /\ NothingOutdatedShows)
<1>1. DocumentInv => CardsHoldTogether /\ NothingOutdatedShows
  BY NotebookInvMeans DEF DocumentInv
<1> QED BY <1>1, DocumentInductive, PTL

\* A notebook that is not dirty holds what the stored document holds, but for
\* texts a load could not read: no operation of notebook.c changes a stored
\* field without setting dirty.
THEOREM SavedIsClean == DocumentSpec => []CleanMeansSaved
<1>1. DocumentInv => CleanMeansSaved BY DEF DocumentInv
<1> QED BY <1>1, DocumentInductive, PTL

\* The type invariant with the document: no more records than cards, and a
\* next_execution a load accepts.
THEOREM DocumentTypeCorrect == DocumentSpec => []DocumentTypeOK
<1>1. DocumentInv => DocumentTypeOK
  <2> SUFFICES ASSUME DocumentInv PROVE DocumentTypeOK OBVIOUS
  <2>1. NotebookTypeOK BY NotebookInvMeans DEF DocumentInv
  <2> DEFINE r == document.records
  <2>2. r \in Seq(Records) /\ Len(r) <= MaxCells /\ Given(r, document.next)
        /\ document.next \in Nat \ {0}
    BY DEF DocumentInv, Stored
  <2>3. document.next - 1 <= Len(r)
    <3> DEFINE e == [i \in Places(r) |-> r[i].execution]
    <3> HIDE DEF r
    <3>1. Len(r) \in Nat /\ r \in [1 .. Len(r) -> Records] BY <2>2, LenProperties
    <3>2. e \in [1 .. Len(r) -> Nat] BY <3>1, CapacityAssumption DEF Records, Places
    <3>3. \A n \in 1 .. document.next - 1 : \E i \in 1 .. Len(r) : e[i] = n
      BY <2>2 DEF Given, Places
    <3> HIDE DEF e
    <3> QED BY <2>2, <3>1, <3>2, <3>3, NumbersNeedPlaces, Zenon
  <2>4. Len(r) \in Nat BY <2>2, LenProperties
  <2> QED BY <2>1, <2>2, <2>3, <2>4, CapacityAssumption DEF DocumentTypeOK
<1> QED BY <1>1, DocumentInductive, PTL

----------------------------------------------------------------------------
(* What is saved opens again, once Run all has returned                    *)

\* A result on show whose tree a rebuild could not carry over: a load takes its
\* record for a truncated one.
Treeless(c) == c.kind = "output" /\ ~c.failed /\ c.primary = 0 /\ c.expression = NullRef

\* Results without their tree are stale, but for the card at x; and the input
\* that saturated a context has an error under it.
Lasting(cs, x) ==
    /\ \A i \in Places(cs) : i # x /\ Treeless(cs[i]) => cs[i].stale
    /\ \A i \in Places(cs) :
         cs[i].poisoned =>
            cs[i].kind = "input" /\ i + 1 \in Places(cs) /\ cs[i + 1].kind = "error"

\* The inductive invariant of what saves and loads do to results.
LastingInv == DocumentInv /\ Lasting(cells, 0)

\* insert_cell takes no tree away, and puts nothing between a quarantined input
\* and its error.
LEMMA LastingInserted ==
    ASSUME NotebookInv, Lasting(cells, 0), Count < MaxCells,
           NEW k \in 1 .. Count + 1, k <= Count => ~IsOutput(cells[k].kind),
           NEW c \in Cells, ~c.poisoned
    PROVE  Lasting(Inserted(k, c), k)
<1> DEFINE f == Inserted(k, c)
<1>1. cells \in Cards /\ Shaped(cells) /\ Places(cells) = 1 .. Count /\ Count \in Nat
      /\ \A j \in 1 .. Count : j # 0
  BY CardsAreFunctions, CapacityAssumption DEF NotebookInv, Sound, Places, Count
<1>2. Places(f) = 1 .. Count + 1 BY <1>1, CellsInserted DEF Places
<1>3. /\ f[k] = c
      /\ \A i \in 1 .. Count + 1 :
           i # k => Before(i, k) \in 1 .. Count /\ SameButOwner(f[i], cells[Before(i, k)])
  BY <1>1, InsertionMoves
<1> HIDE DEF f
<1>4. ASSUME NEW i \in Places(f), i # k, Treeless(f[i]) PROVE f[i].stale
  <2> DEFINE b == Before(i, k)
  <2>1. b \in 1 .. Count /\ SameButOwner(f[i], cells[b]) BY <1>2, <1>3, <1>4
  <2> HIDE DEF b
  <2>2. Treeless(cells[b]) BY <1>4, <2>1 DEF Treeless, SameButOwner
  <2>3. cells[b].stale BY <1>1, <2>1, <2>2 DEF Lasting
  <2> QED BY <2>1, <2>3 DEF SameButOwner
<1>5. ASSUME NEW i \in Places(f), f[i].poisoned
      PROVE  f[i].kind = "input" /\ i + 1 \in Places(f) /\ f[i + 1].kind = "error"
  <2> DEFINE b == Before(i, k)
  <2>1. i # k BY <1>3, <1>5
  <2>2. b \in 1 .. Count /\ SameButOwner(f[i], cells[b]) BY <1>2, <1>3, <2>1
  <2>3. cells[b].kind = "input" /\ b + 1 \in 1 .. Count /\ cells[b + 1].kind = "error"
    BY <1>1, <1>5, <2>2 DEF Lasting, SameButOwner
  <2>4. b + 1 # k \/ i > k BY <1>1, <2>3 DEF IsOutput
  <2>5. i + 1 \in 1 .. Count + 1 /\ i + 1 # k /\ Before(i + 1, k) = b + 1
    BY <1>1, <1>2, <2>1, <2>3, <2>4 DEF Before
  <2>6. SameButOwner(f[i + 1], cells[b + 1]) BY <1>3, <2>5
  <2> QED BY <1>2, <2>2, <2>3, <2>5, <2>6 DEF SameButOwner
<1> QED BY <1>4, <1>5 DEF Lasting, f

\* Nor does ensure_output.
LEMMA LastingEnsured ==
    ASSUME NotebookInv, Lasting(cells, 0), NEW i, IsInput(i), HasOutput(i) \/ Count < MaxCells
    PROVE  Lasting(EnsuredCells(i), i + 1)
<1>1. Count \in 0 .. MaxCells /\ Places(cells) = 1 .. Count /\ i \in 1 .. Count
      /\ Shaped(cells)
  BY CardsAreFunctions, CapacityAssumption DEF NotebookInv, Sound, Count, Places, IsInput
<1>2. CASE HasOutput(i)
  <2>1. EnsuredCells(i) = cells BY <1>2 DEF EnsuredCells
  <2>2. \A j \in Places(cells) : j # 0 BY <1>1, CapacityAssumption
  <2> QED BY <2>1, <2>2 DEF Lasting
<1>3. CASE ~HasOutput(i)
  <2> DEFINE c0 == NewCell("output", 0, 0)
             c == [c0 EXCEPT !.owner = i]
  <2>1. Count < MaxCells /\ EnsuredCells(i) = Inserted(i + 1, c)
    BY <1>3 DEF EnsuredCells
  <2>2. c0 \in Cells /\ ~c0.poisoned BY <1>1, <2>1, NewCellIsACell, CapacityAssumption
  <2>3. i \in 0 .. MaxCells /\ i + 1 \in 1 .. Count + 1 BY <1>1, CapacityAssumption
  <2> HIDE DEF c0
  <2>4. c \in Cells /\ ~c.poisoned BY <2>2, <2>3 DEF Cells
  <2>5. i + 1 <= Count => ~IsOutput(cells[i + 1].kind)
    <3> SUFFICES ASSUME i + 1 <= Count, IsOutput(cells[i + 1].kind) PROVE FALSE OBVIOUS
    <3>1. i + 1 \in 1 .. Count BY <1>1, CapacityAssumption
    <3>2. cells[i + 1].owner = i BY <1>1, <3>1, CapacityAssumption DEF Shaped
    <3> QED BY <1>1, <1>3, <3>2, CapacityAssumption DEF HasOutput
  <2> HIDE DEF c
  <2> QED BY <2>1, <2>3, <2>4, <2>5, LastingInserted
<1> QED BY <1>2, <1>3

\* An evaluation that succeeds leaves a tree; one that saturates the context
\* leaves an error.
LEMMA LastingRan ==
    ASSUME context \in Contexts,
           NEW cs \in Cards, NEW i \in Places(cs), i + 1 \in Places(cs),
           cs[i].kind = "input", IsOutput(cs[i + 1].kind), cs[i + 1].owner = i,
           Lasting(cs, i + 1),
           NEW number \in 0 .. MaxCells, NEW parse \in Parses, NEW result \in Results(parse)
    PROVE  Lasting(Evaluated(cs, i, number, parse, result), 0)
<1> DEFINE r == Evaluated(cs, i, number, parse, result)
<1>1. /\ Len(r) = Len(cs)
      /\ \A j \in Places(cs) :
           /\ cs[j] \in Cells
           /\ r[j] = IF j = i THEN RanInput(cs[j], number, parse, result)
                     ELSE IF j = i + 1 THEN RanOutput(cs[j], i, number, result)
                     ELSE IF j > i + 1 THEN MarkedStale(cs[j]) ELSE cs[j]
  BY CellsEvaluated, CardsAreFunctions
<1>2. i \in 1 .. MaxCells /\ i + 1 # i /\ Places(r) = Places(cs)
      /\ \A j \in Places(cs) : j \in Nat \ {0}
  BY <1>1, CardsAreFunctions, CapacityAssumption DEF Places
<1> HIDE DEF r
<1>3. r[i].kind = "input" /\ (r[i].poisoned => result # "ok")
  <2>1. r[i] = RanInput(cs[i], number, parse, result) BY <1>1
  <2> QED BY <1>1, <1>2, <2>1, RanInputCell
<1>4. /\ r[i + 1].kind = (IF result = "ok" THEN "output" ELSE "error")
      /\ result = "ok" => r[i + 1].expression = context
      /\ ~r[i + 1].poisoned
  <2>1. r[i + 1] = RanOutput(cs[i + 1], i, number, result) BY <1>1, <1>2
  <2>2. /\ r[i + 1].kind = (IF result = "ok" THEN "output" ELSE "error")
        /\ result = "ok" => r[i + 1].expression = context
        /\ r[i + 1].poisoned = cs[i + 1].poisoned
    BY <1>1, <1>2, <2>1, RanOutputCell
  <2>3. ~cs[i + 1].poisoned BY DEF Lasting, IsOutput
  <2> QED BY <2>2, <2>3
<1>5. ASSUME NEW j \in Places(cs), j # i, j # i + 1
      PROVE  /\ r[j].kind = cs[j].kind /\ r[j].poisoned = cs[j].poisoned
             /\ Treeless(r[j]) => r[j].stale
  <2>1. CASE r[j] = MarkedStale(cs[j])
    BY <1>1, <2>1, MarkedCell DEF Treeless, IsOutput
  <2>2. CASE r[j] = cs[j]
    BY <1>5, <2>2 DEF Lasting
  <2> QED BY <1>1, <1>5, <2>1, <2>2
<1>6. ASSUME NEW j \in Places(cs), Treeless(r[j]) PROVE r[j].stale
  <2>1. CASE j = i BY <1>3, <1>6, <2>1 DEF Treeless
  <2>2. CASE j = i + 1 BY <1>4, <1>6, <2>2 DEF Treeless, Contexts, NullRef
  <2>3. CASE j # i /\ j # i + 1 BY <1>5, <1>6, <2>3
  <2> QED BY <2>1, <2>2, <2>3
<1>7. ASSUME NEW j \in Places(cs), r[j].poisoned
      PROVE  r[j].kind = "input" /\ j + 1 \in Places(cs) /\ r[j + 1].kind = "error"
  <2>1. CASE j = i BY <1>3, <1>4, <1>7, <2>1
  <2>2. CASE j = i + 1 BY <1>4, <1>7, <2>2
  <2>3. CASE j # i /\ j # i + 1
    <3>1. cs[j].kind = "input" /\ j + 1 \in Places(cs) /\ cs[j + 1].kind = "error"
      BY <1>5, <1>7, <2>3 DEF Lasting
    <3>2. j + 1 # i BY <3>1
    <3>3. j + 1 # i + 1 BY <1>2, <2>3
    <3> QED BY <1>5, <2>3, <3>1, <3>2, <3>3
  <2> QED BY <2>1, <2>2, <2>3
<1>8. Lasting(r, 0) BY <1>2, <1>6, <1>7 DEF Lasting
<1> QED BY <1>8 DEF r
\* rebuild_context outdates whatever it loses.
LEMMA LastingRebuilt ==
    ASSUME NEW cs \in Cards, context \in Contexts, NEW next \in Nat \ {0}, NEW carried,
           Sound(cs, next, context, 0), Lasting(cs, 0)
    PROVE  Lasting(Rebuilt(cs, carried), 0)
<1> DEFINE r == Rebuilt(cs, carried)
<1>1. /\ r \in Cards /\ Len(r) = Len(cs) /\ Places(r) = Places(cs)
      /\ \A j \in Places(cs) :
           /\ r[j].kind = cs[j].kind /\ r[j].poisoned = cs[j].poisoned
           /\ IsOutput(cs[j].kind) => r[j].stale
  BY RebuildIsSound DEF Places
<1> HIDE DEF r
<1>2. \A j \in Places(cs) : Treeless(r[j]) => r[j].stale BY <1>1 DEF Treeless, IsOutput
<1>3. \A j \in Places(cs) :
         r[j].poisoned => r[j].kind = "input" /\ j + 1 \in Places(cs) /\ r[j + 1].kind = "error"
  BY <1>1 DEF Lasting
<1>4. Lasting(r, 0) BY <1>1, <1>2, <1>3 DEF Lasting
<1> QED BY <1>4 DEF r

\* So an evaluation, with its rebuild, loses only what it outdates.
LEMMA LastingEvaluation ==
    ASSUME NotebookInv, Lasting(cells, 0),
           NEW i, IsInput(i), NEW at, NEW ed, Editable(cells, at, ed), Evaluation(i, at, ed)
    PROVE  Lasting(cells', 0)
<1>1. /\ cells \in Cards /\ Count \in 0 .. MaxCells /\ Places(cells) = 1 .. Count
      /\ \A j \in 1 .. Count : cells[j] \in Cells /\ j # 0
      /\ Sound(cells, nextExecution, context, 0) /\ nextExecution \in Nat \ {0}
      /\ context \in Contexts /\ i \in 1 .. Count
  BY CardsAreFunctions, CapacityAssumption DEF Count, Places, NotebookInv, IsInput
<1>2. CASE EvaluationRefused(i, at, ed)
  <2> DEFINE d == [cells[i] EXCEPT !.poisoned = FALSE]
  <2>1. cells' = [cells EXCEPT ![i] = d] BY <1>2 DEF EvaluationRefused
  <2>2. /\ d \in Cells /\ d.kind = cells[i].kind /\ d.failed = cells[i].failed
        /\ d.primary = cells[i].primary /\ d.expression = cells[i].expression
        /\ d.stale = cells[i].stale /\ ~d.poisoned
    BY <1>1 DEF Cells
  <2>3. cells \in [1 .. Count -> Cells] BY <1>1, CardsAreFunctions
  <2> HIDE DEF d
  <2>4. cells' \in [1 .. Count -> Cells] BY <1>1, <2>1, <2>2, <2>3
  <2>5. Places(cells') = 1 .. Count BY <1>1, <2>4, CardsArePlaced DEF Places
  <2>6. \A j \in 1 .. Count : cells'[j] = IF j = i THEN d ELSE cells[j] BY <2>1, <2>3
  <2>7. \A j \in 1 .. Count :
           /\ cells'[j].kind = cells[j].kind /\ Treeless(cells'[j]) = Treeless(cells[j])
           /\ cells'[j].stale = cells[j].stale
           /\ cells'[j].poisoned => cells[j].poisoned
    BY <2>2, <2>6 DEF Treeless
  <2> QED BY <1>1, <2>5, <2>7 DEF Lasting
<1>3. CASE EvaluationRun(i, at, ed)
  <2> DEFINE mid == EnsuredCells(i)
             number == IF cells[i].execution = 0 THEN nextExecution ELSE cells[i].execution
             next2 == IF cells[i].execution = 0 THEN nextExecution + 1 ELSE nextExecution
  <2>1. HasOutput(i) \/ Count < MaxCells BY <1>3 DEF EvaluationRun
  <2>2. /\ mid \in Cards /\ i \in Places(mid) /\ i + 1 \in Places(mid)
        /\ mid[i].kind = "input" /\ IsOutput(mid[i + 1].kind) /\ mid[i] = cells[i]
        /\ Sound(mid, nextExecution, context, i + 1)
    <3>1. /\ mid \in Cards /\ i \in Places(mid) /\ i + 1 \in Places(mid)
          /\ mid[i].kind = "input" /\ IsOutput(mid[i + 1].kind)
          /\ Sound(mid, nextExecution, context, i + 1)
          /\ \A j \in 1 .. i : mid[j] = cells[j]
      BY <1>1, <2>1, OutputIsEnsured
    <3>2. i \in 1 .. i BY <1>1, CapacityAssumption
    <3> QED BY <3>1, <3>2
  <2>3. mid[i + 1].owner = i
    <3>1. mid[i + 1].owner = (i + 1) - 1 BY <2>2 DEF Sound, Shaped
    <3> QED BY <1>1, <3>1, CapacityAssumption
  <2>4. Lasting(mid, i + 1) BY <2>1, LastingEnsured
  <2>5. number \in 0 .. MaxCells
    <3>1. CASE cells[i].execution = 0
      <4>1. nextExecution \in 1 .. MaxCells BY <1>1, <3>1, NumberLeft DEF Sound
      <4> QED BY <3>1, <4>1, CapacityAssumption
    <3>2. CASE cells[i].execution # 0
      <4>1. cells[i].execution \in 0 .. MaxCells BY <1>1 DEF Cells
      <4> QED BY <3>2, <4>1
    <3> QED BY <3>1, <3>2
  <2>p. PICK parse \in Parses :
           \E result \in Results(parse) : Outcome(mid, i, number, parse, result)
    BY <1>3 DEF EvaluationRun, Outcome
  <2>6. PICK result \in Results(parse) : Outcome(mid, i, number, parse, result)
    BY <2>p
  <2> DEFINE ran == Evaluated(mid, i, number, parse, result)
  <2>7. ran \in Cards /\ next2 \in Nat \ {0} /\ Sound(ran, next2, context, 0)
    <3> HIDE DEF mid
    <3> QED BY <1>1, <2>2, EvaluationIsSound
  <2> HIDE DEF mid, number, next2
  <2>8. Lasting(ran, 0) BY <1>1, <2>2, <2>3, <2>4, <2>5, LastingRan
  <2>9. cells' = ran \/ \E carried : cells' = Rebuilt(ran, carried) BY <2>6 DEF Outcome
  <2> HIDE DEF ran
  <2> QED BY <1>1, <2>7, <2>8, <2>9, LastingRebuilt
<1> QED BY <1>2, <1>3 DEF Evaluation

\* Nor does a card the user adds take a tree away.
LEMMA LastingSource ==
    ASSUME NotebookInv, Lasting(cells, 0),
           NEW k \in 1 .. Count + 1, k <= Count => ~IsOutput(cells[k].kind),
           NEW kind \in {"markdown", "input"},
           NEW p \in 0 .. TextCapacity - 1, NEW s \in 0 .. DetailCapacity,
           InsertCell(k, NewCell(kind, p, s))
    PROVE  Lasting(cells', 0)
<1>1. Count \in Nat /\ Count < MaxCells /\ cells' = Inserted(k, NewCell(kind, p, s))
  BY CardsAreFunctions, CapacityAssumption DEF InsertCell, NotebookInv, Count
<1>2. NewCell(kind, p, s) \in Cells /\ ~NewCell(kind, p, s).poisoned BY <1>1, NewCellIsACell
<1>3. Lasting(cells', k) BY <1>1, <1>2, LastingInserted
<1>4. cells'[k].kind = kind BY <1>1, SourceInserted
<1> QED BY <1>3, <1>4 DEF Lasting, Treeless

\* No operation of the notebook loses a result that it does not mark stale.
LEMMA LastingStep ==
    ASSUME NotebookInv, Lasting(cells, 0), NotebookNext
    PROVE  Lasting(cells', 0)
<1>1. Count \in 0 .. MaxCells /\ Places(cells) = 1 .. Count /\ Editable(cells, selected, edit)
  BY CardsAreFunctions, CapacityAssumption DEF Count, Places, NotebookInv
<1>2. Count + 1 \in 1 .. Count + 1 /\ ~(Count + 1 <= Count) BY <1>1, CapacityAssumption
<1>3. CASE Build
  <2>1. ASSUME NEW heading \in Lengths, NEW body \in Details, AddMarkdown(heading, body)
        PROVE  Lasting(cells', 0)
    <3>1. body \in 0 .. DetailCapacity BY CapacityAssumption DEF Details
    <3> QED BY <1>2, <2>1, <3>1, LastingSource DEF AddMarkdown, Lengths
  <2>2. ASSUME NEW source \in Lengths, AddInput(source) PROVE Lasting(cells', 0)
    <3>1. 0 \in 0 .. DetailCapacity BY CapacityAssumption
    <3> QED BY <1>2, <2>2, <3>1, LastingSource DEF AddInput, Lengths
  <2>3. ASSUME NEW kind \in {"markdown", "input"}, InsertAt(kind) PROVE Lasting(cells', 0)
    <3> DEFINE p == IF kind = "markdown" /\ 1 < TextCapacity THEN 1 ELSE 0
    <3>1. p \in 0 .. TextCapacity - 1 /\ 0 \in 0 .. DetailCapacity BY CapacityAssumption
    <3>2. InsertCell(AfterSelection, NewCell(kind, p, 0)) BY <2>3 DEF InsertAt
    <3> HIDE DEF p
    <3> QED BY <3>1, <3>2, InsertionPlace, LastingSource
  <2> QED BY <1>3, <2>1, <2>2, <2>3 DEF Build
<1>4. ASSUME NEW i, IsInput(i) PROVE Editable(cells, i, NoEdit)
  BY <1>4, NoEditIsEditable DEF IsInput
<1>5. CASE Run
  BY <1>1, <1>4, <1>5, LastingEvaluation DEF Run, Evaluate, RunAt, ActivateSelected
<1>6. CASE Replay /\ ReplayRuns
  BY <1>1, <1>6, LastingEvaluation DEF ReplayRuns
<1>7. CASE EditStep
  <2>1. CASE UNCHANGED cells BY <2>1
  <2>2. ASSUME NEW n \in 0 .. Capacity(EditedCell, edit.secondary) - 1, NEW cursor \in 0 .. n,
               Idle, Editing, EditText(n, cursor)
        PROVE  Lasting(cells', 0)
    <3>1. /\ Len(cells') = Count
          /\ \A j \in 1 .. Count :
               /\ cells'[j].kind = cells[j].kind /\ cells'[j].failed = cells[j].failed
               /\ cells'[j].expression = cells[j].expression
               /\ cells'[j].poisoned = cells[j].poisoned
               /\ j # edit.index => cells'[j].primary = cells[j].primary
               /\ cells'[j].stale \/ cells'[j].stale = cells[j].stale
      BY <2>2, TextEdited
    <3>2. Places(cells') = 1 .. Count BY <3>1 DEF Places
    <3>3. ~IsOutput(cells[edit.index].kind)
      BY <1>1, <2>2 DEF Editable, Editing, IsSource, IsOutput
    <3>4. \A j \in 1 .. Count : j # 0 /\ (Treeless(cells'[j]) => cells'[j].stale)
      BY <1>1, <3>1, <3>3, CapacityAssumption DEF Lasting, Treeless, IsOutput
    <3>5. \A j \in 1 .. Count :
             cells'[j].poisoned =>
                /\ cells'[j].kind = "input" /\ j + 1 \in 1 .. Count
                /\ cells'[j + 1].kind = "error"
      BY <1>1, <3>1 DEF Lasting
    <3> QED BY <3>2, <3>4, <3>5 DEF Lasting
  <2> QED
    BY <1>7, <2>1, <2>2, EditsFit
       DEF EditStep, EditMove, EditMoveLine, MoveCursor, EditSwitchField
<1>8. CASE UNCHANGED cells BY <1>8
<1> QED
  BY <1>3, <1>5, <1>6, <1>7, <1>8
     DEF NotebookNext, Navigate, Select, SelectNext, BeginEditAt, BeginEditSelected, EndEdit,
         EvaluateAll, Replay, ReplaySkips, ReplayEnds

\* A load takes no truncated record, and marks what it cannot read as failed.
LEMMA LastingLoad ==
    ASSUME DocumentInv, Load
    PROVE  Lasting(cells', 0)
<1> DEFINE r == document.records
<1>1. /\ r \in Seq(Records) /\ Len(r) <= MaxCells /\ context \in Contexts
      /\ \A i \in Places(r) : r[i].kind = "input" => ~r[i].tree
      /\ \A i \in DOMAIN r : ~Truncated(r, i)
  BY DEF DocumentInv, Stored, NotebookInv, Load, Loads
<1> HIDE DEF r
<1>2. /\ Len(r) \in 0 .. MaxCells /\ DOMAIN r = Places(r)
      /\ \A i \in Places(r) : r[i] \in Records /\ i \in 1 .. MaxCells
  <2>1. Len(r) \in Nat /\ r \in [1 .. Len(r) -> Records] BY <1>1, LenProperties
  <2> QED BY <1>1, <2>1, CapacityAssumption DEF Places
<1>3. PICK degraded \in SUBSET {i \in DOMAIN r : HasText(r[i])} :
         cells' = [i \in DOMAIN r |-> Loaded(r, i, degraded)]
  BY DEF Load, r
<1>4. \A i \in Places(r) :
         LET c == cells'[i] IN
         /\ c \in Cells /\ c.kind = r[i].kind /\ c.failed = (r[i].failed \/ i \in degraded)
         /\ ~c.poisoned /\ (i \notin degraded => r[i] = Record(c))
  <2> TAKE i \in Places(r)
  <2>1. cells'[i] = Loaded(r, i, degraded) BY <1>2, <1>3
  <2> QED BY <1>1, <1>2, <2>1, LoadedCell
<1>5. Places(cells') = Places(r)
  <2>1. cells' \in [1 .. Len(r) -> Cells] BY <1>2, <1>3, <1>4 DEF Places
  <2> QED BY <1>2, <2>1, CardsArePlaced DEF Places
<1>6. ASSUME NEW i \in Places(r) PROVE ~Treeless(cells'[i])
  <2> SUFFICES ASSUME Treeless(cells'[i]) PROVE FALSE OBVIOUS
  <2>1. r[i].kind = "output" /\ ~r[i].failed /\ r[i] = Record(cells'[i])
    BY <1>4 DEF Treeless
  <2>2. Record(cells'[i]).primary = 0 /\ ~Record(cells'[i]).tree BY DEF Record, Treeless
  <2> QED BY <1>1, <1>2, <2>1, <2>2 DEF Truncated
<1> QED BY <1>4, <1>5, <1>6 DEF Lasting

\* Every operation of notebook and document keeps the invariant.
LEMMA LastingInvStep ==
    ASSUME LastingInv, [DocumentNext]_documentVars
    PROVE  LastingInv'
<1>1. DocumentInv' BY DocumentInvStep DEF LastingInv
<1>2. CASE NotebookNext /\ UNCHANGED document
  BY <1>1, <1>2, LastingStep DEF LastingInv, DocumentInv
<1>3. CASE SaveDocument BY <1>1, <1>3 DEF SaveDocument, LastingInv
<1>4. CASE Load BY <1>1, <1>4, LastingLoad DEF LastingInv
<1>5. CASE UNCHANGED documentVars
  BY <1>1, <1>5 DEF documentVars, notebookVars, LastingInv
<1> QED BY <1>2, <1>3, <1>4, <1>5 DEF DocumentNext

\* A new notebook shows no result.
LEMMA LastingInvInit == DocumentInit => LastingInv
<1> SUFFICES ASSUME DocumentInit PROVE LastingInv OBVIOUS
<1>1. DocumentInv /\ cells = <<>> BY DocumentInvInit DEF DocumentInit, NotebookInit
<1>2. Places(cells) = {} BY <1>1, EmptySeq DEF Places
<1> QED BY <1>1, <1>2 DEF LastingInv, Lasting

\* The invariant holds of every notebook, through any saves and loads.
THEOREM LastingInductive == DocumentSpec => []LastingInv
<1>1. LastingInv /\ [DocumentNext]_documentVars => LastingInv' BY LastingInvStep
<1> QED BY LastingInvInit, <1>1, PTL DEF DocumentSpec

\* A record of a card is truncated when the card is a result without its tree.
LEMMA RecordsOfCards ==
    ASSUME LastingInv
    PROVE  /\ DOMAIN Document.records = 1 .. Count /\ Places(cells) = 1 .. Count
           /\ \A i \in 1 .. Count :
                /\ ShapeValid(Document.records, i)
                /\ Truncated(Document.records, i) => Treeless(cells[i]) /\ cells[i].stale
<1>1. /\ Len(Document.records) = Count /\ Places(cells) = 1 .. Count /\ Count \in Nat
      /\ Stored(Document.records, Document.next)
      /\ \A i \in 1 .. Count : Document.records[i] = Record(cells[i]) /\ i # 0
      /\ \A i \in 1 .. Count : cells[i] \in Cells
  <2>1. Count \in Nat /\ \A i \in Places(cells) : cells[i] \in Cells
    BY CardsAreFunctions, CapacityAssumption DEF Count, LastingInv, DocumentInv, NotebookInv
  <2> QED BY <2>1, SavingStores DEF LastingInv, DocumentInv, Places, Count
<1>2. DOMAIN Document.records = 1 .. Count /\ Places(Document.records) = 1 .. Count
  BY <1>1, LenProperties DEF Stored, Places
<1>3. ASSUME NEW i \in 1 .. Count PROVE ShapeValid(Document.records, i)
  BY <1>1, <1>2 DEF ShapeValid, Stored, Shaped
<1>4. ASSUME NEW i \in 1 .. Count, Truncated(Document.records, i)
      PROVE  Treeless(cells[i]) /\ cells[i].stale
  <2>1. /\ Record(cells[i]).kind = "output" /\ ~Record(cells[i]).failed
        /\ Record(cells[i]).primary = 0 /\ ~Record(cells[i]).tree
    BY <1>1, <1>4 DEF Truncated
  <2>2. Treeless(cells[i]) BY <2>1 DEF Record, Treeless
  <2> QED BY <1>1, <2>2 DEF LastingInv, Lasting
<1> QED BY <1>1, <1>2, <1>3, <1>4

\* A load refuses no record but that of a result that has gone stale: whatever
\* is inserted, run, edited, saved or loaded, the cells keep the shape
\* valid_cell_shape looks for, and a rebuild that drops an expression
\* (notebook.c:575 and 580) outdates it.
THEOREM StaleResultsAlone == DocumentSpec => []OnlyStaleResultsAreLost
<1>1. LastingInv => OnlyStaleResultsAreLost BY RecordsOfCards DEF OnlyStaleResultsAreLost
<1> QED BY <1>1, LastingInductive, PTL

\* The loop ends past the last card, where every input in quarantine has an
\* error under it and every other a result of this replay.
LEMMA ReplayEndsWhole ==
    ASSUME LastingInv, [DocumentNext]_documentVars, replay # 0, replay' = 0
    PROVE  Loads(Document)
<1>1. NotebookNext
  BY DEF DocumentNext, SaveDocument, Load, Idle, documentVars, notebookVars
<1>2. /\ NotebookInv /\ Count \in 0 .. MaxCells /\ Places(cells) = 1 .. Count
      /\ Shaped(cells)
  BY CardsAreFunctions DEF LastingInv, DocumentInv, NotebookInv, Sound, Count, Places
<1> SUFFICES ASSUME NEW i \in 1 .. Count, Truncated(Document.records, i) PROVE FALSE
  BY RecordsOfCards DEF Loads
<1>3. cells[i].kind = "output" /\ cells[i].stale BY RecordsOfCards DEF Treeless
<1>4. /\ i - 1 \in 1 .. Count /\ (i - 1) + 1 = i /\ cells[i - 1].kind = "input"
      /\ cells[i].owner = i - 1 /\ i - 1 < Count
  BY <1>2, <1>3, CapacityAssumption DEF Shaped, IsOutput
<1>5. HasOutput(i - 1) BY <1>3, <1>4 DEF HasOutput, IsOutput
<1>6. ~cells[i - 1].poisoned BY <1>2, <1>3, <1>4 DEF LastingInv, Lasting
<1>7. ~cells[(i - 1) + 1].stale BY <1>1, <1>2, <1>4, <1>5, <1>6, ReplayEndsFresh
<1> QED BY <1>3, <1>4, <1>7

\* What a save would store when phy_notebook_evaluate_all returns, a load
\* accepts, whichever expressions rebuilds have lost: running a notebook again
\* is what makes up for the trees rebuild_context drops (notebook.c:556).
THEOREM RunAllReopens == DocumentSpec => RunAllMakesItReopen
<1>1. LastingInv /\ [DocumentNext]_documentVars
      => [replay # 0 /\ replay' = 0 => SavedDocumentReopens]_notebookVars
  BY ReplayEndsWhole DEF SavedDocumentReopens
<1> QED
  BY <1>1, LastingInductive, PTL DEF DocumentSpec, RunAllMakesItReopen

=============================================================================
