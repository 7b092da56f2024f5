------------------------------ MODULE Notebook ------------------------------
(***************************************************************************)
(* The notebook document model of src/notebook/notebook.c: a bounded list  *)
(* of cells, the selection, the character editor, evaluation of one input  *)
(* into the output card under it, the rebuild of a saturated IR context,   *)
(* and the replay that Run all performs.                                   *)
(*                                                                         *)
(* Positions count from 1 (the code counts from 0).  A text is its length, *)
(* with its terminating NUL not counted.  What a source means is left to   *)
(* the evaluator: an evaluation may parse or not, succeed or fail, and a   *)
(* failed one may leave the context unable to intern anything.             *)
(***************************************************************************)
EXTENDS Naturals, Sequences, FiniteSets

CONSTANTS
    MaxCells,       \* PHY_NOTEBOOK_MAX_CELLS
    TextCapacity,   \* NOTEBOOK_TEXT_CAPACITY: bytes of a primary text
    DetailCapacity, \* NOTEBOOK_DETAIL_CAPACITY: bytes of a secondary text
    Columns,        \* NOTEBOOK_EDIT_COLUMNS: characters on an editor line
    Canonical       \* lengths the canonical IR text of a source may need

ASSUME CapacityAssumption ==
    /\ MaxCells \in Nat /\ Columns \in Nat \ {0}
    /\ TextCapacity \in Nat \ {0} /\ DetailCapacity \in Nat \ {0}
ASSUME CanonicalAssumption == Canonical \subseteq 1 .. DetailCapacity

VARIABLES
    cells,          \* cells[0 .. count-1]
    selected,
    edit,           \* editing, edit_index, edit_secondary, cursor
    dirty,
    nextExecution,
    context,        \* which IR context is alive, named in rotation
    replay          \* evaluate_all's i, 0 outside of it

notebookVars == <<cells, selected, edit, dirty, nextExecution, context, replay>>

Count == Len(cells)
IsOutput(kind) == kind \in {"output", "error"}
IsSource(kind) == kind \in {"markdown", "input"}

NullRef == 0                       \* PHY_IR_NULL; other refs name their context
Contexts == 1 .. 2
NextContext == (context % 2) + 1

(* id stands for the identity of the card: insert_cell copies a cell from  *)
(* place to place, and nothing removes one.                                *)
Cells ==
    [id : 1 .. MaxCells, kind : {"markdown", "input", "output", "error"},
     primary : 0 .. TextCapacity - 1, secondary : 0 .. DetailCapacity,
     expression : Contexts \cup {NullRef}, failed : BOOLEAN,
     execution : 0 .. MaxCells, owner : 0 .. MaxCells, stale : BOOLEAN,
     poisoned : BOOLEAN]

NewCell(kind, primary, secondary) ==
    [id |-> Count + 1, kind |-> kind, primary |-> primary, secondary |-> secondary,
     expression |-> NullRef, failed |-> FALSE, execution |-> 0, owner |-> 0,
     stale |-> FALSE, poisoned |-> FALSE]

NoEdit == [index |-> 0, secondary |-> FALSE, cursor |-> 0]
Editing == edit # NoEdit

NotebookInit ==
    /\ cells = <<>> /\ selected = 1 /\ edit = NoEdit /\ dirty = FALSE
    /\ nextExecution = 1 /\ context = 1 /\ replay = 0

----------------------------------------------------------------------------
(* insert_cell: later cells move down one place, and with them the owners, *)
(* the selection and the cell being edited.                                *)

\* Variant: the owners of moved outputs are not adjusted.
MovedAsItWas(c, k) == c

Moved(c, k) == IF IsOutput(c.kind) /\ c.owner >= k THEN [c EXCEPT !.owner = @ + 1] ELSE c

Inserted(k, c) ==
    [i \in 1 .. Count + 1 |->
        IF i < k THEN cells[i] ELSE IF i = k THEN c ELSE Moved(cells[i - 1], k)]

\* Variant: the selected card is taken to stay when the new one lands on it.
MovedSelectionAbove(at, k) == IF at > k /\ Count > 0 THEN at + 1 ELSE at

MovedSelection(at, k) == IF at >= k /\ Count > 0 THEN at + 1 ELSE at
\* Variant: the editor keeps its index.
MovedEditNever(ed, k) == ed

MovedEdit(ed, k) == IF ed # NoEdit /\ ed.index >= k THEN [ed EXCEPT !.index = @ + 1] ELSE ed

InsertCell(k, c) ==
    /\ Count < MaxCells
    /\ cells' = Inserted(k, c)
    /\ dirty' = TRUE

Idle == replay = 0

AddMarkdown(heading, body) ==
    /\ Idle
    /\ InsertCell(Count + 1, NewCell("markdown", heading, body))
    /\ UNCHANGED <<selected, edit, nextExecution, context, replay>>

AddInput(source) ==
    /\ Idle
    /\ InsertCell(Count + 1, NewCell("input", source, 0))
    /\ UNCHANGED <<selected, edit, nextExecution, context, replay>>

HasOutput(i) == i < Count /\ IsOutput(cells[i + 1].kind) /\ cells[i + 1].owner = i

\* Variant: a new card goes right under the selected one.
RightUnderSelection == IF Count = 0 THEN 1 ELSE selected + 1

AfterSelection ==
    IF Count = 0 THEN 1
    ELSE IF cells[selected].kind = "input" /\ HasOutput(selected)
         THEN selected + 2
         ELSE selected + 1

(* The +MD and +Math buttons: a new card under the selected one, selected  *)
(* and open for editing with the cursor at the end of its text.            *)
InsertAt(kind) ==
    /\ Idle
    /\ LET primary == IF kind = "markdown" /\ 1 < TextCapacity THEN 1 ELSE 0 IN
        /\ InsertCell(AfterSelection, NewCell(kind, primary, 0))
        /\ selected' = AfterSelection
        /\ edit' = [index |-> AfterSelection, secondary |-> FALSE, cursor |-> primary]
    /\ UNCHANGED <<nextExecution, context, replay>>

----------------------------------------------------------------------------
(* phy_notebook_evaluate *)

(* ensure_output reuses the output card under the input or inserts one.    *)
EnsuredCells(i) ==
    IF HasOutput(i) THEN cells
    ELSE Inserted(i + 1, [NewCell("output", 0, 0) EXCEPT !.owner = i])

Parses == {[expression |-> FALSE, secondary |-> 0]}
          \cup {[expression |-> TRUE, secondary |-> n] : n \in Canonical}

(* What the evaluation of a source may come to.  A canonical text that     *)
(* does not fit fails the cell before the evaluator runs; a source without *)
(* one may still succeed, as Clear does, whose output stores Null.         *)
(* "wedged" and "rebuilt" are failures after which the canary node could   *)
(* not be interned, and the rebuild failed or succeeded.                   *)
Results(parse) ==
    {"failed", "wedged", "rebuilt"}
    \cup (IF parse.secondary < DetailCapacity THEN {"ok"} ELSE {})

\* Variant: an input that saturates the context is not quarantined.
RanInputTrusted(c, number, parse, result) ==
    [c EXCEPT !.execution = number, !.secondary = parse.secondary,
              !.expression = IF parse.expression THEN context ELSE NullRef,
              !.failed = result # "ok", !.stale = FALSE, !.poisoned = FALSE]

RanInput(c, number, parse, result) ==
    [c EXCEPT !.execution = number, !.secondary = parse.secondary,
              !.expression = IF parse.expression THEN context ELSE NullRef,
              !.failed = result # "ok", !.stale = FALSE,
              !.poisoned = result \in {"wedged", "rebuilt"}]

RanOutput(c, i, number, result) ==
    [c EXCEPT !.kind = IF result = "ok" THEN "output" ELSE "error",
              !.primary = 0, !.expression = IF result = "ok" THEN context ELSE NullRef,
              !.failed = result # "ok", !.execution = number, !.owner = i,
              !.stale = FALSE]

MarkedStale(c) == [c EXCEPT !.stale = @ \/ c.kind # "markdown"]

Evaluated(cs, i, number, parse, result) ==
    [j \in 1 .. Len(cs) |->
        IF j = i THEN RanInput(cs[j], number, parse, result)
        ELSE IF j = i + 1 THEN RanOutput(cs[j], i, number, result)
        ELSE IF j > i + 1 THEN MarkedStale(cs[j])
        ELSE cs[j]]

(* rebuild_context reads every expression again into a new context: an     *)
(* input's from its canonical text, another cell's through a buffer of     *)
(* 2048 bytes.  Each may fail, by that buffer, by a limit or for want of   *)
(* memory while both contexts are alive, and no status is looked at: the   *)
(* expressions that are carried over are a choice.                         *)
MayMigrate(c) == IF c.kind = "input" THEN c.secondary > 0 ELSE c.expression # NullRef

Migrated(c, carried) ==
    [MarkedStale(c) EXCEPT !.expression = IF carried THEN NextContext ELSE NullRef]

Rebuilt(cs, carried) == [j \in DOMAIN cs |-> Migrated(cs[j], j \in carried)]

(* No room for the output card: the input is only taken out of quarantine. *)
EvaluationRefused(i, at, ed) ==
    /\ ~HasOutput(i) /\ Count >= MaxCells
    /\ cells' = [cells EXCEPT ![i].poisoned = FALSE]
    /\ selected' = at /\ edit' = ed
    /\ UNCHANGED <<dirty, nextExecution, context>>

EvaluationRun(i, at, ed) ==
    /\ HasOutput(i) \/ Count < MaxCells
    /\ \E parse \in Parses : \E result \in Results(parse) :
        LET number == IF cells[i].execution = 0 THEN nextExecution ELSE cells[i].execution
            ran == Evaluated(EnsuredCells(i), i, number, parse, result)
        IN  IF result = "rebuilt"
            THEN /\ \E carried \in SUBSET {j \in DOMAIN ran : MayMigrate(ran[j])} :
                        cells' = Rebuilt(ran, carried)
                 /\ context' = NextContext
            ELSE cells' = ran /\ UNCHANGED context
    /\ nextExecution' = IF cells[i].execution = 0 THEN nextExecution + 1 ELSE nextExecution
    /\ selected' = IF HasOutput(i) THEN at ELSE MovedSelection(at, i + 1)
    /\ edit' = IF HasOutput(i) THEN ed ELSE MovedEdit(ed, i + 1)
    /\ dirty' = TRUE

Evaluation(i, at, ed) == EvaluationRefused(i, at, ed) \/ EvaluationRun(i, at, ed)

IsInput(i) == i \in 1 .. Count /\ cells[i].kind = "input"

Evaluate(i) == Idle /\ IsInput(i) /\ Evaluation(i, selected, edit) /\ UNCHANGED replay

(* The RUN badge of a card, and ENTER on the selected input.               *)
RunAt(i) == Idle /\ IsInput(i) /\ Evaluation(i, i, NoEdit) /\ UNCHANGED replay
ActivateSelected ==
    Idle /\ IsInput(selected) /\ Evaluation(selected, selected, NoEdit) /\ UNCHANGED replay

----------------------------------------------------------------------------
(* phy_notebook_evaluate_all, one step for each turn of its loop           *)

\* Variant: the replay begins at the selected card.
EvaluateAllFromSelection ==
    /\ Idle
    /\ replay' = selected
    /\ UNCHANGED <<cells, selected, edit, dirty, nextExecution, context>>

EvaluateAll ==
    /\ Idle
    /\ replay' = 1
    /\ UNCHANGED <<cells, selected, edit, dirty, nextExecution, context>>

ReplaySkips ==
    /\ replay \in 1 .. Count
    /\ cells[replay].kind # "input" \/ cells[replay].poisoned
    /\ replay' = replay + 1
    /\ UNCHANGED <<cells, selected, edit, dirty, nextExecution, context>>

\* Variant: the replay goes on after a rebuild.
ReplayRunsOn ==
    /\ IsInput(replay) /\ ~cells[replay].poisoned
    /\ Evaluation(replay, selected, edit)
    /\ replay' = replay + 1

(* A rebuild discarded every binding, so the replay starts over.           *)
ReplayRuns ==
    /\ IsInput(replay) /\ ~cells[replay].poisoned
    /\ Evaluation(replay, selected, edit)
    /\ replay' = IF context' # context THEN 1 ELSE replay + 1

ReplayEnds ==
    /\ replay = Count + 1
    /\ replay' = 0
    /\ UNCHANGED <<cells, selected, edit, dirty, nextExecution, context>>

Replay == ReplaySkips \/ ReplayRuns \/ ReplayEnds

----------------------------------------------------------------------------
(* Selection *)

Select(i) ==
    /\ Idle /\ i \in 1 .. Count
    /\ selected' = i /\ edit' = NoEdit
    /\ UNCHANGED <<cells, dirty, nextExecution, context, replay>>

SelectNext(forward) ==
    /\ Idle /\ Count > 0
    /\ selected' = IF forward THEN (selected % Count) + 1
                   ELSE IF selected = 1 THEN Count ELSE selected - 1
    /\ edit' = NoEdit
    /\ UNCHANGED <<cells, dirty, nextExecution, context, replay>>

----------------------------------------------------------------------------
(* The character editor *)

InSecondary(c, second) == c.kind = "markdown" /\ second
TextLength(c, second) == IF InSecondary(c, second) THEN c.secondary ELSE c.primary
Capacity(c, second) == IF InSecondary(c, second) THEN DetailCapacity ELSE TextCapacity

EditedCell == cells[edit.index]
EditedLength == TextLength(EditedCell, edit.secondary)

(* A press inside a card opens its text where the pointer is; a press on   *)
(* an output only selects it.                                              *)
BeginEditAt(i, second, cursor) ==
    /\ Idle /\ i \in 1 .. Count
    /\ IsSource(cells[i].kind)
    /\ second => cells[i].kind = "markdown"
    /\ cursor \in 0 .. TextLength(cells[i], second)
    /\ selected' = i
    /\ edit' = [index |-> i, secondary |-> second, cursor |-> cursor]
    /\ UNCHANGED <<cells, dirty, nextExecution, context, replay>>

BeginEditSelected ==
    /\ Idle /\ selected <= Count
    /\ IsSource(cells[selected].kind)
    /\ edit' = [index |-> selected, secondary |-> FALSE, cursor |-> cells[selected].primary]
    /\ UNCHANGED <<cells, selected, dirty, nextExecution, context, replay>>

EndEdit ==
    /\ Idle /\ Editing
    /\ edit' = NoEdit
    /\ UNCHANGED <<cells, selected, dirty, nextExecution, context, replay>>

\* Variant: only the input is marked.
SourceStaleAlone(cs) ==
    IF cs[edit.index].kind = "input" THEN [cs EXCEPT ![edit.index].stale = TRUE] ELSE cs

(* mark_source_stale: an edited input and the output under it.             *)
SourceStale(cs) ==
    LET e == edit.index IN
    IF cs[e].kind # "input" THEN cs
    ELSE [j \in DOMAIN cs |->
            IF j = e \/ (j = e + 1 /\ HasOutput(e)) THEN [cs[j] EXCEPT !.stale = TRUE] ELSE cs[j]]

WithLength(n) ==
    [cells EXCEPT ![edit.index] =
        IF InSecondary(EditedCell, edit.secondary)
        THEN [@ EXCEPT !.secondary = n] ELSE [@ EXCEPT !.primary = n]]

\* Variant: an edit does not count as a change.
EditTextQuietly(n, cursor) ==
    /\ cells' = SourceStale(WithLength(n))
    /\ edit' = [edit EXCEPT !.cursor = cursor]
    /\ UNCHANGED <<dirty, selected, nextExecution, context, replay>>

EditText(n, cursor) ==
    /\ cells' = SourceStale(WithLength(n))
    /\ edit' = [edit EXCEPT !.cursor = cursor]
    /\ dirty' = TRUE
    /\ UNCHANGED <<selected, nextExecution, context, replay>>

\* Variant: no room is left for the NUL.
EditInsertTextFull(length, offset) ==
    /\ Idle /\ Editing
    /\ length > 0 /\ offset <= length
    /\ EditedLength + length <= Capacity(EditedCell, edit.secondary)
    /\ edit.cursor <= EditedLength
    /\ EditText(EditedLength + length, edit.cursor + offset)

EditInsertText(length, offset) ==
    /\ Idle /\ Editing
    /\ length > 0 /\ offset <= length
    /\ EditedLength + length < Capacity(EditedCell, edit.secondary)
    /\ edit.cursor <= EditedLength
    /\ EditText(EditedLength + length, edit.cursor + offset)

Lesser(m, n) == IF m <= n THEN m ELSE n

EditBackspace ==
    /\ Idle /\ Editing /\ edit.cursor > 0
    /\ EditText(EditedLength - 1, Lesser(edit.cursor, EditedLength) - 1)

MoveCursor(to) ==
    /\ edit' = [edit EXCEPT !.cursor = to]
    /\ UNCHANGED <<cells, selected, dirty, nextExecution, context, replay>>

EditMove(forward) ==
    /\ Idle /\ Editing
    /\ IF forward THEN edit.cursor < EditedLength /\ MoveCursor(edit.cursor + 1)
       ELSE edit.cursor > 0 /\ MoveCursor(edit.cursor - 1)

EditMoveLine(forward) ==
    /\ Idle /\ Editing /\ InSecondary(EditedCell, edit.secondary)
    /\ LET at == Lesser(edit.cursor, EditedLength) IN
       IF forward
       THEN MoveCursor(IF at \div Columns = EditedLength \div Columns THEN at
                       ELSE Lesser(at + Columns, EditedLength))
       ELSE MoveCursor(IF at < Columns THEN at ELSE at - Columns)

EditSwitchField ==
    /\ Idle /\ Editing /\ EditedCell.kind = "markdown"
    /\ edit' = [edit EXCEPT !.secondary = ~@, !.cursor = TextLength(EditedCell, ~edit.secondary)]
    /\ UNCHANGED <<cells, selected, dirty, nextExecution, context, replay>>

----------------------------------------------------------------------------
Lengths == 0 .. TextCapacity - 1
Details == 0 .. DetailCapacity - 1
Positions == 1 .. MaxCells

Build ==
    \/ \E heading \in Lengths, body \in Details : AddMarkdown(heading, body)
    \/ \E source \in Lengths : AddInput(source)
    \/ \E kind \in {"markdown", "input"} : InsertAt(kind)

Run == (\E i \in Positions : Evaluate(i) \/ RunAt(i)) \/ ActivateSelected

Navigate ==
    \/ \E i \in Positions : Select(i)
    \/ \E forward \in BOOLEAN : SelectNext(forward)
    \/ \E i \in Positions, second \in BOOLEAN, cursor \in Lengths \cup Details :
        BeginEditAt(i, second, cursor)
    \/ BeginEditSelected
    \/ EndEdit

EditStep ==
    \/ \E length \in Lengths \cup Details : \E offset \in 0 .. length :
        EditInsertText(length, offset)
    \/ EditBackspace
    \/ \E forward \in BOOLEAN : EditMove(forward) \/ EditMoveLine(forward)
    \/ EditSwitchField

NotebookNext == Build \/ Run \/ Navigate \/ EditStep \/ EvaluateAll \/ Replay

(* Run all is a loop inside one call: once begun it keeps turning.         *)
NotebookSpec == NotebookInit /\ [][NotebookNext]_notebookVars /\ WF_notebookVars(Replay)

----------------------------------------------------------------------------
(* Every variable holds what its declaration allows.                       *)
NotebookTypeOK ==
    /\ cells \in Seq(Cells) /\ Count <= MaxCells
    /\ selected \in 1 .. MaxCells + 1
    /\ edit \in [index : 0 .. MaxCells, secondary : BOOLEAN,
                 cursor : 0 .. TextCapacity + DetailCapacity]
    /\ dirty \in BOOLEAN /\ nextExecution \in 1 .. MaxCells + 1
    /\ context \in Contexts /\ replay \in 0 .. MaxCells + 1

(* insert_cell, ensure_output and the insertion buttons never separate an  *)
(* output card from the input above it that owns it: ensure_output would   *)
(* grow a second card, and the codec refuses a document of another shape.  *)
OutputFollowsItsInput ==
    \A i \in 1 .. Count :
        IsOutput(cells[i].kind) =>
            i > 1 /\ cells[i].owner = i - 1 /\ cells[i - 1].kind = "input"

(* The selection and the editor name a card that exists; the editor, one   *)
(* with an editable text, and the cursor is inside it.  edit_switch_field  *)
(* and edit_backspace index the cell array and the text without a check    *)
(* that would stop them otherwise.                                         *)
EditTargetIsEditable ==
    /\ selected <= Count \/ (Count = 0 /\ selected = 1)
    /\ Editing => /\ edit.index \in 1 .. Count
                  /\ IsSource(EditedCell.kind)
                  /\ edit.cursor <= EditedLength

(* In[n] and Out[n] pair up: no two inputs share a number, no number is    *)
(* one the next evaluation will hand out, and an output carries the number *)
(* of its input, whatever is inserted between the evaluations.             *)
ExecutionNumbersPairUp ==
    /\ \A i, j \in 1 .. Count :
        cells[i].kind = "input" /\ cells[j].kind = "input" /\ i # j /\ cells[i].execution # 0
            => cells[i].execution # cells[j].execution
    /\ \A i \in 1 .. Count :
        /\ cells[i].execution < nextExecution
        /\ IsOutput(cells[i].kind) => cells[i].execution = cells[i - 1].execution

(* An expression a cell shows was interned in the context that is alive:   *)
(* rebuild_context destroys the old one and every node in it.              *)
ExpressionsAreAlive ==
    \A i \in 1 .. Count : cells[i].expression \in {NullRef, context}

(* No edit goes untold: whenever an input that worked is marked stale, so  *)
(* is the output under it.  (A load marks an input it cannot read as       *)
(* failed and stale, and leaves the output as it was stored.)              *)
StaleSourceStaleResult ==
    \A i \in 1 .. Count :
        IsOutput(cells[i].kind) /\ cells[i - 1].stale /\ ~cells[i - 1].failed => cells[i].stale

(* What indices and numbers tie together stays together, whatever is       *)
(* inserted or run between: outputs, the editor and the counters.          *)
CardsHoldTogether == OutputFollowsItsInput /\ EditTargetIsEditable /\ ExecutionNumbersPairUp

(* What a cell shows is of now: its expression of the context that is      *)
(* alive, its result of the source above it.                               *)
NothingOutdatedShows == ExpressionsAreAlive /\ StaleSourceStaleResult

IdOf(k) == IF k \in 1 .. Count THEN cells[k].id ELSE 0
SelectedId == IdOf(selected)
EditedId == IdOf(edit.index)

(* The cards Run all inserts move neither the selection nor the editor to  *)
(* another card: insert_cell shifts both indices past the new card.        *)
RunAllKeepsTheUsersPlace ==
    [][replay # 0 => SelectedId' = SelectedId /\ EditedId' = EditedId]_notebookVars

(* When Run all returns, every input it could run holds a result of this   *)
(* very replay: whatever it evaluated before a rebuild it evaluated again. *)
(* What is left stale is in quarantine, or has no room for its output.     *)
ReplayLeavesItFresh ==
    [][ replay # 0 /\ replay' = 0
        => \A i \in 1 .. Count :
             cells[i].kind = "input" /\ ~cells[i].poisoned /\ HasOutput(i)
                => ~cells[i].stale /\ ~cells[i + 1].stale ]_notebookVars

(* evaluate_all ends however many inputs saturate the context: each        *)
(* restart quarantines one more.                                           *)
ReplayConverges == replay # 0 ~> replay = 0
=============================================================================
