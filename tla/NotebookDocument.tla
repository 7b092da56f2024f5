-------------------------- MODULE NotebookDocument --------------------------
(***************************************************************************)
(* The notebook and its PHYNB001 document (src/notebook/document.c): what  *)
(* a save writes of the cells, which documents a load accepts, and what it *)
(* makes of a text that no longer parses.  Writing the bytes to disk is    *)
(* AtomicSave; here a save that serializes is a save that is stored.       *)
(***************************************************************************)
EXTENDS Notebook

VARIABLE document       \* the stored document: records and next_execution

documentVars == <<notebookVars, document>>

(* write_record_header and the three texts: everything of a cell but its   *)
(* quarantine, and the expression of all but an input, as text.            *)
Record(c) ==
    [kind |-> c.kind, stale |-> c.stale, failed |-> c.failed, execution |-> c.execution,
     owner |-> c.owner, primary |-> c.primary, secondary |-> c.secondary,
     tree |-> c.kind # "input" /\ c.expression # NullRef]

Document == [records |-> [i \in 1 .. Count |-> Record(cells[i])], next |-> nextExecution]

(* document_required_size refuses a text that fills its buffer.            *)
Serializes == \A i \in 1 .. Count : cells[i].secondary < DetailCapacity

SaveDocument ==
    /\ Idle /\ Serializes
    /\ document' = Document
    /\ dirty' = FALSE
    /\ UNCHANGED <<cells, selected, edit, nextExecution, context, replay>>

(* valid_cell_shape                                                        *)
ShapeValid(r, i) ==
    IsOutput(r[i].kind) => i > 1 /\ r[i].owner = i - 1 /\ r[i - 1].kind = "input"

(* A successful output with neither a descriptor nor an expression is a    *)
(* truncated record, unless it comes from a Clear; a Clear now stores Null.*)
Truncated(r, i) == r[i].kind = "output" /\ ~r[i].failed /\ r[i].primary = 0 /\ ~r[i].tree

Loads(d) == \A i \in DOMAIN d.records : ShapeValid(d.records, i) /\ ~Truncated(d.records, i)

HasText(r) == IF r.kind = "input" THEN r.secondary > 0 ELSE r.tree

(* A text this application cannot read costs its cell the expression, not  *)
(* the document.                                                           *)
Loaded(r, i, degraded) ==
    LET c == [id |-> i, kind |-> r[i].kind, primary |-> r[i].primary,
              secondary |-> r[i].secondary,
              expression |-> IF HasText(r[i]) THEN NextContext ELSE NullRef,
              failed |-> r[i].failed, execution |-> r[i].execution,
              owner |-> r[i].owner, stale |-> r[i].stale, poisoned |-> FALSE]
    IN  IF i \in degraded
        THEN [c EXCEPT !.expression = NullRef, !.failed = TRUE, !.stale = TRUE]
        ELSE c

(* phy_notebook_deserialize builds a new notebook, with a context of its   *)
(* own, and the workspace puts it in the place of the old one.             *)
Load ==
    /\ Idle /\ Loads(document)
    /\ LET r == document.records IN
       \E degraded \in SUBSET {i \in DOMAIN r : HasText(r[i])} :
           cells' = [i \in DOMAIN r |-> Loaded(r, i, degraded)]
    /\ nextExecution' = document.next
    /\ context' = NextContext
    /\ selected' = 1 /\ edit' = NoEdit /\ dirty' = FALSE
    /\ UNCHANGED <<replay, document>>

DocumentInit == NotebookInit /\ document = Document

DocumentNext == (NotebookNext /\ UNCHANGED document) \/ SaveDocument \/ Load

(* One session, from a new notebook on, with nothing stored or loaded.     *)
SessionSpec ==
    /\ DocumentInit /\ [][NotebookNext /\ UNCHANGED document]_documentVars
    /\ WF_notebookVars(Replay)

DocumentSpec == DocumentInit /\ [][DocumentNext]_documentVars

----------------------------------------------------------------------------
(* The stored document is made of records of cells.                        *)
DocumentTypeOK ==
    /\ NotebookTypeOK
    /\ document.next \in 1 .. MaxCells + 1
    /\ Len(document.records) <= MaxCells

SameText(r, s) ==
    r.kind = s.kind /\ r.primary = s.primary /\ r.secondary = s.secondary
    /\ r.execution = s.execution /\ r.owner = s.owner

(* A notebook that claims to be saved holds what the document holds, but   *)
(* for texts the load could not read, which it shows as stale failures:    *)
(* every operation that changes a stored field sets dirty, staleness and   *)
(* execution numbers included, and only a save or a load clears it.        *)
CleanMeansSaved ==
    ~dirty =>
        /\ Count = Len(document.records) /\ nextExecution = document.next
        /\ \A i \in 1 .. Count :
            LET r == document.records[i]
                s == Record(cells[i])
            IN  r = s \/ (SameText(r, s) /\ s.stale /\ s.failed /\ ~s.tree)

(* Whatever a save would store now, a load accepts: "Output expressions    *)
(* longer than the migration buffer lose their cached tree; their value    *)
(* was going stale either way, and re-running the cell recomputes the      *)
(* structured result" (notebook.c:556) -- in a document that still opens.  *)
SavedDocumentReopens == Serializes => Loads(Document)

(* The only records a load refuses are those of results that have gone     *)
(* stale: insertions, runs, edits and rebuilds keep the shape              *)
(* valid_cell_shape looks for, and a result that is of now has its tree.   *)
OnlyStaleResultsAreLost ==
    \A i \in 1 .. Count :
        /\ ShapeValid(Document.records, i)
        /\ Truncated(Document.records, i) => cells[i].stale

(* When Run all returns, what a save would store a load accepts, whichever *)
(* expressions rebuilds lost before it or during it: that is what          *)
(* "re-running the cell recomputes the structured result" (notebook.c:556) *)
(* can mean at most.  A result whose source is in quarantine is an error.  *)
RunAllMakesItReopen ==
    [][replay # 0 /\ replay' = 0 => SavedDocumentReopens]_notebookVars

(* "Cell source remains separate from evaluated IR so a failed calculation *)
(* never makes the document unsaveable" (notebook.h:5).                    *)
AlwaysSaveable == Serializes
=============================================================================
