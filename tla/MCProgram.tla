------------------------------ MODULE MCProgram ------------------------------
(* The notebook program, one part at a time: side names the part a         *)
(* behaviour is about, the variables of the others keep their initial      *)
(* values.                                                                 *)
(*   "disk"      a save that may crash and fail at any calls: two          *)
(*               notebooks, two documents, so that a save finds the        *)
(*               scratch leaves another one left behind                    *)
(*   "orderly"   a save that may fail twice and finds the file that is     *)
(*               there: only of this one is the store's promise true       *)
(*   "shell"     the event loop: two suggestions and one other name, two   *)
(*               drafts, so that one of them is not on disk                *)
(*   "session"   four cards, two inputs with their outputs, so that a      *)
(*               rebuild under the second throws away what the first did;  *)
(*               sources stay empty, nothing that is checked reads them    *)
(*   "document"  two cards with longer texts beside the document that      *)
(*               holds an earlier state of them, with saves and loads      *)
EXTENDS AtomicSave, AppShell, NotebookDocument

CONSTANTS n1, n2, m, d1, d2, Sides

VARIABLE side

MCNames == {n1, n2}
MCDocuments == {d1, d2}
MCSuggestions == <<n1, n2>>
MCTypedNames == {m}
MCShort == {1}
MCLong == 1 .. DetailCapacity

Orderly == INSTANCE AtomicSave WITH MaxFaults <- 2, ProbeMayFail <- FALSE, MayCrash <- FALSE
Longer == INSTANCE NotebookDocument WITH
              MaxCells <- 2, TextCapacity <- 2, Canonical <- 1 .. 2

allVars == <<vars, shellVars, documentVars, side>>

Kept(parts) == UNCHANGED <<parts, side>>
DiskStep == side = "disk" /\ Next /\ Kept(<<shellVars, documentVars>>)
OrderlyStep == side = "orderly" /\ Orderly!Next /\ Kept(<<shellVars, documentVars>>)
ShellStep == side = "shell" /\ ShellNext /\ Kept(<<vars, documentVars>>)
SessionStep == side = "session" /\ NotebookNext /\ Kept(<<vars, shellVars, document>>)
DocumentStep == side = "document" /\ Longer!DocumentNext /\ Kept(<<vars, shellVars>>)

MCInit == /\ Init /\ ShellInit /\ DocumentInit /\ side \in Sides
          /\ side \notin {"disk", "orderly"} => name = n1 /\ buffer = d1
MCNext == DiskStep \/ OrderlyStep \/ ShellStep \/ SessionStep \/ DocumentStep
MCSpec == /\ MCInit /\ [][MCNext]_allVars
          /\ WF_allVars(side = "session" /\ Replay /\ Kept(<<vars, shellVars, document>>))
          /\ WF_allVars(side = "document" /\ Longer!Replay /\ Kept(<<vars, shellVars, document>>))

\* An orderly behaviour implements NotebookStore: whatever call fails, and one
\* more on the way back, a save replaces one notebook or changes nothing,
\* between the names and the scratch leaves that the calls of
\* phy_storage_write_notebook_atomic move the files through.
OrderlyStore == INSTANCE NotebookStore WITH
                   stored <- IF side = "orderly" THEN Stored ELSE [n \in Names |-> Absent],
                   Contents <- Contents
OrderlySavesAreAtomic == OrderlyStore!Spec
=============================================================================
