------------------------------ MODULE AppShell ------------------------------
(***************************************************************************)
(* The event loop of src/app/app.c with the workspace under it             *)
(* (src/notebook/workspace.c): which view is up, what the user asked for   *)
(* and has still to confirm, the current notebook with its file name, and  *)
(* the notebooks on disk.  A save is one step of NotebookStore, which      *)
(* AtomicSave implements; a draft stands for everything the cells hold     *)
(* (Notebook, NotebookDocument).  Which row of a menu or list is           *)
(* highlighted is left out: the arrow keys reach every row, and a press    *)
(* picks one directly.                                                     *)
(***************************************************************************)
EXTENDS Naturals, Sequences, FiniteSets

CONSTANTS
    Suggestions,    \* Notebook-001.tns, Notebook-002.tns, ... in order
    TypedNames,     \* other valid names the user may type
    Drafts,         \* what a notebook with work in it may hold
    Blank,          \* what a new notebook holds
    NoFile,         \* no such file
    NoName,         \* has_filename is false, and an invalid edit_name
    MaxFiles        \* PHY_STORAGE_MAX_FILES

NotebookTexts == Drafts \cup {Blank}
Suggested == {Suggestions[i] : i \in DOMAIN Suggestions}
FileNames == Suggested \cup TypedNames

ASSUME DraftAssumption == Blank \notin Drafts /\ NoFile \notin NotebookTexts
ASSUME NameAssumption == NoName \notin FileNames
ASSUME MaxFilesAssumption == MaxFiles \in Nat

VARIABLES
    stored,         \* the document under each name
    workspace,      \* the notebook's content, its dirty flag and editor, filename
    view,
    pending,
    editName,       \* edit_name of the Save As view
    catalog,        \* the names Open lists, as they were when it came up
    running,
    asked,          \* what the user last asked for and did not take back
    agreed,         \* the user chose Discard for what was asked
    typed           \* edit_name is not the suggestion any more

ui == <<view, pending, editName, catalog>>
user == <<asked, agreed, typed>>
shellVars == <<stored, workspace, ui, running, user>>

Disk == INSTANCE NotebookStore WITH
            Names <- FileNames, Documents <- NotebookTexts, Absent <- NoFile,
            Contents <- NotebookTexts \cup {NoFile}

Requests == {"none", "new", "open", "quit"}
Views == {"notebook", "fileMenu", "saveAs", "open", "dirtyConfirm", "palette"}

Workspaces ==
    [content : NotebookTexts, dirty : BOOLEAN, filename : FileNames \cup {NoName}, editing : BOOLEAN]

Empty == [content |-> Blank, dirty |-> FALSE, filename |-> NoName, editing |-> FALSE]

ShellInit ==
    /\ Disk!Init
    /\ workspace = Empty /\ view = "notebook" /\ pending = "none"
    /\ editName = NoName /\ catalog = {} /\ running = TRUE
    /\ asked = "none" /\ agreed = FALSE /\ typed = FALSE

(* phy_app_run is entered again: nothing but the files is left.            *)
Launch ==
    /\ ~running
    /\ workspace' = Empty /\ view' = "notebook" /\ pending' = "none"
    /\ editName' = NoName /\ catalog' = {} /\ running' = TRUE
    /\ asked' = "none" /\ agreed' = FALSE /\ typed' = FALSE
    /\ UNCHANGED stored

----------------------------------------------------------------------------
(* Workspace and catalog *)

Files == {n \in FileNames : stored[n] # NoFile}

(* The directory is read in no particular order and only the first         *)
(* PHY_STORAGE_MAX_FILES names found are kept.                             *)
Catalogs ==
    IF Cardinality(Files) <= MaxFiles THEN {Files}
    ELSE {c \in SUBSET Files : Cardinality(c) = MaxFiles}

\* Variant: the first number is not looked up.
SuggestsFirst(c, n) == n = Suggestions[1]

Suggests(c, n) ==
    \E i \in DOMAIN Suggestions :
        /\ n = Suggestions[i] /\ n \notin c
        /\ \A j \in 1 .. i - 1 : Suggestions[j] \in c

(* phy_workspace_save, phy_workspace_open and phy_workspace_new, where     *)
(* they succeed.  Where they fail they change nothing.                     *)
Saved(w, n) == [w EXCEPT !.filename = n, !.dirty = FALSE]
Opened(w, n) ==
    [content |-> stored[n], dirty |-> FALSE, filename |-> n, editing |-> FALSE]

----------------------------------------------------------------------------
(* Requests that would replace the notebook or leave the program *)

BeginOpen ==
    \/ view' = "open" /\ catalog' \in Catalogs
    \/ catalog' = {} /\ UNCHANGED view      \* the directory cannot be read

(* What New, Open and Quit do once nothing stands in the way, to the       *)
(* workspace w the steps before left.                                      *)
Perform(request, w) ==
    \/ /\ request = "none" /\ view' = "notebook"
       /\ workspace' = w /\ UNCHANGED <<catalog, running>>
    \/ /\ request = "new" /\ view' = "notebook"
       /\ workspace' \in {Empty, w}         \* w: no memory for another one
       /\ UNCHANGED <<catalog, running>>
    \/ /\ request = "open" /\ BeginOpen
       /\ workspace' = w /\ UNCHANGED running
    \/ /\ request = "quit" /\ running' = FALSE
       /\ workspace' = w /\ UNCHANGED <<view, catalog>>

\* Variant: only a notebook with a name is asked about.
RequestPendingNamed(request) ==
    /\ asked' = request /\ agreed' = FALSE
    /\ \/ /\ workspace.dirty /\ workspace.filename # NoName
          /\ pending' = request /\ view' = "dirtyConfirm"
          /\ UNCHANGED <<workspace, catalog, running>>
       \/ /\ ~workspace.dirty \/ workspace.filename = NoName
          /\ Perform(request, workspace) /\ UNCHANGED pending
    /\ UNCHANGED <<stored, editName, typed>>

RequestPending(request) ==
    /\ asked' = request /\ agreed' = FALSE
    /\ \/ /\ workspace.dirty
          /\ pending' = request /\ view' = "dirtyConfirm"
          /\ UNCHANGED <<workspace, catalog, running>>
       \/ /\ ~workspace.dirty
          /\ Perform(request, workspace) /\ UNCHANGED pending
    /\ UNCHANGED <<stored, editName, typed>>

CompletePending(w) == pending' = "none" /\ Perform(pending, w)

(* The workspace stores the notebook as n; after that, what?               *)
SaveDone(n) == Disk!Replace(n, workspace.content)
SaveFailed == UNCHANGED <<stored, workspace, ui, running, user>>

BeginSaveAs ==
    \/ /\ \E c \in Catalogs : \E n \in Suggested : Suggests(c, n) /\ editName' = n
       /\ view' = "saveAs" /\ typed' = FALSE
       /\ UNCHANGED <<stored, workspace, pending, catalog, running, asked, agreed>>
    \/ /\ editName' \in {editName, NoName}  \* no directory, or no name is free
       /\ UNCHANGED <<stored, workspace, view, pending, catalog, running, user>>

----------------------------------------------------------------------------
(* The notebook view *)

InNotebook == running /\ view = "notebook"

(* Keys and presses that insert, edit or run cells.                        *)
ChangeNotebook ==
    /\ InNotebook
    /\ \E d \in Drafts, editing \in BOOLEAN :
        workspace' = [workspace EXCEPT !.content = d, !.dirty = TRUE, !.editing = editing]
    /\ UNCHANGED <<stored, ui, running, user>>

(* Those that select a cell, move the cursor, open or close the editor.    *)
MoveAround ==
    /\ InNotebook
    /\ \E editing \in BOOLEAN : workspace' = [workspace EXCEPT !.editing = editing]
    /\ UNCHANGED <<stored, ui, running, user>>

EscapeNotebook ==
    /\ InNotebook
    /\ IF workspace.editing
       THEN workspace' = [workspace EXCEPT !.editing = FALSE]
            /\ UNCHANGED <<stored, ui, running, user>>
       ELSE RequestPending("quit")

\* Variant: a request left unanswered is still there.
BeginFileMenuPending ==
    /\ InNotebook /\ ~workspace.editing
    /\ view' = "fileMenu" /\ asked' = "none"
    /\ UNCHANGED <<stored, workspace, pending, editName, catalog, running, agreed, typed>>

BeginFileMenu ==
    /\ InNotebook /\ ~workspace.editing
    /\ view' = "fileMenu" /\ pending' = "none" /\ asked' = "none"
    /\ UNCHANGED <<stored, workspace, editName, catalog, running, agreed, typed>>

\* Variant: MENU brings it up whatever is selected.
BeginPaletteAnywhere ==
    /\ InNotebook
    /\ view' = "palette"
    /\ UNCHANGED <<stored, workspace, pending, editName, catalog, running, user>>

BeginPalette ==
    /\ InNotebook /\ workspace.editing
    /\ view' = "palette"
    /\ UNCHANGED <<stored, workspace, pending, editName, catalog, running, user>>

----------------------------------------------------------------------------
(* The modal views *)

Back(request) ==
    /\ view' = "notebook" /\ pending' = request /\ asked' = "none"
    /\ UNCHANGED <<stored, workspace, editName, catalog, running, agreed, typed>>

(* ESC takes a request back; only the prompt also forgets it here.         *)
EscapeModal ==
    /\ running /\ view # "notebook"
    /\ Back(IF view = "dirtyConfirm" THEN "none" ELSE pending)

MenuNew == running /\ view = "fileMenu" /\ RequestPending("new")
MenuOpen == running /\ view = "fileMenu" /\ RequestPending("open")

MenuSave ==
    /\ running /\ view = "fileMenu"
    /\ IF workspace.filename = NoName THEN BeginSaveAs
       ELSE \/ SaveFailed
            \/ /\ SaveDone(workspace.filename)
               /\ workspace' = Saved(workspace, workspace.filename) /\ view' = "notebook"
               /\ UNCHANGED <<pending, editName, catalog, running, user>>

(* Runs every input: some cell changes, or there was none to run.          *)
MenuRunAll ==
    /\ running /\ view = "fileMenu"
    /\ workspace' \in {workspace}
         \cup {[workspace EXCEPT !.content = d, !.dirty = TRUE] : d \in Drafts}
    /\ view' = "notebook"
    /\ UNCHANGED <<stored, pending, editName, catalog, running, user>>

DirtySave ==
    /\ running /\ view = "dirtyConfirm"
    /\ IF workspace.filename = NoName THEN BeginSaveAs
       ELSE \/ SaveFailed
            \/ /\ SaveDone(workspace.filename)
               /\ CompletePending(Saved(workspace, workspace.filename))
               /\ UNCHANGED <<editName, user>>

DirtyDiscard ==
    /\ running /\ view = "dirtyConfirm"
    /\ agreed' = TRUE /\ CompletePending(workspace)
    /\ UNCHANGED <<stored, editName, asked, typed>>

DirtyCancel == running /\ view = "dirtyConfirm" /\ Back("none")

TypeName ==
    /\ running /\ view = "saveAs"
    /\ editName' \in FileNames \cup {NoName} /\ typed' = TRUE
    /\ UNCHANGED <<stored, workspace, view, pending, catalog, running, asked, agreed>>

\* Variant: a failed save has taken the new name over.
ActivateSaveAsRenames ==
    /\ running /\ view = "saveAs"
    /\ \/ /\ editName # NoName /\ workspace' = Saved(workspace, editName)
          /\ UNCHANGED <<stored, ui, running, user>>
       \/ /\ editName # NoName /\ SaveDone(editName)
          /\ CompletePending(Saved(workspace, editName))
          /\ UNCHANGED <<editName, user>>

ActivateSaveAs ==
    /\ running /\ view = "saveAs"
    /\ \/ SaveFailed
       \/ /\ editName # NoName /\ SaveDone(editName)
          /\ CompletePending(Saved(workspace, editName))
          /\ UNCHANGED <<editName, user>>

(* A file that is gone or does not load leaves everything as it was.       *)
ActivateOpen(n) ==
    /\ running /\ view = "open" /\ n \in catalog
    /\ \/ UNCHANGED <<workspace, view>>
       \/ stored[n] # NoFile /\ workspace' = Opened(workspace, n) /\ view' = "notebook"
    /\ UNCHANGED <<stored, pending, editName, catalog, running, user>>

(* The snippet goes into the text being edited, or does not fit.           *)
ActivatePalette ==
    /\ running /\ view = "palette"
    /\ \/ UNCHANGED <<workspace, view>>
       \/ /\ workspace.editing /\ view' = "notebook"
          /\ \E d \in Drafts : workspace' = [workspace EXCEPT !.content = d, !.dirty = TRUE]
    /\ UNCHANGED <<stored, pending, editName, catalog, running, user>>

(* PHY_EVENT_QUIT, which no platform of this repository raises itself; the *)
(* prompt comes up only over the notebook view.                            *)
QuitEvent ==
    /\ running
    /\ IF view = "notebook" /\ workspace.dirty THEN RequestPending("quit")
       ELSE running' = FALSE /\ asked' = "quit"
            /\ UNCHANGED <<stored, workspace, ui, agreed, typed>>

(* The frame cannot be presented, or was the last one the options allow.   *)
DisplayStops ==
    /\ running /\ running' = FALSE
    /\ UNCHANGED <<stored, workspace, ui, user>>

(* The two ways out of the loop that ask nobody.                           *)
Forced == DisplayStops \/ (QuitEvent /\ view # "notebook")

----------------------------------------------------------------------------
NotebookView == ChangeNotebook \/ MoveAround \/ EscapeNotebook \/ BeginFileMenu \/ BeginPalette
FileMenuView == MenuNew \/ MenuSave \/ MenuOpen \/ MenuRunAll
DirtyConfirmView == DirtySave \/ DirtyDiscard \/ DirtyCancel
ModalView ==
    \/ EscapeModal \/ FileMenuView \/ DirtyConfirmView
    \/ TypeName \/ ActivateSaveAs
    \/ \E n \in FileNames : ActivateOpen(n)
    \/ ActivatePalette

ShellNext == NotebookView \/ ModalView \/ QuitEvent \/ DisplayStops \/ Launch

ShellSpec == ShellInit /\ [][ShellNext]_shellVars

----------------------------------------------------------------------------
(* Every variable holds what its declaration allows, and the palette is up *)
(* only over a text to insert into.                                        *)
ShellTypeOK ==
    /\ stored \in [FileNames -> NotebookTexts \cup {NoFile}]
    /\ workspace \in Workspaces
    /\ view \in Views /\ pending \in Requests /\ asked \in Requests
    /\ view = "palette" => workspace.editing
    /\ editName \in FileNames \cup {NoName} /\ catalog \subseteq FileNames
    /\ running \in BOOLEAN /\ agreed \in BOOLEAN /\ typed \in BOOLEAN

(* A notebook that is not marked modified is on disk under the name it     *)
(* shows, or is new and empty: a failed save or open has changed neither   *)
(* the flag nor the name (workspace.c:90, 133).                            *)
CleanMeansStored ==
    ~workspace.dirty =>
        IF workspace.filename = NoName THEN workspace.content = Blank
        ELSE stored[workspace.filename] = workspace.content

LosesNothing ==
    running /\ workspace.dirty /\ (~running' \/ ~workspace'.dirty)
      => (\E n \in FileNames : stored'[n] = workspace.content) \/ agreed' \/ Forced

(* "a modified document is visibly marked and must not be discarded        *)
(* silently": one that is replaced, or that the program stops over, is on  *)
(* disk by then, or the user chose Discard for this very request.  The     *)
(* exceptions are a PHY_EVENT_QUIT over a modal view (app.c:882) and a     *)
(* display that fails (app.c:855).                                         *)
NoSilentLoss == [][LosesNothing]_shellVars

DoesAsAsked ==
    /\ running /\ ~running' => asked' = "quit" \/ Forced
    /\ view # "open" /\ view' = "open" => asked' = "open"
    /\ running /\ workspace.filename # NoName /\ workspace'.filename = NoName
         => asked' = "new"

(* Whatever happens to the notebook is what the user asked for last and    *)
(* did not take back: a request the user escaped from in the Save As view  *)
(* is still pending, and must not fire after a later save.                 *)
PendingIsWhatWasAsked == [][DoesAsAsked]_shellVars

OverwritesNamed ==
    \A n \in FileNames :
        stored[n] # NoFile /\ stored'[n] # stored[n] => n = workspace.filename \/ typed

(* A save replaces another notebook only if the user typed its name:       *)
(* "first save proposes the first free Notebook-NNN.tns name".             *)
OverwritesOnlyWhatWasNamed == [][OverwritesNamed]_shellVars
=============================================================================
