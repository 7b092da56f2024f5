--------------------------- MODULE AppShellProofs ---------------------------
(***************************************************************************)
(* What the app shell guarantees for any number of notebooks, names and    *)
(* drafts.  IInv adds to the type invariant what each view may rely on     *)
(* when it comes up: what is still pending there is what the user asked    *)
(* for last, and a list of notebooks over a modified one means the user    *)
(* gave that one up.                                                       *)
(***************************************************************************)
EXTENDS AppShell, FiniteSetTheorems, TLAPS

(* The menu starts from nothing pending; the prompt and the Save As view   *)
(* hold back what was asked for, or nothing.                               *)
PendingIsAsked ==
    running =>
        /\ view = "fileMenu" => pending = "none"
        /\ view \in {"dirtyConfirm", "saveAs"} => pending \in {"none", asked}

(* Open lists its notebooks over a saved one or one given up.              *)
OpenIsAgreed == running /\ view = "open" /\ workspace.dirty => agreed

IInv == ShellTypeOK /\ CleanMeansStored /\ PendingIsAsked /\ OpenIsAgreed

(* What the catalog lists is what there is: no more names than it holds.   *)
Roomy == IsFiniteSet(FileNames) /\ Cardinality(FileNames) <= MaxFiles

(* An untouched suggestion is free, or it has just been saved under.       *)
SuggestionIsFree ==
    running /\ view = "saveAs" /\ ~typed /\ editName # NoName
      => stored[editName] = NoFile \/ editName = workspace.filename

----------------------------------------------------------------------------
USE DEF ui, user, Requests, Views

LEMMA InitIInv == ShellInit => IInv
  <1> SUFFICES ASSUME ShellInit PROVE IInv
      OBVIOUS
  <1>1. /\ stored = [n \in FileNames |-> NoFile]
        /\ workspace = Empty /\ Empty \in Workspaces
        /\ view = "notebook"
      BY DEF ShellInit, Disk!Init, Empty, Workspaces, NotebookTexts
  <1>2. ShellTypeOK
      BY <1>1 DEF ShellInit, ShellTypeOK, Workspaces
  <1>3. CleanMeansStored
      BY <1>1 DEF CleanMeansStored, Empty
  <1> QED
      BY <1>1, <1>2, <1>3 DEF IInv, PendingIsAsked, OpenIsAgreed

(* A save that is done puts the notebook under a name and nothing else.    *)
LEMMA SaveStores ==
  ASSUME ShellTypeOK, NEW n \in FileNames, SaveDone(n)
  PROVE  /\ stored' \in [FileNames -> NotebookTexts \cup {NoFile}]
         /\ stored'[n] = workspace.content
         /\ \A m \in FileNames : m # n => stored'[m] = stored[m]
  BY DEF ShellTypeOK, Workspaces, SaveDone, Disk!Replace

LEMMA CatalogsListNames == \A c \in Catalogs : c \subseteq FileNames
  BY DEF Catalogs, Files

(* What may be next once nothing stands in the way of a request.           *)
Performed(request, w) ==
    /\ workspace' = w \/ (request = "new" /\ workspace' = Empty)
    /\ view' \in {"notebook", view} \/ (request = "open" /\ view' = "open")
    /\ request \in {"none", "new"} => view' = "notebook"
    /\ running' = running \/ (request = "quit" /\ running' = FALSE)
    /\ catalog' \subseteq FileNames \/ catalog' = catalog

LEMMA Performs ==
  ASSUME NEW request, NEW w, Perform(request, w)
  PROVE  Performed(request, w)
  <1>1. \A c \in Catalogs : c \subseteq FileNames
      BY DEF Catalogs, Files
  <1> QED
      BY <1>1 DEF Perform, BeginOpen, Performed

LEMMA EmptyType == Empty \in Workspaces
  BY DEF Empty, Workspaces, NotebookTexts

LEMMA SavedType ==
  ASSUME ShellTypeOK, NEW n \in FileNames
  PROVE  /\ Saved(workspace, n) \in Workspaces
         /\ Saved(workspace, n).content = workspace.content
         /\ Saved(workspace, n).editing = workspace.editing
         /\ ~Saved(workspace, n).dirty
         /\ Saved(workspace, n).filename = n
  BY DEF ShellTypeOK, Saved, Workspaces

(* A request meets a modified notebook and the prompt comes up, or it is   *)
(* carried out at once.                                                    *)
LEMMA RequestInv ==
  ASSUME IInv, running, NEW request \in Requests \ {"none"}, RequestPending(request),
         view \in {"notebook", "fileMenu"}
  PROVE  IInv'
  <1>1. CASE workspace.dirty
      BY <1>1 DEF RequestPending, IInv, ShellTypeOK, CleanMeansStored, PendingIsAsked, OpenIsAgreed
  <1>2. CASE ~workspace.dirty
    <2>1. Performed(request, workspace) /\ UNCHANGED pending
        BY <1>2, Performs DEF RequestPending
    <2>2. workspace' \in Workspaces /\ ShellTypeOK'
        BY <2>1, EmptyType DEF RequestPending, IInv, ShellTypeOK, Performed
    <2>3. CleanMeansStored'
        BY <1>2, <2>1 DEF RequestPending, IInv, CleanMeansStored, Performed, Empty
    <2>4. PendingIsAsked' /\ OpenIsAgreed'
        BY <1>2, <2>1 DEF RequestPending, IInv, PendingIsAsked, OpenIsAgreed, Performed, Empty
    <2> QED
        BY <2>2, <2>3, <2>4 DEF IInv
  <1> QED
      BY <1>1, <1>2

(* The same after a save, or after the user gave the notebook up.          *)
LEMMA CompleteInv ==
  ASSUME IInv, running, view \in {"dirtyConfirm", "saveAs"},
         NEW w \in Workspaces, CompletePending(w),
         UNCHANGED <<editName, asked, typed>>, agreed' \in BOOLEAN,
         stored' \in [FileNames -> NotebookTexts \cup {NoFile}],
         ~w.dirty => IF w.filename = NoName THEN w.content = Blank
                     ELSE stored'[w.filename] = w.content,
         w.dirty => agreed'
  PROVE  IInv'
  <1>1. Performed(pending, w) /\ pending' = "none"
      BY Performs DEF CompletePending
  <1>2. workspace' \in Workspaces /\ ShellTypeOK'
      BY <1>1, EmptyType DEF IInv, ShellTypeOK, Performed
  <1>3. CleanMeansStored'
      BY <1>1 DEF CleanMeansStored, Performed, Empty
  <1>4. PendingIsAsked' /\ OpenIsAgreed'
      BY <1>1 DEF IInv, PendingIsAsked, OpenIsAgreed, Performed, Empty
  <1> QED
      BY <1>2, <1>3, <1>4 DEF IInv

(* Save under a name, then whatever was held back.                         *)
LEMMA SaveInv ==
  ASSUME IInv, running, view \in {"dirtyConfirm", "saveAs"}, NEW n \in FileNames,
         SaveDone(n), CompletePending(Saved(workspace, n)), UNCHANGED <<editName, user>>
  PROVE  IInv'
  <1> DEFINE w == Saved(workspace, n)
  <1>1. ShellTypeOK
      BY DEF IInv
  <1>2. /\ w \in Workspaces /\ w.content = workspace.content /\ ~w.dirty
        /\ w.filename = n /\ w.filename # NoName
      BY <1>1, SavedType, NameAssumption
  <1>3. /\ stored' \in [FileNames -> NotebookTexts \cup {NoFile}]
        /\ stored'[w.filename] = w.content
      BY <1>1, <1>2, SaveStores
  <1>4. agreed' \in BOOLEAN
      BY <1>1 DEF ShellTypeOK
  <1> HIDE DEF w
  <1> QED
      BY <1>2, <1>3, <1>4, CompleteInv DEF w

(* The Save As view comes up with a suggestion, or nothing happens.        *)
LEMMA SaveAsInv ==
  ASSUME IInv, running, view \in {"fileMenu", "dirtyConfirm"}, BeginSaveAs
  PROVE  IInv'
  BY DEF BeginSaveAs, IInv, ShellTypeOK, CleanMeansStored, PendingIsAsked, OpenIsAgreed, FileNames

(* One step in the notebook view.                                          *)
LEMMA NotebookInv == IInv /\ NotebookView => IInv'
  <1> SUFFICES ASSUME IInv, NotebookView PROVE IInv'
      OBVIOUS
  <1>1. CASE ChangeNotebook
    <2>1. workspace \in Workspaces
        BY DEF IInv, ShellTypeOK
    <2>2. workspace' \in Workspaces /\ workspace'.dirty = TRUE
        BY <1>1, <2>1 DEF ChangeNotebook, Workspaces, NotebookTexts
    <2>3. view = "notebook" /\ UNCHANGED <<stored, view, pending, editName, catalog, running,
                                           asked, agreed, typed>>
        BY <1>1 DEF ChangeNotebook, InNotebook
    <2>4. ShellTypeOK'
        BY <2>2, <2>3 DEF IInv, ShellTypeOK
    <2>5. CleanMeansStored' /\ PendingIsAsked' /\ OpenIsAgreed'
        BY <2>2, <2>3 DEF CleanMeansStored, PendingIsAsked, OpenIsAgreed
    <2> QED
        BY <2>4, <2>5 DEF IInv
  <1> USE DEF IInv, ShellTypeOK, CleanMeansStored, PendingIsAsked, OpenIsAgreed, InNotebook
  <1>2. CASE MoveAround
      BY <1>2 DEF MoveAround, Workspaces
  <1>3. CASE EscapeNotebook
    <2>1. CASE workspace.editing
        BY <1>3, <2>1 DEF EscapeNotebook, Workspaces
    <2>2. CASE ~workspace.editing
        BY <1>3, <2>2, RequestInv DEF EscapeNotebook
    <2> QED
        BY <2>1, <2>2
  <1>4. CASE BeginFileMenu
      BY <1>4 DEF BeginFileMenu
  <1>5. CASE BeginPalette
      BY <1>5 DEF BeginPalette
  <1> QED
      BY <1>1, <1>2, <1>3, <1>4, <1>5 DEF NotebookView

LEMMA RunAllChanges ==
  ASSUME ShellTypeOK, MenuRunAll
  PROVE  \/ workspace' = workspace
         \/ /\ workspace' \in Workspaces /\ workspace'.dirty
            /\ workspace'.filename = workspace.filename
  <1>1. workspace \in Workspaces
      BY DEF ShellTypeOK
  <1>2. CASE workspace' = workspace
      BY <1>2
  <1>3. ASSUME NEW d \in Drafts,
               workspace' = [workspace EXCEPT !.content = d, !.dirty = TRUE]
        PROVE  /\ workspace' \in Workspaces /\ workspace'.dirty
               /\ workspace'.filename = workspace.filename
      BY <1>1, <1>3 DEF Workspaces, NotebookTexts
  <1> QED
      BY <1>2, <1>3 DEF MenuRunAll

(* One choice in the Notebook menu.                                        *)
LEMMA FileMenuInv == IInv /\ FileMenuView => IInv'
  <1> SUFFICES ASSUME IInv, FileMenuView PROVE IInv'
      OBVIOUS
  <1>1. CASE MenuNew
      BY <1>1, RequestInv DEF MenuNew
  <1>2. CASE MenuOpen
      BY <1>2, RequestInv DEF MenuOpen
  <1>3. CASE MenuSave
    <2>1. CASE workspace.filename = NoName
        BY <1>3, <2>1, SaveAsInv DEF MenuSave
    <2>2. CASE SaveFailed
        BY <2>2 DEF SaveFailed, IInv, ShellTypeOK, CleanMeansStored, PendingIsAsked, OpenIsAgreed
    <2>3. ASSUME workspace.filename # NoName, SaveDone(workspace.filename),
                 workspace' = Saved(workspace, workspace.filename), view' = "notebook",
                 UNCHANGED <<pending, editName, catalog, running, user>>
          PROVE  IInv'
      <3>1. ShellTypeOK /\ workspace.filename \in FileNames
          BY <2>3 DEF IInv, ShellTypeOK, Workspaces
      <3>2. /\ workspace' \in Workspaces /\ ~workspace'.dirty
            /\ workspace'.filename = workspace.filename
            /\ workspace'.content = workspace.content
          BY <2>3, <3>1, SavedType
      <3>3. /\ stored' \in [FileNames -> NotebookTexts \cup {NoFile}]
            /\ stored'[workspace.filename] = workspace.content
          BY <2>3, <3>1, SaveStores
      <3>4. ShellTypeOK'
          BY <2>3, <3>1, <3>2, <3>3 DEF ShellTypeOK
      <3> QED
          BY <2>3, <3>2, <3>3, <3>4
          DEF IInv, CleanMeansStored, PendingIsAsked, OpenIsAgreed
    <2> QED
        BY <1>3, <2>1, <2>2, <2>3 DEF MenuSave
  <1>4. CASE MenuRunAll
    <2>1. workspace' = workspace \/ (workspace' \in Workspaces /\ workspace'.dirty)
        BY <1>4, RunAllChanges DEF IInv
    <2> QED
        BY <1>4, <2>1
        DEF MenuRunAll, IInv, ShellTypeOK, CleanMeansStored, PendingIsAsked, OpenIsAgreed
  <1> QED
      BY <1>1, <1>2, <1>3, <1>4 DEF FileMenuView

(* One answer to the prompt.                                               *)
LEMMA DirtyConfirmInv == IInv /\ DirtyConfirmView => IInv'
  <1> SUFFICES ASSUME IInv, DirtyConfirmView PROVE IInv'
      OBVIOUS
  <1>1. CASE DirtySave
    <2>1. CASE workspace.filename = NoName
        BY <1>1, <2>1, SaveAsInv DEF DirtySave
    <2>2. CASE SaveFailed
        BY <2>2 DEF SaveFailed, IInv, ShellTypeOK, CleanMeansStored, PendingIsAsked, OpenIsAgreed
    <2>3. CASE workspace.filename # NoName
        BY <1>1, <2>2, <2>3, SaveInv DEF DirtySave, IInv, ShellTypeOK, Workspaces
    <2> QED
        BY <2>1, <2>3
  <1>2. CASE DirtyDiscard
    <2>1. /\ workspace \in Workspaces
          /\ stored' \in [FileNames -> NotebookTexts \cup {NoFile}]
          /\ ~workspace.dirty => IF workspace.filename = NoName THEN workspace.content = Blank
                                 ELSE stored'[workspace.filename] = workspace.content
        BY <1>2 DEF DirtyDiscard, IInv, ShellTypeOK, CleanMeansStored
    <2> QED
        BY <1>2, <2>1, CompleteInv DEF DirtyDiscard
  <1>3. CASE DirtyCancel
      BY <1>3 DEF DirtyCancel, Back, IInv, ShellTypeOK, CleanMeansStored, PendingIsAsked, OpenIsAgreed
  <1> QED
      BY <1>1, <1>2, <1>3 DEF DirtyConfirmView

(* One step in a modal view.                                               *)
LEMMA ModalInv == IInv /\ ModalView => IInv'
  <1> SUFFICES ASSUME IInv, ModalView PROVE IInv'
      OBVIOUS
  <1>1. CASE EscapeModal
      BY <1>1 DEF EscapeModal, Back, IInv, ShellTypeOK, CleanMeansStored, PendingIsAsked, OpenIsAgreed
  <1>2. CASE TypeName
      BY <1>2 DEF TypeName, IInv, ShellTypeOK, CleanMeansStored, PendingIsAsked, OpenIsAgreed
  <1>3. CASE ActivateSaveAs
    <2>1. CASE SaveFailed
        BY <2>1 DEF SaveFailed, IInv, ShellTypeOK, CleanMeansStored, PendingIsAsked, OpenIsAgreed
    <2>2. CASE ~SaveFailed
        BY <1>3, <2>2, SaveInv DEF ActivateSaveAs, IInv, ShellTypeOK
    <2> QED
        BY <2>1, <2>2
  <1>4. ASSUME NEW n \in FileNames, ActivateOpen(n)
        PROVE  IInv'
    <2>1. CASE UNCHANGED <<workspace, view>>
        BY <1>4, <2>1
        DEF ActivateOpen, IInv, ShellTypeOK, CleanMeansStored, PendingIsAsked, OpenIsAgreed
    <2>2. CASE stored[n] # NoFile /\ workspace' = Opened(workspace, n) /\ view' = "notebook"
      <3>1. /\ workspace' \in Workspaces /\ ~workspace'.dirty
            /\ workspace'.filename = n /\ workspace'.content = stored[n]
          BY <2>2 DEF Opened, IInv, ShellTypeOK, Workspaces
      <3> QED
          BY <1>4, <2>2, <3>1, NameAssumption
          DEF ActivateOpen, IInv, ShellTypeOK, CleanMeansStored, PendingIsAsked, OpenIsAgreed
    <2> QED
        BY <1>4, <2>1, <2>2 DEF ActivateOpen
  <1>5. CASE ActivatePalette
    <2>1. workspace' = workspace \/ (workspace' \in Workspaces /\ workspace'.dirty)
        BY <1>5 DEF ActivatePalette, IInv, ShellTypeOK, Workspaces, NotebookTexts
    <2> QED
        BY <1>5, <2>1
        DEF ActivatePalette, IInv, ShellTypeOK, CleanMeansStored, PendingIsAsked, OpenIsAgreed
  <1> QED
      BY <1>1, <1>2, <1>3, <1>4, <1>5, FileMenuInv, DirtyConfirmInv DEF ModalView

LEMMA StepIInv == IInv /\ [ShellNext]_shellVars => IInv'
  <1> SUFFICES ASSUME IInv, [ShellNext]_shellVars PROVE IInv'
      OBVIOUS
  <1>1. CASE NotebookView
      BY <1>1, NotebookInv
  <1>2. CASE ModalView
      BY <1>2, ModalInv
  <1>3. CASE QuitEvent
    <2>1. CASE view = "notebook" /\ workspace.dirty
        BY <1>3, <2>1, RequestInv DEF QuitEvent
    <2>2. CASE ~(view = "notebook" /\ workspace.dirty)
      <3>1. /\ running' = FALSE /\ stored' = stored /\ workspace' = workspace /\ asked' = "quit"
            /\ view' = view /\ pending' = pending /\ editName' = editName /\ catalog' = catalog
            /\ agreed' = agreed /\ typed' = typed
          BY <1>3, <2>2 DEF QuitEvent
      <3>2. ShellTypeOK'
          BY <3>1 DEF IInv, ShellTypeOK
      <3>3. CleanMeansStored' /\ PendingIsAsked' /\ OpenIsAgreed'
          BY <3>1 DEF IInv, CleanMeansStored, PendingIsAsked, OpenIsAgreed
      <3> QED
          BY <3>2, <3>3 DEF IInv
    <2> QED
        BY <2>1, <2>2
  <1>4. CASE DisplayStops
    <2>1. /\ running' = FALSE /\ stored' = stored /\ workspace' = workspace
          /\ view' = view /\ pending' = pending /\ editName' = editName /\ catalog' = catalog
          /\ asked' = asked /\ agreed' = agreed /\ typed' = typed
        BY <1>4 DEF DisplayStops
    <2>2. ShellTypeOK'
        BY <2>1 DEF IInv, ShellTypeOK
    <2>3. CleanMeansStored' /\ PendingIsAsked' /\ OpenIsAgreed'
        BY <2>1 DEF IInv, CleanMeansStored, PendingIsAsked, OpenIsAgreed
    <2> QED
        BY <2>2, <2>3 DEF IInv
  <1>5. CASE Launch
    <2>1. ShellTypeOK'
      <3>1. stored' = stored /\ workspace' = Empty
            /\ view' = "notebook" /\ pending' = "none" /\ editName' = NoName /\ catalog' = {}
            /\ running' = TRUE /\ asked' = "none" /\ agreed' = FALSE /\ typed' = FALSE
          BY <1>5 DEF Launch
      <3> QED
          BY <3>1, EmptyType DEF IInv, ShellTypeOK
    <2>2. CleanMeansStored' /\ PendingIsAsked' /\ OpenIsAgreed'
        BY <1>5 DEF Launch, Empty, CleanMeansStored, PendingIsAsked, OpenIsAgreed
    <2> QED
        BY <2>1, <2>2 DEF IInv
  <1> USE DEF IInv, ShellTypeOK, CleanMeansStored, PendingIsAsked, OpenIsAgreed
  <1>6. CASE UNCHANGED shellVars
      BY <1>6 DEF shellVars
  <1> QED
      BY <1>1, <1>2, <1>3, <1>4, <1>5, <1>6 DEF ShellNext

LEMMA Inductive == ShellSpec => []IInv
  BY InitIInv, StepIInv, PTL DEF ShellSpec

(* The type invariant, for any names, drafts and directory limit.          *)
THEOREM TypeCorrect == ShellSpec => []ShellTypeOK
  BY Inductive, PTL DEF IInv

(* A notebook not marked modified is on disk under its name, or new.       *)
THEOREM CleanIsStored == ShellSpec => []CleanMeansStored
  BY Inductive, PTL DEF IInv

----------------------------------------------------------------------------
LEMMA RequestLosesNothing ==
  ASSUME NEW request, RequestPending(request)
  PROVE  LosesNothing
  <1>1. CASE workspace.dirty
      BY <1>1 DEF RequestPending, LosesNothing
  <1> QED
      BY <1>1 DEF LosesNothing

LEMMA SaveLosesNothing ==
  ASSUME ShellTypeOK, NEW n \in FileNames, SaveDone(n)
  PROVE  LosesNothing
  BY SaveStores DEF LosesNothing

LEMMA StepLosesNothing == IInv /\ [ShellNext]_shellVars => [LosesNothing]_shellVars
  <1> SUFFICES ASSUME IInv, ShellNext PROVE LosesNothing
      OBVIOUS
  <1>1. ShellTypeOK /\ (workspace.filename = NoName \/ workspace.filename \in FileNames)
      BY DEF IInv, ShellTypeOK, Workspaces
  <1>2. CASE NotebookView
    <2>1. CASE ChangeNotebook \/ MoveAround
        BY <1>1, <2>1 DEF ChangeNotebook, MoveAround, LosesNothing, ShellTypeOK, Workspaces
    <2>2. CASE EscapeNotebook
      <3>1. CASE workspace.editing
          BY <1>1, <2>2, <3>1 DEF EscapeNotebook, LosesNothing, ShellTypeOK, Workspaces
      <3>2. CASE ~workspace.editing
          BY <2>2, <3>2, RequestLosesNothing DEF EscapeNotebook
      <3> QED
          BY <3>1, <3>2
    <2>3. CASE BeginFileMenu \/ BeginPalette
        BY <2>3 DEF BeginFileMenu, BeginPalette, LosesNothing
    <2> QED
        BY <1>2, <2>1, <2>2, <2>3 DEF NotebookView
  <1>3. CASE FileMenuView
    <2>1. CASE MenuNew \/ MenuOpen
        BY <2>1, RequestLosesNothing DEF MenuNew, MenuOpen
    <2>2. CASE MenuSave
      <3>1. CASE workspace.filename = NoName
          BY <2>2, <3>1 DEF MenuSave, BeginSaveAs, LosesNothing
      <3>2. CASE workspace.filename # NoName
          BY <1>1, <2>2, <3>2, SaveLosesNothing DEF MenuSave, SaveFailed, LosesNothing
      <3> QED
          BY <3>1, <3>2
    <2>3. CASE MenuRunAll
        BY <1>1, <2>3 DEF MenuRunAll, LosesNothing, ShellTypeOK, Workspaces
    <2> QED
        BY <1>3, <2>1, <2>2, <2>3 DEF FileMenuView
  <1>4. CASE DirtyConfirmView
    <2>1. CASE DirtySave
      <3>1. CASE workspace.filename = NoName
          BY <2>1, <3>1 DEF DirtySave, BeginSaveAs, LosesNothing
      <3>2. CASE workspace.filename # NoName
          BY <1>1, <2>1, <3>2, SaveLosesNothing DEF DirtySave, SaveFailed, LosesNothing
      <3> QED
          BY <3>1, <3>2
    <2>2. CASE DirtyDiscard \/ DirtyCancel
        BY <2>2 DEF DirtyDiscard, DirtyCancel, Back, LosesNothing
    <2> QED
        BY <1>4, <2>1, <2>2 DEF DirtyConfirmView
  <1>5. CASE EscapeModal \/ TypeName
      BY <1>5 DEF EscapeModal, Back, TypeName, LosesNothing
  <1>6. CASE ActivateSaveAs
      BY <1>1, <1>6, SaveLosesNothing DEF ActivateSaveAs, SaveFailed, LosesNothing, ShellTypeOK
  <1>7. ASSUME NEW n \in FileNames, ActivateOpen(n)
        PROVE  LosesNothing
      BY <1>7 DEF ActivateOpen, LosesNothing, IInv, OpenIsAgreed
  <1>8. CASE ActivatePalette
      BY <1>1, <1>8 DEF ActivatePalette, LosesNothing, ShellTypeOK, Workspaces
  <1>9. CASE QuitEvent
    <2>1. CASE view = "notebook" /\ workspace.dirty
        BY <1>9, <2>1, RequestLosesNothing DEF QuitEvent
    <2> QED
        BY <1>9, <2>1 DEF LosesNothing, Forced
  <1>10. CASE DisplayStops \/ Launch
      BY <1>10 DEF Forced, Launch, LosesNothing
  <1> QED
      BY <1>2, <1>3, <1>4, <1>5, <1>6, <1>7, <1>8, <1>9, <1>10 DEF ShellNext, ModalView

(* No unsaved work is replaced or left behind unless it is on disk by then *)
(* or the user chose Discard.                                              *)
THEOREM NothingLostSilently == ShellSpec => NoSilentLoss
  BY Inductive, StepLosesNothing, PTL DEF ShellSpec, NoSilentLoss

----------------------------------------------------------------------------
LEMMA RequestAsAsked ==
  ASSUME ShellTypeOK, NEW request, RequestPending(request)
  PROVE  DoesAsAsked
  <1>1. CASE workspace.dirty
      BY <1>1 DEF RequestPending, DoesAsAsked
  <1>2. CASE ~workspace.dirty
    <2>1. Performed(request, workspace) /\ asked' = request
        BY <1>2, Performs DEF RequestPending
    <2> QED
        BY <2>1 DEF Performed, DoesAsAsked, ShellTypeOK
  <1> QED
      BY <1>1, <1>2

LEMMA CompleteAsAsked ==
  ASSUME ShellTypeOK, NEW w, CompletePending(w), pending \in {"none", asked}, asked' = asked,
         w.filename = workspace.filename \/ w.filename # NoName
  PROVE  DoesAsAsked
  <1>1. Performed(pending, w)
      BY Performs DEF CompletePending
  <1> QED
      BY <1>1 DEF Performed, DoesAsAsked, ShellTypeOK

LEMMA SaveAsAsked ==
  ASSUME ShellTypeOK, NEW n \in FileNames, CompletePending(Saved(workspace, n)),
         pending \in {"none", asked}, asked' = asked
  PROVE  DoesAsAsked
  BY SavedType, NameAssumption, CompleteAsAsked

LEMMA StepAsAsked == IInv /\ [ShellNext]_shellVars => [DoesAsAsked]_shellVars
  <1> SUFFICES ASSUME IInv, ShellNext PROVE DoesAsAsked
      OBVIOUS
  <1>1. /\ ShellTypeOK /\ PendingIsAsked /\ NoName \notin FileNames
        /\ workspace.filename = NoName \/ workspace.filename \in FileNames
      BY NameAssumption DEF IInv, ShellTypeOK, Workspaces
  <1>2. CASE NotebookView
    <2>1. CASE ChangeNotebook \/ MoveAround
        BY <1>1, <2>1 DEF ChangeNotebook, MoveAround, DoesAsAsked, ShellTypeOK, Workspaces
    <2>2. CASE EscapeNotebook
      <3>1. CASE workspace.editing
          BY <1>1, <2>2, <3>1 DEF EscapeNotebook, DoesAsAsked, ShellTypeOK, Workspaces
      <3>2. CASE ~workspace.editing
          BY <1>1, <2>2, <3>2, RequestAsAsked DEF EscapeNotebook
      <3> QED
          BY <3>1, <3>2
    <2>3. CASE BeginFileMenu \/ BeginPalette
        BY <2>3 DEF BeginFileMenu, BeginPalette, DoesAsAsked
    <2> QED
        BY <1>2, <2>1, <2>2, <2>3 DEF NotebookView
  <1>3. CASE FileMenuView
    <2>1. CASE MenuNew \/ MenuOpen
        BY <1>1, <2>1, RequestAsAsked DEF MenuNew, MenuOpen
    <2>2. CASE MenuSave
      <3>1. CASE workspace.filename = NoName
          BY <2>2, <3>1 DEF MenuSave, BeginSaveAs, DoesAsAsked
      <3>2. CASE workspace.filename # NoName
        <4>1. Saved(workspace, workspace.filename).filename = workspace.filename
            BY <1>1, <3>2, SavedType
        <4> QED
            BY <1>1, <2>2, <3>2, <4>1 DEF MenuSave, SaveFailed, DoesAsAsked
      <3> QED
          BY <3>1, <3>2
    <2>3. CASE MenuRunAll
        BY <1>1, <2>3, RunAllChanges DEF MenuRunAll, DoesAsAsked
    <2> QED
        BY <1>3, <2>1, <2>2, <2>3 DEF FileMenuView
  <1>4. CASE DirtyConfirmView
    <2>1. CASE DirtySave
      <3>1. CASE workspace.filename = NoName
          BY <2>1, <3>1 DEF DirtySave, BeginSaveAs, DoesAsAsked
      <3>2. CASE workspace.filename # NoName
          BY <1>1, <2>1, <3>2, SaveAsAsked DEF DirtySave, SaveFailed, DoesAsAsked, PendingIsAsked
      <3> QED
          BY <3>1, <3>2
    <2>2. CASE DirtyDiscard
        BY <1>1, <2>2, CompleteAsAsked DEF DirtyDiscard, PendingIsAsked
    <2>3. CASE DirtyCancel
        BY <2>3 DEF DirtyCancel, Back, DoesAsAsked
    <2> QED
        BY <1>4, <2>1, <2>2, <2>3 DEF DirtyConfirmView
  <1>5. CASE EscapeModal \/ TypeName
      BY <1>5 DEF EscapeModal, Back, TypeName, DoesAsAsked
  <1>6. CASE ActivateSaveAs
      BY <1>1, <1>6, SaveAsAsked DEF ActivateSaveAs, SaveFailed, DoesAsAsked, ShellTypeOK, PendingIsAsked
  <1>7. ASSUME NEW n \in FileNames, ActivateOpen(n)
        PROVE  DoesAsAsked
      BY <1>1, <1>7 DEF ActivateOpen, Opened, DoesAsAsked
  <1>8. CASE ActivatePalette
      BY <1>1, <1>8 DEF ActivatePalette, DoesAsAsked, ShellTypeOK, Workspaces
  <1>9. CASE QuitEvent
    <2>1. CASE view = "notebook" /\ workspace.dirty
        BY <1>1, <1>9, <2>1, RequestAsAsked DEF QuitEvent
    <2> QED
        BY <1>9, <2>1 DEF QuitEvent, DoesAsAsked
  <1>10. CASE DisplayStops \/ Launch
      BY <1>10 DEF Forced, DisplayStops, Launch, DoesAsAsked
  <1> QED
      BY <1>2, <1>3, <1>4, <1>5, <1>6, <1>7, <1>8, <1>9, <1>10 DEF ShellNext, ModalView

(* New, Open and Quit happen only as what the user asked for last and did  *)
(* not take back, however many saves failed or were escaped from before.   *)
THEOREM OnlyWhatWasAsked == ShellSpec => PendingIsWhatWasAsked
  BY Inductive, StepAsAsked, PTL DEF ShellSpec, PendingIsWhatWasAsked

----------------------------------------------------------------------------
(* With room for every name the catalog is the directory.                  *)
LEMMA WholeDirectory ==
  ASSUME Roomy, NEW c \in Catalogs
  PROVE  c = Files
  <1>1. Files \subseteq FileNames
      BY DEF Files
  <1>2. IsFiniteSet(Files) /\ Cardinality(Files) <= Cardinality(FileNames)
      BY <1>1, FS_Subset DEF Roomy
  <1>3. Cardinality(Files) \in Nat /\ Cardinality(FileNames) \in Nat
      BY <1>2, FS_CardinalityType DEF Roomy
  <1>4. Cardinality(Files) <= MaxFiles
      BY <1>2, <1>3, MaxFilesAssumption DEF Roomy
  <1> QED
      BY <1>4 DEF Catalogs

LEMMA SuggestedIsFree ==
  ASSUME Roomy, ShellTypeOK, BeginSaveAs, view' = "saveAs", view # "saveAs"
  PROVE  stored[editName'] = NoFile /\ editName' \in FileNames /\ UNCHANGED stored
  <1>1. PICK c \in Catalogs, n \in Suggested : Suggests(c, n) /\ editName' = n
      BY DEF BeginSaveAs
  <1>2. n \notin Files /\ n \in FileNames
      BY <1>1, WholeDirectory DEF Suggests, FileNames
  <1> QED
      BY <1>1, <1>2 DEF Files, BeginSaveAs

NamedInv == IInv /\ SuggestionIsFree

(* Only Save As turns to another name, and there the name is a suggestion  *)
(* that is free, one the user typed, or the one just saved under.          *)
LEMMA StepNamed ==
  ASSUME Roomy, NamedInv, [ShellNext]_shellVars
  PROVE  OverwritesNamed /\ SuggestionIsFree'
  <1>1. /\ IInv /\ ShellTypeOK /\ SuggestionIsFree /\ ShellTypeOK'
        /\ workspace.filename = NoName \/ workspace.filename \in FileNames
      BY StepIInv DEF NamedInv, IInv, ShellTypeOK, Workspaces
  <1>2. CASE UNCHANGED stored /\ view # "saveAs" /\ view' = "saveAs" /\ BeginSaveAs
      BY <1>1, <1>2, SuggestedIsFree DEF SuggestionIsFree, OverwritesNamed
  <1>3. CASE UNCHANGED stored /\ (view' # "saveAs" \/ ~running')
      BY <1>3 DEF SuggestionIsFree, OverwritesNamed
  <1>4. CASE UNCHANGED <<stored, view, typed, editName, running, workspace>>
      BY <1>1, <1>4 DEF SuggestionIsFree, OverwritesNamed
  <1>5. ASSUME NEW n \in FileNames, SaveDone(n), view' # "saveAs" \/ ~running',
               n = workspace.filename \/ typed \/ stored[n] = NoFile
        PROVE  OverwritesNamed /\ SuggestionIsFree'
      BY <1>1, <1>5, SaveStores DEF SuggestionIsFree, OverwritesNamed
  <1>6. CASE NotebookView \/ (\E n \in FileNames : ActivateOpen(n)) \/ ActivatePalette
             \/ EscapeModal \/ MenuNew \/ MenuOpen \/ MenuRunAll \/ DirtyCancel \/ Launch
             \/ QuitEvent \/ DisplayStops
    <2>1. \A request : RequestPending(request) /\ view # "saveAs" =>
              UNCHANGED stored /\ view' # "saveAs"
      BY Performs DEF RequestPending, Performed
    <2> QED
      BY <1>3, <1>4, <1>6, <2>1
      DEF NotebookView, InNotebook, ChangeNotebook, MoveAround, EscapeNotebook, BeginFileMenu,
          BeginPalette, ActivateOpen, ActivatePalette, EscapeModal, Back, MenuNew, MenuOpen,
          MenuRunAll, DirtyCancel, Launch, QuitEvent, DisplayStops
  <1>7. CASE DirtyDiscard
    <2>1. UNCHANGED stored /\ view' # "saveAs"
      BY <1>7, Performs DEF DirtyDiscard, CompletePending, Performed
    <2> QED
      BY <1>3, <2>1
  <1>8. CASE TypeName
      BY <1>8 DEF TypeName, SuggestionIsFree, OverwritesNamed
  <1>9. CASE MenuSave \/ DirtySave
    <2>1. CASE workspace.filename = NoName
        BY <1>2, <1>3, <1>9, <2>1 DEF MenuSave, DirtySave, BeginSaveAs
    <2>2. CASE SaveFailed
        BY <1>4, <2>2 DEF SaveFailed
    <2>3. CASE workspace.filename # NoName /\ ~SaveFailed
      <3>1. SaveDone(workspace.filename) /\ view' # "saveAs"
          BY <1>9, <2>3, Performs DEF MenuSave, DirtySave, CompletePending, Performed
      <3> QED
          BY <1>1, <1>5, <2>3, <3>1
    <2> QED
        BY <2>1, <2>2, <2>3
  <1>10. CASE ActivateSaveAs
    <2>1. CASE SaveFailed
        BY <1>4, <2>1 DEF SaveFailed
    <2>2. CASE ~SaveFailed
      <3>1. /\ editName \in FileNames /\ SaveDone(editName) /\ running /\ view = "saveAs"
            /\ CompletePending(Saved(workspace, editName)) /\ UNCHANGED <<editName, user>>
          BY <1>1, <1>10, <2>2 DEF ActivateSaveAs, ShellTypeOK
      <3>2. OverwritesNamed
          BY <1>1, <3>1, SaveStores, NameAssumption DEF SuggestionIsFree, OverwritesNamed
      <3>3. view' # "saveAs" \/ workspace' = Saved(workspace, editName)
          BY <3>1, Performs DEF CompletePending, Performed
      <3>4. SuggestionIsFree'
          BY <1>1, <3>1, <3>3, SavedType DEF SuggestionIsFree
      <3> QED
          BY <3>2, <3>4
    <2> QED
        BY <2>1, <2>2
  <1>11. CASE UNCHANGED shellVars
      BY <1>4, <1>11 DEF shellVars
  <1> QED
      BY <1>6, <1>7, <1>8, <1>9, <1>10, <1>11
      DEF ShellNext, ModalView, FileMenuView, DirtyConfirmView

(* Where the catalog has room for every name, a save never replaces a      *)
(* notebook whose name the user neither opened, saved under nor typed: the *)
(* truncated catalog is the only way to that.                              *)
THEOREM RoomyOverwritesNamed ==
  ASSUME Roomy
  PROVE  ShellSpec => OverwritesOnlyWhatWasNamed
  <1>1. ShellInit => NamedInv
      BY InitIInv DEF NamedInv, SuggestionIsFree, ShellInit
  <1>2. NamedInv /\ [ShellNext]_shellVars => NamedInv'
      BY StepNamed, StepIInv DEF NamedInv
  <1>3. NamedInv /\ [ShellNext]_shellVars => [OverwritesNamed]_shellVars
      BY StepNamed
  <1> QED
      BY <1>1, <1>2, <1>3, PTL DEF ShellSpec, OverwritesOnlyWhatWasNamed
=============================================================================
