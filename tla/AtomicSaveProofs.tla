-------------------------- MODULE AtomicSaveProofs --------------------------
(***************************************************************************)
(* The stepwise save keeps the previous notebook and acknowledges only     *)
(* what it read back, for every set of names and documents, every number   *)
(* of failing calls and every crash.  PreviousKept is not inductive: it    *)
(* does not say which copy the next operation may destroy.  IInv adds, for *)
(* every operation, the job it belongs to and the leaf that must hold the  *)
(* previous document while it runs.  Two more invariants count the failing *)
(* calls: where a torn file may still lie, and which leaf still holds the  *)
(* previous document after at most two of them, which is what the          *)
(* refinement of the atomic store rests on.                                *)
(***************************************************************************)
EXTENDS AtomicSave, TLAPS

Writing == pc \in {"w_open", "w_write", "w_verify", "w_clean"}
Copying == pc \in {"c_open", "c_copy", "c_compare", "c_clean"}

JobFitsStep ==
    /\ pc \in {"ensure", "probe", "first_rm"} => job = "first"
    /\ pc \in {"rm_temp", "rm_backup", "move_aside"} => job = "temp"
    /\ Writing => job \in {"first", "temp", "inplace"}
    /\ Copying => job \in {"backup", "restore"}
    /\ pc \in {"install", "check"} => job \in {"temp", "backup"}
    /\ pc \in {"tidy_temp", "tidy_backup"} => job \in {"temp", "backup", "inplace"}
    /\ pc \in {"restore_rm", "restore"} => job = "inplace"
    /\ pc = "drop_backup" => job = "restore"
    /\ pc = "drop_temp" => job \in {"backup", "inplace", "restore"}

\* The destination is still the previous document.
AtDestination == \/ pc \in {"ensure", "probe", "rm_temp", "rm_backup",
                            "move_aside", "drop_backup"}
                 \/ Writing /\ job = "temp"
                 \/ Copying /\ job = "backup"

\* The destination is up for change and the backup is the previous document.
InBackup == \/ pc \in {"install", "check", "restore_rm", "restore"}
            \/ Writing /\ job = "inplace"
            \/ Copying /\ job = "restore"

CopyFitsStep ==
    /\ AtDestination => fs[name] = previous
    /\ InBackup => fs[Backup] = previous
    /\ pc \in {"tidy_temp", "tidy_backup"} => fs[name] = buffer

IInv == TypeOK /\ JobFitsStep /\ CopyFitsStep /\ PreviousKept /\ AcknowledgedIsOnDisk

-----------------------------------------------------------------------------
(* Type correctness. *)

LEMMA InitTypeOK == Init => TypeOK
  BY DocumentAssumption DEF Init, TypeOK, Contents, Steps, Jobs

\* What a step writes, it writes to one leaf of the directory.
LEMMA PutType ==
  ASSUME fs \in [Paths -> Contents], NEW p \in Paths, NEW c \in Contents, Put(p, c)
  PROVE  fs' \in [Paths -> Contents]
  BY DEF Put

LEMMA RemoveType ==
  ASSUME TypeOK, NEW p \in Paths, Remove(p)
  PROVE  fs' \in [Paths -> Contents] /\ faults' \in Nat
  BY DEF TypeOK, Remove, Put, NoFault, Fault, Contents

LEMMA RenameType ==
  ASSUME TypeOK, NEW p \in Paths, NEW q \in Paths, RenameDone(p, q) \/ RenameFails(p, q)
  PROVE  fs' \in [Paths -> Contents] /\ faults' \in Nat
  BY DEF TypeOK, RenameDone, RenameFails, NoFault, Fault, Contents

LEMMA StepTypeOK == TypeOK /\ [Next]_vars => TypeOK'
<1> SUFFICES ASSUME TypeOK, [Next]_vars PROVE TypeOK'
  OBVIOUS
<1>a. name \in Paths /\ Temp \in Paths /\ Backup \in Paths
  BY DEF TypeOK, Paths
<1>b. /\ WriteTarget \in Paths /\ CopySource \in Paths /\ CopyTarget \in Paths
      /\ Torn \in Contents /\ Absent \in Contents /\ buffer \in Contents
  BY <1>a DEF WriteTarget, CopySource, CopyTarget, Contents, TypeOK
<1>1. ASSUME NEW n \in Names, NEW d \in Documents, Save(n, d) PROVE TypeOK'
  BY <1>1 DEF Save, TypeOK, Paths, Contents, Steps, Jobs
<1>2. ASSUME EnsureDirectory \/ ProbePrevious PROVE TypeOK'
  BY <1>2 DEF EnsureDirectory, ProbePrevious, TypeOK, Steps, Jobs, request,
              Goto, Start, Return, NoFault, Fault
<1>3. ASSUME RemoveStaleTemp \/ RemoveStaleBackup PROVE TypeOK'
  BY <1>3, <1>a, RemoveType
  DEF RemoveStaleTemp, RemoveStaleBackup, TypeOK, Steps, request, Goto
<1>4. ASSUME OpenForWriting PROVE TypeOK'
  BY <1>4, <1>b DEF OpenForWriting, Put, WriteFailed, TypeOK, Steps, request,
                    Goto, Return, NoFault, Fault
<1>5. ASSUME WriteAndClose PROVE TypeOK'
  BY <1>5, <1>b DEF WriteAndClose, Put, TypeOK, Steps, request, Goto, NoFault, Fault
<1>6. ASSUME VerifyWrite PROVE TypeOK'
  BY <1>6 DEF VerifyWrite, WriteDone, TypeOK, Steps, request, Goto, Return,
              NoFault, Fault
<1>7. ASSUME RemoveBadWrite PROVE TypeOK'
  BY <1>7, <1>b, RemoveType
  DEF RemoveBadWrite, WriteFailed, TypeOK, Steps, request, Goto, Return
<1>8. ASSUME RemoveFailedFirst PROVE TypeOK'
  BY <1>8, <1>a, RemoveType DEF RemoveFailedFirst, TypeOK, Steps, request, Return
<1>9. ASSUME MovePreviousAside PROVE TypeOK'
  BY <1>9, <1>a, RenameType DEF MovePreviousAside, TypeOK, Steps, Jobs, request, Goto, Start
<1>10. ASSUME OpenCopy PROVE TypeOK'
  BY <1>10, <1>b DEF OpenCopy, Put, TypeOK, Steps, request, Goto, NoFault, Fault
<1>11. ASSUME CopyBytes PROVE TypeOK'
  <2>1. fs[CopySource] \in Contents
    BY <1>b DEF TypeOK
  <2> QED
    BY <1>11, <1>b, <2>1 DEF CopyBytes, Put, TypeOK, Steps, request, Goto, NoFault, Fault
<1>12. ASSUME CompareCopy PROVE TypeOK'
  BY <1>12 DEF CompareCopy, CopyDone, TypeOK, Steps, request, Goto, NoFault, Fault
<1>13. ASSUME RemoveBadCopy PROVE TypeOK'
  BY <1>13, <1>b, RemoveType DEF RemoveBadCopy, TypeOK, Steps, request, Goto
<1>14. ASSUME InstallByRename PROVE TypeOK'
  BY <1>14, <1>a, RenameType DEF InstallByRename, TypeOK, Steps, Jobs, request, Goto, Start
<1>15. ASSUME CheckInstalled PROVE TypeOK'
  BY <1>15 DEF CheckInstalled, TypeOK, Steps, Jobs, request, Goto, Start, NoFault, Fault
<1>16. ASSUME TidyTemp \/ TidyBackup \/ RemoveBadInstall \/ DropBackup \/ DropTemp PROVE TypeOK'
  BY <1>16, <1>a, RemoveType
  DEF TidyTemp, TidyBackup, RemoveBadInstall, DropBackup, DropTemp, TypeOK, Steps,
      request, Goto, Return
<1>17. ASSUME RestorePrevious PROVE TypeOK'
  BY <1>17, <1>a, RenameType DEF RestorePrevious, TypeOK, Steps, Jobs, request, Goto, Start
<1>18. ASSUME Crash PROVE TypeOK'
  BY <1>18 DEF Crash, TypeOK, Steps, request, Return
<1>19. ASSUME UNCHANGED vars PROVE TypeOK'
  BY <1>19 DEF vars, TypeOK
<1> QED
  BY <1>1, <1>2, <1>3, <1>4, <1>5, <1>6, <1>7, <1>8, <1>9, <1>10, <1>11, <1>12,
     <1>13, <1>14, <1>15, <1>16, <1>17, <1>18, <1>19 DEF Next, Step

\* The variables of the save keep their types.
THEOREM TypeCorrect == Spec => []TypeOK
  BY InitTypeOK, StepTypeOK, PTL DEF Spec
-----------------------------------------------------------------------------
(* The inductive invariant. *)

LEMMA InitIInv == Init => IInv
<1> SUFFICES ASSUME Init PROVE IInv
  OBVIOUS
<1>1. TypeOK
  BY InitTypeOK
<1> QED
  BY <1>1 DEF Init, IInv, JobFitsStep, CopyFitsStep, AtDestination, InBackup,
              Writing, Copying, PreviousKept, Replacing, AcknowledgedIsOnDisk

LEMMA StepIInv == IInv /\ [Next]_vars => IInv'
<1> SUFFICES ASSUME IInv, [Next]_vars PROVE IInv'
  OBVIOUS
<1>0. TypeOK /\ TypeOK'
  BY StepTypeOK DEF IInv
<1>a. name \in Paths /\ Temp \in Paths /\ Backup \in Paths
      /\ name # Temp /\ name # Backup /\ Temp # Backup
  BY <1>0, ScratchAssumption DEF TypeOK, Paths
<1>b. fs \in [Paths -> Contents] /\ buffer \in Documents
      /\ Torn \notin Documents /\ Absent \notin Documents
  BY <1>0, DocumentAssumption DEF TypeOK
<1> DEFINE Facts == JobFitsStep /\ CopyFitsStep /\ PreviousKept /\ AcknowledgedIsOnDisk
<1> SUFFICES Facts'
  BY <1>0 DEF IInv
<1>c. Facts
  BY DEF IInv
<1> USE <1>a, <1>b, <1>c DEF JobFitsStep, CopyFitsStep, PreviousKept, AcknowledgedIsOnDisk,
        AtDestination, InBackup, Writing, Copying, Replacing, request
<1>1. ASSUME NEW n \in Names, NEW d \in Documents, Save(n, d) PROVE Facts'
  BY <1>1 DEF Save
<1>2. ASSUME EnsureDirectory PROVE Facts'
  BY <1>2 DEF EnsureDirectory, Goto, Return
<1>3. ASSUME ProbePrevious PROVE Facts'
  BY <1>3 DEF ProbePrevious, Start
<1>4. ASSUME RemoveStaleTemp PROVE Facts'
  BY <1>4 DEF RemoveStaleTemp, Remove, Put, Goto
<1>5. ASSUME RemoveStaleBackup PROVE Facts'
  BY <1>5 DEF RemoveStaleBackup, Remove, Put, Goto
<1>6. ASSUME OpenForWriting PROVE Facts'
  BY <1>6 DEF OpenForWriting, WriteTarget, WriteFailed, Put, Goto, Return
<1>7. ASSUME WriteAndClose PROVE Facts'
  BY <1>7 DEF WriteAndClose, WriteTarget, Put, Goto
<1>8. ASSUME VerifyWrite PROVE Facts'
  BY <1>8 DEF VerifyWrite, WriteTarget, WriteDone, Goto, Return
<1>9. ASSUME RemoveBadWrite PROVE Facts'
  BY <1>9 DEF RemoveBadWrite, WriteTarget, WriteFailed, Remove, Put, Goto, Return
<1>10. ASSUME RemoveFailedFirst PROVE Facts'
  BY <1>10 DEF RemoveFailedFirst, Remove, Put, Return
<1>11. ASSUME MovePreviousAside PROVE Facts'
  BY <1>11 DEF MovePreviousAside, RenameDone, RenameFails, Goto, Start
<1>12. ASSUME OpenCopy PROVE Facts'
  BY <1>12 DEF OpenCopy, CopySource, CopyTarget, Put, Goto
<1>13. ASSUME CopyBytes PROVE Facts'
  BY <1>13 DEF CopyBytes, CopySource, CopyTarget, Put, Goto
<1>14. ASSUME CompareCopy PROVE Facts'
  BY <1>14 DEF CompareCopy, CopySource, CopyTarget, CopyDone, Goto
<1>15. ASSUME RemoveBadCopy PROVE Facts'
  BY <1>15 DEF RemoveBadCopy, CopyTarget, Remove, Put, Goto
<1>16. ASSUME InstallByRename PROVE Facts'
  BY <1>16 DEF InstallByRename, RenameDone, RenameFails, Goto, Start
<1>17. ASSUME CheckInstalled PROVE Facts'
  BY <1>17 DEF CheckInstalled, Goto, Start
<1>18. ASSUME TidyTemp PROVE Facts'
  BY <1>18 DEF TidyTemp, Remove, Put, Goto
<1>19. ASSUME TidyBackup PROVE Facts'
  BY <1>19 DEF TidyBackup, Remove, Put, Return
<1>20. ASSUME RemoveBadInstall PROVE Facts'
  BY <1>20 DEF RemoveBadInstall, Remove, Put, Goto
<1>21. ASSUME RestorePrevious PROVE Facts'
  BY <1>21 DEF RestorePrevious, RenameDone, RenameFails, Goto, Start
<1>22. ASSUME DropBackup PROVE Facts'
  BY <1>22 DEF DropBackup, Remove, Put, Goto
<1>23. ASSUME DropTemp PROVE Facts'
  BY <1>23 DEF DropTemp, Remove, Put, Return
<1>24. ASSUME Crash PROVE Facts'
  BY <1>24 DEF Crash, Return
<1>25. ASSUME UNCHANGED vars PROVE Facts'
  BY <1>25 DEF vars
<1> QED
  BY <1>1, <1>2, <1>3, <1>4, <1>5, <1>6, <1>7, <1>8, <1>9,
     <1>10, <1>11, <1>12, <1>13, <1>14, <1>15, <1>16, <1>17, <1>18,
     <1>19, <1>20, <1>21, <1>22, <1>23, <1>24, <1>25 DEF Next, Step

\* The strengthening of the two properties below is inductive.
THEOREM Inductive == Spec => []IInv
  BY InitIInv, StepIInv, PTL DEF Spec

\* However many library calls fail and wherever a crash stops it, a
\* replacement never destroys the only copy of the notebook it replaces.
THEOREM ReplacementKeepsPrevious == Spec => []PreviousKept
<1>1. IInv => PreviousKept
  BY DEF IInv
<1> QED
  BY <1>1, Inductive, PTL

\* A save that returns PHY_OK has left exactly the saved document.
THEOREM OkIsOnDisk == Spec => []AcknowledgedIsOnDisk
<1>1. IInv => AcknowledgedIsOnDisk
  BY DEF IInv
<1> QED
  BY <1>1, Inductive, PTL

-----------------------------------------------------------------------------
(* What a bounded number of failing calls may leave behind.  Each operation *)
(* after the destination was opened is annotated with the failures it takes *)
(* to get there: a leaf that is neither the previous document nor the new   *)
(* one costs one failure, each remove that does not take it away another.   *)

\* The destination is what it was, or k calls failed; a file the probe
\* missed may also have been removed.
Preserved(k) == \/ fs[name] = previous
                \/ ProbeMayFail /\ fs[name] = Absent
                \/ faults >= k

FaultsFitStep ==
    /\ Replacing => previous # Absent
    /\ (~ProbeMayFail /\ job = "first" /\ (Writing \/ pc = "first_rm")) => previous = Absent
    /\ (pc = "w_open" /\ job = "first") => fs[name] = previous
    /\ (pc = "w_verify" /\ job # "temp") => fs[name] = buffer \/ faults >= 1
    /\ (pc = "w_clean" /\ job # "temp") => faults >= 1
    /\ pc = "first_rm" => Preserved(2)
    /\ pc = "restore_rm" => faults >= 1
    /\ pc = "restore" => (fs[name] = Absent /\ faults >= 1) \/ faults >= 2
    /\ job = "restore" => /\ pc \in {"c_open", "c_copy", "c_compare"} => faults >= 2
                          /\ pc = "c_compare" => fs[name] = previous \/ faults >= 3
                          /\ pc = "c_clean" => faults >= 3
    /\ pc = "drop_temp" => Preserved(3)
    /\ (pc = "idle" /\ result = "failed") => Preserved(3)
    /\ faults <= MaxFaults

LEMMA StepFaultsFit == IInv /\ FaultsFitStep /\ [Next]_vars => FaultsFitStep'
<1> SUFFICES ASSUME IInv, FaultsFitStep, [Next]_vars PROVE FaultsFitStep'
  OBVIOUS
<1>a. name \in Paths /\ Temp \in Paths /\ Backup \in Paths
      /\ name # Temp /\ name # Backup /\ Temp # Backup
  BY ScratchAssumption DEF IInv, TypeOK, Paths
<1>b. /\ fs \in [Paths -> Contents] /\ buffer \in Documents /\ faults \in Nat
      /\ Torn \notin Documents /\ Absent \notin Documents /\ Torn # Absent
      /\ MaxFaults \in Nat
  BY DocumentAssumption, BudgetAssumption DEF IInv, TypeOK
<1>c. JobFitsStep /\ CopyFitsStep
  BY DEF IInv
<1> USE <1>a, <1>b, <1>c DEF JobFitsStep, CopyFitsStep, AtDestination, InBackup, Writing, Copying,
        Replacing, request, FaultsFitStep, Preserved, NoFault, Fault, CanFail
<1>1. ASSUME NEW n \in Names, NEW d \in Documents, Save(n, d) PROVE FaultsFitStep'
  BY <1>1 DEF Save
<1>2. ASSUME EnsureDirectory PROVE FaultsFitStep'
  BY <1>2 DEF EnsureDirectory, Goto, Return
<1>3. ASSUME ProbePrevious PROVE FaultsFitStep'
  BY <1>3 DEF ProbePrevious, Start
<1>4. ASSUME RemoveStaleTemp PROVE FaultsFitStep'
  BY <1>4 DEF RemoveStaleTemp, Remove, Put, Goto
<1>5. ASSUME RemoveStaleBackup PROVE FaultsFitStep'
  BY <1>5 DEF RemoveStaleBackup, Remove, Put, Goto
<1>6. ASSUME OpenForWriting PROVE FaultsFitStep'
  BY <1>6 DEF OpenForWriting, WriteTarget, WriteFailed, Put, Goto, Return
<1>7. ASSUME WriteAndClose PROVE FaultsFitStep'
  BY <1>7 DEF WriteAndClose, WriteTarget, Put, Goto
<1>8. ASSUME VerifyWrite PROVE FaultsFitStep'
  BY <1>8 DEF VerifyWrite, WriteTarget, WriteDone, Goto, Return
<1>9. ASSUME RemoveBadWrite PROVE FaultsFitStep'
  BY <1>9 DEF RemoveBadWrite, WriteTarget, WriteFailed, Remove, Put, Goto, Return
<1>10. ASSUME RemoveFailedFirst PROVE FaultsFitStep'
  BY <1>10 DEF RemoveFailedFirst, Remove, Put, Return
<1>11. ASSUME MovePreviousAside PROVE FaultsFitStep'
  BY <1>11 DEF MovePreviousAside, RenameDone, RenameFails, Goto, Start
<1>12. ASSUME OpenCopy PROVE FaultsFitStep'
  BY <1>12 DEF OpenCopy, CopySource, CopyTarget, Put, Goto
<1>13. ASSUME CopyBytes PROVE FaultsFitStep'
  BY <1>13 DEF CopyBytes, CopySource, CopyTarget, Put, Goto
<1>14. ASSUME CompareCopy PROVE FaultsFitStep'
  BY <1>14 DEF CompareCopy, CopySource, CopyTarget, CopyDone, Goto
<1>15. ASSUME RemoveBadCopy PROVE FaultsFitStep'
  BY <1>15 DEF RemoveBadCopy, CopyTarget, Remove, Put, Goto
<1>16. ASSUME InstallByRename PROVE FaultsFitStep'
  BY <1>16 DEF InstallByRename, RenameDone, RenameFails, Goto, Start
<1>17. ASSUME CheckInstalled PROVE FaultsFitStep'
  BY <1>17 DEF CheckInstalled, Goto, Start
<1>18. ASSUME TidyTemp \/ TidyBackup PROVE FaultsFitStep'
  BY <1>18 DEF TidyTemp, TidyBackup, Remove, Put, Goto, Return
<1>19. ASSUME RemoveBadInstall PROVE FaultsFitStep'
  BY <1>19 DEF RemoveBadInstall, Remove, Put, Goto
<1>20. ASSUME RestorePrevious PROVE FaultsFitStep'
  BY <1>20 DEF RestorePrevious, RenameDone, RenameFails, Goto, Start
<1>21. ASSUME DropBackup PROVE FaultsFitStep'
  BY <1>21 DEF DropBackup, Remove, Put, Goto
<1>22. ASSUME DropTemp PROVE FaultsFitStep'
  BY <1>22 DEF DropTemp, Remove, Put, Return
<1>23. ASSUME Crash PROVE FaultsFitStep'
  BY <1>23 DEF Crash, Return
<1>24. ASSUME UNCHANGED vars PROVE FaultsFitStep'
  BY <1>24 DEF vars
<1> QED
  BY <1>1, <1>2, <1>3, <1>4, <1>5, <1>6, <1>7, <1>8, <1>9,
     <1>10, <1>11, <1>12, <1>13, <1>14, <1>15, <1>16, <1>17, <1>18,
     <1>19, <1>20, <1>21, <1>22, <1>23, <1>24 DEF Next, Step

\* The failures counted are the failures it takes (the cleanup paths of
\* write_verified, copy_file_verified and the replacement).
THEOREM FaultsCounted == Spec => [](IInv /\ FaultsFitStep)
<1>1. Init => IInv /\ FaultsFitStep
  BY InitIInv, BudgetAssumption
  DEF Init, FaultsFitStep, Preserved, Writing, Replacing
<1>2. IInv /\ FaultsFitStep /\ [Next]_vars => (IInv /\ FaultsFitStep)'
  BY StepIInv, StepFaultsFit
<1> QED
  BY <1>1, <1>2, PTL DEF Spec

\* A save that returns after at most two failing calls has left no half-written
\* notebook in the catalog that was not there before.
THEOREM NothingTorn == Spec => []NoTornNotebook
<1>1. IInv /\ FaultsFitStep => NoTornNotebook
  <2> SUFFICES ASSUME IInv, FaultsFitStep, pc = "idle", result \in {"ok", "failed"}, faults <= 2,
                      fs[name] = Torn
               PROVE  previous = Torn
    BY DEF NoTornNotebook
  <2>1. faults \in Nat /\ buffer # Torn /\ Absent # Torn
    BY DocumentAssumption DEF IInv, TypeOK
  <2>2. CASE result = "ok"
    BY <2>1, <2>2 DEF IInv, AcknowledgedIsOnDisk
  <2>3. CASE result = "failed"
    BY <2>1, <2>3 DEF FaultsFitStep, Preserved
  <2> QED
    BY <2>2, <2>3
<1> QED
  BY <1>1, FaultsCounted, PTL

-----------------------------------------------------------------------------
(* A save of which at most two calls fail, the probe not among them, and     *)
(* that no crash stops.                                                      *)

Orderly == MaxFaults <= 2 /\ ~ProbeMayFail /\ ~MayCrash

\* Then what storage.h:49 says is true: "failure must preserve the previous
\* destination" (and with a third failure it is not).
THEOREM OrderlyFailurePreserves ==
  ASSUME MaxFaults <= 2, ~ProbeMayFail
  PROVE  Spec => []FailurePreservesPrevious
<1>1. IInv /\ FaultsFitStep => FailurePreservesPrevious
  BY BudgetAssumption DEF IInv, TypeOK, FaultsFitStep, Preserved, FailurePreservesPrevious
<1> QED
  BY <1>1, FaultsCounted, PTL

\* Until it returns, no step of a save shows in the store.
LEMMA HiddenStep ==
  ASSUME IInv, Saving, Saving', UNCHANGED <<name, previous>>,
         \A p \in Names : p # name => fs'[p] = fs[p]
  PROVE  Stored' = Stored
  BY DEF Stored

\* The operations of a save write to no other notebook.
LEMMA OthersUntouched ==
  ASSUME IInv, Step \/ Crash
  PROVE  UNCHANGED <<name, buffer, previous>> /\ \A p \in Names : p # name => fs'[p] = fs[p]
<1>a. name \in Names /\ Temp \notin Names /\ Backup \notin Names /\ fs \in [Paths -> Contents]
  BY ScratchAssumption DEF IInv, TypeOK
<1>b. \A p \in Names : p \in Paths
  BY DEF Paths
<1> USE <1>a, <1>b DEF request, WriteTarget, CopySource, CopyTarget, Put, Remove, RenameDone, RenameFails
<1>1. CASE EnsureDirectory \/ ProbePrevious \/ VerifyWrite \/ CompareCopy \/ CheckInstalled \/ Crash
  BY <1>1 DEF EnsureDirectory, ProbePrevious, VerifyWrite, CompareCopy, CheckInstalled, Crash
<1>2. CASE RemoveStaleTemp \/ RemoveStaleBackup \/ RemoveBadWrite \/ RemoveFailedFirst \/ RemoveBadCopy
  BY <1>2 DEF RemoveStaleTemp, RemoveStaleBackup, RemoveBadWrite, RemoveFailedFirst, RemoveBadCopy
<1>3. CASE OpenForWriting \/ WriteAndClose \/ OpenCopy \/ CopyBytes
  BY <1>3 DEF OpenForWriting, WriteAndClose, OpenCopy, CopyBytes
<1>4. CASE MovePreviousAside \/ InstallByRename \/ RestorePrevious
  BY <1>4 DEF MovePreviousAside, InstallByRename, RestorePrevious
<1>5. CASE TidyTemp \/ TidyBackup \/ RemoveBadInstall \/ DropBackup \/ DropTemp
  BY <1>5 DEF TidyTemp, TidyBackup, RemoveBadInstall, DropBackup, DropTemp
<1> QED
  BY <1>1, <1>2, <1>3, <1>4, <1>5 DEF Step

\* A step of a save that is under way leaves it under way or returns a status.
LEMMA StepReturns ==
  ASSUME Step
  PROVE  Saving /\ (pc' = "idle" => result' \in {"ok", "failed"})
  BY DEF Step, Saving, EnsureDirectory, ProbePrevious, VerifyWrite, CompareCopy, CheckInstalled,
         RemoveStaleTemp, RemoveStaleBackup, RemoveBadWrite, RemoveFailedFirst, RemoveBadCopy,
         OpenForWriting, WriteAndClose, OpenCopy, CopyBytes,
         MovePreviousAside, InstallByRename, RestorePrevious,
         TidyTemp, TidyBackup, RemoveBadInstall, DropBackup, DropTemp,
         WriteDone, WriteFailed, CopyDone, Goto, Start, Return

\* An orderly save implements the store: the step that returns PHY_OK replaces
\* the notebook, every other step leaves all notebooks as they were.
LEMMA OrderlyStep ==
  ASSUME Orderly, IInv, IInv', FaultsFitStep', [Next]_vars
  PROVE  [Store!Next]_Stored
<1>1. ASSUME NEW n \in Names, NEW d \in Documents, Save(n, d) PROVE Stored' = Stored
  BY <1>1 DEF Save, Stored, Saving
<1>2. ASSUME Step, pc' # "idle" PROVE Stored' = Stored
  BY <1>2, HiddenStep, OthersUntouched, StepReturns DEF Saving
<1>3. ASSUME Step, pc' = "idle", result' = "ok" PROVE Store!Next
  <2>1. fs'[name] = buffer /\ name \in Names /\ buffer \in Documents
    BY <1>3, OthersUntouched DEF IInv, TypeOK, AcknowledgedIsOnDisk
  <2>2. Stored' = [n \in Names |-> fs'[n]]
    BY <1>3 DEF Stored, Saving
  <2>3. Stored' = [Stored EXCEPT ![name] = buffer]
    BY <1>3, <2>1, <2>2, OthersUntouched, StepReturns DEF Stored
  <2> QED
    BY <2>1, <2>3 DEF Store!Next, Store!Replace
<1>4. ASSUME Step, pc' = "idle", result' = "failed" PROVE Stored' = Stored
  <2>1. fs'[name] = previous
    BY <1>4, OthersUntouched, BudgetAssumption
    DEF Orderly, IInv, TypeOK, FaultsFitStep, Preserved
  <2> QED
    BY <1>4, <2>1, OthersUntouched, StepReturns DEF Stored, Saving
<1>5. ASSUME UNCHANGED vars PROVE Stored' = Stored
  BY <1>5 DEF vars, Stored, Saving
<1>6. ~Crash
  BY DEF Crash, Orderly
<1> QED
  BY <1>1, <1>2, <1>3, <1>4, <1>5, <1>6, StepReturns DEF Next

\* The refinement the run OrderlySavesAreAtomic checks on two notebooks, for
\* any number of notebooks and documents.
THEOREM OrderlyRefines ==
  ASSUME Orderly
  PROVE  Spec => StoreSpec
<1>1. Init => Store!Init
  BY DocumentAssumption DEF Init, Store!Init, Stored, Saving, Paths
<1>2. IInv /\ (IInv /\ FaultsFitStep)' /\ [Next]_vars => [Store!Next]_Stored
  BY OrderlyStep
<1> QED
  BY <1>1, <1>2, FaultsCounted, PTL DEF Spec, StoreSpec, Store!Spec
=============================================================================
