----------------------------- MODULE AtomicSave -----------------------------
(***************************************************************************)
(* phy_storage_write_notebook_atomic of the Ndless backend, one action per *)
(* file operation it performs.  The directory holds the notebooks and the  *)
(* two scratch leaves phy-save-new.tns and phy-save-backup.tns; a file is  *)
(* absent, holds a whole document, or is Torn: truncated by fopen("wb"),   *)
(* short, or not the bytes that were written.                              *)
(*                                                                         *)
(* Every C library call may fail.  A call that fails without a reason in   *)
(* the directory spends one unit of a budget that each save starts anew,   *)
(* so a run can ask what k failures in one save may do.  A crash (battery  *)
(* pull, OS reset) may stop the save between any two operations; nothing   *)
(* in the program reads the scratch leaves when it starts again.           *)
(***************************************************************************)
EXTENDS Naturals

CONSTANTS
    Names,          \* notebook leaves phy_storage_name_valid accepts
    Documents,      \* serialized notebooks
    Temp,           \* PHY_STORAGE_TEMPORARY_NAME
    Backup,         \* PHY_STORAGE_BACKUP_NAME
    Absent, Torn,   \* the two states of a leaf that hold no document
    MaxFaults,      \* failing calls in one save
    ProbeMayFail,   \* may the existence probe fail on a file that exists?
    MayCrash        \* may the save stop between two operations?

\* phy_storage_name_valid rejects both scratch leaves, so no notebook is one.
ASSUME ScratchAssumption == Temp \notin Names /\ Backup \notin Names /\ Temp # Backup
ASSUME DocumentAssumption == Absent \notin Documents /\ Torn \notin Documents /\ Absent # Torn
ASSUME BudgetAssumption == MaxFaults \in Nat /\ ProbeMayFail \in BOOLEAN /\ MayCrash \in BOOLEAN

VARIABLES
    fs,         \* what the directory holds
    pc,         \* the next operation of the save
    job,        \* the copy the current write or copy belongs to
    name,       \* destination leaf
    buffer,     \* the document being saved
    previous,   \* history: what the destination held when the save began
    result,     \* what the last save returned
    faults      \* calls of this save that have failed

vars == <<fs, pc, job, name, buffer, previous, result, faults>>
request == <<name, buffer, previous>>

Paths == Names \cup {Temp, Backup}
Contents == Documents \cup {Absent, Torn}
Jobs == {"first", "temp", "backup", "inplace", "restore"}
Steps == {"idle", "ensure", "probe", "rm_temp", "rm_backup",
          "w_open", "w_write", "w_verify", "w_clean", "first_rm",
          "move_aside", "c_open", "c_copy", "c_compare", "c_clean",
          "install", "check", "tidy_temp", "tidy_backup",
          "restore_rm", "restore", "drop_backup", "drop_temp"}

\* The save has not returned.
Saving == pc # "idle"
\* The save found a previous file, so it took the replacement path.
Replacing == job # "first"

Init == /\ fs \in [Paths -> {Absent}]
        /\ pc = "idle" /\ job = "first"
        /\ name \in Names /\ buffer \in Documents /\ previous = Absent
        /\ result = "none" /\ faults = 0

-----------------------------------------------------------------------------
(* What one library call may do. *)

CanFail == faults < MaxFaults
Fault == CanFail /\ faults' = faults + 1
NoFault == UNCHANGED faults

Goto(step) == pc' = step /\ UNCHANGED <<job, result>>
Start(work, step) == job' = work /\ pc' = step /\ UNCHANGED result
Return(status) == pc' = "idle" /\ result' = status /\ UNCHANGED job

Put(path, content) == fs' = [fs EXCEPT ![path] = content]

\* remove(): the callers ignore its result.
Remove(path) == \/ Put(path, Absent) /\ NoFault
                \/ fs[path] # Absent /\ Fault /\ UNCHANGED fs

RenameDone(from, to) ==
    /\ fs[from] # Absent
    /\ fs' = [fs EXCEPT ![to] = fs[from], ![from] = Absent]
    /\ NoFault

\* Not every target file system replaces an existing leaf.
RenameFails(from, to) ==
    /\ \/ (fs[from] = Absent \/ fs[to] # Absent) /\ NoFault
       \/ Fault
    /\ UNCHANGED fs

-----------------------------------------------------------------------------
(* The call, and the choice between a first save and a replacement. *)

\* Variant: the name check dropped.
SaveAnyLeaf(n, d) ==
    /\ pc = "idle"
    /\ name' \in {n, Temp} /\ buffer' = d /\ previous' = fs[n]
    /\ faults' = 0
    /\ job' = "first" /\ pc' = "ensure" /\ result' = "none"
    /\ UNCHANGED fs

Save(n, d) ==
    /\ pc = "idle"
    /\ name' = n /\ buffer' = d /\ previous' = fs[n]
    /\ faults' = 0
    /\ job' = "first" /\ pc' = "ensure" /\ result' = "none"
    /\ UNCHANGED fs

EnsureDirectory ==
    /\ pc = "ensure"
    /\ \/ NoFault /\ Goto("probe")
       \/ Fault /\ Return("failed")
    /\ UNCHANGED <<fs, request>>

ProbePrevious ==
    /\ pc = "probe"
    /\ \/ fs[name] # Absent /\ NoFault /\ Start("temp", "rm_temp")
       \/ fs[name] = Absent /\ NoFault /\ Start("first", "w_open")
       \/ fs[name] # Absent /\ ProbeMayFail /\ Fault /\ Start("first", "w_open")
    /\ UNCHANGED <<fs, request>>

RemoveStaleTemp ==
    /\ pc = "rm_temp" /\ Remove(Temp) /\ Goto("rm_backup")
    /\ UNCHANGED request

RemoveStaleBackup ==
    /\ pc = "rm_backup" /\ Remove(Backup) /\ Goto("w_open")
    /\ UNCHANGED request

-----------------------------------------------------------------------------
(* write_verified: write, close, read back, remove what did not match. *)

WriteTarget == IF job = "temp" THEN Temp ELSE name

WriteDone == \/ job = "first"   /\ Return("ok")
             \/ job = "temp"    /\ Goto("move_aside")
             \/ job = "inplace" /\ Goto("tidy_temp")

\* Variant: a failed first save is not removed a second time.
WriteFailedOnce == \/ job = "first"   /\ Return("failed")
                   \/ job = "temp"    /\ Return("failed")
                   \/ job = "inplace" /\ Goto("restore_rm")

WriteFailed == \/ job = "first"   /\ Goto("first_rm")
               \/ job = "temp"    /\ Return("failed")
               \/ job = "inplace" /\ Goto("restore_rm")

\* fopen(path, "wb") truncates the leaf.
OpenForWriting ==
    /\ pc = "w_open"
    /\ \/ Put(WriteTarget, Torn) /\ NoFault /\ Goto("w_write")
       \/ Fault /\ WriteFailed /\ UNCHANGED fs
    /\ UNCHANGED request

\* fwrite and fclose: done, lost without notice, or reported as failed.
WriteAndClose ==
    /\ pc = "w_write"
    /\ \/ Put(WriteTarget, buffer) /\ NoFault /\ Goto("w_verify")
       \/ Fault /\ Goto("w_verify") /\ UNCHANGED fs
       \/ Fault /\ Goto("w_clean") /\ UNCHANGED fs
    /\ UNCHANGED request

\* Variant: no readback, the results of fwrite and fclose are believed.
VerifyNothing ==
    /\ pc = "w_verify" /\ NoFault /\ WriteDone
    /\ UNCHANGED <<fs, request>>

VerifyWrite ==
    /\ pc = "w_verify"
    /\ \/ fs[WriteTarget] = buffer /\ NoFault /\ WriteDone
       \/ fs[WriteTarget] # buffer /\ NoFault /\ Goto("w_clean")
       \/ Fault /\ Goto("w_clean")
    /\ UNCHANGED <<fs, request>>

RemoveBadWrite ==
    /\ pc = "w_clean" /\ Remove(WriteTarget) /\ WriteFailed
    /\ UNCHANGED request

RemoveFailedFirst ==
    /\ pc = "first_rm" /\ Remove(name) /\ Return("failed")
    /\ UNCHANGED request

-----------------------------------------------------------------------------
(* copy_file_verified: the fallback of a rename that failed. *)

CopySource == IF job = "backup" THEN name ELSE Backup
CopyTarget == IF job = "backup" THEN Backup ELSE name

CopyDone == \/ job = "backup"  /\ Goto("install")
            \/ job = "restore" /\ Goto("drop_backup")

\* Both streams are opened before either is checked.
OpenCopy ==
    /\ pc = "c_open"
    /\ \/ /\ fs[CopySource] # Absent /\ NoFault
          /\ Put(CopyTarget, Torn) /\ Goto("c_copy")
       \/ /\ fs[CopySource] = Absent /\ NoFault
          /\ Put(CopyTarget, Torn) /\ Goto("c_clean")
       \/ /\ Fault /\ Put(CopyTarget, Torn) /\ Goto("c_clean")
       \/ /\ Fault /\ UNCHANGED fs /\ Goto("c_clean")
    /\ UNCHANGED request

CopyBytes ==
    /\ pc = "c_copy"
    /\ \/ Put(CopyTarget, fs[CopySource]) /\ NoFault /\ Goto("c_compare")
       \/ Fault /\ Goto("c_compare") /\ UNCHANGED fs
       \/ Fault /\ Goto("c_clean") /\ UNCHANGED fs
    /\ UNCHANGED request

CompareCopy ==
    /\ pc = "c_compare"
    /\ \/ fs[CopyTarget] = fs[CopySource] /\ NoFault /\ CopyDone
       \/ fs[CopyTarget] # fs[CopySource] /\ NoFault /\ Goto("c_clean")
       \/ Fault /\ Goto("c_clean")
    /\ UNCHANGED <<fs, request>>

RemoveBadCopy ==
    /\ pc = "c_clean" /\ Remove(CopyTarget) /\ Goto("drop_temp")
    /\ UNCHANGED request

-----------------------------------------------------------------------------
(* Replacement: previous file aside, new one in, or previous one back. *)

MovePreviousAside ==
    /\ pc = "move_aside"
    /\ \/ RenameDone(name, Backup) /\ Goto("install")
       \/ RenameFails(name, Backup) /\ Start("backup", "c_open")
    /\ UNCHANGED request

InstallByRename ==
    /\ pc = "install"
    /\ \/ RenameDone(Temp, name) /\ Goto("check")
       \/ RenameFails(Temp, name) /\ Start("inplace", "w_open")
    /\ UNCHANGED request

CheckInstalled ==
    /\ pc = "check"
    /\ \/ fs[name] = buffer /\ NoFault /\ Goto("tidy_temp")
       \/ fs[name] # buffer /\ NoFault /\ Start("inplace", "w_open")
       \/ Fault /\ Start("inplace", "w_open")
    /\ UNCHANGED <<fs, request>>

TidyTemp ==
    /\ pc = "tidy_temp" /\ Remove(Temp) /\ Goto("tidy_backup")
    /\ UNCHANGED request

TidyBackup ==
    /\ pc = "tidy_backup" /\ Remove(Backup) /\ Return("ok")
    /\ UNCHANGED request

RemoveBadInstall ==
    /\ pc = "restore_rm" /\ Remove(name) /\ Goto("restore")
    /\ UNCHANGED request

\* Variant: no copy when the rename back fails.
RestoreByRenameOnly ==
    /\ pc = "restore"
    /\ \/ RenameDone(Backup, name) /\ Goto("drop_temp")
       \/ RenameFails(Backup, name) /\ Goto("drop_backup")
    /\ UNCHANGED request

\* Variant: the previous file is not brought back.
RestoreNothing ==
    /\ pc = "restore" /\ NoFault /\ Goto("drop_temp")
    /\ UNCHANGED <<fs, request>>

RestorePrevious ==
    /\ pc = "restore"
    /\ \/ RenameDone(Backup, name) /\ Goto("drop_temp")
       \/ RenameFails(Backup, name) /\ Start("restore", "c_open")
    /\ UNCHANGED request

DropBackup ==
    /\ pc = "drop_backup" /\ Remove(Backup) /\ Goto("drop_temp")
    /\ UNCHANGED request

DropTemp ==
    /\ pc = "drop_temp" /\ Remove(Temp) /\ Return("failed")
    /\ UNCHANGED request

\* The program stops here and starts again with an idle storage layer.
Crash ==
    /\ MayCrash /\ Saving
    /\ Return("crashed")
    /\ UNCHANGED <<fs, request, faults>>

Step == \/ EnsureDirectory \/ ProbePrevious \/ RemoveStaleTemp \/ RemoveStaleBackup
        \/ OpenForWriting \/ WriteAndClose \/ VerifyWrite \/ RemoveBadWrite
        \/ RemoveFailedFirst
        \/ MovePreviousAside \/ OpenCopy \/ CopyBytes \/ CompareCopy \/ RemoveBadCopy
        \/ InstallByRename \/ CheckInstalled \/ TidyTemp \/ TidyBackup
        \/ RemoveBadInstall \/ RestorePrevious \/ DropBackup \/ DropTemp

Next == (\E n \in Names, d \in Documents : Save(n, d)) \/ Step \/ Crash

Spec == Init /\ [][Next]_vars

-----------------------------------------------------------------------------
(* Properties. *)

\* Every variable stays in its range (the local variables of the C function
\* and the leaves it names).
TypeOK == /\ fs \in [Paths -> Contents]
          /\ pc \in Steps /\ job \in Jobs
          /\ name \in Names /\ buffer \in Documents /\ previous \in Contents
          /\ result \in {"none", "ok", "failed", "crashed"}
          /\ faults \in Nat

\* However many calls fail, and wherever a crash stops it, a replacement that
\* saw the previous file never destroys the only copy of it: the old document
\* is still at the destination or in the backup leaf, or the new one is
\* installed (storage_ndless.c:315-351, the order of rename, write and remove).
\* Of what a crashed save of another notebook left in the backup leaf it says
\* nothing: line 316 removes that.
PreviousKept == Replacing => \/ fs[name] = previous
                             \/ fs[Backup] = previous
                             \/ fs[name] = buffer

\* PHY_OK is returned only when the destination reads back as the document
\* that was passed in, whatever the writes reported (write_verified and
\* file_matches_buffer).
AcknowledgedIsOnDisk == (pc = "idle" /\ result = "ok") => fs[name] = buffer

\* A save that returns leaves no half-written notebook in the catalog while at
\* most two of its calls fail: a bad first write is removed twice, by
\* write_temporary or write_verified and again by the caller.
NoTornNotebook == (pc = "idle" /\ result \in {"ok", "failed"} /\ faults <= 2)
                     => (fs[name] = Torn => previous = Torn)

\* storage.h:49 "Atomic replacement: failure must preserve the previous
\* destination."
FailurePreservesPrevious == (pc = "idle" /\ result = "failed") => fs[name] = previous

\* What a reader of the notebooks sees: the old document until the save
\* returns.  While at most two calls of a save fail and none of them is the
\* probe, the save behaves as one atomic step on it (see NotebookStore).
Stored == [n \in Names |-> IF Saving /\ n = name THEN previous ELSE fs[n]]
Store == INSTANCE NotebookStore WITH stored <- Stored, Contents <- Contents
StoreSpec == Store!Spec
=============================================================================
