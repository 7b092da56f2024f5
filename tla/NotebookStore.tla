---------------------------- MODULE NotebookStore ----------------------------
(***************************************************************************)
(* What phy_storage_write_notebook_atomic promises its callers: a save     *)
(* replaces one notebook as a whole, or fails and changes nothing.         *)
(***************************************************************************)
CONSTANTS Names, Documents, Contents, Absent

VARIABLE stored     \* the document under each notebook name

Init == stored = [n \in Names |-> Absent]

\* PHY_OK: the new document is under the name, every other name untouched.
Replace(n, d) == stored' = [stored EXCEPT ![n] = d]

Next == \E n \in Names, d \in Documents : Replace(n, d)

Spec == Init /\ [][Next]_stored
=============================================================================
