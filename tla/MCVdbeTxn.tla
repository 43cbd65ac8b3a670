----------------------------- MODULE MCVdbeTxn -----------------------------
(* Instances of VdbeTxn for TLC.                                           *)
EXTENDS VdbeTxn

AllControl == {"BEGIN", "COMMIT", "ROLLBACK", "SAVEPOINT", "RELEASE", "ROLLBACK TO"}
AllOutcomes == {"OK", "ABORT", "FAIL", "ROLLBACK", "NOMEM", "IOERR", "INTERRUPT"}
AllFaults == -1 .. nDb + 1

\* VMs and savepoint names are interchangeable.
Interchangeable == Permutations(VM) \cup Permutations(Name)
=============================================================================
