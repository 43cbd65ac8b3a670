------------------------------- MODULE MCVdbe -------------------------------
(* Three instances of VdbeTxn in one run.  "files": two attached files and *)
(* commits that fail at each of them, the constants of the configuration.  *)
(* "nested": three statements, savepoints and errors that roll back one    *)
(* statement.  "savepoints": every error, and user functions that run      *)
(* SAVEPOINT, RELEASE and ROLLBACK TO.                                     *)
EXTENDS MCVdbeTxn

CONSTANTS v1, v2, v3, n1, n2

VARIABLE case

Nested ==
  INSTANCE VdbeTxn WITH
    VM <- {v1, v2, v3}, nDb <- 1, Name <- {n1, n2}, Control <- AllControl, Callbacks <- FALSE,
    Outcome <- {"OK", "ABORT", "FAIL"}, Journal <- {TRUE}, Faults <- {0}, MaxSavepoint <- 1

Savepoints ==
  INSTANCE VdbeTxn WITH
    nDb <- 1, Name <- {n1, n2}, Control <- AllControl, Callbacks <- TRUE,
    Outcome <- AllOutcomes, Journal <- {TRUE}, Faults <- {0, 1}, MaxSavepoint <- 2

VdbeInit ==
  \/ case = "files" /\ Init
  \/ case = "nested" /\ Nested!Init
  \/ case = "savepoints" /\ Savepoints!Init
VdbeNext ==
  /\ UNCHANGED case
  /\ \/ case = "files" /\ Next
     \/ case = "nested" /\ Nested!Next
     \/ case = "savepoints" /\ Savepoints!Next
VdbeSpec == VdbeInit /\ [][VdbeNext]_<<vars, case>>

\* VMs and savepoint names are interchangeable.
Alike == Permutations({v1, v2}) \cup Permutations({n1, n2})

\* LocksJustified and NoDeferredLeft with two files, after every commit that
\* fails in sqlite3VdbeHalt; and with one file, after every error and with user
\* functions that run SAVEPOINT, RELEASE and ROLLBACK TO.
FilesSettled ==
  /\ case = "files" => LocksJustified /\ NoDeferredLeft
  /\ case = "savepoints" => Savepoints!LocksJustified /\ Savepoints!NoDeferredLeft

\* StatementsNested with three interleaved statements: the assertion of
\* sqlite3VdbeCloseStatement.
StatementsNest == case = "nested" => Nested!StatementsNested

\* With one file, after every error, and also when user functions run SAVEPOINT,
\* RELEASE and ROLLBACK TO (OP_Savepoint, sqlite3RollbackAll): the connection is
\* well formed and SavepointsInTransaction holds.
SavepointsAgree ==
  case = "savepoints" => Savepoints!TypeOK /\ Savepoints!SavepointsInTransaction
=============================================================================
