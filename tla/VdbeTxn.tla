------------------------------ MODULE VdbeTxn ------------------------------
(***************************************************************************)
(* One database connection (struct sqlite3) over the LMDB btree layer: how *)
(* the statements of the connection begin, commit and roll back the        *)
(* transactions of its attached databases.  It models sqlite3Step          *)
(* (vdbeapi.c), the opcodes Transaction, ResultRow, AutoCommit, Savepoint  *)
(* and Halt (vdbe.c), sqlite3VdbeHalt, sqlite3VdbeCloseStatement and       *)
(* vdbeCommit (vdbeaux.c), and sqlite3RollbackAll and                      *)
(* sqlite3CloseSavepoints (main.c).                                        *)
(*                                                                         *)
(* A connection is used by one thread at a time, but its statements        *)
(* interleave: sqlite3_step returns at each row, and a statement calls     *)
(* user functions that may step other statements.  stack holds the         *)
(* statements inside sqlite3_step, the innermost first; one that is        *)
(* suspended at a row is not on it.                                        *)
(*                                                                         *)
(* The statements BEGIN, COMMIT, ROLLBACK, SAVEPOINT, RELEASE and          *)
(* ROLLBACK TO have no OP_Transaction.  They are read-only and run in one  *)
(* sqlite3_step.  With the sqlite3_reset after it they are one step here.  *)
(* Virtual tables, which have transactions of their own, and other         *)
(* connections are left out.                                               *)
(***************************************************************************)
EXTENDS BtreeOps, FiniteSets, SequencesExt

CONSTANTS VM,            \* prepared statements other than BEGIN, COMMIT, ...
          nDb,           \* sqlite3.nDb
          Name,          \* savepoint names
          Control,       \* which of the statements BEGIN, COMMIT, ... are used
          Callbacks,     \* whether user functions run them too
          Outcome,       \* how a statement may halt
          Journal,       \* values of Vdbe.usesStmtJournal
          Faults,        \* where a commit may fail, see vdbeCommit; 0: nowhere
          MaxSavepoint,  \* bound on open savepoints
          MaxTxnid       \* bound on the commits after which a writer starts

Db == 1 .. nDb

ASSUME VdbeAssumption ==
         /\ nDb \in Nat \ {0} /\ MaxSavepoint \in Nat /\ MaxTxnid \in Nat
         /\ Nobody \notin Db
         /\ Control \subseteq {"BEGIN", "COMMIT", "ROLLBACK", "SAVEPOINT", "RELEASE", "ROLLBACK TO"}
         /\ Outcome \subseteq {"OK", "ABORT", "FAIL", "ROLLBACK", "NOMEM", "IOERR", "INTERRUPT"}
         /\ Journal \subseteq BOOLEAN /\ Callbacks \in BOOLEAN
         /\ Faults \subseteq -1 .. nDb + 1

VARIABLES db,     \* struct sqlite3, with the handles of aDb[] and their environments
          vm,     \* struct Vdbe
          stack   \* the statements inside sqlite3_step

vars == <<db, vm, stack>>

Halted == [pc |-> "halt", btreeMask |-> {}, writeMask |-> {}, usesStmtJournal |-> FALSE,
           iStatement |-> 0, nStmtDefCons |-> 0, todo |-> {}, live |-> {}]

\* pc is "trans" in the OP_Transactions at the start of a program, "run" in its
\* body, "row" when suspended, "done" after the row that a writer returns at
\* its end, and "nomem" or "failed" when an opcode has failed.  btreeMask and
\* writeMask hold the databases the program uses and writes, todo those whose
\* OP_Transaction is still to come, and live those in whose present transaction
\* it takes part.
VdbeRec == [pc : {"halt", "trans", "run", "row", "done", "nomem", "failed"},
            btreeMask : SUBSET Db, writeMask : SUBSET Db, usesStmtJournal : BOOLEAN,
            iStatement : Nat, nStmtDefCons : Nat, todo : SUBSET Db, live : SUBSET Db]

\* Vdbe.readOnly: no OP_Transaction of the program is for writing.
ReadOnly(p) == p.writeMask = {}

SavepointRec == [zName : Name, nDeferredCons : Nat]

TypeOK ==
  /\ db \in [bt : [Db -> BtreeRec], env : [Db -> EnvRec(Db)], autoCommit : BOOLEAN,
             isTransactionSavepoint : BOOLEAN, pSavepoint : Seq(SavepointRec),
             nSavepoint : Nat, nStatement : Nat, nDeferredCons : Nat]
  /\ vm \in [VM -> VdbeRec]
  /\ stack \in Seq(VM)

Init ==
  /\ \E c \in [Db -> Contents] :
       db = [bt |-> [d \in Db |-> NoTxn], env |-> [d \in Db |-> NewEnv(c[d])],
             autoCommit |-> TRUE, isTransactionSavepoint |-> FALSE, pSavepoint |-> <<>>,
             nSavepoint |-> 0, nStatement |-> 0, nDeferredCons |-> 0]
  /\ vm = [v \in VM |-> Halted]
  /\ stack = <<>>

-----------------------------------------------------------------------------
(* What the routines do to the connection s.                               *)

\* sqlite3.activeVdbeCnt and writeVdbeCnt count these.
Active == {v \in VM : vm[v].pc # "halt"}
Writers == {v \in Active : ~ ReadOnly(vm[v])}

InWrite(s) == {d \in Db : s.bt[d].inTrans = "WRITE"}

\* Mutant of RollbackAll: the deferred violations stay counted.
RollbackAllKeeps(s) ==
  [s EXCEPT !.bt = [d \in Db |-> RollbackBt(s.bt[d])],
            !.env = [d \in Db |-> RollbackEnv(s.bt[d], s.env[d], d)]]

RollbackAll(s) ==
  [s EXCEPT !.bt = [d \in Db |-> RollbackBt(s.bt[d])],
            !.env = [d \in Db |-> RollbackEnv(s.bt[d], s.env[d], d)],
            !.nDeferredCons = 0]

\* Mutant of CloseSavepoints: isTransactionSavepoint is not reset.
CloseSavepointsKeeps(s) ==
  [s EXCEPT !.pSavepoint = <<>>, !.nSavepoint = 0, !.nStatement = 0]

CloseSavepoints(s) ==
  [s EXCEPT !.pSavepoint = <<>>, !.nSavepoint = 0, !.nStatement = 0,
            !.isTransactionSavepoint = FALSE]

\* The transaction is rolled back and autocommit mode entered.
ForceRollback(s) == [CloseSavepoints(RollbackAll(s)) EXCEPT !.autoCommit = TRUE]

\* sqlite3BtreeSavepoint on the databases of ds.  Of the commits, those of ok
\* succeed.
SavepointOn(s, ds, op, iSavepoint, ok) ==
  [s EXCEPT !.bt = [d \in Db |-> IF d \in ds THEN SavepointBt(s.bt[d], op, iSavepoint, d \in ok)
                                 ELSE s.bt[d]],
            !.env = [d \in Db |-> IF d \in ds
                                    THEN SavepointEnv(s.bt[d], s.env[d], d, op, iSavepoint, d \in ok)
                                    ELSE s.env[d]]]

SavepointAll(s, op, iSavepoint, ok) == SavepointOn(s, Db, op, iSavepoint, ok)

\* sqlite3VdbeCloseStatement, after the ROLLBACK calls if there are any.
CloseRolledBack(s, p, op) ==
  IF op = "ROLLBACK" THEN SavepointAll(s, "ROLLBACK", p.iStatement - 1, Db) ELSE s

HasStatement(s, p) == s.nStatement > 0 /\ p.iStatement > 0

CloseStatement(s, p, op, fail) ==
  IF ~ HasStatement(s, p) THEN s
  ELSE [SavepointAll(CloseRolledBack(s, p, op), "RELEASE", p.iStatement - 1, Db \ {fail})
         EXCEPT !.nStatement = s.nStatement - 1,
                !.nDeferredCons = IF op = "ROLLBACK" THEN p.nStmtDefCons ELSE s.nDeferredCons]

CloseFails(s, p, op, fail) ==
  HasStatement(s, p) /\ fail \in InWrite(CloseRolledBack(s, p, op))

\* vdbeCommit fails before the first sqlite3BtreeCommitPhaseOne (-1: no memory,
\* the commit hook, the master journal), in that of database fail, or after the
\* last (nDb + 1: the master journal, which is there with several writers,
\* cannot be deleted).
CommitFails(s, fail) ==
  \/ fail = -1 /\ InWrite(s) # {}
  \/ fail \in InWrite(s)
  \/ fail = nDb + 1 /\ Cardinality(InWrite(s)) > 1

\* The loop over the databases ends at the first failure.
CommitReaches(s, fail, d) == CommitFails(s, fail) => d <= fail

vdbeCommit(s, fail) ==
  [s EXCEPT
     !.bt = [d \in Db |-> IF CommitReaches(s, fail, d) THEN CommitPhaseOneBt(s.bt[d]) ELSE s.bt[d]],
     !.env = [d \in Db |-> IF CommitReaches(s, fail, d)
                             THEN CommitPhaseOneEnv(s.bt[d], s.env[d], d, d # fail) ELSE s.env[d]]]

\* The end of the transaction in autocommit mode.
AutoCommitEnd(s, out, fail) ==
  IF out \in {"OK", "FAIL"} /\ s.nDeferredCons = 0
    THEN IF CommitFails(s, fail) THEN RollbackAll(vdbeCommit(s, fail)) ELSE vdbeCommit(s, fail)
    ELSE RollbackAll(s)

StatementOp(out) == IF out \in {"OK", "FAIL"} THEN "RELEASE" ELSE "ROLLBACK"

\* The special errors of sqlite3VdbeHalt that a statement rollback cannot undo.
NeedsRollback(p, out) ==
  \/ out = "IOERR"
  \/ out = "NOMEM" /\ ~ p.usesStmtJournal
  \/ out = "INTERRUPT" /\ ~ ReadOnly(p)

\* Mutant of VdbeHalt: commits only when no other statement is active.
VdbeHaltLast(s, p, out, fail) ==
  LET s1 == IF NeedsRollback(p, out) THEN ForceRollback(s) ELSE s
      op == StatementOp(out)
      last == Cardinality(Active) = 1
  IN IF s1.autoCommit /\ last
       THEN [AutoCommitEnd(s1, out, fail) EXCEPT !.nStatement = 0]
     ELSE IF out = "ROLLBACK" \/ CloseFails(s1, p, op, fail)
       THEN ForceRollback(CloseStatement(s1, p, op, fail))
     ELSE CloseStatement(s1, p, op, fail)

\* out is the result and the error action of the statement p: "OK", "ABORT"
\* (also a violated foreign key), "FAIL" and "ROLLBACK" for a constraint,
\* "NOMEM" (also SQLITE_FULL), "IOERR" and "INTERRUPT".
VdbeHalt(s, p, out, fail) ==
  LET s1 == IF NeedsRollback(p, out) THEN ForceRollback(s) ELSE s
      op == StatementOp(out)
      onlyWriter == Cardinality(Writers) = IF ReadOnly(p) THEN 0 ELSE 1
  IN IF s1.autoCommit /\ onlyWriter
       THEN [AutoCommitEnd(s1, out, fail) EXCEPT !.nStatement = 0]
     ELSE IF out = "ROLLBACK" \/ CloseFails(s1, p, op, fail)
       THEN ForceRollback(IF out = "ROLLBACK" THEN s1 ELSE CloseStatement(s1, p, op, fail))
     ELSE CloseStatement(s1, p, op, fail)

-----------------------------------------------------------------------------
(* The steps of a statement.                                               *)

\* The application may call into the connection: no statement is executing, or
\* the innermost one has called a user function.
AppRuns == stack # <<>> => vm[Head(stack)].pc = "run"

Executing(v) == stack # <<>> /\ v = Head(stack)

Ended(s) == {d \in Db : db.bt[d].txns # <<>> /\ s.bt[d].txns = <<>>}

\* The connection becomes s and the statement v becomes p.
Become(s, v, p) ==
  /\ db' = s
  /\ vm' = [w \in VM |-> LET q == IF w = v THEN p ELSE vm[w] IN [q EXCEPT !.live = q.live \ Ended(s)]]

\* sqlite3_step on a statement that is not running.
Step(v, btreeMask, writeMask, usesStmtJournal) ==
  /\ AppRuns /\ vm[v].pc = "halt"
  /\ writeMask \subseteq btreeMask /\ \A d \in writeMask : db.env[d].txnid < MaxTxnid
  /\ usesStmtJournal => writeMask # {}
  /\ Become(db, v, [Halted EXCEPT !.pc = IF btreeMask = {} THEN "run" ELSE "trans",
                                  !.btreeMask = btreeMask, !.writeMask = writeMask,
                                  !.todo = btreeMask, !.usesStmtJournal = usesStmtJournal])
  /\ stack' = <<v>> \o stack

\* sqlite3_step after a row.
Resume(v) ==
  /\ AppRuns /\ vm[v].pc = "row"
  /\ Become(db, v, [vm[v] EXCEPT !.pc = IF ReadOnly(vm[v]) THEN "run" ELSE "done"])
  /\ stack' = <<v>> \o stack

\* OP_Transaction.  ok: sqlite3BtreeBeginStmt succeeds.
Transaction(v, ok) ==
  LET p == vm[v]
      d == Min(p.todo)
      wrflag == d \in p.writeMask
      b == BeginTransBt(db.bt[d], db.env[d], wrflag)
      opens == wrflag /\ p.usesStmtJournal /\ (~ db.autoCommit \/ Cardinality(Active) > 1)
      counts == opens /\ p.iStatement = 0
      nStatement == IF counts THEN db.nStatement + 1 ELSE db.nStatement
  IN /\ Executing(v) /\ p.pc = "trans"
     /\ ok \/ (opens /\ "NOMEM" \in Outcome)
     /\ Become([db EXCEPT !.bt[d] = IF opens /\ ok THEN BeginStmtBt(b) ELSE b,
                          !.env[d] = BeginTransEnv(db.bt[d], db.env[d], d, wrflag),
                          !.nStatement = nStatement],
               v,
               [p EXCEPT !.pc = IF ~ ok THEN "nomem" ELSE IF p.todo = {d} THEN "run" ELSE "trans",
                         !.todo = p.todo \ {d},
                         !.live = p.live \cup {d},
                         !.iStatement = IF counts THEN db.nSavepoint + nStatement ELSE p.iStatement,
                         !.nStmtDefCons = IF opens THEN db.nDeferredCons ELSE p.nStmtDefCons])
     /\ UNCHANGED stack

\* The body of the program: it may write, and may leave deferred foreign key
\* violations or resolve them.  A write to a transaction that has ended under
\* the statement is not modelled.
Write(v, d, c, nDeferredCons) ==
  /\ Executing(v) /\ vm[v].pc = "run"
  /\ d \in vm[v].live \cap vm[v].writeMask
  /\ Become([db EXCEPT !.bt[d] = WriteBt(db.bt[d], c), !.nDeferredCons = nDeferredCons],
            v, vm[v])
  /\ UNCHANGED stack

\* Mutant of ResultRow: the statement transaction stays open.
ResultRowOpen(v, fail) ==
  LET p == vm[v] IN
  /\ Executing(v) /\ p.pc = "run" /\ fail = 0
  /\ Become(db, v, [p EXCEPT !.pc = "row"])
  /\ stack' = Tail(stack)

\* What a failed mdb_txn_commit makes of the statement: "ABORT" stands for the
\* error codes that are not special to sqlite3VdbeHalt.
CommitErrors == {"IOERR", "NOMEM", "ABORT"}

\* OP_ResultRow.
ResultRow(v, fail) ==
  LET p == vm[v]
      failed == CloseFails(db, p, "RELEASE", fail)
  IN /\ Executing(v) /\ p.pc = "run"
     /\ fail = 0 \/ (failed /\ Outcome \cap CommitErrors # {})
     /\ Become(CloseStatement(db, p, "RELEASE", fail), v,
               [p EXCEPT !.pc = IF failed THEN "failed" ELSE "row",
                         !.iStatement = IF HasStatement(db, p) THEN 0 ELSE p.iStatement])
     /\ stack' = IF failed THEN stack ELSE Tail(stack)

\* OP_Halt or an error.  The OP_Transactions can only fail, and a constraint
\* with the conflict clause FAIL or ROLLBACK is one on a table that is written.
Halt(v, out, fail) ==
  LET p == vm[v] IN
  /\ Executing(v)
  /\ p.pc = "trans" => out # "OK"
  /\ out \in {"FAIL", "ROLLBACK"} => p.pc = "run" /\ ~ ReadOnly(p)
  /\ p.pc = "nomem" => out = "NOMEM"
  /\ p.pc = "failed" => out \in CommitErrors
  /\ Become(VdbeHalt(db, p, out, fail), v, Halted)
  /\ stack' = Tail(stack)

\* sqlite3_reset or sqlite3_finalize of a suspended statement.
Reset(v, fail) ==
  /\ AppRuns /\ vm[v].pc = "row"
  /\ Become(VdbeHalt(db, vm[v], "OK", fail), v, Halted)
  /\ UNCHANGED stack

-----------------------------------------------------------------------------
(* The statements BEGIN, COMMIT, ROLLBACK (OP_AutoCommit), SAVEPOINT,      *)
(* RELEASE and ROLLBACK TO (OP_Savepoint).  Where they fail because a      *)
(* statement is writing or foreign keys are violated, nothing changes.     *)

MayControl == IF Callbacks THEN AppRuns ELSE stack = <<>>

Controls(c, s) == c \in Control /\ MayControl /\ Become(s, Nobody, Halted) /\ UNCHANGED stack

ControlHalt(s, out, fail) == VdbeHalt(s, Halted, out, fail)

Begin ==
  /\ db.autoCommit /\ db.nDeferredCons = 0
  /\ Controls("BEGIN", CloseSavepoints(ControlHalt([db EXCEPT !.autoCommit = FALSE], "OK", 0)))

Commit(fail) ==
  /\ ~ db.autoCommit /\ Writers = {} /\ db.nDeferredCons = 0
  /\ Controls("COMMIT", CloseSavepoints(ControlHalt([db EXCEPT !.autoCommit = TRUE], "OK", fail)))

Rollback ==
  /\ ~ db.autoCommit
  /\ Controls("ROLLBACK", ForceRollback(db))

\* COMMIT or ROLLBACK without a transaction, and RELEASE or ROLLBACK TO of a
\* savepoint there is not: the statement halts with SQLITE_ERROR.
ControlError(c) ==
  /\ c # "BEGIN" /\ c # "SAVEPOINT"
  /\ db.autoCommit /\ (c = "COMMIT" => Writers = {})
  /\ Controls(c, ControlHalt(db, "ABORT", 0))

Savepoint(zName) ==
  /\ Writers = {} /\ Len(db.pSavepoint) < MaxSavepoint
  /\ Controls("SAVEPOINT",
       [db EXCEPT !.autoCommit = FALSE,
                  !.isTransactionSavepoint = @ \/ db.autoCommit,
                  !.nSavepoint = IF db.autoCommit THEN @ ELSE @ + 1,
                  !.pSavepoint = <<[zName |-> zName, nDeferredCons |-> db.nDeferredCons]>> \o @])

\* The position of the named savepoint in the list, the newest being the first.
Found(zName) == SelectInSeq(db.pSavepoint, LAMBDA sp : sp.zName = zName)

IsTransaction(n) == n = Len(db.pSavepoint) /\ db.isTransactionSavepoint

\* The savepoints from position n on are kept.
DropSavepoints(s, n, nSavepoint) ==
  [s EXCEPT !.pSavepoint = SubSeq(db.pSavepoint, n, Len(db.pSavepoint)), !.nSavepoint = nSavepoint]

ReleaseTransaction(zName, fail) ==
  LET n == Found(zName) IN
  /\ n > 0 /\ IsTransaction(n) /\ Writers = {} /\ db.nDeferredCons = 0
  /\ Controls("RELEASE",
       [DropSavepoints(ControlHalt([db EXCEPT !.autoCommit = TRUE], "OK", fail),
                       n + 1, db.nSavepoint - (n - 1))
          EXCEPT !.isTransactionSavepoint = FALSE])

\* A commit that fails ends the loop over the databases.  The statement then
\* halts with the error: a special one rolls the transaction back, another one
\* leaves it and its savepoints as they are.
Release(zName, fail, special) ==
  LET n == Found(zName)
      failed == fail \in InWrite(db)
      s == SavepointOn(db, {d \in Db : failed => d <= fail}, "RELEASE", db.nSavepoint - n,
                       Db \ {fail})
  IN /\ n > 0 /\ ~ IsTransaction(n) /\ Writers = {}
     /\ Controls("RELEASE",
          IF failed THEN ControlHalt(s, IF special THEN "IOERR" ELSE "ABORT", 0)
          ELSE DropSavepoints(s, n + 1, db.nSavepoint - n))

RollbackTo(zName) ==
  LET n == Found(zName) IN
  /\ n > 0
  /\ Controls("ROLLBACK TO",
       [DropSavepoints(SavepointAll(db, "ROLLBACK", db.nSavepoint - n, Db), n, db.nSavepoint - (n - 1))
          EXCEPT !.nDeferredCons = db.pSavepoint[n].nDeferredCons])

-----------------------------------------------------------------------------

Next ==
  \/ \E v \in VM :
       \/ \E btreeMask, writeMask \in SUBSET Db, usesStmtJournal \in Journal \cup {FALSE} :
            Step(v, btreeMask, writeMask, usesStmtJournal)
       \/ Resume(v)
       \/ \E ok \in BOOLEAN : Transaction(v, ok)
       \/ \E d \in Db, c \in Contents, nDeferredCons \in 0 .. 1 : Write(v, d, c, nDeferredCons)
       \/ \E fail \in Faults : ResultRow(v, fail)
       \/ \E out \in Outcome, fail \in Faults : Halt(v, out, fail)
       \/ \E fail \in Faults : Reset(v, fail)
  \/ Begin
  \/ \E fail \in Faults : Commit(fail)
  \/ Rollback
  \/ \E c \in Control : ControlError(c)
  \/ \E zName \in Name :
       \/ Savepoint(zName)
       \/ \E fail \in Faults : ReleaseTransaction(zName, fail)
       \/ \E fail \in Faults, special \in BOOLEAN : Release(zName, fail, special)
       \/ RollbackTo(zName)

Spec == Init /\ [][Next]_vars

\* A statement that executes comes to its end.
FairSpec == Spec /\ \A v \in VM : WF_vars(\E out \in Outcome, fail \in Faults : Halt(v, out, fail))

-----------------------------------------------------------------------------

\* Statement transactions nest: the statement that executes, and so may halt
\* next, closes the innermost one.  This is the assertion
\* p->iStatement==(db->nStatement+db->nSavepoint) of sqlite3VdbeCloseStatement,
\* over the nestings of statements and savepoints.  It leaves out what breaks it:
\* errors that force a rollback of the transaction, after which the other
\* statements keep their iStatement, and user functions that run SAVEPOINT,
\* RELEASE or ROLLBACK TO.
StatementsNested ==
  \A v \in Active : Executing(v) /\ HasStatement(db, vm[v])
                      => vm[v].iStatement = db.nStatement + db.nSavepoint


\* No lock outlives its cause: in autocommit mode the connection is in a write
\* transaction only while a statement is writing, and in a read transaction or
\* a statement transaction only while a statement is active.  The transaction
\* ends when the last writer halts in sqlite3VdbeHalt, whatever its result.
LocksJustified ==
  db.autoCommit =>
    /\ InWrite(db) # {} => Writers # {}
    /\ (db.nStatement > 0 \/ \E d \in Db : db.bt[d].txns # <<>>) => Active # {}

\* The assertions of OP_Savepoint: savepoints are open only in a transaction,
\* and nSavepoint and isTransactionSavepoint count them, also after a forced
\* rollback by another statement.
SavepointsInTransaction ==
  /\ db.pSavepoint # <<>> => ~ db.autoCommit
  /\ Len(db.pSavepoint) = db.nSavepoint + IF db.isTransactionSavepoint THEN 1 ELSE 0

\* The assertion of sqlite3Step when a statement starts, and NEVER(p->readOnly)
\* in sqlite3VdbeHalt: no deferred foreign key violation is left behind in
\* autocommit mode.
NoDeferredLeft == db.autoCommit /\ Writers = {} => db.nDeferredCons = 0

\* Between BEGIN and COMMIT nothing is committed: "If a constraint error occurs
\* within the statement, the effect of that one statement can be rolled back
\* without having to rollback the entire transaction" (sqlite3BtreeBeginStmt).
NothingCommittedEarly ==
  [][~ db.autoCommit /\ ~ db'.autoCommit
       => \A d \in Db : db'.env[d].data = db.env[d].data]_vars

\* ROLLBACK TO and RELEASE inside a transaction leave it open: "No locks are
\* released and the transaction remains open" (sqlite3BtreeSavepoint).
TransactionStaysOpen ==
  [][~ db.autoCommit /\ ~ db'.autoCommit => InWrite(db) \subseteq InWrite(db')]_vars

\* A transaction on several files commits in all of them or in none: "This
\* requires a master journal file to ensure the transaction is committed
\* atomicly" (vdbeCommit).  When a step changes the committed contents of a file,
\* every file of the transaction gets the contents written there.
AtomicCommit ==
  [][(\E d \in Db : db'.env[d].data # db.env[d].data)
       => \A d \in InWrite(db) : db'.env[d].data = curr_txn(db.bt[d].txns)]_vars
=============================================================================
