------------------------------ MODULE BtreeOps ------------------------------
(***************************************************************************)
(* The transaction operations of lmdb-backend/src/btree.c as operators on  *)
(* the state of one handle (struct Btree) and of the LMDB environment it   *)
(* is open on.                                                             *)
(*                                                                         *)
(* Handle b: inTrans is Btree.inTrans.  txns is the chain of LMDB          *)
(* transactions from main_txn (first) to curr_txn (last), each given by    *)
(* the contents it sees; it is empty when both pointers are NULL, and the  *)
(* parent of curr_txn is the element before the last.  mt_txnid is the     *)
(* committed version main_txn started from.                                *)
(*                                                                         *)
(* Environment e: data is what is committed, txnid counts the commits and  *)
(* writer is the handle that holds LMDB's writer mutex.                    *)
(*                                                                         *)
(* An operation that calls mdb_txn_commit takes a flag ok: LMDB may fail   *)
(* to commit (no space, I/O error), and then aborts the transaction.       *)
(*                                                                         *)
(* The model is of a build with NDEBUG.  sqlite3BtreeBeginStmt asserts     *)
(* that pBt->inTransaction is TRANS_WRITE, but sqlite3BtreeOpen sets that  *)
(* field to TRANS_NONE and nothing sets it again: a build with assertions  *)
(* stops there at the first statement transaction.                         *)
(***************************************************************************)
EXTENDS Integers, Sequences

CONSTANTS Contents,  \* what a database can contain
          Nobody     \* no handle

NoTxn == [inTrans |-> "NONE", txns |-> <<>>, mt_txnid |-> 0]

BtreeRec == [inTrans : {"NONE", "READ", "WRITE"}, txns : Seq(Contents), mt_txnid : Nat]

EnvRec(H) == [data : Contents, txnid : Nat, writer : H \cup {Nobody}]

NewEnv(c) == [data |-> c, txnid |-> 0, writer |-> Nobody]

curr_txn(t) == t[Len(t)]

parent(t) == SubSeq(t, 1, Len(t) - 1)

-----------------------------------------------------------------------------
(* LMDB: one writer at a time, whose commit becomes the new version.       *)
(* txnid also counts the commits of write transactions that changed        *)
(* nothing, which LMDB drops without a new version.  So a property about   *)
(* what others can see compares data, not txnid.                           *)

mdb_txn_commit(e, h, c) ==
  IF e.writer = h THEN [data |-> c, txnid |-> e.txnid + 1, writer |-> Nobody] ELSE e

mdb_txn_abort(e, h) == IF e.writer = h THEN [e EXCEPT !.writer = Nobody] ELSE e

-----------------------------------------------------------------------------
(* sqlite3BtreeBeginTrans                                                  *)

\* The early return: the transaction there is serves the request.
HasTxn(b, wrflag) == b.inTrans = "WRITE" \/ (b.inTrans = "READ" /\ ~ wrflag)

\* mdb_txn_begin waits for the writer mutex.
MayBegin(e, wrflag) == wrflag => e.writer = Nobody

\* Mutant of BeginTransBt: the snapshot is taken to be the version before.
BeginTransBtBefore(b, e, wrflag) ==
  IF HasTxn(b, wrflag) THEN b
  ELSE [inTrans  |-> IF wrflag THEN "WRITE" ELSE "READ",
        txns     |-> <<e.data>>,
        mt_txnid |-> e.txnid - 1]

\* Mutant of BeginTransBt: an upgrade goes on in the read transaction.
BeginTransBtStale(b, e, wrflag) ==
  IF HasTxn(b, wrflag) THEN b
  ELSE IF b.inTrans = "READ" THEN [b EXCEPT !.inTrans = "WRITE"]
  ELSE [inTrans  |-> IF wrflag THEN "WRITE" ELSE "READ",
        txns     |-> <<e.data>>,
        mt_txnid |-> e.txnid]

\* A read transaction that is upgraded is replaced by a write transaction on
\* the newest version.
BeginTransBt(b, e, wrflag) ==
  IF HasTxn(b, wrflag) THEN b
  ELSE [inTrans  |-> IF wrflag THEN "WRITE" ELSE "READ",
        txns     |-> <<e.data>>,
        mt_txnid |-> e.txnid]

BeginTransEnv(b, e, h, wrflag) ==
  IF HasTxn(b, wrflag) \/ ~ wrflag THEN e ELSE [e EXCEPT !.writer = h]

\* sqlite3BtreeBeginStmt: a nested transaction on top of curr_txn.
BeginStmtBt(b) == [b EXCEPT !.txns = Append(b.txns, curr_txn(b.txns))]

\* sqlite3BtreeInsert, Delete, PutData, ClearTable, CreateTable, DropTable and
\* UpdateMeta change what curr_txn sees.
WriteBt(b, c) == [b EXCEPT !.txns = Append(parent(b.txns), c)]

-----------------------------------------------------------------------------
(* sqlite3BtreeCommitPhaseOne.  PhaseTwo does nothing.                     *)

\* Mutant of CommitPhaseOneBt: inTrans is not reset.
CommitPhaseOneBtKeeps(b) == IF b.txns = <<>> THEN b ELSE [NoTxn EXCEPT !.inTrans = b.inTrans]

CommitPhaseOneBt(b) == IF b.txns = <<>> THEN b ELSE NoTxn

\* Mutant of CommitPhaseOneEnv: main_txn is committed without its children.
CommitPhaseOneEnvMain(b, e, h, ok) ==
  IF b.txns = <<>> THEN e
  ELSE IF ok THEN mdb_txn_commit(e, h, b.txns[1]) ELSE mdb_txn_abort(e, h)

CommitPhaseOneEnv(b, e, h, ok) ==
  IF b.txns = <<>> THEN e
  ELSE IF ok THEN mdb_txn_commit(e, h, curr_txn(b.txns)) ELSE mdb_txn_abort(e, h)

-----------------------------------------------------------------------------
(* sqlite3BtreeSavepoint.  Only iSavepoint = -1 is told from other values. *)

\* Merging a nested transaction into its parent.
Merged(t) == Append(parent(parent(t)), curr_txn(t))

SavepointBt(b, op, iSavepoint, ok) ==
  IF b.txns = <<>> THEN b
  ELSE IF iSavepoint = -1 \/ Len(b.txns) = 1 THEN NoTxn
  ELSE [b EXCEPT !.txns = IF op = "RELEASE" /\ ok THEN Merged(b.txns) ELSE parent(b.txns)]

SavepointEnv(b, e, h, op, iSavepoint, ok) ==
  IF b.txns = <<>> \/ (iSavepoint # -1 /\ Len(b.txns) > 1) THEN e
  ELSE IF op = "RELEASE" /\ ok THEN mdb_txn_commit(e, h, curr_txn(b.txns))
  ELSE mdb_txn_abort(e, h)

\* Mutant of RollbackBt: only the innermost transaction is ended.
RollbackBtInner(b) == SavepointBt(b, "ROLLBACK", 0, TRUE)

\* sqlite3BtreeRollback, and sqlite3BtreeClose for an open transaction.
RollbackBt(b) == SavepointBt(b, "ROLLBACK", -1, TRUE)

\* Mutant of RollbackEnv: the write transaction is forgotten, not aborted.
RollbackEnvLocked(b, e, h) == e

RollbackEnv(b, e, h) == SavepointEnv(b, e, h, "ROLLBACK", -1, TRUE)
=============================================================================
