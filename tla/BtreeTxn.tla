------------------------------ MODULE BtreeTxn ------------------------------
(***************************************************************************)
(* Transactions of several handles on LMDB environments: the calls that    *)
(* threads make into sqlite3BtreeBeginTrans, BeginStmt, CommitPhaseOne,    *)
(* Savepoint and Rollback of lmdb-backend/src/btree.c, interleaved.        *)
(*                                                                         *)
(* A step is one call, which LMDB makes atomic for other transactions.     *)
(* The one call that waits is mdb_txn_begin for a write transaction: it    *)
(* blocks its thread, and all handles that thread uses, on the writer      *)
(* mutex.  Calls that fail without a change of state (no reader slot, no   *)
(* memory, a read-only environment) are stuttering steps.                  *)
(***************************************************************************)
EXTENDS BtreeOps

CONSTANTS Handle,     \* struct Btree
          Env,        \* LMDB environments (database files)
          EnvOf,      \* the environment a handle is open on
          Thread,
          Owner,      \* the thread that uses a handle
          MaxTxnid,   \* bound on the commits of an environment
          MaxDepth    \* bound on nested transactions

ASSUME TxnAssumption ==
         /\ EnvOf \in [Handle -> Env]
         /\ Owner \in [Handle -> Thread]
         /\ Nobody \notin Handle \cup Contents
         /\ MaxTxnid \in Nat /\ MaxDepth \in Nat

VARIABLES bt,    \* the transaction state of each handle
          env,   \* the state of each environment
          wait   \* the handle for which a thread waits for a writer mutex

vars == <<bt, env, wait>>

TypeOK ==
  /\ bt \in [Handle -> BtreeRec]
  /\ env \in [Env -> EnvRec(Handle)]
  /\ wait \in [Thread -> Handle \cup {Nobody}]

Init ==
  /\ bt = [h \in Handle |-> NoTxn]
  /\ \E c \in [Env -> Contents] : env = [e \in Env |-> NewEnv(c[e])]
  /\ wait = [t \in Thread |-> Nobody]

-----------------------------------------------------------------------------

Running(h) == wait[Owner[h]] = Nobody

\* LMDB keeps one reader slot per thread and environment: a second read
\* transaction fails with MDB_BAD_RSLOT.
ReaderSlotFree(h) ==
  \A g \in Handle : (Owner[g] = Owner[h] /\ EnvOf[g] = EnvOf[h]) => bt[g].inTrans # "READ"

BeginTrans(h, wrflag) ==
  LET e == EnvOf[h] IN
  /\ ~ HasTxn(bt[h], wrflag)
  /\ MayBegin(env[e], wrflag)
  /\ ~ wrflag => ReaderSlotFree(h)
  /\ bt' = [bt EXCEPT ![h] = BeginTransBt(bt[h], env[e], wrflag)]
  /\ env' = [env EXCEPT ![e] = BeginTransEnv(bt[h], env[e], h, wrflag)]

BeginNow(h, wrflag) == Running(h) /\ BeginTrans(h, wrflag) /\ UNCHANGED wait

BeginBlock(h) ==
  /\ Running(h)
  /\ ~ HasTxn(bt[h], TRUE) /\ ~ MayBegin(env[EnvOf[h]], TRUE)
  /\ wait' = [wait EXCEPT ![Owner[h]] = h]
  /\ UNCHANGED <<bt, env>>

BeginResume(h) ==
  /\ wait[Owner[h]] = h
  /\ BeginTrans(h, TRUE)
  /\ wait' = [wait EXCEPT ![Owner[h]] = Nobody]

BeginStmt(h) ==
  /\ Running(h) /\ bt[h].inTrans = "WRITE" /\ Len(bt[h].txns) < MaxDepth
  /\ bt' = [bt EXCEPT ![h] = BeginStmtBt(bt[h])]
  /\ UNCHANGED <<env, wait>>

Write(h, c) ==
  /\ Running(h) /\ bt[h].inTrans = "WRITE"
  /\ bt' = [bt EXCEPT ![h] = WriteBt(bt[h], c)]
  /\ UNCHANGED <<env, wait>>

Commit(h, ok) ==
  LET e == EnvOf[h] IN
  /\ Running(h) /\ env[e].txnid < MaxTxnid
  /\ bt' = [bt EXCEPT ![h] = CommitPhaseOneBt(bt[h])]
  /\ env' = [env EXCEPT ![e] = CommitPhaseOneEnv(bt[h], env[e], h, ok)]
  /\ UNCHANGED wait

\* The savepoint calls of the layer above: iSavepoint 0 stands for all
\* non-negative values.
Savepoint(h, op, ok) ==
  LET e == EnvOf[h] IN
  /\ Running(h) /\ env[e].txnid < MaxTxnid
  /\ bt' = [bt EXCEPT ![h] = SavepointBt(bt[h], op, 0, ok)]
  /\ env' = [env EXCEPT ![e] = SavepointEnv(bt[h], env[e], h, op, 0, ok)]
  /\ UNCHANGED wait

Rollback(h) ==
  LET e == EnvOf[h] IN
  /\ Running(h)
  /\ bt' = [bt EXCEPT ![h] = RollbackBt(bt[h])]
  /\ env' = [env EXCEPT ![e] = RollbackEnv(bt[h], env[e], h)]
  /\ UNCHANGED wait

\* The process of thread t dies.  What then happens to the writer mutex is not
\* decided by the code modelled here.  It is an assumption about LMDB: its mutex
\* is robust and its reader table is cleared of dead processes.
Die(t) ==
  LET dead == {h \in Handle : Owner[h] = t} IN
  /\ bt' = [h \in Handle |-> IF h \in dead THEN NoTxn ELSE bt[h]]
  /\ env' = [e \in Env |-> IF env[e].writer \in dead
                             THEN [env[e] EXCEPT !.writer = Nobody] ELSE env[e]]
  /\ wait' = [wait EXCEPT ![t] = Nobody]

Next ==
  \/ \E h \in Handle :
       \/ \E wrflag \in BOOLEAN : BeginNow(h, wrflag)
       \/ BeginBlock(h)
       \/ BeginResume(h)
       \/ BeginStmt(h)
       \/ \E c \in Contents : Write(h, c)
       \/ \E ok \in BOOLEAN : Commit(h, ok)
       \/ \E op \in {"ROLLBACK", "RELEASE"}, ok \in BOOLEAN : Savepoint(h, op, ok)
       \/ Rollback(h)
  \/ \E t \in Thread : Die(t)

Spec == Init /\ [][Next]_vars

\* A thread that waits for a mutex that stays free gets it.
FairSpec == Spec /\ \A h \in Handle : WF_vars(BeginResume(h))

-----------------------------------------------------------------------------

\* "At most one of these may open a write transaction, but any number may
\* have active read transactions" (btreeInt.h): what BtShared's handles
\* believe in inTrans is what LMDB grants.  In every order of begins, commits,
\* failed commits, rollbacks and deaths, the handle in TRANS_WRITE is the one
\* that holds the writer mutex, a handle has a transaction exactly when
\* inTrans says so, and only a writer has nested ones.
TxnStateAgrees ==
  \A h \in Handle :
    /\ bt[h].inTrans = "WRITE" <=> env[EnvOf[h]].writer = h
    /\ bt[h].inTrans = "NONE" <=> bt[h].txns = <<>>
    /\ bt[h].inTrans = "READ" => Len(bt[h].txns) = 1

\* No committed update is overwritten unseen by LMDB: whoever is in TRANS_WRITE
\* works on the newest version, also after the upgrade of a read transaction in
\* sqlite3BtreeBeginTrans, and no transaction is ahead of its environment.
\* What a program has read before the upgrade may be older: see SnapshotKept.
WriterIsCurrent ==
  \A h \in Handle :
    /\ bt[h].mt_txnid <= env[EnvOf[h]].txnid
    /\ bt[h].inTrans = "WRITE" => bt[h].mt_txnid = env[EnvOf[h]].txnid

\* A set of threads of which each waits in mdb_txn_begin for a writer mutex
\* that one of them holds.
Deadlocked(T) ==
  \A t \in T : /\ wait[t] # Nobody
               /\ \E g \in Handle : /\ Owner[g] \in T
                                    /\ env[EnvOf[wait[t]]].writer = g

\* "If the busy callback is NULL, then SQLITE_BUSY or SQLITE_IOERR_BLOCKED is
\* returned immediately upon encountering the lock" (sqlite.h.in): no threads
\* wait for each other in sqlite3BtreeBeginTrans for ever.
NoDeadlock == \A T \in (SUBSET Thread) \ {{}} : ~ Deadlocked(T)

\* "Verify that [db] still cannot write to the database (because it is reading
\* an old snapshot)" (test/wal.test): a read transaction becomes a write
\* transaction only on the contents it has read.  sqlite3BtreeBeginTrans resets
\* the read transaction and begins a write transaction on the newest version.
SnapshotKept ==
  [][\A h \in Handle : (bt[h].inTrans = "READ" /\ bt'[h].inTrans = "WRITE")
                           => bt'[h].txns = bt[h].txns]_vars

\* The handles of an environment, seen as clients of a store of versions:
\* curr_txn is the view of a client and the transactions under it are the
\* views it has saved.
ViewOf(b) == IF b.txns = <<>> THEN Nobody ELSE curr_txn(b.txns)

SavedOf(b) == IF b.txns = <<>> THEN <<>> ELSE parent(b.txns)

sDb == [e \in Env |-> env[e].data]
sVersion == [e \in Env |-> env[e].txnid]
sView == [h \in Handle |-> ViewOf(bt[h])]
sBase == [h \in Handle |-> bt[h].mt_txnid]
sSaved == [h \in Handle |-> SavedOf(bt[h])]

Store == INSTANCE TxnStore WITH
  NoView <- Nobody, db <- sDb, version <- sVersion, view <- sView, base <- sBase, saved <- sSaved

\* Every behaviour of the btree calls is one of the abstract store: commits
\* are serial, aborts leave no trace, a nested transaction is undone or kept
\* as a whole, and nobody's view changes by another handle's calls.
ImplementsTxnStore == Store!Spec
=============================================================================
