-------------------------- MODULE BtreeRefinement ---------------------------
(***************************************************************************)
(* The transaction calls of btree.c implement the abstract store of        *)
(* versions, TxnStore: every call is a step of the store or changes        *)
(* nothing that its clients can see.                                       *)
(***************************************************************************)
EXTENDS BtreeTxnProofs

\* The image of handle h and its environment.
LEMMA Image ==
  ASSUME Inv, NEW h \in Handle
  PROVE  /\ sDb[EnvOf[h]] = env[EnvOf[h]].data
         /\ sVersion[EnvOf[h]] = env[EnvOf[h]].txnid
         /\ sView[h] = ViewOf(bt[h]) /\ sBase[h] = bt[h].mt_txnid /\ sSaved[h] = SavedOf(bt[h])
BY HandleFacts DEF sDb, sVersion, sView, sBase, sSaved

\* The image of a call on handle h that leaves it in state b and its
\* environment in state f: only the images of h and of its environment change,
\* and only if the part of the state they show does.
ImageStep(h, b, f) ==
  /\ sDb' = [sDb EXCEPT ![EnvOf[h]] = f.data]
  /\ f.data = env[EnvOf[h]].data => sDb' = sDb
  /\ sVersion' = [sVersion EXCEPT ![EnvOf[h]] = f.txnid]
  /\ f.txnid = env[EnvOf[h]].txnid => sVersion' = sVersion
  /\ sView' = [sView EXCEPT ![h] = ViewOf(b)]
  /\ ViewOf(b) = ViewOf(bt[h]) => sView' = sView
  /\ sBase' = [sBase EXCEPT ![h] = b.mt_txnid]
  /\ b.mt_txnid = bt[h].mt_txnid => sBase' = sBase
  /\ sSaved' = [sSaved EXCEPT ![h] = SavedOf(b)]
  /\ SavedOf(b) = SavedOf(bt[h]) => sSaved' = sSaved

\* Every call on one handle has such an image.
LEMMA StepImage ==
  ASSUME Inv, NEW h \in Handle, NEW b, NEW f,
         bt' = [bt EXCEPT ![h] = b], env' = [env EXCEPT ![EnvOf[h]] = f]
  PROVE  ImageStep(h, b, f)
<1>1. bt \in [Handle -> BtreeRec] /\ env \in [Env -> EnvRec(Handle)]
  BY DEF Inv, TypeOK
<1>2. /\ sDb' = [sDb EXCEPT ![EnvOf[h]] = f.data]
      /\ f.data = env[EnvOf[h]].data => sDb' = sDb
  BY <1>1 DEF sDb
<1>3. /\ sVersion' = [sVersion EXCEPT ![EnvOf[h]] = f.txnid]
      /\ f.txnid = env[EnvOf[h]].txnid => sVersion' = sVersion
  BY <1>1 DEF sVersion
<1>4. /\ sView' = [sView EXCEPT ![h] = ViewOf(b)]
      /\ ViewOf(b) = ViewOf(bt[h]) => sView' = sView
  BY <1>1 DEF sView
<1>5. /\ sBase' = [sBase EXCEPT ![h] = b.mt_txnid]
      /\ b.mt_txnid = bt[h].mt_txnid => sBase' = sBase
  BY <1>1 DEF sBase
<1>6. /\ sSaved' = [sSaved EXCEPT ![h] = SavedOf(b)]
      /\ SavedOf(b) = SavedOf(bt[h]) => sSaved' = sSaved
  BY <1>1 DEF sSaved
<1> QED BY <1>2, <1>3, <1>4, <1>5, <1>6 DEF ImageStep

\* No transaction is open at the start, and no version is committed.
LEMMA InitImage == Init => Store!Init
<1> SUFFICES ASSUME Init PROVE Store!Init
  OBVIOUS
<1>1. PICK c \in [Env -> Contents] : env = [e \in Env |-> NewEnv(c[e])]
  BY DEF Init
<1>2. sDb \in [Env -> Contents]
  BY <1>1 DEF sDb, NewEnv
<1>3. sVersion = [e \in Env |-> 0]
  BY <1>1 DEF sVersion, NewEnv
<1>4. sView = [h \in Handle |-> Nobody]
  BY DEF Init, sView, ViewOf, NoTxn
<1>5. sBase = [h \in Handle |-> 0]
  BY DEF Init, sBase, NoTxn
<1>6. sSaved = [h \in Handle |-> <<>>]
  BY DEF Init, sSaved, SavedOf, NoTxn
<1> QED BY <1>2, <1>3, <1>4, <1>5, <1>6 DEF Store!Init

\* A transaction begins, or is upgraded: the client takes a new view.
LEMMA BeginImage ==
  ASSUME Inv, NEW h \in Handle, NEW wrflag \in BOOLEAN, BeginTrans(h, wrflag)
  PROVE  Store!Begin(h)
<1>1. PICK e, b, f : /\ e = env[EnvOf[h]]
                     /\ b = BeginTransBt(bt[h], e, wrflag)
                     /\ f = BeginTransEnv(bt[h], e, h, wrflag)
  OBVIOUS
<1>2. ~ HasTxn(bt[h], wrflag) /\ bt' = [bt EXCEPT ![h] = b] /\ env' = [env EXCEPT ![EnvOf[h]] = f]
  BY <1>1 DEF BeginTrans
<1>3. e \in EnvRec(Handle) /\ BtOK(bt[h])
  BY <1>1, HandleFacts
<1>4. b.txns = <<e.data>> /\ b.mt_txnid = e.txnid
  BY <1>1, <1>2 DEF BeginTransBt
<1>5. f.data = e.data /\ f.txnid = e.txnid
  BY <1>1, <1>3 DEF BeginTransEnv, EnvRec
<1>6. SavedOf(bt[h]) = <<>>
  <2>1. bt[h].inTrans \in {"NONE", "READ"} /\ bt[h].txns \in Seq(Contents)
    BY <1>2, <1>3 DEF HasTxn, BtOK, BtreeRec
  <2>2. bt[h].txns = <<>> \/ Len(bt[h].txns) = 1
    BY <1>3, <2>1 DEF BtOK
  <2>3. bt[h].txns # <<>> => parent(bt[h].txns) = <<>>
    BY <2>1, <2>2, ChainFacts
  <2> QED BY <2>3 DEF SavedOf
<1>7. ViewOf(b) = e.data /\ SavedOf(b) = <<>>
  <2>1. <<e.data>> \in Seq(Contents) /\ <<e.data>> # <<>> /\ Len(<<e.data>>) = 1
    BY <1>3 DEF EnvRec
  <2>2. parent(<<e.data>>) = <<>>
    BY <2>1, ChainFacts
  <2>3. curr_txn(<<e.data>>) = e.data
    BY DEF curr_txn
  <2> QED BY <1>4, <2>1, <2>2, <2>3 DEF ViewOf, SavedOf
<1>8. /\ sDb' = sDb /\ sVersion' = sVersion /\ sSaved' = sSaved
      /\ sView' = [sView EXCEPT ![h] = e.data]
      /\ sBase' = [sBase EXCEPT ![h] = e.txnid]
  <2>1. ImageStep(h, b, f)
    BY <1>2, StepImage
  <2> QED BY <1>1, <1>4, <1>5, <1>6, <1>7, <2>1, Zenon DEF ImageStep
<1>9. sDb[EnvOf[h]] = e.data /\ sVersion[EnvOf[h]] = e.txnid /\ sSaved[h] = <<>>
  BY <1>1, <1>6, Image
<1> QED BY <1>8, <1>9 DEF Store!Begin

\* A nested transaction starts: the client saves its view.
LEMMA BeginStmtImage ==
  ASSUME Inv, NEW h \in Handle, BeginStmt(h)
  PROVE  Store!Save(h)
<1>1. PICK e, b : e = env[EnvOf[h]] /\ b = BeginStmtBt(bt[h])
  OBVIOUS
<1>2. bt' = [bt EXCEPT ![h] = b] /\ env' = [env EXCEPT ![EnvOf[h]] = e] /\ bt[h].inTrans = "WRITE"
  BY <1>1 DEF BeginStmt, Inv, TypeOK
<1>3. PICK t : t = bt[h].txns
  OBVIOUS
<1>4. t \in Seq(Contents) /\ t # <<>> /\ bt[h] \in BtreeRec
  BY <1>2, <1>3, HandleFacts DEF BtOK, BtreeRec
<1>5. curr_txn(t) \in Contents /\ t = Append(parent(t), curr_txn(t))
  BY <1>4, ChainFacts, ChainSplit
<1>6. b.txns = Append(t, curr_txn(t)) /\ b.mt_txnid = bt[h].mt_txnid
  BY <1>1, <1>3, <1>4 DEF BeginStmtBt, BtreeRec
<1>7. ViewOf(b) = curr_txn(t) /\ SavedOf(b) = t
  BY <1>4, <1>5, <1>6, ExtendedChain DEF ViewOf, SavedOf
<1>8. ViewOf(bt[h]) = curr_txn(t) /\ SavedOf(bt[h]) = parent(t) /\ curr_txn(t) # Nobody
  BY <1>3, <1>4, <1>5, TxnAssumption DEF ViewOf, SavedOf
<1>9. /\ sDb' = sDb /\ sVersion' = sVersion /\ sView' = sView /\ sBase' = sBase
      /\ sSaved' = [sSaved EXCEPT ![h] = t]
  <2>1. ImageStep(h, b, e)
    BY <1>2, StepImage
  <2> QED BY <1>1, <1>6, <1>7, <1>8, <2>1, Zenon DEF ImageStep
<1>10. sView[h] = curr_txn(t) /\ sSaved[h] = parent(t)
  BY <1>8, Image
<1>11. sSaved' = [sSaved EXCEPT ![h] = Append(sSaved[h], sView[h])]
  BY <1>5, <1>9, <1>10
<1> QED BY <1>8, <1>9, <1>10, <1>11 DEF Store!Save, Store!InTxn

\* A write changes the view of the client, which is up to date.
LEMMA WriteImage ==
  ASSUME Inv, NEW h \in Handle, NEW c \in Contents, Write(h, c)
  PROVE  Store!Write(h, c)
<1>1. PICK e, b : e = env[EnvOf[h]] /\ b = WriteBt(bt[h], c)
  OBVIOUS
<1>2. bt' = [bt EXCEPT ![h] = b] /\ env' = [env EXCEPT ![EnvOf[h]] = e] /\ bt[h].inTrans = "WRITE"
  BY <1>1 DEF Write, Inv, TypeOK
<1>3. PICK t : t = bt[h].txns
  OBVIOUS
<1>4. t \in Seq(Contents) /\ t # <<>> /\ bt[h] \in BtreeRec
  BY <1>2, <1>3, HandleFacts DEF BtOK, BtreeRec
<1>5. curr_txn(t) \in Contents /\ parent(t) \in Seq(Contents)
  BY <1>4, ChainFacts
<1>6. b.txns = Append(parent(t), c) /\ b.mt_txnid = bt[h].mt_txnid
  BY <1>1, <1>3, <1>4 DEF WriteBt, BtreeRec
<1>7. ViewOf(b) = c /\ SavedOf(b) = parent(t)
  BY <1>5, <1>6, ExtendedChain DEF ViewOf, SavedOf
<1>8. ViewOf(bt[h]) # Nobody /\ SavedOf(bt[h]) = parent(t)
  BY <1>3, <1>4, <1>5, TxnAssumption DEF ViewOf, SavedOf
<1>9. /\ sDb' = sDb /\ sVersion' = sVersion /\ sSaved' = sSaved /\ sBase' = sBase
      /\ sView' = [sView EXCEPT ![h] = c]
  <2>1. ImageStep(h, b, e)
    BY <1>2, StepImage
  <2> QED BY <1>1, <1>6, <1>7, <1>8, <2>1, Zenon DEF ImageStep
<1>10. sView[h] # Nobody /\ sBase[h] = sVersion[EnvOf[h]]
  BY <1>2, <1>8, Image, HandleFacts DEF PairOK
<1> QED BY <1>9, <1>10 DEF Store!Write, Store!InTxn, Store!UpToDate

\* The main transaction of h ends, by a commit or an abort.
LEMMA EndImage ==
  ASSUME Inv, NEW h \in Handle, NEW e, NEW f, e = env[EnvOf[h]], bt[h].txns # <<>>,
         f \in {mdb_txn_commit(e, h, curr_txn(bt[h].txns)), mdb_txn_abort(e, h)},
         bt' = [bt EXCEPT ![h] = NoTxn], env' = [env EXCEPT ![EnvOf[h]] = f]
  PROVE  Store!Commit(h) \/ Store!Abort({h})
<1>1. /\ e \in EnvRec(Handle) /\ BtOK(bt[h]) /\ PairOK(h, bt[h], e)
  BY HandleFacts
<1>2. ViewOf(NoTxn) = Nobody /\ SavedOf(NoTxn) = <<>> /\ NoTxn.mt_txnid = 0
  BY DEF ViewOf, SavedOf, NoTxn
<1>3. ImageStep(h, NoTxn, f)
  BY StepImage
<1>4. Store!Leave({h})
  <2>1. /\ sView' = [sView EXCEPT ![h] = Nobody] /\ sSaved' = [sSaved EXCEPT ![h] = <<>>]
        /\ sBase' = [sBase EXCEPT ![h] = 0]
    BY <1>2, <1>3, Zenon DEF ImageStep
  <2>2. sView' = [g \in Handle |-> IF g \in {h} THEN Nobody ELSE sView[g]]
    BY <2>1 DEF sView
  <2>3. sSaved' = [g \in Handle |-> IF g \in {h} THEN <<>> ELSE sSaved[g]]
    BY <2>1 DEF sSaved
  <2>4. sBase' = [g \in Handle |-> IF g \in {h} THEN 0 ELSE sBase[g]]
    BY <2>1 DEF sBase
  <2> QED BY <2>2, <2>3, <2>4 DEF Store!Leave
<1>5. CASE f = mdb_txn_commit(e, h, curr_txn(bt[h].txns)) /\ e.writer = h
  <2>1. f.data = curr_txn(bt[h].txns) /\ f.txnid = e.txnid + 1
    BY <1>5 DEF mdb_txn_commit
  <2>2. /\ sView[h] = curr_txn(bt[h].txns) /\ sVersion[EnvOf[h]] = e.txnid
        /\ sBase[h] = e.txnid
    BY <1>1, <1>5, Image DEF ViewOf, PairOK
  <2>3. sView[h] # Nobody
    <3>1. curr_txn(bt[h].txns) \in Contents
      BY <1>1, ChainFacts DEF BtOK, BtreeRec
    <3> QED BY <2>2, <3>1, TxnAssumption
  <2>4. /\ sDb' = [sDb EXCEPT ![EnvOf[h]] = sView[h]]
        /\ sVersion' = [sVersion EXCEPT ![EnvOf[h]] = sVersion[EnvOf[h]] + 1]
    BY <1>3, <2>1, <2>2, Zenon DEF ImageStep
  <2> QED BY <1>4, <2>2, <2>3, <2>4 DEF Store!Commit, Store!InTxn, Store!UpToDate
<1>6. CASE f = mdb_txn_abort(e, h) \/ e.writer # h
  <2>1. f.data = e.data /\ f.txnid = e.txnid
    BY <1>1, <1>6 DEF mdb_txn_abort, mdb_txn_commit, EnvRec
  <2>2. sDb' = sDb /\ sVersion' = sVersion
    BY <1>3, <2>1, Zenon DEF ImageStep
  <2> QED BY <1>4, <2>2 DEF Store!Abort
<1> QED BY <1>5, <1>6

\* A commit, or nothing.
LEMMA CommitImage ==
  ASSUME Inv, NEW h \in Handle, NEW ok \in BOOLEAN, Commit(h, ok)
  PROVE  Store!Commit(h) \/ Store!Abort({h}) \/ (bt' = bt /\ env' = env)
<1>1. PICK e, b, f : /\ e = env[EnvOf[h]] /\ b = CommitPhaseOneBt(bt[h])
                     /\ f = CommitPhaseOneEnv(bt[h], e, h, ok)
  OBVIOUS
<1>2. bt' = [bt EXCEPT ![h] = b] /\ env' = [env EXCEPT ![EnvOf[h]] = f]
  BY <1>1 DEF Commit
<1>3. CASE bt[h].txns = <<>>
  <2>1. b = bt[h] /\ f = e
    BY <1>1, <1>3 DEF CommitPhaseOneBt, CommitPhaseOneEnv
  <2> QED BY <1>1, <1>2, <2>1 DEF Inv, TypeOK
<1>4. CASE bt[h].txns # <<>>
  <2>1. b = NoTxn /\ f \in {mdb_txn_commit(e, h, curr_txn(bt[h].txns)), mdb_txn_abort(e, h)}
    BY <1>1, <1>4 DEF CommitPhaseOneBt, CommitPhaseOneEnv
  <2> QED BY <1>1, <1>2, <1>4, <2>1, EndImage
<1> QED BY <1>3, <1>4

\* sqlite3BtreeSavepoint: a nested transaction is undone or merged, or the
\* main transaction ends, or there is none.
LEMMA SavepointImage ==
  ASSUME Inv, NEW h \in Handle, NEW op, NEW i \in Int, NEW ok \in BOOLEAN,
         bt' = [bt EXCEPT ![h] = SavepointBt(bt[h], op, i, ok)],
         env' = [env EXCEPT ![EnvOf[h]] = SavepointEnv(bt[h], env[EnvOf[h]], h, op, i, ok)]
  PROVE  \/ Store!Undo(h) \/ Store!Merge(h)
         \/ Store!Commit(h) \/ Store!Abort({h}) \/ (bt' = bt /\ env' = env)
<1>1. PICK e, b, f : /\ e = env[EnvOf[h]] /\ b = SavepointBt(bt[h], op, i, ok)
                     /\ f = SavepointEnv(bt[h], e, h, op, i, ok)
  OBVIOUS
<1>2. bt' = [bt EXCEPT ![h] = b] /\ env' = [env EXCEPT ![EnvOf[h]] = f]
  BY <1>1
<1>3. CASE bt[h].txns = <<>>
  <2>1. b = bt[h] /\ f = e
    BY <1>1, <1>3 DEF SavepointBt, SavepointEnv
  <2> QED BY <1>1, <1>2, <2>1 DEF Inv, TypeOK
<1>4. CASE bt[h].txns # <<>> /\ (i = -1 \/ Len(bt[h].txns) = 1)
  <2>1. b = NoTxn
    BY <1>1, <1>4 DEF SavepointBt
  <2>2. f \in {mdb_txn_commit(e, h, curr_txn(bt[h].txns)), mdb_txn_abort(e, h)}
    <3>1. ~ (bt[h].txns = <<>> \/ (i # -1 /\ Len(bt[h].txns) > 1))
      <4>1. PICK n : n = Len(bt[h].txns)
        OBVIOUS
      <4>2. n = 1 => ~ (n > 1)
        OBVIOUS
      <4> QED BY <1>4, <4>1, <4>2, Zenon
    <3> QED BY <1>1, <3>1, Zenon DEF SavepointEnv
  <2> QED BY <1>1, <1>2, <1>4, <2>1, <2>2, EndImage
<1>5. CASE bt[h].txns # <<>> /\ i # -1 /\ Len(bt[h].txns) # 1
  <2>1. PICK t : t = bt[h].txns
    OBVIOUS
  <2>2. t \in Seq(Contents) /\ t # <<>> /\ bt[h] \in BtreeRec
    BY <1>5, <2>1, HandleFacts DEF BtOK, BtreeRec
  <2>3. /\ Len(t) \in Nat /\ Len(t) > 1 /\ curr_txn(t) \in Contents
        /\ parent(t) \in Seq(Contents) /\ parent(t) # <<>>
    BY <1>5, <2>1, <2>2, ChainFacts
  <2>4. f = e
    BY <1>1, <1>5, <2>1, <2>3 DEF SavepointEnv
  <2>5. b.mt_txnid = bt[h].mt_txnid /\ b.txns \in {Merged(t), parent(t)}
    BY <1>1, <1>5, <2>1, <2>2 DEF SavepointBt, BtreeRec
  <2>6. SavedOf(bt[h]) = parent(t) /\ ViewOf(bt[h]) = curr_txn(t)
    BY <2>1, <2>2 DEF SavedOf, ViewOf
  <2>7. sSaved[h] = parent(t)
    BY <2>6, Image
  <2>8. ImageStep(h, b, f)
    BY <1>2, StepImage
  <2>9. sDb' = sDb /\ sVersion' = sVersion /\ sBase' = sBase
    BY <1>1, <2>4, <2>5, <2>8, Zenon DEF ImageStep
  <2>10. CASE b.txns = parent(t)
    <3>1. ViewOf(b) = curr_txn(parent(t)) /\ SavedOf(b) = parent(parent(t))
      BY <2>3, <2>10 DEF ViewOf, SavedOf
    <3>2. /\ sView' = [sView EXCEPT ![h] = curr_txn(sSaved[h])]
          /\ sSaved' = [sSaved EXCEPT ![h] = parent(sSaved[h])]
      BY <2>7, <2>8, <3>1, Zenon DEF ImageStep
    <3>3. Store!Undo(h)
      BY <2>3, <2>7, <2>9, <3>2 DEF Store!Undo, curr_txn, parent
    <3> QED BY <3>3
  <2>11. CASE b.txns = Merged(t)
    <3>1. parent(parent(t)) \in Seq(Contents)
      BY <2>3, ChainFacts
    <3>2. ViewOf(b) = curr_txn(t) /\ SavedOf(b) = parent(parent(t))
      BY <2>3, <2>11, <3>1, ExtendedChain DEF Merged, ViewOf, SavedOf
    <3>3. sView' = sView /\ sSaved' = [sSaved EXCEPT ![h] = parent(sSaved[h])]
      BY <2>6, <2>7, <2>8, <3>2, Zenon DEF ImageStep
    <3>4. Store!Merge(h)
      BY <2>3, <2>7, <2>9, <3>3 DEF Store!Merge, parent
    <3> QED BY <3>4
  <2> QED BY <2>5, <2>10, <2>11
<1> QED BY <1>3, <1>4, <1>5

\* The handles of a dead thread lose their views.
LEMMA DieImage ==
  ASSUME Inv, NEW t \in Thread, Die(t)
  PROVE  \E C \in SUBSET Handle : Store!Abort(C)
<1> DEFINE dead == {h \in Handle : Owner[h] = t}
<1>1. /\ bt' = [h \in Handle |-> IF h \in dead THEN NoTxn ELSE bt[h]]
      /\ env' = [e \in Env |-> IF env[e].writer \in dead
                                 THEN [env[e] EXCEPT !.writer = Nobody] ELSE env[e]]
  BY DEF Die
<1>2. ViewOf(NoTxn) = Nobody /\ SavedOf(NoTxn) = <<>> /\ NoTxn.mt_txnid = 0
  BY DEF ViewOf, SavedOf, NoTxn
<1>3. \A e \in Env : env'[e].data = env[e].data /\ env'[e].txnid = env[e].txnid
  BY <1>1 DEF Inv, TypeOK, EnvRec
<1>4. sDb' = sDb /\ sVersion' = sVersion
  BY <1>3 DEF sDb, sVersion
<1>5. sView' = [h \in Handle |-> IF h \in dead THEN Nobody ELSE sView[h]]
  BY <1>1, <1>2 DEF sView
<1>6. sSaved' = [h \in Handle |-> IF h \in dead THEN <<>> ELSE sSaved[h]]
  BY <1>1, <1>2 DEF sSaved
<1>7. sBase' = [h \in Handle |-> IF h \in dead THEN 0 ELSE sBase[h]]
  BY <1>1, <1>2 DEF sBase
<1>8. Store!Abort(dead)
  BY <1>4, <1>5, <1>6, <1>7 DEF Store!Abort, Store!Leave
<1> QED BY <1>8

-----------------------------------------------------------------------------

\* Every call is a step of the store or invisible to its clients.
LEMMA NextImage == Inv /\ [Next]_vars => [Store!Next]_(Store!vars)
<1> SUFFICES ASSUME Inv, [Next]_vars PROVE [Store!Next]_(Store!vars)
  OBVIOUS
<1>1. ASSUME bt' = bt, env' = env PROVE [Store!Next]_(Store!vars)
  BY <1>1 DEF Store!vars, sDb, sVersion, sView, sBase, sSaved
<1>2. ASSUME NEW h \in Handle, NEW wrflag \in BOOLEAN, BeginNow(h, wrflag)
      PROVE  [Store!Next]_(Store!vars)
  BY <1>2, BeginImage DEF BeginNow, Store!Next
<1>3. ASSUME NEW h \in Handle, BeginBlock(h) PROVE [Store!Next]_(Store!vars)
  BY <1>1, <1>3 DEF BeginBlock
<1>4. ASSUME NEW h \in Handle, BeginResume(h) PROVE [Store!Next]_(Store!vars)
  BY <1>4, BeginImage DEF BeginResume, Store!Next
<1>5. ASSUME NEW h \in Handle, BeginStmt(h) PROVE [Store!Next]_(Store!vars)
  BY <1>5, BeginStmtImage DEF Store!Next
<1>6. ASSUME NEW h \in Handle, NEW c \in Contents, Write(h, c) PROVE [Store!Next]_(Store!vars)
  BY <1>6, WriteImage DEF Store!Next
<1>7. ASSUME NEW h \in Handle, \/ Store!Undo(h) \/ Store!Merge(h)
                               \/ Store!Commit(h) \/ Store!Abort({h})
      PROVE  Store!Next
  BY <1>7 DEF Store!Next
<1>8. ASSUME NEW h \in Handle, NEW ok \in BOOLEAN, Commit(h, ok) PROVE [Store!Next]_(Store!vars)
  BY <1>1, <1>7, <1>8, CommitImage
<1>9. ASSUME NEW h \in Handle, NEW op, NEW ok \in BOOLEAN, Savepoint(h, op, ok)
      PROVE  [Store!Next]_(Store!vars)
  <2>0. PICK i \in Int : i = 0
    OBVIOUS
  <2>1. /\ bt' = [bt EXCEPT ![h] = SavepointBt(bt[h], op, i, ok)]
        /\ env' = [env EXCEPT ![EnvOf[h]] = SavepointEnv(bt[h], env[EnvOf[h]], h, op, i, ok)]
    BY <1>9, <2>0 DEF Savepoint
  <2>2. \/ Store!Undo(h) \/ Store!Merge(h)
        \/ Store!Commit(h) \/ Store!Abort({h}) \/ (bt' = bt /\ env' = env)
    BY <2>1, SavepointImage
  <2> QED BY <1>1, <1>7, <2>2
<1>10. ASSUME NEW h \in Handle, Rollback(h) PROVE [Store!Next]_(Store!vars)
  <2>1. PICK i \in Int : i = -1
    OBVIOUS
  <2>2. /\ bt' = [bt EXCEPT ![h] = SavepointBt(bt[h], "ROLLBACK", i, TRUE)]
        /\ env' = [env EXCEPT ![EnvOf[h]] = SavepointEnv(bt[h], env[EnvOf[h]], h, "ROLLBACK", i, TRUE)]
    BY <1>10, <2>1 DEF Rollback, RollbackBt, RollbackEnv
  <2>3. \/ Store!Undo(h) \/ Store!Merge(h)
        \/ Store!Commit(h) \/ Store!Abort({h}) \/ (bt' = bt /\ env' = env)
    BY <2>2, SavepointImage
  <2> QED BY <1>1, <1>7, <2>3
<1>11. ASSUME NEW t \in Thread, Die(t) PROVE [Store!Next]_(Store!vars)
  BY <1>11, DieImage DEF Store!Next
<1>12. CASE UNCHANGED vars
  BY <1>1, <1>12 DEF vars
<1> QED BY <1>2, <1>3, <1>4, <1>5, <1>6, <1>8, <1>9, <1>10, <1>11, <1>12 DEF Next

\* For any number of handles, threads, environments and nested transactions,
\* the transaction calls of btree.c implement the abstract store: committed
\* transactions are serial, and aborted ones leave no trace.
THEOREM BtreeImplementsTxnStore == Spec => ImplementsTxnStore
<1>1. Init => Store!Init
  BY InitImage
<1>2. Inv /\ [Next]_vars => [Store!Next]_(Store!vars)
  BY NextImage
<1>3. Spec => []Inv
  BY TransactionsAgree DEF Inv
<1> QED BY <1>1, <1>2, <1>3, PTL DEF Spec, ImplementsTxnStore, Store!Spec
=============================================================================
