--------------------------- MODULE BtreeTxnProofs ---------------------------
(***************************************************************************)
(* For any number of handles, environments and threads: inTrans agrees     *)
(* with the locks LMDB has granted, writers work on the newest version,    *)
(* and the btree calls implement the abstract store of versions.           *)
(***************************************************************************)
EXTENDS BtreeTxn, SequenceTheorems, TLAPS

Inv == TypeOK /\ TxnStateAgrees /\ WriterIsCurrent

\* What the invariant says of one handle's own state.
BtOK(b) ==
  /\ b \in BtreeRec
  /\ b.inTrans = "NONE" <=> b.txns = <<>>
  /\ b.inTrans = "READ" => Len(b.txns) = 1

\* What it says of a handle and its environment.
PairOK(h, b, e) ==
  /\ b.inTrans = "WRITE" <=> e.writer = h
  /\ b.mt_txnid <= e.txnid
  /\ b.inTrans = "WRITE" => b.mt_txnid = e.txnid

\* What a call on handle h may do to its environment: take or give back the
\* writer mutex, and commit if it has it.
EnvStep(h, e, f) ==
  /\ f \in EnvRec(Handle)
  /\ f.txnid >= e.txnid
  /\ f.txnid # e.txnid => e.writer = h
  /\ f.writer # e.writer => e.writer \in {h, Nobody} /\ f.writer \in {h, Nobody}

\* Chains of transactions.
LEMMA ChainFacts ==
  ASSUME NEW t \in Seq(Contents), t # <<>>
  PROVE  /\ Len(t) \in Nat /\ Len(t) > 0
         /\ curr_txn(t) \in Contents
         /\ parent(t) \in Seq(Contents) /\ Len(parent(t)) = Len(t) - 1
         /\ parent(t) = <<>> <=> Len(t) = 1
<1>1. Len(t) \in Nat /\ Len(t) > 0
  OBVIOUS
<1>2. curr_txn(t) \in Contents
  BY <1>1 DEF curr_txn
<1>3. parent(t) \in Seq(Contents) /\ Len(parent(t)) = Len(t) - 1
  <2>1. PICK n \in Nat : n = Len(t) - 1
    BY <1>1
  <2>2. \A i \in 1 .. n : t[i] \in Contents
    BY <1>1, <2>1
  <2>3. /\ SubSeq(t, 1, n) \in Seq(Contents)
        /\ Len(SubSeq(t, 1, n)) = IF 1 <= n THEN n - 1 + 1 ELSE 0
    BY <2>2, SubSeqProperties
  <2> QED BY <2>1, <2>3 DEF parent
<1>4. parent(t) = <<>> <=> Len(t) = 1
  <2>1. parent(t) = <<>> <=> Len(parent(t)) = 0
    BY <1>3, EmptySeq
  <2> QED BY <1>1, <1>3, <2>1
<1> QED BY <1>1, <1>2, <1>3, <1>4

\* A chain with one more transaction on top.
LEMMA ExtendedChain ==
  ASSUME NEW t \in Seq(Contents), NEW c \in Contents
  PROVE  /\ Append(t, c) \in Seq(Contents) /\ Append(t, c) # <<>>
         /\ Len(Append(t, c)) = Len(t) + 1
         /\ curr_txn(Append(t, c)) = c /\ parent(Append(t, c)) = t
<1>1. /\ Append(t, c) \in Seq(Contents) /\ Append(t, c) # <<>>
      /\ Len(Append(t, c)) = Len(t) + 1 /\ Len(t) \in Nat
  OBVIOUS
<1>2. curr_txn(Append(t, c)) = c
  BY DEF curr_txn
<1>3. parent(Append(t, c)) = t
  BY DEF parent
<1> QED BY <1>1, <1>2, <1>3

\* A chain is its parent with curr_txn on top.
LEMMA ChainSplit ==
  ASSUME NEW t \in Seq(Contents), t # <<>>
  PROVE  t = Append(parent(t), curr_txn(t))
<1>1. /\ Len(t) \in Nat /\ curr_txn(t) \in Contents
      /\ parent(t) \in Seq(Contents) /\ Len(parent(t)) = Len(t) - 1
  BY ChainFacts
<1>2. PICK u : u = Append(parent(t), curr_txn(t))
  OBVIOUS
<1>3. /\ u \in Seq(Contents) /\ Len(u) = Len(t)
      /\ \A i \in 1 .. Len(t) - 1 : u[i] = parent(t)[i]
      /\ u[Len(t)] = curr_txn(t)
  BY <1>1, <1>2, AppendProperties
<1>4. \A i \in 1 .. Len(t) - 1 : parent(t)[i] = t[i]
  <2>1. PICK n \in Nat : n = Len(t) - 1
    BY <1>1, ChainFacts
  <2>2. \A i \in 1 .. n : t[i] \in Contents
    BY <1>1, <2>1
  <2>3. \A i \in 1 .. n - 1 + 1 : SubSeq(t, 1, n)[i] = t[1 + i - 1]
    BY <2>2, SubSeqProperties
  <2> QED BY <2>1, <2>3 DEF parent
<1>5. \A i \in 1 .. Len(t) : u[i] = t[i]
  BY <1>1, <1>3, <1>4 DEF curr_txn
<1> QED BY <1>1, <1>2, <1>3, <1>5, SeqEqual

-----------------------------------------------------------------------------

\* A call on one handle preserves the invariant if it keeps the handle and its
\* environment in agreement and does only what EnvStep allows.
LEMMA LocalStep ==
  ASSUME Inv, NEW h \in Handle, NEW b, NEW f, BtOK(b), PairOK(h, b, f),
         EnvStep(h, env[EnvOf[h]], f),
         bt' = [bt EXCEPT ![h] = b], env' = [env EXCEPT ![EnvOf[h]] = f],
         wait' \in [Thread -> Handle \cup {Nobody}]
  PROVE  Inv'
<1> USE DEF Inv
<1>1. EnvOf[h] \in Env /\ \A g \in Handle : EnvOf[g] \in Env
  BY TxnAssumption
<1>2. TypeOK'
  BY <1>1 DEF TypeOK, BtOK, EnvStep
<1>3. /\ bt'[h] = b /\ env'[EnvOf[h]] = f
      /\ \A g \in Handle \ {h} : bt'[g] = bt[g]
      /\ \A e \in Env \ {EnvOf[h]} : env'[e] = env[e]
  BY <1>1 DEF TypeOK
<1>4. ASSUME NEW g \in Handle
      PROVE  BtOK(bt'[g]) /\ PairOK(g, bt'[g], env'[EnvOf[g]])
  <2>1. CASE g = h
    BY <1>3, <2>1
  <2>2. CASE g # h
    <3>1. BtOK(bt[g]) /\ PairOK(g, bt[g], env[EnvOf[g]])
      BY DEF TypeOK, TxnStateAgrees, WriterIsCurrent, BtOK, PairOK
    <3>2. CASE EnvOf[g] # EnvOf[h]
      BY <1>1, <1>3, <2>2, <3>1, <3>2
    <3>3. CASE EnvOf[g] = EnvOf[h]
      <4>1. PICK e : e = env[EnvOf[h]]
        OBVIOUS
      <4>2. /\ e \in EnvRec(Handle) /\ e.txnid \in Nat /\ f.txnid \in Nat
            /\ bt[g].mt_txnid \in Nat /\ g # Nobody
        BY <1>1, <4>1, TxnAssumption DEF TypeOK, EnvRec, BtreeRec, EnvStep
      <4>3. PairOK(g, bt[g], e) /\ EnvStep(h, e, f)
        BY <3>1, <3>3, <4>1
      <4>4. PairOK(g, bt[g], f)
        BY <2>2, <4>2, <4>3 DEF PairOK, EnvStep
      <4> QED BY <1>3, <2>2, <3>1, <3>3, <4>4
    <3> QED BY <3>2, <3>3
  <2> QED BY <2>1, <2>2
<1>5. TxnStateAgrees' /\ WriterIsCurrent'
  BY <1>4 DEF TxnStateAgrees, WriterIsCurrent, BtOK, PairOK
<1> QED BY <1>2, <1>5

\* What the invariant gives a call on handle h.
LEMMA HandleFacts ==
  ASSUME Inv, NEW h \in Handle
  PROVE  /\ EnvOf[h] \in Env /\ h # Nobody /\ BtOK(bt[h])
         /\ env[EnvOf[h]] \in EnvRec(Handle)
         /\ PairOK(h, bt[h], env[EnvOf[h]])
         /\ wait \in [Thread -> Handle \cup {Nobody}] /\ Owner[h] \in Thread
BY TxnAssumption DEF Inv, TypeOK, TxnStateAgrees, WriterIsCurrent, BtOK, PairOK

\* mdb_txn_commit and mdb_txn_abort of the main transaction of h.
LEMMA EndFacts ==
  ASSUME NEW h \in Handle, NEW b, NEW e \in EnvRec(Handle), NEW c \in Contents,
         h # Nobody, BtOK(b), PairOK(h, b, e)
  PROVE  /\ BtOK(NoTxn)
         /\ EnvStep(h, e, mdb_txn_commit(e, h, c)) /\ PairOK(h, NoTxn, mdb_txn_commit(e, h, c))
         /\ EnvStep(h, e, mdb_txn_abort(e, h)) /\ PairOK(h, NoTxn, mdb_txn_abort(e, h))
<1>1. BtOK(NoTxn)
  BY DEF BtOK, NoTxn, BtreeRec
<1>2. e.txnid \in Nat /\ e.data \in Contents
  BY DEF EnvRec
<1>3. EnvStep(h, e, mdb_txn_commit(e, h, c)) /\ PairOK(h, NoTxn, mdb_txn_commit(e, h, c))
  BY <1>2 DEF EnvStep, PairOK, NoTxn, mdb_txn_commit, EnvRec
<1>4. EnvStep(h, e, mdb_txn_abort(e, h)) /\ PairOK(h, NoTxn, mdb_txn_abort(e, h))
  BY <1>2 DEF EnvStep, PairOK, NoTxn, mdb_txn_abort, EnvRec
<1> QED BY <1>1, <1>3, <1>4

\* A call that leaves the environment alone and the handle in its mode.
LEMMA SameEnv ==
  ASSUME NEW h \in Handle, NEW b, NEW d, NEW e \in EnvRec(Handle), PairOK(h, b, e),
         d.inTrans = b.inTrans, d.mt_txnid = b.mt_txnid
  PROVE  EnvStep(h, e, e) /\ PairOK(h, d, e)
BY DEF EnvStep, PairOK, EnvRec

-----------------------------------------------------------------------------
(* One lemma per operation of BtreeOps.                                    *)

\* sqlite3BtreeBeginTrans.
LEMMA BeginTransFacts ==
  ASSUME NEW h \in Handle, NEW b, NEW e \in EnvRec(Handle), NEW wrflag \in BOOLEAN,
         h # Nobody, BtOK(b), PairOK(h, b, e), ~ HasTxn(b, wrflag), MayBegin(e, wrflag)
  PROVE  /\ BtOK(BeginTransBt(b, e, wrflag))
         /\ PairOK(h, BeginTransBt(b, e, wrflag), BeginTransEnv(b, e, h, wrflag))
         /\ EnvStep(h, e, BeginTransEnv(b, e, h, wrflag))
<1>1. e.txnid \in Nat /\ e.data \in Contents /\ e.writer \in Handle \cup {Nobody}
  BY DEF EnvRec
<1>2. /\ <<e.data>> \in Seq(Contents) /\ <<e.data>> # <<>> /\ Len(<<e.data>>) = 1
  BY <1>1
<1>3. CASE wrflag
  <2>1. BeginTransBt(b, e, wrflag) = [inTrans |-> "WRITE", txns |-> <<e.data>>, mt_txnid |-> e.txnid]
    BY <1>3 DEF BeginTransBt
  <2>2. BeginTransEnv(b, e, h, wrflag) = [e EXCEPT !.writer = h]
    BY <1>3 DEF BeginTransEnv
  <2>3. BtOK(BeginTransBt(b, e, wrflag))
    BY <1>1, <1>2, <2>1 DEF BtOK, BtreeRec
  <2>4. e.writer = Nobody
    BY <1>3 DEF MayBegin
  <2>5. /\ [e EXCEPT !.writer = h] \in EnvRec(Handle)
        /\ [e EXCEPT !.writer = h].writer = h
        /\ [e EXCEPT !.writer = h].txnid = e.txnid
    BY DEF EnvRec
  <2> QED BY <1>1, <2>1, <2>2, <2>3, <2>4, <2>5 DEF PairOK, EnvStep
<1>4. CASE ~ wrflag
  <2>1. BeginTransBt(b, e, wrflag) = [inTrans |-> "READ", txns |-> <<e.data>>, mt_txnid |-> e.txnid]
    BY <1>4 DEF BeginTransBt
  <2>2. BeginTransEnv(b, e, h, wrflag) = e
    BY <1>4 DEF BeginTransEnv
  <2>3. BtOK(BeginTransBt(b, e, wrflag))
    BY <1>1, <1>2, <2>1 DEF BtOK, BtreeRec
  <2>4. e.writer # h
    BY <1>4 DEF HasTxn, PairOK
  <2> QED BY <1>1, <2>1, <2>2, <2>3, <2>4 DEF PairOK, EnvStep
<1> QED BY <1>3, <1>4

\* A chain of a writer gets another value that is a chain.
LEMMA WriterChain ==
  ASSUME NEW h \in Handle, NEW b, NEW e \in EnvRec(Handle), NEW t \in Seq(Contents),
         BtOK(b), PairOK(h, b, e), t # <<>>, b.inTrans = "WRITE"
  PROVE  /\ BtOK([b EXCEPT !.txns = t])
         /\ PairOK(h, [b EXCEPT !.txns = t], e)
         /\ EnvStep(h, e, e)
<1>1. /\ [b EXCEPT !.txns = t] \in BtreeRec
      /\ [b EXCEPT !.txns = t].inTrans = b.inTrans
      /\ [b EXCEPT !.txns = t].mt_txnid = b.mt_txnid
      /\ [b EXCEPT !.txns = t].txns = t
  BY DEF BtOK, BtreeRec
<1>2. BtOK([b EXCEPT !.txns = t])
  BY <1>1 DEF BtOK
<1> QED BY <1>1, <1>2, SameEnv

\* sqlite3BtreeBeginStmt and the calls that write.
LEMMA StmtFacts ==
  ASSUME NEW h \in Handle, NEW b, NEW e \in EnvRec(Handle), NEW c \in Contents,
         BtOK(b), PairOK(h, b, e), b.inTrans = "WRITE"
  PROVE  /\ BtOK(BeginStmtBt(b)) /\ PairOK(h, BeginStmtBt(b), e)
         /\ BtOK(WriteBt(b, c)) /\ PairOK(h, WriteBt(b, c), e)
         /\ EnvStep(h, e, e)
<1>1. b.txns \in Seq(Contents) /\ b.txns # <<>>
  BY DEF BtOK, BtreeRec
<1>2. curr_txn(b.txns) \in Contents /\ parent(b.txns) \in Seq(Contents)
  BY <1>1, ChainFacts
<1>3. /\ Append(b.txns, curr_txn(b.txns)) \in Seq(Contents)
      /\ Append(b.txns, curr_txn(b.txns)) # <<>>
  BY <1>1, <1>2, ExtendedChain
<1>4. Append(parent(b.txns), c) \in Seq(Contents) /\ Append(parent(b.txns), c) # <<>>
  BY <1>2, ExtendedChain
<1>5. BtOK(BeginStmtBt(b)) /\ PairOK(h, BeginStmtBt(b), e) /\ EnvStep(h, e, e)
  BY <1>3, WriterChain DEF BeginStmtBt
<1>6. BtOK(WriteBt(b, c)) /\ PairOK(h, WriteBt(b, c), e)
  BY <1>4, WriterChain DEF WriteBt
<1> QED BY <1>5, <1>6

\* sqlite3BtreeCommitPhaseOne.
LEMMA CommitFacts ==
  ASSUME NEW h \in Handle, NEW b, NEW e \in EnvRec(Handle), NEW ok \in BOOLEAN,
         h # Nobody, BtOK(b), PairOK(h, b, e)
  PROVE  /\ BtOK(CommitPhaseOneBt(b))
         /\ PairOK(h, CommitPhaseOneBt(b), CommitPhaseOneEnv(b, e, h, ok))
         /\ EnvStep(h, e, CommitPhaseOneEnv(b, e, h, ok))
<1>1. CASE b.txns = <<>>
  <2>1. CommitPhaseOneBt(b) = b /\ CommitPhaseOneEnv(b, e, h, ok) = e
    BY <1>1 DEF CommitPhaseOneBt, CommitPhaseOneEnv
  <2> QED BY <2>1, SameEnv
<1>2. CASE b.txns # <<>>
  <2>1. curr_txn(b.txns) \in Contents
    BY <1>2, ChainFacts DEF BtOK, BtreeRec
  <2>2. /\ CommitPhaseOneBt(b) = NoTxn
        /\ CommitPhaseOneEnv(b, e, h, ok) \in {mdb_txn_commit(e, h, curr_txn(b.txns)), mdb_txn_abort(e, h)}
    BY <1>2 DEF CommitPhaseOneBt, CommitPhaseOneEnv
  <2> QED BY <2>1, <2>2, EndFacts
<1> QED BY <1>1, <1>2

\* sqlite3BtreeSavepoint, for every operation, index and outcome.
LEMMA SavepointFacts ==
  ASSUME NEW h \in Handle, NEW b, NEW e \in EnvRec(Handle), NEW op, NEW i \in Int,
         NEW ok \in BOOLEAN, h # Nobody, BtOK(b), PairOK(h, b, e)
  PROVE  /\ BtOK(SavepointBt(b, op, i, ok))
         /\ PairOK(h, SavepointBt(b, op, i, ok), SavepointEnv(b, e, h, op, i, ok))
         /\ EnvStep(h, e, SavepointEnv(b, e, h, op, i, ok))
<1>1. CASE b.txns = <<>>
  <2>1. SavepointBt(b, op, i, ok) = b /\ SavepointEnv(b, e, h, op, i, ok) = e
    BY <1>1 DEF SavepointBt, SavepointEnv
  <2> QED BY <2>1, SameEnv
<1>2. CASE b.txns # <<>> /\ (i = -1 \/ Len(b.txns) = 1)
  <2>1. curr_txn(b.txns) \in Contents
    BY <1>2, ChainFacts DEF BtOK, BtreeRec
  <2>2. SavepointBt(b, op, i, ok) = NoTxn
    BY <1>2 DEF SavepointBt
  <2>3. SavepointEnv(b, e, h, op, i, ok) \in {mdb_txn_commit(e, h, curr_txn(b.txns)), mdb_txn_abort(e, h)}
    <3>1. ~ (b.txns = <<>> \/ (i # -1 /\ Len(b.txns) > 1))
      <4>1. PICK n : n = Len(b.txns)
        OBVIOUS
      <4>2. n = 1 => ~ (n > 1)
        OBVIOUS
      <4> QED BY <1>2, <4>1, <4>2, Zenon
    <3> QED BY <3>1, Zenon DEF SavepointEnv
  <2> QED BY <2>1, <2>2, <2>3, EndFacts
<1>3. CASE b.txns # <<>> /\ i # -1 /\ Len(b.txns) # 1
  <2>1. /\ b.txns \in Seq(Contents) /\ Len(b.txns) \in Nat /\ Len(b.txns) > 1
        /\ curr_txn(b.txns) \in Contents
        /\ parent(b.txns) \in Seq(Contents) /\ parent(b.txns) # <<>>
    <3>1. b.txns \in Seq(Contents)
      BY DEF BtOK, BtreeRec
    <3> QED BY <1>3, <3>1, ChainFacts
  <2>2. b.inTrans = "WRITE"
    BY <1>3 DEF BtOK, BtreeRec
  <2>3. Merged(b.txns) \in Seq(Contents) /\ Merged(b.txns) # <<>>
    <3>1. parent(parent(b.txns)) \in Seq(Contents)
      BY <2>1, ChainFacts
    <3> QED BY <2>1, <3>1, ExtendedChain DEF Merged
  <2>4. SavepointEnv(b, e, h, op, i, ok) = e
    BY <1>3, <2>1 DEF SavepointEnv
  <2>5. PICK t \in {Merged(b.txns), parent(b.txns)} :
          SavepointBt(b, op, i, ok) = [b EXCEPT !.txns = t]
    BY <1>3 DEF SavepointBt
  <2> QED BY <2>1, <2>2, <2>3, <2>4, <2>5, WriterChain
<1> QED BY <1>1, <1>2, <1>3

-----------------------------------------------------------------------------

\* No transaction is open at the start.
LEMMA InitInv == Init => Inv
<1> SUFFICES ASSUME Init PROVE Inv
  OBVIOUS
<1>1. PICK c \in [Env -> Contents] : env = [e \in Env |-> NewEnv(c[e])]
  BY DEF Init
<1>2. \A e \in Env : env[e] \in EnvRec(Handle) /\ env[e].writer = Nobody /\ env[e].txnid = 0
  BY <1>1 DEF NewEnv, EnvRec
<1>3. BtOK(NoTxn) /\ NoTxn.inTrans = "NONE" /\ NoTxn.mt_txnid = 0
  BY DEF BtOK, NoTxn, BtreeRec
<1>4. TypeOK
  BY <1>1, <1>2, <1>3 DEF Init, TypeOK, BtOK
<1>5. \A h \in Handle : bt[h] = NoTxn /\ EnvOf[h] \in Env /\ h # Nobody
  BY TxnAssumption DEF Init
<1>6. TxnStateAgrees
  BY <1>2, <1>3, <1>5 DEF TxnStateAgrees, BtOK
<1>7. WriterIsCurrent
  BY <1>2, <1>3, <1>5 DEF WriterIsCurrent
<1> QED BY <1>4, <1>6, <1>7 DEF Inv

\* A thread's death ends the transactions of its handles and no other.
LEMMA DieInv ==
  ASSUME Inv, NEW t \in Thread, Die(t)
  PROVE  Inv'
<1> USE DEF Inv
<1> DEFINE dead == {h \in Handle : Owner[h] = t}
<1>1. /\ bt' = [h \in Handle |-> IF h \in dead THEN NoTxn ELSE bt[h]]
      /\ env' = [e \in Env |-> IF env[e].writer \in dead
                                 THEN [env[e] EXCEPT !.writer = Nobody] ELSE env[e]]
      /\ wait' = [wait EXCEPT ![t] = Nobody]
  BY DEF Die
<1>2. BtOK(NoTxn) /\ NoTxn.inTrans = "NONE" /\ NoTxn.mt_txnid = 0
  BY DEF BtOK, NoTxn, BtreeRec
<1>3. ASSUME NEW e \in Env
      PROVE  /\ env'[e] \in EnvRec(Handle) /\ env'[e].txnid = env[e].txnid
             /\ env'[e].writer = IF env[e].writer \in dead THEN Nobody ELSE env[e].writer
             /\ env[e].txnid \in Nat
  <2>1. env[e] \in EnvRec(Handle)
    BY DEF TypeOK
  <2>2. CASE env[e].writer \in dead
    <3>1. env'[e] = [env[e] EXCEPT !.writer = Nobody]
      BY <1>1, <2>2
    <3> QED BY <2>1, <2>2, <3>1 DEF EnvRec
  <2>3. CASE env[e].writer \notin dead
    <3>1. env'[e] = env[e]
      BY <1>1, <2>3
    <3> QED BY <2>1, <2>3, <3>1 DEF EnvRec
  <2> QED BY <2>2, <2>3
<1>4. ASSUME NEW h \in Handle
      PROVE  BtOK(bt'[h]) /\ PairOK(h, bt'[h], env'[EnvOf[h]])
  <2>1. PICK e : e = EnvOf[h]
    OBVIOUS
  <2>2. e \in Env /\ h # Nobody /\ BtOK(bt[h]) /\ PairOK(h, bt[h], env[e])
    BY <2>1, HandleFacts
  <2>3. CASE h \in dead
    <3>1. bt'[h] = NoTxn
      BY <1>1, <2>3
    <3>2. env'[e].writer # h
      BY <1>3, <2>2, <2>3
    <3> QED BY <1>2, <1>3, <2>1, <2>2, <3>1, <3>2 DEF PairOK
  <2>4. CASE h \notin dead
    <3>1. bt'[h] = bt[h]
      BY <1>1, <2>4
    <3>2. env'[e].writer = h <=> env[e].writer = h
      BY <1>3, <2>2, <2>4
    <3> QED BY <1>3, <2>1, <2>2, <3>1, <3>2 DEF PairOK
  <2> QED BY <2>3, <2>4
<1>5. TypeOK'
  <2>1. bt' \in [Handle -> BtreeRec]
    BY <1>1, <1>4 DEF BtOK
  <2>2. env' \in [Env -> EnvRec(Handle)]
    BY <1>1, <1>3
  <2>3. wait' \in [Thread -> Handle \cup {Nobody}]
    BY <1>1 DEF TypeOK
  <2> QED BY <2>1, <2>2, <2>3 DEF TypeOK
<1>6. TxnStateAgrees' /\ WriterIsCurrent'
  BY <1>4 DEF TxnStateAgrees, WriterIsCurrent, BtOK, PairOK
<1> QED BY <1>5, <1>6

\* Every call preserves the invariant.
LEMMA NextInv == Inv /\ [Next]_vars => Inv'
<1> SUFFICES ASSUME Inv, [Next]_vars PROVE Inv'
  OBVIOUS
<1>1. ASSUME NEW h \in Handle, NEW wrflag \in BOOLEAN, BeginTrans(h, wrflag),
             wait' \in [Thread -> Handle \cup {Nobody}]
      PROVE  Inv'
  <2>1. /\ ~ HasTxn(bt[h], wrflag) /\ MayBegin(env[EnvOf[h]], wrflag)
        /\ bt' = [bt EXCEPT ![h] = BeginTransBt(bt[h], env[EnvOf[h]], wrflag)]
        /\ env' = [env EXCEPT ![EnvOf[h]] = BeginTransEnv(bt[h], env[EnvOf[h]], h, wrflag)]
    BY <1>1 DEF BeginTrans
  <2>2. PICK b, f : b = BeginTransBt(bt[h], env[EnvOf[h]], wrflag) /\ f = BeginTransEnv(bt[h], env[EnvOf[h]], h, wrflag)
    OBVIOUS
  <2>3. BtOK(b) /\ PairOK(h, b, f) /\ EnvStep(h, env[EnvOf[h]], f)
    BY <1>1, <2>1, <2>2, HandleFacts, BeginTransFacts
  <2> QED BY <1>1, <2>1, <2>2, <2>3, HandleFacts, LocalStep
<1>2. ASSUME NEW h \in Handle, NEW wrflag \in BOOLEAN, BeginNow(h, wrflag)
      PROVE  Inv'
  BY <1>1, <1>2, HandleFacts DEF BeginNow
<1>3. ASSUME NEW h \in Handle, BeginBlock(h)
      PROVE  Inv'
  <2>1. TypeOK'
    BY <1>3, HandleFacts DEF BeginBlock, Inv, TypeOK
  <2> QED BY <1>3, <2>1 DEF BeginBlock, Inv, TxnStateAgrees, WriterIsCurrent
<1>4. ASSUME NEW h \in Handle, BeginResume(h)
      PROVE  Inv'
  <2>1. wait' \in [Thread -> Handle \cup {Nobody}]
    BY <1>4, HandleFacts DEF BeginResume
  <2> QED BY <1>1, <1>4, <2>1 DEF BeginResume
<1>5. ASSUME NEW h \in Handle, BeginStmt(h)
      PROVE  Inv'
  <2>1. /\ bt[h].inTrans = "WRITE" /\ wait' = wait
        /\ bt' = [bt EXCEPT ![h] = BeginStmtBt(bt[h])]
        /\ env' = [env EXCEPT ![EnvOf[h]] = env[EnvOf[h]]]
    BY <1>5 DEF BeginStmt, Inv, TypeOK
  <2>2. env[EnvOf[h]].data \in Contents
    BY HandleFacts DEF EnvRec
  <2>3. PICK b, f : b = BeginStmtBt(bt[h]) /\ f = env[EnvOf[h]]
    OBVIOUS
  <2>4. BtOK(b) /\ PairOK(h, b, f) /\ EnvStep(h, env[EnvOf[h]], f)
    BY <2>1, <2>2, <2>3, HandleFacts, StmtFacts
  <2> QED BY <2>1, <2>2, <2>3, <2>4, HandleFacts, LocalStep
<1>6. ASSUME NEW h \in Handle, NEW c \in Contents, Write(h, c)
      PROVE  Inv'
  <2>1. /\ bt[h].inTrans = "WRITE" /\ wait' = wait
        /\ bt' = [bt EXCEPT ![h] = WriteBt(bt[h], c)]
        /\ env' = [env EXCEPT ![EnvOf[h]] = env[EnvOf[h]]]
    BY <1>6 DEF Write, Inv, TypeOK
  <2>2. PICK b, f : b = WriteBt(bt[h], c) /\ f = env[EnvOf[h]]
    OBVIOUS
  <2>3. BtOK(b) /\ PairOK(h, b, f) /\ EnvStep(h, env[EnvOf[h]], f)
    BY <2>1, <2>2, HandleFacts, StmtFacts
  <2> QED BY <2>1, <2>2, <2>3, HandleFacts, LocalStep
<1>7. ASSUME NEW h \in Handle, NEW ok \in BOOLEAN, Commit(h, ok)
      PROVE  Inv'
  <2>1. /\ bt' = [bt EXCEPT ![h] = CommitPhaseOneBt(bt[h])]
        /\ env' = [env EXCEPT ![EnvOf[h]] = CommitPhaseOneEnv(bt[h], env[EnvOf[h]], h, ok)]
        /\ wait' = wait
    BY <1>7 DEF Commit
  <2>2. PICK b, f : b = CommitPhaseOneBt(bt[h]) /\ f = CommitPhaseOneEnv(bt[h], env[EnvOf[h]], h, ok)
    OBVIOUS
  <2>3. BtOK(b) /\ PairOK(h, b, f) /\ EnvStep(h, env[EnvOf[h]], f)
    BY <2>1, <2>2, HandleFacts, CommitFacts
  <2> QED BY <2>1, <2>2, <2>3, HandleFacts, LocalStep
<1>8. ASSUME NEW h \in Handle, NEW op, NEW ok \in BOOLEAN, Savepoint(h, op, ok)
      PROVE  Inv'
  <2>1. /\ bt' = [bt EXCEPT ![h] = SavepointBt(bt[h], op, 0, ok)]
        /\ env' = [env EXCEPT ![EnvOf[h]] = SavepointEnv(bt[h], env[EnvOf[h]], h, op, 0, ok)]
        /\ wait' = wait
    BY <1>8 DEF Savepoint
  <2>2. PICK b, f : b = SavepointBt(bt[h], op, 0, ok) /\ f = SavepointEnv(bt[h], env[EnvOf[h]], h, op, 0, ok)
    OBVIOUS
  <2>3. BtOK(b) /\ PairOK(h, b, f) /\ EnvStep(h, env[EnvOf[h]], f)
    BY <2>1, <2>2, HandleFacts, SavepointFacts
  <2> QED BY <2>1, <2>2, <2>3, HandleFacts, LocalStep
<1>9. ASSUME NEW h \in Handle, Rollback(h)
      PROVE  Inv'
  <2>1. /\ bt' = [bt EXCEPT ![h] = SavepointBt(bt[h], "ROLLBACK", -1, TRUE)]
        /\ env' = [env EXCEPT ![EnvOf[h]] = SavepointEnv(bt[h], env[EnvOf[h]], h, "ROLLBACK", -1, TRUE)]
        /\ wait' = wait
    BY <1>9 DEF Rollback, RollbackBt, RollbackEnv
  <2>2. PICK b, f : b = SavepointBt(bt[h], "ROLLBACK", -1, TRUE) /\ f = SavepointEnv(bt[h], env[EnvOf[h]], h, "ROLLBACK", -1, TRUE)
    OBVIOUS
  <2>3. BtOK(b) /\ PairOK(h, b, f) /\ EnvStep(h, env[EnvOf[h]], f)
    <3>1. PICK i \in Int : i = -1
      OBVIOUS
    <3>2. /\ b = SavepointBt(bt[h], "ROLLBACK", i, TRUE)
          /\ f = SavepointEnv(bt[h], env[EnvOf[h]], h, "ROLLBACK", i, TRUE)
      BY <2>2, <3>1
    <3> QED BY <3>2, HandleFacts, SavepointFacts
  <2> QED BY <2>1, <2>2, <2>3, HandleFacts, LocalStep
<1>10. ASSUME NEW t \in Thread, Die(t)
       PROVE  Inv'
  BY <1>10, DieInv
<1>11. CASE UNCHANGED vars
  BY <1>11 DEF vars, Inv, TypeOK, TxnStateAgrees, WriterIsCurrent
<1> QED BY <1>2, <1>3, <1>4, <1>5, <1>6, <1>7, <1>8, <1>9, <1>10, <1>11 DEF Next

\* The values of all variables keep their types in every behaviour, inTrans
\* agrees with what LMDB has granted, and a writer works on the newest version.
THEOREM TransactionsAgree == Spec => [](TypeOK /\ TxnStateAgrees /\ WriterIsCurrent)
<1>1. Init => Inv
  BY InitInv
<1>2. Inv /\ [Next]_vars => Inv'
  BY NextInv
<1> QED BY <1>1, <1>2, PTL DEF Spec, Inv
=============================================================================
