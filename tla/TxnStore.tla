------------------------------ MODULE TxnStore ------------------------------
(***************************************************************************)
(* What the btree layer promises its clients: databases that change only   *)
(* by whole transactions, one after the other.  A client works on a view   *)
(* of one database, taken at some version; it can save its view and go     *)
(* back to what it saved; its view becomes the next version only if the    *)
(* database is still at the version the view was taken from.  Nothing is   *)
(* said about locks: a store that lets writers race and makes the losers   *)
(* start again would do as well.                                           *)
(***************************************************************************)
EXTENDS Naturals, Sequences

CONSTANTS Contents, NoView, Handle, Env, EnvOf

VARIABLES db,       \* the committed contents of each database
          version,  \* the number of commits of each database
          view,     \* what each client sees, NoView outside a transaction
          base,     \* the version the view was taken from
          saved     \* the views the client can go back to

vars == <<db, version, view, base, saved>>

InTxn(h) == view[h] # NoView

UpToDate(h) == base[h] = version[EnvOf[h]]

Init ==
  /\ db \in [Env -> Contents]
  /\ version = [e \in Env |-> 0]
  /\ view = [h \in Handle |-> NoView]
  /\ base = [h \in Handle |-> 0]
  /\ saved = [h \in Handle |-> <<>>]

\* A client takes a new view, if it has nothing saved in an earlier one.
Begin(h) ==
  /\ saved[h] = <<>>
  /\ view' = [view EXCEPT ![h] = db[EnvOf[h]]]
  /\ base' = [base EXCEPT ![h] = version[EnvOf[h]]]
  /\ UNCHANGED <<db, version, saved>>

Write(h, c) ==
  /\ InTxn(h) /\ UpToDate(h)
  /\ view' = [view EXCEPT ![h] = c]
  /\ UNCHANGED <<db, version, base, saved>>

Save(h) ==
  /\ InTxn(h)
  /\ saved' = [saved EXCEPT ![h] = Append(@, view[h])]
  /\ UNCHANGED <<db, version, view, base>>

Undo(h) ==
  /\ saved[h] # <<>>
  /\ view' = [view EXCEPT ![h] = saved[h][Len(saved[h])]]
  /\ saved' = [saved EXCEPT ![h] = SubSeq(@, 1, Len(@) - 1)]
  /\ UNCHANGED <<db, version, base>>

Merge(h) ==
  /\ saved[h] # <<>>
  /\ saved' = [saved EXCEPT ![h] = SubSeq(@, 1, Len(@) - 1)]
  /\ UNCHANGED <<db, version, view, base>>

\* The views of the clients in C are given up.
Leave(C) ==
  /\ view' = [h \in Handle |-> IF h \in C THEN NoView ELSE view[h]]
  /\ saved' = [h \in Handle |-> IF h \in C THEN <<>> ELSE saved[h]]
  /\ base' = [h \in Handle |-> IF h \in C THEN 0 ELSE base[h]]

Commit(h) ==
  /\ InTxn(h) /\ UpToDate(h)
  /\ db' = [db EXCEPT ![EnvOf[h]] = view[h]]
  /\ version' = [version EXCEPT ![EnvOf[h]] = @ + 1]
  /\ Leave({h})

Abort(C) == Leave(C) /\ UNCHANGED <<db, version>>

Next ==
  \/ \E h \in Handle : \/ Begin(h) \/ Save(h) \/ Undo(h) \/ Merge(h) \/ Commit(h)
                       \/ \E c \in Contents : Write(h, c)
  \/ \E C \in SUBSET Handle : Abort(C)

Spec == Init /\ [][Next]_vars
=============================================================================
