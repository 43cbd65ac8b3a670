--------------------------- MODULE BtSharedProofs ---------------------------
(***************************************************************************)
(* For any number of handles, paths and threads: a handle in use keeps its *)
(* environment open, and of the BtShareds a handle or the list leads to,   *)
(* no two have the same path.                                              *)
(***************************************************************************)
EXTENDS BtShared, TLAPS

Inv == BtSharedTypeOK /\ OwnershipInv

\* One more reference is enough for one more user.
LEMMA UsersAdd ==
  ASSUME NEW n \in Nat, NEW T, Covers(n, T), NEW h, NEW U, U \subseteq T \cup {h}
  PROVE  Covers(n + 2, U)
<1>1. PICK ref \in [T -> 1..n] : \A g, k \in T : ref[g] = ref[k] => g = k
  BY DEF Covers
<1> DEFINE more == [g \in U |-> IF g \in T THEN ref[g] ELSE n + 1]
<1>2. more \in [U -> 1..n + 2] /\ \A g, k \in U : more[g] = more[k] => g = k
  BY <1>1
<1> QED BY <1>2 DEF Covers

\* A user that leaves hands its reference to the one that has the last.
LEMMA UsersDrop ==
  ASSUME NEW n \in Nat, NEW m \in Nat, m >= n - 1, NEW T, Covers(n, T), NEW h \in T
  PROVE  Covers(m, T \ {h})
<1>1. PICK ref \in [T -> 1..n] : \A g, k \in T : ref[g] = ref[k] => g = k
  BY DEF Covers
<1> DEFINE less == [g \in T \ {h} |-> IF ref[g] = n THEN ref[h] ELSE ref[g]]
<1>2. less \in [T \ {h} -> 1..m] /\ \A g, k \in T \ {h} : less[g] = less[k] => g = k
  BY <1>1
<1> QED BY <1>2 DEF Covers

\* One reference is for one user or none.
LEMMA UserAlone ==
  /\ Covers(1, {})
  /\ \A h : Covers(1, {h})
  /\ \A T : Covers(1, T) => \A g, h \in T : g = h
<1>0. Covers(1, {})
  <2>1. [g \in {} |-> 1] \in [{} -> 1..1]
    OBVIOUS
  <2> QED BY <2>1 DEF Covers
<1>1. ASSUME NEW h PROVE Covers(1, {h})
  <2>1. [g \in {h} |-> 1] \in [{h} -> 1..1]
    OBVIOUS
  <2> QED BY <2>1 DEF Covers
<1>2. ASSUME NEW T, Covers(1, T) PROVE \A g, h \in T : g = h
  BY <1>2 DEF Covers
<1> QED BY <1>0, <1>1, <1>2

-----------------------------------------------------------------------------

\* What an update of a BtShared leaves alone.
LEMMA SharedUpdate ==
  ASSUME NEW r \in SharedRec, NEW x \in Btree \cup {Null, Junk}, NEW n \in Nat
  PROVE  /\ Linked(r, x, n) \in SharedRec /\ Linked(r, x, n) # Null
         /\ Linked(r, x, n).path = r.path /\ Linked(r, x, n).nRef = n
<1>1. Linked(r, x, n) \in SharedRec
  BY Zenon DEF SharedRec, Linked
<1>2. Linked(r, x, n).path = r.path /\ Linked(r, x, n).nRef = n
  BY DEF Linked
<1> QED BY <1>1, <1>2, NullIsNoRecord

\* No handle is open at the start.
LEMMA InitInv == BtSharedInit => Inv
<1> SUFFICES ASSUME BtSharedInit PROVE Inv
  OBVIOUS
<1>1. BtSharedTypeOK
  BY Zenon DEF BtSharedInit, BtSharedTypeOK, Places
<1>2. OwnershipInv
  BY DEF BtSharedInit, OwnershipInv, OneEnvPerPath
<1> QED BY <1>1, <1>2 DEF Inv

\* An open that finds the path on the list takes two references for one user.
LEMMA OpenHitInv ==
  ASSUME Inv, NEW h \in Btree, NEW path \in Path, OpenHit(h, path)
  PROVE  Inv'
<1>T. BtSharedTypeOK /\ OwnershipInv
  BY DEF Inv
<1> USE <1>T
<1>1. PICK s \in Matches(path) :
        /\ pc' = [pc EXCEPT ![h] = "opened"]
        /\ pBt' = [pBt EXCEPT ![h] = s]
        /\ pNext' = [pNext EXCEPT ![h] = shared[s].trees]
        /\ shared' = [shared EXCEPT ![s] = Linked(@, h, @.nRef + 2)]
  BY Zenon DEF OpenHit, Retained
<1>2. /\ s \in Object /\ s \in list
      /\ shared[s] \in SharedRec /\ shared[s] # Null /\ shared[s].path = path
  BY DEF Matches, BtSharedTypeOK, OwnershipInv
<1>3. /\ shared'[s] \in SharedRec /\ shared'[s] # Null
      /\ shared'[s].path = path /\ shared'[s].nRef = shared[s].nRef + 2
      /\ \A t \in Object \ {s} : shared'[t] = shared[t]
  <2>1. shared[s].nRef \in Nat /\ shared[s].nRef + 2 \in Nat
    BY <1>2 DEF SharedRec
  <2>2. shared'[s] = Linked(shared[s], h, shared[s].nRef + 2)
    BY <1>1, <1>2 DEF BtSharedTypeOK
  <2>3. \A t \in Object \ {s} : shared'[t] = shared[t]
    BY <1>1
  <2> QED BY <1>2, <2>1, <2>2, <2>3, SharedUpdate, SMTT(30)
<1>4. BtSharedTypeOK'
  <2>1. shared' \in [Object -> SharedRec \cup {Null}]
    BY <1>1, <1>3 DEF BtSharedTypeOK
  <2>2. pNext' \in [Btree -> Btree \cup {Null, Junk}]
    BY <1>1, <1>2 DEF BtSharedTypeOK, SharedRec
  <2> QED BY <2>1, <2>2 DEF BtSharedTypeOK, OpenHit, Places
<1>5. /\ isTemp' = [isTemp EXCEPT ![h] = FALSE] /\ list' = list /\ leaked' = leaked
      /\ pc[h] = "closed" /\ pBt[h] = Null
  BY DEF OpenHit, OwnershipInv
<1>6. \A g \in Btree \ {h} : /\ pc'[g] = pc[g] /\ pBt'[g] = pBt[g]
                              /\ isTemp'[g] = isTemp[g]
  BY <1>1, <1>5
<1>7. pc'[h] = "opened" /\ pBt'[h] = s /\ ~ isTemp'[h]
  BY <1>1, <1>5 DEF BtSharedTypeOK
<1>8. \A g \in Btree : pc'[g] = "closed" => pBt'[g] = Null
  BY <1>6, <1>7 DEF OwnershipInv
<1>9. ASSUME NEW g \in Btree, pc'[g] # "closed"
      PROVE  /\ pBt'[g] \in Object
             /\ shared'[pBt'[g]] # Null
             /\ isTemp'[g] <=> shared'[pBt'[g]].path = Null
             /\ isTemp'[g] => \A k \in Btree : pBt'[k] = pBt'[g] => k = g
  <2>1. CASE g = h
    BY <1>2, <1>3, <1>7, <2>1, SharedAssumption
  <2>2. CASE g # h
    <3>1. pc'[g] = pc[g] /\ pBt'[g] = pBt[g] /\ isTemp'[g] = isTemp[g]
      BY <1>6, <2>2
    <3>2. /\ pBt[g] \in Object /\ shared[pBt[g]] # Null
          /\ isTemp[g] <=> shared[pBt[g]].path = Null
          /\ isTemp[g] => \A k \in Btree : pBt[k] = pBt[g] => k = g
      BY <1>9, <3>1 DEF OwnershipInv
    <3>3. isTemp[g] => pBt[g] # s
      BY <3>2, <1>2, SharedAssumption
    <3> QED BY <1>2, <1>3, <1>6, <1>7, <3>1, <3>2, <3>3
  <2> QED BY <2>1, <2>2
<1>10. ASSUME NEW t \in Object, shared'[t] # Null
       PROVE  Covers(shared'[t].nRef, Users(t)')
  <2>1. CASE t = s
    <3>1. Users(s)' \subseteq Users(s) \cup {h}
      BY <1>6 DEF Users
    <3>2. Covers(shared[s].nRef, Users(s)) /\ shared[s].nRef \in Nat
      BY <1>2 DEF OwnershipInv, SharedRec
    <3>3. Covers(shared[s].nRef + 2, Users(s)')
      BY <3>1, <3>2, UsersAdd
    <3> QED BY <1>3, <2>1, <3>3
  <2>2. CASE t # s
    <3>1. Users(t)' = Users(t)
      BY <1>5, <1>6, <1>7, <2>2, SharedAssumption DEF Users
    <3>2. shared'[t] = shared[t]
      BY <1>3, <2>2
    <3> QED BY <1>10, <3>1, <3>2 DEF OwnershipInv
  <2> QED BY <2>1, <2>2
<1>11. /\ \A t \in Object : t \in list'
            <=> (shared'[t] # Null /\ shared'[t].path # Null /\ t \notin leaked')
       /\ OneEnvPerPath'
  <2>1. \A t \in Object : /\ shared'[t] # Null <=> shared[t] # Null
                          /\ shared[t] # Null => shared'[t].path = shared[t].path
    BY SMTT(30), <1>2, <1>3
  <2> QED BY <1>5, <2>1 DEF OwnershipInv, OneEnvPerPath
<1>12. ASSUME NEW t \in Object, t \in leaked'
       PROVE  shared'[t] # Null /\ Users(t)' = {}
  <2>1. t # s /\ t # Null /\ shared[t] # Null /\ Users(t) = {}
    BY <1>2, <1>5, <1>12, SharedAssumption DEF OwnershipInv
  <2> QED BY <1>3, <1>6, <1>7, <2>1 DEF Users
<1> QED BY <1>4, <1>8, <1>9, <1>10, <1>11, <1>12 DEF Inv, OwnershipInv

\* A fresh BtShared q is alone on its path and has the one user h.
LEMMA FreshInv ==
  ASSUME Inv, NEW h \in Btree, NEW s \in Object, NEW q \in Path \cup {Null},
         pc[h] = "closed", shared[s] = Null,
         q # Null => Matches(q) = {},
         shared' = [shared EXCEPT ![s] = NewShared(q)],
         pBt' = [pBt EXCEPT ![h] = s],
         pc' = [pc EXCEPT ![h] = "publishing"],
         isTemp' = [isTemp EXCEPT ![h] = (q = Null)],
         list' = IF q = Null THEN list ELSE list \cup {s},
         leaked' = leaked
  PROVE  shared' \in [Object -> SharedRec \cup {Null}] /\ OwnershipInv'
<1>T. BtSharedTypeOK /\ OwnershipInv
  BY DEF Inv
<1> USE <1>T
<1>1. /\ NewShared(q) \in SharedRec /\ NewShared(q) # Null
      /\ NewShared(q).path = q /\ NewShared(q).nRef = 1
  BY NullIsNoRecord DEF NewShared, SharedRec
<1>2. /\ shared'[s] = NewShared(q)
      /\ \A t \in Object \ {s} : shared'[t] = shared[t]
  BY DEF BtSharedTypeOK
<1>3. shared' \in [Object -> SharedRec \cup {Null}]
  BY <1>1 DEF BtSharedTypeOK
<1>4. \A g \in Btree : pBt[g] # s
  BY SharedAssumption DEF OwnershipInv
<1>5. /\ pc'[h] = "publishing" /\ pBt'[h] = s /\ (isTemp'[h] <=> q = Null)
      /\ \A g \in Btree \ {h} : /\ pc'[g] = pc[g] /\ pBt'[g] = pBt[g]
                                 /\ isTemp'[g] = isTemp[g]
  BY Zenon DEF BtSharedTypeOK
<1>6. \A g \in Btree : pc'[g] = "closed" => pBt'[g] = Null
  BY <1>5 DEF OwnershipInv
<1>7. ASSUME NEW g \in Btree, pc'[g] # "closed"
      PROVE  /\ pBt'[g] \in Object
             /\ shared'[pBt'[g]] # Null
             /\ isTemp'[g] <=> shared'[pBt'[g]].path = Null
             /\ isTemp'[g] => \A k \in Btree : pBt'[k] = pBt'[g] => k = g
  <2>1. CASE g = h
    BY <1>1, <1>2, <1>4, <1>5, <2>1
  <2>2. CASE g # h
    <3>1. /\ pBt[g] \in Object /\ shared[pBt[g]] # Null
          /\ isTemp[g] <=> shared[pBt[g]].path = Null
          /\ isTemp[g] => \A k \in Btree : pBt[k] = pBt[g] => k = g
      BY <1>5, <1>7, <2>2 DEF OwnershipInv
    <3> QED BY SMTT(30), <1>2, <1>4, <1>5, <2>2, <3>1
  <2> QED BY <2>1, <2>2
<1>8. ASSUME NEW t \in Object, shared'[t] # Null
      PROVE  Covers(shared'[t].nRef, Users(t)')
  <2>1. CASE t = s
    <3>1. Users(s)' = {h}
      BY <1>4, <1>5 DEF Users
    <3>2. shared'[t].nRef = 1 /\ Users(t)' = {h}
      BY <1>1, <1>2, <2>1, <3>1
    <3>3. Covers(1, {h})
      BY UserAlone, Zenon
    <3> QED BY <3>2, <3>3
  <2>2. CASE t # s
    <3>1. Users(t)' = Users(t)
      <4>1. pBt[h] = Null /\ t # Null
        BY SharedAssumption DEF OwnershipInv
      <4> QED BY <1>5, <2>2, <4>1 DEF Users
    <3>2. shared'[t] = shared[t]
      BY <1>2, <2>2
    <3> QED BY <1>8, <3>1, <3>2 DEF OwnershipInv
  <2> QED BY <2>1, <2>2
<1>9. \A t \in Object : t \in list'
             <=> (shared'[t] # Null /\ shared'[t].path # Null /\ t \notin leaked')
  BY <1>1, <1>2 DEF OwnershipInv
<1>10. OneEnvPerPath'
  <2>1. \A t \in Object \ leaked : (shared[t] # Null /\ shared[t].path = q) => q = Null
    BY DEF OwnershipInv, Matches
  <2>2. SUFFICES ASSUME NEW t \in Object \ leaked, NEW u \in Object \ leaked,
                        shared'[t] # Null, shared'[u] # Null, shared'[t].path # Null,
                        shared'[t].path = shared'[u].path
                 PROVE  t = u
    BY DEF OneEnvPerPath
  <2>3. CASE t = s \/ u = s
    BY SMTT(30), <1>1, <1>2, <2>1, <2>2, <2>3
  <2>4. CASE t # s /\ u # s
    BY <1>2, <2>2, <2>4 DEF OwnershipInv, OneEnvPerPath
  <2> QED BY <2>3, <2>4
<1>11. ASSUME NEW t \in Object, t \in leaked'
       PROVE  shared'[t] # Null /\ Users(t)' = {}
  <2>1. t # s /\ shared[t] # Null /\ Users(t) = {}
    BY <1>11 DEF OwnershipInv
  <2> QED BY <1>2, <1>5, <2>1 DEF Users
<1> QED BY <1>3, <1>6, <1>7, <1>8, <1>9, <1>10, <1>11 DEF OwnershipInv

\* A BtShared that a failed open leaves behind has no user and is on no list.
LEMMA LeakInv ==
  ASSUME Inv, NEW s \in Object, NEW q \in Path \cup {Null}, shared[s] = Null,
         shared' = [shared EXCEPT ![s] = NewShared(q)], leaked' = leaked \cup {s},
         UNCHANGED <<pc, pBt, isTemp, list>>
  PROVE  shared' \in [Object -> SharedRec \cup {Null}] /\ OwnershipInv'
<1>T. BtSharedTypeOK /\ OwnershipInv
  BY DEF Inv
<1> USE <1>T
<1>1. NewShared(q) \in SharedRec /\ NewShared(q) # Null /\ NewShared(q).nRef = 1
  BY NullIsNoRecord DEF NewShared, SharedRec
<1>2. /\ shared'[s] = NewShared(q)
      /\ \A t \in Object \ {s} : shared'[t] = shared[t]
  BY DEF BtSharedTypeOK
<1>3. shared' \in [Object -> SharedRec \cup {Null}]
  BY <1>1 DEF BtSharedTypeOK
<1>4. \A t \in Object : Users(t)' = Users(t)
  BY DEF Users
<1>5. Users(s) = {} /\ s \notin list
  BY SharedAssumption DEF OwnershipInv, Users
<1>6. ASSUME NEW g \in Btree, pc'[g] # "closed"
      PROVE  /\ pBt'[g] \in Object
             /\ shared'[pBt'[g]] # Null
             /\ isTemp'[g] <=> shared'[pBt'[g]].path = Null
             /\ isTemp'[g] => \A k \in Btree : pBt'[k] = pBt'[g] => k = g
  <2>1. pBt[g] \in Object \ {s}
    BY <1>6 DEF OwnershipInv
  <2> QED BY <1>2, <1>6, <2>1 DEF OwnershipInv
<1>7. ASSUME NEW t \in Object, shared'[t] # Null
      PROVE  Covers(shared'[t].nRef, Users(t)')
  <2>1. CASE t = s
    BY <1>1, <1>2, <1>4, <1>5, <2>1, UserAlone
  <2>2. CASE t # s
    BY <1>2, <1>4, <1>7, <2>2 DEF OwnershipInv
  <2> QED BY <2>1, <2>2
<1>8. \A t \in Object : t \in leaked' => shared'[t] # Null /\ Users(t)' = {}
  BY <1>1, <1>2, <1>4, <1>5 DEF OwnershipInv
<1>9. \A t \in Object : t \in list'
             <=> (shared'[t] # Null /\ shared'[t].path # Null /\ t \notin leaked')
  BY <1>2, <1>5 DEF OwnershipInv
<1>10. OneEnvPerPath'
  BY <1>2 DEF OwnershipInv, OneEnvPerPath
<1>11. \A g \in Btree : pc'[g] = "closed" => pBt'[g] = Null
  BY DEF OwnershipInv
<1> QED BY <1>3, <1>6, <1>7, <1>8, <1>9, <1>10, <1>11 DEF OwnershipInv

\* A step that leaves handles with their BtShared, and every BtShared with
\* its path, its references and its place on the list.
LEMMA FrameInv ==
  ASSUME OwnershipInv, pBt' = pBt, isTemp' = isTemp, list' = list,
         leaked' = leaked,
         \A h \in Btree : pc'[h] = "closed" <=> pc[h] = "closed",
         \A s \in Object : /\ shared'[s] # Null <=> shared[s] # Null
                           /\ shared[s] # Null => /\ shared'[s].path = shared[s].path
                                                  /\ shared'[s].nRef = shared[s].nRef
  PROVE  OwnershipInv'
<1>1. \A s \in Object : Users(s)' = Users(s)
  BY DEF Users
<1>2. OneEnvPerPath'
  BY SMTT(30) DEF OwnershipInv, OneEnvPerPath
<1> QED BY <1>1, <1>2 DEF OwnershipInv

\* The last user of a BtShared leaves and takes it along.
LEMMA FreeInv ==
  ASSUME Inv, NEW h \in Btree, pc[h] # "closed",
         \A g \in Btree : pBt[g] = pBt[h] => g = h,
         shared' = [shared EXCEPT ![pBt[h]] = Null],
         list' = list \ {pBt[h]}, leaked' = leaked, Forget(h)
  PROVE  OwnershipInv'
<1>T. BtSharedTypeOK /\ OwnershipInv
  BY DEF Inv
<1> USE <1>T
<1> DEFINE s == pBt[h]
<1>1. s \in Object /\ s # Null /\ shared[s] # Null
  BY SharedAssumption DEF OwnershipInv
<1>2. /\ pc'[h] = "closed" /\ pBt'[h] = Null
      /\ \A g \in Btree \ {h} : /\ pc'[g] = pc[g] /\ pBt'[g] = pBt[g]
                                 /\ isTemp'[g] = isTemp[g]
  BY DEF Forget, BtSharedTypeOK
<1>3. shared'[s] = Null /\ \A t \in Object \ {s} : shared'[t] = shared[t]
  BY <1>1 DEF BtSharedTypeOK
<1>4. \A g \in Btree : pc'[g] = "closed" => pBt'[g] = Null
  BY SMTT(30), <1>2 DEF OwnershipInv
<1>5. ASSUME NEW g \in Btree, pc'[g] # "closed"
      PROVE  /\ pBt'[g] \in Object
             /\ shared'[pBt'[g]] # Null
             /\ isTemp'[g] <=> shared'[pBt'[g]].path = Null
             /\ isTemp'[g] => \A k \in Btree : pBt'[k] = pBt'[g] => k = g
  <2>1. g # h /\ pc[g] # "closed" /\ pBt'[g] = pBt[g] /\ isTemp'[g] = isTemp[g]
    BY <1>2, <1>5
  <2>2. /\ pBt[g] \in Object /\ shared[pBt[g]] # Null
        /\ isTemp[g] <=> shared[pBt[g]].path = Null
        /\ isTemp[g] => \A k \in Btree : pBt[k] = pBt[g] => k = g
    BY SMTT(30), <2>1 DEF OwnershipInv
  <2>3. pBt[g] # s /\ pBt[g] # Null
    BY SMTT(30), <2>1, <2>2, SharedAssumption
  <2> QED BY SMTT(30), <1>2, <1>3, <2>1, <2>2, <2>3
<1>6. ASSUME NEW t \in Object, shared'[t] # Null
      PROVE  Covers(shared'[t].nRef, Users(t)')
  <2>1. t # s /\ t # Null
    BY SMTT(30), <1>3, <1>6, SharedAssumption
  <2>2. Users(t)' = Users(t)
    BY <1>2, <2>1 DEF Users
  <2>3. shared'[t] = shared[t]
    BY <1>3, <2>1
  <2> QED BY SMTT(30), <1>6, <2>2, <2>3 DEF OwnershipInv
<1>7. \A t \in Object : t \in list'
             <=> (shared'[t] # Null /\ shared'[t].path # Null /\ t \notin leaked')
  BY <1>3 DEF OwnershipInv
<1>8. OneEnvPerPath'
  BY SMTT(30), <1>3 DEF OwnershipInv, OneEnvPerPath
<1>9. ASSUME NEW t \in Object, t \in leaked'
      PROVE  shared'[t] # Null /\ Users(t)' = {}
  <2>1. h \in Users(s) /\ shared[t] # Null /\ Users(t) = {}
    BY <1>1, <1>9 DEF OwnershipInv, Users
  <2>2. t # s /\ t # Null
    BY <2>1, SharedAssumption
  <2> QED BY <1>2, <1>3, <2>1, <2>2 DEF Users
<1> QED BY SMTT(30), <1>4, <1>5, <1>6, <1>7, <1>8, <1>9 DEF OwnershipInv

\* One of several references is given up.
LEMMA CloseSharedInv ==
  ASSUME Inv, NEW h \in Btree, CloseShared(h)
  PROVE  Inv'
<1>T. BtSharedTypeOK /\ OwnershipInv
  BY DEF Inv
<1> USE <1>T
<1>0. PICK s : s = pBt[h]
  BY SMTT(30)
<1>1. /\ pc[h] # "closed" /\ ~ isTemp[h] /\ list' = list /\ leaked' = leaked
      /\ Forget(h) /\ shared[s].nRef > 1
  BY Zenon, <1>0 DEF CloseShared, CanClose
<1>2. s \in Object /\ s # Null /\ shared[s] # Null /\ shared[s] \in SharedRec
  BY <1>0, <1>1, SharedAssumption DEF OwnershipInv, BtSharedTypeOK
<1>3. /\ pc'[h] = "closed" /\ pBt'[h] = Null
      /\ \A g \in Btree \ {h} : /\ pc'[g] = pc[g] /\ pBt'[g] = pBt[g]
                                 /\ isTemp'[g] = isTemp[g]
  BY <1>1 DEF Forget, BtSharedTypeOK
<1>4. /\ shared' \in [Object -> SharedRec \cup {Null}]
      /\ pNext' \in [Btree -> Btree \cup {Null, Junk}]
      /\ walkedOff' \in BOOLEAN
      /\ shared'[s] # Null /\ shared'[s].path = shared[s].path
      /\ shared'[s].nRef >= shared[s].nRef - 1
      /\ \A t \in Object \ {s} : shared'[t] = shared[t]
  <2>1. /\ shared[s].nRef \in Nat /\ shared[s].nRef - 1 \in Nat
        /\ shared[s].trees \in Btree \cup {Null, Junk}
        /\ pNext[h] \in Btree \cup {Null, Junk}
    BY <1>1, <1>2 DEF SharedRec, BtSharedTypeOK
  <2>2. CASE h \in Chain(s)
    <3>1. PICK x \in Btree \cup {Null, Junk} :
            shared' = [shared EXCEPT ![s] = Linked(@, x, @.nRef - 1)]
      BY Zenon, <1>0, <2>1, <2>2 DEF CloseShared, Unlink
    <3>2. shared'[s] = Linked(shared[s], x, shared[s].nRef - 1)
      BY SMTT(30), <1>2, <3>1 DEF BtSharedTypeOK
    <3>3. /\ shared'[s] \in SharedRec /\ shared'[s] # Null
          /\ shared'[s].path = shared[s].path
          /\ shared'[s].nRef = shared[s].nRef - 1
      <4> DEFINE n == shared[s].nRef - 1
      <4>1. n \in Nat
        BY SMTT(30), <2>1
      <4> HIDE DEF n
      <4>2. shared'[s] = Linked(shared[s], x, n)
        BY Zenon, <3>2 DEF n
      <4>3. /\ Linked(shared[s], x, n) \in SharedRec /\ Linked(shared[s], x, n) # Null
            /\ Linked(shared[s], x, n).path = shared[s].path
            /\ Linked(shared[s], x, n).nRef = n
        BY Zenon, <1>2, <4>1, SharedUpdate
      <4> QED BY Zenon, <4>2, <4>3 DEF n
    <3>4. \A t \in Object \ {s} : shared'[t] = shared[t]
      BY <3>1 DEF BtSharedTypeOK
    <3>5. shared' \in [Object -> SharedRec \cup {Null}]
      BY <3>1, <3>2, <3>3, <3>4, <1>2 DEF BtSharedTypeOK
    <3>6. pNext' \in [Btree -> Btree \cup {Null, Junk}] /\ walkedOff' = walkedOff
      BY <1>0, <2>1, <2>2 DEF CloseShared, Unlink, BtSharedTypeOK
    <3> QED BY SMTT(30), <2>1, <3>3, <3>4, <3>5, <3>6 DEF BtSharedTypeOK
  <2>3. CASE h \notin Chain(s)
    BY <1>0, <1>2, <2>1, <2>3 DEF CloseShared, BtSharedTypeOK
  <2> QED BY <2>2, <2>3
<1>5. BtSharedTypeOK'
  BY Zenon, <1>1, <1>4 DEF BtSharedTypeOK, Forget, Places
<1>6. \A g \in Btree : pc'[g] = "closed" => pBt'[g] = Null
  BY SMTT(30), <1>3 DEF OwnershipInv
<1>7. ASSUME NEW g \in Btree, pc'[g] # "closed"
      PROVE  /\ pBt'[g] \in Object
             /\ shared'[pBt'[g]] # Null
             /\ isTemp'[g] <=> shared'[pBt'[g]].path = Null
             /\ isTemp'[g] => \A k \in Btree : pBt'[k] = pBt'[g] => k = g
  <2>1. g # h /\ pc[g] # "closed" /\ pBt'[g] = pBt[g] /\ isTemp'[g] = isTemp[g]
    BY <1>3, <1>7
  <2>2. /\ pBt[g] \in Object /\ shared[pBt[g]] # Null
        /\ isTemp[g] <=> shared[pBt[g]].path = Null
        /\ isTemp[g] => \A k \in Btree : pBt[k] = pBt[g] => k = g
    BY <2>1 DEF OwnershipInv
  <2>3. pBt[g] # Null
    BY SMTT(30), <2>2, SharedAssumption
  <2> QED BY <1>3, <1>4, <2>1, <2>2, <2>3
<1>8. ASSUME NEW t \in Object, shared'[t] # Null
      PROVE  Covers(shared'[t].nRef, Users(t)')
  <2>1. Users(t) \subseteq Btree /\ t # Null
    BY SharedAssumption DEF Users
  <2>2. CASE t = s
    <3>1. Users(s)' = Users(s) \ {h} /\ h \in Users(s)
      BY <1>0, <1>2, <1>3 DEF Users
    <3>2. Covers(shared[s].nRef, Users(s)) /\ shared[s].nRef \in Nat
      BY <1>2 DEF OwnershipInv, SharedRec
    <3>3. shared'[s].nRef \in Nat
      BY <1>2, <1>4 DEF SharedRec
    <3>4. Covers(shared'[s].nRef, Users(s) \ {h})
      BY <1>4, <3>1, <3>2, <3>3, UsersDrop
    <3> QED BY <2>2, <3>1, <3>4
  <2>3. CASE t # s
    <3>1. Users(t)' = Users(t)
      BY <1>0, <1>3, <2>1, <2>3 DEF Users
    <3>2. shared'[t] = shared[t]
      BY <1>4, <2>3
    <3> QED BY <1>8, <3>1, <3>2 DEF OwnershipInv
  <2> QED BY <2>2, <2>3
<1>9. \A t \in Object : /\ shared'[t] # Null <=> shared[t] # Null
                        /\ shared[t] # Null => shared'[t].path = shared[t].path
  BY <1>2, <1>4
<1>10. \A t \in Object : t \in list'
              <=> (shared'[t] # Null /\ shared'[t].path # Null /\ t \notin leaked')
  BY SMTT(30), <1>1, <1>9 DEF OwnershipInv
<1>11. OneEnvPerPath'
  BY <1>1, <1>9 DEF OwnershipInv, OneEnvPerPath
<1>12. ASSUME NEW t \in Object, t \in leaked'
       PROVE  shared'[t] # Null /\ Users(t)' = {}
  <2>1. h \in Users(s) /\ shared[t] # Null /\ Users(t) = {} /\ t # Null
    BY <1>0, <1>1, <1>12, SharedAssumption DEF OwnershipInv, Users
  <2> QED BY <1>3, <1>9, <2>1 DEF Users
<1> QED BY Zenon, <1>5, <1>6, <1>7, <1>8, <1>10, <1>11, <1>12 DEF Inv, OwnershipInv

-----------------------------------------------------------------------------

\* Every step of every handle preserves the invariant.
LEMMA NextInv == Inv /\ [BtSharedNext]_bsVars => Inv'
<1> SUFFICES ASSUME Inv, [BtSharedNext]_bsVars PROVE Inv'
  OBVIOUS
<1>T. BtSharedTypeOK /\ OwnershipInv
  BY DEF Inv
<1> USE <1>T
<1>1. ASSUME NEW h \in Btree, NEW path \in Path, OpenHit(h, path)
      PROVE  Inv'
  BY <1>1, OpenHitInv
<1>2. ASSUME NEW h \in Btree, NEW path \in Path, OpenMiss(h, path)
      PROVE  Inv'
  <2>1. path # Null /\ pc[h] = "closed" /\ Matches(path) = {}
    BY <1>2, SharedAssumption DEF OpenMiss
  <2>2. PICK s \in Object :
          /\ shared[s] = Null
          /\ shared' = [shared EXCEPT ![s] = NewShared(path)]
          /\ list' = list \cup {s}
          /\ pBt' = [pBt EXCEPT ![h] = s]
    BY Zenon, <1>2 DEF OpenMiss
  <2>3. /\ pc' = [pc EXCEPT ![h] = "publishing"]
        /\ isTemp' = [isTemp EXCEPT ![h] = (path = Null)] /\ leaked' = leaked
    BY Zenon, <1>2, <2>1 DEF OpenMiss
  <2>4. shared' \in [Object -> SharedRec \cup {Null}] /\ OwnershipInv'
    BY Zenon, <2>1, <2>2, <2>3, FreshInv
  <2>5. BtSharedTypeOK'
    BY <1>2, <2>2, <2>4 DEF OpenMiss, BtSharedTypeOK, Places
  <2> QED BY SMTT(30), <2>4, <2>5 DEF Inv
<1>3. ASSUME NEW h \in Btree, NEW isFile \in BOOLEAN, NEW path \in Path,
             OpenFail(h, isFile, path)
      PROVE  Inv'
  <2>1. PICK s \in Object, q \in Path \cup {Null} :
          /\ shared[s] = Null
          /\ shared' = [shared EXCEPT ![s] = NewShared(q)]
          /\ leaked' = leaked \cup {s}
    BY Zenon, <1>3 DEF OpenFail
  <2>2. shared' \in [Object -> SharedRec \cup {Null}] /\ OwnershipInv'
    BY Zenon, <1>3, <2>1, LeakInv DEF OpenFail
  <2> QED BY <1>3, <2>1, <2>2 DEF OpenFail, BtSharedTypeOK, Inv
<1>4. ASSUME NEW h \in Btree, OpenTemp(h)
      PROVE  Inv'
  <2>1. PICK s \in Object :
          /\ shared[s] = Null
          /\ shared' = [shared EXCEPT ![s] = NewShared(Null)]
          /\ pBt' = [pBt EXCEPT ![h] = s]
    BY Zenon, <1>4 DEF OpenTemp
  <2>2. /\ pc[h] = "closed" /\ pc' = [pc EXCEPT ![h] = "publishing"]
        /\ isTemp' = [isTemp EXCEPT ![h] = (Null = Null)] /\ list' = list
        /\ leaked' = leaked
    BY Zenon, <1>4 DEF OpenTemp
  <2>3. shared' \in [Object -> SharedRec \cup {Null}] /\ OwnershipInv'
    BY Zenon, <2>1, <2>2, FreshInv
  <2>4. BtSharedTypeOK'
    BY <1>4, <2>1, <2>3 DEF OpenTemp, BtSharedTypeOK, Places
  <2> QED BY <2>3, <2>4 DEF Inv
<1>5. ASSUME NEW h \in Btree, OpenPublish(h)
      PROVE  Inv'
  <2>1. pBt[h] \in Object /\ shared[pBt[h]] # Null /\ shared[pBt[h]] \in SharedRec
    BY <1>5 DEF OpenPublish, OwnershipInv, BtSharedTypeOK
  <2>2. shared' = [shared EXCEPT ![pBt[h]] = [shared[pBt[h]] EXCEPT !.trees = h]]
    BY <1>5 DEF OpenPublish
  <2>3. /\ [shared[pBt[h]] EXCEPT !.trees = h] \in SharedRec
        /\ [shared[pBt[h]] EXCEPT !.trees = h].path = shared[pBt[h]].path
        /\ [shared[pBt[h]] EXCEPT !.trees = h].nRef = shared[pBt[h]].nRef
    BY <2>1 DEF SharedRec
  <2>4. /\ shared' \in [Object -> SharedRec \cup {Null}]
        /\ \A s \in Object : /\ shared'[s] # Null <=> shared[s] # Null
                             /\ shared[s] # Null => /\ shared'[s].path = shared[s].path
                                                    /\ shared'[s].nRef = shared[s].nRef
    BY <2>1, <2>2, <2>3, NullIsNoRecord DEF BtSharedTypeOK
  <2>5. BtSharedTypeOK'
    BY <1>5, <2>4 DEF OpenPublish, BtSharedTypeOK, Places
  <2>6. OwnershipInv'
    BY <1>5, <2>4, FrameInv DEF OpenPublish, BtSharedTypeOK
  <2> QED BY <2>5, <2>6 DEF Inv
<1>6. ASSUME NEW h \in Btree, SchemaGet(h)
      PROVE  Inv'
  <2>1. pBt[h] \in Object /\ shared[pBt[h]] # Null /\ shared[pBt[h]] \in SharedRec
    BY <1>6 DEF SchemaGet, OwnershipInv, BtSharedTypeOK
  <2>2. BtSharedTypeOK'
    BY <1>6, <2>1 DEF SchemaGet, BtSharedTypeOK, Places, SharedRec
  <2>3. OwnershipInv'
    BY <1>6, FrameInv DEF SchemaGet, BtSharedTypeOK
  <2> QED BY <2>2, <2>3 DEF Inv
<1>7. ASSUME NEW h \in Btree, SchemaTest(h)
      PROVE  Inv'
  <2>1. BtSharedTypeOK'
    BY <1>7 DEF SchemaTest, BtSharedTypeOK, Places
  <2>2. OwnershipInv'
    BY <1>7, FrameInv DEF SchemaTest, BtSharedTypeOK
  <2> QED BY <2>1, <2>2 DEF Inv
<1>8. ASSUME NEW h \in Btree, NEW nomem \in BOOLEAN, SchemaSet(h, nomem)
      PROVE  Inv'
  <2>1. pBt[h] \in Object /\ shared[pBt[h]] # Null /\ shared[pBt[h]] \in SharedRec
    BY <1>8 DEF SchemaSet, OwnershipInv, BtSharedTypeOK
  <2>2. PICK p \in Btree \cup {Null} :
          shared' = [shared EXCEPT ![pBt[h]] = [shared[pBt[h]] EXCEPT !.pSchema = p]]
    BY <1>8 DEF SchemaSet
  <2>3. /\ [shared[pBt[h]] EXCEPT !.pSchema = p] \in SharedRec
        /\ [shared[pBt[h]] EXCEPT !.pSchema = p].path = shared[pBt[h]].path
        /\ [shared[pBt[h]] EXCEPT !.pSchema = p].nRef = shared[pBt[h]].nRef
    BY <2>1 DEF SharedRec
  <2>4. /\ shared' \in [Object -> SharedRec \cup {Null}]
        /\ \A s \in Object : /\ shared'[s] # Null <=> shared[s] # Null
                             /\ shared[s] # Null => /\ shared'[s].path = shared[s].path
                                                    /\ shared'[s].nRef = shared[s].nRef
    BY <2>1, <2>2, <2>3, NullIsNoRecord DEF BtSharedTypeOK
  <2>5. BtSharedTypeOK'
    BY <1>8, <2>4 DEF SchemaSet, BtSharedTypeOK, Places
  <2>6. OwnershipInv'
    BY <1>8, <2>4, FrameInv DEF SchemaSet, BtSharedTypeOK
  <2> QED BY <2>5, <2>6 DEF Inv
<1>9. ASSUME NEW h \in Btree, CloseLast(h)
      PROVE  Inv'
  <2>1. pc[h] # "closed" /\ shared[pBt[h]].nRef = 1
    BY <1>9 DEF CloseLast, CanClose
  <2>2. \A g \in Btree : pBt[g] = pBt[h] => g = h
    <3>1. pBt[h] \in Object /\ shared[pBt[h]] # Null
      BY <2>1 DEF OwnershipInv
    <3>2. Covers(1, Users(pBt[h]))
      BY <2>1, <3>1 DEF OwnershipInv
    <3> QED BY <3>2, UserAlone DEF Users
  <2>3. OwnershipInv'
    BY Zenon, <1>9, <2>1, <2>2, FreeInv DEF CloseLast
  <2>4. BtSharedTypeOK'
    BY Zenon, <1>9 DEF CloseLast, Forget, BtSharedTypeOK, Places
  <2> QED BY <2>3, <2>4 DEF Inv
<1>10. ASSUME NEW h \in Btree, CloseShared(h)
       PROVE  Inv'
  BY <1>10, CloseSharedInv
<1>11. ASSUME NEW h \in Btree, CloseTemp(h)
       PROVE  Inv'
  <2>1. pc[h] # "closed" /\ isTemp[h]
    BY <1>11 DEF CloseTemp, CanClose
  <2>2. /\ \A g \in Btree : pBt[g] = pBt[h] => g = h
        /\ pBt[h] \notin list
    BY <2>1 DEF OwnershipInv
  <2>3. list' = list \ {pBt[h]}
    BY SMTT(30), <1>11, <2>2 DEF CloseTemp
  <2>4. OwnershipInv'
    BY Zenon, <1>11, <2>1, <2>2, <2>3, FreeInv DEF CloseTemp
  <2>5. BtSharedTypeOK'
    BY Zenon, <1>11 DEF CloseTemp, Forget, BtSharedTypeOK, Places
  <2> QED BY <2>4, <2>5 DEF Inv
<1>12. ASSUME NEW h \in Btree, SchemaReturn(h)
       PROVE  Inv'
  <2>1. pBt[h] \in Object /\ shared[pBt[h]] # Null /\ shared[pBt[h]] \in SharedRec
    BY <1>12 DEF SchemaReturn, OwnershipInv, BtSharedTypeOK
  <2>2. BtSharedTypeOK'
    BY <1>12, <2>1 DEF SchemaReturn, BtSharedTypeOK, Places, SharedRec
  <2>3. OwnershipInv'
    BY <1>12, FrameInv DEF SchemaReturn, BtSharedTypeOK
  <2> QED BY <2>2, <2>3 DEF Inv
<1>13. CASE UNCHANGED bsVars
  <2>1. OwnershipInv'
    BY <1>13, FrameInv DEF bsVars
  <2> QED BY <1>13, <2>1 DEF bsVars, BtSharedTypeOK, Inv
<1> QED BY <1>1, <1>2, <1>3, <1>4, <1>5, <1>6, <1>7, <1>8, <1>9, <1>10, <1>11,
           <1>12, <1>13 DEF BtSharedNext

\* The values of all variables keep their types, and handles, BtShareds and
\* list agree, in every behaviour of sqlite3BtreeOpen, Schema and Close.
THEOREM Ownership == BtSharedSpec => [](BtSharedTypeOK /\ OwnershipInv)
<1>1. BtSharedInit => Inv
  BY InitInv
<1>2. Inv /\ [BtSharedNext]_bsVars => Inv'
  BY NextInv
<1> QED BY <1>1, <1>2, PTL DEF BtSharedSpec, Inv

\* For any number of threads and handles, sqlite3BtreeClose never closes an
\* environment another handle uses, although the references are counted
\* twice and BtShared is published half initialised.
THEOREM EnvironmentsOutliveHandles == BtSharedSpec => []EnvOutlivesHandles
<1>1. BtSharedTypeOK /\ OwnershipInv => EnvOutlivesHandles
  BY DEF OwnershipInv, EnvOutlivesHandles
<1> QED BY <1>1, Ownership, PTL

\* Of the BtShareds a handle or sqlite3SharedCacheList leads to, no two have the
\* same path, whatever the interleaving of opens.
THEOREM OneEnvironmentPerPath == BtSharedSpec => []OneEnvPerPath
<1>1. BtSharedTypeOK /\ OwnershipInv => OneEnvPerPath
  BY DEF OwnershipInv
<1> QED BY <1>1, Ownership, PTL
=============================================================================
