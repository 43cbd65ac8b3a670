------------------------------ MODULE BtShared ------------------------------
(***************************************************************************)
(* Opening and closing database handles: sqlite3BtreeOpen,                 *)
(* sqlite3BtreeSchema and sqlite3BtreeClose of lmdb-backend/src/btree.c.   *)
(*                                                                         *)
(* Every handle (struct Btree) of a named file points to the one BtShared  *)
(* of that file, which owns the LMDB environment.  The BtShareds are       *)
(* linked on sqlite3SharedCacheList, and each one links its handles        *)
(* through BtShared.trees and Btree.pNext.  The static OPEN mutex          *)
(* protects the list, but not all of what is published on it: the miss     *)
(* path of sqlite3BtreeOpen sets BtShared.trees after it has released the  *)
(* mutex, and sqlite3BtreeSchema takes no mutex at all (the functions of   *)
(* btmutex.c are empty).                                                   *)
(*                                                                         *)
(* A step is one critical section of the OPEN mutex, or one access to      *)
(* BtShared outside it.                                                    *)
(***************************************************************************)
EXTENDS Naturals, FiniteSets

CONSTANTS Btree,    \* struct Btree, one per open call in progress or open
          Object,   \* the memory sqlite3_malloc can return for a BtShared
          Path,     \* full path names of database files
          Caller,   \* threads of the process
          CallerOf, \* the thread that uses each handle
          Null,     \* the null pointer
          Junk,     \* what an uninitialised pointer holds
          MallocFails, \* whether sqlite3_malloc may fail
          MaxRef    \* bound: no open beyond this nRef

ASSUME SharedAssumption ==
         /\ IsFiniteSet(Btree)
         /\ CallerOf \in [Btree -> Caller]
         /\ Null \notin Btree \cup Object \cup Path
         /\ Junk \notin Btree \cup {Null}
         /\ MallocFails \in BOOLEAN
         /\ MaxRef \in Nat

VARIABLES pc,       \* where each handle is in its life
          pBt,      \* Btree.pBt
          pNext,    \* Btree.pNext
          isTemp,   \* Btree.isTemp
          schema,   \* the Schema the handle's connection got from BtreeSchema
          shared,   \* the BtShared in each piece of memory, Null if free
          list,     \* sqlite3SharedCacheList, as a set: a search is by path
          leaked,   \* the BtShareds that failed opens have left behind
          walkedOff \* a list walk of Close went past the end of trees

bsVars == <<pc, pBt, pNext, isTemp, schema, shared, list, leaked, walkedOff>>

\* "publishing" is the point in sqlite3BtreeOpen after the mutex is released;
\* "schema_null" and "schema_set" are the points in sqlite3BtreeSchema after
\* pSchema was seen NULL and after it was assigned.
Places == {"closed", "publishing", "opened", "schema_null", "schema_set", "ready"}

SharedRec == [path    : Path \cup {Null},
              nRef    : Nat,
              trees   : Btree \cup {Null, Junk},
              pSchema : Btree \cup {Null}]

ASSUME NullIsNoRecord == Null \notin SharedRec

BtSharedTypeOK ==
  /\ pc \in [Btree -> Places]
  /\ pBt \in [Btree -> Object \cup {Null}]
  /\ pNext \in [Btree -> Btree \cup {Null, Junk}]
  /\ isTemp \in [Btree -> BOOLEAN]
  /\ schema \in [Btree -> Btree \cup {Null}]
  /\ shared \in [Object -> SharedRec \cup {Null}]
  /\ list \subseteq Object
  /\ leaked \subseteq Object
  /\ walkedOff \in BOOLEAN

BtSharedInit ==
  /\ pc = [h \in Btree |-> "closed"]
  /\ pBt = [h \in Btree |-> Null]
  /\ pNext = [h \in Btree |-> Null]
  /\ isTemp = [h \in Btree |-> FALSE]
  /\ schema = [h \in Btree |-> Null]
  /\ shared = [s \in Object |-> Null]
  /\ list = {}
  /\ leaked = {}
  /\ walkedOff = FALSE

-----------------------------------------------------------------------------

\* A thread runs one call at a time, and a walk past the end of a list ends
\* the process.
Idle(t) ==
  /\ ~ walkedOff
  /\ \A h \in Btree : CallerOf[h] = t => pc[h] \notin {"publishing", "schema_null", "schema_set"}

\* Mutant of Matches: entries whose handle list is not set yet are passed over.
MatchesPublished(path) == {s \in list : shared[s].path = path /\ shared[s].trees # Junk}

\* The entries of sqlite3SharedCacheList whose environment has this path.
Matches(path) == {s \in list : shared[s].path = path}

\* Mutant of NewShared: pSchema is not cleared.
NewSharedUncleared(path) == [path |-> path, nRef |-> 1, trees |-> Junk, pSchema |-> Junk]

\* A fresh BtShared.  trees is not assigned before the mutex is released.
NewShared(path) == [path |-> path, nRef |-> 1, trees |-> Junk, pSchema |-> Null]

\* The BtShared r with another list head and another reference count.
Linked(r, head, n) == [r EXCEPT !.trees = head, !.nRef = n]

\* Mutant of Retained: the new handle is not counted.
RetainedNot(n) == n

\* The path is on the list: the loop counts the new handle once, the branch
\* after the loop counts it again.
Retained(n) == n + 2

OpenHit(h, path) ==
  /\ pc[h] = "closed" /\ Idle(CallerOf[h])
  /\ \E s \in Matches(path) :
       /\ Retained(shared[s].nRef) <= MaxRef
       /\ pc' = [pc EXCEPT ![h] = "opened"]
       /\ pBt' = [pBt EXCEPT ![h] = s]
       /\ pNext' = [pNext EXCEPT ![h] = shared[s].trees]
       /\ shared' = [shared EXCEPT ![s] = Linked(@, h, Retained(@.nRef))]
  /\ isTemp' = [isTemp EXCEPT ![h] = FALSE]
  /\ UNCHANGED <<schema, list, leaked, walkedOff>>

\* The path is not on the list: create the environment, put the BtShared on
\* the list and release the mutex.
OpenMiss(h, path) ==
  /\ pc[h] = "closed" /\ Idle(CallerOf[h])
  /\ Matches(path) = {}
  /\ \E s \in Object :
       /\ shared[s] = Null
       /\ shared' = [shared EXCEPT ![s] = NewShared(path)]
       /\ list' = list \cup {s}
       /\ pBt' = [pBt EXCEPT ![h] = s]   \* the local pBt of sqlite3BtreeOpen
  /\ pc' = [pc EXCEPT ![h] = "publishing"]
  /\ isTemp' = [isTemp EXCEPT ![h] = FALSE]
  /\ UNCHANGED <<pNext, schema, leaked, walkedOff>>

\* The allocation of lockname fails after mdb_env_open: the BtShared stays
\* allocated and its environment open, and nothing refers to them.  isFile: the
\* database is not a temporary one.  The earlier error returns open no
\* environment.
OpenFail(h, isFile, path) ==
  /\ pc[h] = "closed" /\ Idle(CallerOf[h])
  /\ MallocFails
  /\ isFile => Matches(path) = {}
  /\ \E s \in Object :
       /\ shared[s] = Null
       /\ shared' = [shared EXCEPT ![s] = NewShared(IF isFile THEN path ELSE Null)]
       /\ leaked' = leaked \cup {s}
  /\ UNCHANGED <<pc, pBt, pNext, isTemp, schema, list, walkedOff>>

\* Mutant of OpenTemp: the BtShared goes on the list like one of a named file.
OpenTempListed(h) ==
  /\ pc[h] = "closed" /\ Idle(CallerOf[h])
  /\ \E s \in Object :
       /\ shared[s] = Null
       /\ shared' = [shared EXCEPT ![s] = NewShared(Null)]
       /\ list' = list \cup {s}
       /\ pBt' = [pBt EXCEPT ![h] = s]
  /\ pc' = [pc EXCEPT ![h] = "publishing"]
  /\ isTemp' = [isTemp EXCEPT ![h] = TRUE]
  /\ UNCHANGED <<pNext, schema, leaked, walkedOff>>

\* A temporary or in-memory database has a BtShared of its own, on no list.
OpenTemp(h) ==
  /\ pc[h] = "closed" /\ Idle(CallerOf[h])
  /\ \E s \in Object :
       /\ shared[s] = Null
       /\ shared' = [shared EXCEPT ![s] = NewShared(Null)]
       /\ pBt' = [pBt EXCEPT ![h] = s]
  /\ pc' = [pc EXCEPT ![h] = "publishing"]
  /\ isTemp' = [isTemp EXCEPT ![h] = TRUE]
  /\ UNCHANGED <<pNext, schema, list, leaked, walkedOff>>

\* The assignments after the mutex has been released.
OpenPublish(h) ==
  /\ pc[h] = "publishing" /\ ~ walkedOff
  /\ pc' = [pc EXCEPT ![h] = "opened"]
  /\ pNext' = [pNext EXCEPT ![h] = Null]
  /\ shared' = [shared EXCEPT ![pBt[h]].trees = h]
  /\ UNCHANGED <<pBt, isTemp, schema, list, leaked, walkedOff>>

-----------------------------------------------------------------------------

\* sqlite3BtreeSchema when the blob exists.
SchemaGet(h) ==
  /\ pc[h] = "opened" /\ Idle(CallerOf[h])
  /\ shared[pBt[h]].pSchema # Null
  /\ schema' = [schema EXCEPT ![h] = shared[pBt[h]].pSchema]
  /\ pc' = [pc EXCEPT ![h] = "ready"]
  /\ UNCHANGED <<pBt, pNext, isTemp, shared, list, leaked, walkedOff>>

\* sqlite3BtreeSchema when it does not: the test and the assignment are two
\* accesses, with an allocation in between and no mutex.
SchemaTest(h) ==
  /\ pc[h] = "opened" /\ Idle(CallerOf[h])
  /\ shared[pBt[h]].pSchema = Null
  /\ pc' = [pc EXCEPT ![h] = "schema_null"]
  /\ UNCHANGED <<pBt, pNext, isTemp, schema, shared, list, leaked, walkedOff>>

\* nomem: the allocation fails, and pSchema is assigned a null pointer.
SchemaSet(h, nomem) ==
  /\ pc[h] = "schema_null" /\ ~ walkedOff
  /\ nomem => MallocFails
  /\ shared' = [shared EXCEPT ![pBt[h]].pSchema = IF nomem THEN Null ELSE h]
  /\ pc' = [pc EXCEPT ![h] = "schema_set"]
  /\ UNCHANGED <<pBt, pNext, isTemp, schema, list, leaked, walkedOff>>

\* The return statement reads pSchema again.
SchemaReturn(h) ==
  /\ pc[h] = "schema_set" /\ ~ walkedOff
  /\ schema' = [schema EXCEPT ![h] = shared[pBt[h]].pSchema]
  /\ pc' = [pc EXCEPT ![h] = "ready"]
  /\ UNCHANGED <<pBt, pNext, isTemp, shared, list, leaked, walkedOff>>

-----------------------------------------------------------------------------

\* The handles that the walk from BtShared.trees through pNext meets.
Chain(s) ==
  LET Reach[n \in 0..Cardinality(Btree)] ==
        IF n = 0 THEN {shared[s].trees} \cap Btree
        ELSE Reach[n-1] \cup ({pNext[g] : g \in Reach[n-1]} \cap Btree)
  IN  Reach[Cardinality(Btree)]

\* Unlinking h from its list: the pointer that holds h gets h's pNext.
Unlink(h, s) ==
  IF shared[s].trees = h
    THEN /\ shared' = [shared EXCEPT ![s] = Linked(@, pNext[h], @.nRef - 1)]
         /\ pNext' = [pNext EXCEPT ![h] = Null]
    ELSE /\ shared' = [shared EXCEPT ![s] = Linked(@, @.trees, @.nRef - 1)]
         /\ pNext' = [g \in Btree |-> IF g = h THEN Null
                                       ELSE IF g \in Chain(s) /\ pNext[g] = h
                                         THEN pNext[h] ELSE pNext[g]]

\* The handle is freed.
Forget(h) ==
  /\ pc' = [pc EXCEPT ![h] = "closed"]
  /\ pBt' = [pBt EXCEPT ![h] = Null]
  /\ isTemp' = [isTemp EXCEPT ![h] = FALSE]
  /\ schema' = [schema EXCEPT ![h] = Null]

\* Handles are also closed without a call of sqlite3BtreeSchema: those of
\* ephemeral tables, and those of connections that could not be opened.
CanClose(h) == pc[h] \in {"opened", "ready"} /\ Idle(CallerOf[h])

\* nRef drops to zero: environment and BtShared go, and the list entry.
CloseLast(h) ==
  /\ CanClose(h) /\ ~ isTemp[h]
  /\ shared[pBt[h]].nRef = 1
  /\ shared' = [shared EXCEPT ![pBt[h]] = Null]
  /\ list' = list \ {pBt[h]}
  /\ pNext' = [pNext EXCEPT ![h] = Null]
  /\ Forget(h)
  /\ UNCHANGED <<leaked, walkedOff>>

\* Other references are left: walk trees to h and unlink it.  A walk that
\* does not meet h follows a null or uninitialised pointer.
CloseShared(h) ==
  /\ CanClose(h) /\ ~ isTemp[h]
  /\ shared[pBt[h]].nRef > 1
  /\ IF h \in Chain(pBt[h])
       THEN Unlink(h, pBt[h]) /\ UNCHANGED walkedOff
       ELSE /\ walkedOff' = TRUE
            /\ UNCHANGED <<shared, pNext>>
  /\ Forget(h)
  /\ UNCHANGED <<list, leaked>>

CloseTemp(h) ==
  /\ CanClose(h) /\ isTemp[h]
  /\ shared' = [shared EXCEPT ![pBt[h]] = Null]
  /\ pNext' = [pNext EXCEPT ![h] = Null]
  /\ Forget(h)
  /\ UNCHANGED <<list, leaked, walkedOff>>

BtSharedNext ==
  \E h \in Btree :
    \/ \E path \in Path :
         \/ OpenHit(h, path)
         \/ OpenMiss(h, path)
         \/ \E isFile \in BOOLEAN : OpenFail(h, isFile, path)
    \/ OpenTemp(h)
    \/ OpenPublish(h)
    \/ SchemaGet(h)
    \/ SchemaTest(h)
    \/ \E nomem \in BOOLEAN : SchemaSet(h, nomem)
    \/ SchemaReturn(h)
    \/ CloseLast(h)
    \/ CloseShared(h)
    \/ CloseTemp(h)

BtSharedSpec == BtSharedInit /\ [][BtSharedNext]_bsVars

-----------------------------------------------------------------------------

Users(s) == {h \in Btree : pBt[h] = s}

\* n references are enough for the users: each of them has one of its own.
Covers(n, users) ==
  \E ref \in [users -> 1..n] : \A g, h \in users : ref[g] = ref[h] => g = h

\* sqlite3BtreeClose never closes the environment, nor frees the BtShared,
\* that a handle in use still points to: whatever the order of opens and
\* closes in several threads, nRef covers every handle.
EnvOutlivesHandles ==
  \A h \in Btree : pc[h] # "closed" =>
    /\ shared[pBt[h]] # Null
    /\ Covers(shared[pBt[h]].nRef, Users(pBt[h]))

\* The search and the insertion of sqlite3BtreeOpen are one critical section:
\* of the BtShareds that a handle or sqlite3SharedCacheList still leads to, no
\* two have the same path.  What a failed open has left behind is outside this
\* promise: its environment stays open, and the next open of the path makes a
\* second one.
OneEnvPerPath ==
  \A s, t \in Object \ leaked :
    (shared[s] # Null /\ shared[t] # Null /\ shared[s].path # Null
       /\ shared[s].path = shared[t].path) => s = t

\* "Btree *trees; /* All Btree handles using this struct */" (btreeInt.h): a
\* handle that sqlite3BtreeOpen has returned is found by a walk of the list.
\* sqlite3BtreeClose and sqlite3BtreeSetCachedRowid rely on it.
TreesComplete ==
  \A h \in Btree : pc[h] \notin {"closed", "publishing"} => h \in Chain(pBt[h])

\* "For each subsequent call ... a pointer to the same blob of memory
\* returned" (sqlite3BtreeSchema): the connections of one BtShared have one
\* Schema.
SameSchema ==
  \A g, h \in Btree :
    (pc[g] = "ready" /\ pc[h] = "ready" /\ pBt[g] = pBt[h]) => schema[g] = schema[h]

\* What ties handles, BtShareds and the list together: a handle in use points
\* to a live BtShared, alone if the database is temporary; nRef covers the
\* users of a BtShared; exactly the BtShareds of named files are on
\* sqlite3SharedCacheList; those of failed opens are neither used nor on it.
\* EnvOutlivesHandles and OneEnvPerPath follow.
OwnershipInv ==
  /\ \A h \in Btree : pc[h] = "closed" => pBt[h] = Null
  /\ \A h \in Btree : pc[h] # "closed" =>
       /\ pBt[h] \in Object
       /\ shared[pBt[h]] # Null
       /\ isTemp[h] <=> shared[pBt[h]].path = Null
       /\ isTemp[h] => \A g \in Btree : pBt[g] = pBt[h] => g = h
  /\ \A s \in Object : s \in leaked => shared[s] # Null /\ Users(s) = {}
  /\ \A s \in Object : shared[s] # Null => Covers(shared[s].nRef, Users(s))
  /\ \A s \in Object :
       s \in list <=> (shared[s] # Null /\ shared[s].path # Null /\ s \notin leaked)
  /\ OneEnvPerPath
=============================================================================
