------------------------- MODULE MemoryStoreFactory -------------------------
(***************************************************************************)
(* The factory of chunk stores: one MemoryStore for each path, made when   *)
(* the path is first asked for, behind the factory's mutex, under which    *)
(* the new view takes the store's own mutex to read its root.  Meanwhile   *)
(* the views vended before commit, which takes the mutex of their store.   *)
(* The factory outlives its views: they refer to stores it owns.           *)
(***************************************************************************)
EXTENDS Naturals, FiniteSets

CONSTANTS
  Thread,    \* the threads that create stores and commit
  Path,      \* the names of stores
  Store,     \* places for MemoryStore objects
  View,      \* places for MemoryStoreView objects
  Root,      \* root hashes
  EmptyHash, \* the root of a new store
  None,      \* no store, view, path or owner
  AllocFails \* whether an allocation may throw

ASSUME FactoryAssumption ==
  /\ EmptyHash \in Root
  /\ None \notin Thread \cup Path \cup Store \cup View
  /\ AllocFails \in BOOLEAN

VARIABLES
  stores,     \* MemoryStoreFactory::stores
  mtx,        \* the owner of MemoryStoreFactory::mtx
  made,       \* the stores that have been constructed
  storeRoot,  \* MemoryStore::rootHash of each store
  storesMtx,  \* the owner of MemoryStore::mtx of each store
  views,      \* the store, the root and (history) the path of each view that is open
  factoryCall \* the call each thread is in, and (history) the roots the path has had since it began

vars == <<stores, mtx, made, storeRoot, storesMtx, views, factoryCall>>

Closed == [store |-> None, root |-> EmptyHash, path |-> None]
Idle   == [pc |-> "idle", path |-> None, store |-> None, view |-> None, root |-> EmptyHash, seen |-> {}]
Open   == {v \in View : views[v] # Closed}

Init ==
  /\ stores = [p \in Path |-> None]
  /\ mtx = None
  /\ made = {}
  /\ storeRoot = [s \in Store |-> EmptyHash]
  /\ storesMtx = [s \in Store |-> None]
  /\ views = [v \in View |-> Closed]
  /\ factoryCall = [t \in Thread |-> Idle]

RootOf(p) == IF stores[p] = None THEN EmptyHash ELSE storeRoot[stores[p]]
Goto(t, pc, store, root) ==
  factoryCall' = [factoryCall EXCEPT ![t] = [@ EXCEPT !.pc = pc, !.store = store, !.root = root]]
-----------------------------------------------------------------------------
Creating == {t \in Thread : factoryCall[t].path # None}

\* Bound: there is a place for the view.
CreateStore(t, p) ==
  /\ factoryCall[t] = Idle
  /\ Cardinality(Creating) < Cardinality(View \ Open)
  /\ factoryCall' = [factoryCall EXCEPT ![t] = [Idle EXCEPT !.pc = "lock", !.path = p, !.seen = {RootOf(p)}]]
  /\ UNCHANGED <<stores, mtx, made, storeRoot, storesMtx, views>>

\* lock_guard lock(mtx).  Mutation: it is not taken.
NoLock(t) == mtx' = mtx
Lock(t) == mtx = None /\ mtx' = t
Enter(t) ==
  /\ factoryCall[t].pc = "lock"
  /\ Lock(t)
  /\ Goto(t, "find", None, EmptyHash)
  /\ UNCHANGED <<stores, made, storeRoot, storesMtx, views>>

\* The guard goes out of scope, on return or on unwinding.  Mutation: only on return.
StaysLocked == mtx' = mtx
Unlock == mtx' = None
Throw(t) == AllocFails /\ Unlock /\ factoryCall' = [factoryCall EXCEPT ![t] = Idle]

\* Mutation: every call makes a store.
NeverKnown(p) == FALSE
Known(p) == stores[p] # None

Find(t) ==
  /\ factoryCall[t].pc = "find"
  /\ Known(factoryCall[t].path)
  /\ Goto(t, "root", stores[factoryCall[t].path], EmptyHash)
  /\ UNCHANGED <<stores, mtx, made, storeRoot, storesMtx, views>>

MakeShared(t, s) ==
  /\ factoryCall[t].pc = "find"
  /\ ~Known(factoryCall[t].path)
  /\ s \notin made
  /\ made' = made \cup {s}
  /\ Goto(t, "insert", s, EmptyHash)
  /\ UNCHANGED <<stores, mtx, storeRoot, storesMtx, views>>

Insert(t) ==
  /\ factoryCall[t].pc = "insert"
  /\ stores' = [stores EXCEPT ![factoryCall[t].path] = factoryCall[t].store]
  /\ Goto(t, "root", factoryCall[t].store, EmptyHash)
  /\ UNCHANGED <<mtx, made, storeRoot, storesMtx, views>>

\* make_shared throws, or the map's insertion, which frees the store just made.
CreateThrows(t) ==
  /\ (factoryCall[t].pc = "find" /\ ~Known(factoryCall[t].path)) \/ factoryCall[t].pc = "insert"
  /\ made' = made \ {factoryCall[t].store}
  /\ Throw(t)
  /\ UNCHANGED <<stores, storeRoot, storesMtx, views>>

\* newView: the view's constructor reads the store's root ...
\* Mutation: the root of a new store, whatever the store.
StorageRootEmpty(s) == EmptyHash
StorageRoot(s) == storeRoot[s]
ReadRoot(t) ==
  /\ factoryCall[t].pc = "root"
  /\ storesMtx[factoryCall[t].store] = None
  /\ Goto(t, "proxy", factoryCall[t].store, StorageRoot(factoryCall[t].store))
  /\ UNCHANGED <<stores, mtx, made, storeRoot, storesMtx, views>>

\* ... within make_proxy, which may have no memory for the view.
MakeProxy(t, v) ==
  /\ factoryCall[t].pc = "proxy"
  /\ v \notin Open
  /\ LET c == factoryCall[t]
     IN views' = [views EXCEPT ![v] = [store |-> c.store, root |-> c.root, path |-> c.path]]
  /\ Unlock
  /\ factoryCall' = [factoryCall EXCEPT ![t] = Idle]
  /\ UNCHANGED <<stores, made, storeRoot, storesMtx>>
NewViewThrows(t) ==
  /\ factoryCall[t].pc = "root"
  /\ Throw(t)
  /\ UNCHANGED <<stores, made, storeRoot, storesMtx, views>>
-----------------------------------------------------------------------------
\* A commit of a view, as the store sees it: it is locked, compared, and its root set.
\* The view's own mutex keeps a second call of the view out.
Commit(t, v, r) ==
  LET s == views[v].store IN
  /\ factoryCall[t] = Idle
  /\ v \in Open /\ \A u \in Thread : factoryCall[u].view # v
  /\ storesMtx[s] = None
  /\ storesMtx' = [storesMtx EXCEPT ![s] = t]
  /\ factoryCall' = [factoryCall EXCEPT ![t] = [Idle EXCEPT !.pc = "update", !.store = s, !.view = v, !.root = r]]
  /\ UNCHANGED <<stores, mtx, made, storeRoot, views>>

Update(t) ==
  LET s == factoryCall[t].store v == factoryCall[t].view
      r == IF storeRoot[s] = views[v].root THEN factoryCall[t].root ELSE storeRoot[s]
  IN
  /\ factoryCall[t].pc = "update"
  /\ storeRoot' = [storeRoot EXCEPT ![s] = r]
  /\ views' = [views EXCEPT ![v].root = factoryCall[t].root]
  /\ storesMtx' = [storesMtx EXCEPT ![s] = None]
  /\ factoryCall' = [u \in Thread |->
       IF u = t THEN Idle
       ELSE IF factoryCall[u].path = views[v].path
            THEN [factoryCall[u] EXCEPT !.seen = @ \cup {r}]
            ELSE factoryCall[u]]
  /\ UNCHANGED <<stores, mtx, made>>

Close(v) ==
  /\ v \in Open /\ \A t \in Thread : factoryCall[t].view # v
  /\ views' = [views EXCEPT ![v] = Closed]
  /\ UNCHANGED <<stores, mtx, made, storeRoot, storesMtx, factoryCall>>

Progress(t) ==
  \/ Enter(t) \/ Find(t) \/ Insert(t) \/ ReadRoot(t) \/ Update(t)
  \/ \E s \in Store : MakeShared(t, s)
  \/ \E v \in View : MakeProxy(t, v)

Next ==
  \/ \E v \in View : Close(v)
  \/ \E t \in Thread :
       \/ Progress(t) \/ CreateThrows(t) \/ NewViewThrows(t)
       \/ \E p \in Path : CreateStore(t, p)
       \/ \E v \in View, r \in Root : Commit(t, v, r)

Spec == Init /\ [][Next]_vars

\* A call in progress runs on; no mutex is assumed to be fair.
FairSpec == Spec /\ \A t \in Thread : WF_vars(Progress(t))
-----------------------------------------------------------------------------
(***************************************************************************)
(* Views of one path are views of one store, and views of two paths of     *)
(* two, however many threads ask for the path at once (line 146).          *)
(***************************************************************************)
OneStorePerPath == \A v, w \in Open : views[v].path = views[w].path <=> views[v].store = views[w].store

(***************************************************************************)
(* A new view starts from a root its path has had since createStore was    *)
(* called, so it sees every commit to the path that came before.           *)
(***************************************************************************)
NewViewIsCurrent == \A t \in Thread : factoryCall[t].pc = "proxy" => factoryCall[t].root \in factoryCall[t].seen

(***************************************************************************)
(* A store that has been committed to is the store of its path, whichever  *)
(* allocation of a createStore failed: its chunks can be reached by the    *)
(* next view of the path, and its views refer to a living store.           *)
(***************************************************************************)
NoStoreIsLost ==
  /\ \A s \in Store : storeRoot[s] # EmptyHash => \E p \in Path : stores[p] = s
  /\ \A v \in Open : stores[views[v].path] = views[v].store
  /\ \A p \in Path : stores[p] # None => stores[p] \in made

\* Both: a path has one store, and keeps it.
EachPathHasItsStore == OneStorePerPath /\ NoStoreIsLost

(***************************************************************************)
(* Once no new call is made, every createStore and commit returns or       *)
(* throws: waiting for the mutex of a store while holding the factory's    *)
(* closes no circle, and no exception leaves a mutex locked.               *)
(***************************************************************************)
NewCall(t) == (\E p \in Path : CreateStore(t, p)) \/ \E v \in View, r \in Root : Commit(t, v, r)
CreateReturns ==
  (<>[][\A t \in Thread : ~NewCall(t)]_vars) => <>[](\A t \in Thread : factoryCall[t] = Idle)
=============================================================================
