--------------------------- MODULE FactoryProofs ---------------------------
(***************************************************************************)
(* Proofs about MemoryStoreFactory, for any threads, paths, stores, views  *)
(* and roots.                                                              *)
(***************************************************************************)
EXTENDS MemoryStoreFactory, TLAPS

\* The points of createStore, those inside its critical section, and those at which it has a store.
CreatePoints == {"lock", "find", "insert", "root", "proxy"}
Inside       == {"find", "insert", "root", "proxy"}
Vending      == {"root", "proxy"}

CallType == [pc : CreatePoints \cup {"idle", "update"}, path : Path \cup {None},
             store : Store \cup {None}, view : View \cup {None}, root : Root, seen : SUBSET Root]

TypeOK ==
  /\ stores \in [Path -> Store \cup {None}]
  /\ mtx \in Thread \cup {None}
  /\ made \subseteq Store
  /\ storeRoot \in [Store -> Root]
  /\ storesMtx \in [Store -> Thread \cup {None}]
  /\ views \in [View -> [store : Store \cup {None}, root : Root, path : Path \cup {None}]]
  /\ factoryCall \in [Thread -> CallType]

\* No thread is inside without the mutex, so no two are.
MutexIsHeld == \A t \in Thread : factoryCall[t].pc \in Inside => mtx = t

\* The map holds stores that live, each under one path, and every store with a root of its own.
MapIsInjective ==
  /\ \A p \in Path : stores[p] # None => stores[p] \in made
  /\ \A p, q \in Path : stores[p] # None /\ stores[p] = stores[q] => p = q
  /\ \A s \in Store : storeRoot[s] # EmptyHash => \E p \in Path : stores[p] = s

\* A store between make_shared and the insertion is new, and its path has none yet.
NewStore(c) ==
  /\ c.store \in made /\ storeRoot[c.store] = EmptyHash
  /\ \A p \in Path : stores[p] # c.store
  /\ stores[c.path] = None

CallIsCurrent(c) ==
  /\ c.pc = "idle" => c = Idle
  /\ c.pc \in CreatePoints => c.path \in Path /\ c.view = None /\ RootOf(c.path) \in c.seen
  /\ c.pc = "find" => c.store = None
  /\ c.pc = "insert" => NewStore(c)
  /\ c.pc \in Vending => c.store \in Store /\ stores[c.path] = c.store
  /\ c.pc = "proxy" => c.root \in c.seen
  /\ c.pc = "update" =>
       /\ c.path = None
       /\ c.view \in View /\ views[c.view] # Closed /\ c.store = views[c.view].store

CallsAreCurrent == \A t \in Thread : CallIsCurrent(factoryCall[t])

ViewsAreMapped == \A v \in View : views[v] # Closed =>
  /\ views[v].path \in Path /\ views[v].store \in Store
  /\ stores[views[v].path] = views[v].store

FactoryInv == TypeOK /\ MutexIsHeld /\ MapIsInjective /\ CallsAreCurrent /\ ViewsAreMapped
-----------------------------------------------------------------------------
\* At the start no call is made and nothing is mapped.
LEMMA FactoryInit == Init => FactoryInv
<1> SUFFICES ASSUME Init PROVE FactoryInv
  OBVIOUS
<1> USE FactoryAssumption DEF Init, Idle, Closed
<1>1. TypeOK
  BY DEF TypeOK, CallType
<1>2. MutexIsHeld /\ MapIsInjective /\ ViewsAreMapped
  BY DEF MutexIsHeld, Inside, MapIsInjective, ViewsAreMapped
<1>3. CallsAreCurrent
  BY DEF CallsAreCurrent, CallIsCurrent, CreatePoints, Vending
<1> QED
  BY <1>1, <1>2, <1>3 DEF FactoryInv

\* A call moves on to a call.
LEMMA GotoTypes ==
  ASSUME NEW t \in Thread, factoryCall \in [Thread -> CallType],
         NEW pc \in CreatePoints, NEW s \in Store \cup {None}, NEW r \in Root, Goto(t, pc, s, r)
  PROVE  factoryCall' \in [Thread -> CallType]
<1>1. [factoryCall[t] EXCEPT !.pc = pc, !.store = s, !.root = r] \in CallType
  BY DEF CallType
<1> QED
  BY <1>1 DEF Goto

\* A step keeps the types.
LEMMA FactoryTypes ==
  ASSUME FactoryInv, Next
  PROVE  TypeOK'
<1> USE FactoryAssumption DEF FactoryInv, TypeOK
<1> Idle \in CallType
  BY DEF Idle, CallType
<1>1. ASSUME NEW v \in View, Close(v) PROVE TypeOK'
  BY <1>1 DEF Close, Closed
<1> SUFFICES ASSUME NEW t \in Thread,
       \/ Progress(t) \/ CreateThrows(t) \/ NewViewThrows(t)
       \/ \E p \in Path : CreateStore(t, p)
       \/ \E v \in View, r \in Root : Commit(t, v, r)
     PROVE TypeOK'
  BY <1>1 DEF Next
<1>2. CASE Enter(t)
  BY <1>2, GotoTypes DEF Enter, Lock, CreatePoints
<1>3. CASE Find(t)
  <2>1. factoryCall[t].path \in Path
    BY <1>3 DEF Find, CallsAreCurrent, CallIsCurrent, CreatePoints
  <2>2. stores[factoryCall[t].path] \in Store \cup {None}
    BY <2>1
  <2> QED
    BY <1>3, <2>2, GotoTypes DEF Find, CreatePoints
<1>4. CASE Insert(t)
  <2>1. factoryCall[t].store \in Store \cup {None}
    BY DEF CallType
  <2>2. stores' \in [Path -> Store \cup {None}]
    BY <1>4, <2>1 DEF Insert
  <2> QED
    BY <1>4, <2>1, <2>2, GotoTypes DEF Insert, CreatePoints
<1>5. CASE ReadRoot(t)
  <2>1. factoryCall[t].store \in Store
    BY <1>5 DEF ReadRoot, CallsAreCurrent, CallIsCurrent, Vending
  <2>2. storeRoot[factoryCall[t].store] \in Root
    BY <2>1
  <2> QED
    BY <1>5, <2>1, <2>2, GotoTypes DEF ReadRoot, StorageRoot, CreatePoints
<1>6. CASE Update(t)
  <2> DEFINE s == factoryCall[t].store
             v == factoryCall[t].view
             n == factoryCall[t].root
             r == IF storeRoot[s] = views[v].root THEN n ELSE storeRoot[s]
  <2>1. v \in View /\ s \in Store /\ n \in Root
    BY <1>6 DEF Update, CallsAreCurrent, CallIsCurrent, ViewsAreMapped, CallType
  <2>2. r \in Root
    BY <2>1
  <2> HIDE DEF s, v, n, r
  <2>3. storeRoot' \in [Store -> Root] /\ storesMtx' \in [Store -> Thread \cup {None}]
    BY <1>6, <2>1, <2>2 DEF Update, s, v, n, r
  <2>4. views' = [views EXCEPT ![v] = [@ EXCEPT !.root = n]]
    BY <1>6 DEF Update, v, n
  <2>5. views' \in [View -> [store : Store \cup {None}, root : Root, path : Path \cup {None}]]
    BY <2>1, <2>4
  <2>6. \A u \in Thread : [factoryCall[u] EXCEPT !.seen = @ \cup {r}] \in CallType
    BY <2>2 DEF CallType
  <2>7. factoryCall' \in [Thread -> CallType]
    BY <1>6, <2>6 DEF Update, s, v, n, r
  <2> QED
    BY <1>6, <2>3, <2>5, <2>7 DEF Update
<1>7. ASSUME NEW s \in Store, MakeShared(t, s) PROVE TypeOK'
  BY <1>7, GotoTypes DEF MakeShared, CreatePoints
<1>8. ASSUME NEW v \in View, MakeProxy(t, v) PROVE TypeOK'
  <2>1. views' \in [View -> [store : Store \cup {None}, root : Root, path : Path \cup {None}]]
    BY <1>8 DEF MakeProxy, CallType
  <2> QED
    BY <1>8, <2>1 DEF MakeProxy, Unlock
<1>9. CASE CreateThrows(t)
  BY <1>9 DEF CreateThrows, Throw, Unlock
<1>10. CASE NewViewThrows(t)
  BY <1>10 DEF NewViewThrows, Throw, Unlock
<1>11. ASSUME NEW p \in Path, CreateStore(t, p) PROVE TypeOK'
  <2>1. RootOf(p) \in Root
    BY DEF RootOf
  <2>2. [Idle EXCEPT !.pc = "lock", !.path = p, !.seen = {RootOf(p)}] \in CallType
    BY <2>1 DEF Idle, CallType, CreatePoints
  <2> QED
    BY <1>11, <2>2 DEF CreateStore
<1>12. ASSUME NEW v \in View, NEW r \in Root, Commit(t, v, r) PROVE TypeOK'
  <2>1. views[v].store \in Store
    BY <1>12 DEF Commit, Open, ViewsAreMapped
  <2>2. [Idle EXCEPT !.pc = "update", !.store = views[v].store, !.view = v, !.root = r] \in CallType
    BY <2>1 DEF Idle, CallType
  <2> QED
    BY <1>12, <2>1, <2>2 DEF Commit
<1> QED
  BY <1>2, <1>3, <1>4, <1>5, <1>6, <1>7, <1>8, <1>9, <1>10, <1>11, <1>12 DEF Progress

\* What a step of createStore does to the calls: its own moves on, the others stay.
LEMMA OwnCall ==
  ASSUME NEW t \in Thread, factoryCall \in [Thread -> CallType], NEW c,
         factoryCall' = [factoryCall EXCEPT ![t] = c]
  PROVE  factoryCall'[t] = c /\ \A u \in Thread \ {t} : factoryCall'[u] = factoryCall[u]
OBVIOUS

LEMMA GotoCall ==
  ASSUME NEW t \in Thread, factoryCall \in [Thread -> CallType], NEW pc, NEW s, NEW r, Goto(t, pc, s, r)
  PROVE  /\ factoryCall'[t].pc = pc /\ factoryCall'[t].store = s /\ factoryCall'[t].root = r
         /\ factoryCall'[t].path = factoryCall[t].path
         /\ factoryCall'[t].view = factoryCall[t].view
         /\ factoryCall'[t].seen = factoryCall[t].seen
         /\ \A u \in Thread \ {t} : factoryCall'[u] = factoryCall[u]
BY DEF Goto, CallType

\* The mutex admits one thread at a time.
LEMMA FactoryMutex ==
  ASSUME FactoryInv, Next
  PROVE  MutexIsHeld'
<1> USE FactoryAssumption DEF FactoryInv, MutexIsHeld, Inside
<1> factoryCall \in [Thread -> CallType] /\ Idle.pc = "idle"
  BY DEF TypeOK, Idle
<1>1. ASSUME NEW v \in View, Close(v) PROVE MutexIsHeld'
  BY <1>1 DEF Close
<1> SUFFICES ASSUME NEW t \in Thread,
       \/ Progress(t) \/ CreateThrows(t) \/ NewViewThrows(t)
       \/ \E p \in Path : CreateStore(t, p)
       \/ \E v \in View, r \in Root : Commit(t, v, r)
     PROVE MutexIsHeld'
  BY <1>1 DEF Next
<1>2. CASE Enter(t)
  BY <1>2, GotoCall DEF Enter, Lock
<1>3. CASE Find(t)
  BY <1>3, GotoCall DEF Find
<1>4. CASE Insert(t)
  BY <1>4, GotoCall DEF Insert
<1>5. CASE ReadRoot(t)
  BY <1>5, GotoCall DEF ReadRoot
<1>6. CASE Update(t)
  <2>1. \A u \in Thread : factoryCall'[u].pc \in {"idle", factoryCall[u].pc}
    BY <1>6 DEF Update, CallType
  <2> QED
    BY <1>6, <2>1 DEF Update
<1>7. ASSUME NEW s \in Store, MakeShared(t, s) PROVE MutexIsHeld'
  BY <1>7, GotoCall DEF MakeShared
<1>8. ASSUME NEW v \in View, MakeProxy(t, v) PROVE MutexIsHeld'
  BY <1>8, OwnCall DEF MakeProxy, Unlock
<1>9. CASE CreateThrows(t)
  BY <1>9, OwnCall DEF CreateThrows, Throw, Unlock
<1>10. CASE NewViewThrows(t)
  BY <1>10, OwnCall DEF NewViewThrows, Throw, Unlock
<1>11. ASSUME NEW p \in Path, CreateStore(t, p) PROVE MutexIsHeld'
  BY <1>11, OwnCall DEF CreateStore, Idle
<1>12. ASSUME NEW v \in View, NEW r \in Root, Commit(t, v, r) PROVE MutexIsHeld'
  BY <1>12, OwnCall, ZenonT(60) DEF Commit, Idle
<1> QED
  BY <1>2, <1>3, <1>4, <1>5, <1>6, <1>7, <1>8, <1>9, <1>10, <1>11, <1>12 DEF Progress

\* The map stays injective, and a committed store in it.
LEMMA FactoryMap ==
  ASSUME FactoryInv, Next
  PROVE  MapIsInjective'
<1> USE FactoryAssumption DEF FactoryInv, MapIsInjective, TypeOK
<1>1. ASSUME NEW v \in View, Close(v) PROVE MapIsInjective'
  BY <1>1 DEF Close
<1> SUFFICES ASSUME NEW t \in Thread,
       \/ Progress(t) \/ CreateThrows(t) \/ NewViewThrows(t)
       \/ \E p \in Path : CreateStore(t, p)
       \/ \E v \in View, r \in Root : Commit(t, v, r)
     PROVE MapIsInjective'
  BY <1>1 DEF Next
<1>2. CASE Enter(t) \/ Find(t) \/ ReadRoot(t) \/ NewViewThrows(t)
  BY <1>2 DEF Enter, Find, ReadRoot, NewViewThrows
<1>3. CASE Insert(t)
  <2>1. NewStore(factoryCall[t]) /\ factoryCall[t].path \in Path /\ factoryCall[t].store \in Store
    BY <1>3 DEF Insert, CallsAreCurrent, CallIsCurrent, CreatePoints, NewStore
  <2>2. /\ stores' = [stores EXCEPT ![factoryCall[t].path] = factoryCall[t].store]
        /\ made' = made /\ storeRoot' = storeRoot
    BY <1>3 DEF Insert
  <2> HIDE DEF TypeOK
  <2>3. stores \in [Path -> Store \cup {None}]
    BY DEF TypeOK
  <2> QED
    BY <2>1, <2>2, <2>3 DEF NewStore
<1>4. CASE Update(t)
  <2> DEFINE s == factoryCall[t].store
             v == factoryCall[t].view
  <2>1. v \in View /\ s \in Store /\ views[v].path \in Path /\ stores[views[v].path] = s
    BY <1>4 DEF Update, CallsAreCurrent, CallIsCurrent, ViewsAreMapped
  <2>2. \A q \in Store \ {s} : storeRoot'[q] = storeRoot[q]
    BY <1>4 DEF Update
  <2> QED
    BY <1>4, <2>1, <2>2 DEF Update
<1>5. ASSUME NEW s \in Store, MakeShared(t, s) PROVE MapIsInjective'
  BY <1>5 DEF MakeShared
<1>6. ASSUME NEW v \in View, MakeProxy(t, v) PROVE MapIsInjective'
  BY <1>6 DEF MakeProxy
<1>7. CASE CreateThrows(t)
  <2>1. made' = made \ {factoryCall[t].store} /\ stores' = stores /\ storeRoot' = storeRoot
    BY <1>7 DEF CreateThrows
  <2>2. \A p \in Path : stores[p] # None => stores[p] # factoryCall[t].store
    BY <1>7 DEF CreateThrows, CallsAreCurrent, CallIsCurrent, NewStore
  <2> QED
    BY <2>1, <2>2
<1>8. ASSUME NEW p \in Path, CreateStore(t, p) PROVE MapIsInjective'
  BY <1>8 DEF CreateStore
<1>9. ASSUME NEW v \in View, NEW r \in Root, Commit(t, v, r) PROVE MapIsInjective'
  BY <1>9 DEF Commit
<1> QED
  BY <1>2, <1>3, <1>4, <1>5, <1>6, <1>7, <1>8, <1>9 DEF Progress

\* A view stays a view of the store of its path.
LEMMA FactoryViews ==
  ASSUME FactoryInv, Next
  PROVE  ViewsAreMapped'
<1> USE FactoryAssumption DEF FactoryInv, ViewsAreMapped, TypeOK
<1>1. ASSUME NEW v \in View, Close(v) PROVE ViewsAreMapped'
  BY <1>1 DEF Close
<1> SUFFICES ASSUME NEW t \in Thread,
       \/ Progress(t) \/ CreateThrows(t) \/ NewViewThrows(t)
       \/ \E p \in Path : CreateStore(t, p)
       \/ \E v \in View, r \in Root : Commit(t, v, r)
     PROVE ViewsAreMapped'
  BY <1>1 DEF Next
<1>2. CASE Enter(t) \/ Find(t) \/ ReadRoot(t) \/ NewViewThrows(t) \/ CreateThrows(t)
  BY <1>2 DEF Enter, Find, ReadRoot, NewViewThrows, CreateThrows
<1>3. CASE Insert(t)
  <2>1. stores[factoryCall[t].path] = None
    BY <1>3 DEF Insert, CallsAreCurrent, CallIsCurrent, NewStore
  <2>2. \A p \in Path : stores[p] # None => stores'[p] = stores[p]
    BY <1>3, <2>1 DEF Insert
  <2> QED
    BY <1>3, <2>2 DEF Insert
<1>4. CASE Update(t)
  <2> DEFINE v == factoryCall[t].view
  <2>1. v \in View /\ views[v] # Closed
    BY <1>4 DEF Update, CallsAreCurrent, CallIsCurrent
  <2>2. \A w \in View : /\ views'[w].store = views[w].store /\ views'[w].path = views[w].path
                        /\ w # v => views'[w] = views[w]
    BY <1>4 DEF Update
  <2> QED
    BY <1>4, <2>1, <2>2 DEF Update
<1>5. ASSUME NEW s \in Store, MakeShared(t, s) PROVE ViewsAreMapped'
  BY <1>5 DEF MakeShared
<1>6. ASSUME NEW v \in View, MakeProxy(t, v) PROVE ViewsAreMapped'
  <2>1. /\ factoryCall[t].path \in Path /\ factoryCall[t].store \in Store
        /\ stores[factoryCall[t].path] = factoryCall[t].store
    BY <1>6 DEF MakeProxy, CallsAreCurrent, CallIsCurrent, CreatePoints, Vending
  <2>2. /\ views'[v].store = factoryCall[t].store /\ views'[v].path = factoryCall[t].path
        /\ \A w \in View \ {v} : views'[w] = views[w]
    BY <1>6 DEF MakeProxy
  <2> QED
    BY <1>6, <2>1, <2>2 DEF MakeProxy
<1>7. ASSUME NEW p \in Path, CreateStore(t, p) PROVE ViewsAreMapped'
  BY <1>7 DEF CreateStore
<1>8. ASSUME NEW v \in View, NEW r \in Root, Commit(t, v, r) PROVE ViewsAreMapped'
  BY <1>8 DEF Commit
<1> QED
  BY <1>2, <1>3, <1>4, <1>5, <1>6, <1>7, <1>8 DEF Progress

\* A call is left current by a step that changes neither it nor what it has seen.
LEMMA CallUndisturbed ==
  ASSUME NEW t \in Thread, CallIsCurrent(factoryCall[t]), factoryCall'[t] = factoryCall[t],
         UNCHANGED <<stores, storeRoot>>,
         factoryCall[t].pc = "insert" => factoryCall[t].store \in made',
         factoryCall[t].pc = "update" => views'[factoryCall[t].view] = views[factoryCall[t].view]
  PROVE  CallIsCurrent(factoryCall[t])'
BY DEF CallIsCurrent, RootOf, NewStore, Idle, Closed

\* A call that moves on inside createStore keeps its path, and the path the root it has seen.
LEMMA CallMovesOn ==
  ASSUME NEW t \in Thread, CallIsCurrent(factoryCall[t]), factoryCall[t].pc \in CreatePoints,
         factoryCall \in [Thread -> CallType],
         NEW pc, NEW s, NEW r, Goto(t, pc, s, r), UNCHANGED <<stores, storeRoot>>
  PROVE  /\ factoryCall'[t].path = factoryCall[t].path /\ factoryCall[t].path \in Path
         /\ factoryCall'[t].view = None
         /\ RootOf(factoryCall[t].path) \in factoryCall'[t].seen
         /\ RootOf(factoryCall[t].path)' \in factoryCall'[t].seen
<1>1. RootOf(factoryCall[t].path) \in factoryCall[t].seen
  BY DEF CallIsCurrent
<1>2. factoryCall'[t].path = factoryCall[t].path
  BY GotoCall
<1>3. RootOf(factoryCall[t].path)' = RootOf(factoryCall[t].path)
  BY <1>2 DEF RootOf
<1> QED
  BY <1>1, <1>2, <1>3, GotoCall DEF CallIsCurrent

\* Every call stays current: what it read under the mutexes is still so.
LEMMA FactoryCalls ==
  ASSUME FactoryInv, Next
  PROVE  CallsAreCurrent'
<1> USE FactoryAssumption DEF FactoryInv
<1> factoryCall \in [Thread -> CallType]
  BY DEF TypeOK
<1>1. ASSUME NEW v \in View, Close(v) PROVE CallsAreCurrent'
  <2> SUFFICES ASSUME NEW t \in Thread PROVE CallIsCurrent(factoryCall[t])'
    BY DEF CallsAreCurrent
  <2>1. factoryCall[t].view # v /\ \A w \in View \ {v} : views'[w] = views[w]
    BY <1>1 DEF Close, TypeOK
  <2> QED
    BY <1>1, <2>1, CallUndisturbed DEF Close, CallsAreCurrent, CallIsCurrent, NewStore
<1> SUFFICES ASSUME NEW t \in Thread,
       \/ Progress(t) \/ CreateThrows(t) \/ NewViewThrows(t)
       \/ \E p \in Path : CreateStore(t, p)
       \/ \E v \in View, r \in Root : Commit(t, v, r)
     PROVE CallsAreCurrent'
  BY <1>1 DEF Next
<1> SUFFICES ASSUME NEW u \in Thread PROVE CallIsCurrent(factoryCall[u])'
  BY DEF CallsAreCurrent
<1>0. CallIsCurrent(factoryCall[u]) /\ CallIsCurrent(factoryCall[t])
  BY DEF CallsAreCurrent
<1>a. factoryCall[u].pc = "insert" => factoryCall[u].store \in made
  BY <1>0 DEF CallIsCurrent, NewStore
<1>2. CASE Enter(t)
  <2>1. CASE u = t
    BY <1>0, <1>2, <2>1, GotoCall, CallMovesOn DEF Enter, CallIsCurrent, CreatePoints, Vending
  <2>2. CASE u # t
    <3>1. factoryCall'[u] = factoryCall[u]
      BY <1>2, <2>2, GotoCall DEF Enter
    <3>2. UNCHANGED <<stores, storeRoot, made, views>>
      BY <1>2 DEF Enter
    <3> QED
      BY <1>0, <1>a, <3>1, <3>2, CallUndisturbed
  <2> QED
    BY <2>1, <2>2
<1>3. CASE Find(t)
  <2>1. CASE u = t
    <3>1. stores[factoryCall[t].path] \in Store
      BY <1>0, <1>3 DEF Find, Known, TypeOK, CallIsCurrent, CreatePoints
    <3> QED
      BY <1>0, <1>3, <2>1, <3>1, GotoCall, CallMovesOn DEF Find, CallIsCurrent, CreatePoints, Vending
  <2>2. CASE u # t
    BY <1>0, <1>a, <1>3, <2>2, GotoCall, CallUndisturbed DEF Find
  <2> QED
    BY <2>1, <2>2
<1>4. CASE Insert(t)
  <2> DEFINE c == factoryCall[t]
  <2>1. c.path \in Path /\ NewStore(c) /\ c.store \in Store /\ c.view = None /\ EmptyHash \in c.seen
    BY <1>0, <1>4 DEF Insert, CallIsCurrent, CreatePoints, NewStore, TypeOK, RootOf
  <2>2. /\ stores'[c.path] = c.store
        /\ \A p \in Path \ {c.path} : stores'[p] = stores[p]
        /\ storeRoot' = storeRoot /\ views' = views /\ made' = made
    BY <1>4, <2>1 DEF Insert, TypeOK
  <2>3. CASE u = t
    BY <1>4, <2>1, <2>2, <2>3, GotoCall DEF Insert, CallIsCurrent, CreatePoints, Vending, RootOf, NewStore
  <2>4. CASE u # t
    <3>1. factoryCall'[u] = factoryCall[u] /\ factoryCall[u].pc \notin Inside
      BY <1>4, <2>4, GotoCall DEF Insert, MutexIsHeld, Inside
    <3>2. factoryCall[u].path \in Path => RootOf(factoryCall[u].path)' = RootOf(factoryCall[u].path)
      BY <2>1, <2>2, <3>1 DEF RootOf, NewStore
    <3> QED
      BY <1>0, <2>2, <3>1, <3>2 DEF CallIsCurrent, Inside, Vending, Idle, Closed
  <2> QED
    BY <2>3, <2>4
<1>5. CASE ReadRoot(t)
  <2>1. CASE u = t
    <3>1. /\ factoryCall[t].store \in Store /\ stores[factoryCall[t].path] = factoryCall[t].store
          /\ StorageRoot(factoryCall[t].store) = RootOf(factoryCall[t].path)
      BY <1>0, <1>5 DEF ReadRoot, StorageRoot, RootOf, CallIsCurrent, Vending
    <3> QED
      BY <1>0, <1>5, <2>1, <3>1, GotoCall, CallMovesOn DEF ReadRoot, CallIsCurrent, CreatePoints, Vending
  <2>2. CASE u # t
    BY <1>0, <1>a, <1>5, <2>2, GotoCall, CallUndisturbed DEF ReadRoot
  <2> QED
    BY <2>1, <2>2
<1>6. CASE Update(t)
  <2> DEFINE s == factoryCall[t].store
             v == factoryCall[t].view
             p == views[v].path
             r == IF storeRoot[s] = views[v].root THEN factoryCall[t].root ELSE storeRoot[s]
  <2>1. v \in View /\ s \in Store /\ p \in Path /\ stores[p] = s /\ views[v] # Closed
    BY <1>0, <1>6 DEF Update, CallIsCurrent, ViewsAreMapped
  <2>2. /\ storeRoot'[s] = r /\ \A q \in Store \ {s} : storeRoot'[q] = storeRoot[q]
        /\ stores' = stores /\ made' = made
    BY <1>6, <2>1 DEF Update, TypeOK
  <2>3. \A w \in View : /\ views'[w].store = views[w].store
                        /\ views[w] # Closed => views'[w] # Closed
    <3>1. \A w \in View : views'[w].store = views[w].store /\ (w # v => views'[w] = views[w])
      BY <1>6 DEF Update, TypeOK
    <3>2. views[v].store # None
      BY <2>1 DEF ViewsAreMapped
    <3> QED
      BY <3>1, <3>2 DEF Closed
  <2>4. CASE u = t
    BY <1>6, <2>4 DEF Update, CallIsCurrent, Idle, CreatePoints, Vending
  <2>5. CASE u # t
    <3> DEFINE c == factoryCall[u]
    <3>1. factoryCall'[u] = IF c.path = p THEN [c EXCEPT !.seen = @ \cup {r}] ELSE c
      BY <1>6, <2>5 DEF Update
    <3> HIDE DEF r
    <3>2. c \in CallType
      OBVIOUS
    <3>3. /\ factoryCall'[u].pc = c.pc /\ factoryCall'[u].path = c.path /\ factoryCall'[u].store = c.store
          /\ factoryCall'[u].view = c.view /\ factoryCall'[u].root = c.root
          /\ c.seen \subseteq factoryCall'[u].seen
          /\ c.path = p => r \in factoryCall'[u].seen
      BY <3>1, <3>2 DEF CallType
    <3>4. c.path \in Path => RootOf(c.path)' = IF c.path = p THEN r ELSE RootOf(c.path)
      BY <2>1, <2>2, <3>3 DEF RootOf, MapIsInjective, TypeOK
    <3>5. c.pc = "idle" => factoryCall'[u] = c
      BY <1>0, <2>1, <3>1 DEF CallIsCurrent, Idle
    <3>6. c.pc = "insert" => c.store # s /\ c.store \in Store
      BY <1>0, <2>1 DEF CallIsCurrent, NewStore, TypeOK
    <3>7. c.pc = "insert" => NewStore(factoryCall[u])'
      BY <1>0, <2>2, <3>3, <3>6 DEF CallIsCurrent, NewStore, CreatePoints
    <3>8. c.pc \in CreatePoints =>
            factoryCall'[u].path \in Path /\ RootOf(factoryCall[u].path)' \in factoryCall'[u].seen
      BY <1>0, <3>3, <3>4 DEF CallIsCurrent
    <3>9. c.pc = "proxy" => factoryCall'[u].root \in factoryCall'[u].seen
      BY <1>0, <3>3 DEF CallIsCurrent
    <3> QED
      BY <1>0, <2>2, <2>3, <3>3, <3>5, <3>7, <3>8, <3>9 DEF CallIsCurrent, CreatePoints, Vending
  <2> QED
    BY <2>4, <2>5
<1>7. ASSUME NEW s \in Store, MakeShared(t, s) PROVE CallIsCurrent(factoryCall[u])'
  <2>1. CASE u = t
    <3>1. \A p \in Path : stores[p] # s
      BY <1>7 DEF MakeShared, MapIsInjective
    <3>2. storeRoot[s] = EmptyHash
      BY <3>1 DEF MapIsInjective
    <3> QED
      BY <1>0, <1>7, <2>1, <3>1, <3>2, GotoCall, CallMovesOn
      DEF MakeShared, Known, NewStore, CallIsCurrent, CreatePoints, Vending
  <2>2. CASE u # t
    BY <1>0, <1>a, <1>7, <2>2, GotoCall, CallUndisturbed DEF MakeShared
  <2> QED
    BY <2>1, <2>2
<1>8. ASSUME NEW v \in View, MakeProxy(t, v) PROVE CallIsCurrent(factoryCall[u])'
  <2>1. CASE u = t
    BY <1>8, <2>1, OwnCall DEF MakeProxy, CallIsCurrent, Idle, CreatePoints, Vending
  <2>2. CASE u # t
    <3>1. factoryCall[u].pc = "update" => views'[factoryCall[u].view] = views[factoryCall[u].view]
      BY <1>0, <1>8 DEF MakeProxy, CallIsCurrent, Open, TypeOK
    <3> QED
      BY <1>0, <1>a, <1>8, <2>2, <3>1, OwnCall, CallUndisturbed DEF MakeProxy
  <2> QED
    BY <2>1, <2>2
<1>9. CASE CreateThrows(t)
  <2>1. CASE u = t
    BY <1>9, <2>1, OwnCall DEF CreateThrows, Throw, CallIsCurrent, Idle, CreatePoints, Vending
  <2>2. CASE u # t
    <3>1. factoryCall[u].pc # "insert"
      BY <1>9, <2>2 DEF CreateThrows, MutexIsHeld, Inside
    <3> QED
      BY <1>0, <1>9, <2>2, <3>1, OwnCall, CallUndisturbed DEF CreateThrows, Throw
  <2> QED
    BY <2>1, <2>2
<1>10. CASE NewViewThrows(t)
  <2>1. CASE u = t
    BY <1>10, <2>1, OwnCall DEF NewViewThrows, Throw, CallIsCurrent, Idle, CreatePoints, Vending
  <2>2. CASE u # t
    BY <1>0, <1>a, <1>10, <2>2, OwnCall, CallUndisturbed DEF NewViewThrows, Throw
  <2> QED
    BY <2>1, <2>2
<1>11. ASSUME NEW p \in Path, CreateStore(t, p) PROVE CallIsCurrent(factoryCall[u])'
  <2>1. CASE u = t
    BY <1>11, <2>1, OwnCall DEF CreateStore, CallIsCurrent, Idle, CreatePoints, Vending, RootOf
  <2>2. CASE u # t
    BY <1>0, <1>a, <1>11, <2>2, OwnCall, CallUndisturbed DEF CreateStore
  <2> QED
    BY <2>1, <2>2
<1>12. ASSUME NEW v \in View, NEW r \in Root, Commit(t, v, r) PROVE CallIsCurrent(factoryCall[u])'
  <2>1. CASE u = t
    <3>1. factoryCall'[t] = [Idle EXCEPT !.pc = "update", !.store = views[v].store, !.view = v, !.root = r]
      BY <1>12 DEF Commit
    <3>2. /\ factoryCall'[t].pc = "update" /\ factoryCall'[t].path = None
          /\ factoryCall'[t].store = views[v].store /\ factoryCall'[t].view = v
      BY <3>1 DEF Idle
    <3>3. views' = views /\ views[v] # Closed
      BY <1>12 DEF Commit, Open
    <3> QED
      BY <2>1, <3>2, <3>3 DEF CallIsCurrent, CreatePoints, Vending, Closed
  <2>2. CASE u # t
    BY <1>0, <1>a, <1>12, <2>2, OwnCall, CallUndisturbed DEF Commit
  <2> QED
    BY <2>1, <2>2
<1> QED
  BY <1>2, <1>3, <1>4, <1>5, <1>6, <1>7, <1>8, <1>9, <1>10, <1>11, <1>12 DEF Progress

-----------------------------------------------------------------------------
(***************************************************************************)
(* The invariant holds in every state: under the factory's mutex the map   *)
(* stays injective, and what a call has read stays true to its end.        *)
(***************************************************************************)
THEOREM FactoryIsConsistent == Spec => []FactoryInv
<1>1. FactoryInv /\ [Next]_vars => FactoryInv'
  <2> SUFFICES ASSUME FactoryInv, [Next]_vars PROVE FactoryInv'
    OBVIOUS
  <2>1. CASE Next
    BY <2>1, FactoryTypes, FactoryMutex, FactoryMap, FactoryCalls, FactoryViews DEF FactoryInv
  <2>2. CASE UNCHANGED vars
    <3>1. TypeOK' /\ MutexIsHeld'
      BY <2>2 DEF vars, FactoryInv, TypeOK, MutexIsHeld
    <3>2. MapIsInjective' /\ ViewsAreMapped'
      BY <2>2 DEF vars, FactoryInv, MapIsInjective, ViewsAreMapped, Closed
    <3>3. CallsAreCurrent'
      BY <2>2 DEF vars, FactoryInv, CallsAreCurrent, CallIsCurrent, NewStore, RootOf, Closed, Idle
    <3> QED
      BY <3>1, <3>2, <3>3 DEF FactoryInv
  <2> QED
    BY <2>1, <2>2
<1> QED
  BY <1>1, FactoryInit, PTL DEF Spec

(***************************************************************************)
(* Views of one path are views of one store and those of two of two, and   *)
(* a store that has been committed to stays the store of its path.         *)
(***************************************************************************)
THEOREM PathsHaveTheirStores == Spec => []EachPathHasItsStore
<1>1. FactoryInv => EachPathHasItsStore
  <2> SUFFICES ASSUME FactoryInv PROVE EachPathHasItsStore
    OBVIOUS
  <2> USE FactoryAssumption DEF FactoryInv, ViewsAreMapped, MapIsInjective
  <2>1. OneStorePerPath
    BY DEF OneStorePerPath, Open
  <2>2. NoStoreIsLost
    BY DEF NoStoreIsLost, Open
  <2> QED
    BY <2>1, <2>2 DEF EachPathHasItsStore
<1> QED
  BY <1>1, FactoryIsConsistent, PTL

(***************************************************************************)
(* A new view starts from a root its path has had since createStore was    *)
(* called, although commits go on while the call is waiting for a mutex.   *)
(***************************************************************************)
THEOREM ViewsStartCurrent == Spec => []NewViewIsCurrent
<1>1. FactoryInv => NewViewIsCurrent
  BY DEF FactoryInv, CallsAreCurrent, CallIsCurrent, NewViewIsCurrent
<1> QED
  BY <1>1, FactoryIsConsistent, PTL

(***************************************************************************)
(* An entry of the map is never replaced or removed, and a store, once in  *)
(* the map, is never destroyed: a view's reference to it stays valid.      *)
(***************************************************************************)
StoresAreForEver == [][\A p \in Path : stores[p] # None => stores'[p] = stores[p] /\ stores[p] \in made']_vars

THEOREM MappedStoresStay == Spec => StoresAreForEver
<1>1. FactoryInv /\ [Next]_vars =>
        [\A p \in Path : stores[p] # None => stores'[p] = stores[p] /\ stores[p] \in made']_vars
  <2> SUFFICES ASSUME FactoryInv, Next, NEW p \in Path, stores[p] # None
               PROVE  stores'[p] = stores[p] /\ stores[p] \in made'
    OBVIOUS
  <2>1. MapIsInjective'
    BY FactoryMap
  <2>2. stores'[p] = stores[p]
    <3>1. ASSUME NEW t \in Thread, Insert(t) PROVE stores'[p] = stores[p]
      <4>1. stores[factoryCall[t].path] = None
        BY <3>1 DEF FactoryInv, Insert, CallsAreCurrent, CallIsCurrent, NewStore
      <4> QED
        BY <3>1, <4>1 DEF Insert, FactoryInv, TypeOK
    <3>2. CASE stores' = stores
      BY <3>2
    <3>3. stores' = stores \/ \E t \in Thread : Insert(t)
      BY DEF Next, Progress, Close, CreateThrows, NewViewThrows, CreateStore, Commit, Enter, Find, ReadRoot,
             Update, MakeShared, MakeProxy
    <3> QED
      BY <3>1, <3>2, <3>3
  <2> QED
    BY <2>1, <2>2 DEF MapIsInjective
<1> QED
  BY <1>1, FactoryIsConsistent, PTL DEF Spec, StoresAreForEver
=============================================================================
