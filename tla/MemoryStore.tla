---------------------------- MODULE MemoryStore ----------------------------
(***************************************************************************)
(* The in-memory chunk store: one MemoryStore (the "persistent" root and   *)
(* map of chunks, behind a mutex) and the MemoryStoreViews opened on it    *)
(* (each with the root it believes in and its pending chunks, behind a     *)
(* mutex of its own), called by several threads.  A view method that goes  *)
(* on to the store keeps the view's mutex until it returns, so its steps   *)
(* at the store are actions of their own, in which other views take part.  *)
(***************************************************************************)

CONSTANTS
  Thread,      \* the threads that call the views
  View,        \* the MemoryStoreView objects
  Hash,        \* addresses, of chunks and of roots
  Chunk,       \* chunks
  HashOf,      \* Chunk::hash(): the address a chunk carries
  EmptyHash,   \* the default constructed Hash, the first root
  NoChunk,     \* std::nullopt, and the value of a map at an absent key
  None,        \* the owner of an unlocked mutex, the view of an idle thread
  Calls,       \* the view methods the threads call
  Requests,    \* the sets of hashes they read
  Roots,       \* the new roots they commit
  AllocFails   \* whether an insertion into the store's map may throw

Methods == {"put", "rebase", "read", "commit", "absent"}

ASSUME MemoryStoreAssumption ==
  /\ HashOf \in [Chunk -> Hash]
  /\ EmptyHash \in Hash
  /\ NoChunk \notin Chunk
  /\ None \notin Thread \cup View
  /\ Calls \subseteq Methods
  /\ Requests \subseteq SUBSET Hash
  /\ Roots \subseteq Hash
  /\ AllocFails \in BOOLEAN

VARIABLES
  store,       \* MemoryStore::store, a map from addresses to chunks
  rootHash,    \* MemoryStore::rootHash
  storeMtx,    \* the owner of MemoryStore::mtx
  open,        \* the views that have been vended and not destroyed
  currentRoot, \* MemoryStoreView::currentRoot of each view
  pending,     \* MemoryStoreView::pending of each view
  viewMtx,     \* the owner of MemoryStoreView::mtx of each view
  call         \* the call each thread is in

\* History, which only the properties read.
VARIABLES
  written,     \* the addresses put through each view since it was opened
  promised,    \* the addresses pending in the commits that have succeeded
  since        \* the store's roots since each view took its own from there

storeVars == <<store, rootHash, storeMtx>>
viewVars  == <<open, currentRoot, pending, viewMtx>>
history   == <<written, promised, since>>
vars      == <<storeVars, viewVars, call, history>>

Map     == [Hash -> Chunk \cup {NoChunk}]
Empty   == [h \in Hash |-> NoChunk]
Keys(m) == {h \in Hash : m[h] # NoChunk}
Visible(v) == Keys(pending[v]) \cup Keys(store)

\* The points of a call at which its thread owns the mutex of the view.
HoldsView == {"rebase", "fetch", "update", "insert", "persisted", "failed", "selfLock"}

(***************************************************************************)
(* A call: where it is, its view, its newRoot or the hash it looks up, the *)
(* hashes its loop has still to visit, the chunks getMany has collected,   *)
(* and (history) which of the hashes asked for were visible at the start.  *)
(***************************************************************************)
CallState == [pc : HoldsView \cup {"idle", "read"}, view : View \cup {None}, arg : Hash,
              todo : SUBSET Hash, found : SUBSET Chunk, due : SUBSET Hash]
CallOf(pc, view, arg, todo, found, due) ==
  [pc |-> pc, view |-> view, arg |-> arg, todo |-> todo, found |-> found, due |-> due]
Idle == CallOf("idle", None, EmptyHash, {}, {}, {})

\* Thread t enters a method of v, or moves on inside the method it is in.
Begin(t, v, pc, arg, todo, due) ==
  call' = [call EXCEPT ![t] = CallOf(pc, v, arg, todo, {}, due)]
Goto(t, pc, arg, todo, found) ==
  call' = [call EXCEPT ![t] = CallOf(pc, call[t].view, arg, todo, found, call[t].due)]

TypeOK ==
  /\ store \in Map
  /\ rootHash \in Hash
  /\ storeMtx \in Thread \cup {None}
  /\ open \subseteq View
  /\ currentRoot \in [View -> Hash]
  /\ pending \in [View -> Map]
  /\ viewMtx \in [View -> Thread \cup {None}]
  /\ call \in [Thread -> CallState]
  /\ written \in [View -> SUBSET Hash]
  /\ promised \subseteq Hash
  /\ since \in [View -> SUBSET Hash]

Init ==
  /\ store = Empty
  /\ rootHash = EmptyHash
  /\ storeMtx = None
  /\ open = {}
  /\ currentRoot = [v \in View |-> EmptyHash]
  /\ pending = [v \in View |-> Empty]
  /\ viewMtx = [v \in View |-> None]
  /\ call = [t \in Thread |-> Idle]
  /\ written = [v \in View |-> {}]
  /\ promised = {}
  /\ since = [v \in View |-> {}]
-----------------------------------------------------------------------------
(***************************************************************************)
(* A view takes the store's root when it is made.  Destroying it drops     *)
(* what is pending; chunk_store.h forbids that while a method runs.        *)
(***************************************************************************)
Open(v) ==
  /\ v \notin open
  /\ storeMtx = None
  /\ open' = open \cup {v}
  /\ currentRoot' = [currentRoot EXCEPT ![v] = rootHash]
  /\ since' = [since EXCEPT ![v] = {rootHash}]
  /\ UNCHANGED <<storeVars, pending, viewMtx, call, written, promised>>

Close(v) ==
  /\ v \in open
  /\ \A t \in Thread : call[t].view # v
  /\ open' = open \ {v}
  /\ currentRoot' = [currentRoot EXCEPT ![v] = EmptyHash]
  /\ pending' = [pending EXCEPT ![v] = Empty]
  /\ written' = [written EXCEPT ![v] = {}]
  /\ since' = [since EXCEPT ![v] = {}]
  /\ UNCHANGED <<storeVars, viewMtx, call, promised>>

(***************************************************************************)
(* The decisions the properties turn on, one operator each.  The mutation  *)
(* above each is the slip the properties must notice.                      *)
(***************************************************************************)

\* lock_guard lock(mtx) succeeds.  Mutation: a method that does not lock.
NoGuard(v) == TRUE
Free(v) == viewMtx[v] = None

\* get on the store, with getMany's has_value().  Mutations: without that test;
\* without asking the store.
LookupUnchecked(h) == {store[h]}
LookupNowhere(h) == {}
Lookup(h) == {store[h]} \ {NoChunk}

\* "last != rootHash" in update.  Mutation: the store trusts the view's own test.
NoCompare(t) == TRUE
RootMatches(t) == currentRoot[call[t].view] = rootHash

\* The root is assigned after the loop.  Mutation: before it.
RootFirst(t) == TRUE
LoopDone(t) == call[t].todo = {}

\* pending after commit.  Mutation: clear() outside "if (success)".
AlwaysCleared(t) == Empty
StillPending(t) == IF call[t].pc = "persisted" THEN Empty ELSE pending[call[t].view]

\* currentRoot after commit, successful or not.  Mutation: the assignment is lost.
RootKept(t) == currentRoot[call[t].view]
RootAfter(t) == call[t].arg

Ready(t, v, method) == method \in Calls /\ call[t] = Idle /\ v \in open

\* lock_guard lock(mtx): the first act of every method but getMany.
LockView(t, v) ==
  /\ Free(v)
  /\ viewMtx' = [viewMtx EXCEPT ![v] = t]
  /\ UNCHANGED <<storeVars, open, currentRoot, pending, history>>

\* The guard goes out of scope, on return or on unwinding.  Mutation: it does not.
ReturnLocked(t) == viewMtx' = viewMtx /\ call' = [call EXCEPT ![t] = Idle]
Return(t) ==
  /\ viewMtx' = [viewMtx EXCEPT ![call[t].view] = None]
  /\ call' = [call EXCEPT ![t] = Idle]

Put(t, v, c) ==
  /\ Ready(t, v, "put")
  /\ Free(v)
  /\ pending' = [pending EXCEPT ![v] = [@ EXCEPT ![HashOf[c]] = c]]
  /\ written' = [written EXCEPT ![v] = @ \cup {HashOf[c]}]
  /\ UNCHANGED <<storeVars, open, currentRoot, viewMtx, call, promised, since>>

Rebase(t, v) ==
  /\ Ready(t, v, "rebase")
  /\ LockView(t, v)
  /\ Begin(t, v, "rebase", EmptyHash, {}, {})

StorageRoot(t) ==
  /\ call[t].pc = "rebase"
  /\ storeMtx = None
  /\ currentRoot' = [currentRoot EXCEPT ![call[t].view] = rootHash]
  /\ since' = [since EXCEPT ![call[t].view] = {rootHash}]
  /\ Return(t)
  /\ UNCHANGED <<storeVars, open, pending, written, promised>>
-----------------------------------------------------------------------------
(***************************************************************************)
(* Reads.  getMany calls get once for each hash, in any order and without  *)
(* a lock between the calls; get and has are reads of one hash.            *)
(***************************************************************************)
Read(t, v, H) ==
  /\ Ready(t, v, "read")
  /\ Begin(t, v, "read", EmptyHash, H, H \cap Visible(v))
  /\ UNCHANGED <<storeVars, viewVars, history>>

\* get locks the view and looks in pending first ...
ReadPending(t, h) ==
  /\ call[t].pc = "read"
  /\ h \in call[t].todo
  /\ Free(call[t].view)
  /\ pending[call[t].view][h] # NoChunk
  /\ Goto(t, "read", EmptyHash, call[t].todo \ {h}, call[t].found \cup {pending[call[t].view][h]})
  /\ UNCHANGED <<storeVars, viewVars, history>>

\* ... and with the view still locked goes to the store for the rest.
ReadMiss(t, h) ==
  /\ call[t].pc = "read"
  /\ h \in call[t].todo
  /\ LockView(t, call[t].view)
  /\ pending[call[t].view][h] = NoChunk
  /\ Goto(t, "fetch", h, call[t].todo, call[t].found)

StorageGet(t) ==
  /\ call[t].pc = "fetch"
  /\ storeMtx = None
  /\ Goto(t, "read", EmptyHash, call[t].todo \ {call[t].arg}, call[t].found \cup Lookup(call[t].arg))
  /\ viewMtx' = [viewMtx EXCEPT ![call[t].view] = None]
  /\ UNCHANGED <<storeVars, open, currentRoot, pending, history>>

ReadReturn(t) ==
  /\ call[t].pc = "read"
  /\ call[t].todo = {}
  /\ call' = [call EXCEPT ![t] = Idle]
  /\ UNCHANGED <<storeVars, viewVars, history>>

(***************************************************************************)
(* absent locks the view and calls has, which locks the same std::mutex:   *)
(* undefined behaviour, whose outcomes are to block forever or, where the  *)
(* library notices, to throw.                                              *)
(***************************************************************************)
Absent(t, v) ==
  /\ Ready(t, v, "absent")
  /\ LockView(t, v)
  /\ Begin(t, v, "selfLock", EmptyHash, {}, {})

AbsentThrows(t) ==
  /\ call[t].pc = "selfLock"
  /\ Return(t)
  /\ UNCHANGED <<storeVars, open, currentRoot, pending, history>>
-----------------------------------------------------------------------------
(***************************************************************************)
(* commit(newRoot, last).  A last that is not the view's root returns      *)
(* false and changes nothing.                                              *)
(***************************************************************************)
Commit(t, v, newRoot, last) ==
  /\ Ready(t, v, "commit")
  /\ LockView(t, v)
  /\ last = currentRoot[v]
  /\ Begin(t, v, "update", newRoot, {}, {})

\* MemoryStore::update: its mutex, the comparison of the roots ...
UpdateAccepts(t) ==
  /\ call[t].pc = "update"
  /\ storeMtx = None
  /\ RootMatches(t)
  /\ storeMtx' = t
  /\ Goto(t, "insert", call[t].arg, Keys(pending[call[t].view]), {})
  /\ UNCHANGED <<store, rootHash, viewVars, history>>

\* Mutation: the chunks go in before the roots are compared.
UpdateRejectsLate(t) ==
  /\ call[t].pc = "update"
  /\ storeMtx = None
  /\ ~RootMatches(t)
  /\ store' = [h \in Hash |-> IF h \in Keys(pending[call[t].view])
                              THEN pending[call[t].view][h] ELSE store[h]]
  /\ Goto(t, "failed", call[t].arg, {}, {})
  /\ UNCHANGED <<rootHash, storeMtx, viewVars, history>>
UpdateRejects(t) ==
  /\ call[t].pc = "update"
  /\ storeMtx = None
  /\ ~RootMatches(t)
  /\ Goto(t, "failed", call[t].arg, {}, {})
  /\ UNCHANGED <<storeVars, viewVars, history>>

\* ... the loop over the new chunks, each stored under its own hash ...
Insert(t, h) ==
  LET chunk == pending[call[t].view][h] IN
  /\ call[t].pc = "insert"
  /\ h \in call[t].todo
  /\ store' = [store EXCEPT ![HashOf[chunk]] = chunk]
  /\ Goto(t, "insert", call[t].arg, call[t].todo \ {h}, {})
  /\ UNCHANGED <<rootHash, storeMtx, viewVars, history>>

\* ... which std::bad_alloc may leave at a new key, unwinding both guards ...
InsertThrows(t) ==
  /\ AllocFails
  /\ call[t].pc = "insert"
  /\ ~(call[t].todo \subseteq Keys(store))
  /\ storeMtx' = None
  /\ Return(t)
  /\ UNCHANGED <<store, rootHash, open, currentRoot, pending, history>>

\* ... and the root, last.
SetRoot(t) ==
  LET v == call[t].view IN
  /\ call[t].pc = "insert"
  /\ LoopDone(t)
  /\ rootHash' = call[t].arg
  /\ storeMtx' = None
  /\ Goto(t, "persisted", call[t].arg, {}, {})
  /\ promised' = promised \cup Keys(pending[v])
  /\ since' = [w \in View |-> IF w = v THEN {call[t].arg}
                              ELSE IF w \in open THEN since[w] \cup {call[t].arg}
                              ELSE since[w]]
  /\ UNCHANGED <<store, viewVars, written>>

\* Back in commit: pending is cleared on success only, currentRoot is set anyway.
Finish(t) ==
  LET v == call[t].view IN
  /\ call[t].pc \in {"persisted", "failed"}
  /\ pending' = [pending EXCEPT ![v] = StillPending(t)]
  /\ currentRoot' = [currentRoot EXCEPT ![v] = RootAfter(t)]
  /\ Return(t)
  /\ UNCHANGED <<storeVars, open, history>>
-----------------------------------------------------------------------------
NewCall(t) ==
  \E v \in View :
    \/ \E c \in Chunk : Put(t, v, c)
    \/ Rebase(t, v)
    \/ \E H \in Requests : Read(t, v, H)
    \/ \E newRoot \in Roots, last \in Hash : Commit(t, v, newRoot, last)
    \/ Absent(t, v)

\* A step of a call in progress that meets no exception.
Progress(t) ==
  \/ StorageRoot(t)
  \/ \E h \in Hash : ReadPending(t, h) \/ ReadMiss(t, h) \/ Insert(t, h)
  \/ StorageGet(t)
  \/ ReadReturn(t)
  \/ UpdateAccepts(t)
  \/ UpdateRejects(t)
  \/ SetRoot(t)
  \/ Finish(t)

Next ==
  \/ \E v \in View : Open(v) \/ Close(v)
  \/ \E t \in Thread : NewCall(t) \/ Progress(t) \/ AbsentThrows(t) \/ InsertThrows(t)

Spec == Init /\ [][Next]_vars

\* A thread inside a method runs on; no mutex is assumed to be fair.
FairSpec == Spec /\ \A t \in Thread : WF_vars(Progress(t))
=============================================================================
