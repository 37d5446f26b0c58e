-------------------------- MODULE MemoryStoreProps --------------------------
(***************************************************************************)
(* What the in-memory chunk store promises, over MemoryStore.              *)
(***************************************************************************)
EXTENDS MemoryStore

(***************************************************************************)
(* A chunk put through a view is found through it for as long as the view  *)
(* lives, whichever commits succeed, fail or throw in between: commit      *)
(* gives up pending only once the store holds all of it.                   *)
(***************************************************************************)
ReadYourWrites == \A v \in open : written[v] \subseteq Visible(v)

(***************************************************************************)
(* What was pending when a commit succeeded is in the store from the       *)
(* moment the root moves, for every view and for ever; the store gives up  *)
(* nothing, so a root that resolved for the view that committed it         *)
(* resolves for all.                                                       *)
(***************************************************************************)
Durable == promised \subseteq Keys(store)

(***************************************************************************)
(* "Commit atomically attempts to persist all novel Chunks and update the  *)
(* persisted root" (chunk_store.h): outside an update the store holds no   *)
(* chunk but those of successful commits.                                  *)
(***************************************************************************)
NothingUncommitted == storeMtx = None => Keys(store) \subseteq promised

(***************************************************************************)
(* No lost update: the store's root moves only away from the root the      *)
(* committing view believes in, although that was compared several steps   *)
(* before, and only when every chunk pending there is already in the       *)
(* store.                                                                  *)
(***************************************************************************)
MovesRoot(t) ==
  /\ call[t].pc = "insert"
  /\ currentRoot[call[t].view] = rootHash
  /\ Keys(pending[call[t].view]) \subseteq Keys(store)
  /\ rootHash' = call[t].arg
NoLostUpdate == [][rootHash' # rootHash => \E t \in Thread : MovesRoot(t)]_vars

(***************************************************************************)
(* A commit that the store rejects has met a conflict: the store has had   *)
(* another root since the view last took its root from it.                 *)
(***************************************************************************)
FailureMeansConflict ==
  \A t \in Thread : call[t].pc = "failed" => \E r \in since[call[t].view] : r # rootHash

(***************************************************************************)
(* getMany holds no lock between its lookups, and yet misses nothing that  *)
(* was visible when it was called, and returns nothing but what its view   *)
(* can see: a commit of the view by another thread moves chunks from       *)
(* pending to the store without a moment at which neither has them.        *)
(***************************************************************************)
Collected(t) == {HashOf[c] : c \in call[t].found}
GetManyConsistent ==
  \A t \in Thread : call[t].pc \in {"read", "fetch"} =>
    /\ call[t].due \subseteq call[t].todo \cup Collected(t)
    /\ Collected(t) \subseteq Visible(call[t].view)

(***************************************************************************)
(* Once no new call is made, every call in progress returns: the nesting   *)
(* of the store's mutex in the views' never closes a circle, and no path   *)
(* leaves a mutex locked, the exceptions among them.                       *)
(***************************************************************************)
CallsReturn ==
  (<>[][\A t \in Thread : ~NewCall(t)]_vars) => <>[](\A t \in Thread : call[t] = Idle)
(***************************************************************************)
(* With memory enough the store and its views are a RootedStore: a commit  *)
(* takes effect for all at the moment its root is set, or fails at the     *)
(* moment the roots are compared, and what others can see of an update in  *)
(* progress is nothing.  Until a commit returns, its outcome is already    *)
(* decided: the view's root and novel chunks are those it will leave.      *)
(***************************************************************************)
Decided(v, outcomes) ==
  viewMtx[v] # None /\ call[viewMtx[v]].view = v /\ call[viewMtx[v]].pc \in outcomes
Base(v)  == IF Decided(v, {"persisted", "failed"}) THEN call[viewMtx[v]].arg ELSE currentRoot[v]
Novel(v) == IF Decided(v, {"persisted"}) THEN {} ELSE Keys(pending[v])
Stored   == IF storeMtx = None THEN Keys(store) ELSE promised

Abstract == INSTANCE RootedStore WITH
  root <- rootHash, stored <- Stored, base <- [v \in View |-> Base(v)], novel <- [v \in View |-> Novel(v)]
ImplementsRootedStore == Abstract!Spec
-----------------------------------------------------------------------------
(***************************************************************************)
(* "Root returns the root of the database as of the time the ChunkStore    *)
(* was opened or the most recent call to Rebase" (chunk_store.h): it is at *)
(* least a root the store has had since then.                              *)
(***************************************************************************)
RootIsOfTheStore == \A v \in open : viewMtx[v] = None => currentRoot[v] \in since[v]

(***************************************************************************)
(* absent "returns the subset of hashes that are not contained in the      *)
(* store" (chunk_store.h): a call of it comes to an end.                   *)
(***************************************************************************)
AbsentReturns == \A t \in Thread : call[t].pc = "selfLock" ~> call[t] = Idle
-----------------------------------------------------------------------------
(***************************************************************************)
(* The inductive invariant behind the safety properties.                   *)
(***************************************************************************)

\* A map holds each chunk under the chunk's own hash.
Keyed(m) == \A h \in Keys(m) : HashOf[m[h]] = h

ContentAddressed == Keyed(store) /\ \A v \in View : Keyed(pending[v])

\* A view that is not open is as its constructor leaves it but for the root.
Fresh == \A v \in View \ open : pending[v] = Empty /\ written[v] = {}

\* Whoever is between lock and unlock owns the mutex.
LockInv ==
  \A t \in Thread :
    /\ call[t].pc # "idle" => call[t].view \in open
    /\ call[t].pc \in HoldsView => viewMtx[call[t].view] = t
    /\ call[t].pc = "insert" => storeMtx = t

\* What was visible when a read began still is; a miss in pending stays one
\* while the view is locked.
ReadInv ==
  \A t \in Thread :
    /\ call[t].pc \in {"read", "fetch"} => call[t].due \subseteq Visible(call[t].view)
    /\ call[t].pc = "fetch" => call[t].arg \notin Keys(pending[call[t].view])

\* What a commit has established so far.
CommitInv ==
  \A t \in Thread : LET v == call[t].view IN
    /\ call[t].pc = "insert" => /\ currentRoot[v] = rootHash
                                /\ call[t].todo \subseteq Keys(pending[v])
                                /\ Keys(pending[v]) \subseteq call[t].todo \cup Keys(store)
    /\ call[t].pc = "persisted" => /\ Keys(pending[v]) \subseteq Keys(store)
                                   /\ call[t].arg \in since[v]

\* A view the store has not moved away from has the store's root, or will as
\* soon as the commit in progress takes its last step.
SinceInv ==
  \A v \in open :
    /\ rootHash \in since[v]
    /\ \/ currentRoot[v] = rootHash
       \/ \E r \in since[v] : r # rootHash
       \/ \E t \in Thread : call[t].pc = "persisted" /\ call[t].view = v /\ call[t].arg = rootHash

IInv ==
  /\ TypeOK
  /\ ContentAddressed
  /\ Fresh
  /\ LockInv
  /\ CommitInv
  /\ ReadInv
  /\ SinceInv
  /\ ReadYourWrites
  /\ Durable
  /\ FailureMeansConflict
  /\ GetManyConsistent

\* With memory enough: what is in the store and in no commit yet is being committed.
NothingUncommittedInv ==
  /\ NothingUncommitted
  /\ \A t \in Thread : call[t].pc = "insert" =>
       Keys(store) \subseteq promised \cup Keys(pending[call[t].view])
=============================================================================
