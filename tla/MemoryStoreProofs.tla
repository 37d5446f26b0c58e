------------------------- MODULE MemoryStoreProofs -------------------------
(***************************************************************************)
(* Proofs of the safety properties of MemoryStore, for any number of       *)
(* threads, views, hashes and chunks.  IInv is inductive: one lemma for    *)
(* each action, with one step for each conjunct; the conjuncts an action   *)
(* disturbs have proofs of their own.                                      *)
(***************************************************************************)
EXTENDS MemoryStoreProps, TLAPS

\* SinceInv reads the roots and the calls between SetRoot and Finish only.
LEMMA SinceInvQuiet ==
  ASSUME SinceInv, UNCHANGED <<open, rootHash, since, currentRoot>>,
         \A u \in Thread : call[u].pc = "persisted" => call'[u] = call[u]
  PROVE  SinceInv'
  BY DEF SinceInv

\* The constructor: the new view has the store's root and nothing pending.
LEMMA OpenStep ==
  ASSUME IInv, NEW v \in View, Open(v)
  PROVE  IInv'
<1> USE MemoryStoreAssumption
    DEF IInv, TypeOK, CallState, CallOf, HoldsView, Map, Empty, Keys, Visible, Idle, Begin, Goto,
        storeVars, viewVars, history, Ready, LockView, Return, Free, Open
<1>1. TypeOK'
  BY DEF TypeOK
<1>2. ContentAddressed'
  BY DEF ContentAddressed, Keyed
<1>3. Fresh'
  BY DEF Fresh
<1>4. LockInv'
  BY DEF LockInv
<1>5. CommitInv'
  <2>1. \A u \in Thread : call[u].pc \in HoldsView => call[u].view \in View /\ call[u].view # v
    BY DEF LockInv
  <2> QED
    BY <2>1 DEF CommitInv
<1>6. ReadInv'
  BY DEF ReadInv
<1>7. SinceInv'
  BY DEF SinceInv
<1>8. ReadYourWrites'
  <2>1. written' = written /\ \A w \in View : Visible(w)' = Visible(w)
    OBVIOUS
  <2>2. written[v] = {}
    BY DEF Fresh
  <2> QED
    BY <2>1, <2>2 DEF ReadYourWrites
<1>9. Durable'
  BY DEF Durable
<1>10. FailureMeansConflict'
  <2>1. \A u \in Thread : call[u].pc = "failed" => call[u].view \in View /\ call[u].view # v
    BY DEF LockInv
  <2> QED
    BY <2>1 DEF FailureMeansConflict
<1>11. GetManyConsistent'
  BY DEF GetManyConsistent, Collected
<1> QED
  BY <1>1, <1>2, <1>3, <1>4, <1>5, <1>6, <1>7, <1>8, <1>9, <1>10, <1>11 DEF IInv

\* The destructor: no thread is in a method of the view.
LEMMA CloseStep ==
  ASSUME IInv, NEW v \in View, Close(v)
  PROVE  IInv'
<1> USE MemoryStoreAssumption
    DEF IInv, TypeOK, CallState, CallOf, HoldsView, Map, Empty, Keys, Visible, Idle, Begin, Goto,
        storeVars, viewVars, history, Ready, LockView, Return, Free, Close
<1>1. TypeOK'
  BY DEF TypeOK
<1>2. ContentAddressed'
  BY DEF ContentAddressed, Keyed
<1>3. Fresh'
  BY DEF Fresh
<1>4. LockInv'
  BY DEF LockInv
<1>5. CommitInv'
  BY DEF CommitInv
<1>6. ReadInv'
  BY DEF ReadInv
<1>7. SinceInv'
  BY DEF SinceInv
<1>8. ReadYourWrites'
  BY DEF ReadYourWrites
<1>9. Durable'
  BY DEF Durable
<1>10. FailureMeansConflict'
  BY DEF FailureMeansConflict
<1>11. GetManyConsistent'
  BY DEF GetManyConsistent, Collected
<1> QED
  BY <1>1, <1>2, <1>3, <1>4, <1>5, <1>6, <1>7, <1>8, <1>9, <1>10, <1>11 DEF IInv

\* put: whoever reads or commits with the view's mutex held is in another view.
LEMMA PutStep ==
  ASSUME IInv, NEW t \in Thread, NEW v \in View, NEW c \in Chunk, Put(t, v, c)
  PROVE  IInv'
<1> USE MemoryStoreAssumption
    DEF IInv, TypeOK, CallState, CallOf, HoldsView, Map, Empty, Keys, Visible, Idle, Begin, Goto,
        storeVars, viewVars, history, Ready, LockView, Return, Free, Put
<1>1. TypeOK'
  BY DEF TypeOK
<1>2. ContentAddressed'
  BY DEF ContentAddressed, Keyed
<1>3. Fresh'
  BY DEF Fresh
<1>4. LockInv'
  BY DEF LockInv
<1>5. CommitInv'
  <2>1. \A u \in Thread : call[u].pc \in HoldsView => call[u].view \in View /\ call[u].view # v
    BY DEF LockInv
  <2>2. \A w \in View : w # v => pending'[w] = pending[w]
    OBVIOUS
  <2>3. call' = call /\ store' = store /\ rootHash' = rootHash /\ currentRoot' = currentRoot /\ since' = since
    OBVIOUS
  <2>4. \A u \in Thread : call[u].pc \in {"insert", "persisted"} => pending'[call[u].view] = pending[call[u].view]
    BY <2>1, <2>2
  <2> QED
    BY <2>3, <2>4 DEF CommitInv
<1>6. ReadInv'
  <2>1. \A u \in Thread : call[u].pc = "fetch" => call[u].view # v
    BY DEF LockInv
  <2>2. \A u \in Thread : call[u].pc \in {"read", "fetch"} => call[u].view \in View
    BY DEF LockInv
  <2>3. \A w \in View : Visible(w) \subseteq Visible(w)'
    OBVIOUS
  <2>4. \A w \in View : w # v => Keys(pending[w])' = Keys(pending[w])
    OBVIOUS
  <2> QED
    BY <2>1, <2>2, <2>3, <2>4 DEF ReadInv
<1>7. SinceInv'
  <2>1. /\ UNCHANGED <<open, rootHash, since, currentRoot>>
        /\ \A u \in Thread : call[u].pc = "persisted" => call'[u] = call[u]
    OBVIOUS
  <2> QED
    BY <2>1, SinceInvQuiet
<1>8. ReadYourWrites'
  BY DEF ReadYourWrites
<1>9. Durable'
  BY DEF Durable
<1>10. FailureMeansConflict'
  BY DEF FailureMeansConflict
<1>11. GetManyConsistent'
  BY DEF GetManyConsistent, Collected
<1> QED
  BY <1>1, <1>2, <1>3, <1>4, <1>5, <1>6, <1>7, <1>8, <1>9, <1>10, <1>11 DEF IInv

\* rebase takes the view's mutex.
LEMMA RebaseStep ==
  ASSUME IInv, NEW t \in Thread, NEW v \in View, Rebase(t, v)
  PROVE  IInv'
<1> USE MemoryStoreAssumption
    DEF IInv, TypeOK, CallState, CallOf, HoldsView, Map, Empty, Keys, Visible, Idle, Begin, Goto,
        storeVars, viewVars, history, Ready, LockView, Return, Free, Rebase
<1>1. TypeOK'
  BY DEF TypeOK
<1>2. ContentAddressed'
  BY DEF ContentAddressed, Keyed
<1>3. Fresh'
  BY DEF Fresh
<1>4. LockInv'
  BY DEF LockInv
<1>5. CommitInv'
  BY DEF CommitInv
<1>6. ReadInv'
  BY DEF ReadInv
<1>7. SinceInv'
  <2>1. /\ UNCHANGED <<open, rootHash, since, currentRoot>>
        /\ \A u \in Thread : call[u].pc = "persisted" => call'[u] = call[u]
    OBVIOUS
  <2> QED
    BY <2>1, SinceInvQuiet
<1>8. ReadYourWrites'
  BY DEF ReadYourWrites
<1>9. Durable'
  BY DEF Durable
<1>10. FailureMeansConflict'
  BY DEF FailureMeansConflict
<1>11. GetManyConsistent'
  BY DEF GetManyConsistent, Collected
<1> QED
  BY <1>1, <1>2, <1>3, <1>4, <1>5, <1>6, <1>7, <1>8, <1>9, <1>10, <1>11 DEF IInv

\* A read begins; what is due is what is visible.
LEMMA ReadStep ==
  ASSUME IInv, NEW t \in Thread, NEW v \in View, NEW H \in Requests, Read(t, v, H)
  PROVE  IInv'
<1> USE MemoryStoreAssumption
    DEF IInv, TypeOK, CallState, CallOf, HoldsView, Map, Empty, Keys, Visible, Idle, Begin, Goto,
        storeVars, viewVars, history, Ready, LockView, Return, Free, Read
<1>1. TypeOK'
  BY DEF TypeOK
<1>2. ContentAddressed'
  BY DEF ContentAddressed, Keyed
<1>3. Fresh'
  BY DEF Fresh
<1>4. LockInv'
  BY DEF LockInv
<1>5. CommitInv'
  BY DEF CommitInv
<1>6. ReadInv'
  BY DEF ReadInv
<1>7. SinceInv'
  <2>1. /\ UNCHANGED <<open, rootHash, since, currentRoot>>
        /\ \A u \in Thread : call[u].pc = "persisted" => call'[u] = call[u]
    OBVIOUS
  <2> QED
    BY <2>1, SinceInvQuiet
<1>8. ReadYourWrites'
  BY DEF ReadYourWrites
<1>9. Durable'
  BY DEF Durable
<1>10. FailureMeansConflict'
  BY DEF FailureMeansConflict
<1>11. GetManyConsistent'
  BY DEF GetManyConsistent, Collected
<1> QED
  BY <1>1, <1>2, <1>3, <1>4, <1>5, <1>6, <1>7, <1>8, <1>9, <1>10, <1>11 DEF IInv

\* commit takes the view's mutex, the roots of the call and the view agreeing.
LEMMA CommitStep ==
  ASSUME IInv, NEW t \in Thread, NEW v \in View, NEW newRoot \in Hash, NEW last \in Hash, Commit(t, v, newRoot, last)
  PROVE  IInv'
<1> USE MemoryStoreAssumption
    DEF IInv, TypeOK, CallState, CallOf, HoldsView, Map, Empty, Keys, Visible, Idle, Begin, Goto,
        storeVars, viewVars, history, Ready, LockView, Return, Free, Commit
<1>1. TypeOK'
  BY DEF TypeOK
<1>2. ContentAddressed'
  BY DEF ContentAddressed, Keyed
<1>3. Fresh'
  BY DEF Fresh
<1>4. LockInv'
  BY DEF LockInv
<1>5. CommitInv'
  BY DEF CommitInv
<1>6. ReadInv'
  BY DEF ReadInv
<1>7. SinceInv'
  <2>1. /\ UNCHANGED <<open, rootHash, since, currentRoot>>
        /\ \A u \in Thread : call[u].pc = "persisted" => call'[u] = call[u]
    OBVIOUS
  <2> QED
    BY <2>1, SinceInvQuiet
<1>8. ReadYourWrites'
  BY DEF ReadYourWrites
<1>9. Durable'
  BY DEF Durable
<1>10. FailureMeansConflict'
  BY DEF FailureMeansConflict
<1>11. GetManyConsistent'
  BY DEF GetManyConsistent, Collected
<1> QED
  BY <1>1, <1>2, <1>3, <1>4, <1>5, <1>6, <1>7, <1>8, <1>9, <1>10, <1>11 DEF IInv

\* absent takes the view's mutex.
LEMMA AbsentStep ==
  ASSUME IInv, NEW t \in Thread, NEW v \in View, Absent(t, v)
  PROVE  IInv'
<1> USE MemoryStoreAssumption
    DEF IInv, TypeOK, CallState, CallOf, HoldsView, Map, Empty, Keys, Visible, Idle, Begin, Goto,
        storeVars, viewVars, history, Ready, LockView, Return, Free, Absent
<1>1. TypeOK'
  BY DEF TypeOK
<1>2. ContentAddressed'
  BY DEF ContentAddressed, Keyed
<1>3. Fresh'
  BY DEF Fresh
<1>4. LockInv'
  BY DEF LockInv
<1>5. CommitInv'
  BY DEF CommitInv
<1>6. ReadInv'
  BY DEF ReadInv
<1>7. SinceInv'
  <2>1. /\ UNCHANGED <<open, rootHash, since, currentRoot>>
        /\ \A u \in Thread : call[u].pc = "persisted" => call'[u] = call[u]
    OBVIOUS
  <2> QED
    BY <2>1, SinceInvQuiet
<1>8. ReadYourWrites'
  BY DEF ReadYourWrites
<1>9. Durable'
  BY DEF Durable
<1>10. FailureMeansConflict'
  BY DEF FailureMeansConflict
<1>11. GetManyConsistent'
  BY DEF GetManyConsistent, Collected
<1> QED
  BY <1>1, <1>2, <1>3, <1>4, <1>5, <1>6, <1>7, <1>8, <1>9, <1>10, <1>11 DEF IInv

\* rebase has the store's root; no commit of the view is in progress.
LEMMA StorageRootStep ==
  ASSUME IInv, NEW t \in Thread, StorageRoot(t)
  PROVE  IInv'
<1> USE MemoryStoreAssumption
    DEF IInv, TypeOK, CallState, CallOf, HoldsView, Map, Empty, Keys, Visible, Idle, Begin, Goto,
        storeVars, viewVars, history, Ready, LockView, Return, Free, StorageRoot
<1>v. call[t].view \in View /\ call[t].view \in open
  BY DEF LockInv
<1>1. TypeOK'
  BY <1>v DEF TypeOK
<1>2. ContentAddressed'
  BY <1>v DEF ContentAddressed, Keyed
<1>3. Fresh'
  BY <1>v DEF Fresh
<1>4. LockInv'
  BY <1>v DEF LockInv
<1>5. CommitInv'
  <2>1. \A u \in Thread : u # t /\ call[u].pc \in HoldsView => call[u].view \in View /\ call[u].view # call[t].view
    BY DEF LockInv
  <2> QED
    BY <1>v, <2>1 DEF CommitInv
<1>6. ReadInv'
  BY <1>v DEF ReadInv
<1>7. SinceInv'
  BY <1>v DEF SinceInv
<1>8. ReadYourWrites'
  BY <1>v DEF ReadYourWrites
<1>9. Durable'
  BY <1>v DEF Durable
<1>10. FailureMeansConflict'
  <2>1. \A u \in Thread : call[u].pc = "failed" => call[u].view \in View /\ call[u].view # call[t].view
    BY DEF LockInv
  <2> QED
    BY <1>v, <2>1 DEF FailureMeansConflict
<1>11. GetManyConsistent'
  BY <1>v DEF GetManyConsistent, Collected
<1> QED
  BY <1>1, <1>2, <1>3, <1>4, <1>5, <1>6, <1>7, <1>8, <1>9, <1>10, <1>11 DEF IInv

\* A read finds a hash in pending.
LEMMA ReadPendingStep ==
  ASSUME IInv, NEW t \in Thread, NEW h \in Hash, ReadPending(t, h)
  PROVE  IInv'
<1> USE MemoryStoreAssumption
    DEF IInv, TypeOK, CallState, CallOf, HoldsView, Map, Empty, Keys, Visible, Idle, Begin, Goto,
        storeVars, viewVars, history, Ready, LockView, Return, Free, ReadPending
<1>v. call[t].view \in View /\ call[t].view \in open
  BY DEF LockInv
<1>1. TypeOK'
  BY <1>v DEF TypeOK
<1>2. ContentAddressed'
  BY <1>v DEF ContentAddressed, Keyed
<1>3. Fresh'
  BY <1>v DEF Fresh
<1>4. LockInv'
  BY <1>v DEF LockInv
<1>5. CommitInv'
  BY <1>v DEF CommitInv
<1>6. ReadInv'
  BY <1>v DEF ReadInv
<1>7. SinceInv'
  <2>1. /\ UNCHANGED <<open, rootHash, since, currentRoot>>
        /\ \A u \in Thread : call[u].pc = "persisted" => call'[u] = call[u]
    OBVIOUS
  <2> QED
    BY <2>1, SinceInvQuiet
<1>8. ReadYourWrites'
  BY <1>v DEF ReadYourWrites
<1>9. Durable'
  BY <1>v DEF Durable
<1>10. FailureMeansConflict'
  BY <1>v DEF FailureMeansConflict
<1>11. GetManyConsistent'
  <2> DEFINE v == call[t].view
  <2>1. pending[v][h] \in Chunk /\ HashOf[pending[v][h]] = h /\ h \in Visible(v)
    BY <1>v DEF ContentAddressed, Keyed
  <2>2. /\ call'[t] = CallOf("read", v, EmptyHash, call[t].todo \ {h}, call[t].found \cup {pending[v][h]}, call[t].due)
        /\ \A u \in Thread : u # t => call'[u] = call[u]
    OBVIOUS
  <2>3. Collected(t)' = Collected(t) \cup {h}
    BY <2>1, <2>2 DEF Collected
  <2>4. \A u \in Thread : u # t => Collected(u)' = Collected(u)
    BY <2>2 DEF Collected
  <2>5. \A w : Visible(w)' = Visible(w)
    OBVIOUS
  <2> QED
    BY <2>1, <2>2, <2>3, <2>4, <2>5 DEF GetManyConsistent
<1> QED
  BY <1>1, <1>2, <1>3, <1>4, <1>5, <1>6, <1>7, <1>8, <1>9, <1>10, <1>11 DEF IInv

\* A read goes on to the store.
LEMMA ReadMissStep ==
  ASSUME IInv, NEW t \in Thread, NEW h \in Hash, ReadMiss(t, h)
  PROVE  IInv'
<1> USE MemoryStoreAssumption
    DEF IInv, TypeOK, CallState, CallOf, HoldsView, Map, Empty, Keys, Visible, Idle, Begin, Goto,
        storeVars, viewVars, history, Ready, LockView, Return, Free, ReadMiss
<1>v. call[t].view \in View /\ call[t].view \in open
  BY DEF LockInv
<1>1. TypeOK'
  BY <1>v DEF TypeOK
<1>2. ContentAddressed'
  BY <1>v DEF ContentAddressed, Keyed
<1>3. Fresh'
  BY <1>v DEF Fresh
<1>4. LockInv'
  BY <1>v DEF LockInv
<1>5. CommitInv'
  BY <1>v DEF CommitInv
<1>6. ReadInv'
  BY <1>v DEF ReadInv
<1>7. SinceInv'
  <2>1. /\ UNCHANGED <<open, rootHash, since, currentRoot>>
        /\ \A u \in Thread : call[u].pc = "persisted" => call'[u] = call[u]
    OBVIOUS
  <2> QED
    BY <2>1, SinceInvQuiet
<1>8. ReadYourWrites'
  BY <1>v DEF ReadYourWrites
<1>9. Durable'
  BY <1>v DEF Durable
<1>10. FailureMeansConflict'
  BY <1>v DEF FailureMeansConflict
<1>11. GetManyConsistent'
  BY <1>v DEF GetManyConsistent, Collected
<1> QED
  BY <1>1, <1>2, <1>3, <1>4, <1>5, <1>6, <1>7, <1>8, <1>9, <1>10, <1>11 DEF IInv

\* update stores one chunk: the store, and what any view sees, only grows.
LEMMA InsertStep ==
  ASSUME IInv, NEW t \in Thread, NEW h \in Hash, Insert(t, h)
  PROVE  IInv'
<1> USE MemoryStoreAssumption
    DEF IInv, TypeOK, CallState, CallOf, HoldsView, Map, Empty, Keys, Visible, Idle, Begin, Goto,
        storeVars, viewVars, history, Ready, LockView, Return, Free, Insert
<1>v. call[t].view \in View /\ call[t].view \in open
  BY DEF LockInv
<1> DEFINE v == call[t].view
           chunk == pending[v][h]
<1>a. h \in Keys(pending[v]) /\ chunk \in Chunk /\ HashOf[chunk] = h
  BY <1>v DEF CommitInv, ContentAddressed, Keyed
<1>b. /\ store' = [store EXCEPT ![h] = chunk]
      /\ Keys(store)' = Keys(store) \cup {h}
  BY <1>a
<1>c. \A w \in View : Visible(w) \subseteq Visible(w)'
  BY <1>b
<1>1. TypeOK'
  BY <1>v, <1>a, <1>b DEF TypeOK, CallState, Map
<1>2. ContentAddressed'
  BY <1>v DEF ContentAddressed, Keyed
<1>3. Fresh'
  BY <1>v DEF Fresh
<1>4. LockInv'
  BY <1>v DEF LockInv
<1>5. CommitInv'
  <2>1. \A u \in Thread : u # t => call[u].pc # "insert" /\ call'[u] = call[u]
    BY DEF LockInv
  <2>2. /\ call'[t].pc = "insert" /\ call'[t].view = v
        /\ call'[t].todo = call[t].todo \ {h}
        /\ UNCHANGED <<pending, currentRoot, rootHash, since>>
    OBVIOUS
  <2>3. /\ currentRoot[v] = rootHash
        /\ call[t].todo \ {h} \subseteq Keys(pending[v])
        /\ Keys(pending[v]) \subseteq (call[t].todo \ {h}) \cup Keys(store)'
    BY <1>b DEF CommitInv
  <2>4. ASSUME NEW u \in Thread, u # t, call[u].pc = "persisted"
        PROVE  /\ Keys(pending[call[u].view]) \subseteq Keys(store)'
               /\ call[u].arg \in since[call[u].view]
    BY <1>b, <2>4 DEF CommitInv
  <2> HIDE DEF Insert, CallState, Map, Goto, TypeOK, IInv
  <2> QED
    BY <2>1, <2>2, <2>3, <2>4 DEF CommitInv
<1>6. ReadInv'
  <2>1. \A u \in Thread : call'[u].pc \in {"read", "fetch"} => call'[u] = call[u] /\ call[u].view \in View
    BY DEF LockInv
  <2> QED
    BY <1>c, <2>1 DEF ReadInv
<1>7. SinceInv'
  <2>1. /\ UNCHANGED <<open, rootHash, since, currentRoot>>
        /\ \A u \in Thread : call[u].pc = "persisted" => call'[u] = call[u]
    OBVIOUS
  <2> QED
    BY <2>1, SinceInvQuiet
<1>8. ReadYourWrites'
  BY <1>c DEF ReadYourWrites
<1>9. Durable'
  BY <1>b DEF Durable
<1>10. FailureMeansConflict'
  BY <1>v DEF FailureMeansConflict
<1>11. GetManyConsistent'
  <2>1. \A u \in Thread : call'[u].pc \in {"read", "fetch"} => call'[u] = call[u] /\ call[u].view \in View
    BY DEF LockInv
  <2> QED
    BY <1>c, <2>1 DEF GetManyConsistent, Collected
<1> QED
  BY <1>1, <1>2, <1>3, <1>4, <1>5, <1>6, <1>7, <1>8, <1>9, <1>10, <1>11 DEF IInv

\* A read finds a hash in the store, or nowhere.
LEMMA StorageGetStep ==
  ASSUME IInv, NEW t \in Thread, StorageGet(t)
  PROVE  IInv'
<1> USE MemoryStoreAssumption
    DEF IInv, TypeOK, CallState, CallOf, HoldsView, Map, Empty, Keys, Visible, Idle, Begin, Goto,
        storeVars, viewVars, history, Ready, LockView, Return, Free, StorageGet, Lookup
<1>v. call[t].view \in View /\ call[t].view \in open
  BY DEF LockInv
<1>1. TypeOK'
  BY <1>v DEF TypeOK
<1>2. ContentAddressed'
  BY <1>v DEF ContentAddressed, Keyed
<1>3. Fresh'
  BY <1>v DEF Fresh
<1>4. LockInv'
  BY <1>v DEF LockInv
<1>5. CommitInv'
  BY <1>v DEF CommitInv
<1>6. ReadInv'
  BY <1>v DEF ReadInv
<1>7. SinceInv'
  <2>1. /\ UNCHANGED <<open, rootHash, since, currentRoot>>
        /\ \A u \in Thread : call[u].pc = "persisted" => call'[u] = call[u]
    OBVIOUS
  <2> QED
    BY <2>1, SinceInvQuiet
<1>8. ReadYourWrites'
  BY <1>v DEF ReadYourWrites
<1>9. Durable'
  BY <1>v DEF Durable
<1>10. FailureMeansConflict'
  BY <1>v DEF FailureMeansConflict
<1>11. GetManyConsistent'
  <2> DEFINE v == call[t].view
             h == call[t].arg
  <2>1. /\ call'[t] = CallOf("read", v, EmptyHash, call[t].todo \ {h}, call[t].found \cup Lookup(h), call[t].due)
        /\ \A u \in Thread : u # t => call'[u] = call[u]
    OBVIOUS
  <2>2. {HashOf[c] : c \in Lookup(h)} = IF h \in Keys(store) THEN {h} ELSE {}
    BY DEF Lookup, ContentAddressed, Keyed
  <2>3. Collected(t)' = Collected(t) \cup {HashOf[c] : c \in Lookup(h)}
    BY <2>1 DEF Collected
  <2>4. \A u \in Thread : u # t => Collected(u)' = Collected(u)
    BY <2>1 DEF Collected
  <2>5. \A w : Visible(w)' = Visible(w)
    OBVIOUS
  <2>6. call[t].due \subseteq Keys(store) \cup (Keys(pending[v]) \ {h}) /\ call[t].due \subseteq Hash
    BY DEF ReadInv
  <2>7. call[t].due \subseteq call[t].todo \cup Collected(t) /\ Collected(t) \subseteq Visible(v)
    BY DEF GetManyConsistent
  <2>8. call'[t].due \subseteq call'[t].todo \cup Collected(t)' /\ Collected(t)' \subseteq Visible(v)
    <3> HIDE DEF StorageGet, Goto, CallState, Map, TypeOK
    <3> QED
      BY <2>1, <2>2, <2>3, <2>6, <2>7
  <2> QED
    BY <1>v, <2>1, <2>4, <2>5, <2>8 DEF GetManyConsistent
<1> QED
  BY <1>1, <1>2, <1>3, <1>4, <1>5, <1>6, <1>7, <1>8, <1>9, <1>10, <1>11 DEF IInv

\* getMany returns.
LEMMA ReadReturnStep ==
  ASSUME IInv, NEW t \in Thread, ReadReturn(t)
  PROVE  IInv'
<1> USE MemoryStoreAssumption
    DEF IInv, TypeOK, CallState, CallOf, HoldsView, Map, Empty, Keys, Visible, Idle, Begin, Goto,
        storeVars, viewVars, history, Ready, LockView, Return, Free, ReadReturn
<1>v. call[t].view \in View /\ call[t].view \in open
  BY DEF LockInv
<1>1. TypeOK'
  BY <1>v DEF TypeOK
<1>2. ContentAddressed'
  BY <1>v DEF ContentAddressed, Keyed
<1>3. Fresh'
  BY <1>v DEF Fresh
<1>4. LockInv'
  BY <1>v DEF LockInv
<1>5. CommitInv'
  BY <1>v DEF CommitInv
<1>6. ReadInv'
  BY <1>v DEF ReadInv
<1>7. SinceInv'
  <2>1. /\ UNCHANGED <<open, rootHash, since, currentRoot>>
        /\ \A u \in Thread : call[u].pc = "persisted" => call'[u] = call[u]
    OBVIOUS
  <2> QED
    BY <2>1, SinceInvQuiet
<1>8. ReadYourWrites'
  BY <1>v DEF ReadYourWrites
<1>9. Durable'
  BY <1>v DEF Durable
<1>10. FailureMeansConflict'
  BY <1>v DEF FailureMeansConflict
<1>11. GetManyConsistent'
  BY <1>v DEF GetManyConsistent, Collected
<1> QED
  BY <1>1, <1>2, <1>3, <1>4, <1>5, <1>6, <1>7, <1>8, <1>9, <1>10, <1>11 DEF IInv

\* update finds the root it expects.
LEMMA UpdateAcceptsStep ==
  ASSUME IInv, NEW t \in Thread, UpdateAccepts(t)
  PROVE  IInv'
<1> USE MemoryStoreAssumption
    DEF IInv, TypeOK, CallState, CallOf, HoldsView, Map, Empty, Keys, Visible, Idle, Begin, Goto,
        storeVars, viewVars, history, Ready, LockView, Return, Free, UpdateAccepts, RootMatches
<1>v. call[t].view \in View /\ call[t].view \in open
  BY DEF LockInv
<1>1. TypeOK'
  BY <1>v DEF TypeOK
<1>2. ContentAddressed'
  BY <1>v DEF ContentAddressed, Keyed
<1>3. Fresh'
  BY <1>v DEF Fresh
<1>4. LockInv'
  BY <1>v DEF LockInv
<1>5. CommitInv'
  BY <1>v DEF CommitInv
<1>6. ReadInv'
  BY <1>v DEF ReadInv
<1>7. SinceInv'
  <2>1. /\ UNCHANGED <<open, rootHash, since, currentRoot>>
        /\ \A u \in Thread : call[u].pc = "persisted" => call'[u] = call[u]
    OBVIOUS
  <2> QED
    BY <2>1, SinceInvQuiet
<1>8. ReadYourWrites'
  BY <1>v DEF ReadYourWrites
<1>9. Durable'
  BY <1>v DEF Durable
<1>10. FailureMeansConflict'
  BY <1>v DEF FailureMeansConflict
<1>11. GetManyConsistent'
  BY <1>v DEF GetManyConsistent, Collected
<1> QED
  BY <1>1, <1>2, <1>3, <1>4, <1>5, <1>6, <1>7, <1>8, <1>9, <1>10, <1>11 DEF IInv

\* update finds another root: a conflict, by SinceInv.
LEMMA UpdateRejectsStep ==
  ASSUME IInv, NEW t \in Thread, UpdateRejects(t)
  PROVE  IInv'
<1> USE MemoryStoreAssumption
    DEF IInv, TypeOK, CallState, CallOf, HoldsView, Map, Empty, Keys, Visible, Idle, Begin, Goto,
        storeVars, viewVars, history, Ready, LockView, Return, Free, UpdateRejects, RootMatches
<1>v. call[t].view \in View /\ call[t].view \in open
  BY DEF LockInv
<1>1. TypeOK'
  BY <1>v DEF TypeOK
<1>2. ContentAddressed'
  BY <1>v DEF ContentAddressed, Keyed
<1>3. Fresh'
  BY <1>v DEF Fresh
<1>4. LockInv'
  BY <1>v DEF LockInv
<1>5. CommitInv'
  BY <1>v DEF CommitInv
<1>6. ReadInv'
  BY <1>v DEF ReadInv
<1>7. SinceInv'
  <2>1. /\ UNCHANGED <<open, rootHash, since, currentRoot>>
        /\ \A u \in Thread : call[u].pc = "persisted" => call'[u] = call[u]
    OBVIOUS
  <2> QED
    BY <2>1, SinceInvQuiet
<1>8. ReadYourWrites'
  BY <1>v DEF ReadYourWrites
<1>9. Durable'
  BY <1>v DEF Durable
<1>10. FailureMeansConflict'
  <2>1. \A u \in Thread : ~(call[u].pc = "persisted" /\ call[u].view = call[t].view)
    BY DEF LockInv
  <2>2. \E r \in since[call[t].view] : r # rootHash
    BY <1>v, <2>1 DEF SinceInv
  <2> QED
    BY <1>v, <2>2 DEF FailureMeansConflict
<1>11. GetManyConsistent'
  BY <1>v DEF GetManyConsistent, Collected
<1> QED
  BY <1>1, <1>2, <1>3, <1>4, <1>5, <1>6, <1>7, <1>8, <1>9, <1>10, <1>11 DEF IInv

\* update moves the root: every other view comes to differ from it.
LEMMA SetRootStep ==
  ASSUME IInv, NEW t \in Thread, SetRoot(t)
  PROVE  IInv'
<1> USE MemoryStoreAssumption
    DEF IInv, TypeOK, CallState, CallOf, HoldsView, Map, Empty, Keys, Visible, Idle, Begin, Goto,
        storeVars, viewVars, history, Ready, LockView, Return, Free, SetRoot, LoopDone
<1>v. call[t].view \in View /\ call[t].view \in open
  BY DEF LockInv
<1> DEFINE v == call[t].view
           arg == call[t].arg
<1>a. /\ call'[t] = CallOf("persisted", v, arg, {}, {}, call[t].due)
      /\ \A u \in Thread : u # t => call'[u] = call[u]
      /\ rootHash' = arg
      /\ call[t].pc = "insert"
      /\ UNCHANGED <<store, pending, currentRoot, open>>
  OBVIOUS
<1>t. arg \in Hash
  OBVIOUS
<1>b. Keys(pending[v]) \subseteq Keys(store)
  BY DEF CommitInv
<1>c. /\ since'[v] = {arg}
      /\ \A w \in View \ {v} : w \in open => since'[w] = since[w] \cup {arg}
      /\ \A w \in View : w \notin open => since'[w] = since[w]
  BY <1>v
<1>d. \A u \in Thread : u # t /\ call[u].pc \in HoldsView => call[u].view \in open /\ call[u].view # v
  BY DEF LockInv
<1>1. TypeOK'
  BY <1>v DEF TypeOK
<1>2. ContentAddressed'
  BY <1>v DEF ContentAddressed, Keyed
<1>3. Fresh'
  BY <1>v DEF Fresh
<1>4. LockInv'
  BY <1>v DEF LockInv
<1>5. CommitInv'
  <2> HIDE DEF SetRoot, Goto, CallState, Map, Keys, Visible
  <2>1. \A u \in Thread : u # t => call[u].pc # "insert"
    BY <1>a DEF LockInv
  <2>2. ASSUME NEW u \in Thread, u # t, call'[u].pc = "persisted"
        PROVE  /\ Keys(pending[call[u].view]) \subseteq Keys(store)
               /\ call[u].arg \in since'[call[u].view]
    BY <1>a, <1>c, <1>d, <2>2 DEF CommitInv
  <2> QED
    BY <1>a, <1>b, <1>c, <2>1, <2>2 DEF CommitInv, Keys
<1>6. ReadInv'
  BY <1>v DEF ReadInv
<1>7. SinceInv'
  <2> HIDE DEF SetRoot, Goto, CallState, Map, Keys, Visible
  <2> SUFFICES ASSUME NEW w \in open
               PROVE  /\ arg \in since'[w]
                      /\ \/ currentRoot[w] = arg
                         \/ \E r \in since'[w] : r # arg
                         \/ \E u \in Thread : call'[u].pc = "persisted" /\ call'[u].view = w /\ call'[u].arg = arg
    BY <1>a DEF SinceInv
  <2>1. CASE w = v
    BY <1>a, <1>c, <2>1
  <2>2. CASE w # v
    <3>1. since'[w] = since[w] \cup {arg} /\ rootHash \in since[w]
      BY <1>c, <2>2 DEF SinceInv
    <3>2. CASE arg # rootHash
      BY <3>1, <3>2
    <3>3. CASE arg = rootHash
      BY <1>a, <2>2, <3>1, <3>3 DEF SinceInv
    <3> QED
      BY <3>2, <3>3
  <2> QED
    BY <2>1, <2>2
<1>8. ReadYourWrites'
  BY <1>v DEF ReadYourWrites
<1>9. Durable'
  <2>1. promised' = promised \cup Keys(pending[v]) /\ Keys(store)' = Keys(store)
    OBVIOUS
  <2> QED
    BY <1>b, <2>1 DEF Durable
<1>10. FailureMeansConflict'
  <2> HIDE DEF SetRoot, Goto, CallState, Map, Keys, Visible
  <2> SUFFICES ASSUME NEW u \in Thread, call'[u].pc = "failed"
               PROVE  \E r \in since'[call'[u].view] : r # arg
    BY <1>a DEF FailureMeansConflict
  <2> DEFINE w == call[u].view
  <2>1. u # t /\ call'[u] = call[u]
    BY <1>a
  <2>2. w \in open /\ w # v
    BY <1>d, <2>1
  <2>3. PICK r \in since[w] : r # rootHash
    BY <2>1 DEF FailureMeansConflict
  <2>4. {r, rootHash} \subseteq since'[w]
    BY <1>c, <2>2, <2>3 DEF SinceInv
  <2> QED
    BY <2>1, <2>3, <2>4
<1>11. GetManyConsistent'
  BY <1>v DEF GetManyConsistent, Collected
<1> QED
  BY <1>1, <1>2, <1>3, <1>4, <1>5, <1>6, <1>7, <1>8, <1>9, <1>10, <1>11 DEF IInv

\* commit returns; what it clears from pending is in the store.
LEMMA FinishStep ==
  ASSUME IInv, NEW t \in Thread, Finish(t)
  PROVE  IInv'
<1> USE MemoryStoreAssumption
    DEF IInv, TypeOK, CallState, CallOf, HoldsView, Map, Empty, Keys, Visible, Idle, Begin, Goto,
        storeVars, viewVars, history, Ready, LockView, Return, Free, Finish, StillPending, RootAfter
<1>v. call[t].view \in View /\ call[t].view \in open
  BY DEF LockInv
<1> DEFINE v == call[t].view
<1>a. \A u \in Thread : u # t /\ call[u].pc \in HoldsView => call[u].view \in View /\ call[u].view # v
  BY DEF LockInv
<1>b. \A w \in View : w # v => pending'[w] = pending[w] /\ currentRoot'[w] = currentRoot[w]
  OBVIOUS
<1>c. /\ \A u \in Thread : u # t => call'[u] = call[u]
      /\ call'[t] = Idle
      /\ UNCHANGED <<store, rootHash, since, open>>
  OBVIOUS
<1>d. \A w \in View : Visible(w)' = Visible(w)
  <2>1. pending'[v] = IF call[t].pc = "persisted" THEN Empty ELSE pending[v]
    BY <1>v
  <2>2. call[t].pc = "persisted" => Keys(pending[v]) \subseteq Keys(store)
    BY DEF CommitInv
  <2>3. \A w \in View : w = v => Visible(w)' = Visible(w)
    BY <1>c, <2>1, <2>2
  <2> QED
    BY <1>b, <1>c, <2>3
<1>1. TypeOK'
  BY <1>v DEF TypeOK
<1>2. ContentAddressed'
  BY <1>v DEF ContentAddressed, Keyed
<1>3. Fresh'
  BY <1>v DEF Fresh
<1>4. LockInv'
  BY <1>v DEF LockInv
<1>5. CommitInv'
  BY <1>a, <1>b, <1>c DEF CommitInv
<1>6. ReadInv'
  <2>1. \A u \in Thread : call'[u].pc \in {"read", "fetch"} => call'[u] = call[u] /\ call[u].view \in View
    BY <1>c DEF LockInv
  <2> QED
    BY <1>a, <1>b, <1>c, <1>d, <2>1 DEF ReadInv
<1>7. SinceInv'
  <2> HIDE DEF Finish, CallState, Map, Keys, Visible, Return, Goto
  <2> SUFFICES ASSUME NEW w \in open
               PROVE  /\ rootHash \in since[w]
                      /\ \/ currentRoot'[w] = rootHash
                         \/ \E r \in since[w] : r # rootHash
                         \/ \E u \in Thread : call'[u].pc = "persisted" /\ call'[u].view = w /\ call'[u].arg = rootHash
    BY <1>c DEF SinceInv
  <2>1. rootHash \in since[w]
    BY DEF SinceInv
  <2>2. CASE w = v
    <3>1. currentRoot'[v] = call[t].arg /\ call[t].pc \in {"persisted", "failed"}
      BY <1>v DEF Finish
    <3>2. CASE call[t].pc = "persisted"
      BY <2>1, <2>2, <3>1, <3>2 DEF CommitInv
    <3>3. CASE call[t].pc = "failed"
      BY <2>1, <2>2, <3>3 DEF FailureMeansConflict
    <3> QED
      BY <3>1, <3>2, <3>3
  <2>3. CASE w # v
    BY <1>b, <1>c, <2>1, <2>3 DEF SinceInv
  <2> QED
    BY <2>2, <2>3
<1>8. ReadYourWrites'
  BY <1>c, <1>d DEF ReadYourWrites
<1>9. Durable'
  BY <1>v DEF Durable
<1>10. FailureMeansConflict'
  BY <1>v DEF FailureMeansConflict
<1>11. GetManyConsistent'
  <2>1. \A u \in Thread : call'[u].pc \in {"read", "fetch"} => call'[u] = call[u] /\ call[u].view \in View
    BY <1>c DEF LockInv
  <2> QED
    BY <1>d, <2>1 DEF GetManyConsistent, Collected
<1> QED
  BY <1>1, <1>2, <1>3, <1>4, <1>5, <1>6, <1>7, <1>8, <1>9, <1>10, <1>11 DEF IInv

\* absent throws, releasing the view's mutex.
LEMMA AbsentThrowsStep ==
  ASSUME IInv, NEW t \in Thread, AbsentThrows(t)
  PROVE  IInv'
<1> USE MemoryStoreAssumption
    DEF IInv, TypeOK, CallState, CallOf, HoldsView, Map, Empty, Keys, Visible, Idle, Begin, Goto,
        storeVars, viewVars, history, Ready, LockView, Return, Free, AbsentThrows
<1>v. call[t].view \in View /\ call[t].view \in open
  BY DEF LockInv
<1>1. TypeOK'
  BY <1>v DEF TypeOK
<1>2. ContentAddressed'
  BY <1>v DEF ContentAddressed, Keyed
<1>3. Fresh'
  BY <1>v DEF Fresh
<1>4. LockInv'
  BY <1>v DEF LockInv
<1>5. CommitInv'
  BY <1>v DEF CommitInv
<1>6. ReadInv'
  BY <1>v DEF ReadInv
<1>7. SinceInv'
  <2>1. /\ UNCHANGED <<open, rootHash, since, currentRoot>>
        /\ \A u \in Thread : call[u].pc = "persisted" => call'[u] = call[u]
    OBVIOUS
  <2> QED
    BY <2>1, SinceInvQuiet
<1>8. ReadYourWrites'
  BY <1>v DEF ReadYourWrites
<1>9. Durable'
  BY <1>v DEF Durable
<1>10. FailureMeansConflict'
  BY <1>v DEF FailureMeansConflict
<1>11. GetManyConsistent'
  BY <1>v DEF GetManyConsistent, Collected
<1> QED
  BY <1>1, <1>2, <1>3, <1>4, <1>5, <1>6, <1>7, <1>8, <1>9, <1>10, <1>11 DEF IInv

\* update throws, releasing both mutexes.
LEMMA InsertThrowsStep ==
  ASSUME IInv, NEW t \in Thread, InsertThrows(t)
  PROVE  IInv'
<1> USE MemoryStoreAssumption
    DEF IInv, TypeOK, CallState, CallOf, HoldsView, Map, Empty, Keys, Visible, Idle, Begin, Goto,
        storeVars, viewVars, history, Ready, LockView, Return, Free, InsertThrows
<1>v. call[t].view \in View /\ call[t].view \in open
  BY DEF LockInv
<1>1. TypeOK'
  BY <1>v DEF TypeOK
<1>2. ContentAddressed'
  BY <1>v DEF ContentAddressed, Keyed
<1>3. Fresh'
  BY <1>v DEF Fresh
<1>4. LockInv'
  BY <1>v DEF LockInv
<1>5. CommitInv'
  BY <1>v DEF CommitInv
<1>6. ReadInv'
  BY <1>v DEF ReadInv
<1>7. SinceInv'
  <2>1. /\ UNCHANGED <<open, rootHash, since, currentRoot>>
        /\ \A u \in Thread : call[u].pc = "persisted" => call'[u] = call[u]
    OBVIOUS
  <2> QED
    BY <2>1, SinceInvQuiet
<1>8. ReadYourWrites'
  BY <1>v DEF ReadYourWrites
<1>9. Durable'
  BY <1>v DEF Durable
<1>10. FailureMeansConflict'
  BY <1>v DEF FailureMeansConflict
<1>11. GetManyConsistent'
  BY <1>v DEF GetManyConsistent, Collected
<1> QED
  BY <1>1, <1>2, <1>3, <1>4, <1>5, <1>6, <1>7, <1>8, <1>9, <1>10, <1>11 DEF IInv

-----------------------------------------------------------------------------
\* Nothing happens to IInv when nothing happens.
LEMMA StutterStep ==
  ASSUME IInv, UNCHANGED vars
  PROVE  IInv'
<1> USE DEF vars, storeVars, viewVars, history, IInv, Keys, Visible, Free
<1>1. TypeOK' /\ ContentAddressed' /\ Fresh' /\ LockInv'
  BY DEF TypeOK, ContentAddressed, Keyed, Fresh, LockInv
<1>2. CommitInv' /\ ReadInv' /\ SinceInv'
  BY DEF CommitInv, ReadInv, SinceInv
<1>3. ReadYourWrites' /\ Durable' /\ FailureMeansConflict' /\ GetManyConsistent'
  BY DEF ReadYourWrites, Durable, FailureMeansConflict, GetManyConsistent, Collected
<1> QED
  BY <1>1, <1>2, <1>3 DEF IInv

\* The initial state: an empty store and no view.
LEMMA InitIInv == Init => IInv
<1> SUFFICES ASSUME Init PROVE IInv
  OBVIOUS
<1> USE MemoryStoreAssumption DEF Init, Idle, CallOf, Empty, Keys
<1>1. TypeOK
  BY DEF TypeOK, CallState, Map
<1>2. ContentAddressed /\ Fresh /\ LockInv
  BY DEF ContentAddressed, Keyed, Fresh, LockInv, HoldsView
<1>3. CommitInv /\ ReadInv /\ SinceInv
  BY DEF CommitInv, ReadInv, SinceInv
<1>4. ReadYourWrites /\ Durable /\ FailureMeansConflict /\ GetManyConsistent
  BY DEF ReadYourWrites, Durable, FailureMeansConflict, GetManyConsistent
<1> QED
  BY <1>1, <1>2, <1>3, <1>4 DEF IInv

\* Every step keeps IInv.
LEMMA NextIInv == IInv /\ [Next]_vars => IInv'
<1> SUFFICES ASSUME IInv, [Next]_vars PROVE IInv'
  OBVIOUS
<1>1. ASSUME NEW v \in View, Open(v) \/ Close(v) PROVE IInv'
  BY <1>1, OpenStep, CloseStep
<1>2. ASSUME NEW t \in Thread, NewCall(t) PROVE IInv'
  <2> PICK v \in View : \/ \E c \in Chunk : Put(t, v, c)
                        \/ Rebase(t, v)
                        \/ \E H \in Requests : Read(t, v, H)
                        \/ \E newRoot \in Roots, last \in Hash : Commit(t, v, newRoot, last)
                        \/ Absent(t, v)
    BY <1>2 DEF NewCall
  <2> QED
    BY MemoryStoreAssumption, PutStep, RebaseStep, ReadStep, CommitStep, AbsentStep
<1>3. ASSUME NEW t \in Thread, Progress(t) PROVE IInv'
  BY <1>3, StorageRootStep, ReadPendingStep, ReadMissStep, InsertStep, StorageGetStep,
     ReadReturnStep, UpdateAcceptsStep, UpdateRejectsStep, SetRootStep, FinishStep DEF Progress
<1>4. ASSUME NEW t \in Thread, AbsentThrows(t) \/ InsertThrows(t) PROVE IInv'
  BY <1>4, AbsentThrowsStep, InsertThrowsStep
<1>5. CASE UNCHANGED vars
  BY <1>5, StutterStep
<1> QED
  BY <1>1, <1>2, <1>3, <1>4, <1>5 DEF Next

(***************************************************************************)
(* IInv holds in every reachable state of the store and its views.         *)
(***************************************************************************)
THEOREM Invariance == Spec => []IInv
  BY InitIInv, NextIInv, PTL DEF Spec

(***************************************************************************)
(* The store, the views and the calls keep their types.                    *)
(***************************************************************************)
THEOREM TypeCorrect == Spec => []TypeOK
<1>1. IInv => TypeOK
  BY DEF IInv
<1> QED
  BY <1>1, Invariance, PTL

(***************************************************************************)
(* A chunk put through a view is found through it while the view lives.    *)
(***************************************************************************)
THEOREM ReadsItsWrites == Spec => []ReadYourWrites
<1>1. IInv => ReadYourWrites
  BY DEF IInv
<1> QED
  BY <1>1, Invariance, PTL

(***************************************************************************)
(* What a successful commit had pending is in the store for ever.          *)
(***************************************************************************)
THEOREM CommitsAreDurable == Spec => []Durable
<1>1. IInv => Durable
  BY DEF IInv
<1> QED
  BY <1>1, Invariance, PTL

(***************************************************************************)
(* A commit the store rejects has met a conflict.                          *)
(***************************************************************************)
THEOREM NoSpuriousFailure == Spec => []FailureMeansConflict
<1>1. IInv => FailureMeansConflict
  BY DEF IInv
<1> QED
  BY <1>1, Invariance, PTL

(***************************************************************************)
(* getMany misses nothing that was visible when it was called.             *)
(***************************************************************************)
THEOREM GetManyIsConsistent == Spec => []GetManyConsistent
<1>1. IInv => GetManyConsistent
  BY DEF IInv
<1> QED
  BY <1>1, Invariance, PTL

(***************************************************************************)
(* The root moves only away from the root the committing view believes in, *)
(* and only once every chunk pending there is in the store.                *)
(***************************************************************************)
THEOREM NoUpdateIsLost == Spec => NoLostUpdate
<1> DEFINE A == rootHash' # rootHash => \E t \in Thread : MovesRoot(t)
<1>1. ASSUME IInv, [Next]_vars PROVE [A]_vars
  <2> SUFFICES ASSUME rootHash' # rootHash PROVE \E t \in Thread : MovesRoot(t)
    OBVIOUS
  <2>1. PICK t \in Thread : SetRoot(t)
    <3> USE DEF storeVars
    <3>1. ASSUME NEW v \in View PROVE ~Open(v) /\ ~Close(v)
      BY DEF Open, Close
    <3>2. ASSUME NEW t \in Thread PROVE ~NewCall(t)
      BY DEF NewCall, Put, Rebase, Read, Commit, Absent, LockView
    <3>3. ASSUME NEW t \in Thread, Progress(t) PROVE SetRoot(t)
      BY <3>3 DEF Progress, StorageRoot, ReadPending, ReadMiss, LockView, Insert, StorageGet,
                  ReadReturn, UpdateAccepts, UpdateRejects, Finish
    <3>4. ASSUME NEW t \in Thread PROVE ~AbsentThrows(t) /\ ~InsertThrows(t)
      BY DEF AbsentThrows, InsertThrows
    <3> QED
      BY <1>1, <3>1, <3>2, <3>3, <3>4 DEF Next, vars
  <2>2. MovesRoot(t)
    BY <1>1, <2>1 DEF IInv, CommitInv, SetRoot, LoopDone, MovesRoot
  <2> QED
    BY <2>2
<1> QED
  BY <1>1, Invariance, PTL DEF Spec, NoLostUpdate
-----------------------------------------------------------------------------
\* A step that leaves the store alone, and whatever the updates in progress read.
LEMMA Undisturbed ==
  ASSUME NothingUncommittedInv, UNCHANGED <<store, storeMtx, promised>>,
         \A u \in Thread : call'[u].pc = "insert" =>
           call'[u] = call[u] /\ pending'[call[u].view] = pending[call[u].view]
  PROVE  NothingUncommittedInv'
  BY DEF NothingUncommittedInv, NothingUncommitted, Keys

\* While no insertion throws, what is in the store is committed, or being committed.
LEMMA UncommittedInvariance ==
  ASSUME ~AllocFails
  PROVE  Spec => []NothingUncommittedInv
<1>1. Init => NothingUncommittedInv
  BY DEF Init, NothingUncommittedInv, NothingUncommitted, Keys, Empty, Idle, CallOf
<1>2. ASSUME IInv, [Next]_vars, NothingUncommittedInv PROVE NothingUncommittedInv'
  <2> USE MemoryStoreAssumption
      DEF storeVars, viewVars, history, HoldsView, CallOf, Idle, Begin, Goto, LockView, Return, Free
  <2>0. /\ pending \in [View -> Map]
        /\ call \in [Thread -> CallState]
        /\ LockInv
    BY <1>2 DEF IInv, TypeOK
  <2>1. ASSUME NEW v \in View, Open(v) \/ Close(v) PROVE NothingUncommittedInv'
    <3>1. CASE Open(v)
      BY <1>2, <2>0, <3>1, Undisturbed DEF Open
    <3>2. CASE Close(v)
      <4>1. \A u \in Thread : call[u].pc = "insert" => call[u].view \in View \ {v}
        BY <1>2, <3>2 DEF Close, LockInv, IInv, TypeOK
      <4>2. \A w \in View \ {v} : pending'[w] = pending[w]
        BY <2>0, <3>2 DEF Close
      <4> QED
        BY <1>2, <3>2, <4>1, <4>2, Undisturbed DEF Close
    <3> QED
      BY <2>1, <3>1, <3>2
  <2>2. ASSUME NEW t \in Thread, NEW v \in View, NEW c \in Chunk, Put(t, v, c)
        PROVE  NothingUncommittedInv'
    BY <1>2, <2>0, <2>2, Undisturbed DEF Put, LockInv
  <2>3. ASSUME NEW t \in Thread, NewCall(t), \A v \in View, c \in Chunk : ~Put(t, v, c)
        PROVE  NothingUncommittedInv'
    BY <1>2, <2>0, <2>3, Undisturbed DEF NewCall, Rebase, Read, Commit, Absent
  <2>4. ASSUME NEW t \in Thread, NEW h \in Hash, ReadPending(t, h) \/ ReadMiss(t, h)
        PROVE  NothingUncommittedInv'
    BY <1>2, <2>0, <2>4, Undisturbed DEF ReadPending, ReadMiss
  <2>5. ASSUME NEW t \in Thread, StorageRoot(t) \/ StorageGet(t) \/ ReadReturn(t) \/ UpdateRejects(t)
        PROVE  NothingUncommittedInv'
    BY <1>2, <2>0, <2>5, Undisturbed DEF StorageRoot, StorageGet, ReadReturn, UpdateRejects
  <2>6. ASSUME NEW t \in Thread, Finish(t) PROVE NothingUncommittedInv'
    <3>1. call[t].view \in View /\ call[t].pc # "insert"
      BY <1>2, <2>6 DEF Finish, LockInv, IInv, TypeOK
    <3>2. \A u \in Thread : call[u].pc = "insert" => call[u].view # call[t].view
      BY <2>0, <2>6 DEF Finish, LockInv
    <3> QED
      BY <1>2, <2>0, <2>6, <3>1, <3>2, Undisturbed DEF Finish
  <2>7. ASSUME NEW t \in Thread, UpdateAccepts(t) PROVE NothingUncommittedInv'
    BY <1>2, <2>0, <2>7 DEF UpdateAccepts, NothingUncommittedInv, NothingUncommitted, Keys
  <2>8. ASSUME NEW t \in Thread, NEW h \in Hash, Insert(t, h) PROVE NothingUncommittedInv'
    <3> DEFINE v == call[t].view
    <3>1. call[t].pc = "insert" /\ h \in Keys(pending[v]) /\ HashOf[pending[v][h]] = h
      BY <1>2, <2>8 DEF Insert, IInv, LockInv, TypeOK, CommitInv, ContentAddressed, Keyed
    <3>2. \A u \in Thread : call'[u].pc = "insert" => u = t
      BY <2>0, <2>8, <3>1 DEF Insert, LockInv
    <3>3. storeMtx' # None /\ UNCHANGED <<promised, pending>> /\ call'[t].view = v
      BY <2>0, <2>8, <3>1 DEF Insert, LockInv
    <3>4. Keys(store)' \subseteq Keys(store) \cup {h}
      BY <2>8, <3>1 DEF Insert, Keys, IInv, TypeOK, Map
    <3>5. Keys(store)' \subseteq promised \cup Keys(pending[v])
      BY <1>2, <3>1, <3>4 DEF NothingUncommittedInv
    <3> QED
      BY <3>2, <3>3, <3>5 DEF NothingUncommittedInv, NothingUncommitted, Keys
  <2>9. ASSUME NEW t \in Thread, SetRoot(t) PROVE NothingUncommittedInv'
    BY <1>2, <2>0, <2>9 DEF SetRoot, LockInv, NothingUncommittedInv, NothingUncommitted, Keys
  <2>10. ASSUME NEW t \in Thread, AbsentThrows(t) PROVE NothingUncommittedInv'
    BY <1>2, <2>0, <2>10, Undisturbed DEF AbsentThrows
  <2>11. CASE UNCHANGED vars
    BY <1>2, <2>11, Undisturbed DEF vars
  <2>12. ASSUME NEW t \in Thread, Progress(t) PROVE NothingUncommittedInv'
    BY <2>4, <2>5, <2>6, <2>7, <2>8, <2>9, <2>12 DEF Progress
  <2>13. ASSUME NEW t \in Thread PROVE ~InsertThrows(t)
    BY DEF InsertThrows
  <2> QED
    BY <1>2, <2>1, <2>2, <2>3, <2>10, <2>11, <2>12, <2>13 DEF Next
<1> QED
  BY <1>1, <1>2, Invariance, PTL DEF Spec

(***************************************************************************)
(* While no insertion throws, the store holds no chunk but those of        *)
(* successful commits whenever no update is in progress.                   *)
(***************************************************************************)
THEOREM CommitsAreAtomic ==
  ASSUME ~AllocFails
  PROVE  Spec => []NothingUncommitted
<1>1. NothingUncommittedInv => NothingUncommitted
  BY DEF NothingUncommittedInv
<1> QED
  BY <1>1, UncommittedInvariance, PTL
-----------------------------------------------------------------------------
\* A step of a thread whose call has no outcome yet, of which its view keeps the root and the chunks.
LEMMA Undecided ==
  ASSUME NEW t \in Thread, \A u \in Thread : u # t => call'[u] = call[u],
         viewMtx \in [View -> Thread \cup {None}],
         call[t].pc \notin {"persisted", "failed"}, call'[t].pc \notin {"persisted", "failed"},
         \A w \in View : viewMtx'[w] = viewMtx[w] \/ {viewMtx[w], viewMtx'[w]} \subseteq {t, None},
         UNCHANGED <<pending, currentRoot>>
  PROVE  \A w \in View : Base(w)' = Base(w) /\ Novel(w)' = Novel(w)
<1> SUFFICES ASSUME NEW w \in View PROVE Base(w)' = Base(w) /\ Novel(w)' = Novel(w)
  OBVIOUS
<1>1. CASE viewMtx[w] \in {t, None}
  BY <1>1 DEF Base, Novel, Decided, Keys
<1>2. CASE viewMtx[w] \notin {t, None}
  BY <1>2 DEF Base, Novel, Decided, Keys
<1> QED
  BY <1>1, <1>2

\* The view of a thread at work, and those of the others.
LEMMA OthersUndecided ==
  ASSUME NEW v \in View, NEW w \in View, w # v,
         viewMtx'[w] = viewMtx[w], pending'[w] = pending[w], currentRoot'[w] = currentRoot[w],
         call'[viewMtx[w]] = call[viewMtx[w]] \/ (~Decided(w, {"persisted", "failed"}) /\ ~Decided(w, {"persisted", "failed"})')
  PROVE  Base(w)' = Base(w) /\ Novel(w)' = Novel(w)
  BY DEF Base, Novel, Decided, Keys

(***************************************************************************)
(* With memory enough the store and its views implement RootedStore: every *)
(* step of the code is a step of it or leaves its state alone.             *)
(***************************************************************************)
THEOREM Refinement ==
  ASSUME ~AllocFails
  PROVE  Spec => ImplementsRootedStore
<1> USE DEF Abstract!vars
<1>1. Init => Abstract!Init
  BY MemoryStoreAssumption
  DEF Init, Abstract!Init, Base, Novel, Decided, Stored, Keys, Empty
<1>2. ASSUME IInv, NothingUncommittedInv, [Next]_vars PROVE [Abstract!Next]_(Abstract!vars)
  <2> USE MemoryStoreAssumption
      DEF storeVars, viewVars, history, HoldsView, CallOf, Idle, Begin, Goto, LockView, Return, Free
  <2>0. /\ pending \in [View -> Map]
        /\ currentRoot \in [View -> Hash]
        /\ viewMtx \in [View -> Thread \cup {None}]
        /\ call \in [Thread -> CallState]
        /\ storeMtx \in Thread \cup {None}
        /\ open \subseteq View
        /\ LockInv
    BY <1>2 DEF IInv, TypeOK
  <2>a. storeMtx = None => Keys(store) = promised
    BY <1>2 DEF IInv, Durable, NothingUncommittedInv, NothingUncommitted
  <2>1. ASSUME NEW v \in View, Open(v) PROVE Abstract!Open(v)
    <3>1. ~Decided(v, {"persisted", "failed"}) /\ ~Decided(v, {"persisted"})
      BY <2>0, <2>1 DEF Open, Decided, LockInv
    <3> QED
      BY <2>0, <2>1, <3>1 DEF Open, Abstract!Open, Base, Novel, Decided, Stored, Keys
  <2>2. ASSUME NEW v \in View, Close(v) PROVE Abstract!Close(v)
    <3>1. ~Decided(v, {"persisted", "failed"}) /\ ~Decided(v, {"persisted"})
      BY <2>0, <2>2 DEF Close, Decided
    <3> QED
      BY <2>0, <2>2, <3>1 DEF Close, Abstract!Close, Base, Novel, Decided, Stored, Keys, Empty
  <2>3. ASSUME NEW t \in Thread, NEW v \in View, NEW c \in Chunk, Put(t, v, c)
        PROVE  Abstract!Put(v, HashOf[c])
    <3>1. /\ viewMtx[v] = None /\ HashOf[c] \in Hash
          /\ UNCHANGED <<viewMtx, call, currentRoot, rootHash, store, storeMtx, promised, open>>
      BY <2>3 DEF Put
    <3>2. \A w \in View : w # v => pending'[w] = pending[w]
      BY <2>0, <2>3 DEF Put
    <3>3. Keys(pending[v])' = Keys(pending[v]) \cup {HashOf[c]}
      <4>1. pending[v] \in Map /\ pending'[v] = [pending[v] EXCEPT ![HashOf[c]] = c]
        BY <2>0, <2>3 DEF Put
      <4> QED
        BY <3>1, <4>1 DEF Keys, Map
    <3>4. /\ Base(v)' = Base(v) /\ Novel(v)' = Novel(v) \cup {HashOf[c]}
          /\ \A w \in View : w # v => Base(w)' = Base(w) /\ Novel(w)' = Novel(w)
      BY <3>1, <3>2, <3>3 DEF Base, Novel, Decided, Keys
    <3>5. UNCHANGED <<rootHash, Stored, open>> /\ v \in open
      BY <2>3, <3>1 DEF Put, Ready, Stored, Keys
    <3> QED
      BY <3>4, <3>5 DEF Abstract!Put
  <2>4. ASSUME NEW t \in Thread, NewCall(t), \A v \in View, c \in Chunk : ~Put(t, v, c)
        PROVE  UNCHANGED Abstract!vars
    <3>1. \A w \in View : Base(w)' = Base(w) /\ Novel(w)' = Novel(w)
      BY <2>0, <2>4, Undecided DEF NewCall, Rebase, Read, Commit, Absent, Ready
    <3> QED
      BY <2>4, <3>1 DEF NewCall, Rebase, Read, Commit, Absent, Stored, Keys
  <2>5. ASSUME NEW t \in Thread, StorageRoot(t) PROVE Abstract!Rebase(call[t].view)
    <3>1. PICK v \in View : v = call[t].view /\ v \in open /\ viewMtx[v] = t
      BY <2>0, <2>5 DEF StorageRoot, LockInv, CallState
    <3>2. Base(v)' = rootHash /\ Novel(v)' = Novel(v)
      <4>1. viewMtx'[v] = None /\ currentRoot'[v] = rootHash /\ pending' = pending /\ call[t].pc = "rebase"
        BY <2>0, <2>5, <3>1 DEF StorageRoot
      <4> QED
        BY <3>1, <4>1 DEF Base, Novel, Decided, Keys
    <3>3. \A w \in View : w # v => Base(w)' = Base(w) /\ Novel(w)' = Novel(w)
      BY <2>0, <2>5, <3>1, OthersUndecided DEF StorageRoot, Decided
    <3> QED
      <4>1. UNCHANGED <<rootHash, Stored, open>>
        BY <2>5 DEF StorageRoot, Stored, Keys
      <4> QED
        BY <3>1, <3>2, <3>3, <4>1 DEF Abstract!Rebase
  <2>6. ASSUME NEW t \in Thread,
               \/ \E h \in Hash : ReadPending(t, h) \/ ReadMiss(t, h)
               \/ StorageGet(t) \/ ReadReturn(t) \/ AbsentThrows(t)
        PROVE  UNCHANGED Abstract!vars
    <3>1. \A w \in View : Base(w)' = Base(w) /\ Novel(w)' = Novel(w)
      BY <2>0, <2>6, Undecided DEF ReadPending, ReadMiss, StorageGet, ReadReturn, AbsentThrows, LockInv
    <3> QED
      BY <2>6, <3>1 DEF ReadPending, ReadMiss, StorageGet, ReadReturn, AbsentThrows, Stored, Keys
  <2>7. ASSUME NEW t \in Thread, UpdateAccepts(t) PROVE UNCHANGED Abstract!vars
    <3>1. \A w \in View : Base(w)' = Base(w) /\ Novel(w)' = Novel(w)
      BY <2>0, <2>7, Undecided DEF UpdateAccepts
    <3> QED
      BY <2>7, <2>a, <3>1 DEF UpdateAccepts, Stored
  <2>8. ASSUME NEW t \in Thread, NEW h \in Hash, Insert(t, h) PROVE UNCHANGED Abstract!vars
    <3>1. \A w \in View : Base(w)' = Base(w) /\ Novel(w)' = Novel(w)
      BY <2>0, <2>8, Undecided DEF Insert
    <3>2. storeMtx = t
      BY <2>0, <2>8 DEF Insert, LockInv
    <3> QED
      BY <2>8, <3>1, <3>2 DEF Insert, Stored
  <2>9. ASSUME NEW t \in Thread, UpdateRejects(t) PROVE Abstract!FailedCommit(call[t].view, call[t].arg)
    <3>1. PICK v \in View : v = call[t].view /\ v \in open /\ viewMtx[v] = t
      BY <2>0, <2>9 DEF UpdateRejects, LockInv, CallState
    <3>2. Base(v) = currentRoot[v] /\ Base(v)' = call[t].arg /\ Novel(v)' = Novel(v)
      BY <2>0, <2>9, <3>1 DEF UpdateRejects, Base, Novel, Decided, Keys
    <3>3. \A w \in View : w # v => Base(w)' = Base(w) /\ Novel(w)' = Novel(w)
      BY <2>0, <2>9, <3>1, OthersUndecided DEF UpdateRejects, Decided
    <3> QED
      BY <2>9, <3>1, <3>2, <3>3 DEF UpdateRejects, RootMatches, Abstract!FailedCommit, Stored, Keys
  <2>10. ASSUME NEW t \in Thread, SetRoot(t) PROVE Abstract!Commit(call[t].view, call[t].arg)
    <3>1. PICK v \in View : v = call[t].view /\ v \in open /\ viewMtx[v] = t /\ storeMtx = t
      BY <2>0, <2>10 DEF SetRoot, LockInv, CallState
    <3>2. Base(v) = currentRoot[v] /\ Base(v)' = call[t].arg /\ Novel(v) = Keys(pending[v]) /\ Novel(v)' = {}
      BY <2>0, <2>10, <3>1 DEF SetRoot, Base, Novel, Decided, Keys
    <3>3. \A w \in View : w # v => Base(w)' = Base(w) /\ Novel(w)' = Novel(w)
      BY <2>0, <2>10, <3>1, OthersUndecided DEF SetRoot, Decided
    <3>4. currentRoot[v] = rootHash /\ Keys(pending[v]) \subseteq Keys(store)
      BY <1>2, <2>10, <3>1 DEF SetRoot, LoopDone, IInv, CommitInv
    <3>5. Keys(store) = promised \cup Keys(pending[v])
      BY <1>2, <2>10, <3>1, <3>4 DEF SetRoot, IInv, Durable, NothingUncommittedInv
    <3>6. Stored = promised /\ Stored' = Keys(store)
      BY <2>10, <3>1 DEF SetRoot, Stored, Keys
    <3> QED
      <4>1. rootHash' = call[t].arg /\ open' = open
        BY <2>10 DEF SetRoot
      <4>2. [w \in View |-> Base(w)]' = [[w \in View |-> Base(w)] EXCEPT ![v] = call[t].arg]
        BY <3>1, <3>2, <3>3
      <4>3. [w \in View |-> Novel(w)]' = [[w \in View |-> Novel(w)] EXCEPT ![v] = {}]
        BY <3>1, <3>2, <3>3
      <4> QED
        BY <3>1, <3>2, <3>4, <3>5, <3>6, <4>1, <4>2, <4>3 DEF Abstract!Commit
  <2>11. ASSUME NEW t \in Thread, Finish(t) PROVE UNCHANGED Abstract!vars
    <3>1. PICK v \in View : v = call[t].view /\ v \in open /\ viewMtx[v] = t
      BY <2>0, <2>11 DEF Finish, LockInv, CallState
    <3>2. Base(v)' = Base(v) /\ Novel(v)' = Novel(v)
      <4>1. /\ viewMtx'[v] = None /\ currentRoot'[v] = call[t].arg
            /\ pending'[v] = IF call[t].pc = "persisted" THEN Empty ELSE pending[v]
            /\ call[t].pc \in {"persisted", "failed"}
        BY <2>0, <2>11, <3>1 DEF Finish, StillPending, RootAfter
      <4>2. Keys(Empty) = {}
        BY DEF Keys, Empty
      <4> QED
        BY <3>1, <4>1, <4>2 DEF Base, Novel, Decided, Keys
    <3>3. \A w \in View : w # v => Base(w)' = Base(w) /\ Novel(w)' = Novel(w)
      BY <2>0, <2>11, <3>1, OthersUndecided DEF Finish, Decided
    <3> QED
      <4>1. UNCHANGED <<rootHash, Stored, open>>
        BY <2>11 DEF Finish, Stored, Keys
      <4> QED
        BY <3>2, <3>3, <4>1
  <2>12. CASE UNCHANGED vars
    BY <2>12 DEF vars, Base, Novel, Decided, Stored, Keys
  <2>13. ASSUME NEW t \in Thread PROVE ~InsertThrows(t)
    BY DEF InsertThrows
  <2>14. ASSUME NEW t \in Thread, Progress(t) PROVE [Abstract!Next]_(Abstract!vars)
    <3>1. (call[t].view \in View /\ call[t].arg \in Hash) \/ call[t].pc \notin HoldsView
      BY <2>0 DEF LockInv, CallState
    <3>2. CASE StorageRoot(t)
      BY <2>5, <3>1, <3>2 DEF Abstract!Next, StorageRoot
    <3>3. CASE UpdateRejects(t)
      BY <2>9, <3>1, <3>3 DEF Abstract!Next, UpdateRejects
    <3>4. CASE SetRoot(t)
      BY <2>10, <3>1, <3>4 DEF Abstract!Next, SetRoot
    <3> QED
      BY <2>6, <2>7, <2>8, <2>11, <2>14, <3>2, <3>3, <3>4 DEF Progress
  <2>15. ASSUME NEW t \in Thread, NewCall(t) PROVE [Abstract!Next]_(Abstract!vars)
    <3>1. CASE \E v \in View, c \in Chunk : Put(t, v, c)
      BY <2>3, <3>1 DEF Abstract!Next
    <3> QED
      BY <2>4, <2>15, <3>1
  <2> QED
    BY <1>2, <2>1, <2>2, <2>6, <2>12, <2>13, <2>14, <2>15 DEF Next, Abstract!Next
<1> QED
  BY <1>1, <1>2, Invariance, UncommittedInvariance, PTL DEF Spec, ImplementsRootedStore, Abstract!Spec
=============================================================================
