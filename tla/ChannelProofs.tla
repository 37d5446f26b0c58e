--------------------------- MODULE ChannelProofs ---------------------------
(***************************************************************************)
(* Proofs about Channel, for any finite set of receiving threads, any      *)
(* values and any number of sends.                                         *)
(***************************************************************************)
EXTENDS ChannelProps, FiniteSetTheorems, SequenceTheorems, TLAPS

(***************************************************************************)
(* The queue, the flag and the threads keep their types.                   *)
(***************************************************************************)
THEOREM TypeCorrect == Spec => []TypeOK
<1>1. Init => TypeOK
  <2> SUFFICES ASSUME Init PROVE TypeOK
    OBVIOUS
  <2>1. queue \in Seq(Value)
    BY EmptySeq DEF Init
  <2>2. is_closed \in BOOLEAN /\ sends \in Nat /\ received \in Seq(Value)
    BY EmptySeq DEF Init
  <2>3. at \in [Thread -> {"idle", "ready", "waiting"}]
    BY DEF Init
  <2> QED
    BY <2>1, <2>2, <2>3 DEF TypeOK
<1>2. TypeOK /\ [Next]_vars => TypeOK'
  <2> SUFFICES ASSUME TypeOK, [Next]_vars PROVE TypeOK'
    OBVIOUS
  <2> USE DEF TypeOK
  <2>1. ASSUME NEW value \in Value, Send(value) PROVE TypeOK'
    BY <2>1 DEF Send, NotifyOne, Waiting, In
  <2>2. CASE Close
    BY <2>2 DEF Close, NotifyAll, Waiting, In
  <2>3. ASSUME NEW t \in Thread, Receive(t) \/ Wait(t) \/ SpuriousWakeup(t) \/ Throw(t) \/ CopyThrows(t)
        PROVE  TypeOK'
    BY <2>3 DEF Receive, Wait, SpuriousWakeup, Throw, CopyThrows
  <2>4. ASSUME NEW t \in Thread, Pop(t) PROVE TypeOK'
    <3>1. queue # <<>>
      BY <2>4 DEF Pop, MayReturn, Exhausted
    <3> QED
      BY <2>4, <3>1 DEF Pop, Popped
  <2>5. CASE UNCHANGED vars
    BY <2>5 DEF vars
  <2> QED
    BY <2>1, <2>2, <2>3, <2>4, <2>5 DEF Next, Run
<1> QED
  BY <1>1, <1>2, PTL DEF Spec

-----------------------------------------------------------------------------
\* The awake receivers can be counted, and one more or one fewer counts as such.
LEMMA ReadyIsFinite ==
  /\ IsFiniteSet(Ready)
  /\ Cardinality(Ready) \in Nat
<1>1. Ready \subseteq Thread
  BY DEF Ready, In
<1> QED
  BY <1>1, ChannelAssumption, FS_Subset, FS_CardinalityType

LEMMA OneMoreReady ==
  ASSUME TypeOK, NEW t \in Thread, at[t] # "ready", at' = [at EXCEPT ![t] = "ready"]
  PROVE  Cardinality(Ready') = Cardinality(Ready) + 1
<1>1. Ready' = Ready \cup {t} /\ t \notin Ready
  BY DEF Ready, In, TypeOK
<1> QED
  BY <1>1, ReadyIsFinite, FS_AddElement

LEMMA OneFewerReady ==
  ASSUME TypeOK, NEW t \in Thread, at[t] = "ready", at'[t] # "ready",
         at' = [at EXCEPT ![t] = at'[t]]
  PROVE  Cardinality(Ready') = Cardinality(Ready) - 1
<1>1. Ready' = Ready \ {t} /\ t \in Ready
  BY DEF Ready, In, TypeOK
<1> QED
  BY <1>1, ReadyIsFinite, FS_RemoveElement

(***************************************************************************)
(* No wakeup is lost while copies do not throw.                            *)
(***************************************************************************)
THEOREM NoWakeupIsLost ==
  ASSUME ~CopyFails
  PROVE  Spec => []ChannelInv
<1>1. Init => NoLostWakeup
  BY DEF Init, NoLostWakeup, Waiting, In
<1>2. ASSUME TypeOK, TypeOK', NoLostWakeup, [Next]_vars
      PROVE  NoLostWakeup'
  <2> USE <1>2, ReadyIsFinite
  <2>0. Len(queue) \in Nat
    BY DEF TypeOK
  <2>1. ASSUME NEW value \in Value, Send(value) PROVE NoLostWakeup'
    <3>1. Len(queue') = Len(queue) + 1 /\ is_closed' = is_closed
      BY <2>1 DEF Send, TypeOK
    <3>2. CASE Waiting = {}
      BY <2>1, <3>2 DEF Send, NotifyOne, NoLostWakeup, Waiting, In
    <3>3. CASE Waiting # {}
      <4>1. PICK t \in Waiting : at' = [at EXCEPT ![t] = "ready"]
        BY <2>1, <3>3 DEF Send, NotifyOne
      <4>2. Cardinality(Ready') = Cardinality(Ready) + 1
        BY <4>1, OneMoreReady DEF Waiting, In
      <4> QED
        BY <2>0, <3>1, <3>3, <4>2 DEF NoLostWakeup
    <3> QED
      BY <3>2, <3>3
  <2>2. CASE Close
    BY <2>2 DEF Close, NotifyAll, NoLostWakeup, Waiting, In, TypeOK
  <2>3. ASSUME NEW t \in Thread, Receive(t) \/ SpuriousWakeup(t) PROVE NoLostWakeup'
    <3>1. Cardinality(Ready') = Cardinality(Ready) + 1
      BY <2>3, OneMoreReady DEF Receive, SpuriousWakeup
    <3>2. Waiting' \subseteq Waiting /\ UNCHANGED <<queue, is_closed>>
      BY <2>3 DEF Receive, SpuriousWakeup, Waiting, In, TypeOK
    <3> QED
      BY <2>0, <3>1, <3>2 DEF NoLostWakeup
  <2>4. ASSUME NEW t \in Thread, Wait(t) PROVE NoLostWakeup'
    <3>1. queue' = <<>> /\ ~is_closed'
      BY <2>4 DEF Wait, MayReturn, TypeOK
    <3>2. Cardinality(Ready') \in Nat
      <4>1. Ready' \subseteq Thread
        BY DEF Ready, In
      <4> QED
        BY <4>1, ChannelAssumption, FS_Subset, FS_CardinalityType
    <3> QED
      BY <3>1, <3>2 DEF NoLostWakeup
  <2>5. ASSUME NEW t \in Thread, Throw(t) PROVE NoLostWakeup'
    BY <2>5 DEF Throw, Exhausted, NoLostWakeup, Waiting, In, TypeOK
  <2>6. ASSUME NEW t \in Thread, Pop(t) PROVE NoLostWakeup'
    <3>1. Cardinality(Ready') = Cardinality(Ready) - 1
      BY <2>6, OneFewerReady DEF Pop, TypeOK
    <3>2. Len(queue') = Len(queue) - 1 /\ is_closed' = is_closed
      BY <2>6 DEF Pop, Popped, MayReturn, Exhausted, TypeOK
    <3>3. Waiting' = Waiting
      BY <2>6 DEF Pop, Waiting, In, TypeOK
    <3> QED
      BY <2>0, <3>1, <3>2, <3>3 DEF NoLostWakeup
  <2>7. ASSUME NEW t \in Thread PROVE ~CopyThrows(t)
    BY DEF CopyThrows
  <2>8. CASE UNCHANGED vars
    BY <2>8 DEF vars, NoLostWakeup, Waiting, Ready, In
  <2> QED
    BY <2>1, <2>2, <2>3, <2>4, <2>5, <2>6, <2>7, <2>8 DEF Next, Run
<1>3. TypeOK /\ NoLostWakeup => ChannelInv
  BY DEF ChannelInv
<1> QED
  BY <1>1, <1>2, <1>3, TypeCorrect, PTL DEF Spec

-----------------------------------------------------------------------------
(***************************************************************************)
(* Every behaviour of the channel is one of the abstract channel.          *)
(***************************************************************************)
THEOREM ChannelKeepsOrder == Spec => KeepsOrder
<1> USE DEF Abstract!vars
<1>1. Init => Abstract!Init
  BY DEF Init, Abstract!Init
<1>2. ASSUME TypeOK, [Next]_vars PROVE [Abstract!Next]_(Abstract!vars)
  <2> USE <1>2 DEF TypeOK
  <2>1. ASSUME NEW value \in Value, Send(value) PROVE Abstract!Send(value)
    BY <2>1 DEF Send, NotifyOne, Waiting, In, Abstract!Send
  <2>2. CASE Close
    BY <2>2 DEF Close, NotifyAll, Waiting, In, Abstract!Close, Abstract!Next
  <2>3. ASSUME NEW t \in Thread, Receive(t) PROVE Abstract!Call(t)
    BY <2>3 DEF Receive, Abstract!Call
  <2>4. ASSUME NEW t \in Thread, Wait(t) \/ SpuriousWakeup(t) PROVE UNCHANGED Abstract!vars
    BY <2>4 DEF Wait, SpuriousWakeup
  <2>5. ASSUME NEW t \in Thread, Throw(t) PROVE Abstract!Fail(t)
    BY <2>5 DEF Throw, Exhausted, Abstract!Fail
  <2>6. ASSUME NEW t \in Thread, Pop(t) PROVE Abstract!Take(t)
    BY <2>6 DEF Pop, Popped, MayReturn, Exhausted, Abstract!Take
  <2>7. ASSUME NEW t \in Thread, CopyThrows(t) PROVE Abstract!Abandon(t)
    BY <2>7 DEF CopyThrows, MayReturn, Exhausted, Abstract!Abandon
  <2>8. CASE UNCHANGED vars
    BY <2>8 DEF vars
  <2> QED
    BY <2>1, <2>2, <2>3, <2>4, <2>5, <2>6, <2>7, <2>8 DEF Next, Run, Abstract!Next, Abstract!Answer
<1> QED
  BY <1>1, <1>2, TypeCorrect, PTL DEF Spec, KeepsOrder, Abstract!Safety
=============================================================================
