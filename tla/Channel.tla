------------------------------ MODULE Channel ------------------------------
(***************************************************************************)
(* Channel<T> (channel.h): an unbounded queue behind a mutex, and a        *)
(* condition variable on which receive waits.  Nothing blocks while it     *)
(* holds the mutex but wait, which gives it up, so each stretch of code    *)
(* between taking the mutex and giving it up is one action.                *)
(***************************************************************************)
EXTENDS Naturals, Sequences, FiniteSets

CONSTANTS
  Thread,    \* the threads that call receive
  Value,     \* what is sent
  MaxSends,  \* bound: values sent in a behaviour
  CopyFails  \* whether T's copy constructor may throw

ASSUME ChannelAssumption ==
  /\ IsFiniteSet(Thread)
  /\ MaxSends \in Nat
  /\ CopyFails \in BOOLEAN

VARIABLES
  queue,      \* Channel::queue
  is_closed,  \* Channel::is_closed
  at,         \* where each thread is: outside receive, about to take the
              \* mutex and test the predicate, or blocked in wait
  sends,      \* history: how many values have been sent
  received    \* history: the values receive has returned, in order

vars == <<queue, is_closed, at, sends, received>>

In(place) == {t \in Thread : at[t] = place}
Ready   == In("ready")
Waiting == In("waiting")

TypeOK ==
  /\ queue \in Seq(Value)
  /\ is_closed \in BOOLEAN
  /\ at \in [Thread -> {"idle", "ready", "waiting"}]
  /\ sends \in Nat
  /\ received \in Seq(Value)

Init ==
  /\ queue = <<>>
  /\ is_closed = FALSE
  /\ at = [t \in Thread |-> "idle"]
  /\ sends = 0
  /\ received = <<>>
-----------------------------------------------------------------------------
\* notify_one: one of the waiting threads, if there is one.  Mutation: no call of it.
NotifyNone == at' = at
NotifyOne ==
  IF Waiting = {} THEN at' = at
  ELSE \E t \in Waiting : at' = [at EXCEPT ![t] = "ready"]

\* notify_all.  Mutation: notify_one in its place.
NotifyAny == NotifyOne
NotifyAll == at' = [t \in Thread |-> IF t \in Waiting THEN "ready" ELSE at[t]]

\* The predicate of wait, tested before and after every wait.  Mutation: a
\* predicate that has forgotten close.
OnlyValues == queue # <<>>
MayReturn == queue # <<>> \/ is_closed

\* When receive throws.
Exhausted == is_closed /\ queue = <<>>

\* pop.  Mutation: no call of it.
Unpopped == queue
Popped == Tail(queue)

\* send does not ask whether the channel is closed.
Send(value) ==
  /\ sends < MaxSends
  /\ queue' = Append(queue, value)
  /\ NotifyOne
  /\ sends' = sends + 1
  /\ UNCHANGED <<is_closed, received>>

Receive(t) ==
  /\ at[t] = "idle"
  /\ at' = [at EXCEPT ![t] = "ready"]
  /\ UNCHANGED <<queue, is_closed, sends, received>>

Wait(t) ==
  /\ at[t] = "ready"
  /\ ~MayReturn
  /\ at' = [at EXCEPT ![t] = "waiting"]
  /\ UNCHANGED <<queue, is_closed, sends, received>>

\* wait may return unasked; the predicate is then tested again.
SpuriousWakeup(t) ==
  /\ at[t] = "waiting"
  /\ at' = [at EXCEPT ![t] = "ready"]
  /\ UNCHANGED <<queue, is_closed, sends, received>>

Throw(t) ==
  /\ at[t] = "ready"
  /\ MayReturn
  /\ Exhausted
  /\ at' = [at EXCEPT ![t] = "idle"]
  /\ UNCHANGED <<queue, is_closed, sends, received>>

Pop(t) ==
  /\ at[t] = "ready"
  /\ MayReturn
  /\ ~Exhausted
  /\ received' = Append(received, Head(queue))
  /\ queue' = Popped
  /\ at' = [at EXCEPT ![t] = "idle"]
  /\ UNCHANGED <<is_closed, sends>>

\* "T value = queue.front()" throws: the value stays, the wakeup is spent.
CopyThrows(t) ==
  /\ CopyFails
  /\ at[t] = "ready"
  /\ MayReturn
  /\ ~Exhausted
  /\ at' = [at EXCEPT ![t] = "idle"]
  /\ UNCHANGED <<queue, is_closed, sends, received>>

Close ==
  /\ is_closed' = TRUE
  /\ NotifyAll
  /\ UNCHANGED <<queue, sends, received>>
-----------------------------------------------------------------------------
\* A thread that has the mutex to take takes it and runs on.
Run(t) == Wait(t) \/ Throw(t) \/ Pop(t)

Next ==
  \/ \E value \in Value : Send(value)
  \/ Close
  \/ \E t \in Thread : Receive(t) \/ Run(t) \/ SpuriousWakeup(t) \/ CopyThrows(t)

Spec == Init /\ [][Next]_vars

\* The mutex goes to some thread that wants it, not to each in its turn.
FairSpec == Spec /\ WF_vars(\E t \in Thread : Run(t))
=============================================================================
