-------------------------- MODULE AbstractChannel --------------------------
(***************************************************************************)
(* What a channel promises its callers, with no condition variable in it:  *)
(* values are taken in the order they were sent, each once; a receive that *)
(* fails to copy its value leaves it in its place; close ends the receives *)
(* that find nothing; and while there is a value, or an end, to be had,    *)
(* some caller of receive comes to have it.                                *)
(***************************************************************************)
EXTENDS Sequences

CONSTANTS Thread, Value, CopyFails

VARIABLES
  queue,      \* the values sent and not received
  is_closed,  \* whether close has been called
  receiving,  \* the threads in receive
  received    \* the values receive has returned, in order

vars == <<queue, is_closed, receiving, received>>

Init == queue = <<>> /\ is_closed = FALSE /\ receiving = {} /\ received = <<>>

Send(value) ==
  /\ queue' = Append(queue, value)
  /\ UNCHANGED <<is_closed, receiving, received>>

Call(t) ==
  /\ t \notin receiving
  /\ receiving' = receiving \cup {t}
  /\ UNCHANGED <<queue, is_closed, received>>

Take(t) ==
  /\ t \in receiving
  /\ queue # <<>>
  /\ received' = Append(received, Head(queue))
  /\ queue' = Tail(queue)
  /\ receiving' = receiving \ {t}
  /\ UNCHANGED is_closed

Abandon(t) ==
  /\ CopyFails
  /\ t \in receiving
  /\ queue # <<>>
  /\ receiving' = receiving \ {t}
  /\ UNCHANGED <<queue, is_closed, received>>

Fail(t) ==
  /\ t \in receiving
  /\ is_closed
  /\ queue = <<>>
  /\ receiving' = receiving \ {t}
  /\ UNCHANGED <<queue, is_closed, received>>

Close ==
  /\ is_closed' = TRUE
  /\ UNCHANGED <<queue, receiving, received>>

Answer == \E t \in Thread : Take(t) \/ Fail(t)

Next ==
  \/ \E value \in Value : Send(value)
  \/ \E t \in Thread : Call(t) \/ Abandon(t)
  \/ Answer
  \/ Close

Safety == Init /\ [][Next]_vars
Spec == Safety /\ WF_vars(Answer)
=============================================================================
