---------------------------- MODULE ChannelProps ----------------------------
(***************************************************************************)
(* What Channel promises, over Channel, and the abstract channel it is.    *)
(***************************************************************************)
EXTENDS Channel

(***************************************************************************)
(* No lost wakeup.  While a receiver is blocked there are awake receivers  *)
(* enough for all that is queued, whatever became of the notifications:    *)
(* taken by a receiver that had never waited, or spent on one that had     *)
(* woken by itself.  And no receiver is blocked on a closed channel.       *)
(***************************************************************************)
NoLostWakeup ==
  Waiting # {} => Len(queue) <= Cardinality(Ready) /\ ~is_closed

\* With the types, it is inductive as it stands.
ChannelInv == TypeOK /\ NoLostWakeup

(***************************************************************************)
(* Once the channel is closed and nobody calls receive any more, every     *)
(* receive in progress ends, with a value or with an exception.            *)
(***************************************************************************)
CloseReleases ==
  <>is_closed /\ <>[][\A t \in Thread : ~Receive(t)]_vars => <>[](\A t \in Thread : at[t] = "idle")

(***************************************************************************)
(* The channel is the abstract one: first in, first out, each value once,  *)
(* values sent before or after close received before any receive fails,    *)
(* and no value left lying while a receiver waits.  A copy that throws     *)
(* spends a wakeup, so the last of these needs copies that do not throw.   *)
(***************************************************************************)
Abstract == INSTANCE AbstractChannel WITH receiving <- {t \in Thread : at[t] # "idle"}
ImplementsChannel == Abstract!Spec
KeepsOrder == Abstract!Safety
=============================================================================
