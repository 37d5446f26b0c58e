------------------------------- MODULE MCOwners -------------------------------
(***************************************************************************)
(* Instances of Owners for TLC.  Each component is checked by itself: a    *)
(* behaviour is of one part, and the others stay as they were at the       *)
(* start.                                                                  *)
(***************************************************************************)
EXTENDS Owners, TLC

\* Four pointers: two that lock one weak pointer while a strong one goes.
CONSTANTS t1, t2, t3, t4, p1, p2, p3, v1, v2
MCPtrs   == {t1, t2, t3, t4}
Symmetry == Permutations(Ptrs)

\* Three proxies, so that a copy or a swap leaves a third one alone.
MCProxies == {p1, p2, p3}
MCObjects == 1..5
MCValues  == {v1, v2}

\* Three hashes of two bytes of which the larger is a negative char.  One array more than
\* there are hashes; arrays are as symmetric as pointers, and stand for them.

\* The pointer of facades without weak ownership.
Shared == INSTANCE CompactPtr WITH Weak <- FALSE

VARIABLE part \* which of them the behaviour is of

MCInit == part \in {"weak", "shared", "proxies", "hashes"} /\ Init /\ P!Init /\ H!Init
MCNext ==
  /\ part' = part
  /\ \/ part = "weak" /\ Next /\ UNCHANGED <<proxyVars, hashVars>>
     \/ part = "shared" /\ Shared!Next /\ UNCHANGED <<proxyVars, hashVars>>
     \/ part = "proxies" /\ P!Next /\ UNCHANGED <<vars, hashVars>>
     \/ part = "hashes" /\ H!Next /\ UNCHANGED <<vars, proxyVars>>
MCSpec == MCInit /\ [][MCNext]_<<part, vars, proxyVars, hashVars>>
=============================================================================
