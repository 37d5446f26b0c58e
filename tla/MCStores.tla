------------------------------- MODULE MCStores -------------------------------
(***************************************************************************)
(* Whether the calls of the factory, and of the stores, come to an end.    *)
(* Each is checked by itself: a behaviour is of one part, and the other    *)
(* stays as it was at the start.                                           *)
(***************************************************************************)
EXTENDS MemoryStoreFactory, TLC

CONSTANTS t1, t2, v1, v2, p1, p2, s1, s2, c1, h0, h1, NoChunk

MCThread == {t1, t2}
MCView   == {v1, v2}
MCPath   == {p1, p2}
MCStore  == {s1, s2}
MCRoot   == {h0, h1}

VARIABLES
  part,                                                          \* which of them the behaviour is of
  store, rootHash, storeMtx, open, currentRoot, pending, viewMtx, call, written, promised, since
                                                                 \* of MemoryStore

\* One chunk, whose hash also serves as a root; a getMany of it alone or of both hashes.
Memory == INSTANCE MemoryStoreProps WITH
  Hash <- Root, Roots <- Root, Chunk <- {c1}, HashOf <- c1 :> h1,
  Calls <- {"put", "rebase", "read", "commit"}, Requests <- {{h1}, Root}

memoryVars == <<store, rootHash, storeMtx, open, currentRoot, pending, viewMtx, call, written, promised, since>>

MCInit == part \in {"store", "factory"} /\ Init /\ Memory!Init
MCNext ==
  /\ part' = part
  /\ \/ part = "store" /\ Memory!Next /\ UNCHANGED vars
     \/ part = "factory" /\ Next /\ UNCHANGED memoryVars
MCSpec == MCInit /\ [][MCNext]_<<part, vars, memoryVars>>

\* As in FairSpec of either module.
MCFairSpec ==
  /\ MCSpec
  /\ \A t \in Thread : WF_vars(Progress(t)) /\ WF_memoryVars(Memory!Progress(t))
-----------------------------------------------------------------------------
\* Once no new call is made, every call of a store returns: no mutex stays locked, whichever
\* insertion throws (memory_store.h:50).
CallsReturn == Memory!CallsReturn
=============================================================================
