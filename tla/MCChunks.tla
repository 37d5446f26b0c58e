------------------------------- MODULE MCChunks -------------------------------
(***************************************************************************)
(* Instances of Chunks for TLC.  Each component is checked by itself: a    *)
(* behaviour is of one part, and the others stay as they were at the       *)
(* start.                                                                  *)
(***************************************************************************)
EXTENDS Chunks, TLC

CONSTANTS m1, m2, h1, h2, h3, d0, d1, d2, w1, w2, c1, c2, c3

\* Two tables with room for some of the chunks, one of which has no bytes; one table may throw.
MCTable   == {m1, m2}
MCHash    == {h1, h2, h3}
MCData    == {d0, d1, d2}
MCSizeOf  == d0 :> 0 @@ d1 :> 1 @@ d2 :> 2
MCTight   == m1 :> 3 @@ m2 :> 2
MCFailing == {m2}

\* Two slots, symmetric, and slices made from two bytes.
MCWindows == {w1, w2}
MCTexts   == {<<0, 1>>}
Symmetry  == Permutations({w1, w2})

\* Three chunks of three buffers: two that share one and a third to assign from.  There are
\* contents with a hash each, and one hash of no content, which a caller may claim.
MCChunkSlots == {c1, c2, c3}
MCContents   == {1, 2}
MCOf         == <<h1, h2>>

VARIABLE part \* which of them the behaviour is of

MCInit == part \in {"tables", "slices", "chunks"} /\ Init /\ S!Init /\ C!Init
MCNext ==
  /\ part' = part
  /\ \/ part = "tables" /\ Next /\ UNCHANGED <<sliceVars, chunkVars>>
     \/ part = "slices" /\ S!Next /\ UNCHANGED <<vars, chunkVars>>
     \/ part = "chunks" /\ C!Next /\ UNCHANGED <<vars, sliceVars>>
MCSpec == MCInit /\ [][MCNext]_<<part, vars, sliceVars, chunkVars>>
=============================================================================
