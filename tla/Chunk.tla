-------------------------------- MODULE Chunk --------------------------------
(***************************************************************************)
(* Chunks: a slice of a buffer and the hash it goes by.  Copies share the  *)
(* buffer.  Buffers are numbered from 1 in the order they are made; 0 is   *)
(* no buffer.  What is in a buffer matters as a whole.                     *)
(***************************************************************************)
EXTENDS Naturals, Sequences

CONSTANTS
  Slots,      \* variables that hold a chunk
  Contents,   \* what a buffer may hold
  Hashes, Of, \* hashes, and the one of each content
  Zero,       \* the hash of a chunk made from nothing
  Moved,      \* a hash that has been moved from
  MaxBuffers  \* buffers made at most (a bound for TLC)

\* Assumed of the instances.
ChunkAssumption ==
  Of \in [Contents -> Hashes] /\ Zero \notin Hashes /\ Moved \notin Hashes /\ Zero # Moved /\ MaxBuffers \in Nat

VARIABLES
  buffers,  \* the buffers
  chunk,    \* m_data and r of each chunk
  unsure    \* history: slots whose hash a caller has claimed, or whose bytes were edited since it was computed

vars == <<buffers, chunk, unsure>>

Default == [m_data |-> 0, r |-> Zero]

\* A chunk that was moved from has no hash to copy from or to.
Usable(s) == chunk[s].r # Moved

HashOf(s, b) == Of[buffers'[b]]

Init ==
  /\ buffers = <<>>
  /\ chunk = [s \in Slots |-> Default]
  /\ unsure = {}
-----------------------------------------------------------------------------
\* The doubt about a hash goes with the chunk.
Inherit(s, t) == unsure' = IF t \in unsure THEN unsure \cup {s} ELSE unsure \ {s}

MakeEmpty(s) ==
  /\ chunk' = [chunk EXCEPT ![s] = Default]
  /\ unsure' = unsure \ {s}
  /\ UNCHANGED buffers

\* A buffer for a chunk: a new one for a copy of bytes, or one the caller keeps too.
Buffer(b) ==
  \/ b \in DOMAIN buffers /\ UNCHANGED buffers
  \/ b = Len(buffers) + 1 /\ b <= MaxBuffers /\ \E c \in Contents : buffers' = Append(buffers, c)

Make(s) ==
  /\ \E b \in 1..MaxBuffers : Buffer(b) /\ chunk' = [chunk EXCEPT ![s] = [m_data |-> b, r |-> HashOf(s, b)]]
  /\ unsure' = unsure \ {s}

\* The hash is taken from the caller, as deserialize does, and not computed.
MakeClaimed(s) ==
  /\ \E b \in 1..MaxBuffers, h \in Hashes : Buffer(b) /\ chunk' = [chunk EXCEPT ![s] = [m_data |-> b, r |-> h]]
  /\ unsure' = unsure \cup {s}

\* Mutation: a chunk that has a buffer keeps its hash.
CopyHalf(s, t) ==
  /\ Usable(t)
  /\ chunk' = [chunk EXCEPT ![s] = IF @.m_data = 0 THEN chunk[t] ELSE [@ EXCEPT !.m_data = chunk[t].m_data]]
  /\ Inherit(s, t) /\ UNCHANGED buffers
\* A chunk is constructed in slot s or assigned to the one there, which then must be usable too.
Copy(s, t) ==
  /\ Usable(t)
  /\ chunk' = [chunk EXCEPT ![s] = chunk[t]]
  /\ Inherit(s, t)
  /\ UNCHANGED buffers

\* Moves leave a source without hash and buffer; a chunk moved to itself stays.
Move(s, t) ==
  /\ s # t
  /\ chunk' = [chunk EXCEPT ![s] = chunk[t], ![t] = [m_data |-> 0, r |-> Moved]]
  /\ unsure' = IF t \in unsure THEN (unsure \cup {s}) \ {t} ELSE unsure \ {s}
  /\ UNCHANGED buffers

\* data() gives a slice of the buffer, and a slice can be edited; so can a buffer by who made it.
Edit(b) ==
  /\ \E c \in Contents \ {buffers[b]} : buffers' = [buffers EXCEPT ![b] = c]
  /\ unsure' = unsure \cup {s \in Slots : chunk[s].m_data = b}
  /\ UNCHANGED chunk

Next ==
  \/ \E s \in Slots : MakeEmpty(s) \/ Make(s) \/ MakeClaimed(s)
  \/ \E s, t \in Slots : Copy(s, t) \/ Move(s, t)
  \/ \E b \in DOMAIN buffers : Edit(b)

Spec == Init /\ [][Next]_vars
-----------------------------------------------------------------------------
\* operator==: slices from the start of their buffers are equal when their bytes are.
\* Mutation: the buffers are compared and not what they hold.
EqualByBuffer(s, t) == chunk[s] = chunk[t]
Equal(s, t) ==
  /\ chunk[s].r = chunk[t].r
  /\ LET b == chunk[s].m_data d == chunk[t].m_data IN IF b = 0 \/ d = 0 THEN b = d ELSE buffers[b] = buffers[d]

(***************************************************************************)
(* Hash and data belong together through copies, moves and assignments: a  *)
(* chunk whose hash was computed goes by the hash of its bytes for as long *)
(* as nobody edits a slice of them, and a chunk without bytes has the hash *)
(* of an empty chunk or none (chunk.h:13 to 46).                           *)
(***************************************************************************)
HashIsOfData ==
  \A s \in Slots \ unsure :
    IF chunk[s].m_data = 0 THEN chunk[s].r \in {Zero, Moved} ELSE chunk[s].r = Of[buffers[chunk[s].m_data]]

(***************************************************************************)
(* A chunk may be known by its hash alone, as stores and tables do: two    *)
(* chunks whose hashes are those of their bytes are equal exactly when the *)
(* hashes are, whether or not they share a buffer (chunk.h:47).            *)
(***************************************************************************)
EqualByTheirHashes ==
  \A s, t \in Slots \ unsure : Usable(s) /\ Usable(t) => (Equal(s, t) <=> chunk[s].r = chunk[t].r)
=============================================================================
