----------------------------- MODULE ByteSlice -----------------------------
(***************************************************************************)
(* Slices: windows on buffers that several of them may share.  Buffers are *)
(* numbered from 1 in the order they are made; 0 is no buffer.             *)
(***************************************************************************)
EXTENDS Integers, SequencesExt, TLC

CONSTANTS
  Slots,       \* variables that hold a slice
  Contents,    \* what a buffer may be made from
  Values,      \* what a byte may be set to
  Offsets,     \* where a slice may be cut or edited, or begin in a buffer
  Lengths,     \* how long it may be asked to be
  Word,        \* 2^64: sizes are below
  MaxOffset,   \* how far from the start of its buffer a slice may begin (a bound for TLC)
  MaxBytes,    \* how long a buffer may be (a bound for TLC; there is memory for no more)
  MaxBuffers   \* buffers made at most (a bound for TLC)

\* Assumed of the instances.
ByteSliceAssumption ==
  /\ \A c \in Contents : c \in Seq(Nat)
  /\ Values \subseteq Nat /\ Lengths \subseteq Nat /\ Word \in Nat /\ Offsets \subseteq 0..Word - 1
  /\ MaxOffset \in Nat /\ MaxBytes \in Nat /\ MaxBuffers \in Nat

VARIABLES
  heap,      \* the buffers
  slot,      \* the slice in each slot
  lent,      \* the buffers callers have made and keep
  kin,       \* history: the buffer the slice in a slot was made for, or that of the slice it comes from
  within,    \* history: slots whose window callers have kept within its buffer
  snapshot,  \* history: the bytes a slot was given, if its window is kept so
  edited     \* history: the slots one of whose kin has been edited since

vars == <<heap, slot, lent, kin, within, snapshot, edited>>

Null == [data |-> 0, offset |-> 0, sz |-> 0]

span(v) ==
  IF v.data = 0 THEN <<>>
  ELSE [i \in 1..v.sz |-> IF v.offset + i \in DOMAIN heap[v.data] THEN heap[v.data][v.offset + i] ELSE -1]
Bytes(s) == span(slot[s])

\* The bytes operator<=> works on: n of them from the start of the buffer.
\* Mutation: the whole buffer.
dataWhole(v, n) == IF v.data = 0 THEN <<>> ELSE heap[v.data]
data(v, n) == IF v.data = 0 THEN <<>> ELSE SubSeq(heap[v.data], 1, n)

\* What may be read from n places of a buffer: beyond its end that is undefined.
Reads(v, from, n) ==
  IF v.data = 0 THEN {<<>>}
  ELSE {[i \in 1..n |-> IF from + i \in DOMAIN heap[v.data] THEN heap[v.data][from + i] ELSE any[i]] :
          any \in [1..n -> Values]}

\* Nothing is read through a null pointer; a slice that has been moved from has one, and its size still.
Readable(v) == v.data # 0 \/ v.sz = 0

Init ==
  /\ heap = <<>>
  /\ slot = [s \in Slots |-> Null]
  /\ lent = {}
  /\ kin = [s \in Slots |-> 0]
  /\ within = Slots
  /\ snapshot = [s \in Slots |-> <<>>]
  /\ edited = {}
-----------------------------------------------------------------------------
\* Slot s gets slice v, of this family.
Put(s, v, family, fits) ==
  /\ slot' = [slot EXCEPT ![s] = v]
  /\ kin' = [kin EXCEPT ![s] = family]
  /\ within' = IF fits THEN within \cup {s} ELSE within \ {s}
  /\ edited' = edited \ {s}

\* One of a new buffer, kin to no other.
New(s, content) ==
  /\ Len(heap) < MaxBuffers /\ Len(content) <= MaxBytes
  /\ heap' = Append(heap, content)
  /\ Put(s, [data |-> Len(heap) + 1, offset |-> 0, sz |-> Len(content)], Len(heap) + 1, TRUE)
  /\ snapshot' = [snapshot EXCEPT ![s] = content]
  /\ UNCHANGED lent

\* The constructors that allocate.
Make(s) == \E content \in Contents : New(s, content)

\* The constructors that are given a pointer, to any of its bytes and as many of them as the caller
\* says: a null pointer, which the default is too, or one of the caller's, who keeps it.
Fits(v, h) == IF v.data = 0 THEN v.sz = 0 ELSE v.offset + v.sz <= Len(h[v.data])
Wrap(s) ==
  \E b \in 0..MaxBuffers, offset \in Offsets, length \in Lengths :
    LET v == [data |-> b, offset |-> offset, sz |-> length] IN
    /\ \/ b \in lent \cup {0} /\ UNCHANGED <<heap, lent>>
       \/ b = Len(heap) + 1 /\ lent' = lent \cup {b} /\ \E content \in Contents : heap' = Append(heap, content)
    /\ Put(s, v, b, Fits(v, heap'))
    /\ snapshot' = [snapshot EXCEPT ![s] = IF Fits(v, heap') THEN span(v)' ELSE <<>>]

\* Slot s gets slice v of the family of slot t; fits says whether v is within the slice there.
Derive(s, t, v, fits) ==
  /\ Put(s, v, kin[t], fits /\ t \in within)
  /\ snapshot' = [snapshot EXCEPT ![s] = IF fits /\ t \in within THEN span(v) ELSE <<>>]
  /\ UNCHANGED <<heap, lent>>

Copy(s, t) == Derive(s, t, slot[t], TRUE)

\* The target takes the buffer, the source keeps its window.
Move(s, t) ==
  /\ s # t
  /\ slot' = [slot EXCEPT ![s] = slot[t], ![t].data = 0]
  /\ kin' = [kin EXCEPT ![s] = kin[t], ![t] = 0]
  /\ within' = (IF t \in within THEN within \cup {s} ELSE within \ {s}) \ {t}
  /\ snapshot' = [snapshot EXCEPT ![s] = IF t \in within THEN Bytes(t) ELSE <<>>, ![t] = <<>>]
  /\ edited' = edited \ {s, t}
  /\ UNCHANGED <<heap, lent>>

\* subSlice without a length, and with one.  Nothing is checked; sz - offset wraps.
\* Mutation: the rest of a slice is as long as the slice.
RestUncut(v, offset) == v.sz
Rest(v, offset) == IF offset <= v.sz THEN v.sz - offset ELSE Word + v.sz - offset
Cut(v, offset, length) == [data |-> v.data, offset |-> v.offset + offset, sz |-> length]
SubSlice(s, t) ==
  \E offset \in Offsets :
    /\ slot[t].offset + offset <= MaxOffset
    /\ \/ Derive(s, t, Cut(slot[t], offset, Rest(slot[t], offset)), offset <= slot[t].sz)
       \/ \E length \in Lengths : Derive(s, t, Cut(slot[t], offset, length), offset + length <= slot[t].sz)

\* copy().
\* Mutation: the copy is a second slice of the buffer.
CopyShared(s, t) == /\ Readable(slot[t]) /\ Put(s, slot[t], Len(heap) + 1, t \in within)
                    /\ snapshot' = [snapshot EXCEPT ![s] = IF t \in within THEN Bytes(t) ELSE <<>>]
                    /\ UNCHANGED <<heap, lent>>
CopyBytes(s, t) ==
  /\ Readable(slot[t]) /\ slot[t].sz <= MaxBytes
  /\ \E bytes \in Reads(slot[t], slot[t].offset, slot[t].sz) : New(s, bytes)

\* operator+: a new buffer, of bytes that may not be those of the windows.
Concat(s, t, u) ==
  /\ Readable(slot[t]) /\ Readable(slot[u]) /\ slot[t].sz + slot[u].sz <= MaxBytes
  /\ \E x \in Reads(slot[t], 0, slot[t].sz), y \in Reads(slot[u], 0, slot[u].sz) : New(s, x \o y)

\* A byte of buffer b is set.
SetByte(b, place, value) == heap' = [heap EXCEPT ![b][place] = value]

\* Slices of this buffer show other bytes now.
Edited(slots) ==
  /\ edited' = edited \cup slots
  /\ snapshot' = [s \in Slots |-> IF s \in slots THEN <<>> ELSE snapshot[s]]
  /\ UNCHANGED <<slot, lent, kin, within>>

\* edit()[i] = value.  Beyond the end of the buffer this may hit a byte of any other, or none.
\* Mutation: the byte is looked for from the start of the buffer.
IndexFromStart(v, i) == i
Index(v, i) == v.offset + i
Edit(t, i) ==
  /\ slot[t].data # 0
  /\ LET b == slot[t].data  place == Index(slot[t], i) + 1 IN
     \/ /\ place \in DOMAIN heap[b]
        /\ \E value \in Values : SetByte(b, place, value)
        /\ Edited({s \in Slots : kin[s] = kin[t]})
     \/ /\ place \notin DOMAIN heap[b]
        /\ \/ UNCHANGED heap
           \/ \E c \in DOMAIN heap : \E hit \in DOMAIN heap[c], value \in Values : SetByte(c, hit, value)
        /\ Edited(Slots)

\* A caller sets a byte of a buffer it has made.
EditLent(b) ==
  /\ \E place \in DOMAIN heap[b], value \in Values : SetByte(b, place, value)
  /\ Edited({s \in Slots : kin[s] = b})

Next ==
  \/ \E s \in Slots : Make(s) \/ Wrap(s)
  \/ \E s, t \in Slots :
       \/ Copy(s, t) \/ Move(s, t) \/ SubSlice(s, t) \/ CopyBytes(s, t)
       \/ \E u \in Slots : Concat(s, t, u)
  \/ \E t \in Slots, i \in Offsets : Edit(t, i)
  \/ \E b \in lent : EditLent(b)

Spec == Init /\ [][Next]_vars
-----------------------------------------------------------------------------
\* operator<=>, -1 for less, 1 for greater.
\* Mutation: a slice that begins like the other is equal to it.
Sign(m, n) == IF m < n THEN -1 ELSE IF m > n THEN 1 ELSE 0
CompareWindowsPrefix(v, w) == 0
CompareWindows(v, w) == IF v.offset # w.offset THEN Sign(v.offset, w.offset) ELSE Sign(v.sz, w.sz)
Compare(v, w) ==
  LET n == IF v.sz < w.sz THEN v.sz ELSE w.sz
      a == data(v, n)
      b == data(w, n)
      differs == {i \in 1..n : a[i] # b[i]}
      first == CHOOSE i \in differs : \A j \in differs : i <= j
  IN  IF differs # {} THEN Sign(a[first], b[first]) ELSE CompareWindows(v, w)

\* The order of two sequences: by the first byte they differ in, else the shorter first.
Lexicographic(x, y) ==
  IF x = y THEN 0
  ELSE IF \/ IsStrictPrefix(x, y)
          \/ \E i \in DOMAIN x \cap DOMAIN y : SubSeq(x, 1, i - 1) = SubSeq(y, 1, i - 1) /\ x[i] < y[i]
       THEN -1 ELSE 1

(***************************************************************************)
(* A window that callers keep within its buffer, and within the slice it   *)
(* is cut from, stays there through copies, moves and cuts, so that span,  *)
(* operator[] and the editor touch nothing else (lines 67 to 92).  One     *)
(* that was moved from, or was made or cut too far, is never one of these. *)
(***************************************************************************)
WindowsAreBacked == \A s \in within : slot[s].data \in 0..Len(heap) /\ Fits(slot[s], heap)

(***************************************************************************)
(* An edit is seen through slices that come from each other by copying,    *)
(* moving or cutting, or are of one buffer of the caller's, and through no *)
(* others: copy(), operator+ and the constructors that copy give bytes of  *)
(* their own (slice_test.cc:28 and 34).                                    *)
(***************************************************************************)
EditsStayInTheFamily == \A s \in within \ edited : Bytes(s) = snapshot[s]

(***************************************************************************)
(* An edit within a slice that changes anything changes what it shows,     *)
(* wherever in its buffer its window starts (line 107).                    *)
(***************************************************************************)
EditsAreSeen ==
  [][\A t \in within, i \in Offsets : heap' # heap /\ i < slot[t].sz /\ Edit(t, i) => Bytes(t)' # Bytes(t)]_vars

(***************************************************************************)
(* Slices from the start of their buffers compare as their bytes do.  (The *)
(* others do not: lines 52 to 58 read data[i] from the start of the        *)
(* buffer, and go by the offsets where these bytes are equal.)             *)
(***************************************************************************)
FromStart(s) == s \in within /\ slot[s].offset = 0
ComparesBytes ==
  \A s, t \in Slots : FromStart(s) /\ FromStart(t) => Compare(slot[s], slot[t]) = Lexicographic(Bytes(s), Bytes(t))

(***************************************************************************)
(* operator+ gives the bytes of one slice after those of the other, when   *)
(* both are from the start of their buffers, where line 63 copies from.    *)
(***************************************************************************)
ConcatsBytes ==
  [][\A s, t, u \in Slots : FromStart(t) /\ FromStart(u) /\ Concat(s, t, u) => Bytes(s)' = Bytes(t) \o Bytes(u)]_vars
=============================================================================
