---------------------------- MODULE OwnersProofs ----------------------------
(***************************************************************************)
(* Proofs about Hash and Proxy, for any hashes of any length, any proxies  *)
(* and any values.                                                         *)
(***************************************************************************)
EXTENDS Owners, FiniteSetTheorems, WellFoundedInduction, TLAPS

-----------------------------------------------------------------------------
(***************************************************************************)
(* Hashes: who owns which array.                                           *)
(***************************************************************************)
HashTypeOK ==
  /\ data \in [Hashes -> Arrays \cup {Nil, Null}]
  /\ live \subseteq Arrays /\ lost \subseteq live
  /\ content \in [Arrays -> H!Bytes]
  /\ value \in [Hashes -> H!Bytes]
  /\ down \in BOOLEAN

HashInv == HashTypeOK /\ H!OneOwner /\ H!ValuesAreKept /\ H!OnlyMoveAssignmentLeaks /\ H!OnlyMovedFromHashesFail

\* A hash of its own array: its source, and every other hash, has another or none.
LEMMA OwnersDiffer ==
  ASSUME HashInv
  PROVE  \A h, g \in Hashes : data[h] \in Arrays =>
           data[h] \in live /\ data[h] \notin lost /\ (g # h => data[g] # data[h])
BY DEF HashInv, H!OneOwner, H!Has

LEMMA ZerosAreBytes == H!Zeros \in H!Bytes
BY HashAssumption DEF H!HashAssumption, H!Zeros, H!Bytes

\* A new array goes to one hash, with the bytes it was asked for.
LEMMA AllocateKeepsHashes ==
  ASSUME HashInv, ~down, NEW h \in Hashes, NEW bytes \in H!Bytes, H!Allocate(h, bytes)
  PROVE  HashInv'
<1> USE HashAssumption DEF H!HashAssumption
<1>1. PICK a \in Arrays \ live :
        /\ data' = [data EXCEPT ![h] = a]
        /\ live' = live \cup {a}
        /\ content' = [content EXCEPT ![a] = bytes]
  BY DEF H!Allocate
<1>2. value' = [value EXCEPT ![h] = bytes] /\ lost' = lost /\ down' = down /\ data[h] = Nil
  BY DEF H!Allocate
<1>3. HashTypeOK'
  BY <1>1, <1>2 DEF HashInv, HashTypeOK
<1>4. data'[h] = a /\ content'[a] = bytes /\ value'[h] = bytes /\ a \notin live
  BY <1>1, <1>2 DEF HashInv, HashTypeOK
<1>5. \A g \in Hashes \ {h} :
        data'[g] = data[g] /\ value'[g] = value[g] /\ (data[g] \in Arrays => data[g] \in live /\ data[g] # a)
  BY <1>1, <1>2, <1>4, OwnersDiffer DEF HashInv, HashTypeOK
<1>6. H!OneOwner'
  BY <1>1, <1>2, <1>4, <1>5, OwnersDiffer DEF HashInv, HashTypeOK, H!OneOwner, H!Has
<1>7. H!ValuesAreKept'
  <2>1. \A b \in Arrays \ {a} : content'[b] = content[b]
    BY <1>1 DEF HashInv, HashTypeOK
  <2> QED
    BY <1>4, <1>5, <2>1 DEF HashInv, H!ValuesAreKept, H!Has
<1>8. H!OnlyMoveAssignmentLeaks'
  <2>1. {g \in Hashes : data'[g] \in Arrays} = {g \in Hashes : data[g] \in Arrays} \cup {h}
    BY <1>2, <1>4, <1>5
  <2>2. live = lost \cup {data[g] : g \in {k \in Hashes : data[k] \in Arrays}}
    BY DEF HashInv, H!OnlyMoveAssignmentLeaks, H!Has
  <2>3. live' = lost' \cup {data'[g] : g \in {k \in Hashes : data'[k] \in Arrays}}
    BY <1>1, <1>2, <1>4, <1>5, <2>1, <2>2
  <2> QED
    BY <2>3 DEF H!OnlyMoveAssignmentLeaks, H!Has
<1> QED
  BY <1>2, <1>3, <1>6, <1>7, <1>8 DEF HashInv, H!OnlyMovedFromHashesFail

\* The array of g goes to h, and h's own, if it has one, to nobody.
LEMMA HandOver ==
  ASSUME HashInv, ~down, NEW h \in Hashes, NEW g \in Hashes, h # g, data[g] # Nil,
         data' = [data EXCEPT ![h] = data[g], ![g] = Null],
         value' = [value EXCEPT ![h] = value[g]],
         lost' = IF data[h] \in Arrays THEN lost \cup {data[h]} ELSE lost,
         UNCHANGED <<live, content, down>>
  PROVE  HashInv'
<1> USE HashAssumption DEF H!HashAssumption
<1>1. HashTypeOK'
  BY OwnersDiffer DEF HashInv, HashTypeOK
<1>2. /\ data'[h] = data[g] /\ data'[g] = Null /\ value'[h] = value[g]
      /\ \A k \in Hashes \ {h, g} : data'[k] = data[k] /\ value'[k] = value[k]
  BY DEF HashInv, HashTypeOK
<1>3. H!OneOwner'
  <2> SUFFICES ASSUME NEW k \in Hashes, data'[k] \in Arrays
               PROVE  data'[k] \in live' \ lost' /\ \A i \in Hashes : data'[i] = data'[k] => i = k
    BY DEF H!OneOwner, H!Has
  <2>1. k # g
    BY <1>2
  <2>2. CASE k = h
    BY <1>2, <2>2, OwnersDiffer DEF HashInv, HashTypeOK
  <2>3. CASE k # h
    BY <1>2, <2>1, <2>3, OwnersDiffer DEF HashInv, HashTypeOK
  <2> QED
    BY <2>2, <2>3
<1>4. H!ValuesAreKept'
  <2> SUFFICES ASSUME NEW k \in Hashes, data'[k] \in Arrays PROVE content[data'[k]] = value'[k]
    BY DEF H!ValuesAreKept, H!Has
  <2>1. k # g
    BY <1>2
  <2> QED
    BY <1>2, <2>1 DEF HashInv, HashTypeOK, H!ValuesAreKept, H!Has
<1>5. H!OnlyMoveAssignmentLeaks'
  <2> DEFINE Before == {data[k] : k \in {i \in Hashes : data[i] \in Arrays}}
             After == {data'[k] : k \in {i \in Hashes : data'[i] \in Arrays}}
  <2>1. live = lost \cup Before
    BY DEF HashInv, H!OnlyMoveAssignmentLeaks, H!Has
  <2>2. After = Before \ {data[h]}
    BY <1>2, OwnersDiffer DEF HashInv, HashTypeOK
  <2>3. live' = lost' \cup After
    BY <2>1, <2>2
  <2> QED
    BY <2>3 DEF H!OnlyMoveAssignmentLeaks, H!Has
<1> QED
  BY <1>1, <1>3, <1>4, <1>5 DEF HashInv, H!OnlyMovedFromHashesFail

\* Where a null pointer is used nothing changes but that the program has ended.
LEMMA GoingDownKeepsHashes ==
  ASSUME HashInv, NEW h \in Hashes, data[h] = Null, H!GoesDown
  PROVE  HashInv'
BY DEF H!GoesDown, HashInv, HashTypeOK, H!OneOwner, H!ValuesAreKept, H!OnlyMoveAssignmentLeaks,
       H!OnlyMovedFromHashesFail, H!Has

LEMMA CopyAssignKeepsHashes ==
  ASSUME HashInv, ~down, NEW h \in Hashes, NEW g \in Hashes, data[h] \in Arrays, data[g] \in Arrays, h # g,
         content' = [content EXCEPT ![data[h]] = content[data[g]]],
         value' = [value EXCEPT ![h] = value[g]],
         UNCHANGED <<data, live, lost, down>>
  PROVE  HashInv'
<1>1. /\ h # g /\ data[h] \in Arrays /\ data[g] \in Arrays
      /\ content' = [content EXCEPT ![data[h]] = content[data[g]]]
      /\ value' = [value EXCEPT ![h] = value[g]]
      /\ data' = data /\ live' = live /\ lost' = lost /\ down' = down
  OBVIOUS
<1>2. content[data[g]] = value[g]
  BY <1>1 DEF HashInv, H!ValuesAreKept, H!Has
<1>3. HashTypeOK'
  BY <1>1 DEF HashInv, HashTypeOK
<1>4. H!OneOwner' /\ H!OnlyMoveAssignmentLeaks'
  BY <1>1 DEF HashInv, H!OneOwner, H!OnlyMoveAssignmentLeaks, H!Has
<1>5. H!ValuesAreKept'
  BY <1>1, <1>2, OwnersDiffer DEF HashInv, HashTypeOK, H!ValuesAreKept, H!Has
<1> QED
  BY <1>1, <1>3, <1>4, <1>5 DEF HashInv, H!OnlyMovedFromHashesFail

LEMMA DestroyKeepsHashes ==
  ASSUME HashInv, ~down, NEW h \in Hashes, H!Destroy(h)
  PROVE  HashInv'
<1> USE HashAssumption, ZerosAreBytes DEF H!HashAssumption
<1>1. /\ data' = [data EXCEPT ![h] = Nil]
      /\ live' = live \ {data[h]} /\ lost' = lost /\ down' = down
      /\ content' = IF data[h] \in Arrays THEN [content EXCEPT ![data[h]] = H!Zeros] ELSE content
      /\ value' = [value EXCEPT ![h] = H!Zeros]
  BY DEF H!Destroy, H!Deleted, H!Has
<1>2. data[h] \notin lost
  BY OwnersDiffer DEF HashInv, HashTypeOK
<1>3. HashTypeOK'
  BY <1>1, <1>2 DEF HashInv, HashTypeOK
<1>4. data'[h] = Nil /\ \A k \in Hashes \ {h} : data'[k] = data[k] /\ value'[k] = value[k]
  BY <1>1 DEF HashInv, HashTypeOK
<1>5. H!OneOwner'
  BY <1>1, <1>4, OwnersDiffer DEF HashInv, H!OneOwner, H!Has
<1>6. H!ValuesAreKept'
  <2> SUFFICES ASSUME NEW k \in Hashes, data'[k] \in Arrays PROVE content'[data'[k]] = value'[k]
    BY DEF H!ValuesAreKept, H!Has
  <2>1. k # h /\ data'[k] = data[k] /\ data[k] # data[h] /\ value'[k] = value[k]
    BY <1>4, OwnersDiffer
  <2>2. content'[data[k]] = content[data[k]]
    BY <1>1, <2>1 DEF HashInv, HashTypeOK
  <2> QED
    BY <2>1, <2>2 DEF HashInv, H!ValuesAreKept, H!Has
<1>7. H!OnlyMoveAssignmentLeaks'
  <2> DEFINE Before == {data[k] : k \in {i \in Hashes : data[i] \in Arrays}}
             After == {data'[k] : k \in {i \in Hashes : data'[i] \in Arrays}}
  <2>1. live = lost \cup Before
    BY DEF HashInv, H!OnlyMoveAssignmentLeaks, H!Has
  <2>2. After = Before \ {data[h]}
    BY <1>4, OwnersDiffer
  <2>3. live' = lost' \cup After
    BY <1>1, <1>2, <2>1, <2>2
  <2> QED
    BY <2>3 DEF H!OnlyMoveAssignmentLeaks, H!Has
<1> QED
  BY <1>1, <1>3, <1>5, <1>6, <1>7 DEF HashInv, H!OnlyMovedFromHashesFail

\* No operation leaves two hashes with one array, or one with another's bytes.
LEMMA HashesStayOwned ==
  ASSUME HashInv, H!Next
  PROVE  HashInv'
<1> USE HashAssumption DEF H!HashAssumption
<1>0. ~down
  BY DEF H!Next
<1> PICK h \in Hashes :
      \/ H!Construct(h) \/ H!Destroy(h)
      \/ \E g \in Hashes : H!CopyConstruct(h, g) \/ H!MoveConstruct(h, g) \/ H!CopyAssign(h, g) \/ H!MoveAssign(h, g)
  BY DEF H!Next
<1>1. CASE H!Construct(h)
  BY <1>0, <1>1, AllocateKeepsHashes DEF H!Construct
<1>2. CASE H!Destroy(h)
  BY <1>0, <1>2, DestroyKeepsHashes
<1>3. ASSUME NEW g \in Hashes, H!CopyConstruct(h, g) PROVE HashInv'
  <2>1. CASE data[g] \in Arrays
    <3>1. content[data[g]] \in H!Bytes
      BY <2>1 DEF HashInv, HashTypeOK
    <3> QED
      BY <1>0, <1>3, <2>1, <3>1, AllocateKeepsHashes DEF H!CopyConstruct, H!Has
  <2>2. CASE data[g] \notin Arrays
    <3>1. data[g] = Null
      BY <1>3, <2>2 DEF H!CopyConstruct, HashInv, HashTypeOK
    <3> QED
      BY <1>3, <2>2, <3>1, GoingDownKeepsHashes DEF H!CopyConstruct, H!Has
  <2> QED
    BY <2>1, <2>2
<1>4. ASSUME NEW g \in Hashes, H!MoveConstruct(h, g) PROVE HashInv'
  <2>1. h # g /\ data[g] # Nil /\ data[h] \notin Arrays
    BY <1>4 DEF H!MoveConstruct
  <2>2. /\ data' = [data EXCEPT ![h] = data[g], ![g] = Null]
        /\ value' = [value EXCEPT ![h] = value[g]]
        /\ UNCHANGED <<live, content, lost, down>>
    BY <1>4 DEF H!MoveConstruct, H!Emptied
  <2> QED
    BY <1>0, <2>1, <2>2, HandOver
<1>5. ASSUME NEW g \in Hashes, H!CopyAssign(h, g) PROVE HashInv'
  <2>1. CASE data[h] \in Arrays /\ data[g] \in Arrays
    BY <1>0, <1>5, <2>1, CopyAssignKeepsHashes DEF H!CopyAssign, H!Has
  <2>2. CASE ~(data[h] \in Arrays /\ data[g] \in Arrays)
    <3>1. data[h] = Null \/ data[g] = Null
      BY <1>5, <2>2 DEF H!CopyAssign, HashInv, HashTypeOK
    <3>2. H!GoesDown
      BY <1>5, <2>2 DEF H!CopyAssign, H!Has
    <3> QED
      BY <3>1, <3>2, GoingDownKeepsHashes
  <2> QED
    BY <2>1, <2>2
<1>6. ASSUME NEW g \in Hashes, H!MoveAssign(h, g) PROVE HashInv'
  BY <1>0, <1>6, HandOver DEF H!MoveAssign, H!Emptied, H!Has
<1> QED
  BY <1>1, <1>2, <1>3, <1>4, <1>5, <1>6

THEOREM HashesAreOwned == H!Spec => []HashInv
<1>1. H!Init => HashInv
  <2> USE HashAssumption, ZerosAreBytes DEF H!HashAssumption
  <2> SUFFICES ASSUME H!Init PROVE HashInv
    OBVIOUS
  <2>1. HashTypeOK
    BY DEF H!Init, HashTypeOK
  <2>2. \A h \in Hashes : data[h] \notin Arrays
    BY DEF H!Init
  <2> QED
    BY <2>1, <2>2 DEF HashInv, H!Init, H!OneOwner, H!ValuesAreKept, H!OnlyMoveAssignmentLeaks, H!OnlyMovedFromHashesFail,
                      H!Has
<1>2. HashInv /\ [H!Next]_(H!vars) => HashInv'
  <2>1. ASSUME HashInv, UNCHANGED <<data, live, content, value, lost, down>> PROVE HashInv'
    BY <2>1 DEF H!vars, HashInv, HashTypeOK, H!OneOwner, H!ValuesAreKept, H!OnlyMoveAssignmentLeaks,
                H!OnlyMovedFromHashesFail, H!Has
  <2> QED
    BY <2>1, HashesStayOwned DEF H!vars
<1> QED
  BY <1>1, <1>2, PTL DEF H!Spec

-----------------------------------------------------------------------------
(***************************************************************************)
(* Hashes: operator< is a strict total order on arrays of one length.      *)
(***************************************************************************)

\* Every set of natural numbers but the empty one has a least element.
LEMMA LeastOf ==
  ASSUME NEW S \in SUBSET Nat, S # {}
  PROVE  \E n \in S : \A m \in S : n <= m
<1>1. IsWellFoundedOn(OpToRel(<, Nat), Nat)
  BY NatLessThanWellFounded, Zenon
<1>2. PICK n \in S : \A m \in S : ~ (<<m, n>> \in OpToRel(<, Nat))
  BY <1>1, WFMin, Zenon
<1>3. \A m \in S : ~(m < n)
  BY <1>2 DEF OpToRel
<1> QED
  BY <1>3

\* Two bytes are one number as chars only if they are one as bytes.
LEMMA CharIsInjective ==
  ASSUME NEW b \in 0..ByteWord - 1, NEW c \in 0..ByteWord - 1
  PROVE  /\ H!Char(b) \in Int /\ H!Char(c) \in Int
         /\ H!Char(b) = H!Char(c) => b = c
BY HashAssumption DEF H!HashAssumption, H!Char

\* Different arrays are decided at the first place at which they differ.
LEMMA LessIsTotal ==
  ASSUME NEW x \in H!Bytes, NEW y \in H!Bytes, x # y
  PROVE  H!Less(x, y) \/ H!Less(y, x)
<1> USE HashAssumption DEF H!HashAssumption, H!Bytes
<1> DEFINE D == {i \in 1..ByteLen : x[i] # y[i]}
<1>1. D # {} /\ D \in SUBSET Nat
  <2>1. \E i \in 1..ByteLen : x[i] # y[i]
    OBVIOUS
  <2>2. \A i \in 1..ByteLen : i \in Nat
    OBVIOUS
  <2> QED
    BY <2>1, <2>2
<1>2. PICK i \in D : \A j \in D : i <= j
  BY <1>1, LeastOf
<1>3. \A j \in 1..i - 1 : x[j] = y[j] /\ y[j] = x[j]
  BY <1>2
<1>4. H!Char(x[i]) < H!Char(y[i]) \/ H!Char(y[i]) < H!Char(x[i])
  <2>1. x[i] \in 0..ByteWord - 1 /\ y[i] \in 0..ByteWord - 1 /\ x[i] # y[i]
    BY <1>2
  <2>2. H!Char(x[i]) \in Int /\ H!Char(y[i]) \in Int /\ H!Char(x[i]) # H!Char(y[i])
    BY <2>1, CharIsInjective
  <2> QED
    BY <2>2
<1> QED
  BY <1>2, <1>3, <1>4 DEF H!Less

\* Where x is less than y at i they are equal before i, so that of two such places neither comes first.
LEMMA LessIsStrict ==
  ASSUME NEW x \in H!Bytes, NEW y \in H!Bytes, H!Less(x, y)
  PROVE  x # y /\ ~H!Less(y, x)
<1> USE HashAssumption DEF H!HashAssumption, H!Bytes
<1>1. PICK i \in 1..ByteLen : H!Char(x[i]) < H!Char(y[i]) /\ \A j \in 1..i - 1 : x[j] = y[j]
  BY DEF H!Less
<1>2. \A k \in 1..ByteLen : H!Char(x[k]) \in Int /\ H!Char(y[k]) \in Int
  BY CharIsInjective
<1>3. x # y
  BY <1>1, <1>2
<1>4. ASSUME NEW k \in 1..ByteLen, H!Char(y[k]) < H!Char(x[k]), \A j \in 1..k - 1 : y[j] = x[j]
      PROVE  FALSE
  <2>1. CASE k < i
    <3>1. x[k] = y[k]
      BY <1>1, <2>1
    <3> QED
      BY <1>2, <1>4, <3>1
  <2>2. CASE i < k
    <3>1. y[i] = x[i]
      BY <1>4, <2>2
    <3> QED
      BY <1>1, <1>2, <3>1
  <2>3. CASE i = k
    BY <1>1, <1>2, <1>4, <2>3
  <2> QED
    BY <2>1, <2>2, <2>3
<1> QED
  BY <1>3, <1>4 DEF H!Less

\* The first of the two places decides.
LEMMA LessIsTransitive ==
  ASSUME NEW x \in H!Bytes, NEW y \in H!Bytes, NEW z \in H!Bytes, H!Less(x, y), H!Less(y, z)
  PROVE  H!Less(x, z)
<1> USE HashAssumption DEF H!HashAssumption, H!Bytes
<1>1. PICK i \in 1..ByteLen : H!Char(x[i]) < H!Char(y[i]) /\ \A j \in 1..i - 1 : x[j] = y[j]
  BY DEF H!Less
<1>2. PICK k \in 1..ByteLen : H!Char(y[k]) < H!Char(z[k]) /\ \A j \in 1..k - 1 : y[j] = z[j]
  BY DEF H!Less
<1>3. \A n \in 1..ByteLen : H!Char(x[n]) \in Int /\ H!Char(y[n]) \in Int /\ H!Char(z[n]) \in Int
  BY CharIsInjective
<1>4. CASE i < k
  <2>1. y[i] = z[i] /\ \A j \in 1..i - 1 : x[j] = z[j]
    BY <1>1, <1>2, <1>4
  <2> QED
    BY <1>1, <2>1 DEF H!Less
<1>5. CASE k < i
  <2>1. x[k] = y[k] /\ \A j \in 1..k - 1 : x[j] = z[j]
    BY <1>1, <1>2, <1>5
  <2> QED
    BY <1>2, <2>1 DEF H!Less
<1>6. CASE i = k
  <2>1. H!Char(x[i]) < H!Char(z[i])
    <3>1. H!Char(x[i]) < H!Char(y[i]) /\ H!Char(y[i]) < H!Char(z[i])
      BY <1>1, <1>2, <1>6
    <3>2. H!Char(x[i]) \in Int /\ H!Char(y[i]) \in Int /\ H!Char(z[i]) \in Int
      BY <1>3
    <3> HIDE DEF H!Bytes
    <3> QED
      BY <3>1, <3>2
  <2>2. \A j \in 1..i - 1 : x[j] = z[j]
    BY <1>1, <1>2, <1>6
  <2> QED
    BY <2>1, <2>2 DEF H!Less
<1> QED
  BY <1>4, <1>5, <1>6

(***************************************************************************)
(* Hashes are values: each has an array of its own, with the bytes it was  *)
(* given, only a move assignment leaks one, and operator< is an order that *)
(* sorting may rely on.                                                    *)
(***************************************************************************)
THEOREM HashesStayValues == H!Spec => []HashesAreValues
<1>1. HashInv => HashesAreValues
  <2> SUFFICES ASSUME HashInv PROVE H!LessIsAnOrder
    BY DEF HashInv, HashesAreValues
  <2> SUFFICES ASSUME NEW h \in Hashes, NEW g \in Hashes, NEW k \in Hashes, H!Has(h), H!Has(g), H!Has(k)
               PROVE  LET x == content[data[h]] y == content[data[g]] z == content[data[k]]
                      IN  /\ x # y <=> H!Less(x, y) \/ H!Less(y, x)
                          /\ ~(H!Less(x, y) /\ H!Less(y, x))
                          /\ H!Less(x, y) /\ H!Less(y, z) => H!Less(x, z)
    BY DEF H!LessIsAnOrder
  <2>1. \A i \in Hashes : H!Has(i) => content[data[i]] \in H!Bytes
    BY DEF HashInv, HashTypeOK, H!Has
  <2> QED
    BY <2>1, LessIsTotal, LessIsStrict, LessIsTransitive
<1> QED
  BY <1>1, HashesAreOwned, PTL

-----------------------------------------------------------------------------
(***************************************************************************)
(* Proxies: memories in which every object has one proxy, and what the     *)
(* steps of an operation make of them.                                     *)
(***************************************************************************)
Worths == Values \cup {None}

MemType == [up : SUBSET Proxies, meta : [P!Slots -> P!Kinds \cup {None}], ptr : [P!Slots -> Objects \cup {Null}],
            live : SUBSET Objects, val : [Objects -> Values \cup {Moved}], blocks : SUBSET Objects, fault : BOOLEAN]

FullOf(m) == {s \in P!Slots : m.meta[s] # None}

\* No object is shared, lost, moved from or used when dead, and storage is that of the objects on the heap.
OneProxyEach(m) ==
  /\ \A s \in FullOf(m) : /\ m.ptr[s] \in m.live /\ m.val[m.ptr[s]] \in Values
                          /\ m.ptr[s] \in m.blocks <=> m.meta[s] = Heap
  /\ \A s, t \in FullOf(m) : m.ptr[s] = m.ptr[t] => s = t
  /\ \A o \in m.live : \E s \in FullOf(m) : m.ptr[s] = o
  /\ m.blocks \subseteq m.live
  /\ ~m.fault

Sound == {m \in MemType : OneProxyEach(m)}

\* What the proxies are worth: the object, or nothing.
Worth(m) == [s \in P!Slots |-> IF m.meta[s] = None THEN None ELSE m.val[m.ptr[s]]]

LEMMA ProxyFacts ==
  /\ Temp \in P!Slots /\ Temp \notin Proxies /\ Proxies \subseteq P!Slots
  /\ InPlace # Heap /\ InPlace # None /\ Heap # None
  /\ Null \notin Objects /\ Moved \notin Values /\ None \notin Values
BY ProxyAssumption DEF P!ProxyAssumption, P!Slots, P!Kinds

LEMMA WorthOfSound ==
  ASSUME NEW m \in Sound
  PROVE  /\ Worth(m) \in [P!Slots -> Worths]
         /\ \A s \in P!Slots : Worth(m)[s] = None <=> m.meta[s] = None
BY ProxyFacts DEF Sound, OneProxyEach, FullOf, Worth, Worths

\* There are more places than proxies, and a temporary, so one is free.
LEMMA FreshIsFree ==
  ASSUME NEW m \in Sound
  PROVE  P!Fresh(m) \in Objects /\ P!Fresh(m) \notin m.live \cup m.blocks
<1> USE ProxyAssumption DEF P!ProxyAssumption
<1>1. IsFiniteSet(P!Slots) /\ Cardinality(P!Slots) \in Nat /\ Cardinality(Objects) \in Nat
  <2>1. IsFiniteSet(Proxies) /\ IsFiniteSet(Objects)
    OBVIOUS
  <2>2. IsFiniteSet(P!Slots)
    BY <2>1, FS_AddElement DEF P!Slots
  <2> QED
    BY <2>1, <2>2, FS_CardinalityType
<1>2. m.live \cup m.blocks = m.live /\ m.live \subseteq {m.ptr[s] : s \in P!Slots}
  BY DEF Sound, MemType, OneProxyEach, FullOf
<1>3. /\ IsFiniteSet({m.ptr[s] : s \in P!Slots})
      /\ Cardinality({m.ptr[s] : s \in P!Slots}) <= Cardinality(P!Slots)
  <2> DEFINE f == [s \in P!Slots |-> m.ptr[s]]
  <2>1. {m.ptr[s] : s \in P!Slots} = {f[s] : s \in P!Slots}
    OBVIOUS
  <2>2. f \in [P!Slots -> {f[s] : s \in P!Slots}]
    OBVIOUS
  <2> HIDE DEF f
  <2>3. f \in Surjection(P!Slots, {f[s] : s \in P!Slots})
    BY <2>2 DEF Surjection
  <2> QED
    BY <1>1, <2>1, <2>3, FS_Surjection
<1>4. IsFiniteSet(m.live) /\ Cardinality(m.live) <= Cardinality(P!Slots) /\ Cardinality(m.live) \in Nat
  BY <1>1, <1>2, <1>3, FS_Subset, FS_CardinalityType
<1>5. ~(Objects \subseteq m.live)
  <2> SUFFICES ASSUME Objects \subseteq m.live PROVE FALSE
    OBVIOUS
  <2>1. Objects \in SUBSET m.live
    OBVIOUS
  <2>2. Cardinality(Objects) <= Cardinality(m.live)
    BY <1>4, <2>1, FS_Subset
  <2>3. Cardinality(P!Slots) = Cardinality(Proxies) + 1 /\ Cardinality(Proxies) \in Nat
    BY FS_AddElement, FS_CardinalityType DEF P!Slots
  <2>4. Cardinality(Objects) >= Cardinality(Proxies) + 2
    OBVIOUS
  <2> QED
    BY <1>1, <1>4, <2>2, <2>3, <2>4
<1>6. \E o \in Objects : o \notin m.live \cup m.blocks
  BY <1>2, <1>5
<1> QED
  BY <1>6 DEF P!Fresh

\* From m to n the proxies in life stay, and what the proxies are worth becomes w.
Becomes(m, n, w) == n \in Sound /\ n.up = m.up /\ Worth(n) = w

\* The members of what Construct returns.
LEMMA ConstructFields ==
  ASSUME NEW m \in MemType, NEW s \in P!Slots, NEW k \in P!Kinds, NEW v \in Values, P!Fresh(m) \in Objects
  PROVE  LET n == P!Construct(m, s, k, v) o == P!Fresh(m) IN
         /\ n \in MemType
         /\ n.up = m.up /\ n.fault = m.fault /\ n.live = m.live \cup {o}
         /\ n.val = [m.val EXCEPT ![o] = v] /\ n.ptr = [m.ptr EXCEPT ![s] = o] /\ n.meta = [m.meta EXCEPT ![s] = k]
         /\ n.blocks = IF k = Heap THEN m.blocks \cup {o} ELSE m.blocks
<1> DEFINE o == P!Fresh(m)
           n == P!Construct(m, s, k, v)
<1>1. n \in MemType
  BY DEF P!Construct, MemType
<1>2. /\ n.up = m.up /\ n.fault = m.fault /\ n.live = m.live \cup {o}
      /\ n.val = [m.val EXCEPT ![o] = v] /\ n.ptr = [m.ptr EXCEPT ![s] = o] /\ n.meta = [m.meta EXCEPT ![s] = k]
      /\ n.blocks = IF k = Heap THEN m.blocks \cup {o} ELSE m.blocks
  BY DEF P!Construct, MemType
<1> QED
  BY <1>1, <1>2

\* A new object is that of one proxy, and on the heap if that is its kind.
LEMMA ConstructMakes ==
  ASSUME NEW m \in Sound, NEW s \in P!Slots, m.meta[s] = None, NEW k \in P!Kinds, NEW v \in Values
  PROVE  Becomes(m, P!Construct(m, s, k, v), [Worth(m) EXCEPT ![s] = v])
<1> DEFINE o == P!Fresh(m)
           n == P!Construct(m, s, k, v)
<1>1. o \in Objects /\ o \notin m.live /\ o \notin m.blocks
  BY FreshIsFree
<1>2. m \in MemType /\ OneProxyEach(m)
  BY DEF Sound
<1>3. /\ n.up = m.up /\ n.fault = m.fault
      /\ n.live = m.live \cup {o}
      /\ n.val = [m.val EXCEPT ![o] = v]
      /\ n.ptr = [m.ptr EXCEPT ![s] = o]
      /\ n.meta = [m.meta EXCEPT ![s] = k]
      /\ n.blocks = IF k = Heap THEN m.blocks \cup {o} ELSE m.blocks
  BY <1>1, <1>2, ConstructFields, SMTT(30)
<1>4. n \in MemType
  BY <1>1, <1>2, ConstructFields
<1> HIDE DEF o, n
<1>5. k # None /\ k \in {InPlace, Heap} /\ InPlace # Heap
  BY ProxyFacts DEF P!Kinds
<1>6. n.meta[s] = k /\ n.ptr[s] = o /\ n.val[o] = v
  BY <1>1, <1>2, <1>3 DEF MemType
<1>7. \A t \in P!Slots \ {s} : n.meta[t] = m.meta[t] /\ n.ptr[t] = m.ptr[t]
  BY <1>2, <1>3 DEF MemType
<1>8. \A p \in Objects \ {o} : n.val[p] = m.val[p]
  BY <1>2, <1>3 DEF MemType
<1>9. FullOf(n) = FullOf(m) \cup {s} /\ s \notin FullOf(m)
  BY <1>5, <1>6, <1>7 DEF FullOf
<1>10. \A t \in FullOf(m) : t \in P!Slots \ {s} /\ m.ptr[t] \in m.live /\ m.ptr[t] \in Objects \ {o}
  BY <1>1, <1>2, <1>9 DEF OneProxyEach, FullOf, MemType
<1>11. OneProxyEach(n)
  <2>1. \A t \in FullOf(n) : /\ n.ptr[t] \in n.live /\ n.val[n.ptr[t]] \in Values
                             /\ n.ptr[t] \in n.blocks <=> n.meta[t] = Heap
    <3>1. \A t \in FullOf(m) : /\ n.ptr[t] \in n.live /\ n.val[n.ptr[t]] \in Values
                               /\ n.ptr[t] \in n.blocks <=> n.meta[t] = Heap
      BY <1>2, <1>3, <1>7, <1>8, <1>10 DEF OneProxyEach
    <3>2. n.ptr[s] \in n.live /\ n.val[n.ptr[s]] \in Values /\ (n.ptr[s] \in n.blocks <=> n.meta[s] = Heap)
      BY <1>1, <1>3, <1>5, <1>6
    <3> QED
      BY <1>9, <3>1, <3>2
  <2>2. \A t, u \in FullOf(n) : n.ptr[t] = n.ptr[u] => t = u
    BY <1>2, <1>6, <1>7, <1>9, <1>10 DEF OneProxyEach
  <2>3. \A p \in n.live : \E t \in FullOf(n) : n.ptr[t] = p
    BY <1>2, <1>3, <1>6, <1>7, <1>9, <1>10 DEF OneProxyEach
  <2>4. n.blocks \subseteq n.live /\ ~n.fault
    BY <1>2, <1>3 DEF OneProxyEach
  <2> QED
    BY <2>1, <2>2, <2>3, <2>4 DEF OneProxyEach
<1>12. Worth(n) = [Worth(m) EXCEPT ![s] = v]
  <2>1. \A t \in P!Slots \ {s} : (IF n.meta[t] = None THEN None ELSE n.val[n.ptr[t]])
                               = IF m.meta[t] = None THEN None ELSE m.val[m.ptr[t]]
    BY <1>7, <1>8, <1>10 DEF FullOf
  <2> QED
    BY <1>5, <1>6, <2>1 DEF Worth
<1> QED
  BY <1>3, <1>4, <1>11, <1>12 DEF Becomes, Sound, n

\* The object of a proxy that is reset is destroyed, and no other one.
LEMMA ResetDestroys ==
  ASSUME NEW m \in Sound, NEW s \in P!Slots
  PROVE  Becomes(m, P!Reset(m, s), [Worth(m) EXCEPT ![s] = None]) /\ P!Reset(m, s).meta[s] = None
<1> DEFINE o == m.ptr[s]
           n == P!Reset(m, s)
<1>1. m \in MemType /\ OneProxyEach(m)
  BY DEF Sound
<1>2. CASE m.meta[s] = None
  <2>1. n = [m EXCEPT !.meta[s] = None]
    BY <1>2 DEF P!Reset, P!Destruct
  <2>2. n = m
    BY <1>1, <1>2, <2>1 DEF MemType
  <2>3. Worth(m)[s] = None /\ Worth(m) \in [P!Slots -> Worths]
    BY <1>2, WorthOfSound
  <2> QED
    BY <1>2, <2>2, <2>3 DEF Becomes
<1>3. CASE m.meta[s] # None
  <2>1. s \in FullOf(m) /\ o \in m.live /\ o \in Objects /\ o # Null /\ (m.meta[s] = Heap => o \in m.blocks)
    BY <1>1, <1>3, ProxyFacts DEF OneProxyEach, FullOf, MemType
  <2>2. /\ n.up = m.up
        /\ n.live = m.live \ {o} /\ n.blocks = m.blocks \ {o}
        /\ n.val = [m.val EXCEPT ![o] = Moved]
        /\ n.ptr = m.ptr
        /\ n.meta = [m.meta EXCEPT ![s] = None]
        /\ n.fault = FALSE
    BY <1>1, <1>3, <2>1 DEF P!Reset, P!Destruct, P!DestroyPointer, P!Deallocate, MemType, OneProxyEach
  <2>3. n \in MemType
    BY <1>1, <1>3, <2>1, ZenonT(60) DEF P!Reset, P!Destruct, P!DestroyPointer, P!Deallocate, MemType
  <2> HIDE DEF o, n
  <2>4. n.meta[s] = None /\ \A t \in P!Slots \ {s} : n.meta[t] = m.meta[t]
    BY <1>1, <2>2 DEF MemType
  <2>5. FullOf(n) = FullOf(m) \ {s}
    BY <2>4 DEF FullOf
  <2>6. \A t \in FullOf(n) : t \in FullOf(m) /\ t # s /\ m.ptr[t] # o /\ m.ptr[t] \in Objects /\ n.val[m.ptr[t]] = m.val[m.ptr[t]]
    BY <1>1, <2>1, <2>2, <2>5 DEF OneProxyEach, MemType, o
  <2>7. OneProxyEach(n)
    <3>1. \A t \in FullOf(n) : /\ n.ptr[t] \in n.live /\ n.val[n.ptr[t]] \in Values
                               /\ n.ptr[t] \in n.blocks <=> n.meta[t] = Heap
      BY <1>1, <2>2, <2>4, <2>6 DEF OneProxyEach, FullOf
    <3>2. \A t, u \in FullOf(n) : n.ptr[t] = n.ptr[u] => t = u
      BY <1>1, <2>2, <2>6 DEF OneProxyEach
    <3>3. \A p \in n.live : \E t \in FullOf(n) : n.ptr[t] = p
      BY <1>1, <2>2, <2>5 DEF OneProxyEach, o
    <3>4. n.blocks \subseteq n.live /\ ~n.fault
      BY <1>1, <2>2 DEF OneProxyEach
    <3> QED
      BY <3>1, <3>2, <3>3, <3>4 DEF OneProxyEach
  <2>8. Worth(n) = [Worth(m) EXCEPT ![s] = None]
    <3>1. \A t \in P!Slots \ {s} : (IF n.meta[t] = None THEN None ELSE n.val[n.ptr[t]])
                                 = IF m.meta[t] = None THEN None ELSE m.val[m.ptr[t]]
      BY <2>2, <2>4, <2>6 DEF FullOf
    <3> QED
      BY <2>4, <3>1 DEF Worth
  <2> QED
    BY <2>2, <2>3, <2>4, <2>7, <2>8 DEF Becomes, Sound, n
<1> QED
  BY <1>2, <1>3

\* meta_ of an empty proxy may be set empty again.
LEMMA EmptyStaysEmpty ==
  ASSUME NEW m \in MemType, NEW s \in P!Slots, m.meta[s] = None
  PROVE  [m EXCEPT !.meta[s] = None] = m
BY DEF MemType

\* A copy is one more object, of the same worth; the source is alive.
LEMMA CopyCopies ==
  ASSUME NEW m \in Sound, NEW s \in P!Slots, NEW t \in P!Slots, s # t, m.meta[s] = None
  PROVE  Becomes(m, P!CopyInto(m, s, t), [Worth(m) EXCEPT ![s] = Worth(m)[t]])
<1> DEFINE n == [m EXCEPT !.meta[s] = None, !.fault = @ \/ (m.meta[t] # None /\ m.ptr[t] \notin m.live)]
<1>1. m \in MemType /\ OneProxyEach(m)
  BY DEF Sound
<1>2. n = m
  <2>1. (m.fault \/ (m.meta[t] # None /\ m.ptr[t] \notin m.live)) = m.fault
    BY <1>1 DEF OneProxyEach, FullOf, MemType
  <2> QED
    BY <1>1, <2>1 DEF MemType
<1>3. P!CopyInto(m, s, t) = IF n.meta[t] = None THEN n ELSE P!Construct(n, s, n.meta[t], n.val[n.ptr[t]])
  BY DEF P!CopyInto
<1> HIDE DEF n
<1>4. CASE m.meta[t] = None
  <2>1. Worth(m)[t] = None /\ Worth(m)[s] = None /\ Worth(m) \in [P!Slots -> Worths]
    BY <1>4, WorthOfSound
  <2> QED
    BY <1>2, <1>3, <1>4, <2>1 DEF Becomes
<1>5. CASE m.meta[t] # None
  <2>1. m.meta[t] \in P!Kinds /\ m.val[m.ptr[t]] \in Values /\ Worth(m)[t] = m.val[m.ptr[t]]
    BY <1>1, <1>5 DEF OneProxyEach, FullOf, MemType, Worth
  <2> QED
    BY <1>2, <1>3, <1>5, <2>1, ConstructMakes
<1> QED
  BY <1>4, <1>5

\* A move takes the worth of the source with it, whether storage goes over or a new object is made in place.
LEMMA MoveMoves ==
  ASSUME NEW m \in Sound, NEW s \in P!Slots, NEW t \in P!Slots, s # t, m.meta[s] = None
  PROVE  /\ Becomes(m, P!MoveInto(m, s, t), [Worth(m) EXCEPT ![s] = Worth(m)[t], ![t] = None])
         /\ P!MoveInto(m, s, t).meta[t] = None
<1>1. m \in MemType /\ OneProxyEach(m)
  BY DEF Sound
<1>2. [m EXCEPT !.meta[s] = None] = m
  BY <1>1, EmptyStaysEmpty
<1>3. Worth(m) \in [P!Slots -> Worths] /\ Worth(m)[s] = None
  BY WorthOfSound
<1>4. CASE m.meta[t] = None
  <2>1. P!MoveInto(m, s, t) = m
    BY <1>2, <1>4 DEF P!MoveInto
  <2>2. Worth(m)[t] = None
    BY <1>4, WorthOfSound
  <2> QED
    BY <1>3, <1>4, <2>1, <2>2 DEF Becomes
<1>5. CASE m.meta[t] = Heap
  <2> DEFINE a == P!HeapMoved(m, s, t)
             n == P!MoveInto(m, s, t)
  <2>1. Heap # None /\ m.ptr[t] \in m.live /\ t \in FullOf(m) /\ m.ptr[t] \in m.blocks /\ s \notin FullOf(m)
    BY <1>1, <1>5, ProxyFacts DEF OneProxyEach, FullOf
  <2>2. n = P!Invoked(a, t)
    BY <1>2, <1>5, <2>1 DEF P!MoveInto, P!Relocate
  <2>3. /\ a \in MemType
        /\ a.up = m.up /\ a.live = m.live /\ a.blocks = m.blocks /\ a.val = m.val /\ a.fault = m.fault
        /\ a.ptr = [m.ptr EXCEPT ![s] = m.ptr[t], ![t] = Null]
        /\ a.meta = [m.meta EXCEPT ![s] = Heap]
        /\ a.ptr[t] = Null
    BY <1>1 DEF P!HeapMoved, MemType, P!Kinds
  <2>4. P!Invoked(a, t) = [a EXCEPT !.meta[t] = None]
    BY <2>3 DEF P!Invoked, P!Called, P!DestroyPointer
  <2>5. n \in MemType
    <3> HIDE DEF a
    <3> QED
      BY <2>2, <2>3, <2>4 DEF MemType
  <2>6. /\ n.up = m.up /\ n.live = m.live /\ n.blocks = m.blocks /\ n.val = m.val /\ n.fault = m.fault
        /\ n.ptr[s] = m.ptr[t] /\ n.meta[s] = Heap /\ n.meta[t] = None
        /\ \A r \in P!Slots \ {s, t} : n.ptr[r] = m.ptr[r] /\ n.meta[r] = m.meta[r]
    <3> HIDE DEF a, n
    <3>1. /\ n.up = a.up /\ n.live = a.live /\ n.blocks = a.blocks /\ n.val = a.val /\ n.fault = a.fault
          /\ n.ptr = a.ptr /\ n.meta = [a.meta EXCEPT ![t] = None]
      BY <2>2, <2>3, <2>4 DEF MemType
    <3> QED
      BY <1>1, <2>3, <3>1 DEF MemType
  <2> HIDE DEF n, a
  <2>7. FullOf(n) = (FullOf(m) \ {t}) \cup {s}
    BY <2>1, <2>6 DEF FullOf
  <2>8. OneProxyEach(n)
    <3>1. \A r \in FullOf(n) : /\ n.ptr[r] \in n.live /\ n.val[n.ptr[r]] \in Values
                               /\ n.ptr[r] \in n.blocks <=> n.meta[r] = Heap
      BY <1>1, <2>1, <2>6, <2>7 DEF OneProxyEach, FullOf
    <3>2. \A r, u \in FullOf(n) : n.ptr[r] = n.ptr[u] => r = u
      BY <1>1, <2>1, <2>6, <2>7 DEF OneProxyEach, FullOf
    <3>3. \A p \in n.live : \E r \in FullOf(n) : n.ptr[r] = p
      BY <1>1, <2>1, <2>6, <2>7 DEF OneProxyEach, FullOf
    <3> QED
      BY <1>1, <2>6, <3>1, <3>2, <3>3 DEF OneProxyEach
  <2>9. Worth(n) = [Worth(m) EXCEPT ![s] = Worth(m)[t], ![t] = None]
    BY <1>3, <2>1, <1>5, <2>6 DEF Worth
  <2> QED
    BY <2>5, <2>6, <2>8, <2>9 DEF Becomes, Sound, n
<1>6. CASE m.meta[t] \notin {None, Heap}
  <2> DEFINE o == m.ptr[t]
             v == m.val[o]
             a == P!Construct(m, s, InPlace, v)
  <2>1. /\ m.meta[t] = InPlace /\ InPlace \in P!Kinds /\ InPlace # Heap
        /\ o \in m.live /\ o \in Objects /\ o # Null /\ v \in Values /\ v = Worth(m)[t]
    BY <1>1, <1>6, ProxyFacts DEF OneProxyEach, FullOf, MemType, P!Kinds, Worth
  <2>2. Becomes(m, a, [Worth(m) EXCEPT ![s] = v])
    BY <2>1, ConstructMakes
  <2>3. a \in MemType /\ OneProxyEach(a)
    BY <2>2 DEF Becomes, Sound
  <2>4. a.meta[t] = InPlace /\ a.ptr[t] = o /\ a.fault = FALSE /\ o \in a.live
    BY <1>1, <2>1 DEF P!Construct, MemType, OneProxyEach
  <2>5. P!Relocate(m, s, t) = [a EXCEPT !.val[o] = Moved, !.fault = @ \/ o \notin m.live]
    BY <1>6 DEF P!Relocate, P!InPlaceMoved
  <2>6. P!MoveInto(m, s, t) = P!Invoked(P!Relocate(m, s, t), t)
    BY <1>2, <1>6 DEF P!MoveInto
  <2> HIDE DEF o, v, a
  <2>7. P!Relocate(m, s, t) = [a EXCEPT !.val[o] = Moved]
    BY <2>1, <2>3, <2>4, <2>5 DEF MemType
  <2>8. P!Invoked([a EXCEPT !.val[o] = Moved], t) = P!Reset(a, t)
    BY <2>1, <2>3, <2>4, ProxyFacts, ZenonT(30)
    DEF P!Invoked, P!Called, P!DestroyPointer, P!Deallocate, P!Reset, P!Destruct, MemType
  <2>9. P!MoveInto(m, s, t) = P!Reset(a, t)
    BY <2>6, <2>7, <2>8
  <2>10. Becomes(a, P!Reset(a, t), [Worth(a) EXCEPT ![t] = None]) /\ P!Reset(a, t).meta[t] = None
    BY <2>2, ResetDestroys DEF Becomes
  <2> QED
    BY <2>1, <2>2, <2>9, <2>10 DEF Becomes
<1> QED
  BY <1>4, <1>5, <1>6

\* operator=(proxy&&): the old value goes first, and a proxy moved over itself stays.
LEMMA MoveOverMoves ==
  ASSUME NEW m \in Sound, NEW s \in P!Slots, NEW t \in P!Slots, s # t
  PROVE  Becomes(m, P!MoveOver(m, s, t), [Worth(m) EXCEPT ![s] = Worth(m)[t], ![t] = None])
<1> DEFINE a == P!Reset(m, s)
<1>1. Becomes(m, a, [Worth(m) EXCEPT ![s] = None]) /\ a.meta[s] = None
  BY ResetDestroys
<1>2. P!MoveOver(m, s, t) = P!MoveInto(a, s, t)
  BY DEF P!MoveOver
<1> HIDE DEF a
<1>3. Becomes(a, P!MoveInto(a, s, t), [Worth(a) EXCEPT ![s] = Worth(a)[t], ![t] = None])
  <2>1. a \in Sound
    BY <1>1 DEF Becomes
  <2> QED
    BY <1>1, <2>1, MoveMoves
<1>4. Worth(m) \in [P!Slots -> Worths]
  BY WorthOfSound
<1> QED
  BY <1>1, <1>2, <1>3, <1>4 DEF Becomes

\* The assignment ends with the new value in place and the temporary gone.
LEMMA TempIsGivenUp ==
  ASSUME NEW m \in Sound, NEW s \in Proxies
  PROVE  Becomes(m, P!FromTemp(m, s), [Worth(m) EXCEPT ![s] = Worth(m)[Temp], ![Temp] = None])
<1> DEFINE a == P!MoveOver(m, s, Temp)
<1>1. s \in P!Slots /\ Temp \in P!Slots /\ s # Temp
  BY ProxyFacts
<1>2. Becomes(m, a, [Worth(m) EXCEPT ![s] = Worth(m)[Temp], ![Temp] = None])
  BY <1>1, MoveOverMoves
<1>3. P!FromTemp(m, s) = P!Reset(a, Temp)
  BY DEF P!FromTemp
<1> HIDE DEF a
<1>4. Becomes(a, P!Reset(a, Temp), [Worth(a) EXCEPT ![Temp] = None])
  BY <1>1, <1>2, ResetDestroys DEF Becomes
<1>5. Worth(m) \in [P!Slots -> Worths]
  BY WorthOfSound
<1> QED
  BY <1>1, <1>2, <1>3, <1>4, <1>5 DEF Becomes

\* A move that throws costs the value it was to move, and nothing else.
LEMMA FailedMoveDestroys ==
  ASSUME NEW m \in Sound, NEW s \in P!Slots, NEW t \in P!Slots, m.meta[s] = None, m.meta[t] # None
  PROVE  Becomes(m, P!MoveFails(m, s, t), [Worth(m) EXCEPT ![t] = None])
<1>1. [m EXCEPT !.meta[s] = None] = m
  BY EmptyStaysEmpty DEF Sound
<1>2. P!MoveFails(m, s, t) = P!Reset(m, t)
  BY <1>1 DEF P!MoveFails, P!Invoked, P!Called, P!Reset, P!Destruct
<1> QED
  BY <1>2, ResetDestroys

\* An assignment whose move from the temporary throws has lost the old value and the new one.
LEMMA FailedAssignmentLoses ==
  ASSUME NEW m \in Sound, m.meta[Temp] = None, NEW s \in Proxies, NEW x \in Values,
         NEW n, Becomes(m, n, [Worth(m) EXCEPT ![Temp] = x])
  PROVE  Becomes(m, P!FromTempFails(n, s), [Worth(m) EXCEPT ![s] = None])
<1> DEFINE a == P!Reset(n, s)
<1>1. /\ s \in P!Slots /\ Temp \in P!Slots /\ s # Temp /\ x # None
      /\ Worth(m) \in [P!Slots -> Worths] /\ Worth(m)[Temp] = None
  BY ProxyFacts, WorthOfSound
<1>2. n \in Sound /\ n.up = m.up /\ Worth(n) = [Worth(m) EXCEPT ![Temp] = x]
  BY DEF Becomes
<1>3. Becomes(n, a, [Worth(n) EXCEPT ![s] = None]) /\ a.meta[s] = None
  BY <1>1, <1>2, ResetDestroys
<1>4. P!FromTempFails(n, s) = P!MoveFails(a, s, Temp)
  BY DEF P!FromTempFails
<1> HIDE DEF a
<1>5. a \in Sound /\ a.up = m.up /\ Worth(a) = [Worth(m) EXCEPT ![Temp] = x, ![s] = None]
  BY <1>2, <1>3 DEF Becomes
<1>6. a.meta[Temp] # None
  BY <1>1, <1>5, WorthOfSound
<1>7. Becomes(a, P!MoveFails(a, s, Temp), [Worth(a) EXCEPT ![Temp] = None])
  BY <1>1, <1>3, <1>5, <1>6, FailedMoveDestroys
<1>8. [Worth(a) EXCEPT ![Temp] = None] = [Worth(m) EXCEPT ![s] = None]
  BY <1>1, <1>5
<1> QED
  BY <1>4, <1>5, <1>7, <1>8 DEF Becomes

\* The first move of a swap of two proxies with values, and the second, which is none if they are one.
LEMMA SwapBegins ==
  ASSUME NEW m \in Sound, m.meta[Temp] = None, NEW p \in Proxies
  PROVE  /\ Becomes(m, P!MoveInto(m, Temp, p), [Worth(m) EXCEPT ![Temp] = Worth(m)[p], ![p] = None])
         /\ P!MoveInto(m, Temp, p).meta[p] = None
BY ProxyFacts, MoveMoves

LEMMA SwapGoesOn ==
  ASSUME NEW a \in Sound, NEW p \in Proxies, NEW q \in Proxies, a.meta[p] = None
  PROVE  /\ p = q => P!MoveInto(a, p, q) = a
         /\ p # q => /\ Becomes(a, P!MoveInto(a, p, q), [Worth(a) EXCEPT ![p] = Worth(a)[q], ![q] = None])
                     /\ P!MoveInto(a, p, q).meta[q] = None
<1>1. p \in P!Slots /\ q \in P!Slots /\ a \in MemType
  BY ProxyFacts DEF Sound
<1>2. ASSUME p = q PROVE P!MoveInto(a, p, q) = a
  <2>1. [a EXCEPT !.meta[p] = None] = a
    BY <1>1, EmptyStaysEmpty
  <2> QED
    BY <1>2, <2>1 DEF P!MoveInto
<1>3. ASSUME p # q
      PROVE  /\ Becomes(a, P!MoveInto(a, p, q), [Worth(a) EXCEPT ![p] = Worth(a)[q], ![q] = None])
             /\ P!MoveInto(a, p, q).meta[q] = None
  BY <1>1, <1>3, MoveMoves
<1> QED
  BY <1>2, <1>3, Zenon

\* Each of the three moves of a swap may throw, and costs what was on its way, the temporary included.
LEMMA FailedSwapLoses ==
  ASSUME NEW m \in Sound, m.meta[Temp] = None, NEW p \in Proxies, NEW q \in Proxies,
         m.meta[p] # None, m.meta[q] # None,
         NEW a, a = P!MoveInto(m, Temp, p), NEW b, b = P!MoveInto(a, p, q)
  PROVE  /\ Becomes(m, P!MoveFails(m, Temp, p), [Worth(m) EXCEPT ![p] = None])
         /\ a.meta[q] # None =>
              Becomes(m, P!Reset(P!MoveFails(a, p, q), Temp), [Worth(m) EXCEPT ![p] = None, ![q] = None])
         /\ Becomes(m, P!MoveFails(b, q, Temp), [Worth(m) EXCEPT ![p] = Worth(m)[q], ![q] = None])
<1>1. /\ p \in P!Slots /\ q \in P!Slots /\ Temp \in P!Slots /\ p # Temp /\ q # Temp
      /\ Worth(m) \in [P!Slots -> Worths] /\ Worth(m)[Temp] = None /\ Worth(m)[p] # None
  BY ProxyFacts, WorthOfSound
<1>2. /\ a \in Sound /\ a.up = m.up /\ a.meta[p] = None
      /\ Worth(a) = [Worth(m) EXCEPT ![Temp] = Worth(m)[p], ![p] = None]
  BY SwapBegins DEF Becomes
<1>3. Becomes(m, P!MoveFails(m, Temp, p), [Worth(m) EXCEPT ![p] = None])
  BY <1>1, FailedMoveDestroys
<1>4. ASSUME a.meta[q] # None
      PROVE  Becomes(m, P!Reset(P!MoveFails(a, p, q), Temp), [Worth(m) EXCEPT ![p] = None, ![q] = None])
  <2> DEFINE c == P!MoveFails(a, p, q)
  <2>1. Becomes(a, c, [Worth(a) EXCEPT ![q] = None])
    BY <1>1, <1>2, <1>4, FailedMoveDestroys
  <2> HIDE DEF c
  <2>2. c \in Sound /\ c.up = m.up /\ Worth(c) = [Worth(a) EXCEPT ![q] = None]
    BY <1>2, <2>1 DEF Becomes
  <2>3. Becomes(c, P!Reset(c, Temp), [Worth(c) EXCEPT ![Temp] = None])
    BY <1>1, <2>2, ResetDestroys
  <2>4. [Worth(c) EXCEPT ![Temp] = None] = [Worth(m) EXCEPT ![p] = None, ![q] = None]
    BY <1>1, <1>2, <2>2
  <2> QED
    BY <2>2, <2>3, <2>4 DEF Becomes, c
<1>5. Becomes(m, P!MoveFails(b, q, Temp), [Worth(m) EXCEPT ![p] = Worth(m)[q], ![q] = None])
  <2>1. /\ b \in Sound /\ b.up = m.up /\ b.meta[q] = None
        /\ p = q => Worth(b) = Worth(a)
        /\ p # q => Worth(b) = [Worth(a) EXCEPT ![p] = Worth(a)[q], ![q] = None]
    <3>1. p = q => b = a
      BY <1>2, SwapGoesOn
    <3>2. p # q => Becomes(a, b, [Worth(a) EXCEPT ![p] = Worth(a)[q], ![q] = None]) /\ b.meta[q] = None
      BY <1>2, SwapGoesOn
    <3> QED
      BY <1>2, <3>1, <3>2 DEF Becomes
  <2>2. Worth(b)[Temp] = Worth(m)[p]
    BY <1>1, <1>2, <2>1
  <2>3. b.meta[Temp] # None
    BY <1>1, <2>1, <2>2, WorthOfSound
  <2>4. Becomes(b, P!MoveFails(b, q, Temp), [Worth(b) EXCEPT ![Temp] = None])
    BY <1>1, <2>1, <2>3, FailedMoveDestroys
  <2>5. [Worth(b) EXCEPT ![Temp] = None] = [Worth(m) EXCEPT ![p] = Worth(m)[q], ![q] = None]
    <3>1. CASE p = q
      BY <1>1, <1>2, <2>1, <3>1
    <3>2. CASE p # q
      <4>1. Worth(b) = [Worth(m) EXCEPT ![Temp] = Worth(m)[p], ![p] = Worth(m)[q], ![q] = None]
        BY <1>1, <1>2, <2>1, <3>2
      <4> QED
        BY <1>1, <3>2, <4>1
    <3> QED
      BY <3>1, <3>2
  <2> QED
    BY <2>1, <2>4, <2>5 DEF Becomes
<1> QED
  BY <1>3, <1>4, <1>5

\* A swap goes through the temporary if both have a value, and moves the one value otherwise.
LEMMA SwapSwaps ==
  ASSUME NEW m \in Sound, m.meta[Temp] = None, NEW p \in Proxies, NEW q \in Proxies
  PROVE  Becomes(m, P!Swapped(m, p, q), [Worth(m) EXCEPT ![p] = Worth(m)[q], ![q] = Worth(m)[p]])
<1>1. p \in P!Slots /\ q \in P!Slots /\ Temp \in P!Slots /\ p # Temp /\ q # Temp
  BY ProxyFacts
<1>2. /\ Worth(m) \in [P!Slots -> Worths] /\ Worth(m)[Temp] = None
      /\ Worth(m)[p] = None <=> m.meta[p] = None
      /\ Worth(m)[q] = None <=> m.meta[q] = None
  BY <1>1, WorthOfSound
<1>3. CASE m.meta[p] # None /\ m.meta[q] # None
  <2> DEFINE a == P!MoveInto(m, Temp, p)
             b == P!MoveInto(a, p, q)
             c == P!MoveInto(b, q, Temp)
  <2>1. P!Swapped(m, p, q) = P!Reset(c, Temp)
    BY <1>3 DEF P!Swapped
  <2>2. Becomes(m, a, [Worth(m) EXCEPT ![Temp] = Worth(m)[p], ![p] = None]) /\ a.meta[p] = None
    BY SwapBegins
  <2>4. /\ b \in Sound /\ b.up = a.up /\ b.meta[q] = None
        /\ p = q => Worth(b) = Worth(a)
        /\ p # q => Worth(b) = [Worth(a) EXCEPT ![p] = Worth(a)[q], ![q] = None]
    <3>1. a \in Sound
      BY <2>2 DEF Becomes
    <3>2. p = q => b = a
      BY <2>2, <3>1, SwapGoesOn
    <3>3. p # q => Becomes(a, b, [Worth(a) EXCEPT ![p] = Worth(a)[q], ![q] = None]) /\ b.meta[q] = None
      BY <2>2, <3>1, SwapGoesOn
    <3> HIDE DEF a, b
    <3> QED
      BY <2>2, <3>1, <3>2, <3>3 DEF Becomes
  <2> HIDE DEF a
  <2> HIDE DEF b
  <2>5. Becomes(b, c, [Worth(b) EXCEPT ![q] = Worth(b)[Temp], ![Temp] = None])
    BY <1>1, <2>4, MoveMoves
  <2>6. c \in Sound
    BY <2>5 DEF Becomes
  <2> HIDE DEF c
  <2>7. Becomes(c, P!Reset(c, Temp), [Worth(c) EXCEPT ![Temp] = None])
    BY <1>1, <2>6, ResetDestroys
  <2>8. P!Reset(c, Temp) \in Sound /\ P!Reset(c, Temp).up = m.up
    BY <2>2, <2>4, <2>5, <2>7 DEF Becomes
  <2>9. /\ Worth(a) = [Worth(m) EXCEPT ![Temp] = Worth(m)[p], ![p] = None]
        /\ Worth(c) = [Worth(b) EXCEPT ![q] = Worth(b)[Temp], ![Temp] = None]
        /\ Worth(P!Reset(c, Temp)) = [Worth(c) EXCEPT ![Temp] = None]
    BY <2>2, <2>5, <2>7 DEF Becomes
  <2>10. Worth(P!Reset(c, Temp)) = [Worth(m) EXCEPT ![p] = Worth(m)[q], ![q] = Worth(m)[p]]
    <3>1. CASE p = q
      <4>1. Worth(b) = [Worth(m) EXCEPT ![Temp] = Worth(m)[p], ![p] = None]
        BY <2>4, <2>9, <3>1
      <4>2. Worth(c) = [Worth(m) EXCEPT ![Temp] = None]
        BY <1>1, <1>2, <2>9, <3>1, <4>1
      <4> QED
        BY <1>1, <1>2, <2>9, <3>1, <4>2, ZenonT(30)
    <3>2. CASE p # q
      <4>1. Worth(b) = [Worth(m) EXCEPT ![Temp] = Worth(m)[p], ![p] = Worth(m)[q], ![q] = None]
        BY <1>1, <1>2, <2>4, <2>9, <3>2
      <4>2. Worth(c) = [Worth(m) EXCEPT ![Temp] = None, ![p] = Worth(m)[q], ![q] = Worth(m)[p]]
        BY <1>1, <1>2, <2>9, <3>2, <4>1
      <4> QED
        BY <1>1, <1>2, <2>9, <3>2, <4>2
    <3> QED
      BY <3>1, <3>2
  <2> QED
    BY <2>1, <2>8, <2>10 DEF Becomes
<1>4. CASE m.meta[p] # None /\ m.meta[q] = None
  <2>1. P!Swapped(m, p, q) = P!MoveInto(m, q, p) /\ p # q
    BY <1>4 DEF P!Swapped
  <2>2. Becomes(m, P!MoveInto(m, q, p), [Worth(m) EXCEPT ![q] = Worth(m)[p], ![p] = None])
    BY <1>1, <1>4, <2>1, MoveMoves
  <2>3. [Worth(m) EXCEPT ![q] = Worth(m)[p], ![p] = None] = [Worth(m) EXCEPT ![p] = Worth(m)[q], ![q] = Worth(m)[p]]
    BY <1>1, <1>2, <1>4, <2>1
  <2> QED
    BY <2>1, <2>2, <2>3
<1>5. CASE m.meta[p] = None /\ m.meta[q] # None
  <2>1. P!Swapped(m, p, q) = P!MoveInto(m, p, q) /\ p # q
    BY <1>5 DEF P!Swapped
  <2>2. Becomes(m, P!MoveInto(m, p, q), [Worth(m) EXCEPT ![p] = Worth(m)[q], ![q] = None])
    BY <1>1, <1>5, <2>1, MoveMoves
  <2>3. [Worth(m) EXCEPT ![p] = Worth(m)[q], ![q] = None] = [Worth(m) EXCEPT ![p] = Worth(m)[q], ![q] = Worth(m)[p]]
    BY <1>1, <1>2, <1>5, <2>1
  <2> QED
    BY <2>1, <2>2, <2>3
<1>6. CASE m.meta[p] = None /\ m.meta[q] = None
  <2>1. P!Swapped(m, p, q) = m
    BY <1>6 DEF P!Swapped
  <2> QED
    BY <1>1, <1>2, <1>6, <2>1 DEF Becomes
<1> QED
  BY <1>3, <1>4, <1>5, <1>6

-----------------------------------------------------------------------------
(***************************************************************************)
(* Proxies: between two operations the memory is sound, the temporary is   *)
(* gone, and every proxy is worth what it was given.                       *)
(***************************************************************************)
Wanted == [s \in P!Slots |-> IF s = Temp THEN None ELSE want[s]]

ProxyInv ==
  /\ mem \in Sound
  /\ want \in [Proxies -> Worths]
  /\ Worth(mem) = Wanted
  /\ \A p \in Proxies : p \notin mem.up => want[p] = None

\* The life of a proxy begins and ends without a change to its worth.
LEMMA SoundInLife ==
  ASSUME NEW n \in Sound, NEW U \in SUBSET Proxies
  PROVE  [n EXCEPT !.up = U] \in Sound /\ Worth([n EXCEPT !.up = U]) = Worth(n) /\ [n EXCEPT !.up = n.up] = n
<1> DEFINE m == [n EXCEPT !.up = U]
<1>1. n \in MemType /\ OneProxyEach(n)
  BY DEF Sound
<1>2. /\ m \in MemType
      /\ m.meta = n.meta /\ m.ptr = n.ptr /\ m.live = n.live /\ m.val = n.val /\ m.blocks = n.blocks /\ m.fault = n.fault
  BY <1>1 DEF MemType
<1>3. [n EXCEPT !.up = n.up] = n
  BY <1>1 DEF MemType
<1> HIDE DEF m
<1>4. OneProxyEach(m) /\ Worth(m) = Worth(n)
  BY <1>1, <1>2 DEF OneProxyEach, FullOf, Worth
<1> QED
  BY <1>2, <1>3, <1>4 DEF Sound, m

\* An operation on p that leaves a sound memory worth what its histories say keeps the invariant.
LEMMA OperationKeepsProxies ==
  ASSUME ProxyInv, NEW n \in Sound, NEW U \in SUBSET Proxies, mem' = [n EXCEPT !.up = U],
         want' \in [Proxies -> Worths], Worth(n) = Wanted',
         \A p \in Proxies : p \notin U => want'[p] = None
  PROVE  ProxyInv'
<1>1. mem' \in Sound /\ Worth(mem') = Worth(n)
  BY SoundInLife
<1>2. mem'.up = U
  BY DEF Sound, MemType
<1> QED
  BY <1>1, <1>2 DEF ProxyInv, Worth

\* The same for an operation whose steps say what the worth becomes.
LEMMA StepKeepsProxies ==
  ASSUME ProxyInv, NEW n, NEW w, NEW U \in SUBSET Proxies, Becomes(mem, n, w), mem' = [n EXCEPT !.up = U],
         want' \in [Proxies -> Worths], w = Wanted',
         \A p \in Proxies : p \notin U => want'[p] = None
  PROVE  ProxyInv'
BY OperationKeepsProxies DEF Becomes

LEMMA ProxyStart == P!Init => ProxyInv
<1> SUFFICES ASSUME P!Init PROVE ProxyInv
  OBVIOUS
<1>1. /\ mem.meta = [s \in P!Slots |-> None] /\ mem.live = {} /\ mem.blocks = {} /\ mem.fault = FALSE
      /\ mem.up = {} /\ mem.ptr = [s \in P!Slots |-> Null] /\ mem.val = [o \in Objects |-> Moved]
      /\ mem \in MemType
  BY DEF P!Init, MemType
<1>2. mem \in Sound
  BY <1>1 DEF Sound, OneProxyEach, FullOf
<1>3. Worth(mem) = Wanted /\ want \in [Proxies -> Worths]
  BY <1>1 DEF P!Init, Worth, Wanted, Worths, P!Slots
<1> QED
  BY <1>2, <1>3 DEF P!Init, ProxyInv

\* An assignment from a temporary, whatever made that.
LEMMA AssignedFromTemp ==
  ASSUME NEW m \in Sound, m.meta[Temp] = None, NEW s \in Proxies, NEW x \in Worths,
         NEW n, Becomes(m, n, [Worth(m) EXCEPT ![Temp] = x])
  PROVE  Becomes(m, P!FromTemp(n, s), [Worth(m) EXCEPT ![s] = x])
<1>1. n \in Sound /\ n.up = m.up /\ Worth(n) = [Worth(m) EXCEPT ![Temp] = x]
  BY DEF Becomes
<1>2. Becomes(n, P!FromTemp(n, s), [Worth(n) EXCEPT ![s] = Worth(n)[Temp], ![Temp] = None])
  BY <1>1, TempIsGivenUp
<1>3. /\ s \in P!Slots /\ Temp \in P!Slots /\ s # Temp
      /\ Worth(m) \in [P!Slots -> Worths] /\ Worth(m)[Temp] = None
  BY ProxyFacts, WorthOfSound
<1>4. [Worth(n) EXCEPT ![s] = Worth(n)[Temp], ![Temp] = None] = [Worth(m) EXCEPT ![s] = x]
  BY <1>1, <1>3
<1> QED
  BY <1>1, <1>2, <1>4 DEF Becomes

\* Of a proxy that is destroyed only its own object goes.
LEMMA DestructKeepsType ==
  ASSUME NEW m \in Sound, NEW s \in P!Slots
  PROVE  P!Destruct(m, s) \in MemType /\ P!Destruct(m, s).up = m.up
<1>1. m \in MemType /\ OneProxyEach(m)
  BY DEF Sound
<1>2. CASE m.meta[s] = None
  BY <1>1, <1>2 DEF P!Destruct
<1>3. CASE m.meta[s] # None
  <2>1. m.ptr[s] \in Objects /\ m.ptr[s] # Null
    BY <1>1, <1>3, ProxyFacts DEF OneProxyEach, FullOf, MemType
  <2> QED
    BY <1>1, <1>3, <2>1 DEF P!Destruct, P!DestroyPointer, P!Deallocate, MemType
<1> QED
  BY <1>2, <1>3

\* A new object in place of the old one: meta_ is set either way.
LEMMA ReplaceMakes ==
  ASSUME NEW m \in Sound, NEW s \in P!Slots, NEW k \in P!Kinds, NEW v \in Values
  PROVE  /\ Becomes(m, P!Construct(P!Reset(m, s), s, k, v), [Worth(m) EXCEPT ![s] = v])
         /\ P!Construct(P!Destruct(m, s), s, k, v) = P!Construct(P!Reset(m, s), s, k, v)
<1> DEFINE a == P!Reset(m, s)
           d == P!Destruct(m, s)
<1>1. Becomes(m, a, [Worth(m) EXCEPT ![s] = None]) /\ a.meta[s] = None
  BY ResetDestroys
<1>2. a \in Sound
  BY <1>1 DEF Becomes
<1>3. d \in MemType
  BY DestructKeepsType
<1>4. a = [d EXCEPT !.meta[s] = None]
  BY DEF P!Reset
<1> HIDE DEF a, d
<1>5. Becomes(a, P!Construct(a, s, k, v), [Worth(a) EXCEPT ![s] = v])
  BY <1>1, <1>2, ConstructMakes
<1>6. Becomes(m, P!Construct(a, s, k, v), [Worth(m) EXCEPT ![s] = v])
  BY <1>1, <1>5, WorthOfSound DEF Becomes
<1>7. P!Construct(d, s, k, v) = P!Construct(a, s, k, v)
  <2>1. /\ a \in MemType /\ a.up = d.up /\ a.ptr = d.ptr /\ a.live = d.live /\ a.val = d.val
        /\ a.blocks = d.blocks /\ a.fault = d.fault /\ a.meta = [d.meta EXCEPT ![s] = None]
    BY <1>3, <1>4 DEF MemType
  <2>2. P!Fresh(d) = P!Fresh(a)
    BY <2>1 DEF P!Fresh
  <2>3. [a.meta EXCEPT ![s] = k] = [d.meta EXCEPT ![s] = k]
    BY <1>3, <2>1 DEF MemType
  <2> DEFINE c == P!Construct(a, s, k, v)
             e == P!Construct(d, s, k, v)
  <2>4. P!Fresh(a) \in Objects
    BY <1>2, FreshIsFree
  <2>5. /\ c \in MemType
        /\ c.up = a.up /\ c.fault = a.fault /\ c.live = a.live \cup {P!Fresh(a)}
        /\ c.val = [a.val EXCEPT ![P!Fresh(a)] = v] /\ c.ptr = [a.ptr EXCEPT ![s] = P!Fresh(a)]
        /\ c.meta = [a.meta EXCEPT ![s] = k]
        /\ c.blocks = IF k = Heap THEN a.blocks \cup {P!Fresh(a)} ELSE a.blocks
    BY <2>1, <2>4, ConstructFields, SMTT(30)
  <2>6. /\ e \in MemType
        /\ e.up = d.up /\ e.fault = d.fault /\ e.live = d.live \cup {P!Fresh(d)}
        /\ e.val = [d.val EXCEPT ![P!Fresh(d)] = v] /\ e.ptr = [d.ptr EXCEPT ![s] = P!Fresh(d)]
        /\ e.meta = [d.meta EXCEPT ![s] = k]
        /\ e.blocks = IF k = Heap THEN d.blocks \cup {P!Fresh(d)} ELSE d.blocks
    BY <1>3, <2>2, <2>4, ConstructFields
  <2> HIDE DEF c, e
  <2>7. c = e
    <3>1. /\ c.up = e.up /\ c.fault = e.fault /\ c.live = e.live /\ c.val = e.val /\ c.ptr = e.ptr
          /\ c.meta = e.meta /\ c.blocks = e.blocks
      BY <2>1, <2>2, <2>3, <2>5, <2>6
    <3>2. c \in MemType /\ e \in MemType
      BY <2>5, <2>6
    <3> QED
      BY <3>1, <3>2 DEF MemType
  <2> QED
    BY <2>7 DEF c, e
<1> QED
  BY <1>6, <1>7 DEF a, d

\* Each operation, alone or with a second proxy, succeeding or throwing.
LEMMA ProxiesStayOwned ==
  ASSUME ProxyInv, P!Next
  PROVE  ProxyInv'
<1> DEFINE W == Worth(mem)
<1>1. /\ mem \in Sound /\ mem \in MemType /\ mem.up \in SUBSET Proxies /\ want \in [Proxies -> Worths]
      /\ W = Wanted /\ W \in [P!Slots -> Worths] /\ mem.meta[Temp] = None
      /\ \A p \in Proxies : W[p] = want[p] /\ (want[p] = None <=> mem.meta[p] = None)
  <2>1. mem \in Sound /\ mem \in MemType /\ mem.up \in SUBSET Proxies
    BY DEF ProxyInv, Sound, MemType
  <2>2. W = Wanted /\ W[Temp] = None /\ \A p \in Proxies : W[p] = want[p]
    BY ProxyFacts DEF ProxyInv, Wanted
  <2> QED
    BY <2>1, <2>2, WorthOfSound, ProxyFacts DEF ProxyInv
<1>2. [mem EXCEPT !.up = mem.up] = mem /\ None \in Worths /\ Values \subseteq Worths
  BY <1>1, SoundInLife DEF Worths
<1>3. \A p \in Proxies : mem.meta[p] = None => [mem EXCEPT !.meta[p] = None] = mem
  BY <1>1, EmptyStaysEmpty, ProxyFacts
<1>4. \A p \in Proxies : p \notin mem.up => want[p] = None /\ mem.meta[p] = None
  BY <1>1 DEF ProxyInv
<1>5. \A n, w : Becomes(mem, n, w) => n \in Sound /\ n.up = mem.up /\ [n EXCEPT !.up = mem.up] = n
  BY SoundInLife DEF Becomes, Sound, MemType
<1>6. \A p \in Proxies : p \in P!Slots /\ p # Temp
  BY ProxyFacts
<1>7. PICK p \in Proxies :
        \/ P!ConstructEmpty(p) \/ P!Destroy(p) \/ P!AssignNull(p)
        \/ \E k \in P!Kinds, v \in Values : P!Make(p, k, v) \/ P!AssignPointer(p, k, v) \/ P!Emplace(p, k, v)
        \/ \E q \in Proxies : \/ P!CopyConstruct(p, q) \/ P!MoveConstruct(p, q) \/ P!CopyAssign(p, q)
                              \/ P!MoveAssign(p, q) \/ P!Swap(p, q) \/ P!SwapThrows(p, q)
  BY DEF P!Next
<1> HIDE DEF W
\* p stays or becomes one in life, and its worth alone changes.
<1>8. ASSUME NEW n, NEW x \in Worths, NEW U \in SUBSET Proxies, Becomes(mem, n, [W EXCEPT ![p] = x]),
             mem' = [n EXCEPT !.up = U], mem.up \ {p} \subseteq U,
             p \notin U => x = None,
             want' = [want EXCEPT ![p] = x]
      PROVE  ProxyInv'
  <2>1. want' \in [Proxies -> Worths] /\ \A r \in Proxies : r \notin U => want'[r] = None
    BY <1>1, <1>4, <1>8
  <2>2. [W EXCEPT ![p] = x] = Wanted'
    BY <1>1, <1>6, <1>8 DEF Wanted
  <2> QED
    BY <1>8, <2>1, <2>2, StepKeepsProxies
\* Nothing happens, as in a constructor that throws.
<1>9. ASSUME mem' = mem, want' = want PROVE ProxyInv'
  BY <1>9 DEF ProxyInv, Wanted, Worth
\* p and q, which is in life, change their worths.
<1>10. ASSUME NEW q \in mem.up, NEW n, NEW x \in Worths, NEW y \in Worths,
              Becomes(mem, n, [W EXCEPT ![p] = x, ![q] = y]),
              mem' = [n EXCEPT !.up = mem.up \cup {p}], want' = [want EXCEPT ![p] = x, ![q] = y]
       PROVE  ProxyInv'
  <2>1. q \in Proxies /\ q \in P!Slots /\ q # Temp /\ mem.up \cup {p} \in SUBSET Proxies
    BY <1>1, <1>6
  <2>2. want' \in [Proxies -> Worths] /\ \A r \in Proxies : r \notin mem.up \cup {p} => want'[r] = None
    BY <1>1, <1>4, <1>10, <2>1
  <2>3. [W EXCEPT ![p] = x, ![q] = y] = Wanted'
    <3> DEFINE w == [W EXCEPT ![p] = x, ![q] = y]
    <3>1. /\ w \in [P!Slots -> Worths] /\ w[q] = y /\ (p # q => w[p] = x)
          /\ \A r \in P!Slots \ {p, q} : w[r] = W[r]
      BY <1>1, <1>6, <1>10, <2>1
    <3>2. want'[q] = y /\ (p # q => want'[p] = x) /\ \A r \in Proxies \ {p, q} : want'[r] = want[r]
      BY <1>1, <1>10, <2>1
    <3>3. \A r \in P!Slots : r = Temp \/ r \in Proxies
      BY DEF P!Slots
    <3>4. W[Temp] = None
      BY <1>1, ProxyFacts DEF Wanted
    <3> HIDE DEF w
    <3>5. \A r \in P!Slots : w[r] = IF r = Temp THEN None ELSE want'[r]
      BY <1>1, <1>6, <2>1, <3>1, <3>2, <3>3, <3>4
    <3>6. w = Wanted'
      BY <3>1, <3>5 DEF Wanted
    <3> QED
      BY <3>6 DEF w
  <2> QED
    BY <1>10, <2>1, <2>2, <2>3, StepKeepsProxies
\* A proxy in life loses its value.
<1>26. ASSUME NEW r \in mem.up, NEW n, Becomes(mem, n, [W EXCEPT ![r] = None]), mem' = n,
              want' = [want EXCEPT ![r] = None]
       PROVE  ProxyInv'
  <2>1. r \in Proxies /\ r \in P!Slots /\ r # Temp
    BY <1>1, <1>6
  <2>2. /\ mem' = [n EXCEPT !.up = mem.up] /\ want' \in [Proxies -> Worths]
        /\ \A s \in Proxies : s \notin mem.up => want'[s] = None
    BY <1>1, <1>2, <1>4, <1>5, <1>26
  <2>3. [W EXCEPT ![r] = None] = Wanted'
    BY <1>1, <1>26, <2>1 DEF Wanted
  <2> QED
    BY <1>1, <1>26, <2>2, <2>3, StepKeepsProxies
<1>a. mem.up \cup {p} \in SUBSET Proxies /\ mem.up \ {p} \in SUBSET Proxies
  BY <1>1
<1>11. p \in P!Slots /\ p # Temp /\ Temp \in P!Slots /\ None \in Worths
  BY <1>2, <1>6, ProxyFacts
<1>12. Becomes(mem, P!Reset(mem, p), [W EXCEPT ![p] = None]) /\ P!Reset(mem, p).meta[p] = None
  BY <1>1, <1>11, ResetDestroys DEF W
<1>25. \A m, q : P!MayThrow(m, q) => m.meta[q] # None
  BY ProxyFacts DEF P!MayThrow
<1>13. CASE P!ConstructEmpty(p)
  <2>1. mem' = [mem EXCEPT !.up = mem.up \cup {p}] /\ p \notin mem.up /\ want' = [want EXCEPT ![p] = None]
    BY <1>3, <1>4, <1>13 DEF P!ConstructEmpty, P!Begins, P!Up
  <2>2. Becomes(mem, mem, [W EXCEPT ![p] = None])
    BY <1>1, <1>4, <2>1 DEF Becomes, W
  <2> QED
    BY <1>8, <1>11, <1>a, <2>1, <2>2
<1>14. CASE P!Destroy(p)
  <2> DEFINE d == P!Destruct(mem, p)
  <2>1. d \in MemType /\ d.up = mem.up /\ P!Reset(mem, p) = [d EXCEPT !.meta[p] = None]
    BY <1>1, <1>11, DestructKeepsType DEF P!Reset
  <2>2. mem' = [d EXCEPT !.up = @ \ {p}, !.meta[p] = None] /\ want' = [want EXCEPT ![p] = None]
    BY <1>14 DEF P!Destroy
  <2> HIDE DEF d
  <2>3. mem' = [P!Reset(mem, p) EXCEPT !.up = mem.up \ {p}]
    BY <2>1, <2>2 DEF MemType
  <2> QED
    BY <1>8, <1>11, <1>12, <1>a, <2>2, <2>3
<1>15. CASE P!AssignNull(p)
  <2>1. mem' = P!Reset(mem, p) /\ want' = [want EXCEPT ![p] = None] /\ p \in mem.up
    BY <1>15 DEF P!AssignNull, P!Up
  <2> QED
    BY <1>1, <1>5, <1>8, <1>11, <1>12, <2>1
<1>16. ASSUME NEW k \in P!Kinds, NEW v \in Values, P!Make(p, k, v) PROVE ProxyInv'
  <2>1. CASE mem' = P!Begins(P!Construct(mem, p, k, v), p) /\ want' = [want EXCEPT ![p] = v]
    <3> DEFINE n == P!Construct(mem, p, k, v)
    <3>1. Becomes(mem, n, [W EXCEPT ![p] = v])
      BY <1>1, <1>4, <1>11, <1>16, ConstructMakes DEF P!Make, P!Up, W
    <3>2. mem' = [n EXCEPT !.up = n.up \cup {p}]
      BY <2>1 DEF P!Begins
    <3> HIDE DEF n
    <3>3. mem' = [n EXCEPT !.up = mem.up \cup {p}] /\ v \in Worths
      BY <1>2, <1>5, <3>1, <3>2
    <3> QED
      BY <1>8, <1>a, <2>1, <3>1, <3>3
  <2> QED
    BY <1>9, <1>16, <2>1 DEF P!Make, P!Failed
<1>17. ASSUME NEW k \in P!Kinds, NEW v \in Values,
              mem' = P!Construct(P!Reset(mem, p), p, k, v), want' = [want EXCEPT ![p] = v], p \in mem.up
       PROVE  ProxyInv'
  <2>1. Becomes(mem, P!Construct(P!Reset(mem, p), p, k, v), [W EXCEPT ![p] = v])
    BY <1>1, <1>11, ReplaceMakes DEF W
  <2> QED
    BY <1>1, <1>2, <1>5, <1>8, <1>17, <2>1
<1>18. ASSUME NEW k \in P!Kinds, NEW v \in Values, P!AssignPointer(p, k, v) PROVE ProxyInv'
  <2>1. CASE mem' = P!Construct(P!Destruct(mem, p), p, k, v) /\ want' = [want EXCEPT ![p] = v]
    <3>1. P!Construct(P!Destruct(mem, p), p, k, v) = P!Construct(P!Reset(mem, p), p, k, v)
      BY <1>1, <1>11, ReplaceMakes
    <3> QED
      BY <1>17, <1>18, <2>1, <3>1 DEF P!AssignPointer, P!Up
  <2>2. CASE mem' = P!FromTemp(P!Construct(mem, Temp, k, v), p) /\ want' = [want EXCEPT ![p] = v]
    <3>1. Becomes(mem, P!Construct(mem, Temp, k, v), [W EXCEPT ![Temp] = v])
      BY <1>1, <1>11, ConstructMakes DEF W
    <3>2. Becomes(mem, P!FromTemp(P!Construct(mem, Temp, k, v), p), [W EXCEPT ![p] = v])
      BY <1>1, <1>2, <3>1, AssignedFromTemp DEF W
    <3> QED
      BY <1>1, <1>2, <1>5, <1>8, <1>18, <2>2, <3>2 DEF P!AssignPointer, P!Up
  <2>3. CASE k = InPlace /\ mem' = P!FromTempFails(P!Construct(mem, Temp, k, v), p) /\ want' = [want EXCEPT ![p] = None]
    <3>1. Becomes(mem, P!Construct(mem, Temp, k, v), [W EXCEPT ![Temp] = v])
      BY <1>1, <1>11, ConstructMakes DEF W
    <3>2. Becomes(mem, P!FromTempFails(P!Construct(mem, Temp, k, v), p), [W EXCEPT ![p] = None])
      BY <1>1, <3>1, FailedAssignmentLoses DEF W
    <3> QED
      BY <1>1, <1>5, <1>8, <1>11, <1>18, <2>3, <3>2 DEF P!AssignPointer, P!Up
  <2> QED
    BY <1>9, <1>18, <2>1, <2>2, <2>3 DEF P!AssignPointer, P!Failed
<1>19. ASSUME NEW k \in P!Kinds, NEW v \in Values, P!Emplace(p, k, v) PROVE ProxyInv'
  <2>1. CASE mem' = P!Construct(P!Reset(mem, p), p, k, v) /\ want' = [want EXCEPT ![p] = v]
    BY <1>17, <1>19, <2>1 DEF P!Emplace, P!Up
  <2>2. CASE mem' = P!Reset(mem, p) /\ want' = [want EXCEPT ![p] = None]
    BY <1>1, <1>5, <1>8, <1>11, <1>12, <1>19, <2>2 DEF P!Emplace, P!Up
  <2> QED
    BY <1>19, <2>1, <2>2 DEF P!Emplace, P!Failed
<1>20. ASSUME NEW q \in Proxies, P!CopyConstruct(p, q) PROVE ProxyInv'
  <2>1. p \notin mem.up /\ q \in mem.up /\ p # q /\ mem.meta[p] = None
    BY <1>4, <1>20 DEF P!CopyConstruct, P!Up
  <2>2. CASE mem' = P!Begins(P!CopyInto(mem, p, q), p) /\ want' = [want EXCEPT ![p] = want[q]]
    <3> DEFINE n == P!CopyInto(mem, p, q)
    <3>1. Becomes(mem, n, [W EXCEPT ![p] = W[q]])
      BY <1>1, <1>6, <1>11, <2>1, CopyCopies DEF W
    <3>2. mem' = [n EXCEPT !.up = n.up \cup {p}]
      BY <2>2 DEF P!Begins
    <3> HIDE DEF n
    <3>3. mem' = [n EXCEPT !.up = mem.up \cup {p}] /\ W[q] \in Worths /\ W[q] = want[q]
      BY <1>1, <1>5, <3>1, <3>2
    <3> QED
      BY <1>8, <1>a, <2>2, <3>1, <3>3
  <2> QED
    BY <1>9, <1>20, <2>2 DEF P!CopyConstruct, P!Failed
<1>21. ASSUME NEW q \in Proxies, P!CopyAssign(p, q) PROVE ProxyInv'
  <2>1. CASE mem' = P!FromTemp(P!CopyInto(mem, Temp, q), p) /\ want' = [want EXCEPT ![p] = want[q]]
    <3>1. Becomes(mem, P!CopyInto(mem, Temp, q), [W EXCEPT ![Temp] = W[q]])
      BY <1>1, <1>6, <1>11, CopyCopies DEF W
    <3>2. W[q] \in Worths /\ W[q] = want[q]
      BY <1>1
    <3>3. Becomes(mem, P!FromTemp(P!CopyInto(mem, Temp, q), p), [W EXCEPT ![p] = W[q]])
      BY <1>1, <3>1, <3>2, AssignedFromTemp DEF W
    <3> QED
      BY <1>1, <1>5, <1>8, <1>21, <2>1, <3>2, <3>3 DEF P!CopyAssign, P!Up
  <2>2. CASE /\ P!MayThrow(mem, q) /\ mem' = P!FromTempFails(P!CopyInto(mem, Temp, q), p)
             /\ want' = [want EXCEPT ![p] = None]
    <3>1. Becomes(mem, P!CopyInto(mem, Temp, q), [W EXCEPT ![Temp] = W[q]])
      BY <1>1, <1>6, <1>11, CopyCopies DEF W
    <3>2. W[q] \in Values
      BY <1>1, <1>6, <1>25, <2>2 DEF Worths
    <3>3. Becomes(mem, P!FromTempFails(P!CopyInto(mem, Temp, q), p), [W EXCEPT ![p] = None])
      BY <1>1, <3>1, <3>2, FailedAssignmentLoses DEF W
    <3> QED
      BY <1>1, <1>5, <1>8, <1>11, <1>21, <2>2, <3>3 DEF P!CopyAssign, P!Up
  <2> QED
    BY <1>9, <1>21, <2>1, <2>2 DEF P!CopyAssign, P!Failed
<1>22. ASSUME NEW q \in Proxies, P!MoveConstruct(p, q) PROVE ProxyInv'
  <2>1. p \notin mem.up /\ q \in mem.up /\ p # q /\ mem.meta[p] = None
    BY <1>4, <1>22 DEF P!MoveConstruct, P!Up
  <2>2. CASE mem' = P!Begins(P!MoveInto(mem, p, q), p) /\ want' = [want EXCEPT ![p] = want[q], ![q] = None]
    <3> DEFINE n == P!MoveInto(mem, p, q)
    <3>1. Becomes(mem, n, [W EXCEPT ![p] = W[q], ![q] = None])
      BY <1>1, <1>6, <1>11, <2>1, MoveMoves DEF W
    <3>2. mem' = [n EXCEPT !.up = n.up \cup {p}]
      BY <2>2 DEF P!Begins
    <3> HIDE DEF n
    <3>3. mem' = [n EXCEPT !.up = mem.up \cup {p}] /\ W[q] \in Worths /\ W[q] = want[q]
      BY <1>1, <1>5, <3>1, <3>2
    <3> QED
      BY <1>10, <1>11, <2>1, <2>2, <3>1, <3>3
  <2>3. CASE P!MayThrow(mem, q) /\ mem' = P!MoveFails(mem, p, q) /\ want' = [want EXCEPT ![q] = None]
    <3>1. W[q] # None
      BY <1>1, <1>6, <1>25, <2>3
    <3>2. Becomes(mem, P!MoveFails(mem, p, q), [W EXCEPT ![q] = None])
      BY <1>1, <1>6, <2>1, <3>1, FailedMoveDestroys, WorthOfSound DEF W
    <3> QED
      BY <1>11, <1>26, <2>1, <2>3, <3>2
  <2> QED
    BY <1>22, <2>2, <2>3 DEF P!MoveConstruct
<1>23. ASSUME NEW q \in Proxies, P!MoveAssign(p, q) PROVE ProxyInv'
  <2>1. p \in mem.up /\ q \in mem.up /\ mem.up \cup {p} = mem.up
    BY <1>23 DEF P!MoveAssign, P!Up
  <2>2. CASE p = q
    BY <1>9, <1>23, <2>2 DEF P!MoveAssign, P!MoveOver
  <2>4. CASE /\ p # q /\ P!MayThrow(mem, q) /\ mem' = P!MoveFails(P!Reset(mem, p), p, q)
             /\ want' = [want EXCEPT ![p] = None, ![q] = None]
    <3> DEFINE a == P!Reset(mem, p)
    <3>1. a \in Sound /\ a.up = mem.up /\ Worth(a) = [W EXCEPT ![p] = None] /\ a.meta[p] = None
      BY <1>12 DEF Becomes
    <3>2. Worth(a)[q] = W[q] /\ W[q] # None
      BY <1>1, <1>6, <1>11, <1>25, <2>4, <3>1
    <3> HIDE DEF a
    <3>3. a.meta[q] # None
      BY <1>6, <3>1, <3>2, WorthOfSound
    <3>4. Becomes(a, P!MoveFails(a, p, q), [Worth(a) EXCEPT ![q] = None])
      BY <1>6, <1>11, <3>1, <3>3, FailedMoveDestroys
    <3>5. Becomes(mem, P!MoveFails(a, p, q), [W EXCEPT ![p] = None, ![q] = None])
      BY <3>1, <3>4 DEF Becomes
    <3>6. mem' = [P!MoveFails(a, p, q) EXCEPT !.up = mem.up \cup {p}]
      BY <1>5, <2>1, <2>4, <3>5 DEF a
    <3> QED
      BY <1>10, <1>11, <2>1, <2>4, <3>5, <3>6
  <2>3. CASE p # q /\ mem' = P!MoveOver(mem, p, q) /\ want' = [want EXCEPT ![p] = want[q], ![q] = None]
    <3>1. Becomes(mem, P!MoveOver(mem, p, q), [W EXCEPT ![p] = W[q], ![q] = None])
      BY <1>1, <1>6, <2>3, MoveOverMoves DEF W
    <3>3. mem' = [P!MoveOver(mem, p, q) EXCEPT !.up = mem.up \cup {p}] /\ W[q] \in Worths /\ W[q] = want[q]
      BY <1>1, <1>5, <2>1, <2>3, <3>1
    <3> QED
      BY <1>10, <1>11, <2>1, <2>3, <3>1, <3>3
  <2> QED
    BY <1>23, <2>2, <2>3, <2>4 DEF P!MoveAssign
<1>27. ASSUME NEW q \in Proxies, P!SwapThrows(p, q) PROVE ProxyInv'
  <2> DEFINE a == P!MoveInto(mem, Temp, p)
             b == P!MoveInto(a, p, q)
  <2>1. p \in mem.up /\ q \in mem.up /\ mem.up \cup {p} = mem.up
    BY <1>27 DEF P!SwapThrows, P!Up
  <2>2. CASE /\ mem.meta[p] # None /\ mem.meta[q] # None
             /\ mem' = P!MoveFails(mem, Temp, p) /\ want' = [want EXCEPT ![p] = None]
    BY <1>1, <1>11, <1>26, <2>1, <2>2, FailedMoveDestroys DEF W
  <2>3. CASE /\ mem.meta[p] # None /\ mem.meta[q] # None /\ a.meta[q] # None
             /\ mem' = P!Reset(P!MoveFails(a, p, q), Temp) /\ want' = [want EXCEPT ![p] = None, ![q] = None]
    <3>1. Becomes(mem, P!Reset(P!MoveFails(a, p, q), Temp), [W EXCEPT ![p] = None, ![q] = None])
      BY <1>1, <2>3, FailedSwapLoses DEF W
    <3> HIDE DEF a, b
    <3>2. mem' = [P!Reset(P!MoveFails(a, p, q), Temp) EXCEPT !.up = mem.up \cup {p}]
      BY <1>5, <2>1, <2>3, <3>1
    <3> QED
      BY <1>10, <1>11, <2>1, <2>3, <3>1, <3>2
  <2>4. CASE /\ mem.meta[p] # None /\ mem.meta[q] # None
             /\ mem' = P!MoveFails(b, q, Temp) /\ want' = [want EXCEPT ![p] = want[q], ![q] = None]
    <3>1. Becomes(mem, P!MoveFails(b, q, Temp), [W EXCEPT ![p] = W[q], ![q] = None])
      BY <1>1, <2>4, FailedSwapLoses DEF W
    <3>2. W[q] \in Worths /\ W[q] = want[q]
      BY <1>1
    <3> HIDE DEF a, b
    <3>3. mem' = [P!MoveFails(b, q, Temp) EXCEPT !.up = mem.up \cup {p}]
      BY <1>5, <2>1, <2>4, <3>1
    <3> QED
      BY <1>10, <1>11, <2>1, <2>4, <3>1, <3>2, <3>3
  <2>5. CASE \E r, s \in {p, q} : /\ mem.meta[s] = None /\ P!MayThrow(mem, r) /\ mem' = P!MoveFails(mem, s, r)
                                  /\ want' = [want EXCEPT ![r] = None]
    BY <1>1, <1>6, <1>25, <1>26, <2>1, <2>5, FailedMoveDestroys DEF W
  <2> QED
    BY <1>25, <1>27, <2>2, <2>3, <2>4, <2>5 DEF P!SwapThrows
<1>24. ASSUME NEW q \in Proxies, P!Swap(p, q) PROVE ProxyInv'
  <2>1. p \in mem.up /\ q \in mem.up /\ mem.up \cup {p} = mem.up
    BY <1>24 DEF P!Swap, P!Up
  <2>2. Becomes(mem, P!Swapped(mem, p, q), [W EXCEPT ![p] = W[q], ![q] = W[p]])
    BY <1>1, SwapSwaps DEF W
  <2>3. mem' = P!Swapped(mem, p, q) /\ want' = [want EXCEPT ![p] = want[q], ![q] = want[p]]
    BY <1>24 DEF P!Swap
  <2>4. /\ mem' = [P!Swapped(mem, p, q) EXCEPT !.up = mem.up \cup {p}]
        /\ W[q] \in Worths /\ W[q] = want[q] /\ W[p] \in Worths /\ W[p] = want[p]
    BY <1>1, <1>5, <2>1, <2>2, <2>3
  <2> QED
    BY <1>10, <2>1, <2>2, <2>3, <2>4
<1> QED
  BY <1>7, <1>13, <1>14, <1>15, <1>16, <1>18, <1>19, <1>20, <1>21, <1>22, <1>23, <1>24, <1>27

THEOREM ProxiesAreOwned == P!Spec => []ProxyInv
<1>1. ProxyInv /\ [P!Next]_(P!vars) => ProxyInv'
  <2>1. ASSUME ProxyInv, UNCHANGED <<mem, want>> PROVE ProxyInv'
    BY <2>1 DEF ProxyInv, Wanted, Worth
  <2> QED
    BY <2>1, ProxiesStayOwned DEF P!vars
<1> QED
  BY <1>1, ProxyStart, PTL DEF P!Spec

(***************************************************************************)
(* Between two operations every object has one proxy, storage is exactly   *)
(* that of the objects on the heap, and none has been destroyed twice or   *)
(* used when dead, whatever was moved, swapped or could not be made.       *)
(***************************************************************************)
THEOREM EveryObjectHasItsProxy == P!Spec => []ProxiesOwnTheirObjects
<1>1. ProxyInv => ProxiesOwnTheirObjects
  <2> SUFFICES ASSUME ProxyInv PROVE ProxiesOwnTheirObjects
    OBVIOUS
  <2>1. OneProxyEach(mem) /\ FullOf(mem) = P!Full
    BY DEF ProxyInv, Sound, FullOf, P!Full
  <2>2. P!OneProxyPerObject
    <3>1. mem.live = {mem.ptr[s] : s \in P!Full}
      BY <2>1 DEF OneProxyEach
    <3>2. mem.blocks = {mem.ptr[s] : s \in {t \in P!Full : mem.meta[t] = Heap}}
      BY <2>1 DEF OneProxyEach
    <3>3. \A s, t \in P!Full : mem.ptr[s] = mem.ptr[t] => s = t
      BY <2>1 DEF OneProxyEach
    <3> QED
      BY <3>1, <3>2, <3>3 DEF P!OneProxyPerObject
  <2> QED
    BY <2>1, <2>2 DEF ProxiesOwnTheirObjects, P!DestroyedOnce, OneProxyEach
<1> QED
  BY <1>1, ProxiesAreOwned, PTL

(***************************************************************************)
(* A proxy is worth what it was last given: a copy that throws leaves both *)
(* proxies as they were, and a swap or a move with itself too.  A move     *)
(* that throws takes the values from the proxies it moves, those that an   *)
(* assignment or the temporary of a swap involves included, and from no    *)
(* others; where relocation cannot throw, no value is lost so.             *)
(***************************************************************************)
THEOREM ProxiesKeepTheirWorth == P!Spec => []WorthWhatItWasGiven
<1>1. ProxyInv => WorthWhatItWasGiven
  <2> SUFFICES ASSUME ProxyInv, NEW p \in mem.up
               PROVE  want[p] = IF mem.meta[p] = None THEN None ELSE mem.val[mem.ptr[p]]
    BY DEF WorthWhatItWasGiven, P!WorthWhatItWasGiven
  <2>1. p \in Proxies /\ p \in P!Slots /\ p # Temp
    BY ProxyFacts DEF ProxyInv, Sound, MemType
  <2>2. Worth(mem)[p] = Wanted[p]
    BY DEF ProxyInv
  <2> QED
    BY <2>1, <2>2 DEF Worth, Wanted
<1> QED
  BY <1>1, ProxiesAreOwned, PTL
=============================================================================
