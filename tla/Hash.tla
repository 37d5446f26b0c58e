-------------------------------- MODULE Hash --------------------------------
(***************************************************************************)
(* Hashes, each with an array of its own, and their order.  A byte is a    *)
(* number; as a char its upper half is negative.                           *)
(***************************************************************************)
EXTENDS Integers, FiniteSets, Functions, SequencesExt

CONSTANTS
  Hashes,     \* variables that hold a hash
  Arrays,     \* places for their bytes
  ByteLen,    \* 20
  ByteWord,   \* 256
  Nil, Null   \* no hash here; a hash without an array, which has been moved from

\* Assumed of the instances.
HashAssumption ==
  /\ ByteLen \in Nat \ {0} /\ ByteWord \in Nat \ {0}
  /\ Nil \notin Arrays /\ Null \notin Arrays /\ Nil # Null

VARIABLES
  data,     \* Hash::data of each variable, or Nil
  live,     \* the arrays that have been allocated and not deleted
  content,  \* the bytes of each array
  value,    \* history: the bytes each hash was given
  lost,     \* history: the arrays a move assignment has dropped
  down      \* whether the program has ended, at a null pointer

vars == <<data, live, content, value, lost, down>>

Bytes == [1..ByteLen -> 0..ByteWord - 1]
Zeros == [i \in 1..ByteLen |-> 0]
Has(h) == data[h] \in Arrays

Init ==
  /\ data = [h \in Hashes |-> Nil]
  /\ live = {}
  /\ content = [a \in Arrays |-> Zeros]
  /\ value = [h \in Hashes |-> Zeros]
  /\ lost = {}
  /\ down = FALSE
-----------------------------------------------------------------------------
\* A new array for h with these bytes.
Allocate(h, bytes) ==
  /\ data[h] = Nil
  /\ \E a \in Arrays \ live :
       /\ data' = [data EXCEPT ![h] = a]
       /\ live' = live \cup {a}
       /\ content' = [content EXCEPT ![a] = bytes]
  /\ value' = [value EXCEPT ![h] = bytes]
  /\ UNCHANGED <<lost, down>>

\* Bytes are copied from, or to, a hash without an array: nothing checks for it.
GoesDown == down' = TRUE /\ UNCHANGED <<data, live, content, value, lost>>

\* Hash(), Hash(span), Of and Parse.
Construct(h) == \E bytes \in Bytes : Allocate(h, bytes)

CopyConstruct(h, g) ==
  /\ data[h] = Nil /\ data[g] # Nil
  /\ IF Has(g) THEN Allocate(h, content[data[g]]) ELSE GoesDown

\* Mutation: the source keeps its array.
MovedKeeps(g) == data[g]
Emptied(g) == Null

MoveConstruct(h, g) ==
  /\ data[h] = Nil /\ data[g] # Nil
  /\ data' = [data EXCEPT ![h] = data[g], ![g] = Emptied(g)]
  /\ value' = [value EXCEPT ![h] = value[g]]
  /\ UNCHANGED <<live, content, lost, down>>

\* Mutation: the target shares the array of the source.
CopyAssignShared(h, g) ==
  /\ h # g /\ Has(h) /\ Has(g) /\ data' = [data EXCEPT ![h] = data[g]] /\ live' = live \ {data[h]}
  /\ value' = [value EXCEPT ![h] = value[g]] /\ UNCHANGED <<content, lost, down>>
\* The target keeps the array it has, and gets none if it has none.
CopyAssign(h, g) ==
  /\ h # g /\ data[h] # Nil /\ data[g] # Nil
  /\ \/ /\ Has(h) /\ Has(g)
        /\ content' = [content EXCEPT ![data[h]] = content[data[g]]]
        /\ value' = [value EXCEPT ![h] = value[g]]
        /\ UNCHANGED <<data, live, lost, down>>
     \/ ~(Has(h) /\ Has(g)) /\ GoesDown

\* The target's own array is neither deleted nor handed to the source.
MoveAssign(h, g) ==
  /\ h # g /\ data[h] # Nil /\ data[g] # Nil
  /\ data' = [data EXCEPT ![h] = data[g], ![g] = Emptied(g)]
  /\ value' = [value EXCEPT ![h] = value[g]]
  /\ lost' = IF Has(h) THEN lost \cup {data[h]} ELSE lost
  /\ UNCHANGED <<live, content, down>>

\* Mutation: only the pointer goes.
DeletedNothing(h) == {}
Deleted(h) == {data[h]}
Destroy(h) ==
  /\ data[h] # Nil
  /\ live' = live \ Deleted(h)
  /\ content' = IF Has(h) THEN [content EXCEPT ![data[h]] = Zeros] ELSE content
  /\ data' = [data EXCEPT ![h] = Nil]
  /\ value' = [value EXCEPT ![h] = Zeros]
  /\ UNCHANGED <<lost, down>>

Next ==
  ~down /\ \E h \in Hashes :
    \/ Construct(h) \/ Destroy(h)
    \/ \E g \in Hashes : CopyConstruct(h, g) \/ MoveConstruct(h, g) \/ CopyAssign(h, g) \/ MoveAssign(h, g)

Spec == Init /\ [][Next]_vars
-----------------------------------------------------------------------------
\* The number a char stands for.
Char(b) == IF 2 * b < ByteWord THEN b ELSE b - ByteWord

\* operator<: std::lexicographical_compare over two arrays of one length.
\* Mutation: all bytes are compared, of which none may be greater.
LessFromEnd(x, y) == \E i \in 1..ByteLen : Char(x[i]) < Char(y[i]) /\ \A j \in 1..ByteLen : Char(x[j]) <= Char(y[j])
Less(x, y) == \E i \in 1..ByteLen : Char(x[i]) < Char(y[i]) /\ \A j \in 1..i - 1 : x[j] = y[j]

(***************************************************************************)
(* No array belongs to two hashes, or to a hash and to the allocator: the  *)
(* destructors delete each one once (lines 68 to 89).                      *)
(***************************************************************************)
OneOwner ==
  \A h \in Hashes : Has(h) => data[h] \in live \ lost /\ \A g \in Hashes : data[g] = data[h] => g = h

(***************************************************************************)
(* A hash keeps the bytes it was given, whatever happens to the hash they  *)
(* were copied or moved from.                                              *)
(***************************************************************************)
ValuesAreKept == \A h \in Hashes : Has(h) => content[data[h]] = value[h]

(***************************************************************************)
(* Every array has an owner, but those a move assignment took from a hash  *)
(* that had one (line 82): these are never deleted.                        *)
(***************************************************************************)
OnlyMoveAssignmentLeaks == live = lost \cup {data[h] : h \in {g \in Hashes : Has(g)}}

(***************************************************************************)
(* The program ends at a null pointer only if a hash has been moved from   *)
(* and neither destroyed nor moved to since; copying to it does not give   *)
(* it an array (line 74).                                                  *)
(***************************************************************************)
OnlyMovedFromHashesFail == down => \E h \in Hashes : data[h] = Null

(***************************************************************************)
(* operator< is an order that sorting may rely on: of two hashes exactly   *)
(* one is less unless they are equal, and it is transitive.  (It is not    *)
(* the order of the strings: line 123 compares signed chars.)              *)
(***************************************************************************)
LessIsAnOrder ==
  \A h, g, k \in Hashes : Has(h) /\ Has(g) /\ Has(k) =>
    LET x == content[data[h]] y == content[data[g]] z == content[data[k]]
    IN  /\ x # y <=> Less(x, y) \/ Less(y, x)
        /\ ~(Less(x, y) /\ Less(y, x))
        /\ Less(x, y) /\ Less(y, z) => Less(x, z)
=============================================================================
