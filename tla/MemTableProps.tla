--------------------------- MODULE MemTableProps ----------------------------
(***************************************************************************)
(* What the in-memory tables promise, over MemTable.                       *)
(***************************************************************************)
EXTENDS MemTable, FiniteSets

\* The bytes a table really holds: each place of each slice under an address.
BytesIn(m) == UNION {{h} \X (1..SizeOf[table[m][h]]) : h \in Keys(m)}
Held(m) == Cardinality(BytesIn(m))

(***************************************************************************)
(* The limit of the constructor bounds what the table holds, and not only  *)
(* its count, whatever was accepted, repeated, refused or cut short by an  *)
(* exception (addChunk, line 19).                                          *)
(***************************************************************************)
WithinLimit == \A m \in Table : MaxData[m] >= 0 => Held(m) <= MaxData[m]

(***************************************************************************)
(* extract never meets "Inconsistent MemTable state": no sequence of calls *)
(* and exceptions puts an address in the order and not in the map.         *)
(***************************************************************************)
NeverInconsistent == \A m \in Table : Extractable(m)

(***************************************************************************)
(* "Returns the chunks in insertion order" (table.h, extract): what        *)
(* addChunk has returned true for, once each, with the data that came      *)
(* first.  (Of a table whose additions may throw it is not true: one that  *)
(* throws after the map, at line 25, leaves a chunk that a second addChunk *)
(* accepts and that extract omits.)                                        *)
(***************************************************************************)
ExtractsAccepted == \A m \in Table \ Failing : Extract(m) = accepted[m]

(***************************************************************************)
(* Where no allocation fails the count is what uncompressedLen() promises, *)
(* the sum of the sizes of the chunks in the table, in 64 bits.  (A limit  *)
(* below 0 is an uint64_t near 2^64, and so bounds nothing else.)          *)
(***************************************************************************)
CountIsExact == \A m \in Table \ Failing : totalData[m] = Held(m) % Word

\* The count is that of the bytes in the table, and within the limit (mem_table.cpp:19).
CountsWithinLimit == CountIsExact /\ WithinLimit

(***************************************************************************)
(* First writer wins: the data under an address never changes.             *)
(***************************************************************************)
FirstWriterWins ==
  [][\A m \in Table, h \in Hash : table[m][h] # NoData => table'[m][h] = table[m][h]]_vars

(***************************************************************************)
(* A request shown to a chain of tables: what one table has answered, no   *)
(* later table takes back or answers again (rec.has, rec.found), although  *)
(* tables may hold different data for one address.                         *)
(***************************************************************************)
AnswersStand ==
  [][\A h \in request.found :
       \/ \E method \in {"hasMany", "getMany"}, asked \in SUBSET Hash : Ask(method, asked)
       \/ h \in request'.found /\ request'.answer[h] = request.answer[h]]_vars

(***************************************************************************)
(* What the chain returns is true: nothing remains exactly when every      *)
(* record has been found, and the data of a record found by getMany is     *)
(* what some table holds at its address still.                             *)
(***************************************************************************)
ChainIsHonest ==
  /\ request.remaining <=> request.found # request.asked
  /\ request.method = "getMany" =>
       \A h \in request.found : \E m \in Table :
         h \in Keys(m) /\ request.answer[h] = table[m][h]
-----------------------------------------------------------------------------
(***************************************************************************)
(* The inductive invariant of the proofs.  An address is in the order once *)
(* and only when it is in the map, with the data it was accepted with.     *)
(***************************************************************************)
OrderInv ==
  \A m \in Table :
    /\ Extractable(m)
    /\ \A i, j \in DOMAIN order[m] : order[m][i] = order[m][j] => i = j

\* Without exceptions the map holds no more than the order.
AgreementInv ==
  \A m \in Table \ Failing :
    /\ \A h \in Keys(m) : \E i \in DOMAIN order[m] : order[m][i] = h
    /\ Extract(m) = accepted[m]

\* The count does not exceed the limit, even where exceptions make it too large.
CountInv == \A m \in Table : totalData[m] <= Limit(m)

\* The bytes are counted, and none is left out where the limit is one.
HeldInv ==
  \A m \in Table :
    /\ IsFiniteSet(BytesIn(m))
    /\ m \notin Failing => totalData[m] = Held(m) % Word
    /\ MaxData[m] >= 0 => Held(m) <= totalData[m]

RequestInv == request.found \subseteq request.asked /\ ChainIsHonest

IInv == TypeOK /\ OrderInv /\ AgreementInv /\ CountInv /\ RequestInv
=============================================================================
