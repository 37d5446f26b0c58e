------------------------------ MODULE MemTable ------------------------------
(***************************************************************************)
(* The in-memory tables of the block store: each a map from addresses to   *)
(* slices, a list of the addresses in the order they came, and a byte      *)
(* count held under a limit.  A request for several addresses goes from    *)
(* table to table and asks each for what is still missing.                 *)
(***************************************************************************)
EXTENDS Integers, Sequences

CONSTANTS
  Table,       \* the MemTable objects
  Hash,        \* addresses
  Data,        \* slices; two of them may come with the same address
  SizeOf,      \* ByteSlice::size()
  NoData,      \* an empty slice, and the value of a map at an absent key
  MaxData,     \* the int given to each constructor
  Word,        \* 2^64
  Failing      \* the tables whose addChunk may meet std::bad_alloc

ASSUME MemTableAssumption ==
  /\ SizeOf \in [Data -> Nat]
  /\ NoData \notin Data
  /\ Word \in Nat \ {0}
  /\ MaxData \in [Table -> Int]
  /\ \A m \in Table : MaxData[m] < Word
  \* The size of a slice, which is in memory, and an int that is no less than 0.
  /\ \A m \in Table, d \in Data : MaxData[m] >= 0 => MaxData[m] + SizeOf[d] < Word
  /\ Failing \subseteq Table

VARIABLES
  table,       \* MemTable::table of each table
  order,       \* the addresses of MemTable::order; the rest of a record follows from them
  totalData,   \* MemTable::totalData
  request,     \* the records of a hasMany or getMany, and what its last call returned
  accepted     \* history: what addChunk has returned true for, in the order it first did

tableVars == <<table, order, totalData>>
vars == <<tableVars, request, accepted>>

Keys(m) == {h \in Hash : table[m][h] # NoData}

\* MemTable(int maxData) stores the int in an uint64_t.
Limit(m) == MaxData[m] % Word

Requests == [method : {"hasMany", "getMany"}, asked : SUBSET Hash, found : SUBSET Hash,
             answer : [Hash -> Data \cup {NoData}], remaining : BOOLEAN]

TypeOK ==
  /\ table \in [Table -> [Hash -> Data \cup {NoData}]]
  /\ order \in [Table -> Seq(Hash)]
  /\ totalData \in [Table -> 0..Word - 1]
  /\ request \in Requests
  /\ accepted \in [Table -> Seq(Hash \X Data)]

NewRequest(method, asked) ==
  [method |-> method, asked |-> asked, found |-> {}, answer |-> [h \in Hash |-> NoData],
   remaining |-> asked # {}]

Init ==
  /\ table = [m \in Table |-> [h \in Hash |-> NoData]]
  /\ order = [m \in Table |-> <<>>]
  /\ totalData = [m \in Table |-> 0]
  /\ request = NewRequest("hasMany", {})
  /\ accepted = [m \in Table |-> <<>>]
-----------------------------------------------------------------------------
(***************************************************************************)
(* addChunk.  A slice of no bytes throws, and a chunk there is no room for *)
(* returns false; neither changes anything.                                *)
(***************************************************************************)
\* Mutations: the limit leaves out the new chunk; a chunk already there is added again.
FitsBefore(m, d) == totalData[m] <= Limit(m)
Fits(m, d) == (totalData[m] + SizeOf[d]) % Word <= Limit(m)
AnyNew(m, h) == TRUE
IsNew(m, h) == table[m][h] = NoData

Accept(m, h, d) ==
  accepted' = IF \E i \in DOMAIN accepted[m] : accepted[m][i][1] = h THEN accepted
              ELSE [accepted EXCEPT ![m] = Append(@, <<h, d>>)]

\* The steps of an addition: the count, then the map, then the order.
Count(m, d) == totalData' = [totalData EXCEPT ![m] = (@ + SizeOf[d]) % Word]
Insert(m, h, d) == table' = [table EXCEPT ![m] = [@ EXCEPT ![h] = d]]

AddNew(m, h, d) ==
  /\ SizeOf[d] # 0
  /\ IsNew(m, h)
  /\ Fits(m, d)
  /\ Count(m, d)
  /\ Insert(m, h, d)
  /\ order' = [order EXCEPT ![m] = Append(@, h)]
  /\ Accept(m, h, d)
  /\ UNCHANGED request

AddAgain(m, h, d) ==
  /\ SizeOf[d] # 0
  /\ ~IsNew(m, h)
  /\ Accept(m, h, table[m][h])
  /\ UNCHANGED <<tableVars, request>>

MapThrows(m, h, d) ==
  /\ m \in Failing
  /\ SizeOf[d] # 0 /\ IsNew(m, h) /\ Fits(m, d)
  /\ Count(m, d)
  /\ UNCHANGED <<table, order, request, accepted>>

\* Mutation: the order is appended to before the map.
OrderFirst(m, h, d) ==
  /\ m \in Failing
  /\ SizeOf[d] # 0 /\ IsNew(m, h) /\ Fits(m, d)
  /\ Count(m, d)
  /\ order' = [order EXCEPT ![m] = Append(@, h)]
  /\ UNCHANGED <<table, request, accepted>>

OrderThrows(m, h, d) ==
  /\ m \in Failing
  /\ SizeOf[d] # 0 /\ IsNew(m, h) /\ Fits(m, d)
  /\ Count(m, d)
  /\ Insert(m, h, d)
  /\ UNCHANGED <<order, request, accepted>>
-----------------------------------------------------------------------------
(***************************************************************************)
(* A request: records not found yet, shown to one table after another,     *)
(* while chunks go on being added.  A record found before is left alone.   *)
(***************************************************************************)
Ask(method, asked) ==
  /\ request' = NewRequest(method, asked)
  /\ UNCHANGED <<tableVars, accepted>>

\* Mutation: a record found before is looked up again.
LookAgain == request.asked
Missing == request.asked \ request.found

\* Mutation: what this table lacks, found elsewhere or not.
LacksAny(m) == ~(request.asked \subseteq Keys(m))
Remaining(m) == ~(Missing \subseteq Keys(m))

HasMany(m) ==
  /\ request.method = "hasMany"
  /\ request' = [request EXCEPT !.found = @ \cup (Missing \cap Keys(m)),
                                !.remaining = Remaining(m)]
  /\ UNCHANGED <<tableVars, accepted>>

\* rec.found = get(...), which leaves the record's data alone when there is none.
GetMany(m) ==
  /\ request.method = "getMany"
  /\ request' = [request EXCEPT
       !.found = (@ \ Missing) \cup (Missing \cap Keys(m)),
       !.answer = [h \in Hash |-> IF h \in Missing \cap Keys(m) THEN table[m][h] ELSE @[h]],
       !.remaining = Remaining(m)]
  /\ UNCHANGED <<tableVars, accepted>>

\* extract: each address of the order with its slice; it throws where there is none.
Extractable(m) == \A i \in DOMAIN order[m] : order[m][i] \in Keys(m)
Extract(m) == [i \in DOMAIN order[m] |-> <<order[m][i], table[m][order[m][i]]>>]

Next ==
  \/ \E m \in Table, h \in Hash, d \in Data :
       AddNew(m, h, d) \/ AddAgain(m, h, d) \/ MapThrows(m, h, d) \/ OrderThrows(m, h, d)
  \/ \E asked \in SUBSET Hash : Ask("hasMany", asked) \/ Ask("getMany", asked)
  \/ \E m \in Table : HasMany(m) \/ GetMany(m)

Spec == Init /\ [][Next]_vars
=============================================================================
