---------------------------- MODULE ChunksProofs ----------------------------
(***************************************************************************)
(* Proofs about MemTable, Chunk and ByteSlice, for any tables, addresses,  *)
(* slices and limits, any slots, buffers and bytes.                        *)
(***************************************************************************)
EXTENDS Chunks, FiniteSetTheorems, SequenceTheorems, WellFoundedInduction, TLAPS

-----------------------------------------------------------------------------
(***************************************************************************)
(* Tables.  IInv is inductive, and with it HeldInv.                        *)
(***************************************************************************)

\* The remainder by a word is less than the word.
LEMMA ModRange ==
  ASSUME NEW x \in Int, NEW w \in Nat \ {0}
  PROVE  x % w \in 0..w - 1
  OBVIOUS

\* The counter stays a uint64_t, and an addition that fits stays within the limit.
LEMMA CountStep ==
  ASSUME TypeOK, CountInv, NEW m \in Table, NEW d \in Data, Fits(m, d), Count(m, d)
  PROVE  totalData' \in [Table -> 0..Word - 1]
         /\ \A k \in Table : totalData'[k] <= Limit(k)
<1>1. totalData[m] + SizeOf[d] \in Int /\ Word \in Nat \ {0}
  BY MemTableAssumption DEF TypeOK
<1>2. (totalData[m] + SizeOf[d]) % Word \in 0..Word - 1
  BY <1>1
<1> QED
  BY <1>2 DEF TypeOK, CountInv, Fits, Count

\* The record of what was accepted stays one of chunks.
LEMMA AcceptType ==
  ASSUME TypeOK, NEW m \in Table, NEW h \in Hash, NEW d \in Data, Accept(m, h, d)
  PROVE  accepted' \in [Table -> Seq(Hash \X Data)]
<1>1. accepted \in [Table -> Seq(Hash \X Data)] /\ accepted[m] \in Seq(Hash \X Data)
  BY DEF TypeOK
<1>2. <<h, d>> \in Hash \X Data
  OBVIOUS
<1>3. Append(accepted[m], <<h, d>>) \in Seq(Hash \X Data)
  BY <1>1, <1>2, AppendProperties
<1> QED
  BY <1>1, <1>3 DEF Accept

\* A request stays true while the tables only gain keys.
LEMMA RequestQuiet ==
  ASSUME RequestInv, request' = request,
         \A m \in Table : \A h \in Keys(m) : h \in Keys(m)' /\ table'[m][h] = table[m][h]
  PROVE  RequestInv'
  BY DEF RequestInv, ChainIsHonest

\* A new chunk: all three records of it agree.
LEMMA AddNewStep ==
  ASSUME IInv, NEW m \in Table, NEW h \in Hash, NEW d \in Data, AddNew(m, h, d)
  PROVE  IInv'
<1> USE MemTableAssumption DEF IInv, TypeOK, AddNew, Insert
<1>1. totalData' \in [Table -> 0..Word - 1] /\ \A k \in Table : totalData'[k] <= Limit(k)
  BY CountStep
<1>2. /\ order[m] \in Seq(Hash) /\ order'[m] = Append(order[m], h)
      /\ \A k \in Table : k # m => order'[k] = order[k] /\ table'[k] = table[k]
      /\ table'[m] = [table[m] EXCEPT ![h] = d]
  OBVIOUS
<1>3. Keys(m)' = Keys(m) \cup {h} /\ \A k \in Table : k # m => Keys(k)' = Keys(k)
  BY <1>2 DEF Keys
<1>4. \A i \in DOMAIN order[m] : order[m][i] # h /\ order'[m][i] = order[m][i]
  BY <1>2 DEF OrderInv, Extractable, Keys, IsNew
<1>5. /\ Len(order'[m]) = Len(order[m]) + 1 /\ order'[m][Len(order[m]) + 1] = h
      /\ Len(order[m]) \in Nat
      /\ DOMAIN order[m] = 1..Len(order[m]) /\ DOMAIN order'[m] = 1..Len(order[m]) + 1
  BY <1>2
<1>6. TypeOK'
  <2>1. accepted' \in [Table -> Seq(Hash \X Data)]
    BY AcceptType
  <2>2. table' \in [Table -> [Hash -> Data \cup {NoData}]]
    OBVIOUS
  <2>3. order' \in [Table -> Seq(Hash)]
    BY <1>2
  <2> QED
    BY <1>1, <2>1, <2>2, <2>3
<1>7. OrderInv'
  BY <1>2, <1>3, <1>4, <1>5 DEF OrderInv, Extractable
<1>8. AgreementInv'
  <2> USE DEF AgreementInv
  <2> SUFFICES ASSUME NEW k \in Table \ Failing
               PROVE  /\ \A g \in Keys(k)' : \E i \in DOMAIN order'[k] : order'[k][i] = g
                      /\ Extract(k)' = accepted'[k]
    OBVIOUS
  <2>1. CASE k # m
    BY <2>1, <1>2, <1>3 DEF AgreementInv, Accept, Extract
  <2>2. CASE k = m
    <3> m \notin Failing
      BY <2>2
    <3>1. \A g \in Keys(m)' : \E i \in DOMAIN order'[m] : order'[m][i] = g
      <4> SUFFICES ASSUME NEW g \in Keys(m)'
                   PROVE  \E i \in DOMAIN order'[m] : order'[m][i] = g
        OBVIOUS
      <4>1. CASE g = h
        <5>1. Len(order[m]) + 1 \in DOMAIN order'[m] /\ order'[m][Len(order[m]) + 1] = g
          BY <4>1, <1>5
        <5> QED
          BY <5>1
      <4>2. CASE g \in Keys(m)
        <5>1. PICK i \in DOMAIN order[m] : order[m][i] = g
          BY <4>2 DEF AgreementInv
        <5>2. i \in DOMAIN order'[m] /\ order'[m][i] = g
          BY <5>1, <1>4, <1>5
        <5> QED
          BY <5>2
      <4> QED
        BY <4>1, <4>2, <1>3
    <3>2. Extract(m) = accepted[m] /\ DOMAIN accepted[m] = DOMAIN order[m]
          /\ \A i \in DOMAIN order[m] : accepted[m][i] = <<order[m][i], table[m][order[m][i]]>>
      BY DEF AgreementInv, Extract
    <3>3. accepted'[m] = Append(accepted[m], <<h, d>>)
      BY <1>4, <3>2, SMTT(30) DEF Accept
    <3>4. accepted[m] \in Seq(Hash \X Data) /\ Len(accepted[m]) = Len(order[m])
      BY <3>2, <1>5
    <3>5. \A i \in DOMAIN order[m] : table'[m][order[m][i]] = table[m][order[m][i]]
      BY <1>2, <1>4
    <3>6. table'[m][h] = d
      BY <1>2
    <3>7. Extract(m)' = [i \in 1..Len(order[m]) + 1 |-> <<order'[m][i], table'[m][order'[m][i]]>>]
      BY <1>5 DEF Extract
    <3>8. \A i \in 1..Len(order[m]) + 1 : accepted'[m][i] = <<order'[m][i], table'[m][order'[m][i]]>>
      <4>1. \A i \in 1..Len(order[m]) : accepted'[m][i] = accepted[m][i]
        BY <3>3, <3>4
      <4>2. accepted'[m][Len(order[m]) + 1] = <<h, d>>
        BY <3>3, <3>4
      <4>3. \A i \in 1..Len(order[m]) :
              accepted'[m][i] = <<order'[m][i], table'[m][order'[m][i]]>>
        <5> SUFFICES ASSUME NEW i \in DOMAIN order[m]
                     PROVE  accepted'[m][i] = <<order'[m][i], table'[m][order'[m][i]]>>
          BY <1>5
        <5>1. order'[m][i] = order[m][i]
          BY <1>4
        <5>2. accepted'[m][i] = accepted[m][i]
          BY <4>1, <1>5
        <5>3. accepted[m][i] = <<order[m][i], table[m][order[m][i]]>>
          BY <3>2
        <5>4. table'[m][order[m][i]] = table[m][order[m][i]]
          BY <3>5
        <5> QED
          BY <5>1, <5>2, <5>3, <5>4
      <4> QED
        BY <4>2, <4>3, <3>6, <1>5
    <3>9. accepted'[m] = [i \in 1..Len(order[m]) + 1 |-> accepted'[m][i]]
      BY <3>3, <3>4
    <3>10. Extract(m)' = accepted'[m]
      <4> HIDE MemTableAssumption DEF IInv, TypeOK, AddNew, Insert
      <4> QED
        BY <3>7, <3>8, <3>9
    <3> QED
      BY <2>2, <3>1, <3>10, ZenonT(30)
  <2> QED
    BY <2>1, <2>2
<1>9. CountInv'
  BY <1>1 DEF CountInv, Limit
<1>10. RequestInv'
  BY <1>2, <1>3, RequestQuiet DEF Keys, IsNew
<1> QED
  BY <1>6, <1>7, <1>8, <1>9, <1>10

\* A chunk that is there already: where none throws it has been accepted before.
LEMMA AddAgainStep ==
  ASSUME IInv, NEW m \in Table, NEW h \in Hash, NEW d \in Data, AddAgain(m, h, d)
  PROVE  IInv'
<1> USE MemTableAssumption DEF IInv, TypeOK, AddAgain, tableVars
<1>1. table[m][h] \in Data /\ h \in Keys(m)
  BY DEF IsNew, Keys
<1>2. accepted' \in [Table -> Seq(Hash \X Data)]
  BY <1>1, AcceptType
<1>3. m \notin Failing => accepted' = accepted
  <2> SUFFICES ASSUME m \notin Failing PROVE accepted' = accepted
    OBVIOUS
  <2>1. PICK i \in DOMAIN order[m] : order[m][i] = h
    BY <1>1 DEF AgreementInv
  <2>2. i \in DOMAIN accepted[m] /\ accepted[m][i][1] = h
    BY <2>1 DEF AgreementInv, Extract
  <2> QED
    BY <2>2 DEF Accept
<1>4. TypeOK'
  BY <1>2
<1>5. AgreementInv'
  <2>1. \A k \in Table \ Failing : accepted'[k] = accepted[k]
    BY <1>3 DEF Accept
  <2> SUFFICES ASSUME NEW k \in Table \ Failing
               PROVE  /\ \A g \in Keys(k)' : \E i \in DOMAIN order'[k] : order'[k][i] = g
                      /\ Extract(k)' = accepted'[k]
    BY DEF AgreementInv
  <2>2. Keys(k)' = Keys(k) /\ Extract(k)' = Extract(k)
    BY DEF Keys, Extract
  <2> QED
    BY <2>1, <2>2 DEF AgreementInv
<1> QED
  BY <1>4, <1>5 DEF OrderInv, Extractable, CountInv, Limit, Keys, RequestInv, ChainIsHonest

\* An exception out of the map: only the count has changed.
LEMMA MapThrowsStep ==
  ASSUME IInv, NEW m \in Table, NEW h \in Hash, NEW d \in Data, MapThrows(m, h, d)
  PROVE  IInv'
<1>1. totalData' \in [Table -> 0..Word - 1] /\ \A k \in Table : totalData'[k] <= Limit(k)
  BY CountStep DEF IInv, MapThrows
<1> QED
  BY <1>1 DEF IInv, TypeOK, MapThrows, OrderInv, Extractable, AgreementInv, Extract, CountInv,
              Limit, Keys, RequestInv, ChainIsHonest

\* An exception out of the order: the map has gained a key, which no order names.
LEMMA OrderThrowsStep ==
  ASSUME IInv, NEW m \in Table, NEW h \in Hash, NEW d \in Data, OrderThrows(m, h, d)
  PROVE  IInv'
<1>1. totalData' \in [Table -> 0..Word - 1] /\ \A k \in Table : totalData'[k] <= Limit(k)
  BY CountStep DEF IInv, OrderThrows
<1>2. \A k \in Table : \A g \in Keys(k) : g \in Keys(k)' /\ table'[k][g] = table[k][g]
  BY MemTableAssumption DEF IInv, TypeOK, OrderThrows, Insert, Keys, IsNew
<1>3. TypeOK' /\ CountInv'
  BY <1>1 DEF IInv, TypeOK, OrderThrows, Insert, CountInv, Limit
<1>4. OrderInv'
  BY <1>2 DEF IInv, OrderThrows, OrderInv, Extractable
<1>5. AgreementInv'
  <2> SUFFICES ASSUME NEW k \in Table \ Failing
               PROVE  /\ \A g \in Keys(k)' : \E i \in DOMAIN order'[k] : order'[k][i] = g
                      /\ Extract(k)' = accepted'[k]
    BY DEF AgreementInv
  <2>1. k # m
    BY DEF OrderThrows
  <2>2. table'[k] = table[k] /\ order' = order /\ accepted' = accepted
    BY <2>1 DEF IInv, TypeOK, OrderThrows, Insert
  <2>3. Keys(k)' = Keys(k) /\ Extract(k)' = Extract(k)
    BY <2>2 DEF Keys, Extract
  <2> QED
    BY <2>2, <2>3 DEF IInv, AgreementInv
<1>6. RequestInv'
  BY <1>2, RequestQuiet DEF IInv, OrderThrows
<1> QED
  BY <1>3, <1>4, <1>5, <1>6 DEF IInv

\* The requests leave the tables alone.
LEMMA RequestStep ==
  ASSUME IInv, tableVars' = tableVars, accepted' = accepted, request' \in Requests, RequestInv'
  PROVE  IInv'
  BY DEF IInv, TypeOK, tableVars, OrderInv, Extractable, AgreementInv, Extract, CountInv, Limit, Keys

\* Whatever tables a request is shown, in whatever order, its answers are those of the tables.
LEMMA ShowStep ==
  ASSUME IInv, NEW m \in Table, HasMany(m) \/ GetMany(m)
  PROVE  request' \in Requests /\ RequestInv'
<1> USE DEF IInv, TypeOK, Requests, tableVars, Missing, Remaining, Keys
<1>1. CASE HasMany(m)
  BY <1>1 DEF HasMany, RequestInv, ChainIsHonest
<1>2. CASE GetMany(m)
  <2>1. request' \in Requests
    <3>1. \A h \in Missing \cap Keys(m) : table[m][h] \in Data \cup {NoData}
      OBVIOUS
    <3>2. request'.answer \in [Hash -> Data \cup {NoData}]
      BY <1>2, <3>1 DEF GetMany
    <3> QED
      BY <1>2, <3>2 DEF GetMany
  <2>2. request'.found \subseteq request'.asked /\ (request'.remaining <=> request'.found # request'.asked)
    BY <1>2 DEF GetMany, RequestInv
  <2>3. \A h \in request'.found : \E k \in Table : h \in Keys(k)' /\ request'.answer[h] = table'[k][h]
    BY <1>2 DEF GetMany, RequestInv, ChainIsHonest
  <2> QED
    BY <2>1, <2>2, <2>3 DEF RequestInv, ChainIsHonest
<1> QED
  BY <1>1, <1>2

\* The invariant is inductive: it holds of the constructors and of every step.
THEOREM Invariance == Spec => []IInv
<1>1. Init => IInv
  <2> SUFFICES ASSUME Init PROVE IInv
    OBVIOUS
  <2> USE MemTableAssumption DEF Init, NewRequest
  <2>1. TypeOK
    BY DEF TypeOK, Requests
  <2>2. \A m \in Table : Keys(m) = {} /\ order[m] = <<>> /\ accepted[m] = <<>>
    BY DEF Keys
  <2>3. OrderInv /\ AgreementInv
    <3>1. DOMAIN <<>> = {}
      OBVIOUS
    <3> QED
      BY <2>2, <3>1 DEF OrderInv, Extractable, AgreementInv, Extract
  <2>4. RequestInv
    BY <2>2 DEF RequestInv, ChainIsHonest
  <2>5. CountInv
    <3>1. \A m \in Table : totalData[m] = 0 /\ Limit(m) \in 0..Word - 1
      BY ModRange DEF Limit
    <3>2. \A m \in Table : totalData[m] <= Limit(m)
      <4> HIDE DEF Init
      <4> SUFFICES ASSUME NEW m \in Table PROVE totalData[m] <= Limit(m)
        OBVIOUS
      <4>1. totalData[m] = 0 /\ Limit(m) \in 0..Word - 1 /\ Word \in Nat
        BY <3>1
      <4> QED
        BY <4>1
    <3> QED
      BY <3>2 DEF CountInv
  <2> QED
    BY <2>1, <2>3, <2>4, <2>5 DEF IInv
<1>2. IInv /\ [Next]_vars => IInv'
  <2> SUFFICES ASSUME IInv, [Next]_vars PROVE IInv'
    OBVIOUS
  <2>1. ASSUME NEW m \in Table, NEW h \in Hash, NEW d \in Data,
               AddNew(m, h, d) \/ AddAgain(m, h, d) \/ MapThrows(m, h, d) \/ OrderThrows(m, h, d)
        PROVE  IInv'
    BY <2>1, AddNewStep, AddAgainStep, MapThrowsStep, OrderThrowsStep
  <2>2. ASSUME NEW asked \in SUBSET Hash, Ask("hasMany", asked) \/ Ask("getMany", asked)
        PROVE  IInv'
    <3>0. PICK method \in {"hasMany", "getMany"} : request' = NewRequest(method, asked)
      BY <2>2 DEF Ask
    <3>1. request' \in Requests
      BY <3>0 DEF NewRequest, Requests
    <3>2. RequestInv'
      BY <3>0 DEF NewRequest, RequestInv, ChainIsHonest
    <3> QED
      BY <2>2, <3>1, <3>2, RequestStep DEF Ask
  <2>3. ASSUME NEW m \in Table, HasMany(m) \/ GetMany(m)
        PROVE  IInv'
    BY <2>3, ShowStep, RequestStep DEF HasMany, GetMany
  <2>4. CASE UNCHANGED vars
    BY <2>4 DEF vars, tableVars, IInv, TypeOK, OrderInv, Extractable, AgreementInv, Extract,
                CountInv, Limit, Keys, RequestInv, ChainIsHonest
  <2> QED
    BY <2>1, <2>2, <2>3, <2>4 DEF Next
<1> QED
  BY <1>1, <1>2, PTL DEF Spec

\* extract never throws, whatever threw before it.
THEOREM ExtractIsSafe == Spec => []NeverInconsistent
<1>1. IInv => NeverInconsistent
  BY DEF IInv, OrderInv, NeverInconsistent
<1> QED
  BY <1>1, Invariance, PTL

\* Where no addition throws, extract returns what was accepted, once each and in order.
THEOREM ExtractIsComplete == Spec => []ExtractsAccepted
<1>1. IInv => ExtractsAccepted
  BY DEF IInv, AgreementInv, ExtractsAccepted
<1> QED
  BY <1>1, Invariance, PTL

\* A chain of requests tells the truth about the tables.
THEOREM ChainAnswersAreTrue == Spec => []ChainIsHonest
<1>1. IInv => ChainIsHonest
  BY DEF IInv, RequestInv
<1> QED
  BY <1>1, Invariance, PTL

\* The data under an address never changes.
THEOREM DataIsStable == Spec => FirstWriterWins
<1>1. IInv /\ [Next]_vars => [\A m \in Table, h \in Hash :
                                table[m][h] # NoData => table'[m][h] = table[m][h]]_vars
  <2> SUFFICES ASSUME IInv, [Next]_vars, NEW k \in Table, NEW g \in Hash, table[k][g] # NoData
               PROVE  table'[k][g] = table[k][g]
    BY DEF vars, tableVars
  <2>1. CASE table' = table
    BY <2>1
  <2>2. ASSUME NEW m \in Table, NEW h \in Hash, NEW d \in Data, IsNew(m, h), Insert(m, h, d)
        PROVE  table'[k][g] = table[k][g]
    BY <2>2 DEF IInv, TypeOK, IsNew, Insert
  <2> QED
    BY <2>1, <2>2, ZenonT(30) DEF Next, vars, tableVars, AddNew, AddAgain, MapThrows, OrderThrows, Ask,
                      HasMany, GetMany
<1> QED
  BY <1>1, Invariance, PTL DEF Spec, FirstWriterWins

\* No later table takes an answer back.
THEOREM AnswersAreFinal == Spec => AnswersStand
<1> DEFINE Asked == \E method \in {"hasMany", "getMany"}, asked \in SUBSET Hash : Ask(method, asked)
<1>1. IInv /\ [Next]_vars =>
        [\A h \in request.found :
           \/ \E method \in {"hasMany", "getMany"}, asked \in SUBSET Hash : Ask(method, asked)
           \/ h \in request'.found /\ request'.answer[h] = request.answer[h]]_vars
  <2> SUFFICES ASSUME IInv, [Next]_vars, NEW h \in request.found, ~Asked, ~UNCHANGED vars
               PROVE  h \in request'.found /\ request'.answer[h] = request.answer[h]
    OBVIOUS
  <2>1. CASE request' = request
    BY <2>1
  <2>2. ASSUME NEW m \in Table, HasMany(m) \/ GetMany(m)
        PROVE  h \in request'.found /\ request'.answer[h] = request.answer[h]
    <3>1. request \in Requests /\ h \in Hash /\ h \notin Missing
      BY DEF IInv, TypeOK, Requests, RequestInv, Missing
    <3>2. CASE HasMany(m)
      BY <3>1, <3>2 DEF HasMany, Requests
    <3>3. CASE GetMany(m)
      BY <3>1, <3>3 DEF GetMany, Requests
    <3> QED
      BY <2>2, <3>2, <3>3
  <2> QED
    BY <2>1, <2>2 DEF Next, AddNew, AddAgain, MapThrows, OrderThrows, tableVars
<1> QED
  BY <1>1, Invariance, PTL DEF Spec, AnswersStand

-----------------------------------------------------------------------------
(***************************************************************************)
(* The count.                                                              *)
(***************************************************************************)

\* A number is as many words as fit and a remainder, and has one remainder only.
LEMMA Division ==
  ASSUME NEW x \in Int, NEW w \in Nat \ {0}
  PROVE  x = w * (x \div w) + (x % w) /\ x \div w \in Int /\ x % w \in 0..w - 1
OBVIOUS

LEMMA OneRemainder ==
  ASSUME NEW w \in Nat \ {0}, NEW q \in Int, NEW p \in Int, NEW r \in 0..w - 1, NEW t \in 0..w - 1,
         w * q + r = w * p + t
  PROVE  r = t
<1>1. w * (q - p) = t - r
  OBVIOUS
<1>2. q - p < 1
  <2> SUFFICES ASSUME q - p >= 1 PROVE FALSE
    OBVIOUS
  <2>1. w * (q - p) >= w
    OBVIOUS
  <2> QED
    BY <1>1, <2>1
<1>3. q - p > -1
  <2> SUFFICES ASSUME p - q >= 1 PROVE FALSE
    OBVIOUS
  <2>1. w * (p - q) >= w
    OBVIOUS
  <2>2. w * (p - q) = r - t
    OBVIOUS
  <2> QED
    BY <2>1, <2>2
<1>4. q = p
  BY <1>2, <1>3
<1> QED
  BY <1>4

\* Remainders may be added as they come.
LEMMA AddRemainder ==
  ASSUME NEW x \in Nat, NEW y \in Nat, NEW w \in Nat \ {0}
  PROVE  ((x % w) + y) % w = (x + y) % w
<1> DEFINE p == x \div w
           r == x % w
           q == (r + y) \div w
           t == (r + y) % w
           n == (x + y) \div w
           u == (x + y) % w
<1>1. p \in Int /\ r \in 0..w - 1 /\ x = w * p + r
  BY Division
<1>2. r + y \in Int /\ x + y \in Int
  BY <1>1
<1>3. q \in Int /\ t \in 0..w - 1 /\ r + y = w * q + t
  BY <1>2, Division
<1>4. n \in Int /\ u \in 0..w - 1 /\ x + y = w * n + u
  BY <1>2, Division
<1> HIDE DEF p, r, q, t, n, u
<1>5. p + q \in Int /\ w * (p + q) = w * p + w * q
  BY <1>1, <1>3
<1>6. w * p \in Int /\ w * q \in Int /\ w * n \in Int
  BY <1>1, <1>3, <1>4
<1>7. w * (p + q) + t = w * n + u
  BY <1>1, <1>3, <1>4, <1>5, <1>6
<1>8. t = u
  BY <1>3, <1>4, <1>5, <1>7, OneRemainder
<1> QED
  BY <1>8 DEF t, u, r

\* A new address brings the bytes of its slice.
LEMMA InsertAddsBytes ==
  ASSUME TypeOK, NEW m \in Table, NEW h \in Hash, NEW d \in Data, IsNew(m, h), Insert(m, h, d),
         IsFiniteSet(BytesIn(m))
  PROVE  IsFiniteSet(BytesIn(m)') /\ Held(m)' = Held(m) + SizeOf[d] /\ Held(m) \in Nat
<1> USE MemTableAssumption
<1>1. table'[m][h] = d /\ \A g \in Hash \ {h} : table'[m][g] = table[m][g]
  BY DEF TypeOK, Insert
<1>2. h \notin Keys(m) /\ Keys(m)' = Keys(m) \cup {h} /\ \A g \in Keys(m) : g # h /\ table'[m][g] = table[m][g]
  BY <1>1 DEF Keys, IsNew
<1> DEFINE New == {h} \X (1..SizeOf[d])
<1>3. BytesIn(m)' = BytesIn(m) \cup New
  BY <1>1, <1>2 DEF BytesIn
<1>4. BytesIn(m) \cap New = {}
  BY <1>2 DEF BytesIn
<1>5. IsFiniteSet(New) /\ Cardinality(New) = SizeOf[d]
  <2>1. SizeOf[d] \in Nat
    OBVIOUS
  <2>2. IsFiniteSet({h}) /\ Cardinality({h}) = 1
    BY FS_Singleton
  <2>3. IsFiniteSet(1..SizeOf[d]) /\ Cardinality(1..SizeOf[d]) = SizeOf[d]
    BY <2>1, FS_Interval
  <2>4. IsFiniteSet(New) /\ Cardinality(New) = Cardinality({h}) * Cardinality(1..SizeOf[d])
    BY <2>2, <2>3, FS_Product
  <2> QED
    BY <2>1, <2>2, <2>3, <2>4
<1> HIDE DEF New
<1>6. Cardinality({}) = 0
  BY FS_EmptySet
<1>7. IsFiniteSet(BytesIn(m) \cup New)
      /\ Cardinality(BytesIn(m) \cup New) = Cardinality(BytesIn(m)) + Cardinality(New) - Cardinality(BytesIn(m) \cap New)
  BY <1>5, FS_Union
<1>8. Cardinality(BytesIn(m)) \in Nat
  BY FS_CardinalityType
<1>9. Cardinality(BytesIn(m)') = Cardinality(BytesIn(m)) + SizeOf[d]
  <2>1. SizeOf[d] \in Nat
    OBVIOUS
  <2>2. Cardinality(BytesIn(m) \cap New) = 0
    BY <1>4, <1>6, Zenon
  <2>3. Cardinality(BytesIn(m) \cup New) = Cardinality(BytesIn(m)) + SizeOf[d]
    BY <1>5, <1>7, <1>8, <2>1, <2>2
  <2> QED
    BY <1>3, <2>3, Zenon
<1> QED
  BY <1>3, <1>5, <1>7, <1>8, <1>9 DEF Held

\* What does not change the map or the count of a table does not change whether it agrees with it.
LEMMA TableStays ==
  ASSUME HeldInv, NEW m \in Table, table'[m] = table[m], totalData'[m] = totalData[m]
  PROVE  /\ IsFiniteSet(BytesIn(m)')
         /\ m \notin Failing => totalData'[m] = Held(m)' % Word
         /\ MaxData[m] >= 0 => Held(m)' <= totalData'[m]
<1>1. Keys(m)' = Keys(m)
  BY DEF Keys
<1>2. BytesIn(m)' = BytesIn(m)
  BY <1>1 DEF BytesIn
<1> QED
  BY <1>2 DEF HeldInv, Held

\* An addition within a limit cannot wrap.
LEMMA AdditionFits ==
  ASSUME TypeOK, CountInv, NEW m \in Table, NEW d \in Data, MaxData[m] >= 0, Fits(m, d)
  PROVE  (totalData[m] + SizeOf[d]) % Word = totalData[m] + SizeOf[d]
<1>1. MaxData[m] \in Int /\ Word \in Nat \ {0} /\ MaxData[m] < Word /\ SizeOf[d] \in Nat
      /\ MaxData[m] + SizeOf[d] < Word /\ totalData[m] \in Nat
  BY MemTableAssumption DEF TypeOK
<1>2. Limit(m) = MaxData[m]
  <2>1. MaxData[m] \in 0..Word - 1
    BY <1>1
  <2>2. ASSUME NEW x \in Nat, NEW w \in Nat \ {0}, x < w PROVE x % w = x
    BY <2>2
  <2> QED
    BY <1>1, <2>1, <2>2 DEF Limit
<1>3. totalData[m] <= MaxData[m]
  BY <1>2 DEF CountInv
<1>4. totalData[m] + SizeOf[d] \in Nat /\ totalData[m] + SizeOf[d] < Word
  BY <1>1, <1>3
<1>5. ASSUME NEW x \in Nat, NEW w \in Nat \ {0}, x < w PROVE x % w = x
  BY <1>5
<1> QED
  BY <1>1, <1>4, <1>5

\* Additions that come to their end, and those that an exception ends before or after the map.
LEMMA AdditionCounts ==
  ASSUME IInv, HeldInv, NEW m \in Table, NEW h \in Hash, NEW d \in Data,
         IsNew(m, h), Fits(m, d), Count(m, d),
         \/ Insert(m, h, d)
         \/ m \in Failing /\ table' = table
  PROVE  HeldInv'
<1> USE MemTableAssumption
<1>1. TypeOK /\ CountInv /\ IsFiniteSet(BytesIn(m))
  BY DEF IInv, HeldInv
<1>2. /\ totalData'[m] = (totalData[m] + SizeOf[d]) % Word
      /\ \A k \in Table \ {m} : totalData'[k] = totalData[k] /\ table'[k] = table[k]
      /\ totalData[m] \in Nat /\ SizeOf[d] \in Nat /\ Word \in Nat \ {0}
  BY <1>1 DEF TypeOK, Count, Insert
<1>3. MaxData[m] >= 0 => Held(m) <= totalData[m] /\ totalData'[m] = totalData[m] + SizeOf[d]
  BY <1>1, <1>2, AdditionFits DEF HeldInv
<1>4. CASE Insert(m, h, d)
  <2>1. IsFiniteSet(BytesIn(m)') /\ Held(m)' = Held(m) + SizeOf[d] /\ Held(m) \in Nat
    BY <1>1, <1>4, InsertAddsBytes
  <2>2. m \notin Failing => totalData'[m] = Held(m)' % Word
    <3> SUFFICES ASSUME m \notin Failing PROVE totalData'[m] = Held(m)' % Word
      OBVIOUS
    <3>1. totalData[m] = Held(m) % Word
      BY DEF HeldInv
    <3> QED
      BY <1>2, <2>1, <3>1, AddRemainder
  <2>3. MaxData[m] >= 0 => Held(m)' <= totalData'[m]
    BY <1>2, <1>3, <2>1
  <2> QED
    BY <1>2, <2>1, <2>2, <2>3, TableStays DEF HeldInv
<1>5. CASE m \in Failing /\ table' = table
  <2>1. BytesIn(m)' = BytesIn(m) /\ Held(m)' = Held(m)
    BY <1>5 DEF BytesIn, Held, Keys
  <2>2. Held(m) \in Nat
    BY <1>1, FS_CardinalityType DEF Held
  <2>3. MaxData[m] >= 0 => Held(m)' <= totalData'[m]
    BY <1>2, <1>3, <2>1, <2>2
  <2> QED
    BY <1>1, <1>2, <1>5, <2>1, <2>3, TableStays DEF HeldInv
<1> QED
  BY <1>4, <1>5

LEMMA CountsAgree == Spec => []HeldInv
<1>1. Init => HeldInv
  <2> SUFFICES ASSUME Init, NEW m \in Table
               PROVE  /\ IsFiniteSet(BytesIn(m))
                      /\ m \notin Failing => totalData[m] = Held(m) % Word
                      /\ MaxData[m] >= 0 => Held(m) <= totalData[m]
    BY DEF HeldInv
  <2>1. Keys(m) = {} /\ totalData[m] = 0
    BY DEF Init, Keys
  <2>2. BytesIn(m) = {}
    BY <2>1 DEF BytesIn
  <2>3. IsFiniteSet(BytesIn(m)) /\ Held(m) = 0
    BY <2>2, FS_EmptySet DEF Held
  <2>4. 0 % Word = 0
    BY MemTableAssumption
  <2> QED
    BY <2>1, <2>3, <2>4
<1>2. IInv /\ HeldInv /\ [Next]_vars => HeldInv'
  <2> SUFFICES ASSUME IInv, HeldInv, [Next]_vars PROVE HeldInv'
    OBVIOUS
  <2>1. CASE table' = table /\ totalData' = totalData
    BY <2>1, TableStays DEF HeldInv
  <2>2. ASSUME NEW m \in Table, NEW h \in Hash, NEW d \in Data,
               AddNew(m, h, d) \/ MapThrows(m, h, d) \/ OrderThrows(m, h, d)
        PROVE  HeldInv'
    BY <2>2, AdditionCounts DEF AddNew, MapThrows, OrderThrows
  <2> QED
    BY <2>1, <2>2 DEF Next, AddAgain, Ask, HasMany, GetMany, tableVars, vars
<1> QED
  BY <1>1, <1>2, Invariance, PTL DEF Spec

\* The limit bounds the bytes a table holds, and the count is that of these bytes, whatever is
\* added, repeated or refused, and whatever an exception cuts short.
THEOREM CountsAreHonest == Spec => []CountsWithinLimit
<1>1. IInv /\ HeldInv => CountsWithinLimit
  <2> SUFFICES ASSUME IInv, HeldInv PROVE CountIsExact /\ WithinLimit
    BY DEF CountsWithinLimit
  <2>1. CountIsExact
    BY DEF HeldInv, CountIsExact
  <2>2. ASSUME NEW m \in Table, MaxData[m] >= 0 PROVE Held(m) <= MaxData[m]
    <3>1. Held(m) <= totalData[m] /\ totalData[m] <= Limit(m) /\ totalData[m] \in Nat
      BY <2>2, MemTableAssumption DEF IInv, HeldInv, CountInv, TypeOK
    <3>2. MaxData[m] \in Nat /\ MaxData[m] < Word /\ Word \in Nat \ {0}
      BY <2>2, MemTableAssumption
    <3>3. Limit(m) = MaxData[m]
      BY <3>2 DEF Limit
    <3>4. Held(m) \in Nat
      BY FS_CardinalityType DEF HeldInv, Held
    <3> QED
      BY <3>1, <3>2, <3>3, <3>4
  <2> QED
    BY <2>1, <2>2 DEF WithinLimit
<1> QED
  BY <1>1, CountsAgree, Invariance, PTL
-----------------------------------------------------------------------------
(***************************************************************************)
(* Chunks go by their hashes.                                              *)
(***************************************************************************)
ChunkTypeOK ==
  /\ buffers \in Seq(ChunkContents)
  /\ chunk \in [ChunkSlots -> [m_data : 0..Len(buffers), r : Hash \cup {Zero, Moved}]]
  /\ unsure \subseteq ChunkSlots

ChunkInv == ChunkTypeOK /\ C!HashIsOfData

\* What one chunk must be: its own hash, unless it is in doubt.
GoesByItsHash(c) ==
  IF c.m_data = 0 THEN c.r \in {Zero, Moved} ELSE c.r = Of[buffers[c.m_data]]

LEMMA HashIsOfDataByChunk ==
  C!HashIsOfData <=> \A s \in ChunkSlots \ unsure : GoesByItsHash(chunk[s])
BY DEF C!HashIsOfData, GoesByItsHash

\* Buffers are only added: what was in one stays there.
LEMMA BufferAdds ==
  ASSUME buffers \in Seq(ChunkContents), NEW b \in 1..MaxBuffers, C!Buffer(b)
  PROVE  /\ buffers' \in Seq(ChunkContents)
         /\ b \in 1..Len(buffers')
         /\ 0..Len(buffers) \subseteq 0..Len(buffers')
         /\ \A d \in 1..Len(buffers) : buffers'[d] = buffers[d]
         /\ Of[buffers'[b]] \in Hash
<1> USE ChunkAssumption DEF C!ChunkAssumption
<1>1. CASE b \in DOMAIN buffers /\ UNCHANGED buffers
  BY <1>1
<1>2. CASE b = Len(buffers) + 1 /\ \E c \in ChunkContents : buffers' = Append(buffers, c)
  BY <1>2
<1> QED
  BY <1>1, <1>2 DEF C!Buffer

\* Slot s gets a chunk that goes by its hash, or one in doubt; the others stay, and so do their buffers.
LEMMA PutKeepsChunks ==
  ASSUME ChunkInv, NEW s \in ChunkSlots, NEW c,
         c \in [m_data : 0..Len(buffers'), r : Hash \cup {Zero, Moved}],
         buffers' \in Seq(ChunkContents),
         0..Len(buffers) \subseteq 0..Len(buffers'),
         \A d \in 1..Len(buffers) : buffers'[d] = buffers[d],
         chunk' = [chunk EXCEPT ![s] = c],
         \/ unsure' = unsure \cup {s}
         \/ unsure' = unsure \ {s} /\ (IF c.m_data = 0 THEN c.r \in {Zero, Moved} ELSE c.r = Of[buffers'[c.m_data]])
  PROVE  ChunkInv'
<1>1. ChunkTypeOK'
  <2>1. \A t \in ChunkSlots : chunk'[t] \in [m_data : 0..Len(buffers'), r : Hash \cup {Zero, Moved}]
    BY DEF ChunkInv, ChunkTypeOK
  <2>2. chunk' \in [ChunkSlots -> [m_data : 0..Len(buffers'), r : Hash \cup {Zero, Moved}]]
    BY <2>1 DEF ChunkInv, ChunkTypeOK
  <2> QED
    BY <2>2 DEF ChunkInv, ChunkTypeOK
<1>2. ASSUME NEW t \in ChunkSlots \ unsure' PROVE GoesByItsHash(chunk[t])'
  <2>1. CASE t = s
    BY <2>1 DEF ChunkInv, ChunkTypeOK, GoesByItsHash
  <2>2. CASE t # s
    <3>1. chunk'[t] = chunk[t] /\ t \notin unsure
      BY <2>2 DEF ChunkInv, ChunkTypeOK
    <3>2. chunk[t].m_data \in 0..Len(buffers) /\ Len(buffers) \in Nat /\ GoesByItsHash(chunk[t])
      BY <3>1, HashIsOfDataByChunk DEF ChunkInv, ChunkTypeOK
    <3>3. chunk[t].m_data # 0 => buffers'[chunk[t].m_data] = buffers[chunk[t].m_data]
      BY <3>2
    <3> QED
      BY <3>1, <3>2, <3>3 DEF GoesByItsHash
  <2> QED
    BY <2>1, <2>2
<1>3. C!HashIsOfData'
  BY <1>2 DEF C!HashIsOfData, GoesByItsHash
<1> QED
  BY <1>1, <1>3 DEF ChunkInv

\* Made from nothing.
LEMMA MakeEmptyKeepsChunks ==
  ASSUME ChunkInv, NEW s \in ChunkSlots, C!MakeEmpty(s)
  PROVE  ChunkInv'
<1>1. buffers' = buffers /\ buffers \in Seq(ChunkContents)
  BY DEF C!MakeEmpty, ChunkInv, ChunkTypeOK
<1>2. C!Default \in [m_data : 0..Len(buffers'), r : Hash \cup {Zero, Moved}]
  BY <1>1 DEF C!Default
<1>3. C!Default.m_data = 0 /\ C!Default.r = Zero
  BY DEF C!Default
<1> QED
  BY <1>1, <1>2, <1>3, PutKeepsChunks DEF C!MakeEmpty

\* Made with a hash, computed or claimed.
LEMMA MakeKeepsChunks ==
  ASSUME ChunkInv, NEW s \in ChunkSlots, C!Make(s) \/ C!MakeClaimed(s)
  PROVE  ChunkInv'
<1>1. buffers \in Seq(ChunkContents)
  BY DEF ChunkInv, ChunkTypeOK
<1>2. CASE C!Make(s)
  <2>1. PICK b \in 1..MaxBuffers :
          C!Buffer(b) /\ chunk' = [chunk EXCEPT ![s] = [m_data |-> b, r |-> Of[buffers'[b]]]]
    BY <1>2 DEF C!Make, C!HashOf
  <2>2. [m_data |-> b, r |-> Of[buffers'[b]]] \in [m_data : 0..Len(buffers'), r : Hash \cup {Zero, Moved}]
    BY <1>1, <2>1, BufferAdds
  <2>3. /\ buffers' \in Seq(ChunkContents) /\ 0..Len(buffers) \subseteq 0..Len(buffers')
        /\ \A d \in 1..Len(buffers) : buffers'[d] = buffers[d]
        /\ unsure' = unsure \ {s} /\ b # 0
    BY <1>1, <1>2, <2>1, BufferAdds DEF C!Make
  <2> QED
    BY <2>1, <2>2, <2>3, PutKeepsChunks
<1>3. CASE C!MakeClaimed(s)
  <2>1. PICK b \in 1..MaxBuffers, h \in Hash :
          C!Buffer(b) /\ chunk' = [chunk EXCEPT ![s] = [m_data |-> b, r |-> h]]
    BY <1>3 DEF C!MakeClaimed
  <2>2. [m_data |-> b, r |-> h] \in [m_data : 0..Len(buffers'), r : Hash \cup {Zero, Moved}]
    BY <1>1, <2>1, BufferAdds
  <2> QED
    BY <1>1, <1>3, <2>1, <2>2, BufferAdds, PutKeepsChunks DEF C!MakeClaimed
<1> QED
  BY <1>2, <1>3

\* A copy goes by the hash of what it was copied from, and inherits the doubt.
LEMMA CopyKeepsChunks ==
  ASSUME ChunkInv, NEW s \in ChunkSlots, NEW t \in ChunkSlots, C!Copy(s, t)
  PROVE  ChunkInv'
<1>1. buffers' = buffers /\ buffers \in Seq(ChunkContents)
      /\ chunk[t] \in [m_data : 0..Len(buffers), r : Hash \cup {Zero, Moved}]
  BY DEF C!Copy, ChunkInv, ChunkTypeOK
<1>2. t \notin unsure => GoesByItsHash(chunk[t])
  BY HashIsOfDataByChunk DEF ChunkInv
<1> QED
  BY <1>1, <1>2, PutKeepsChunks DEF C!Copy, C!Inherit, GoesByItsHash

\* A move is a copy after which the source is nothing.
LEMMA MoveKeepsChunks ==
  ASSUME ChunkInv, NEW s \in ChunkSlots, NEW t \in ChunkSlots, C!Move(s, t)
  PROVE  ChunkInv'
<1>1. /\ s # t /\ buffers' = buffers
      /\ chunk' = [chunk EXCEPT ![s] = chunk[t], ![t] = [m_data |-> 0, r |-> Moved]]
      /\ unsure' = IF t \in unsure THEN (unsure \cup {s}) \ {t} ELSE unsure \ {s}
  BY DEF C!Move
<1>2. chunk'[s] = chunk[t] /\ chunk'[t] = [m_data |-> 0, r |-> Moved]
      /\ \A u \in ChunkSlots \ {s, t} : chunk'[u] = chunk[u]
  BY <1>1 DEF ChunkInv, ChunkTypeOK
<1>3. ChunkTypeOK'
  <2>1. Len(buffers) \in Nat
    BY DEF ChunkInv, ChunkTypeOK
  <2>2. [m_data |-> 0, r |-> Moved] \in [m_data : 0..Len(buffers), r : Hash \cup {Zero, Moved}]
    BY <2>1
  <2> QED
    BY <1>1, <2>2 DEF ChunkInv, ChunkTypeOK
<1>4. ASSUME NEW u \in ChunkSlots \ unsure' PROVE GoesByItsHash(chunk'[u])
  <2>1. CASE u = s
    BY <1>1, <1>2, <2>1, HashIsOfDataByChunk DEF ChunkInv
  <2>2. CASE u = t
    BY <1>2, <2>2 DEF GoesByItsHash
  <2>3. CASE u \notin {s, t}
    BY <1>1, <1>2, <2>3, HashIsOfDataByChunk DEF ChunkInv
  <2> QED
    BY <2>1, <2>2, <2>3
<1>5. C!HashIsOfData'
  BY <1>1, <1>4 DEF C!HashIsOfData, GoesByItsHash
<1> QED
  BY <1>3, <1>5 DEF ChunkInv

\* An edit puts every chunk of the buffer in doubt.
LEMMA EditKeepsChunks ==
  ASSUME ChunkInv, NEW b \in DOMAIN buffers, C!Edit(b)
  PROVE  ChunkInv'
<1>1. PICK c \in ChunkContents : buffers' = [buffers EXCEPT ![b] = c]
  BY DEF C!Edit
<1>2. unsure' = unsure \cup {s \in ChunkSlots : chunk[s].m_data = b} /\ chunk' = chunk
  BY DEF C!Edit
<1>3. buffers' \in Seq(ChunkContents) /\ Len(buffers') = Len(buffers)
      /\ \A d \in 1..Len(buffers) : d # b => buffers'[d] = buffers[d]
  BY <1>1 DEF ChunkInv, ChunkTypeOK
<1>4. ChunkTypeOK'
  BY <1>2, <1>3 DEF ChunkInv, ChunkTypeOK
<1>5. ASSUME NEW s \in ChunkSlots \ unsure' PROVE GoesByItsHash(chunk[s])'
  <2>1. chunk[s].m_data \in 0..Len(buffers) /\ chunk[s].m_data # b /\ GoesByItsHash(chunk[s])
        /\ Len(buffers) \in Nat
    BY <1>2, HashIsOfDataByChunk DEF ChunkInv, ChunkTypeOK
  <2> QED
    BY <1>2, <1>3, <2>1 DEF GoesByItsHash
<1>6. C!HashIsOfData'
  BY <1>5 DEF C!HashIsOfData, GoesByItsHash
<1> QED
  BY <1>4, <1>6 DEF ChunkInv

LEMMA ChunkInvHolds == C!Spec => []ChunkInv
<1>1. C!Init => ChunkInv
  <2> SUFFICES ASSUME C!Init PROVE ChunkInv
    OBVIOUS
  <2>1. buffers = <<>> /\ Len(buffers) = 0 /\ buffers \in Seq(ChunkContents) /\ unsure = {}
    BY DEF C!Init
  <2>2. chunk = [s \in ChunkSlots |-> [m_data |-> 0, r |-> Zero]]
    BY DEF C!Init, C!Default
  <2>3. ChunkTypeOK
    BY <2>1, <2>2 DEF ChunkTypeOK
  <2> QED
    BY <2>2, <2>3 DEF ChunkInv, C!HashIsOfData
<1>2. ChunkInv /\ [C!Next]_(C!vars) => ChunkInv'
  <2> SUFFICES ASSUME ChunkInv, [C!Next]_(C!vars) PROVE ChunkInv'
    OBVIOUS
  <2>1. CASE UNCHANGED <<buffers, chunk, unsure>>
    BY <2>1 DEF ChunkInv, ChunkTypeOK, C!HashIsOfData
  <2> QED
    BY <2>1, MakeEmptyKeepsChunks, MakeKeepsChunks, CopyKeepsChunks, MoveKeepsChunks, EditKeepsChunks
    DEF C!Next, C!vars
<1> QED
  BY <1>1, <1>2, PTL DEF C!Spec

\* Chunks that go by their hashes are equal exactly when the hashes are.
LEMMA EqualHashesEqualChunks ==
  ASSUME ChunkInv
  PROVE  C!EqualByTheirHashes
<1> SUFFICES ASSUME NEW s \in ChunkSlots \ unsure, NEW t \in ChunkSlots \ unsure,
                    C!Usable(s), C!Usable(t), chunk[s].r = chunk[t].r
             PROVE  C!Equal(s, t)
  BY DEF C!EqualByTheirHashes, C!Equal
<1>1. GoesByItsHash(chunk[s]) /\ GoesByItsHash(chunk[t])
  BY HashIsOfDataByChunk DEF ChunkInv
<1>2. ASSUME NEW u \in ChunkSlots, chunk[u].m_data # 0
      PROVE  buffers[chunk[u].m_data] \in ChunkContents
  BY <1>2 DEF ChunkInv, ChunkTypeOK
<1>3. \A x \in ChunkContents : Of[x] \in Hash
  BY ChunkAssumption DEF C!ChunkAssumption
<1>4. Zero \notin Hash /\ Moved \notin Hash
  BY ChunkAssumption DEF C!ChunkAssumption
<1>5. CASE chunk[s].m_data = 0 \/ chunk[t].m_data = 0
  BY <1>1, <1>2, <1>3, <1>4, <1>5 DEF GoesByItsHash, C!Equal
<1>6. CASE chunk[s].m_data # 0 /\ chunk[t].m_data # 0
  BY <1>1, <1>2, <1>6, NoCollisions DEF GoesByItsHash, C!Equal
<1> QED
  BY <1>5, <1>6

\* A chunk goes by the hash of its bytes through any copies, moves, assignments and edits, and
\* two chunks are equal exactly when their hashes are, if no two contents have one hash.
THEOREM ChunksAreTheirHashes == C!Spec => []ChunksGoByTheirHash
<1>1. ChunkInv => ChunksGoByTheirHash
  BY EqualHashesEqualChunks DEF ChunksGoByTheirHash, ChunkInv
<1> QED
  BY <1>1, ChunkInvHolds, PTL

-----------------------------------------------------------------------------
(***************************************************************************)
(* Slices keep their bytes.                                                *)
(***************************************************************************)
Slice == [data : Nat, offset : Nat, sz : Nat]

SliceTypeOK ==
  /\ heap \in Seq(Seq(Nat))
  /\ slot \in [Windows -> Slice] /\ \A s \in Windows : slot[s].data \in 0..Len(heap)
  /\ lent \subseteq 1..Len(heap)
  /\ kin \in [Windows -> Nat]
  /\ within \subseteq Windows /\ DOMAIN snapshot = Windows /\ edited \subseteq Windows

\* The family of a slice is its buffer: an edit through one marks the others.
FamiliesShare == \A s \in Windows : slot[s].data # 0 => kin[s] = slot[s].data

SliceInv == SliceTypeOK /\ S!WindowsAreBacked /\ FamiliesShare /\ S!EditsStayInTheFamily

LEMMA FunctionsAreSequences ==
  ASSUME NEW T, NEW n \in Nat, NEW f \in [1..n -> T]
  PROVE  f \in Seq(T) /\ Len(f) = n
OBVIOUS

\* A place in a window is a place in its buffer.
LEMMA PlaceInBuffer ==
  ASSUME NEW offset \in Nat, NEW n \in Nat, NEW len \in Nat, offset + n <= len, NEW i \in 1..n
  PROVE  offset + i \in 1..len
OBVIOUS

\* A slice that callers have kept within its buffer.
LEMMA Within ==
  ASSUME SliceInv, NEW t \in within
  PROVE  /\ t \in Windows /\ slot[t] \in Slice /\ heap \in Seq(Seq(Nat))
         /\ slot[t].data = 0 => slot[t].sz = 0
         /\ slot[t].data # 0 => /\ slot[t].data \in DOMAIN heap /\ heap[slot[t].data] \in Seq(Nat)
                                /\ slot[t].offset + slot[t].sz <= Len(heap[slot[t].data])
BY DEF SliceInv, SliceTypeOK, S!WindowsAreBacked, S!Fits

\* What such a window shows is what the buffer holds there.
LEMMA SpanShows ==
  ASSUME heap \in Seq(Seq(Nat)), NEW v \in Slice, v.data # 0, v.data \in DOMAIN heap,
         v.offset + v.sz <= Len(heap[v.data])
  PROVE  /\ S!span(v) = [i \in 1..v.sz |-> heap[v.data][v.offset + i]]
         /\ \A i \in 1..v.sz : v.offset + i \in DOMAIN heap[v.data] /\ heap[v.data][v.offset + i] \in Nat
         /\ S!span(v) \in Seq(Nat) /\ Len(S!span(v)) = v.sz
<1>1. v.sz \in Nat /\ v.offset \in Nat /\ heap[v.data] \in Seq(Nat)
  BY DEF Slice
<1>2. ASSUME NEW i \in 1..v.sz
      PROVE  v.offset + i \in DOMAIN heap[v.data] /\ heap[v.data][v.offset + i] \in Nat
  <2>1. v.offset + i \in 1..Len(heap[v.data])
    BY <1>1, PlaceInBuffer, SMTT(30)
  <2>2. DOMAIN heap[v.data] = 1..Len(heap[v.data])
    BY <1>1
  <2>3. \A k \in 1..Len(heap[v.data]) : heap[v.data][k] \in Nat
    BY <1>1, SMTT(30)
  <2> QED
    BY <2>1, <2>2, <2>3
<1>3. S!span(v) = [i \in 1..v.sz |-> heap[v.data][v.offset + i]]
  BY <1>2 DEF S!span
<1>4. S!span(v) \in [1..v.sz -> Nat]
  BY <1>2, <1>3
<1>5. S!span(v) \in Seq(Nat) /\ Len(S!span(v)) = v.sz
  BY <1>1, <1>4, FunctionsAreSequences
<1> QED
  BY <1>2, <1>3, <1>5

\* What it shows stays while its buffer does.
LEMMA SpanStays ==
  ASSUME NEW v, v.data # 0 => heap'[v.data] = heap[v.data]
  PROVE  S!span(v)' = S!span(v)
BY DEF S!span

\* Every slice has a buffer or none.
LEMMA SlotsHaveBuffers ==
  ASSUME SliceInv, NEW u \in Windows
  PROVE  /\ slot[u] \in Slice /\ slot[u].data \in Nat /\ slot[u].offset \in Nat /\ slot[u].sz \in Nat
         /\ slot[u].data # 0 => slot[u].data \in DOMAIN heap /\ heap[slot[u].data] \in Seq(Nat)
<1>1. slot[u] \in Slice /\ slot[u].data \in 0..Len(heap) /\ heap \in Seq(Seq(Nat))
  BY DEF SliceInv, SliceTypeOK
<1>2. DOMAIN heap = 1..Len(heap) /\ Len(heap) \in Nat
  BY <1>1
<1> QED
  BY <1>1, <1>2 DEF Slice

\* Slot s gets slice v of the family of its buffer, with what it shows if it is within that; the
\* buffers of the others stay.
LEMMA PutKeepsSlices ==
  ASSUME SliceInv, NEW s \in Windows, NEW v \in Slice, NEW k \in Nat, NEW bytes, NEW fits \in BOOLEAN,
         heap' \in Seq(Seq(Nat)), \A b \in DOMAIN heap : b \in DOMAIN heap' /\ heap'[b] = heap[b],
         lent' \subseteq 1..Len(heap'), v.data \in 0..Len(heap'),
         S!Put(s, v, k, fits), snapshot' = [snapshot EXCEPT ![s] = bytes],
         v.data # 0 => k = v.data,
         fits => S!Fits(v, heap') /\ S!span(v)' = bytes
  PROVE  SliceInv'
<1>1. /\ slot'[s] = v /\ kin'[s] = k /\ snapshot'[s] = bytes
      /\ \A u \in Windows \ {s} : slot'[u] = slot[u] /\ kin'[u] = kin[u] /\ snapshot'[u] = snapshot[u]
      /\ \A u \in Windows \ {s} : u \in within' <=> u \in within
      /\ s \in within' <=> fits
      /\ edited' = edited \ {s} /\ within' \subseteq Windows
  BY DEF SliceInv, SliceTypeOK, S!Put
<1>2. SliceTypeOK'
  <2>1. heap \in Seq(Seq(Nat)) /\ \A u \in Windows : slot[u].data = 0 \/ slot[u].data \in DOMAIN heap
    BY DEF SliceInv, SliceTypeOK
  <2>2. \A u \in Windows : slot'[u].data \in 0..Len(heap')
    BY <1>1, <2>1
  <2> QED
    BY <1>1, <2>2 DEF SliceInv, SliceTypeOK, S!Put
<1>3. \A u \in Windows : slot[u].data # 0 =>
        slot[u].data \in DOMAIN heap /\ slot[u].data \in DOMAIN heap' /\ heap'[slot[u].data] = heap[slot[u].data]
  BY SlotsHaveBuffers
<1>4. S!WindowsAreBacked'
  <2> SUFFICES ASSUME NEW u \in within' PROVE slot'[u].data \in 0..Len(heap') /\ S!Fits(slot'[u], heap')
    BY DEF S!WindowsAreBacked
  <2>1. slot'[u].data \in 0..Len(heap')
    BY <1>1, <1>2 DEF SliceTypeOK
  <2>2. CASE u = s
    BY <1>1, <2>1, <2>2
  <2>3. CASE u # s
    <3>1. u \in within /\ u \in Windows /\ slot'[u] = slot[u] /\ S!Fits(slot[u], heap)
      BY <1>1, <2>3 DEF SliceInv, S!WindowsAreBacked
    <3> QED
      BY <1>3, <2>1, <3>1 DEF S!Fits
  <2> QED
    BY <2>2, <2>3
<1>5. FamiliesShare'
  BY <1>1 DEF SliceInv, FamiliesShare
<1>6. ASSUME NEW u \in within' \ edited' PROVE S!Bytes(u)' = snapshot'[u]
  <2>1. CASE u = s
    BY <1>1, <1>6, <2>1 DEF S!Bytes
  <2>2. CASE u # s
    <3>1. slot'[u] = slot[u] /\ snapshot'[u] = snapshot[u] /\ u \in within \ edited /\ u \in Windows
      BY <1>1, <1>6, <2>2
    <3>2. S!span(slot[u]) = snapshot[u]
      BY <3>1 DEF SliceInv, S!EditsStayInTheFamily, S!Bytes
    <3>3. slot[u].data # 0 => heap'[slot[u].data] = heap[slot[u].data]
      BY <1>3, <3>1
    <3>4. S!Bytes(u)' = S!span(slot[u])
      <4>1. PICK w : w = slot[u]
        OBVIOUS
      <4>2. S!span(w)' = S!span(w)
        BY <3>3, <4>1, SpanStays
      <4>3. S!Bytes(u)' = S!span(w)'
        BY <3>1, <4>1 DEF S!Bytes
      <4> QED
        BY <4>1, <4>2, <4>3
    <3> QED
      BY <3>1, <3>2, <3>4
  <2> QED
    BY <2>1, <2>2
<1>7. S!EditsStayInTheFamily'
  BY <1>6 DEF S!EditsStayInTheFamily
<1> QED
  BY <1>2, <1>4, <1>5, <1>7 DEF SliceInv

\* A buffer that is made is no other slot's.
LEMMA BufferIsAdded ==
  ASSUME SliceInv, NEW bytes \in Seq(Nat), heap' = Append(heap, bytes)
  PROVE  /\ heap \in Seq(Seq(Nat)) /\ heap' \in Seq(Seq(Nat)) /\ Len(heap) \in Nat /\ Len(heap') = Len(heap) + 1
         /\ \A b \in DOMAIN heap : b \in DOMAIN heap' /\ heap'[b] = heap[b]
         /\ Len(heap) + 1 \in DOMAIN heap' /\ heap'[Len(heap) + 1] = bytes
         /\ lent \cup {Len(heap) + 1} \subseteq 1..Len(heap')
<1>1. heap \in Seq(Seq(Nat)) /\ lent \subseteq 1..Len(heap)
  BY DEF SliceInv, SliceTypeOK
<1>2. /\ heap' \in Seq(Seq(Nat)) /\ Len(heap) \in Nat /\ Len(heap') = Len(heap) + 1
      /\ DOMAIN heap = 1..Len(heap) /\ DOMAIN heap' = 1..Len(heap) + 1
      /\ heap'[Len(heap) + 1] = bytes
  BY <1>1
<1>3. \A b \in DOMAIN heap : heap'[b] = heap[b]
  BY <1>1
<1>4. 1..Len(heap) \subseteq 1..Len(heap) + 1 /\ Len(heap) + 1 \in 1..Len(heap) + 1
  BY <1>2
<1> QED
  BY <1>1, <1>2, <1>3, <1>4

LEMMA NewKeepsSlices ==
  ASSUME SliceInv, NEW s \in Windows, NEW bytes \in Seq(Nat), S!New(s, bytes)
  PROVE  SliceInv' /\ S!Bytes(s)' = bytes
<1>0. PICK v : v = [data |-> Len(heap) + 1, offset |-> 0, sz |-> Len(bytes)]
  OBVIOUS
<1>1. /\ heap' = Append(heap, bytes) /\ lent' = lent
      /\ S!Put(s, v, Len(heap) + 1, TRUE)
      /\ snapshot' = [snapshot EXCEPT ![s] = bytes]
  BY <1>0 DEF S!New
<1>2. /\ heap \in Seq(Seq(Nat)) /\ heap' \in Seq(Seq(Nat)) /\ Len(heap) \in Nat /\ Len(heap') = Len(heap) + 1
      /\ \A b \in DOMAIN heap : b \in DOMAIN heap' /\ heap'[b] = heap[b]
      /\ Len(heap) + 1 \in DOMAIN heap' /\ heap'[Len(heap) + 1] = bytes
      /\ lent' \subseteq 1..Len(heap')
  BY <1>1, BufferIsAdded
<1>3. /\ v \in Slice /\ v.data = Len(heap) + 1 /\ v.offset = 0 /\ v.sz = Len(bytes)
      /\ v.data # 0 /\ v.data \in 0..Len(heap') /\ heap'[v.data] = bytes
  BY <1>0, <1>2 DEF Slice
<1>4. S!span(v)' = bytes
  <2>1. \A i \in 1..Len(bytes) : v.offset + i \in DOMAIN bytes /\ bytes[v.offset + i] = bytes[i]
    BY <1>3
  <2>2. S!span(v)' = [i \in 1..v.sz |-> IF v.offset + i \in DOMAIN heap'[v.data]
                                          THEN heap'[v.data][v.offset + i] ELSE -1]
    BY <1>3 DEF S!span
  <2>3. S!span(v)' = [i \in 1..Len(bytes) |-> bytes[i]]
    BY <1>3, <2>1, <2>2
  <2> QED
    BY <2>3
<1>5. S!Fits(v, heap')
  BY <1>3 DEF S!Fits
<1>6. SliceInv'
  <2>1. PICK k \in Nat : k = Len(heap) + 1
    BY <1>2
  <2>2. PICK fits \in BOOLEAN : fits
    OBVIOUS
  <2>3. S!Put(s, v, k, fits)
    BY <1>1, <2>1, <2>2 DEF S!Put
  <2> QED
    BY <1>1, <1>2, <1>3, <1>4, <1>5, <2>1, <2>3, PutKeepsSlices
<1>7. slot'[s] = v
  BY <1>1 DEF S!Put, SliceInv, SliceTypeOK
<1> QED
  BY <1>4, <1>6, <1>7 DEF S!Bytes

LEMMA MakeKeepsSlices ==
  ASSUME SliceInv, NEW s \in Windows, S!Make(s)
  PROVE  SliceInv'
<1>1. PICK bytes \in Texts : S!New(s, bytes)
  BY DEF S!Make
<1>2. bytes \in Seq(Nat)
  BY SliceAssumption DEF S!ByteSliceAssumption
<1> QED
  BY <1>1, <1>2, NewKeepsSlices

\* A slice that is made for a buffer of the caller's is of that buffer's family.
LEMMA WrapKeepsSlices ==
  ASSUME SliceInv, NEW s \in Windows, S!Wrap(s)
  PROVE  SliceInv'
<1>1. PICK b \in 0..MaxHeap, offset \in Offsets, length \in Lengths :
        LET v == [data |-> b, offset |-> offset, sz |-> length] IN
        /\ \/ b \in lent \cup {0} /\ UNCHANGED <<heap, lent>>
           \/ b = Len(heap) + 1 /\ lent' = lent \cup {b} /\ \E content \in Texts : heap' = Append(heap, content)
        /\ S!Put(s, v, b, S!Fits(v, heap'))
        /\ snapshot' = [snapshot EXCEPT ![s] = IF S!Fits(v, heap') THEN S!span(v)' ELSE <<>>]
  BY DEF S!Wrap
<1>2. PICK v : v = [data |-> b, offset |-> offset, sz |-> length]
  OBVIOUS
<1>3. v \in Slice /\ v.data = b /\ b \in Nat
  BY <1>2, SliceAssumption DEF S!ByteSliceAssumption, Slice
<1>4. /\ heap' \in Seq(Seq(Nat)) /\ \A c \in DOMAIN heap : c \in DOMAIN heap' /\ heap'[c] = heap[c]
      /\ lent' \subseteq 1..Len(heap') /\ b \in 0..Len(heap')
  <2>1. CASE b \in lent \cup {0} /\ UNCHANGED <<heap, lent>>
    BY <2>1, SMTT(30) DEF SliceInv, SliceTypeOK
  <2>2. CASE b = Len(heap) + 1 /\ lent' = lent \cup {b} /\ \E content \in Texts : heap' = Append(heap, content)
    <3>1. PICK content \in Texts : heap' = Append(heap, content)
      BY <2>2
    <3>2. content \in Seq(Nat)
      BY SliceAssumption DEF S!ByteSliceAssumption
    <3> QED
      BY <1>3, <2>2, <3>1, <3>2, BufferIsAdded
  <2> QED
    BY <1>1, <2>1, <2>2
<1>5. PICK fits \in BOOLEAN : fits <=> S!Fits(v, heap')
  OBVIOUS
<1>6. S!Put(s, v, b, fits)
  BY <1>1, <1>2, <1>5 DEF S!Put
<1>7. PICK bytes : bytes = IF fits THEN S!span(v)' ELSE <<>>
  OBVIOUS
<1>8. snapshot' = [snapshot EXCEPT ![s] = bytes]
  BY <1>1, <1>2, <1>5, <1>7
<1> QED
  BY <1>3, <1>4, <1>5, <1>6, <1>7, <1>8, PutKeepsSlices

\* A slice of the buffer that slot t has a slice of; it is kept within the buffer if it is within the
\* slice in t and that is.
LEMMA DeriveKeepsSlices ==
  ASSUME SliceInv, NEW s \in Windows, NEW t \in Windows, NEW v \in Slice, NEW fits \in BOOLEAN,
         v.data = slot[t].data, S!Derive(s, t, v, fits),
         fits /\ t \in within => S!Fits(v, heap)
  PROVE  SliceInv'
<1>1. PICK bytes : bytes = IF fits /\ t \in within THEN S!span(v) ELSE <<>>
  OBVIOUS
<1>2. /\ heap' = heap /\ lent' = lent
      /\ heap \in Seq(Seq(Nat)) /\ lent \subseteq 1..Len(heap) /\ v.data \in 0..Len(heap)
      /\ S!Put(s, v, kin[t], fits /\ t \in within) /\ kin[t] \in Nat
      /\ snapshot' = [snapshot EXCEPT ![s] = bytes]
  BY <1>1 DEF S!Derive, SliceInv, SliceTypeOK
<1>3. S!span(v)' = S!span(v)
  BY <1>2, SpanStays
<1>4. v.data # 0 => kin[t] = v.data
  BY DEF SliceInv, FamiliesShare
<1>5. PICK both \in BOOLEAN : both <=> fits /\ t \in within
  OBVIOUS
<1>6. S!Put(s, v, kin[t], both) /\ (both => S!Fits(v, heap') /\ S!span(v)' = bytes)
  BY <1>1, <1>2, <1>3, <1>5 DEF S!Put
<1> QED
  BY <1>2, <1>4, <1>6, PutKeepsSlices

LEMMA CopyKeepsSlices ==
  ASSUME SliceInv, NEW s \in Windows, NEW t \in Windows, S!Copy(s, t)
  PROVE  SliceInv'
<1>1. slot[t] \in Slice /\ (t \in within => S!Fits(slot[t], heap))
  BY DEF SliceInv, SliceTypeOK, S!WindowsAreBacked
<1> QED
  BY <1>1, DeriveKeepsSlices DEF S!Copy

\* A cut within a slice that is within its buffer is within that.
LEMMA CutFits ==
  ASSUME SliceInv, NEW t \in Windows, NEW offset \in Offsets, NEW length \in Nat,
         offset + length <= slot[t].sz, t \in within
  PROVE  S!Fits(S!Cut(slot[t], offset, length), heap)
<1>1. slot[t].offset \in Nat /\ slot[t].sz \in Nat /\ offset \in Nat
  BY Within, SliceAssumption DEF Slice, S!ByteSliceAssumption
<1>2. CASE slot[t].data = 0
  <2>1. slot[t].sz = 0
    BY <1>2, Within
  <2> QED
    BY <1>1, <1>2, <2>1 DEF S!Fits, S!Cut
<1>3. CASE slot[t].data # 0
  <2>1. slot[t].offset + slot[t].sz <= Len(heap[slot[t].data]) /\ Len(heap[slot[t].data]) \in Nat
    BY <1>3, Within
  <2> QED
    BY <1>1, <1>3, <2>1 DEF S!Fits, S!Cut
<1> QED
  BY <1>2, <1>3

LEMMA SubSliceKeepsSlices ==
  ASSUME SliceInv, NEW s \in Windows, NEW t \in Windows, S!SubSlice(s, t)
  PROVE  SliceInv'
<1>1. PICK offset \in Offsets :
        \/ S!Derive(s, t, S!Cut(slot[t], offset, S!Rest(slot[t], offset)), offset <= slot[t].sz)
        \/ \E length \in Lengths : S!Derive(s, t, S!Cut(slot[t], offset, length), offset + length <= slot[t].sz)
  BY DEF S!SubSlice
<1>2. /\ slot[t].data \in Nat /\ slot[t].offset \in Nat /\ slot[t].sz \in Nat
      /\ offset \in Nat /\ offset < Word /\ Word \in Nat /\ Lengths \subseteq Nat
  BY SliceAssumption DEF S!ByteSliceAssumption, SliceInv, SliceTypeOK, Slice
<1>3. ASSUME NEW n \in Nat, NEW fits \in BOOLEAN, S!Derive(s, t, S!Cut(slot[t], offset, n), fits),
             fits => offset + n <= slot[t].sz
      PROVE  SliceInv'
  <2>1. PICK v : v = S!Cut(slot[t], offset, n)
    OBVIOUS
  <2>2. v \in Slice /\ v.data = slot[t].data
    BY <1>2, <2>1 DEF S!Cut, Slice
  <2>3. fits /\ t \in within => S!Fits(v, heap)
    BY <1>3, <2>1, CutFits
  <2> QED
    BY <1>3, <2>1, <2>2, <2>3, DeriveKeepsSlices
<1>4. CASE S!Derive(s, t, S!Cut(slot[t], offset, S!Rest(slot[t], offset)), offset <= slot[t].sz)
  <2>1. PICK n : n = S!Rest(slot[t], offset)
    OBVIOUS
  <2>2. n \in Nat /\ (offset <= slot[t].sz => offset + n <= slot[t].sz)
    BY <1>2, <2>1 DEF S!Rest
  <2>3. PICK fits \in BOOLEAN : fits <=> offset <= slot[t].sz
    OBVIOUS
  <2>4. S!Derive(s, t, S!Cut(slot[t], offset, n), fits)
    BY <1>4, <2>1, <2>3 DEF S!Derive, S!Put
  <2> QED
    BY <1>3, <2>2, <2>3, <2>4
<1>5. ASSUME NEW length \in Lengths, S!Derive(s, t, S!Cut(slot[t], offset, length), offset + length <= slot[t].sz)
      PROVE  SliceInv'
  <2>1. PICK fits \in BOOLEAN : fits <=> offset + length <= slot[t].sz
    OBVIOUS
  <2>2. S!Derive(s, t, S!Cut(slot[t], offset, length), fits)
    BY <1>5, <2>1 DEF S!Derive, S!Put
  <2> QED
    BY <1>2, <1>3, <2>1, <2>2
<1> QED
  BY <1>1, <1>4, <1>5

\* What is read is bytes, wherever it is read from.
LEMMA ReadsAreBytes ==
  ASSUME SliceInv, NEW t \in Windows, NEW from \in Nat, NEW n \in Nat, NEW x \in S!Reads(slot[t], from, n)
  PROVE  x \in Seq(Nat)
<1>1. CASE slot[t].data = 0
  BY <1>1 DEF S!Reads
<1>2. CASE slot[t].data # 0
  <2>1. PICK any \in [1..n -> ByteValues] :
          x = [i \in 1..n |-> IF from + i \in DOMAIN heap[slot[t].data] THEN heap[slot[t].data][from + i] ELSE any[i]]
    BY <1>2 DEF S!Reads
  <2>2. heap[slot[t].data] \in Seq(Nat)
    BY <1>2 DEF SliceInv, SliceTypeOK
  <2>3. \A i \in DOMAIN heap[slot[t].data] : heap[slot[t].data][i] \in Nat
    BY <2>2
  <2>4. ByteValues \subseteq Nat
    BY SliceAssumption DEF S!ByteSliceAssumption
  <2>5. x \in [1..n -> Nat]
    BY <2>1, <2>3, <2>4
  <2> QED
    BY <2>5, FunctionsAreSequences
<1> QED
  BY <1>1, <1>2

\* From a slice that is within its buffer, its bytes are read.
LEMMA ReadsShow ==
  ASSUME SliceInv, NEW t \in within, NEW x \in S!Reads(slot[t], slot[t].offset, slot[t].sz)
  PROVE  x = S!Bytes(t)
<1>1. CASE slot[t].data = 0
  BY <1>1 DEF S!Reads, S!Bytes, S!span
<1>2. CASE slot[t].data # 0
  <2> DEFINE d == slot[t].data
             o == slot[t].offset
  <2>1. PICK any \in [1..slot[t].sz -> ByteValues] :
          x = [i \in 1..slot[t].sz |-> IF o + i \in DOMAIN heap[d] THEN heap[d][o + i] ELSE any[i]]
    BY <1>2 DEF S!Reads
  <2>2. /\ S!span(slot[t]) = [i \in 1..slot[t].sz |-> heap[d][o + i]]
        /\ \A i \in 1..slot[t].sz : o + i \in DOMAIN heap[d]
    BY <1>2, Within, SpanShows
  <2>3. x = [i \in 1..slot[t].sz |-> heap[d][o + i]]
    BY <2>1, <2>2
  <2> QED
    BY <2>2, <2>3 DEF S!Bytes
<1> QED
  BY <1>1, <1>2

\* Copies of bytes have a buffer of their own.
LEMMA CopyBytesKeepsSlices ==
  ASSUME SliceInv, NEW s \in Windows, NEW t \in Windows, S!CopyBytes(s, t)
  PROVE  SliceInv'
<1>1. slot[t].offset \in Nat /\ slot[t].sz \in Nat
  BY DEF SliceInv, SliceTypeOK, Slice
<1> QED
  BY <1>1, ReadsAreBytes, NewKeepsSlices DEF S!CopyBytes

LEMMA ConcatKeepsSlices ==
  ASSUME SliceInv, NEW s \in Windows, NEW t \in Windows, NEW u \in Windows, S!Concat(s, t, u)
  PROVE  SliceInv'
<1>1. slot[t].sz \in Nat /\ slot[u].sz \in Nat
  BY DEF SliceInv, SliceTypeOK, Slice
<1>2. PICK x \in S!Reads(slot[t], 0, slot[t].sz), y \in S!Reads(slot[u], 0, slot[u].sz) : S!New(s, x \o y)
  BY DEF S!Concat
<1>3. x \in Seq(Nat) /\ y \in Seq(Nat)
  BY <1>1, <1>2, ReadsAreBytes
<1>4. x \o y \in Seq(Nat)
  BY <1>3
<1> QED
  BY <1>2, <1>4, NewKeepsSlices

\* A move: the target takes the buffer, the window and the family of the source.
LEMMA MoveKeepsSlices ==
  ASSUME SliceInv, NEW s \in Windows, NEW t \in Windows, S!Move(s, t)
  PROVE  SliceInv'
<1>1. /\ s # t /\ heap' = heap /\ lent' = lent
      /\ slot' = [slot EXCEPT ![s] = slot[t], ![t].data = 0]
      /\ kin' = [kin EXCEPT ![s] = kin[t], ![t] = 0]
      /\ within' = (IF t \in within THEN within \cup {s} ELSE within \ {s}) \ {t}
      /\ snapshot' = [snapshot EXCEPT ![s] = IF t \in within THEN S!Bytes(t) ELSE <<>>, ![t] = <<>>]
      /\ edited' = edited \ {s, t}
  BY DEF S!Move
<1>2. /\ slot'[s] = slot[t] /\ slot'[t] = [slot[t] EXCEPT !.data = 0]
      /\ kin'[s] = kin[t] /\ kin'[t] = 0
      /\ snapshot'[s] = IF t \in within THEN S!Bytes(t) ELSE <<>>
      /\ \A u \in Windows \ {s, t} : slot'[u] = slot[u] /\ kin'[u] = kin[u] /\ snapshot'[u] = snapshot[u]
  BY <1>1 DEF SliceInv, SliceTypeOK
<1>3. slot'[t].data = 0 /\ slot'[t] \in Slice
  <2>1. slot[t] \in Slice
    BY DEF SliceInv, SliceTypeOK
  <2> QED
    BY <1>2, <2>1 DEF Slice
<1>4. SliceTypeOK'
  <2>1. \A u \in Windows : slot'[u] \in Slice /\ slot'[u].data \in 0..Len(heap)
    <3>1. \A u \in Windows : slot[u] \in Slice /\ slot[u].data \in 0..Len(heap)
      BY DEF SliceInv, SliceTypeOK
    <3>2. 0 \in 0..Len(heap)
      BY SMTT(30) DEF SliceInv, SliceTypeOK
    <3> QED
      BY <1>2, <1>3, <3>1, <3>2
  <2>2. slot' \in [Windows -> Slice]
    BY <1>1, <2>1 DEF SliceInv, SliceTypeOK
  <2>3. kin' \in [Windows -> Nat] /\ DOMAIN snapshot' = Windows /\ within' \subseteq Windows /\ edited' \subseteq Windows
    BY <1>1 DEF SliceInv, SliceTypeOK
  <2> QED
    BY <1>1, <2>1, <2>2, <2>3 DEF SliceInv, SliceTypeOK
\* Every slice that is still kept within its buffer was before, in the same slot or in the source's.
<1>5. ASSUME NEW u \in within'
      PROVE  \E w \in within : /\ slot'[u] = slot[w] /\ (u = s => w = t) /\ (u # s => w = u)
  <2>1. u # t /\ u \in Windows /\ (u = s => t \in within) /\ (u # s => u \in within)
    BY <1>1, <1>4, <1>5 DEF SliceTypeOK
  <2> QED
    BY <1>2, <2>1
<1>6. S!WindowsAreBacked'
  <2> SUFFICES ASSUME NEW u \in within' PROVE slot'[u].data \in 0..Len(heap') /\ S!Fits(slot'[u], heap')
    BY DEF S!WindowsAreBacked
  <2>1. PICK w \in within : slot'[u] = slot[w]
    BY <1>5
  <2>2. slot[w].data \in 0..Len(heap) /\ S!Fits(slot[w], heap)
    BY DEF SliceInv, S!WindowsAreBacked
  <2> QED
    BY <1>1, <2>1, <2>2
<1>7. FamiliesShare'
  <2> SUFFICES ASSUME NEW u \in Windows, slot'[u].data # 0 PROVE kin'[u] = slot'[u].data
    BY DEF FamiliesShare
  <2>1. \E w \in Windows : slot'[u] = slot[w] /\ kin'[u] = kin[w]
    BY <1>2, <1>3
  <2> QED
    BY <2>1 DEF SliceInv, FamiliesShare
<1>8. ASSUME NEW u \in within' \ edited' PROVE S!Bytes(u)' = snapshot'[u]
  <2>1. PICK w \in within : slot'[u] = slot[w] /\ (u = s => w = t) /\ (u # s => w = u)
    BY <1>5, <1>8
  <2>2. S!Bytes(u)' = S!Bytes(w)
    <3>1. PICK v : v = slot[w]
      OBVIOUS
    <3>2. S!span(v)' = S!span(v)
      BY <1>1, SpanStays
    <3>3. S!Bytes(u)' = S!span(v)'
      BY <2>1, <3>1 DEF S!Bytes
    <3> QED
      BY <3>1, <3>2, <3>3 DEF S!Bytes
  <2>3. CASE u = s
    BY <1>2, <2>1, <2>2, <2>3
  <2>4. CASE u # s
    <3>1. u \in Windows /\ u # t /\ u \notin edited
      BY <1>1, <1>4, <1>8, <2>4 DEF SliceTypeOK
    <3>2. S!Bytes(u) = snapshot[u]
      BY <2>1, <2>4, <3>1 DEF SliceInv, S!EditsStayInTheFamily
    <3> QED
      BY <1>2, <2>1, <2>2, <2>4, <3>1, <3>2
  <2> QED
    BY <2>3, <2>4
<1>9. S!EditsStayInTheFamily'
  BY <1>8 DEF S!EditsStayInTheFamily
<1> QED
  BY <1>4, <1>6, <1>7, <1>9 DEF SliceInv

\* A byte that is set leaves the other buffers as they are, and this one as long as it is.
LEMMA SetByteSets ==
  ASSUME SliceInv, NEW b \in DOMAIN heap, NEW place \in DOMAIN heap[b], NEW value \in ByteValues,
         S!SetByte(b, place, value)
  PROVE  /\ heap' = [heap EXCEPT ![b] = [heap[b] EXCEPT ![place] = value]]
         /\ heap' \in Seq(Seq(Nat)) /\ DOMAIN heap' = DOMAIN heap /\ Len(heap') = Len(heap)
         /\ \A e \in DOMAIN heap : Len(heap'[e]) = Len(heap[e]) /\ (e # b => heap'[e] = heap[e])
<1>1. heap \in Seq(Seq(Nat)) /\ heap[b] \in Seq(Nat) /\ value \in Nat
  BY SliceAssumption DEF S!ByteSliceAssumption, SliceInv, SliceTypeOK
<1>2. heap' = [heap EXCEPT ![b] = [heap[b] EXCEPT ![place] = value]]
  BY DEF S!SetByte
<1>3. [heap[b] EXCEPT ![place] = value] \in Seq(Nat) /\ Len([heap[b] EXCEPT ![place] = value]) = Len(heap[b])
  BY <1>1
<1> QED
  BY <1>1, <1>2, <1>3, SMTT(30)

\* Buffers stay as long as they are, and what changes is of slots that are marked.
LEMMA EditedKeepsSlices ==
  ASSUME SliceInv, NEW E \in SUBSET Windows, S!Edited(E),
         heap' \in Seq(Seq(Nat)), DOMAIN heap' = DOMAIN heap, Len(heap') = Len(heap),
         \A b \in DOMAIN heap : Len(heap'[b]) = Len(heap[b]),
         \A u \in Windows \ E : slot[u].data # 0 => heap'[slot[u].data] = heap[slot[u].data]
  PROVE  SliceInv'
<1>1. /\ edited' = edited \cup E /\ slot' = slot /\ lent' = lent /\ kin' = kin /\ within' = within
      /\ snapshot' = [u \in Windows |-> IF u \in E THEN <<>> ELSE snapshot[u]]
  BY DEF S!Edited
<1>2. SliceTypeOK'
  BY <1>1 DEF SliceInv, SliceTypeOK
<1>3. S!WindowsAreBacked'
  <2> SUFFICES ASSUME NEW u \in within PROVE slot[u].data \in 0..Len(heap') /\ S!Fits(slot[u], heap')
    BY <1>1 DEF S!WindowsAreBacked
  <2>1. slot[u].data \in 0..Len(heap) /\ S!Fits(slot[u], heap) /\ heap \in Seq(Seq(Nat))
    BY DEF SliceInv, SliceTypeOK, S!WindowsAreBacked
  <2>2. slot[u].data # 0 => slot[u].data \in DOMAIN heap
    BY <2>1
  <2> QED
    BY <2>1, <2>2 DEF S!Fits
<1>4. FamiliesShare'
  BY <1>1 DEF SliceInv, FamiliesShare
<1>5. ASSUME NEW u \in within \ (edited \cup E) PROVE S!Bytes(u)' = snapshot'[u]
  <2>1. u \in Windows /\ u \notin E /\ snapshot'[u] = snapshot[u]
    BY <1>1, <1>5 DEF SliceInv, SliceTypeOK
  <2>2. S!Bytes(u)' = S!Bytes(u)
    BY <1>1, <2>1 DEF S!Bytes, S!span
  <2> QED
    BY <1>5, <2>1, <2>2 DEF SliceInv, S!EditsStayInTheFamily
<1>6. S!EditsStayInTheFamily'
  BY <1>1, <1>5 DEF S!EditsStayInTheFamily
<1> QED
  BY <1>2, <1>3, <1>4, <1>6 DEF SliceInv

\* A byte of a buffer is set, and its family is marked.
LEMMA SetByteKeepsSlices ==
  ASSUME SliceInv, NEW b \in DOMAIN heap, NEW place \in DOMAIN heap[b], NEW value \in ByteValues,
         S!SetByte(b, place, value), NEW E \in SUBSET Windows, S!Edited(E), {s \in Windows : kin[s] = b} \subseteq E
  PROVE  SliceInv'
<1>1. \A u \in Windows \ E : slot[u].data # b
  <2>1. b # 0
    BY DEF SliceInv, SliceTypeOK
  <2> QED
    BY <2>1 DEF SliceInv, FamiliesShare
<1>2. \A u \in Windows : slot[u].data # 0 => slot[u].data \in DOMAIN heap
  BY DEF SliceInv, SliceTypeOK
<1> QED
  BY <1>1, <1>2, SetByteSets, EditedKeepsSlices

LEMMA EditKeepsSlices ==
  ASSUME SliceInv, NEW t \in Windows, NEW i \in Offsets, S!Edit(t, i)
  PROVE  SliceInv'
<1> DEFINE b == slot[t].data
           place == S!Index(slot[t], i) + 1
<1>1. b # 0 /\ b \in DOMAIN heap /\ kin[t] = b
  BY DEF S!Edit, SliceInv, SliceTypeOK, FamiliesShare
<1>2. CASE /\ place \in DOMAIN heap[b] /\ \E value \in ByteValues : S!SetByte(b, place, value)
           /\ S!Edited({s \in Windows : kin[s] = kin[t]})
  BY <1>1, <1>2, SetByteKeepsSlices
<1>3. CASE UNCHANGED heap /\ S!Edited(Windows)
  BY <1>3, EditedKeepsSlices DEF SliceInv, SliceTypeOK
<1>4. ASSUME NEW c \in DOMAIN heap, NEW hit \in DOMAIN heap[c], NEW value \in ByteValues,
             S!SetByte(c, hit, value), S!Edited(Windows)
      PROVE  SliceInv'
  BY <1>4, SetByteKeepsSlices
<1> QED
  BY <1>2, <1>3, <1>4 DEF S!Edit

LEMMA EditLentKeepsSlices ==
  ASSUME SliceInv, NEW b \in lent, S!EditLent(b)
  PROVE  SliceInv'
<1>1. b \in DOMAIN heap
  BY DEF SliceInv, SliceTypeOK
<1> QED
  BY <1>1, SetByteKeepsSlices DEF S!EditLent

LEMMA SliceInvStep ==
  ASSUME SliceInv, [S!Next]_(S!vars)
  PROVE  SliceInv'
<1>1. CASE UNCHANGED <<heap, slot, lent, kin, within, snapshot, edited>>
  BY <1>1 DEF SliceInv, SliceTypeOK, FamiliesShare, S!WindowsAreBacked, S!EditsStayInTheFamily, S!Bytes, S!span
<1> QED
  BY <1>1, MakeKeepsSlices, WrapKeepsSlices, CopyKeepsSlices, MoveKeepsSlices, SubSliceKeepsSlices,
     CopyBytesKeepsSlices, ConcatKeepsSlices, EditKeepsSlices, EditLentKeepsSlices DEF S!Next, S!vars

LEMMA SliceInvHolds == S!Spec => []SliceInv
<1>1. S!Init => SliceInv
  BY DEF S!Init, S!Null, SliceInv, SliceTypeOK, Slice, FamiliesShare, S!WindowsAreBacked, S!Fits,
         S!EditsStayInTheFamily, S!Bytes, S!span
<1>2. SliceInv /\ [S!Next]_(S!vars) => SliceInv'
  BY SliceInvStep
<1> QED
  BY <1>1, <1>2, PTL DEF S!Spec

\* No slice that callers keep within its buffer ever reaches beyond it or shows an edit of bytes it does
\* not share, whatever is made, wrapped, copied, moved, cut, joined and edited, by others out of bounds too.
THEOREM SlicesAreSafe == S!Spec => []SlicesKeepTheirBytes
<1>1. SliceInv => SlicesKeepTheirBytes
  BY DEF SliceInv, SlicesKeepTheirBytes
<1> QED
  BY <1>1, SliceInvHolds, PTL

-----------------------------------------------------------------------------
(***************************************************************************)
(* Slices act as their bytes.                                              *)
(***************************************************************************)

\* An edit within a slice that changes a buffer changes what the slice shows.
LEMMA EditShows ==
  ASSUME SliceInv, NEW t \in within, NEW i \in Offsets, heap' # heap, i < slot[t].sz, S!Edit(t, i)
  PROVE  S!Bytes(t)' # S!Bytes(t)
<1> DEFINE b == slot[t].data
           o == slot[t].offset
<1>1. /\ t \in Windows /\ b # 0 /\ b \in DOMAIN heap /\ heap[b] \in Seq(Nat) /\ heap \in Seq(Seq(Nat))
      /\ o \in Nat /\ slot[t].sz \in Nat /\ o + slot[t].sz <= Len(heap[b]) /\ i \in Nat
  BY Within, SliceAssumption DEF S!Edit, Slice, S!ByteSliceAssumption
<1>2. i + 1 \in 1..slot[t].sz /\ o + i + 1 = o + (i + 1) /\ o + (i + 1) \in DOMAIN heap[b]
  <2>1. i + 1 \in 1..slot[t].sz /\ o + i + 1 = o + (i + 1)
    <3>1. PICK n, m : n = slot[t].sz /\ m = o
      OBVIOUS
    <3>2. n \in Nat /\ m \in Nat /\ i \in Nat /\ i < n
      BY <1>1, <3>1
    <3>3. i + 1 \in 1..n /\ m + i + 1 = m + (i + 1)
      BY <3>2
    <3> QED
      BY <3>1, <3>3
  <2>2. Len(heap[b]) \in Nat /\ DOMAIN heap[b] = 1..Len(heap[b])
    BY <1>1
  <2>3. o + (i + 1) \in 1..Len(heap[b])
    BY <1>1, <2>1, <2>2, PlaceInBuffer
  <2> QED
    BY <2>1, <2>2, <2>3
<1>3. PICK value \in ByteValues : S!SetByte(b, o + (i + 1), value)
  BY <1>2 DEF S!Edit, S!Index
<1>4. /\ heap' = [heap EXCEPT ![b] = [heap[b] EXCEPT ![o + (i + 1)] = value]]
      /\ DOMAIN heap' = DOMAIN heap /\ Len(heap'[b]) = Len(heap[b])
  <2> HIDE DEF b, o
  <2> QED
    BY <1>1, <1>2, <1>3, SetByteSets
<1>5. heap[b][o + (i + 1)] # value
  <2> SUFFICES ASSUME heap[b][o + (i + 1)] = value PROVE FALSE
    OBVIOUS
  <2> DEFINE x == heap[b]
             k == o + (i + 1)
  <2>1. x \in Seq(Nat) /\ k \in DOMAIN x /\ x[k] = value
    BY <1>1, <1>2
  <2> HIDE DEF x, k
  <2>2. [x EXCEPT ![k] = value] = x
    BY <2>1
  <2> QED
    BY <1>1, <1>4, <2>2 DEF x, k
<1>6. heap'[b][o + (i + 1)] = value /\ o + (i + 1) \in DOMAIN heap'[b]
  BY <1>1, <1>2, <1>4
<1>7. slot' = slot
  BY DEF S!Edit, S!Edited
<1>8. S!Bytes(t)[i + 1] = heap[b][o + (i + 1)]
  BY <1>1, <1>2 DEF S!Bytes, S!span
<1>9. S!Bytes(t)'[i + 1] = heap'[b][o + (i + 1)]
  BY <1>1, <1>2, <1>6, <1>7 DEF S!Bytes, S!span
<1> QED
  BY <1>5, <1>6, <1>8, <1>9

\* What a slice within its buffer shows, as a sequence.
LEMMA BytesAreASequence ==
  ASSUME SliceInv, NEW t \in within
  PROVE  S!Bytes(t) \in Seq(Nat) /\ Len(S!Bytes(t)) = slot[t].sz
<1>1. CASE slot[t].data = 0
  BY <1>1, Within DEF S!Bytes, S!span
<1>2. CASE slot[t].data # 0
  BY <1>2, Within, SpanShows DEF S!Bytes
<1> QED
  BY <1>1, <1>2

\* Its buffer begins with it if it is from the start.
LEMMA StartsWithItsBytes ==
  ASSUME SliceInv, NEW t \in Windows, S!FromStart(t), NEW n \in 0..slot[t].sz, NEW i \in 1..n
  PROVE  S!data(slot[t], n)[i] = S!Bytes(t)[i]
<1>1. t \in within /\ slot[t].sz \in Nat /\ slot[t].offset = 0 /\ i \in Nat /\ n \in Nat /\ n <= slot[t].sz
  BY Within DEF S!FromStart, Slice
<1>2. slot[t].data # 0 /\ heap[slot[t].data] \in Seq(Nat) /\ slot[t].sz <= Len(heap[slot[t].data])
  BY <1>1, Within
<1> DEFINE buffer == heap[slot[t].data]
<1>3. buffer \in Seq(Nat) /\ n <= Len(buffer)
  BY <1>1, <1>2
<1> HIDE DEF buffer
<1>4. SubSeq(buffer, 1, n)[i] = buffer[i]
  BY <1>1, <1>3
<1>5. S!Bytes(t) = [k \in 1..slot[t].sz |-> buffer[slot[t].offset + k]]
  BY <1>1, <1>2, Within, SpanShows DEF S!Bytes, buffer
<1>6. i \in 1..slot[t].sz /\ slot[t].offset + i = i
  BY <1>1
<1> QED
  BY <1>2, <1>4, <1>5, <1>6 DEF S!data, buffer

\* A new slice shows what it was made from, which for operator+ are the bytes of both.
LEMMA ConcatShows ==
  ASSUME SliceInv, NEW s \in Windows, NEW t \in Windows, NEW u \in Windows,
         S!FromStart(t), S!FromStart(u), S!Concat(s, t, u)
  PROVE  S!Bytes(s)' = S!Bytes(t) \o S!Bytes(u)
<1>1. PICK x \in S!Reads(slot[t], 0, slot[t].sz), y \in S!Reads(slot[u], 0, slot[u].sz) : S!New(s, x \o y)
  BY DEF S!Concat
<1>2. x = S!Bytes(t) /\ y = S!Bytes(u)
  BY <1>1, ReadsShow DEF S!FromStart
<1>3. x \o y \in Seq(Nat)
  BY <1>2, BytesAreASequence DEF S!FromStart
<1> QED
  BY <1>1, <1>2, <1>3, NewKeepsSlices

\* Every set of natural numbers but the empty one has a least element.
LEMMA LeastOf ==
  ASSUME NEW N \in SUBSET Nat, N # {}
  PROVE  \E n \in N : \A m \in N : n <= m
<1>1. IsWellFoundedOn(OpToRel(<, Nat), Nat)
  BY NatLessThanWellFounded, Zenon
<1>2. PICK n \in N : \A m \in N : ~ (<<m, n>> \in OpToRel(<, Nat))
  BY <1>1, WFMin, Zenon
<1>3. \A m \in N : ~(m < n)
  BY <1>2 DEF OpToRel
<1> QED
  BY <1>3

\* The beginnings of two sequences are equal exactly when their members are.
LEMMA EqualBeginnings ==
  ASSUME NEW x \in Seq(Nat), NEW y \in Seq(Nat), NEW n \in Nat, n <= Len(x), n <= Len(y)
  PROVE  SubSeq(x, 1, n) = SubSeq(y, 1, n) <=> \A i \in 1..n : x[i] = y[i]
<1>1. ASSUME NEW z \in Seq(Nat), n <= Len(z)
      PROVE  /\ SubSeq(z, 1, n) \in Seq(Nat) /\ Len(SubSeq(z, 1, n)) = n
             /\ \A i \in 1..n : SubSeq(z, 1, n)[i] = z[i]
  BY <1>1, SMTT(30)
<1> QED
  BY <1>1, SeqEqual

\* The order of two sequences is decided at the first place at which they differ,
LEMMA LexicographicAt ==
  ASSUME NEW x \in Seq(Nat), NEW y \in Seq(Nat), NEW i \in Nat \ {0}, i <= Len(x), i <= Len(y),
         x[i] # y[i], \A j \in 1..i - 1 : x[j] = y[j]
  PROVE  S!Lexicographic(x, y) = S!Sign(x[i], y[i])
<1> DEFINE Before(k) == SubSeq(x, 1, k - 1) = SubSeq(y, 1, k - 1) /\ x[k] < y[k]
<1>1. \A k \in DOMAIN x \cap DOMAIN y :
        k \in Nat \ {0} /\ k <= Len(x) /\ k <= Len(y) /\ x[k] \in Nat /\ y[k] \in Nat
  OBVIOUS
<1>2. i \in DOMAIN x \cap DOMAIN y /\ x # y
  OBVIOUS
<1>3. ~S!IsStrictPrefix(x, y)
  <2> SUFFICES ASSUME Len(x) <= Len(y), SubSeq(x, 1, Len(x)) = SubSeq(y, 1, Len(x)) PROVE FALSE
    BY DEF S!IsStrictPrefix, S!IsPrefix
  <2>1. \A j \in 1..Len(x) : x[j] = y[j]
    BY EqualBeginnings
  <2> QED
    BY <2>1
<1>4. ASSUME NEW k \in DOMAIN x \cap DOMAIN y, Before(k) PROVE k = i
  <2>1. \A j \in 1..k - 1 : x[j] = y[j]
    <3>1. k - 1 \in Nat /\ k - 1 <= Len(x) /\ k - 1 <= Len(y)
      BY <1>1, SMTT(30)
    <3> QED
      BY <1>4, <3>1, EqualBeginnings
  <2>2. ~(i < k)
    BY <1>1, <2>1
  <2>3. ~(k < i)
    <3>1. x[k] # y[k]
      BY <1>1, <1>4
    <3> QED
      BY <1>1, <3>1
  <2> QED
    BY <1>1, <2>2, <2>3
<1>5. SubSeq(x, 1, i - 1) = SubSeq(y, 1, i - 1)
  <2>1. i - 1 \in Nat /\ i - 1 <= Len(x) /\ i - 1 <= Len(y)
    OBVIOUS
  <2> QED
    BY <2>1, EqualBeginnings
<1>6. (\E k \in DOMAIN x \cap DOMAIN y : Before(k)) <=> x[i] < y[i]
  BY <1>2, <1>4, <1>5
<1>7. S!Lexicographic(x, y) = IF \E k \in DOMAIN x \cap DOMAIN y : Before(k) THEN -1 ELSE 1
  BY <1>2, <1>3 DEF S!Lexicographic
<1>8. x[i] \in Nat /\ y[i] \in Nat
  BY <1>1, <1>2
<1> HIDE DEF Before
<1> QED
  BY <1>6, <1>7, <1>8 DEF S!Sign

\* or by their lengths if there is none.
LEMMA LexicographicPrefix ==
  ASSUME NEW x \in Seq(Nat), NEW y \in Seq(Nat), \A j \in DOMAIN x \cap DOMAIN y : x[j] = y[j]
  PROVE  S!Lexicographic(x, y) = S!Sign(Len(x), Len(y))
<1>1. \A k \in DOMAIN x \cap DOMAIN y : ~(x[k] < y[k])
  OBVIOUS
<1>2. CASE Len(x) = Len(y)
  <2>1. ASSUME NEW j \in 1..Len(x) PROVE x[j] = y[j]
    <3>1. j \in DOMAIN x \cap DOMAIN y
      BY <1>2
    <3> QED
      BY <3>1
  <2>2. x = y
    BY <1>2, <2>1, SeqEqual
  <2> QED
    BY <1>2, <2>2 DEF S!Lexicographic, S!Sign
<1>3. CASE Len(x) < Len(y)
  <2>1. \A j \in 1..Len(x) : x[j] = y[j]
    BY <1>3
  <2>2. SubSeq(x, 1, Len(x)) = SubSeq(y, 1, Len(x))
    BY <1>3, <2>1, EqualBeginnings
  <2>3. x # y
    BY <1>3
  <2>4. S!IsStrictPrefix(x, y)
    BY <1>3, <2>2, <2>3 DEF S!IsStrictPrefix, S!IsPrefix
  <2> QED
    BY <1>3, <2>3, <2>4 DEF S!Lexicographic, S!Sign
<1>4. CASE Len(y) < Len(x)
  <2>1. x # y /\ ~(Len(x) <= Len(y)) /\ ~(Len(x) < Len(y))
    BY <1>4
  <2>2. ~S!IsStrictPrefix(x, y)
    BY <2>1 DEF S!IsStrictPrefix, S!IsPrefix
  <2> QED
    BY <1>1, <1>4, <2>1, <2>2 DEF S!Lexicographic, S!Sign
<1> QED
  BY <1>2, <1>3, <1>4

\* operator<=> finds that place, or compares the windows.
LEMMA CompareIsLexicographic ==
  ASSUME SliceInv, NEW s \in Windows, NEW t \in Windows, S!FromStart(s), S!FromStart(t)
  PROVE  S!Compare(slot[s], slot[t]) = S!Lexicographic(S!Bytes(s), S!Bytes(t))
<1> DEFINE v == slot[s]
           w == slot[t]
           n == IF v.sz < w.sz THEN v.sz ELSE w.sz
           a == S!data(v, n)
           b == S!data(w, n)
           differs == {i \in 1..n : a[i] # b[i]}
           first == CHOOSE i \in differs : \A j \in differs : i <= j
           x == S!Bytes(s)
           y == S!Bytes(t)
<1>1. S!Compare(v, w) = IF differs # {} THEN S!Sign(a[first], b[first]) ELSE S!CompareWindows(v, w)
  BY DEF S!Compare
<1>2. v.sz \in Nat /\ w.sz \in Nat /\ v.offset = 0 /\ w.offset = 0
  BY Within DEF Slice, S!FromStart
<1>3. n \in Nat /\ n \in 0..v.sz /\ n \in 0..w.sz
  BY <1>2
<1>4. x \in Seq(Nat) /\ Len(x) = v.sz /\ y \in Seq(Nat) /\ Len(y) = w.sz
  BY BytesAreASequence DEF S!FromStart
<1>5. \A i \in 1..n : a[i] = x[i] /\ b[i] = y[i]
  BY <1>3, StartsWithItsBytes
<1>6. S!CompareWindows(v, w) = S!Sign(Len(x), Len(y))
  BY <1>2, <1>4 DEF S!CompareWindows
<1>7. DOMAIN x \cap DOMAIN y = 1..n
  BY <1>2, <1>4, SMTT(30)
<1>8. differs = {i \in 1..n : x[i] # y[i]} /\ differs \in SUBSET Nat
  BY <1>3, <1>5
<1> HIDE DEF v, w, n, a, b, differs, x, y
<1>9. CASE differs = {}
  <2>1. \A j \in DOMAIN x \cap DOMAIN y : x[j] = y[j]
    BY <1>7, <1>8, <1>9
  <2>2. S!Lexicographic(x, y) = S!Sign(Len(x), Len(y))
    BY <1>4, <2>1, LexicographicPrefix
  <2> QED
    BY <1>1, <1>6, <1>9, <2>2 DEF v, w, x, y
<1>10. CASE differs # {}
  <2>1. first \in differs /\ \A j \in differs : first <= j
    <3>1. \E i \in differs : \A j \in differs : i <= j
      BY <1>8, <1>10, LeastOf
    <3> QED
      BY <3>1
  <2> HIDE DEF first
  <2>2. first \in 1..n /\ x[first] # y[first]
    BY <1>8, <2>1
  <2>3. first \in Nat \ {0} /\ first <= Len(x) /\ first <= Len(y)
    BY <1>3, <1>4, <2>2
  <2>4. \A j \in 1..first - 1 : x[j] = y[j]
    BY <1>3, <1>8, <2>1, <2>2
  <2>5. S!Lexicographic(x, y) = S!Sign(x[first], y[first])
    BY <1>4, <2>2, <2>3, <2>4, LexicographicAt
  <2>6. a[first] = x[first] /\ b[first] = y[first]
    BY <1>5, <2>2
  <2> QED
    BY <1>1, <1>10, <2>5, <2>6 DEF v, w, x, y
<1> QED
  BY <1>9, <1>10

\* Edits within a slice show in it, and slices from the start of their buffers are compared and joined as their bytes are.
THEOREM SlicesAreTheirBytes == S!Spec => SlicesActAsBytes
<1>1. SliceInv => S!ComparesBytes
  BY CompareIsLexicographic DEF S!ComparesBytes
<1>2. SliceInv /\ [S!Next]_(S!vars) =>
        [\A t \in within, i \in Offsets :
           heap' # heap /\ i < slot[t].sz /\ S!Edit(t, i) => S!Bytes(t)' # S!Bytes(t)]_(S!vars)
  BY EditShows
<1>3. SliceInv /\ [S!Next]_(S!vars) =>
        [\A s, t, u \in Windows :
           S!FromStart(t) /\ S!FromStart(u) /\ S!Concat(s, t, u) => S!Bytes(s)' = S!Bytes(t) \o S!Bytes(u)]_(S!vars)
  BY ConcatShows
<1> QED
  BY <1>1, <1>2, <1>3, SliceInvHolds, PTL DEF S!Spec, SlicesActAsBytes, S!EditsAreSeen, S!ConcatsBytes
=============================================================================
