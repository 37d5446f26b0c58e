------------------------------ MODULE BigEndian ------------------------------
(***************************************************************************)
(* The fixed-width numbers of the file formats.  One caller writes numbers *)
(* to a file through a writer, overwrites some in place, and then reads    *)
(* them back, in the widths they were written in.  The writer takes what   *)
(* it has room for; what it says of that is ignored.                       *)
(***************************************************************************)
EXTENDS Integers, SequencesExt, FiniteSetsExt

CONSTANTS
  ByteWord,  \* how many values a byte has: 256
  Widths,    \* of the numbers, in bytes: 2, 4 and 8
  Space,     \* what the writer has room for
  Length     \* bound: the bytes that are written

\* Assumed of the instances.
BigEndianAssumption ==
  ByteWord \in Nat \ {0, 1} /\ Widths \subseteq Nat \ {0} /\ Space \in Nat /\ Length \in Nat

VARIABLES
  file,    \* the bytes the writer has taken
  given,   \* the numbers written, with their widths
  reader,  \* where the reader is
  numbers, \* the numbers read
  thrown   \* a read has failed

vars == <<file, given, reader, numbers, thrown>>

Init == file = <<>> /\ given = <<>> /\ reader = 0 /\ numbers = <<>> /\ thrown = FALSE
-----------------------------------------------------------------------------
\* ByteWord to the k.
Power[k \in Nat] == IF k = 0 THEN 1 ELSE ByteWord * Power[k - 1]

Numbers(n) == 0..Power[n] - 1
Rest(i) == SubSeq(file, i + 1, Len(file))

\* Byte i of n of a number.  Mutation: the lowest byte first.
ByteOfLittle(v, i, n) == (v \div Power[i - 1]) % ByteWord
ByteOf(v, i, n) == (v \div Power[n - i]) % ByteWord

\* writeUint64, writeUint32 and writeUint16 to a span; without room they throw.
Fits(buf, n) == Len(buf) >= n
WriteUint(buf, n, v) == [i \in DOMAIN buf |-> IF i <= n THEN ByteOf(v, i, n) ELSE buf[i]]

\* uint64, uint32, uint16: each byte shifted to its place.
Sum(s) == FoldLeft(LAMBDA x, y : x + y, 0, s)
Uint(buf, n) == Sum([i \in 1..n |-> buf[i] * Power[n - i]])

\* The bytes of some numbers together; where number k starts.
Total(s) == Sum([i \in DOMAIN s |-> s[i][1]])
Starts(k) == Total(SubSeq(given, 1, k - 1))

\* What the writer takes of n bytes.
Taken(n) == Min({n, Space - Len(file)})

\* ... to a writer: n bytes, whether it takes them or not.
Write(n, v) ==
  /\ numbers = <<>> /\ ~thrown
  /\ Total(given) + n <= Length
  /\ file' = file \o SubSeq(WriteUint([i \in 1..n |-> 0], n, v), 1, Taken(n))
  /\ given' = Append(given, <<n, v>>)
  /\ UNCHANGED <<reader, numbers, thrown>>

\* ... over a number already written, to the span from where it starts.
Overwrite(k, v) ==
  LET n == given[k][1] i == Starts(k) IN
  /\ numbers = <<>> /\ ~thrown
  /\ Fits(Rest(i), n)
  /\ file' = SubSeq(file, 1, i) \o WriteUint(Rest(i), n, v)
  /\ given' = [given EXCEPT ![k][2] = v]
  /\ UNCHANGED <<reader, numbers, thrown>>

\* readUint64, readUint32, readUint16.  Mutation: a short read is not noticed.
EnoughForOne(n) == Fits(Rest(reader), 1)
Enough(n) == Fits(Rest(reader), n)
Read ==
  LET n == given[Len(numbers) + 1][1] IN
  /\ Len(numbers) < Len(given) /\ ~thrown
  /\ IF Enough(n)
     THEN numbers' = Append(numbers, Uint(Rest(reader) \o [i \in 1..n |-> 0], n)) /\ UNCHANGED thrown
     ELSE thrown' = TRUE /\ UNCHANGED numbers
  /\ reader' = Min({reader + n, Len(file)})
  /\ UNCHANGED <<file, given>>

Next ==
  \/ \E n \in Widths : \E v \in Numbers(n) : Write(n, v)
  \/ \E k \in DOMAIN given : \E v \in Numbers(given[k][1]) : Overwrite(k, v)
  \/ Read

Spec == Init /\ [][Next]_vars
-----------------------------------------------------------------------------
(***************************************************************************)
(* Numbers of mixed widths come back as they were written, and never       *)
(* something else: where the writer ran out of room reading throws, and    *)
(* only there.                                                             *)
(***************************************************************************)
ReadsBack ==
  /\ \A k \in DOMAIN numbers : numbers[k] = given[k][2]
  /\ thrown <=> reader < Starts(Len(numbers) + IF thrown THEN 2 ELSE 1)

(***************************************************************************)
(* Two numbers of one width are ordered as their bytes are: a file sorted  *)
(* by its numbers is sorted by its bytes.                                  *)
(***************************************************************************)
BytesBefore(x, y) == \E i \in DOMAIN x : x[i] < y[i] /\ \A j \in 1..i - 1 : x[j] = y[j]
OrderIsOfBytes ==
  \A k, l \in DOMAIN given :
    given[k][1] = given[l][1] /\ Starts(k) + given[k][1] <= Len(file) /\ Starts(l) + given[l][1] <= Len(file) =>
      LET n == given[k][1] IN
      given[k][2] < given[l][2] <=> BytesBefore(SubSeq(Rest(Starts(k)), 1, n), SubSeq(Rest(Starts(l)), 1, n))
=============================================================================
