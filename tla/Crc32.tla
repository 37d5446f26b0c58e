-------------------------------- MODULE Crc32 --------------------------------
(***************************************************************************)
(* crc32, and what it is for: telling whether the bytes received are those *)
(* sent.  A word is the set of the bits that are 1 in it.                  *)
(***************************************************************************)
EXTENDS Integers, SequencesExt, FiniteSetsExt

CONSTANTS
  Bytes,  \* the bytes that are sent
  Errors, \* the bits of a byte that may change
  Length  \* bound: how many bytes are sent

\* Assumed of the instances.
Crc32Assumption == Bytes \subseteq SUBSET (0..7) /\ Errors \subseteq SUBSET (0..7) /\ Length \in Nat

VARIABLES
  sent, received,       \* the bytes
  crcSent, crcReceived  \* the variable crc of a loop over each

vars == <<sent, received, crcSent, crcReceived>>

Xor(x, y) == (x \ y) \cup (y \ x)
Ones == 0..31
Init == sent = <<>> /\ received = <<>> /\ crcSent = Ones /\ crcReceived = Ones
-----------------------------------------------------------------------------
\* 0xEDB88320.  Mutation: a digit is wrong.
PolynomialWrong == {5, 8, 9, 15, 19, 20, 21, 23, 24, 26, 27, 29, 30}
Polynomial == {5, 8, 9, 15, 19, 20, 21, 23, 24, 26, 27, 29, 30, 31}

\* crc >> 1.
Shr(crc) == {i - 1 : i \in crc \ {0}}

\* One turn of the inner loop.  Mutation: = for ^=, so what was shifted is lost.
BitLost(crc) == IF 0 \in crc THEN Polynomial ELSE Shr(crc)
Bit(crc) == IF 0 \in crc THEN Xor(Shr(crc), Polynomial) ELSE Shr(crc)

\* One turn of the outer loop.
Absorb(crc, b) == FoldLeft(LAMBDA c, j : Bit(c), Xor(crc, b), [j \in 1..8 |-> j])

Send(b, e) ==
  /\ Len(sent) < Length
  /\ sent' = Append(sent, b) /\ received' = Append(received, Xor(b, e))
  /\ crcSent' = Absorb(crcSent, b) /\ crcReceived' = Absorb(crcReceived, Xor(b, e))

Next == \E b \in Bytes, e \in Errors : Send(b, e)
Spec == Init /\ [][Next]_vars

\* The value returned: ~crc.
Result(crc) == Ones \ crc
-----------------------------------------------------------------------------
\* The reference: polynomials over the bits, the lowest bit of a byte first.
Degree == 32
Generator == {0, 1, 2, 4, 5, 7, 8, 10, 11, 12, 16, 22, 23, 26, 32}
Times(p, n) == {e + n : e \in p}
Remainder(p) ==
  LET division[q \in SUBSET (0..8 * Length + 31)] ==
        IF q = {} \/ Max(q) < Degree THEN q ELSE division[Xor(q, Times(Generator, Max(q) - Degree))]
  IN  division[p]
Exponents(s) == UNION {{8 * (Len(s) - i) + 7 - k : k \in s[i]} : i \in DOMAIN s}

(***************************************************************************)
(* crc32 is the remainder that the standard polynomial leaves, with its    *)
(* first and its last 32 bits inverted.                                    *)
(***************************************************************************)
IsRemainder ==
  LET p == Xor(Times(Exponents(sent), Degree), Times(0..31, 8 * Len(sent)))
  IN  Result(crcSent) = Ones \ {31 - e : e \in Remainder(p)}

(***************************************************************************)
(* Any error within 32 neighbouring bits is noticed.                       *)
(***************************************************************************)
Burst(d) == d # {} /\ Max(d) - Min(d) < 32
NoticesBursts ==
  LET d == Xor(Exponents(sent), Exponents(received))
  IN  Burst(d) => Result(crcSent) # Result(crcReceived)
=============================================================================
