------------------------------- MODULE Base32 -------------------------------
(***************************************************************************)
(* The strings of hashes: encode32, decode32 and Parse.  Bytes and         *)
(* characters are numbers (ASCII); a buffer and a string are sequences.    *)
(***************************************************************************)
EXTENDS Integers, SequencesExt

CONSTANTS
  Inputs,   \* the buffers that are encoded
  Typos,    \* the characters that replace one of a string
  ByteLen,  \* the length of a hash, in bytes
  Thrown    \* an exception, or no hash

Byte == 0..255
StringLen == (ByteLen * 8) \div 5

\* Assumed of the instances.
Base32Assumption ==
  /\ Inputs \subseteq Seq(Byte)
  /\ Typos \subseteq 0..127
  /\ ByteLen \in Nat \ {0} /\ ByteLen % 5 = 0
  /\ Thrown \notin Nat \cup Seq(Nat)

VARIABLES
  bytes,  \* the buffer encoded, of the size that is decoded into
  text,   \* a string: what encode32 returned, with errors made since
  decoded, parsed  \* what decode32 and Parse last made of it

vars == <<bytes, text, decoded, parsed>>

Init == bytes \in Inputs /\ text = Thrown /\ decoded = Thrown /\ parsed = Thrown
-----------------------------------------------------------------------------
\* '0'..'9', 'a'..'v'.
alphabet == [v \in 0..31 |-> IF v < 10 THEN 48 + v ELSE 87 + v]

\* A character is ten more than a digit's distance from 'a': not only 'a'..'v' are less than 32.
CharToValue(c) == IF c \in 48..57 THEN c - 48 ELSE IF c - 87 \in 0..31 THEN c - 87 ELSE Thrown

\* Five bytes are eight values of five bits.  Mutation: a mask that keeps one bit too few.
EncodeGroupShort(d) ==
  << d[1] \div 8, (d[1] % 8) * 4 + d[2] \div 64, (d[2] \div 2) % 32, d[3] \div 16,
     (d[3] % 16) * 2 + d[4] \div 128, (d[4] \div 4) % 32, (d[4] % 4) * 8 + d[5] \div 32, d[5] % 32 >>
EncodeGroup(d) ==
  << d[1] \div 8, (d[1] % 8) * 4 + d[2] \div 64, (d[2] \div 2) % 32, (d[2] % 2) * 16 + d[3] \div 16,
     (d[3] % 16) * 2 + d[4] \div 128, (d[4] \div 4) % 32, (d[4] % 4) * 8 + d[5] \div 32, d[5] % 32 >>

\* Bits shifted out of a char are lost.  Mutation: the last of five bytes misses its first bits.
Shl(v, k) == (v * 2 ^ k) % 256
DecodeGroupShort(v) ==
  << Shl(v[1], 3) + v[2] \div 4, Shl(v[2], 6) + Shl(v[3], 1) + v[4] \div 16, Shl(v[4], 4) + v[5] \div 2,
     Shl(v[5], 7) + Shl(v[6], 2) + v[7] \div 8, v[8] >>
DecodeGroup(v) ==
  << Shl(v[1], 3) + v[2] \div 4, Shl(v[2], 6) + Shl(v[3], 1) + v[4] \div 16, Shl(v[4], 4) + v[5] \div 2,
     Shl(v[5], 7) + Shl(v[6], 2) + v[7] \div 8, Shl(v[7], 5) + v[8] >>

\* The groups of n of a sequence, each mapped by f.
Groups(s, n) == [g \in 1..Len(s) \div n |-> SubSeq(s, n * (g - 1) + 1, n * g)]

Encode32(d) ==
  IF Len(d) % 5 # 0 THEN Thrown
  ELSE LET values == FlattenSeq([g \in DOMAIN Groups(d, 5) |-> EncodeGroup(Groups(d, 5)[g])])
       IN  [i \in DOMAIN values |-> alphabet[values[i]]]

Decode32(s, size) ==
  LET values == [i \in DOMAIN s |-> CharToValue(s[i])] IN
  IF (Len(s) * 5) % 8 # 0 \/ size * 8 # Len(s) * 5 \/ \E i \in DOMAIN s : values[i] = Thrown THEN Thrown
  ELSE FlattenSeq([g \in DOMAIN Groups(values, 8) |-> DecodeGroup(Groups(values, 8)[g])])

\* The regular expression that Parse tries first.  Mutation: without the length.
InAlphabet(s) == \A i \in DOMAIN s : s[i] \in 48..57 \cup 97..118
AnyLength(s) == InAlphabet(s)
HashPattern(s) == InAlphabet(s) /\ Len(s) = StringLen
MaybeParse(s) == IF HashPattern(s) THEN Decode32(s, ByteLen) ELSE Thrown

Encode ==
  /\ text = Thrown
  /\ text' = Encode32(bytes)
  /\ UNCHANGED <<bytes, decoded, parsed>>

Decode ==
  /\ text # Thrown
  /\ decoded' = Decode32(text, Len(bytes)) /\ parsed' = MaybeParse(text)
  /\ UNCHANGED <<bytes, text>>

\* One error in the string Encode has made, of a character or of its length.
Err ==
  /\ text # Thrown /\ text = Encode32(bytes)
  /\ \/ \E i \in DOMAIN text, c \in Typos : text' = [text EXCEPT ![i] = c]
     \/ text' = Front(text) \/ text' = Append(text, 48)
  /\ decoded' = Thrown /\ parsed' = Thrown
  /\ UNCHANGED bytes

Next == Encode \/ Decode \/ Err
Spec == Init /\ [][Next]_vars
-----------------------------------------------------------------------------
\* Bit k of a number of that width, the most significant first.
Bit(x, width, k) == (x \div 2 ^ (width - k)) % 2
Bits(s, width) == FlattenSeq([i \in DOMAIN s |-> [k \in 1..width |-> Bit(s[i], width, k)]])
Values(s) == [i \in DOMAIN s |-> CHOOSE v \in 0..31 : alphabet[v] = s[i]]

(***************************************************************************)
(* A string holds the bits of its bytes, five to a character, the most     *)
(* significant first, whatever the signs of the chars (lines 18 to 27).    *)
(***************************************************************************)
EncodesBits == text # Thrown /\ text = Encode32(bytes) => Bits(Values(text), 5) = Bits(bytes, 8)

(***************************************************************************)
(* Whatever decode32 or Parse reads from a string of the alphabet is       *)
(* encoded as that string again, and the bytes a string was encoded from   *)
(* come back (hash_test.cc:189).  (Ten other characters are digits, too:   *)
(* 'W' to '`', by hash.cpp:33.)                                            *)
(***************************************************************************)
RoundTrip ==
  /\ decoded # Thrown /\ InAlphabet(text) => Encode32(decoded) = text
  /\ decoded # Thrown /\ text = Encode32(bytes) => decoded = bytes

(***************************************************************************)
(* Parse makes a hash of exactly the strings of the alphabet that are as   *)
(* long as a hash's (hash_test.cc:150 to 154); none gets as far as an      *)
(* exception of decode32.                                                  *)
(***************************************************************************)
ParsesHashes ==
  /\ parsed # Thrown => InAlphabet(text) /\ Len(text) = StringLen /\ Encode32(parsed) = text
  /\ text # Thrown /\ HashPattern(text) => MaybeParse(text) # Thrown
=============================================================================
