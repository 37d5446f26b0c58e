------------------------------ MODULE MCFormats ------------------------------
(***************************************************************************)
(* What is written and read back: tables, compressed data, chunks in a     *)
(* stream, the strings of hashes, numbers and checksums.  Each is checked  *)
(* by itself: a behaviour is of one part, and the others stay as they were *)
(* at the start.                                                           *)
(***************************************************************************)
EXTENDS Formats, TLC

CONSTANTS h1, h2, h3, s0, s2, s5

\* Of three addresses two share a prefix, and two a suffix.
MCHash     == {h1, h2, h3}
MCPrefix   == h1 :> 7 @@ h2 :> 3 @@ h3 :> 3
MCSuffixOf == h1 :> "s" @@ h2 :> "s" @@ h3 :> "t"
\* The shortest output, and the longest; sources of every size around a boundary, up to twice the
\* word of an int.
MCOutputs  == [s \in 0..600 |-> {1, s + s \div 255 + Overhead}]
MCSources  == 0..2 \cup 599..601 \cup 1999..2001 \cup 3999..4001 \cup 4599..4601 \cup 5999..6001 \cup 7999..8001

\* An empty chunk and two others, one longer than a length field.
MCStreamChunks == {s0, s2, s5}
MCChunkSize    == s0 :> 0 @@ s2 :> 2 @@ s5 :> 5

\* Groups of bytes at the ends of their range, two groups, and no whole group; in a string
\* the neighbours of the alphabet's ranges, and what maps into 0..31 besides.
MCInputs == [1..5 -> {0, 129, 255}] \cup [1..10 -> {90, 165}] \cup {<<7>>}

\* Errors that join or not with those of the next byte: bursts up to 32 bits, and longer ones.
MCSentBytes == {{}, {0, 3, 4, 7}}
MCErrors    == {{}, {0}, {2, 7}}

VARIABLE part \* which of them the behaviour is of

MCInit ==
  /\ part \in {"table", "compression", "stream", "string", "binary", "sum"}
  /\ Init /\ Streams!Init /\ Binary!Init /\ Sums!Init
  /\ Packing!Init /\ (part # "compression" => size = 0)
  /\ Strings!Init /\ (part # "string" => bytes = <<7>>)
MCNext ==
  /\ part' = part
  /\ \/ part = "table" /\ Next
        /\ UNCHANGED <<compressionVars, streamVars, stringVars, binaryVars, sumVars>>
     \/ part = "compression" /\ Packing!Next
        /\ UNCHANGED <<vars, streamVars, stringVars, binaryVars, sumVars>>
     \/ part = "stream" /\ Streams!Next
        /\ UNCHANGED <<vars, compressionVars, stringVars, binaryVars, sumVars>>
     \/ part = "string" /\ Strings!Next
        /\ UNCHANGED <<vars, compressionVars, streamVars, binaryVars, sumVars>>
     \/ part = "binary" /\ Binary!Next
        /\ UNCHANGED <<vars, compressionVars, streamVars, stringVars, sumVars>>
     \/ part = "sum" /\ Sums!Next
        /\ UNCHANGED <<vars, compressionVars, streamVars, stringVars, binaryVars>>
MCSpec == MCInit /\ [][MCNext]_<<part, vars, compressionVars, streamVars, stringVars, binaryVars, sumVars>>
=============================================================================
