--------------------------------- MODULE Lz4 ---------------------------------
(***************************************************************************)
(* The sizes the LZ4 library and the code around it work with.  The code   *)
(* counts bytes in 64 bits and hands them to the library as ints.          *)
(***************************************************************************)
EXTENDS Integers

CONSTANTS
  IntWord,     \* 2^32, the width of an int
  MaxInput,    \* LZ4_MAX_INPUT_SIZE, 0x7E000000
  Overhead,    \* what incompressible bytes grow by, beside one byte for each 255
  Outputs      \* the lengths n bytes may be compressed to

Worst(n) == n + n \div 255 + Overhead

\* The library promises that no output is longer than LZ4_compressBound says.
ASSUME Lz4Assumption ==
  /\ IntWord \in Nat \ {0}
  /\ MaxInput \in Nat
  /\ Overhead \in 1..16
  /\ \A n \in 0..MaxInput : Outputs[n] \subseteq 1..Worst(n)
  /\ 2 * (MaxInput + MaxInput \div 255 + 16) < IntWord

\* A size_t passed as an int.
ToInt(n) == LET u == n % IntWord IN IF 2 * u < IntWord THEN u ELSE u - IntWord

LZ4_compressBound(n) == IF n < 0 \/ n > MaxInput THEN 0 ELSE n + n \div 255 + 16

\* LZ4_compress_default: a length, or 0 for a size it refuses and for an output that
\* does not fit.
LZ4_compress_default(n, capacity) ==
  IF n < 0 \/ n > MaxInput \/ capacity <= 0 THEN {0}
  ELSE {IF c <= capacity THEN c ELSE 0 : c \in Outputs[n]}

\* LZ4_decompress_safe, of an output of LZ4 that stands for n bytes.
LZ4_decompress_safe(n, capacity) == IF n <= capacity THEN n ELSE 0 - 1
=============================================================================
