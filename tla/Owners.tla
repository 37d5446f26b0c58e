-------------------------------- MODULE Owners --------------------------------
(***************************************************************************)
(* Who owns what: counted pointers, proxies, and hashes with their arrays, *)
(* side by side.  They share no state.                                     *)
(***************************************************************************)
EXTENDS CompactPtr

\* Of Proxy and of Hash; Null is a pointer that has been moved from in both.
CONSTANTS
  Proxies, Temp, Objects, Values, InPlace, Heap, MoveThrows, None, Null, Moved,
  Hashes, Arrays, ByteLen, ByteWord, Nil

VARIABLES
  mem, want,                          \* of Proxy
  data, live, content, value, lost, down \* of Hash

P == INSTANCE Proxy
H == INSTANCE Hash

\* There is a place for the object of every proxy, for that of the temporary and for a new one.
ASSUME ProxyAssumption ==
  /\ P!ProxyAssumption
  /\ IsFiniteSet(Proxies) /\ IsFiniteSet(Objects)
  /\ Cardinality(Objects) >= Cardinality(Proxies) + 2
ASSUME HashAssumption == H!HashAssumption

proxyVars == <<mem, want>>
hashVars == <<data, live, content, value, lost, down>>
-----------------------------------------------------------------------------
\* Every object has one proxy, whatever was moved, swapped or could not be constructed, and is
\* destroyed once, after its last use (proxy.h:936-1064).
ProxiesOwnTheirObjects == P!OneProxyPerObject /\ P!DestroyedOnce
\* A proxy is worth what it was given, or what it was worth before an operation that threw; only a move
\* that throws loses values, those of the proxies it moves (proxy.h:950-1078).
WorthWhatItWasGiven == P!WorthWhatItWasGiven
\* Hashes are values: each has an array of its own, with the bytes it was given, but one that was moved
\* from, at which alone the program may end; only a move assignment leaks an array; and operator<
\* orders them (hash.h:68-123).
HashesAreValues ==
  H!OneOwner /\ H!ValuesAreKept /\ H!OnlyMoveAssignmentLeaks /\ H!OnlyMovedFromHashesFail /\ H!LessIsAnOrder
=============================================================================
