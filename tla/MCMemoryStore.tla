--------------------------- MODULE MCMemoryStore ---------------------------
(* Instances of MemoryStore for TLC: chunks whose hashes also serve as roots. *)
EXTENDS MemoryStoreProps, TLC

CONSTANTS t1, t2, v1, v2, c1, c2, h0, h1, h2

MCThread == {t1, t2}
MCView   == {v1, v2}
MCView1  == {v1}
MCHash   == {h0, h1, h2}
MCChunk  == {c1, c2}
MCHashOf == c1 :> h1 @@ c2 :> h2

\* One chunk, for the temporal properties.
MCHash1   == {h0, h1}
MCChunk1  == {c1}
MCHashOf1 == c1 :> h1

Writers     == {"put", "rebase", "commit"}
Readers     == {"put", "read", "commit", "absent"}
Blocking    == {"put", "absent"}

\* get, has and getMany of everything.
MCRequests  == {{h1}, {h1, h2}}
MCRequests1 == {{h1}, MCHash1}

\* Two roots, so that one can be left and come back to.
MCRoots == {h1, h2}

\* Threads and views are interchangeable.
Interchangeable == Permutations(MCThread) \cup Permutations(MCView)
=============================================================================
