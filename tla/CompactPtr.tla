------------------------------ MODULE CompactPtr ------------------------------
(***************************************************************************)
(* The pointers behind shared proxies, to one object in one storage: the   *)
(* strong and weak pointers of facades with weak ownership, and the shared *)
(* pointer of the others, which has a strong count only.  Every atomic     *)
(* operation is a step.  As the standard asks of any object, a pointer is  *)
(* not destroyed or moved from while another thread uses it.               *)
(***************************************************************************)
EXTENDS Naturals, FiniteSets

CONSTANTS
  Ptrs,  \* variables of the threads that may hold a pointer
  Weak   \* whether the facade supports weak ownership

ASSUME CompactPtrAssumption == IsFiniteSet(Ptrs) /\ Weak \in BOOLEAN

VARIABLES
  st,      \* what each variable is: gone, null, strong, weak, or at which step of an operation
  src,     \* the weak pointer that is being locked for a variable
  seen,    \* the count its lock has read
  strong,  \* strong_count, or ref_count
  weak,    \* weak_count; without weak ownership it only notes that there are strong pointers
  alive,   \* whether the object has not been destroyed
  stored   \* whether the storage has not been deallocated

vars == <<st, src, seen, strong, weak, alive, stored>>

States == {"gone", "null", "strong", "weak", "last", "dropping", "freeing", "locking"}
In(s) == {p \in Ptrs : st[p] = s}

Init ==
  /\ \E p \in Ptrs : st = [q \in Ptrs |-> IF q = p THEN "strong" ELSE "gone"]
  /\ src = [p \in Ptrs |-> p]
  /\ seen = [p \in Ptrs |-> 0]
  /\ strong = 1 /\ weak = 1 /\ alive = TRUE /\ stored = TRUE
-----------------------------------------------------------------------------
Goes(p, s) == st' = [st EXCEPT ![p] = s]
Used(q) == \E p \in Ptrs : st[p] = "locking" /\ src[p] = q

\* The copy of a pointer that was moved from counts nothing.
CopyNull(p, q) ==
  /\ st[p] = "gone" /\ st[q] = "null"
  /\ Goes(p, "null")
  /\ UNCHANGED <<src, seen, strong, weak, alive, stored>>

Copy(p, q) ==
  /\ st[p] = "gone" /\ st[q] = "strong"
  /\ Goes(p, "strong")
  /\ strong' = strong + 1
  /\ UNCHANGED <<src, seen, weak, alive, stored>>

\* Mutation: the weak pointer is not counted.
WeakenUncounted(p, q) ==
  /\ Weak /\ st[p] = "gone" /\ st[q] \in {"strong", "weak"} /\ Goes(p, "weak")
  /\ UNCHANGED <<src, seen, strong, weak, alive, stored>>
\* A weak pointer from a strong or from a weak one.
Weaken(p, q) ==
  /\ Weak
  /\ st[p] = "gone" /\ st[q] \in {"strong", "weak"}
  /\ Goes(p, "weak")
  /\ weak' = weak + 1
  /\ UNCHANGED <<src, seen, strong, alive, stored>>

Move(p, q) ==
  /\ st[p] = "gone" /\ st[q] \in {"null", "strong", "weak"} /\ ~Used(q)
  /\ st' = [st EXCEPT ![p] = st[q], ![q] = "null"]
  /\ UNCHANGED <<src, seen, strong, weak, alive, stored>>

DestroyNull(p) ==
  /\ st[p] = "null"
  /\ Goes(p, "gone")
  /\ UNCHANGED <<src, seen, strong, weak, alive, stored>>

\* ~strong_compact_ptr: fetch_sub, and for the last one the object, then the count of weak pointers.
\* Mutation: every pointer that finds the count at two or less is the last.
ReleaseTwice(p) ==
  /\ st[p] = "strong" /\ Goes(p, IF strong <= 2 THEN "last" ELSE "gone") /\ strong' = strong - 1
  /\ UNCHANGED <<src, seen, weak, alive, stored>>
Release(p) ==
  /\ st[p] = "strong"
  /\ Goes(p, IF strong = 1 THEN "last" ELSE "gone")
  /\ strong' = strong - 1
  /\ UNCHANGED <<src, seen, weak, alive, stored>>

\* Mutation: only the object goes.
DestroyOnlyObject(p) ==
  /\ st[p] = "last" /\ Goes(p, IF Weak THEN "dropping" ELSE "gone") /\ alive' = FALSE
  /\ weak' = weak /\ UNCHANGED <<src, seen, strong, stored>>
\* Without weak pointers the storage goes with the object.
DestroyObject(p) ==
  /\ st[p] = "last"
  /\ Goes(p, IF Weak THEN "dropping" ELSE "freeing")
  /\ alive' = FALSE
  /\ weak' = IF Weak THEN weak ELSE 0
  /\ UNCHANGED <<src, seen, strong, stored>>

\* Mutation: it leaves the storage to the weak pointers, though none may be left.
DropLeaves(p) ==
  /\ st[p] = "dropping" /\ Goes(p, "gone") /\ weak' = weak - 1
  /\ UNCHANGED <<src, seen, strong, alive, stored>>
Drop(p) ==
  /\ st[p] = "dropping"
  /\ Goes(p, IF weak = 1 THEN "freeing" ELSE "gone")
  /\ weak' = weak - 1
  /\ UNCHANGED <<src, seen, strong, alive, stored>>

\* ~weak_compact_ptr
ReleaseWeak(p) ==
  /\ st[p] = "weak" /\ ~Used(p)
  /\ Goes(p, IF weak = 1 THEN "freeing" ELSE "gone")
  /\ weak' = weak - 1
  /\ UNCHANGED <<src, seen, strong, alive, stored>>

Free(p) ==
  /\ st[p] = "freeing"
  /\ Goes(p, "gone")
  /\ stored' = FALSE
  /\ UNCHANGED <<src, seen, strong, weak, alive>>

\* lock(): the count is read once before the loop.
LockLoad(p, q) ==
  /\ st[p] = "gone" /\ st[q] = "weak"
  /\ Goes(p, "locking")
  /\ src' = [src EXCEPT ![p] = q]
  /\ seen' = [seen EXCEPT ![p] = strong]
  /\ UNCHANGED <<strong, weak, alive, stored>>

LockExpired(p) ==
  /\ st[p] = "locking" /\ seen[p] = 0
  /\ Goes(p, "null")
  /\ UNCHANGED <<src, seen, strong, weak, alive, stored>>

\* Mutation: the count is raised whatever it has become.
LockCasBlind(p) ==
  /\ st[p] = "locking" /\ seen[p] # 0 /\ Goes(p, "strong") /\ strong' = strong + 1
  /\ UNCHANGED <<src, seen, weak, alive, stored>>
LockCas(p) ==
  /\ st[p] = "locking" /\ seen[p] # 0 /\ seen[p] = strong
  /\ Goes(p, "strong")
  /\ strong' = strong + 1
  /\ UNCHANGED <<src, seen, weak, alive, stored>>

\* compare_exchange_weak fails for another count, or for none; it reads the count again.
LockCasFails(p) ==
  /\ st[p] = "locking" /\ seen[p] # 0
  /\ seen' = [seen EXCEPT ![p] = strong]
  /\ UNCHANGED <<st, src, strong, weak, alive, stored>>

Next ==
  \E p \in Ptrs :
    \/ DestroyNull(p) \/ Release(p) \/ DestroyObject(p) \/ Drop(p) \/ ReleaseWeak(p) \/ Free(p)
    \/ LockExpired(p) \/ LockCas(p) \/ LockCasFails(p)
    \/ \E q \in Ptrs : CopyNull(p, q) \/ Copy(p, q) \/ Weaken(p, q) \/ Move(p, q) \/ LockLoad(p, q)

Spec == Init /\ [][Next]_vars
-----------------------------------------------------------------------------
TypeOK ==
  /\ st \in [Ptrs -> States]
  /\ src \in [Ptrs -> Ptrs]
  /\ seen \in [Ptrs -> Nat]
  /\ strong \in Nat /\ weak \in Nat
  /\ alive \in BOOLEAN /\ stored \in BOOLEAN

\* There are strong pointers, or the last of them is not through with the weak count.
Owned == In("strong") \cup In("last") \cup In("dropping")

\* The counts are the numbers of the pointers; the strong ones share one of the weak count.
Counted ==
  /\ strong = Cardinality(In("strong"))
  /\ weak = Cardinality(In("weak")) + IF Owned = {} THEN 0 ELSE 1

\* One pointer at most closes the object or the storage, and only when no other is left to use it.
Closing ==
  /\ \A p, q \in In("last") \cup In("dropping") : p = q
  /\ \A p, q \in In("freeing") : p = q
  /\ In("last") \cup In("dropping") # {} => In("strong") = {}
  /\ In("freeing") # {} => Owned = {} /\ In("weak") = {}
  /\ alive <=> In("strong") \cup In("last") # {}
  /\ stored <=> Owned \cup In("weak") \cup In("freeing") # {}
  /\ \A p \in In("locking") : src[p] \in In("weak")
  /\ ~Weak => In("weak") = {} /\ In("dropping") = {}

\* What every step keeps.
IInv == TypeOK /\ Counted /\ Closing

(***************************************************************************)
(* A strong pointer leads to an object that is alive, and it is destroyed  *)
(* by one pointer only, when there is no strong one (proxy.h:1302).        *)
(***************************************************************************)
StrongIsAlive ==
  /\ In("strong") \cup In("last") # {} => alive
  /\ \A p, q \in In("last") \cup In("dropping") : p = q
  /\ In("last") # {} => In("strong") = {}

(***************************************************************************)
(* The storage, with the counts in it, outlasts everything that reads it,  *)
(* and is deallocated once (proxy.h:1305 and 1340).                        *)
(***************************************************************************)
StorageOutlastsUse ==
  /\ Owned \cup In("weak") \cup In("freeing") \cup In("locking") # {} => stored
  /\ \A p, q \in In("freeing") : p = q
  /\ In("freeing") # {} => Owned \cup In("weak") \cup In("locking") = {}

(***************************************************************************)
(* When every pointer is gone or was moved from, nothing is left behind.   *)
(***************************************************************************)
NothingLeaks == In("gone") \cup In("null") = Ptrs => ~alive /\ ~stored

(***************************************************************************)
(* An object whose last strong pointer is on its way out is never given to *)
(* a new one by lock(), though lock reads the count and raises it in two   *)
(* steps (proxy.h:1345 to 1352).                                           *)
(***************************************************************************)
NeverRevived == [][strong = 0 => strong' = 0]_vars
=============================================================================
