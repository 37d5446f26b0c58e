--------------------------- MODULE CompactPtrProofs ---------------------------
(***************************************************************************)
(* Proofs about CompactPtr, for any finite set of pointers, with weak ones *)
(* or without.  IInv says that the counts are the numbers of the pointers  *)
(* and who may still close what; it is inductive, and the properties       *)
(* follow from it.                                                         *)
(***************************************************************************)
EXTENDS CompactPtr, FiniteSetTheorems, TLAPS

\* The pointers in one state can be counted, also with one more or one less.
LEMMA Sizes ==
  ASSUME NEW s
  PROVE  /\ Cardinality(In(s)) \in Nat
         /\ Cardinality(In(s)) = 0 <=> In(s) = {}
         /\ \A p \in Ptrs : p \notin In(s) => Cardinality(In(s) \cup {p}) = Cardinality(In(s)) + 1
         /\ \A p \in In(s) : Cardinality(In(s) \ {p}) = Cardinality(In(s)) - 1
<1>1. IsFiniteSet(In(s))
  BY CompactPtrAssumption, FS_Subset DEF In
<1> QED
  BY <1>1, FS_CardinalityType, FS_EmptySet, FS_AddElement, FS_RemoveElement

\* After a step too there are none of a kind exactly when their number is zero.
LEMMA NoneNext ==
  ASSUME NEW s
  PROVE  Cardinality(In(s))' = 0 <=> In(s)' = {}
<1>1. IsFiniteSet(In(s)')
  BY CompactPtrAssumption, FS_Subset DEF In
<1> QED
  BY <1>1, FS_EmptySet

\* A step of one pointer moves it from one set to another.
LEMMA Going ==
  ASSUME TypeOK, NEW p \in Ptrs, NEW x \in States, NEW y \in States, st[p] = y, x # y, Goes(p, x)
  PROVE  /\ st' \in [Ptrs -> States]
         /\ p \in In(y) /\ p \notin In(x)
         /\ In(x)' = In(x) \cup {p}
         /\ In(y)' = In(y) \ {p}
         /\ \A s : s # x /\ s # y => In(s)' = In(s)
<1>1. st \in [Ptrs -> States] /\ st' = [st EXCEPT ![p] = x]
  BY DEF TypeOK, Goes
<1>2. st' \in [Ptrs -> States] /\ st'[p] = x /\ \A q \in Ptrs \ {p} : st'[q] = st[q]
  BY <1>1
<1> QED
  BY <1>2 DEF In

\* So does the number of those in each.
LEMMA GoingSizes ==
  ASSUME TypeOK, NEW p \in Ptrs, NEW x \in States, NEW y \in States, st[p] = y, x # y, Goes(p, x)
  PROVE  /\ Cardinality(In(x))' = Cardinality(In(x)) + 1
         /\ Cardinality(In(y))' = Cardinality(In(y)) - 1
         /\ \A s : s # x /\ s # y => Cardinality(In(s))' = Cardinality(In(s))
<1>1. /\ p \in In(y) /\ p \notin In(x)
      /\ In(x)' = In(x) \cup {p}
      /\ In(y)' = In(y) \ {p}
      /\ \A s : s # x /\ s # y => In(s)' = In(s)
  BY Going
<1>2. Cardinality(In(x) \cup {p}) = Cardinality(In(x)) + 1 /\ Cardinality(In(y) \ {p}) = Cardinality(In(y)) - 1
  BY <1>1, Sizes
<1> QED
  BY <1>1, <1>2

\* A moved pointer takes the place of its source, of which there are as many as before.
LEMMA MoveSets ==
  ASSUME TypeOK, NEW p \in Ptrs, NEW q \in Ptrs, Move(p, q)
  PROVE  /\ st' \in [Ptrs -> States]
         /\ \A s \in {"strong", "weak"} :
              /\ In(s)' = IF st[q] = s THEN (In(s) \cup {p}) \ {q} ELSE In(s)
              /\ Cardinality(In(s))' = Cardinality(In(s))
              /\ In(s)' = {} <=> In(s) = {}
         /\ \A s \in {"last", "dropping", "freeing", "locking"} : In(s)' = In(s)
<1> USE DEF TypeOK, Move, States
<1>1. st' \in [Ptrs -> States] /\ p # q
  OBVIOUS
<1>2. \A s \in {"strong", "weak"} : In(s)' = IF st[q] = s THEN (In(s) \cup {p}) \ {q} ELSE In(s)
  BY DEF In
<1>3. ASSUME NEW s \in {"strong", "weak"}
      PROVE  Cardinality(In(s))' = Cardinality(In(s)) /\ (In(s)' = {} <=> In(s) = {})
  <2>1. CASE st[q] = s
    <3>1. IsFiniteSet(In(s)) /\ p \notin In(s) /\ q \in In(s) /\ Cardinality(In(s)) \in Nat
      BY <2>1, CompactPtrAssumption, FS_Subset, Sizes DEF In
    <3>2. /\ IsFiniteSet(In(s) \cup {p}) /\ Cardinality(In(s) \cup {p}) = Cardinality(In(s)) + 1
          /\ Cardinality((In(s) \cup {p}) \ {q}) = Cardinality(In(s) \cup {p}) - 1
      BY <3>1, FS_AddElement, FS_RemoveElement
    <3>3. In(s)' = (In(s) \cup {p}) \ {q}
      BY <1>2, <2>1
    <3> QED
      BY <3>1, <3>2, <3>3, <1>1
  <2>2. CASE st[q] # s
    BY <1>2, <2>2
  <2> QED
    BY <2>1, <2>2
<1>4. \A s \in {"last", "dropping", "freeing", "locking"} : In(s)' = In(s)
  BY DEF In
<1> QED
  BY <1>1, <1>2, <1>3, <1>4

\* A copy is one more strong pointer.
LEMMA CopyStep ==
  ASSUME IInv, NEW p \in Ptrs, NEW q \in Ptrs, Copy(p, q)
  PROVE  IInv'
<1> USE DEF IInv, Copy
<1>1. /\ st' \in [Ptrs -> States] /\ p \in In("gone") /\ p \notin In("strong")
      /\ In("strong")' = In("strong") \cup {p} /\ In("gone")' = In("gone") \ {p}
      /\ In("weak")' = In("weak") /\ In("last")' = In("last")
      /\ In("dropping")' = In("dropping") /\ In("freeing")' = In("freeing")
      /\ In("locking")' = In("locking")
  BY Going DEF TypeOK, States
<1>2. /\ Cardinality(In("strong"))' = Cardinality(In("strong")) + 1
      /\ Cardinality(In("weak"))' = Cardinality(In("weak"))
  BY GoingSizes DEF TypeOK, States
<1>3. /\ Cardinality(In("strong")) \in Nat /\ (Cardinality(In("strong")) = 0 <=> In("strong") = {})
      /\ Cardinality(In("weak")) \in Nat /\ (Cardinality(In("weak")) = 0 <=> In("weak") = {})
      /\ (Cardinality(In("strong"))' = 0 <=> In("strong")' = {}) /\ (Cardinality(In("weak"))' = 0 <=> In("weak")' = {})
  BY Sizes, NoneNext
<1>a. q \in In("strong")
  BY DEF TypeOK, In, Used, Closing
<1>4. TypeOK'
  BY <1>1, <1>2, <1>3, <1>a, CompactPtrAssumption DEF TypeOK, Counted
<1>5. Counted'
  BY <1>1, <1>2, <1>3, <1>a, CompactPtrAssumption DEF TypeOK, Counted, Closing, Owned
<1>6. Closing'
  BY <1>1, <1>2, <1>3, <1>a, CompactPtrAssumption DEF TypeOK, Counted, Closing, Owned
<1> QED
  BY <1>4, <1>5, <1>6

\* A weak pointer is made where the storage is still there.
LEMMA WeakenStep ==
  ASSUME IInv, NEW p \in Ptrs, NEW q \in Ptrs, Weaken(p, q)
  PROVE  IInv'
<1> USE DEF IInv, Weaken
<1>1. /\ st' \in [Ptrs -> States] /\ p \in In("gone") /\ p \notin In("weak")
      /\ In("weak")' = In("weak") \cup {p} /\ In("gone")' = In("gone") \ {p}
      /\ In("strong")' = In("strong") /\ In("last")' = In("last")
      /\ In("dropping")' = In("dropping") /\ In("freeing")' = In("freeing")
      /\ In("locking")' = In("locking")
  BY Going DEF TypeOK, States
<1>2. /\ Cardinality(In("weak"))' = Cardinality(In("weak")) + 1
      /\ Cardinality(In("strong"))' = Cardinality(In("strong"))
  BY GoingSizes DEF TypeOK, States
<1>3. /\ Cardinality(In("strong")) \in Nat /\ (Cardinality(In("strong")) = 0 <=> In("strong") = {})
      /\ Cardinality(In("weak")) \in Nat /\ (Cardinality(In("weak")) = 0 <=> In("weak") = {})
      /\ (Cardinality(In("strong"))' = 0 <=> In("strong")' = {}) /\ (Cardinality(In("weak"))' = 0 <=> In("weak")' = {})
  BY Sizes, NoneNext
<1>a. q \in In("strong") \cup In("weak")
  BY DEF TypeOK, In, Used, Closing
<1>4. TypeOK'
  BY <1>1, <1>2, <1>3, <1>a, CompactPtrAssumption DEF TypeOK, Counted
<1>5. Counted'
  BY <1>1, <1>2, <1>3, <1>a, CompactPtrAssumption DEF TypeOK, Counted, Closing, Owned
<1>6. Closing'
  BY <1>1, <1>2, <1>3, <1>a, CompactPtrAssumption DEF TypeOK, Counted, Closing, Owned
<1> QED
  BY <1>4, <1>5, <1>6

\* A strong pointer that is not the last one only counts itself out.
LEMMA ReleaseStep ==
  ASSUME IInv, NEW p \in Ptrs, Release(p), strong # 1
  PROVE  IInv'
<1> USE DEF IInv, Release
<1>1. /\ st' \in [Ptrs -> States] /\ p \in In("strong") /\ p \notin In("gone")
      /\ In("gone")' = In("gone") \cup {p} /\ In("strong")' = In("strong") \ {p}
      /\ In("weak")' = In("weak") /\ In("last")' = In("last")
      /\ In("dropping")' = In("dropping") /\ In("freeing")' = In("freeing")
      /\ In("locking")' = In("locking")
  BY Going DEF TypeOK, States
<1>2. /\ Cardinality(In("strong"))' = Cardinality(In("strong")) - 1
      /\ Cardinality(In("weak"))' = Cardinality(In("weak"))
  BY GoingSizes DEF TypeOK, States
<1>3. /\ Cardinality(In("strong")) \in Nat /\ (Cardinality(In("strong")) = 0 <=> In("strong") = {})
      /\ Cardinality(In("weak")) \in Nat /\ (Cardinality(In("weak")) = 0 <=> In("weak") = {})
      /\ (Cardinality(In("strong"))' = 0 <=> In("strong")' = {}) /\ (Cardinality(In("weak"))' = 0 <=> In("weak")' = {})
  BY Sizes, NoneNext
<1>4. TypeOK'
  BY <1>1, <1>2, <1>3, CompactPtrAssumption DEF TypeOK, Counted
<1>5. Counted'
  BY <1>1, <1>2, <1>3, CompactPtrAssumption DEF TypeOK, Counted, Closing, Owned
<1>6. Closing'
  BY <1>1, <1>2, <1>3, CompactPtrAssumption DEF TypeOK, Counted, Closing, Owned
<1> QED
  BY <1>4, <1>5, <1>6

\* The last strong pointer takes over the object.
LEMMA ReleaseLastStep ==
  ASSUME IInv, NEW p \in Ptrs, Release(p), strong = 1
  PROVE  IInv'
<1> USE DEF IInv, Release
<1>1. /\ st' \in [Ptrs -> States] /\ p \in In("strong") /\ p \notin In("last")
      /\ In("last")' = In("last") \cup {p} /\ In("strong")' = In("strong") \ {p}
      /\ In("weak")' = In("weak") /\ In("dropping")' = In("dropping")
      /\ In("freeing")' = In("freeing") /\ In("locking")' = In("locking")
  BY Going DEF TypeOK, States
<1>2. /\ Cardinality(In("strong"))' = Cardinality(In("strong")) - 1
      /\ Cardinality(In("weak"))' = Cardinality(In("weak"))
  BY GoingSizes DEF TypeOK, States
<1>3. /\ Cardinality(In("strong")) \in Nat /\ (Cardinality(In("strong")) = 0 <=> In("strong") = {})
      /\ Cardinality(In("weak")) \in Nat /\ (Cardinality(In("weak")) = 0 <=> In("weak") = {})
      /\ (Cardinality(In("strong"))' = 0 <=> In("strong")' = {}) /\ (Cardinality(In("weak"))' = 0 <=> In("weak")' = {})
  BY Sizes, NoneNext
<1>b. In("strong") = {p} /\ In("strong")' = {} /\ In("last") = {} /\ In("dropping") = {} /\ In("freeing") = {}
  BY <1>1, <1>2, <1>3 DEF TypeOK, Counted, Closing, Owned
<1>4. TypeOK'
  BY <1>1, <1>2, <1>3, CompactPtrAssumption, <1>b DEF TypeOK, Counted
<1>5. Counted'
  BY <1>1, <1>2, <1>3, CompactPtrAssumption, <1>b DEF TypeOK, Counted, Closing, Owned
<1>6. Closing'
  BY <1>1, <1>2, <1>3, CompactPtrAssumption, <1>b DEF TypeOK, Counted, Closing, Owned
<1> QED
  BY <1>4, <1>5, <1>6

\* The object goes, the storage may be needed.
LEMMA DestroyObjectStep ==
  ASSUME IInv, NEW p \in Ptrs, DestroyObject(p), Weak
  PROVE  IInv'
<1> USE DEF IInv, DestroyObject
<1>1. /\ st' \in [Ptrs -> States] /\ p \in In("last") /\ p \notin In("dropping")
      /\ In("dropping")' = In("dropping") \cup {p} /\ In("last")' = In("last") \ {p}
      /\ In("strong")' = In("strong") /\ In("weak")' = In("weak")
      /\ In("freeing")' = In("freeing") /\ In("locking")' = In("locking")
  BY Going DEF TypeOK, States
<1>2. /\ Cardinality(In("strong"))' = Cardinality(In("strong"))
      /\ Cardinality(In("weak"))' = Cardinality(In("weak"))
  BY GoingSizes DEF TypeOK, States
<1>3. /\ Cardinality(In("strong")) \in Nat /\ (Cardinality(In("strong")) = 0 <=> In("strong") = {})
      /\ Cardinality(In("weak")) \in Nat /\ (Cardinality(In("weak")) = 0 <=> In("weak") = {})
      /\ (Cardinality(In("strong"))' = 0 <=> In("strong")' = {}) /\ (Cardinality(In("weak"))' = 0 <=> In("weak")' = {})
  BY Sizes, NoneNext
<1>4. TypeOK'
  BY <1>1, <1>2, <1>3, CompactPtrAssumption DEF TypeOK, Counted
<1>5. Counted'
  BY <1>1, <1>2, <1>3, CompactPtrAssumption DEF TypeOK, Counted, Closing, Owned
<1>6. Closing'
  BY <1>1, <1>2, <1>3, CompactPtrAssumption DEF TypeOK, Counted, Closing, Owned
<1> QED
  BY <1>4, <1>5, <1>6

\* The object goes, and the storage with it.
LEMMA DestroySharedStep ==
  ASSUME IInv, NEW p \in Ptrs, DestroyObject(p), ~Weak
  PROVE  IInv'
<1> USE DEF IInv, DestroyObject
<1>1. /\ st' \in [Ptrs -> States] /\ p \in In("last") /\ p \notin In("freeing")
      /\ In("freeing")' = In("freeing") \cup {p} /\ In("last")' = In("last") \ {p}
      /\ In("strong")' = In("strong") /\ In("weak")' = In("weak")
      /\ In("dropping")' = In("dropping") /\ In("locking")' = In("locking")
  BY Going DEF TypeOK, States
<1>2. /\ Cardinality(In("strong"))' = Cardinality(In("strong"))
      /\ Cardinality(In("weak"))' = Cardinality(In("weak"))
  BY GoingSizes DEF TypeOK, States
<1>3. /\ Cardinality(In("strong")) \in Nat /\ (Cardinality(In("strong")) = 0 <=> In("strong") = {})
      /\ Cardinality(In("weak")) \in Nat /\ (Cardinality(In("weak")) = 0 <=> In("weak") = {})
      /\ (Cardinality(In("strong"))' = 0 <=> In("strong")' = {}) /\ (Cardinality(In("weak"))' = 0 <=> In("weak")' = {})
  BY Sizes, NoneNext
<1>4. TypeOK'
  BY <1>1, <1>2, <1>3, CompactPtrAssumption DEF TypeOK, Counted
<1>5. Counted'
  BY <1>1, <1>2, <1>3, CompactPtrAssumption DEF TypeOK, Counted, Closing, Owned
<1>6. Closing'
  BY <1>1, <1>2, <1>3, CompactPtrAssumption DEF TypeOK, Counted, Closing, Owned
<1> QED
  BY <1>4, <1>5, <1>6

\* The last strong pointer leaves the storage to the weak ones.
LEMMA DropStep ==
  ASSUME IInv, NEW p \in Ptrs, Drop(p), weak # 1
  PROVE  IInv'
<1> USE DEF IInv, Drop
<1>1. /\ st' \in [Ptrs -> States] /\ p \in In("dropping") /\ p \notin In("gone")
      /\ In("gone")' = In("gone") \cup {p} /\ In("dropping")' = In("dropping") \ {p}
      /\ In("strong")' = In("strong") /\ In("weak")' = In("weak")
      /\ In("last")' = In("last") /\ In("freeing")' = In("freeing")
      /\ In("locking")' = In("locking")
  BY Going DEF TypeOK, States
<1>2. /\ Cardinality(In("strong"))' = Cardinality(In("strong"))
      /\ Cardinality(In("weak"))' = Cardinality(In("weak"))
  BY GoingSizes DEF TypeOK, States
<1>3. /\ Cardinality(In("strong")) \in Nat /\ (Cardinality(In("strong")) = 0 <=> In("strong") = {})
      /\ Cardinality(In("weak")) \in Nat /\ (Cardinality(In("weak")) = 0 <=> In("weak") = {})
      /\ (Cardinality(In("strong"))' = 0 <=> In("strong")' = {}) /\ (Cardinality(In("weak"))' = 0 <=> In("weak")' = {})
  BY Sizes, NoneNext
<1>c. In("strong") = {} /\ In("last") = {} /\ In("dropping") = {p} /\ p \in Owned /\ In("freeing") = {}
  <2>1. p \notin In("last") /\ \A r \in In("last") \cup In("dropping") : r = p
    BY <1>1 DEF Closing, In
  <2> QED
    BY <1>1, <2>1 DEF Closing, Owned
<1>b. Owned # {} /\ Owned' = {} /\ weak = Cardinality(In("weak")) + 1
  BY <1>1, <1>c DEF Counted, Owned
<1>4. TypeOK'
  BY <1>1, <1>2, <1>3, CompactPtrAssumption, <1>b, <1>c DEF TypeOK, Counted
<1>5. Counted'
  BY <1>1, <1>2, <1>3, CompactPtrAssumption, <1>b, <1>c DEF TypeOK, Counted, Closing, Owned
<1>6. Closing'
  BY <1>1, <1>2, <1>3, CompactPtrAssumption, <1>b, <1>c DEF TypeOK, Counted, Closing, Owned
<1> QED
  BY <1>4, <1>5, <1>6

\* There are no weak ones: it frees the storage.
LEMMA DropLastStep ==
  ASSUME IInv, NEW p \in Ptrs, Drop(p), weak = 1
  PROVE  IInv'
<1> USE DEF IInv, Drop
<1>1. /\ st' \in [Ptrs -> States] /\ p \in In("dropping") /\ p \notin In("freeing")
      /\ In("freeing")' = In("freeing") \cup {p} /\ In("dropping")' = In("dropping") \ {p}
      /\ In("strong")' = In("strong") /\ In("weak")' = In("weak")
      /\ In("last")' = In("last") /\ In("locking")' = In("locking")
  BY Going DEF TypeOK, States
<1>2. /\ Cardinality(In("strong"))' = Cardinality(In("strong"))
      /\ Cardinality(In("weak"))' = Cardinality(In("weak"))
  BY GoingSizes DEF TypeOK, States
<1>3. /\ Cardinality(In("strong")) \in Nat /\ (Cardinality(In("strong")) = 0 <=> In("strong") = {})
      /\ Cardinality(In("weak")) \in Nat /\ (Cardinality(In("weak")) = 0 <=> In("weak") = {})
      /\ (Cardinality(In("strong"))' = 0 <=> In("strong")' = {}) /\ (Cardinality(In("weak"))' = 0 <=> In("weak")' = {})
  BY Sizes, NoneNext
<1>c. In("strong") = {} /\ In("last") = {} /\ In("dropping") = {p} /\ p \in Owned /\ In("freeing") = {}
  <2>1. p \notin In("last") /\ \A r \in In("last") \cup In("dropping") : r = p
    BY <1>1 DEF Closing, In
  <2> QED
    BY <1>1, <2>1 DEF Closing, Owned
<1>b. Owned # {} /\ Owned' = {} /\ weak = Cardinality(In("weak")) + 1
  BY <1>1, <1>c DEF Counted, Owned
<1>4. TypeOK'
  BY <1>1, <1>2, <1>3, CompactPtrAssumption, <1>b, <1>c DEF TypeOK, Counted
<1>5. Counted'
  BY <1>1, <1>2, <1>3, CompactPtrAssumption, <1>b, <1>c DEF TypeOK, Counted, Closing, Owned
<1>6. Closing'
  BY <1>1, <1>2, <1>3, CompactPtrAssumption, <1>b, <1>c DEF TypeOK, Counted, Closing, Owned
<1> QED
  BY <1>4, <1>5, <1>6

\* A weak pointer goes.
LEMMA ReleaseWeakStep ==
  ASSUME IInv, NEW p \in Ptrs, ReleaseWeak(p), weak # 1
  PROVE  IInv'
<1> USE DEF IInv, ReleaseWeak
<1>1. /\ st' \in [Ptrs -> States] /\ p \in In("weak") /\ p \notin In("gone")
      /\ In("gone")' = In("gone") \cup {p} /\ In("weak")' = In("weak") \ {p}
      /\ In("strong")' = In("strong") /\ In("last")' = In("last")
      /\ In("dropping")' = In("dropping") /\ In("freeing")' = In("freeing")
      /\ In("locking")' = In("locking")
  BY Going DEF TypeOK, States
<1>2. /\ Cardinality(In("weak"))' = Cardinality(In("weak")) - 1
      /\ Cardinality(In("strong"))' = Cardinality(In("strong"))
  BY GoingSizes DEF TypeOK, States
<1>3. /\ Cardinality(In("strong")) \in Nat /\ (Cardinality(In("strong")) = 0 <=> In("strong") = {})
      /\ Cardinality(In("weak")) \in Nat /\ (Cardinality(In("weak")) = 0 <=> In("weak") = {})
      /\ (Cardinality(In("strong"))' = 0 <=> In("strong")' = {}) /\ (Cardinality(In("weak"))' = 0 <=> In("weak")' = {})
  BY Sizes, NoneNext
<1>a. \A r \in In("locking") : src[r] # p
  BY DEF TypeOK, In, Used, Closing
<1>b. In("freeing") = {} /\ Owned' = Owned /\ weak - 1 \in Nat
  <2>1. In("freeing") = {}
    BY <1>1 DEF Closing
  <2>2. Owned' = Owned
    BY <1>1 DEF Owned
  <2>3. weak - 1 \in Nat
    BY <1>1, <1>3 DEF Counted
  <2> QED
    BY <2>1, <2>2, <2>3
<1>4. TypeOK'
  BY <1>1, <1>2, <1>3, <1>a, CompactPtrAssumption, <1>b DEF TypeOK, Counted
<1>5. Counted'
  BY <1>1, <1>2, <1>3, <1>a, CompactPtrAssumption, <1>b DEF TypeOK, Counted, Closing, Owned
<1>c. Owned = {} => In("weak")' # {}
  BY <1>1, <1>2, <1>3 DEF Counted
<1>d. stored /\ stored' = stored /\ alive' = alive
  BY <1>1 DEF Closing
<1>6. Closing'
  BY <1>1, <1>a, <1>b, <1>c, <1>d DEF Closing
<1> QED
  BY <1>4, <1>5, <1>6

\* The last weak pointer goes, and no strong one is left.
LEMMA ReleaseWeakLastStep ==
  ASSUME IInv, NEW p \in Ptrs, ReleaseWeak(p), weak = 1
  PROVE  IInv'
<1> USE DEF IInv, ReleaseWeak
<1>1. /\ st' \in [Ptrs -> States] /\ p \in In("weak") /\ p \notin In("freeing")
      /\ In("freeing")' = In("freeing") \cup {p} /\ In("weak")' = In("weak") \ {p}
      /\ In("strong")' = In("strong") /\ In("last")' = In("last")
      /\ In("dropping")' = In("dropping") /\ In("locking")' = In("locking")
  BY Going DEF TypeOK, States
<1>2. /\ Cardinality(In("weak"))' = Cardinality(In("weak")) - 1
      /\ Cardinality(In("strong"))' = Cardinality(In("strong"))
  BY GoingSizes DEF TypeOK, States
<1>3. /\ Cardinality(In("strong")) \in Nat /\ (Cardinality(In("strong")) = 0 <=> In("strong") = {})
      /\ Cardinality(In("weak")) \in Nat /\ (Cardinality(In("weak")) = 0 <=> In("weak") = {})
      /\ (Cardinality(In("strong"))' = 0 <=> In("strong")' = {}) /\ (Cardinality(In("weak"))' = 0 <=> In("weak")' = {})
  BY Sizes, NoneNext
<1>a. \A r \in In("locking") : src[r] # p
  BY DEF TypeOK, In, Used, Closing
<1>b. In("freeing") = {} /\ Owned' = Owned /\ Owned = {} /\ In("weak")' = {}
  BY <1>1, <1>2, <1>3 DEF TypeOK, Counted, Closing, Owned
<1>4. TypeOK'
  BY <1>1, <1>2, <1>3, <1>a, CompactPtrAssumption, <1>b DEF TypeOK, Counted
<1>5. Counted'
  BY <1>1, <1>2, <1>3, <1>a, CompactPtrAssumption, <1>b DEF TypeOK, Counted, Closing, Owned
<1>6. Closing'
  BY <1>1, <1>2, <1>3, <1>a, CompactPtrAssumption, <1>b DEF TypeOK, Counted, Closing, Owned
<1> QED
  BY <1>4, <1>5, <1>6

\* The storage goes when nothing refers to it.
LEMMA FreeStep ==
  ASSUME IInv, NEW p \in Ptrs, Free(p)
  PROVE  IInv'
<1> USE DEF IInv, Free
<1>1. /\ st' \in [Ptrs -> States] /\ p \in In("freeing") /\ p \notin In("gone")
      /\ In("gone")' = In("gone") \cup {p} /\ In("freeing")' = In("freeing") \ {p}
      /\ In("strong")' = In("strong") /\ In("weak")' = In("weak")
      /\ In("last")' = In("last") /\ In("dropping")' = In("dropping")
      /\ In("locking")' = In("locking")
  BY Going DEF TypeOK, States
<1>2. /\ Cardinality(In("strong"))' = Cardinality(In("strong"))
      /\ Cardinality(In("weak"))' = Cardinality(In("weak"))
  BY GoingSizes DEF TypeOK, States
<1>3. /\ Cardinality(In("strong")) \in Nat /\ (Cardinality(In("strong")) = 0 <=> In("strong") = {})
      /\ Cardinality(In("weak")) \in Nat /\ (Cardinality(In("weak")) = 0 <=> In("weak") = {})
      /\ (Cardinality(In("strong"))' = 0 <=> In("strong")' = {}) /\ (Cardinality(In("weak"))' = 0 <=> In("weak")' = {})
  BY Sizes, NoneNext
<1>4. TypeOK'
  BY <1>1, <1>2, <1>3, CompactPtrAssumption DEF TypeOK, Counted
<1>5. Counted'
  BY <1>1, <1>2, <1>3, CompactPtrAssumption DEF TypeOK, Counted, Closing, Owned
<1>6. Closing'
  BY <1>1, <1>2, <1>3, CompactPtrAssumption DEF TypeOK, Counted, Closing, Owned
<1> QED
  BY <1>4, <1>5, <1>6

\* A lock begins from a weak pointer.
LEMMA LockLoadStep ==
  ASSUME IInv, NEW p \in Ptrs, NEW q \in Ptrs, LockLoad(p, q)
  PROVE  IInv'
<1> USE DEF IInv, LockLoad
<1>1. /\ st' \in [Ptrs -> States] /\ p \in In("gone") /\ p \notin In("locking")
      /\ In("locking")' = In("locking") \cup {p} /\ In("gone")' = In("gone") \ {p}
      /\ In("strong")' = In("strong") /\ In("weak")' = In("weak")
      /\ In("last")' = In("last") /\ In("dropping")' = In("dropping")
      /\ In("freeing")' = In("freeing")
  BY Going DEF TypeOK, States
<1>2. /\ Cardinality(In("strong"))' = Cardinality(In("strong"))
      /\ Cardinality(In("weak"))' = Cardinality(In("weak"))
  BY GoingSizes DEF TypeOK, States
<1>3. /\ Cardinality(In("strong")) \in Nat /\ (Cardinality(In("strong")) = 0 <=> In("strong") = {})
      /\ Cardinality(In("weak")) \in Nat /\ (Cardinality(In("weak")) = 0 <=> In("weak") = {})
      /\ (Cardinality(In("strong"))' = 0 <=> In("strong")' = {}) /\ (Cardinality(In("weak"))' = 0 <=> In("weak")' = {})
  BY Sizes, NoneNext
<1>a. q \in In("weak") /\ src'[p] = q /\ \A r \in In("locking") : src'[r] = src[r]
  BY DEF TypeOK, In, Used, Closing
<1>4. TypeOK'
  BY <1>1, <1>2, <1>3, <1>a, CompactPtrAssumption DEF TypeOK, Counted
<1>5. Counted'
  BY <1>1, <1>2, <1>3, <1>a, CompactPtrAssumption DEF TypeOK, Counted, Closing, Owned
<1>6. Closing'
  BY <1>1, <1>2, <1>3, <1>a, CompactPtrAssumption DEF TypeOK, Counted, Closing, Owned
<1> QED
  BY <1>4, <1>5, <1>6

\* A lock finds no strong pointer.
LEMMA LockExpiredStep ==
  ASSUME IInv, NEW p \in Ptrs, LockExpired(p)
  PROVE  IInv'
<1> USE DEF IInv, LockExpired
<1>1. /\ st' \in [Ptrs -> States] /\ p \in In("locking") /\ p \notin In("null")
      /\ In("null")' = In("null") \cup {p} /\ In("locking")' = In("locking") \ {p}
      /\ In("strong")' = In("strong") /\ In("weak")' = In("weak")
      /\ In("last")' = In("last") /\ In("dropping")' = In("dropping")
      /\ In("freeing")' = In("freeing")
  BY Going DEF TypeOK, States
<1>2. /\ Cardinality(In("strong"))' = Cardinality(In("strong"))
      /\ Cardinality(In("weak"))' = Cardinality(In("weak"))
  BY GoingSizes DEF TypeOK, States
<1>3. /\ Cardinality(In("strong")) \in Nat /\ (Cardinality(In("strong")) = 0 <=> In("strong") = {})
      /\ Cardinality(In("weak")) \in Nat /\ (Cardinality(In("weak")) = 0 <=> In("weak") = {})
      /\ (Cardinality(In("strong"))' = 0 <=> In("strong")' = {}) /\ (Cardinality(In("weak"))' = 0 <=> In("weak")' = {})
  BY Sizes, NoneNext
<1>a. \A r \in In("locking") : r # p => src'[r] \in In("weak")
  BY DEF TypeOK, In, Used, Closing
<1>4. TypeOK'
  BY <1>1, <1>2, <1>3, <1>a, CompactPtrAssumption DEF TypeOK, Counted
<1>5. Counted'
  BY <1>1, <1>2, <1>3, <1>a, CompactPtrAssumption DEF TypeOK, Counted, Closing, Owned
<1>6. Closing'
  BY <1>1, <1>2, <1>3, <1>a, CompactPtrAssumption DEF TypeOK, Counted, Closing, Owned
<1> QED
  BY <1>4, <1>5, <1>6

\* A lock raises a count that is still not zero.
LEMMA LockCasStep ==
  ASSUME IInv, NEW p \in Ptrs, LockCas(p)
  PROVE  IInv'
<1> USE DEF IInv, LockCas
<1>1. /\ st' \in [Ptrs -> States] /\ p \in In("locking") /\ p \notin In("strong")
      /\ In("strong")' = In("strong") \cup {p} /\ In("locking")' = In("locking") \ {p}
      /\ In("weak")' = In("weak") /\ In("last")' = In("last")
      /\ In("dropping")' = In("dropping") /\ In("freeing")' = In("freeing")
  BY Going DEF TypeOK, States
<1>2. /\ Cardinality(In("strong"))' = Cardinality(In("strong")) + 1
      /\ Cardinality(In("weak"))' = Cardinality(In("weak"))
  BY GoingSizes DEF TypeOK, States
<1>3. /\ Cardinality(In("strong")) \in Nat /\ (Cardinality(In("strong")) = 0 <=> In("strong") = {})
      /\ Cardinality(In("weak")) \in Nat /\ (Cardinality(In("weak")) = 0 <=> In("weak") = {})
      /\ (Cardinality(In("strong"))' = 0 <=> In("strong")' = {}) /\ (Cardinality(In("weak"))' = 0 <=> In("weak")' = {})
  BY Sizes, NoneNext
<1>a. \A r \in In("locking") : r # p => src'[r] \in In("weak")
  BY DEF TypeOK, In, Used, Closing
<1>4. TypeOK'
  BY <1>1, <1>2, <1>3, <1>a, CompactPtrAssumption DEF TypeOK, Counted
<1>5. Counted'
  BY <1>1, <1>2, <1>3, <1>a, CompactPtrAssumption DEF TypeOK, Counted, Closing, Owned
<1>6. Closing'
  BY <1>1, <1>2, <1>3, <1>a, CompactPtrAssumption DEF TypeOK, Counted, Closing, Owned
<1> QED
  BY <1>4, <1>5, <1>6

\* A pointer that is moved is one pointer still.
LEMMA MoveStep ==
  ASSUME IInv, NEW p \in Ptrs, NEW q \in Ptrs, Move(p, q)
  PROVE  IInv'
<1> USE DEF IInv
<1>1. /\ st' \in [Ptrs -> States]
      /\ Cardinality(In("strong"))' = Cardinality(In("strong")) /\ Cardinality(In("weak"))' = Cardinality(In("weak"))
      /\ (In("strong")' = {} <=> In("strong") = {}) /\ (In("weak")' = {} <=> In("weak") = {})
      /\ In("weak")' = IF st[q] = "weak" THEN (In("weak") \cup {p}) \ {q} ELSE In("weak")
      /\ In("last")' = In("last") /\ In("dropping")' = In("dropping")
      /\ In("freeing")' = In("freeing") /\ In("locking")' = In("locking")
  BY MoveSets
<1>2. /\ UNCHANGED <<src, seen, strong, weak, alive, stored>>
      /\ \A r \in In("locking") : src[r] # q
  BY DEF Move, Used, In
<1>3. TypeOK'
  BY <1>1, <1>2 DEF TypeOK
<1>4. Counted'
  BY <1>1, <1>2 DEF Counted, Owned
<1>5. Closing'
  BY <1>1, <1>2 DEF Closing, Owned
<1> QED
  BY <1>3, <1>4, <1>5

\* Pointers without an object come and go unseen.
LEMMA NullStep ==
  ASSUME IInv, NEW p \in Ptrs, NEW q \in Ptrs, CopyNull(p, q) \/ DestroyNull(p)
  PROVE  IInv'
<1> USE DEF IInv
<1>1. /\ UNCHANGED <<src, seen, strong, weak, alive, stored>>
      /\ st' \in [Ptrs -> States]
      /\ \A s \in {"strong", "weak", "last", "dropping", "freeing", "locking"} : In(s)' = In(s)
  BY DEF CopyNull, DestroyNull, Goes, TypeOK, States, In
<1>2. /\ In("strong")' = In("strong") /\ In("weak")' = In("weak")
      /\ In("last")' = In("last") /\ In("dropping")' = In("dropping")
      /\ In("freeing")' = In("freeing") /\ In("locking")' = In("locking")
  BY <1>1
<1> QED
  BY <1>1, <1>2 DEF TypeOK, Counted, Closing, Owned

\* A failed exchange changes what has been read only.
LEMMA QuietStep ==
  ASSUME IInv, (\E p \in Ptrs : LockCasFails(p)) \/ UNCHANGED vars
  PROVE  IInv'
<1> USE DEF IInv
<1>1. st' = st /\ UNCHANGED <<src, strong, weak, alive, stored>> /\ seen' \in [Ptrs -> Nat]
  BY DEF LockCasFails, vars, TypeOK
<1>2. \A s : In(s)' = In(s)
  BY <1>1 DEF In
<1> QED
  BY <1>1, <1>2 DEF TypeOK, Counted, Closing, Owned

\* One pointer, the object alive.
LEMMA InitInv == Init => IInv
<1> SUFFICES ASSUME Init PROVE IInv
  OBVIOUS
<1>1. PICK p \in Ptrs : st = [q \in Ptrs |-> IF q = p THEN "strong" ELSE "gone"]
  BY DEF Init
<1>2. In("strong") = {p} /\ \A s \in States \ {"strong", "gone"} : In(s) = {}
  BY <1>1 DEF In, States
<1>3. /\ In("weak") = {} /\ In("last") = {} /\ In("dropping") = {} /\ In("freeing") = {} /\ In("locking") = {}
      /\ Cardinality(In("strong")) = 1 /\ Cardinality(In("weak")) = 0
  BY <1>2, FS_Singleton, FS_EmptySet DEF States
<1> QED
  BY <1>1, <1>2, <1>3 DEF Init, IInv, TypeOK, States, Counted, Closing, Owned

\* Every step keeps the invariant.
LEMMA NextInv == IInv /\ [Next]_vars => IInv'
<1> SUFFICES ASSUME IInv, Next PROVE IInv'
  BY QuietStep
<1>1. PICK p \in Ptrs :
        \/ DestroyNull(p) \/ Release(p) \/ DestroyObject(p) \/ Drop(p) \/ ReleaseWeak(p) \/ Free(p)
        \/ LockExpired(p) \/ LockCas(p) \/ LockCasFails(p)
        \/ \E q \in Ptrs : CopyNull(p, q) \/ Copy(p, q) \/ Weaken(p, q) \/ Move(p, q) \/ LockLoad(p, q)
  BY DEF Next
<1>2. CASE DestroyNull(p)
  BY <1>2, NullStep
<1>3. CASE Release(p)
  BY <1>3, ReleaseStep, ReleaseLastStep
<1>4. CASE DestroyObject(p)
  BY <1>4, DestroyObjectStep, DestroySharedStep
<1>5. CASE Drop(p)
  BY <1>5, DropStep, DropLastStep
<1>6. CASE ReleaseWeak(p)
  BY <1>6, ReleaseWeakStep, ReleaseWeakLastStep
<1>7. CASE Free(p) \/ LockExpired(p) \/ LockCas(p) \/ LockCasFails(p)
  BY <1>7, FreeStep, LockExpiredStep, LockCasStep, QuietStep
<1>8. ASSUME NEW q \in Ptrs, CopyNull(p, q) \/ Copy(p, q) \/ Weaken(p, q) \/ Move(p, q) \/ LockLoad(p, q)
      PROVE  IInv'
  BY <1>8, NullStep, CopyStep, WeakenStep, MoveStep, LockLoadStep
<1> QED
  BY <1>1, <1>2, <1>3, <1>4, <1>5, <1>6, <1>7, <1>8

\* The invariant holds in every state: the counts are exact (proxy.h:1232 to 1356).
THEOREM Invariant == Spec => []IInv
<1> QED
  BY InitInv, NextInv, PTL DEF Spec

\* A strong pointer always leads to an object that is alive, and one pointer destroys it.
THEOREM Alive == Spec => []StrongIsAlive
<1>1. IInv => StrongIsAlive
  BY DEF IInv, Closing, StrongIsAlive
<1> QED
  BY <1>1, Invariant, PTL

\* The storage outlasts every use of it and is deallocated once.
THEOREM Outlasts == Spec => []StorageOutlastsUse
<1>1. IInv => StorageOutlastsUse
  <2> SUFFICES ASSUME IInv PROVE StorageOutlastsUse
    OBVIOUS
  <2>1. In("locking") # {} => In("weak") # {}
    BY DEF IInv, Closing
  <2> QED
    BY <2>1 DEF IInv, Closing, StorageOutlastsUse
<1> QED
  BY <1>1, Invariant, PTL

\* Object and storage are gone when every pointer is.
THEOREM NoLeak == Spec => []NothingLeaks
<1>1. IInv => NothingLeaks
  <2> SUFFICES ASSUME IInv, In("gone") \cup In("null") = Ptrs PROVE ~alive /\ ~stored
    BY DEF NothingLeaks
  <2>1. \A p \in Ptrs : st[p] \in {"gone", "null"}
    BY DEF In
  <2>2. In("strong") = {} /\ In("weak") = {} /\ In("last") = {} /\ In("dropping") = {} /\ In("freeing") = {}
    BY <2>1 DEF In
  <2> QED
    BY <2>2 DEF IInv, Closing, Owned
<1> QED
  BY <1>1, Invariant, PTL

\* No lock gives an object to a new strong pointer once the count has been zero.
THEOREM NotRevived == Spec => NeverRevived
<1>1. IInv /\ [Next]_vars => [strong = 0 => strong' = 0]_vars
  <2> SUFFICES ASSUME IInv, Next, strong = 0 PROVE strong' = 0
    OBVIOUS
  <2>1. In("strong") = {}
    BY Sizes DEF IInv, Counted
  <2>2. \A p \in Ptrs : st[p] # "strong"
    BY <2>1 DEF In
  <2> QED
    BY <2>2 DEF Next, DestroyNull, Release, DestroyObject, Drop, ReleaseWeak, Free, LockExpired, LockCas,
                LockCasFails, CopyNull, Copy, Weaken, Move, LockLoad
<1> QED
  BY <1>1, Invariant, PTL DEF Spec, NeverRevived
=============================================================================
