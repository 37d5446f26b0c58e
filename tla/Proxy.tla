-------------------------------- MODULE Proxy --------------------------------
(***************************************************************************)
(* The life of pro::proxy values, which hold every interface of nomp.  An  *)
(* operation is a composition of steps on one record of the memory, so     *)
(* that what a step leaves half done is there when the next one fails.     *)
(***************************************************************************)

CONSTANTS
  Proxies,        \* proxies that may exist
  Temp,           \* the temporary of an assignment or a swap
  Objects,        \* places for the objects they hold
  Values,         \* what an object may be worth
  InPlace, Heap,  \* inplace_ptr: the object is in the proxy; compact_ptr: in storage of its own
  MoveThrows,     \* whether an object in place may throw when it is moved: nontrivial relocatability
  None,           \* meta_ of a proxy without a value
  Null, Moved     \* a pointer moved from; an object moved from

Kinds == {InPlace, Heap}
Slots == Proxies \cup {Temp}

\* Assumed of the instances.
ProxyAssumption ==
  /\ Temp \notin Proxies /\ None \notin Kinds \cup Values /\ InPlace # Heap
  /\ Null \notin Objects /\ Moved \notin Values /\ MoveThrows \in BOOLEAN

VARIABLES
  mem,   \* up: the proxies in life; meta and ptr: their members; live: the objects in life;
         \* val: what these are worth; blocks: storage allocated; fault: an object was destroyed or used when dead
  want   \* history: what each proxy was given

vars == <<mem, want>>

Init ==
  /\ mem = [up |-> {}, meta |-> [s \in Slots |-> None], ptr |-> [s \in Slots |-> Null],
            live |-> {}, val |-> [o \in Objects |-> Moved], blocks |-> {}, fault |-> FALSE]
  /\ want = [p \in Proxies |-> None]
-----------------------------------------------------------------------------
Fresh(m) == CHOOSE o \in Objects : o \notin m.live \cup m.blocks

\* construct_at of a pointer of kind k to a new object, and of the meta data.
Construct(m, s, k, v) ==
  LET o == Fresh(m) IN
  [m EXCEPT !.live = @ \cup {o}, !.val[o] = v, !.ptr[s] = o, !.meta[s] = k,
            !.blocks = IF k = Heap THEN @ \cup {o} ELSE @]

\* A constructor that throws: a unique_ptr gives the storage back.
\* Mutation: the storage stays allocated.
FailedLeaks(m, k) == IF k = Heap THEN [m EXCEPT !.blocks = @ \cup {Fresh(m)}] ELSE m
Failed(m, k) == m

\* The destructor of an object, which gives its storage back if it has any.
Deallocate(m, o) == [m EXCEPT !.live = @ \ {o}, !.blocks = @ \ {o}, !.val[o] = Moved]

\* The destructor of the pointer in s, of an object with it unless it was moved from.
DestroyPointer(m, s) ==
  LET o == m.ptr[s] IN
  IF o = Null THEN m
  ELSE [Deallocate(m, o) EXCEPT !.fault = @ \/ o \notin m.live \/ (m.meta[s] = Heap /\ o \notin m.blocks)]

\* ~proxy leaves meta_ as it is: a destructor for memory that is given up.
Destruct(m, s) == IF m.meta[s] = None THEN m ELSE DestroyPointer(m, s)
Reset(m, s) == [Destruct(m, s) EXCEPT !.meta[s] = None]

\* copy_dispatch on a const pointer, into a proxy without a value.
CopyInto(m, s, t) ==
  LET n == [m EXCEPT !.meta[s] = None, !.fault = @ \/ (m.meta[t] # None /\ m.ptr[t] \notin m.live)]
  IN  IF n.meta[t] = None THEN n ELSE Construct(n, s, n.meta[t], n.val[n.ptr[t]])

\* copy_dispatch on a pointer that is moved from: one to storage goes over, one in a proxy makes an object there.
HeapMoved(m, s, t) == [m EXCEPT !.ptr[s] = m.ptr[t], !.ptr[t] = Null, !.meta[s] = Heap]
InPlaceMoved(m, s, t) ==
  LET o == m.ptr[t]
  IN  [Construct(m, s, InPlace, m.val[o]) EXCEPT !.val[o] = Moved, !.fault = @ \/ o \notin m.live]
Relocate(m, s, t) == IF m.meta[t] = Heap THEN HeapMoved(m, s, t) ELSE InPlaceMoved(m, s, t)

\* A call on a proxy that is moved from destroys its pointer at the end, and resets its meta data.
Called(m, t) == DestroyPointer(m, t)
Invoked(m, t) == [Called(m, t) EXCEPT !.meta[t] = None]

\* proxy(proxy&&): meta_ starts empty, also that of a proxy moved into itself.
\* Mutation: the source keeps its meta data.
MoveIntoKeeps(m, s, t) ==
  LET n == [m EXCEPT !.meta[s] = None]
  IN  IF n.meta[t] = None THEN n ELSE Called(Relocate(n, s, t), t)
MoveInto(m, s, t) ==
  LET n == [m EXCEPT !.meta[s] = None]
  IN  IF n.meta[t] = None THEN n ELSE Invoked(Relocate(n, s, t), t)

\* The object in t may throw when it is moved.  It is destroyed all the same, and the new proxy is without a value.
MayThrow(m, t) == MoveThrows /\ m.meta[t] = InPlace
MoveFails(m, s, t) == Invoked([m EXCEPT !.meta[s] = None], t)

\* operator=(proxy&&)
MoveOver(m, s, t) == IF s = t THEN m ELSE MoveInto(Reset(m, s), s, t)

\* The end of an assignment from a temporary.
FromTemp(m, s) == Reset(MoveOver(m, s, Temp), Temp)
FromTempFails(m, s) == MoveFails(Reset(m, s), s, Temp)
-----------------------------------------------------------------------------
Up(p) == p \in mem.up
Begins(m, p) == [m EXCEPT !.up = @ \cup {p}]

ConstructEmpty(p) ==
  /\ ~Up(p)
  /\ mem' = Begins([mem EXCEPT !.meta[p] = None], p)
  /\ want' = [want EXCEPT ![p] = None]

\* make_proxy, and the constructors from a pointer.
Make(p, k, v) ==
  /\ ~Up(p)
  /\ \/ mem' = Begins(Construct(mem, p, k, v), p) /\ want' = [want EXCEPT ![p] = v]
     \/ mem' = Failed(mem, k) /\ UNCHANGED want

CopyConstruct(p, q) ==
  /\ ~Up(p) /\ Up(q)
  /\ \/ mem' = Begins(CopyInto(mem, p, q), p) /\ want' = [want EXCEPT ![p] = want[q]]
     \/ mem.meta[q] # None /\ mem' = Failed(mem, mem.meta[q]) /\ UNCHANGED want

MoveConstruct(p, q) ==
  /\ ~Up(p) /\ Up(q)
  /\ \/ /\ mem' = Begins(MoveInto(mem, p, q), p)
        /\ want' = [want EXCEPT ![p] = want[q], ![q] = None]
     \/ MayThrow(mem, q) /\ mem' = MoveFails(mem, p, q) /\ want' = [want EXCEPT ![q] = None]

Destroy(p) ==
  /\ Up(p)
  /\ mem' = [Destruct(mem, p) EXCEPT !.up = @ \ {p}, !.meta[p] = None]
  /\ want' = [want EXCEPT ![p] = None]

\* operator=(nullptr) and reset.
AssignNull(p) == Up(p) /\ mem' = Reset(mem, p) /\ want' = [want EXCEPT ![p] = None]

\* A copy is made first, and only then is the old value given up.  The copy is lost, too, if moving it throws.
\* Mutation: the old value is given up first.
CopyAssignInPlace(p, q) ==
  /\ Up(p) /\ Up(q) /\ p # q
  /\ \/ mem' = CopyInto(Reset(mem, p), p, q) /\ want' = [want EXCEPT ![p] = want[q]]
     \/ mem.meta[q] # None /\ mem' = Failed(Reset(mem, p), mem.meta[q]) /\ UNCHANGED want
CopyAssign(p, q) ==
  /\ Up(p) /\ Up(q) /\ p # q
  /\ \/ mem' = FromTemp(CopyInto(mem, Temp, q), p) /\ want' = [want EXCEPT ![p] = want[q]]
     \/ mem.meta[q] # None /\ mem' = Failed(mem, mem.meta[q]) /\ UNCHANGED want
     \/ /\ MayThrow(mem, q) /\ mem' = FromTempFails(CopyInto(mem, Temp, q), p)
        /\ want' = [want EXCEPT ![p] = None]

MoveAssign(p, q) ==
  /\ Up(p) /\ Up(q)
  /\ \/ /\ mem' = MoveOver(mem, p, q)
        /\ want' = IF p = q THEN want ELSE [want EXCEPT ![p] = want[q], ![q] = None]
     \/ /\ p # q /\ MayThrow(mem, q) /\ mem' = MoveFails(Reset(mem, p), p, q)
        /\ want' = [want EXCEPT ![p] = None, ![q] = None]

\* operator=(P&&): in place where P is constructed without an exception.
AssignPointer(p, k, v) ==
  /\ Up(p)
  /\ \/ mem' = Construct(Destruct(mem, p), p, k, v) /\ want' = [want EXCEPT ![p] = v]
     \/ mem' = FromTemp(Construct(mem, Temp, k, v), p) /\ want' = [want EXCEPT ![p] = v]
     \/ mem' = Failed(mem, k) /\ UNCHANGED want
     \/ /\ MoveThrows /\ k = InPlace /\ mem' = FromTempFails(Construct(mem, Temp, k, v), p)
        /\ want' = [want EXCEPT ![p] = None]

\* The old value is gone when the new one cannot be made.
Emplace(p, k, v) ==
  /\ Up(p)
  /\ \/ mem' = Construct(Reset(mem, p), p, k, v) /\ want' = [want EXCEPT ![p] = v]
     \/ mem' = Failed(Reset(mem, p), k) /\ want' = [want EXCEPT ![p] = None]

Swapped(m, p, q) ==
  IF m.meta[p] # None /\ m.meta[q] # None
  THEN LET t == MoveInto(m, Temp, p) IN Reset(MoveInto(MoveInto(t, p, q), q, Temp), Temp)
  ELSE IF m.meta[p] # None THEN MoveInto(m, q, p)
  ELSE IF m.meta[q] # None THEN MoveInto(m, p, q) ELSE m
Swap(p, q) ==
  /\ Up(p) /\ Up(q)
  /\ mem' = Swapped(mem, p, q)
  /\ want' = [want EXCEPT ![p] = want[q], ![q] = want[p]]

\* One of the three moves of a swap throws, or its only one.  The second one takes the temporary along.
SwapThrows(p, q) ==
  /\ Up(p) /\ Up(q)
  /\ LET t == MoveInto(mem, Temp, p)
         both == mem.meta[p] # None /\ mem.meta[q] # None
     IN  \/ /\ both /\ MayThrow(mem, p) /\ mem' = MoveFails(mem, Temp, p)
            /\ want' = [want EXCEPT ![p] = None]
         \/ /\ both /\ MayThrow(t, q) /\ mem' = Reset(MoveFails(t, p, q), Temp)
            /\ want' = [want EXCEPT ![p] = None, ![q] = None]
         \/ /\ both /\ MayThrow(mem, p) /\ mem' = MoveFails(MoveInto(t, p, q), q, Temp)
            /\ want' = [want EXCEPT ![p] = want[q], ![q] = None]
         \/ \E r, s \in {p, q} :
              /\ mem.meta[s] = None /\ MayThrow(mem, r) /\ mem' = MoveFails(mem, s, r)
              /\ want' = [want EXCEPT ![r] = None]

Next ==
  \E p \in Proxies :
    \/ ConstructEmpty(p) \/ Destroy(p) \/ AssignNull(p)
    \/ \E k \in Kinds, v \in Values : Make(p, k, v) \/ AssignPointer(p, k, v) \/ Emplace(p, k, v)
    \/ \E q \in Proxies :
         CopyConstruct(p, q) \/ MoveConstruct(p, q) \/ CopyAssign(p, q) \/ MoveAssign(p, q)
         \/ Swap(p, q) \/ SwapThrows(p, q)

Spec == Init /\ [][Next]_vars
-----------------------------------------------------------------------------
Full == {s \in Slots : mem.meta[s] # None}

(***************************************************************************)
(* Between two operations every object has one proxy, and storage exactly  *)
(* when it is not in place: none is shared, none is lost, whatever was     *)
(* moved, swapped or could not be constructed (proxy.h:936 to 1107).       *)
(***************************************************************************)
OneProxyPerObject ==
  /\ mem.live = {mem.ptr[s] : s \in Full}
  /\ mem.blocks = {mem.ptr[s] : s \in {t \in Full : mem.meta[t] = Heap}}
  /\ \A s, t \in Full : mem.ptr[s] = mem.ptr[t] => s = t

(***************************************************************************)
(* No step inside an operation destroys an object that is dead already, or *)
(* copies or moves from one (proxy.h:189, 762 and 1037).                   *)
(***************************************************************************)
DestroyedOnce == ~mem.fault

(***************************************************************************)
(* A proxy is worth what it was last given.  A copy that throws leaves     *)
(* both proxies as they were (proxy.h:1003), a swap with itself too, and   *)
(* emplace that throws leaves the proxy empty (proxy.h:1081).  A move that *)
(* throws costs the value it moves and, in an assignment (lines 1003 and   *)
(* 1017), the old one of the target; a swap loses both if its second move  *)
(* throws (line 1064), and no other proxy loses any.                       *)
(***************************************************************************)
WorthWhatItWasGiven ==
  \A p \in mem.up : want[p] = IF mem.meta[p] = None THEN None ELSE mem.val[mem.ptr[p]]
=============================================================================
