---------------------------- MODULE RootedStore ----------------------------
(***************************************************************************)
(* What a chunk store promises those who write to it, each operation in a  *)
(* single step: a root and a set of chunks, which only a commit of a view  *)
(* moves, and only from the root that view believes in.                    *)
(***************************************************************************)

CONSTANTS View, Hash, EmptyHash

VARIABLES
  root,    \* the persisted root
  stored,  \* the addresses that resolve for every view
  open,    \* the views
  base,    \* the root each view believes in
  novel    \* the addresses each view has yet to commit

vars == <<root, stored, open, base, novel>>

Init ==
  /\ root = EmptyHash /\ stored = {}
  /\ open = {}
  /\ base = [v \in View |-> EmptyHash] /\ novel = [v \in View |-> {}]

Open(v) ==
  /\ v \notin open
  /\ open' = open \cup {v}
  /\ base' = [base EXCEPT ![v] = root]
  /\ UNCHANGED <<root, stored, novel>>

\* What has not been committed is gone.
Close(v) ==
  /\ v \in open
  /\ open' = open \ {v}
  /\ base' = [base EXCEPT ![v] = EmptyHash] /\ novel' = [novel EXCEPT ![v] = {}]
  /\ UNCHANGED <<root, stored>>

Put(v, h) ==
  /\ v \in open
  /\ novel' = [novel EXCEPT ![v] = @ \cup {h}]
  /\ UNCHANGED <<root, stored, open, base>>

Rebase(v) ==
  /\ v \in open
  /\ base' = [base EXCEPT ![v] = root]
  /\ UNCHANGED <<root, stored, open, novel>>

\* All of what is novel, and the root, at once.
Commit(v, r) ==
  /\ v \in open
  /\ base[v] = root
  /\ root' = r /\ stored' = stored \cup novel[v]
  /\ base' = [base EXCEPT ![v] = r] /\ novel' = [novel EXCEPT ![v] = {}]
  /\ UNCHANGED open

\* A view that is behind commits nothing, but believes in its own new root from then on.
FailedCommit(v, r) ==
  /\ v \in open
  /\ base[v] # root
  /\ base' = [base EXCEPT ![v] = r]
  /\ UNCHANGED <<root, stored, open, novel>>

Next ==
  \E v \in View :
    \/ Open(v) \/ Close(v) \/ Rebase(v)
    \/ \E h \in Hash : Put(v, h) \/ Commit(v, h) \/ FailedCommit(v, h)

Spec == Init /\ [][Next]_vars
=============================================================================
