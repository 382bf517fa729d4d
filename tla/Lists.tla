-------------------------------- MODULE Lists --------------------------------
(***************************************************************************)
(* LinkedList and Queue of collections/Lists.cs: a chain of nodes as the   *)
(* sequence of its items.  Add is Append.                                  *)
(***************************************************************************)
EXTENDS Integers, Sequences

Contains(q, x) == \E i \in 1 .. Len(q) : q[i] = x

(* _find: the position of the first node that holds x. *)
Find(q, x) ==
  CHOOSE k \in 1 .. Len(q) : q[k] = x /\ \A j \in 1 .. k - 1 : q[j] # x

(* _remove: the chain without its k-th node. *)
RemoveNode(q, k) == SubSeq(q, 1, k - 1) \o SubSeq(q, k + 1, Len(q))

(* Remove: the first node that holds x, if there is one. *)
Remove(q, x) == IF Contains(q, x) THEN RemoveNode(q, Find(q, x)) ELSE q

NoDuplicates(q) == \A i, j \in 1 .. Len(q) : q[i] = q[j] => i = j
=============================================================================
