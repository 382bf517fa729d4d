---------------------------- MODULE BoundedFifo ----------------------------
(***************************************************************************)
(* What a mailbox promises: values leave in the order they came, at most   *)
(* Capacity of them wait, and none is lost, duplicated or made up.         *)
(***************************************************************************)
EXTENDS Naturals, Sequences

CONSTANTS Values, Capacity

VARIABLE q

Init == q = <<>>

Put(v) == Len(q) < Capacity /\ q' = Append(q, v)

Take == q # <<>> /\ q' = Tail(q)

Next == Take \/ \E v \in Values : Put(v)

Spec == Init /\ [][Next]_q
=============================================================================
