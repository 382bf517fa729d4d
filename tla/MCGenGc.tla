------------------------------ MODULE MCGenGc ------------------------------
(* The heap and its trees for TLC: one class of two slots of two cells, of  *)
(* which the second is not cleared, memory that is taken for references to  *)
(* the second slot of the first array, and a tree in which keys are         *)
(* repeated.                                                                *)
EXTENDS HeapTrees

Sizes == <<2>>
Counts == <<2>>
Data == <<1>>
Memory == [c \in HeapStart..(HeapEnd - 1) |-> 9]
Keys == <<1, 2, 2, 3, 3, 4, 5>>
=============================================================================
