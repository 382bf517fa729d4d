------------------------------ MODULE MCMemory ------------------------------
(* What is handed out, for TLC.  Memory has a low block and one above it.   *)
(* The ranges of a bus driver are no part of it: a behaviour is either of   *)
(* memory or of the ranges, in two free ranges of which the second reaches  *)
(* past the addresses of 32 bits.                                           *)
EXTENDS Memory, Resources

TwoBlocks == << [start |-> 1, length |-> 4], [start |-> 6, length |-> 7] >>

TwoRanges == << [a |-> 1, l |-> 6], [a |-> 8, l |-> 5] >>

VARIABLE part

allvars == <<memvars, rangevars, part>>

HandedInit == MemInit /\ RangesInit /\ part \in {"memory", "ranges"}
HandedNext == \/ part = "memory" /\ MemNext /\ UNCHANGED <<rangevars, part>>
              \/ part = "ranges" /\ RangesNext /\ UNCHANGED <<memvars, part>>
HandedSpec == HandedInit /\ [][HandedNext]_allvars
=============================================================================
