---------------------------- MODULE MCRingBuffer ----------------------------
(* RingBuffer for TLC.  The values are only stored and compared, and the    *)
(* threads of one kind run the same code, so both may be permuted (in the   *)
(* runs that check no liveness).                                            *)
EXTENDS RingBuffer, TLC

Symmetry ==
  Permutations(Values) \cup Permutations(Producers) \cup Permutations(Consumers)
=============================================================================
