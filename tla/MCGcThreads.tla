---------------------------- MODULE MCGcThreads ----------------------------
(* GcThreads for TLC. *)
EXTENDS GcThreads
=============================================================================
