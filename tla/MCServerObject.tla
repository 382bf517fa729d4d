--------------------------- MODULE MCServerObject ---------------------------
(* ServerObject for TLC: who calls whom. *)
EXTENDS ServerObject, TLC

CONSTANTS A, B, k1, k2, c1, c2, c3, nested, own

(* A client makes two calls of a server, a method of which calls another.   *)
LiveCaller == c1 :> k1 @@ c2 :> k1 @@ nested :> A
LiveTarget == c1 :> A @@ c2 :> A @@ nested :> B

(* Two clients of one server, a method of which calls another of its own;   *)
(* one of them also calls another server.                                   *)
RaceCaller == c1 :> k1 @@ c2 :> k2 @@ c3 :> k1 @@ own :> A
RaceTarget == c1 :> A @@ c2 :> A @@ c3 :> B @@ own :> A
=============================================================================
