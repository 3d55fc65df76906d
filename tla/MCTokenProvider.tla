--------------------------- MODULE MCTokenProvider ---------------------------
(* A small instance of TokenProvider. *)
EXTENDS TokenProvider, TLC

CONSTANTS c1, c2, c3, g1

ThreeOnOneGrant == (c1 :> g1) @@ (c2 :> g1) @@ (c3 :> g1)
=============================================================================
