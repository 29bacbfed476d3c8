--------------------------- MODULE MCSessionStore ---------------------------
(***************************************************************************)
(* Model checking SessionStore: two processes; the first saves records 1   *)
(* and 2, the second 2 and 3; records 1 and 3 share a scope.               *)
(***************************************************************************)
EXTENDS SessionStore, TLC

CONSTANTS p1, p2, sA, sB

MCSavers == 1 :> {p1} @@ 2 :> {p1, p2} @@ 3 :> {p2}

MCScopeOf == 1 :> sA @@ 2 :> sB @@ 3 :> sA
=============================================================================
