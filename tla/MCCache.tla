------------------------------ MODULE MCCache ------------------------------
(* Three games; the last two share an asset. *)
EXTENDS Cache, TLC

CONSTANTS g1, g2, g3, a1, a2, a3, common

MCClosure == g1 :> {a1} @@ g2 :> {a2, common} @@ g3 :> {a3, common}
MCPrimary == g1 :> a1 @@ g2 :> a2 @@ g3 :> a3
MCSize == a1 :> 3 @@ a2 :> 1 @@ a3 :> 1 @@ common :> 2
=============================================================================
