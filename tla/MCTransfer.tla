----------------------------- MODULE MCTransfer -----------------------------
(* Instances of Transfer for TLC: a sends x to b, and y to itself.          *)
EXTENDS Transfer, TLC

CONSTANTS a, b, x, y

ToOther  == (x :> b) @@ (y :> a)
ByA      == (x :> a) @@ (y :> a)
Chunks   == (x :> 2) @@ (y :> 1)
Empty    == (x :> 0) @@ (y :> 1)
=============================================================================
