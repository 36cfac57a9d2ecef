---------------------------- MODULE MCAuthLimit -----------------------------
(* Two users share an address, a third has its own.                        *)
EXTENDS AuthLimit, TLC

CONSTANTS u, v, w

SharedAddress == (u :> "home") @@ (v :> "home") @@ (w :> "cafe")
=============================================================================
