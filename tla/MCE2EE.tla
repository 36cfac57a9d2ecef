------------------------------- MODULE MCE2EE -------------------------------
(* Instances of E2EE for TLC: a page a that stays, and a page b that comes *)
(* back once, before a in the order of identifiers or after it.            *)
EXTENDS E2EE, TLC

CONSTANTS a, b

TwiceForB == (a :> {2}) @@ (b :> {1, 3})
BMayBeNewer == {(a :> 1) @@ (b :> v) : v \in {1, 2}}
=============================================================================
