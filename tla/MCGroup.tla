------------------------------ MODULE MCGroup -------------------------------
(* Instances of Group for TLC: an operator o and guests g and h.           *)
EXTENDS Group, TLC

CONSTANTS o, g, h

OneOpOneGuest  == (o :> {"op"}) @@ (g :> {"guest"})

\* h was invited; or h may knock as well.
OneInvited   == (o :> {"op"}) @@ (g :> {"guest"}) @@ (h :> {"token"})
MayBeInvited == (o :> {"op"}) @@ (g :> {"guest"}) @@ (h :> {"guest", "token"})

Once   == [c \in Clients |-> 1]
OpOnce == [c \in Clients |-> IF c = o THEN 1 ELSE 2]
=============================================================================
