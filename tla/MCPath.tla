------------------------------- MODULE MCPath -------------------------------
(* Instances of Path for TLC: a relay over TCP to fall back to or none, a   *)
(* page that starts at home, and has perhaps been elsewhere before.          *)
EXTENDS Path

CONSTANTS a, b

WithAndWithoutTcp == {{"udp", "tcp"}, {"udp"}}
TwoNets == {"wifi", "mobile"}
AtHome == {"wifi"}
Elsewhere == {{}, {"mobile"}}
\* For UdpWhereItWorks, see README.md.
HereBefore == {{"wifi"}}
NoRaces == {}
=============================================================================
