------------------------------- MODULE MCRate -------------------------------
(* Instances of Rate for TLC. *)
EXTENDS Rate

Pictures == {[ceiling |-> 12], [ceiling |-> 16]}
Camera == [setting |-> None, simulcast |-> "off", label |-> "camera", e2ee |-> FALSE]
AllSets == {Camera,
            [Camera EXCEPT !.setting = 8],
            [Camera EXCEPT !.setting = 8, !.simulcast = "auto"],
            [Camera EXCEPT !.label = "screenshare", !.simulcast = "auto"]}
\* For Heeded, see README.md.
Encrypted == {[Camera EXCEPT !.simulcast = "on", !.e2ee = TRUE]}
AllPaths == {[carries |-> 20, delay |-> 1], [carries |-> 20, delay |-> 6], [carries |-> 5, delay |-> 1]}
NoRaces == {}
=============================================================================
