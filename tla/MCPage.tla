------------------------------- MODULE MCPage -------------------------------
(* Instances of Page for TLC. *)
EXTENDS Page, TLC

\* Tokens 1..n are there from the beginning; link, remember and session say
\* which of them is which.
Beside(who, room, name, kinds, link, remember, session, beside, storage, max) ==
    [who |-> who, room |-> room, name |-> name,
     kinds |-> [t \in Tok |-> IF t \in DOMAIN kinds THEN kinds[t] ELSE ""],
     link |-> link, remember |-> remember, session |-> session, beside |-> beside, storage |-> storage, max |-> max]

Bounds(l, p, e) == [losses |-> l, presses |-> p, events |-> e]

Case(who, room, name, kinds, link, remember, session) ==
    Beside(who, room, name, kinds, link, remember, session, "", TRUE, Bounds(3, 3, 2))

AllCases == {
    Case("guest", "plain", FALSE, <<"invite">>, 1, 0, 0),
    Case("guest", "lobby", FALSE, <<>>, 0, 0, 0),
    Case("guest", "child", FALSE, <<"invite">>, 1, 0, 0),
    Case("guest", "child", TRUE, <<"invite">>, 1, 0, 0),
    Beside("op", "hub", FALSE, <<"remember">>, 0, 1, 0, "", TRUE, Bounds(2, 3, 2)),
    Beside("op", "hub", FALSE, <<>>, 0, 0, 0, "", TRUE, Bounds(2, 3, 2)),
    Beside("op", "lobby", FALSE, <<"remember">>, 0, 1, 0, "", TRUE, Bounds(2, 3, 2)),
    Beside("op", "child", FALSE, <<"invite", "remember", "session">>, 1, 2, 3, "", TRUE, Bounds(3, 3, 1)),
    Beside("op", "lobby", FALSE, <<"remember">>, 0, 1, 0, "load", TRUE, Bounds(1, 1, 0)),
    Beside("op", "lobby", FALSE, <<"remember">>, 0, 1, 0, "load", FALSE, Bounds(1, 1, 0)),
    Beside("guest", "plain", FALSE, <<>>, 0, 0, 0, "away", TRUE, Bounds(2, 1, 4)),
    Beside("guest", "plain", FALSE, <<>>, 0, 0, 0, "clock", TRUE, Bounds(2, 1, 5)),
    Beside("op", "plain", FALSE, <<>>, 0, 0, 0, "clock", TRUE, Bounds(2, 1, 5)),
    Beside("op", "hub", FALSE, <<"remember">>, 0, 1, 0, "desk", TRUE, Bounds(1, 2, 3)),
    Beside("op", "lobby", FALSE, <<"remember">>, 0, 1, 0, "desk", TRUE, Bounds(0, 5, 1)) }
NoRaces == {}
=============================================================================
