-------------------------------- MODULE Desk --------------------------------
(***************************************************************************)
(* The desktop application around the operator's page (desktop/src/main.js *)
(* and knocks.js): what the page has told it of those who knock, and the   *)
(* notifications above other windows while its own is not the one in       *)
(* front.  A key is a room seen from the panel, or Row, the one who knocks *)
(* at the room the page is in.                                             *)
(***************************************************************************)
EXTENDS Naturals, Sequences, FiniteSets

Rooms == {1}
Names == {1, 2}
Row   == 0

\* out: outstanding, with the names told; wins: the notifications; up, down:
\* the messages between the page and the main process.
NoApp == [out |-> << >>, wins |-> {}, front |-> TRUE, duty |-> FALSE,
          up |-> << >>, down |-> << >>]

Without(f, key) == [k \in DOMAIN f \ {key} |-> f[k]]

\* show() and dismiss(): one window for each key; what is there is refreshed.
Raised(a, keys)    == [a EXCEPT !.wins = @ \cup keys]
Dismissed(a, keys) == [a EXCEPT !.wins = @ \ keys]

SyncNagging(a) == IF a.front THEN Dismissed(a, a.wins) ELSE Raised(a, DOMAIN a.out)

\* syncKnockWindows(): "one that was closed by hand stays closed".
Sync(a) ==
    IF a.front THEN Dismissed(a, a.wins)
    ELSE Raised(a, {k \in DOMAIN a.out : ~a.out[k].dismissed})

KnockArrived(a, key, text) ==
    LET seen == /\ key \in DOMAIN a.out
                /\ a.out[key].dismissed /\ a.out[key].text = text
        entry == [text |-> text, dismissed |-> seen]
    IN  Sync([a EXCEPT !.out = [k \in DOMAIN @ \cup {key} |-> IF k = key THEN entry ELSE @[k]]])

KnockGone(a, key) == Dismissed([a EXCEPT !.out = Without(@, key)], {key})

\* did-start-navigation: clearDuty() and knocksClear().  The page that goes
\* says and hears nothing more.
Navigated(a) == [NoApp EXCEPT !.front = a.front]

\* setHub(): the panel is up.
SetHub(a) == [a EXCEPT !.duty = TRUE]

\* A message of the page.
Heard(a) ==
    LET m == Head(a.up)
        b == [a EXCEPT !.up = Tail(@)]
    IN  CASE m.msg = "hub"   -> SetHub(b)
          [] m.msg = "knock" -> KnockArrived(b, m.key, m.text)
          [] m.msg = "gone"  -> KnockGone(b, m.key)

\* The window comes to the front, or another one does.
Looked(a, front) == Sync([a EXCEPT !.front = front])

\* A notification is answered, or closed by hand.
Pressed(a, key) ==
    Dismissed(Looked([a EXCEPT !.down = Append(@, key)], TRUE), {key})
ClosedByHand(a, key) == Dismissed([a EXCEPT !.out[key].dismissed = TRUE], {key})

Told(a, msg, key, text) ==
    [a EXCEPT !.up = Append(@, [msg |-> msg, key |-> key, text |-> text])]

\* Whether the application is to know of a knock, once it has heard everything.
Knows(a, key) ==
    LET about == {i \in DOMAIN a.up : a.up[i].key = key /\ a.up[i].msg # "hub"}
    IN  IF about = {} THEN key \in DOMAIN a.out
        ELSE \E i \in about : a.up[i].msg = "knock" /\ \A j \in about : j <= i
=============================================================================
