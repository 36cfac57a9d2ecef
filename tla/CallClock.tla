----------------------------- MODULE CallClock -----------------------------
(***************************************************************************)
(* What the page keeps of a call (static/galene.js): who is there, the     *)
(* clock that runs since there were two (callStart), the check that drops  *)
(* it two minutes after the last other left, and the chat, wiped when a    *)
(* conversation of two is over.                                            *)
(***************************************************************************)
EXTENDS Naturals, FiniteSets

\* users: the others; start: which call the clock is of; box: how often the
\* chat shows what was said.  met is the most people there ever were, through
\* reconnections too; peak is what the page knows of that.
NoCall == [users |-> {}, start |-> 0, calls |-> 0, alone |-> FALSE,
           peak |-> 0, met |-> 0, box |-> 0]

ParticipantCount(c) == Cardinality(c.users) + 1
AtLeast(m, n) == IF n > m THEN n ELSE m

UpdateCallTimer(c) ==
    IF ParticipantCount(c) >= 2
    THEN [c EXCEPT !.alone = FALSE,
                   !.start = IF @ = 0 THEN c.calls + 1 ELSE @,
                   !.calls = IF c.start = 0 THEN @ + 1 ELSE @]
    ELSE IF c.start # 0 THEN [c EXCEPT !.alone = TRUE] ELSE c

ResetCallTimer(c) == [c EXCEPT !.alone = FALSE, !.start = 0]

\* The grace period is over.
AloneTooLong(c) ==
    [c EXCEPT !.alone = FALSE, !.start = IF ParticipantCount(c) < 2 THEN 0 ELSE @]

\* maybeClearChatOnSolo(): the last other has left what was a call of two.
Solo(c) == c.users = {} /\ c.peak <= 2

Added(c, U) ==
    LET d == [c EXCEPT !.users = @ \cup U]
        n == ParticipantCount(d)
    IN  UpdateCallTimer([d EXCEPT !.peak = AtLeast(@, n), !.met = AtLeast(@, n)])

\* gotUser(): somebody leaves; one who may not clear the room's chat clears
\* what is on screen.
Deleted(c, u, op) ==
    LET d == [c EXCEPT !.users = @ \ {u}]
    IN  UpdateCallTimer(IF Solo(d) /\ ~op THEN [d EXCEPT !.box = 0] ELSE d)

\* The connection is lost: protocol.js deletes every user, one after another.
EverybodyDeleted(c) ==
    IF c.users = {} THEN c
    ELSE UpdateCallTimer([c EXCEPT !.users = {}, !.box = IF c.peak <= 2 THEN 0 ELSE @])

JoinedRestarting(c, again, U, history) ==
    Added([ResetCallTimer(c) EXCEPT !.peak = 0, !.box = @ + history], U)

\* gotJoined(): "a reconnect keeps the clock it was already running".
JoinedCall(c, again, U, history) ==
    LET d == [c EXCEPT !.peak = 0, !.box = @ + history]
    IN  Added(UpdateCallTimer(IF again THEN d ELSE ResetCallTimer(d)), U)

\* setConnected(): another chat; or none, and the call is over.
ClearChat(c) == [c EXCEPT !.box = 0, !.met = 0]
=============================================================================
