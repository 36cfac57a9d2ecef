------------------------------- MODULE Page --------------------------------
(***************************************************************************)
(* The page of one user (static/galene.js) between its login card, the     *)
(* waiting room, the call and the operator's panel: the probe of a link,   *)
(* the reconnections, the tokens that replace a password, the camera that  *)
(* must come back with the call, and the people who knock.  What the page  *)
(* shows and what it is are two different things, and here the first is    *)
(* kept true to the second.  Signalling resume is below (Resume): what is  *)
(* lost here is lost for good.                                             *)
(***************************************************************************)
EXTENDS Naturals, Sequences, FiniteSets, FiniteSetsExt, LoadGuard, Away, CallClock, Desk

CONSTANTS Cases,       \* who opens the page, where, and with what (Init)
          MaxTokens,   \* how many tokens there ever are
          MaxTries,    \* RECONNECT_MAX_ATTEMPTS
          Races        \* the races that are let happen (README)

Tok  == 1..MaxTokens
None == 0
Pw   == MaxTokens + 1   \* credentials that are a name and a password

TokenKinds == {"", "invite", "session", "remember"}

\* What is stored is what it was minted for; and a device has no other token
\* to be remembered by than the one it has stored.  A page that loads has its
\* link stored already.
CaseOK(c) ==
    /\ c.kinds \in [Tok -> TokenKinds]
    /\ {c.remember, c.session, c.link} \subseteq Tok \cup {None}
    /\ \A t \in Tok : c.kinds[t] = "remember" <=> c.remember = t
    /\ c.session # None => c.kinds[c.session] = "session"
    /\ c.beside = "load" => c.link = None

ASSUME PageAssumption ==
    /\ MaxTokens \in Nat /\ MaxTries \in Nat
    /\ \A c \in Cases : CaseOK(c)

VARIABLES s,        \* the page, with what the browser stores for it
          srv,      \* the server: its tokens, who knocks, what it has to say
          old,      \* the close event of an earlier connection is to come
          case,     \* what the page was opened for, with the bounds of the case: how
                    \* many connections are lost, how often the user acts, and others do
          used      \* what has been used of the bounds

vars == <<s, srv, old, case, used>>

\* The page as its script begins.  sent: the camera is being sent; had: the
\* call that was lost, and is to come back, was sending it.
Fresh == [st |-> "none", cred |-> None, named |-> FALSE, adm |-> FALSE,
          want |-> FALSE, rec |-> FALSE, timer |-> FALSE, tries |-> 0, last |-> None,
          token |-> None, probing |-> "null", usingR |-> FALSE, fallback |-> None,
          pend |-> "none", present |-> FALSE,
          card |-> FALSE, waiting |-> FALSE, call |-> FALSE, dash |-> FALSE, rejoin |-> FALSE,
          sr |-> FALSE, prev |-> None, ss |-> FALSE, silent |-> 0,
          sent |-> FALSE, had |-> FALSE, noted |-> "null", row |-> FALSE, out |-> <<>>,
          remember |-> None, session |-> None, stash |-> None,
          load |-> Uncovered, reloads |-> 0, tr |-> InFront, told |-> "?", msg |-> "",
          bg |-> FALSE, cl |-> NoCall,
          app |-> NoApp, handlers |-> {}, knockers |-> [r \in Rooms |-> {}], toasts |-> {}]

Kind(t) == IF t \in Tok THEN srv.kind[t] ELSE ""

\* loadOperatorSession() and loadRememberToken(): not what has expired.
Session(p)  == IF p.session \in srv.lapsed THEN None ELSE p.session
Remember(p) == IF p.remember \in srv.lapsed THEN None ELSE p.remember

OpHere(p) == Kind(p.cred) \in {"session", "remember"} \/ (p.cred = Pw /\ case.who = "op")

-----------------------------------------------------------------------------
(* What the handlers are made of.                                          *)

Ask(p, what, t) == [p EXCEPT !.out = Append(@, [req |-> what, t |-> t])]

RevokeAloud(p, t) == IF t # None /\ p.st = "in" THEN Ask(p, "revoke", t) ELSE p

\* revokeToken(): only one who is in, and may.
Revoke(p, t) ==
    IF t # None /\ p.st = "in" /\ OpHere(p)
    THEN [Ask(p, "revoke", t) EXCEPT !.silent = @ + 1]
    ELSE p

StopReconnect(p) == [p EXCEPT !.rec = FALSE, !.tries = 0, !.timer = FALSE, !.tr = Back(@)]

\* hostKnock(), hostKnockGone() and hostHub(): there is an application to tell.
\* What it does not know of is not withdrawn: nothing would come of that.
HostKnock(p, key, text) ==
    IF case.beside # "desk" THEN p
    ELSE [p EXCEPT !.handlers = @ \cup {key}, !.app = Told(@, "knock", key, text)]
HostKnockGone(p, key) ==
    [p EXCEPT !.handlers = @ \ {key}, !.app = IF Knows(@, key) THEN Told(@, "gone", key, {}) ELSE @]
HostHub(p) == IF case.beside # "desk" THEN p ELSE [p EXCEPT !.app = Told(@, "hub", Row, {})]

\* The same of every knock there is a handler for.
AllGone(a, keys) == FoldSet(LAMBDA k, b : IF Knows(b, k) THEN Told(b, "gone", k, {}) ELSE b, a, keys)
ClearKnocks(p) == [p EXCEPT !.row = FALSE, !.handlers = {}, !.app = AllGone(@, p.handlers)]

SetConnectedOn(p) == [p EXCEPT !.call = TRUE, !.card = FALSE, !.cl = ClearChat(@)]

SetConnectedOffHalf(p) == [ClearKnocks(p) EXCEPT !.call = FALSE, !.card = TRUE, !.silent = 0]

\* setConnected(false), with reflectRejoinOption() and leaveOperatorRoom().
SetConnectedOff(p) ==
    [ClearKnocks(p) EXCEPT !.call = FALSE, !.card = TRUE, !.dash = FALSE, !.toasts = {}, !.silent = 0,
        !.cl = ResetCallTimer(@),
        !.rejoin = p.last # None /\ ~p.usingR /\ p.probing = "null"]

ScheduleReconnectOnce(p) ==
    IF p.rec THEN p ELSE [p EXCEPT !.rec = TRUE, !.timer = TRUE, !.tries = @ + 1]

ScheduleReconnect(p) ==
    [p EXCEPT !.rec = TRUE, !.timer = TRUE, !.tr = Lost(@),
              !.tries = IF @ > MaxTries THEN @ ELSE @ + 1]

NoteSentMediaAlways(p) ==
    [p EXCEPT !.noted = IF ~p.want THEN "null" ELSE IF p.sent THEN "yes" ELSE "no"]

\* An attempt that never got in has nothing to say of what was sent.
NoteSentMedia(p) ==
    IF p.want /\ p.st # "in" THEN p
    ELSE [p EXCEPT !.noted = IF ~p.want THEN "null" ELSE IF p.sent THEN "yes" ELSE "no"]

GotClose(p) ==
    IF p.want /\ p.last # None THEN ScheduleReconnect(p) ELSE SetConnectedOff(StopReconnect(p))

\* The connection is no more.
Gone(p) == GotClose([NoteSentMedia(p) EXCEPT !.st = "gone", !.sent = FALSE,
                                             !.told = "?", !.cl = EverybodyDeleted(@)])

Close(p) == IF p.st \in {"none", "gone", "away"} THEN p ELSE [p EXCEPT !.st = "closing"]

Connect(p) == [p EXCEPT !.st = "opening", !.cred = None, !.adm = FALSE]

SendJoin(p, c, named) == [p EXCEPT !.st = "asked", !.cred = c, !.named = named, !.adm = FALSE]

-----------------------------------------------------------------------------
(* Joining.                                                                *)

\* A name that was edited is not the one the token is for.
DropToken(p, edited) ==
    IF p.token # None /\ p.usingR /\ edited
    THEN [p EXCEPT !.token = None, !.usingR = FALSE, !.probing = "null"] ELSE p

\* join(): with a token, first a probe, then in earnest.
JoinWith(p, tick) ==
    IF p.token # None
    THEN IF p.probing = "null" /\ case.room # "hub"
         THEN SendJoin([p EXCEPT !.probing = "probing"], p.token, FALSE)
         ELSE SendJoin([p EXCEPT !.probing = "null"], p.token, TRUE)
    ELSE SendJoin([p EXCEPT !.probing = "null", !.pend = IF tick THEN "tick" ELSE "no"],
                  Pw, TRUE)

Join(p, edited, tick) == JoinWith(DropToken(p, edited), tick)

\* freshRejoin(): the credentials to come back with.
FreshRejoin(p) ==
    IF p.last \in {None, Pw} THEN p.last
    ELSE IF Session(p) # None THEN Session(p)
    ELSE IF Remember(p) # None THEN Remember(p)
    ELSE p.last

RejoinAfterReconnect(p) ==
    LET c == FreshRejoin(p)
    IN  SendJoin([p EXCEPT !.last = c], c, TRUE)

ReconnectNow(p) ==
    LET q == [p EXCEPT !.timer = FALSE]
    IN  IF ~p.want \/ p.last = None THEN StopReconnect(q)
        ELSE IF p.tries > MaxTries /\ case.room # "hub"
             THEN SetConnectedOff(StopReconnect([q EXCEPT !.want = FALSE]))
        ELSE Connect(q)

-----------------------------------------------------------------------------
(* gotJoined().                                                            *)

Over(p) == StopReconnect([p EXCEPT !.want = FALSE])

\* rememberedRejoin().
Alternative(p) ==
    IF p.last \in {None, Pw} \/ Remember(p) \in {None, p.last} THEN None ELSE Remember(p)

RetryRemembered(p) ==
    RejoinAfterReconnect([p EXCEPT !.session = IF @ = p.last THEN None ELSE @,
                                   !.last = Alternative(p)])

Refused(p, why) ==
    LET q == [Over(p) EXCEPT !.pend = "none", !.waiting = FALSE]
        full == why = "full"
    IN  IF q.fallback # None /\ ~full
        THEN Join([q EXCEPT !.token = q.fallback, !.fallback = None, !.usingR = FALSE,
                            !.probing = "null"], FALSE, FALSE)
        ELSE IF q.probing = "probing" /\ why = "need-username"
        THEN Close([q EXCEPT !.probing = "need-username"])
        ELSE IF q.usingR
        THEN Close([q EXCEPT !.usingR = FALSE, !.token = None, !.probing = "null",
                             !.remember = IF case.room = "child" THEN @ ELSE None,
                             !.card = TRUE])
        ELSE Close([q EXCEPT !.token = None])

GotFail(p, why) ==
    CASE p.rec /\ why = "full" -> Close(p)
      [] p.rec /\ why # "full" /\ Alternative(p) # None -> RetryRemembered(p)
      [] OTHER -> Refused(p, why)

GotKnocking(p) == [StopReconnect(p) EXCEPT !.st = "lobby", !.card = FALSE, !.waiting = TRUE]

\* "rejoin": protocol.js sends the join again.
GotAdmitted(p) == [StopReconnect(p) EXCEPT !.st = "asked", !.adm = TRUE]

GotDeny(p) ==
    Close([Over(p) EXCEPT !.token = None, !.stash = None, !.waiting = FALSE])

\* The browser goes to another page.
GotRedirect(p) == [Over(p) EXCEPT !.token = None, !.st = "away"]

\* Remembering the device: a token is minted for it, and what it replaces is
\* revoked once the new one is here.
MintRemember(p) ==
    CASE p.pend = "none" -> p
      [] p.pend = "tick" /\ OpHere(p) /\ case.room # "child" ->
            [Ask(p, "remember", None) EXCEPT !.pend = "none", !.sr = TRUE, !.prev = Remember(p)]
      [] OTHER -> [p EXCEPT !.pend = "none", !.remember = IF case.room = "child" THEN @ ELSE None]

\* enterOperatorRoom(), with mintOperatorSession().
EnterOperatorRoom(p) ==
    LET q == [p EXCEPT !.dash = TRUE, !.knockers = [r \in Rooms |-> {}], !.toasts = {}]
    IN  IF p.dash THEN p
        ELSE IF Session(p) # None THEN q
        ELSE [Ask(q, "session", None) EXCEPT !.ss = TRUE]

\* publishAwayState(); a computer has nothing to say.
PublishAwayState(p, away) ==
    IF case.beside # "away" \/ p.st # "in" \/ p.told = (IF away THEN "yes" ELSE "no") THEN p
    ELSE Ask(p, "data", IF away THEN 1 ELSE 0)

GotJoin(p) ==
    IF p.probing = "probing" THEN Close([p EXCEPT !.probing = "success", !.waiting = FALSE])
    ELSE LET again == p.rec
             restore == IF p.rec THEN p.noted ELSE "null"
             q == MintRemember([StopReconnect(p) EXCEPT
                      !.st = "in", !.waiting = FALSE, !.token = None, !.usingR = FALSE,
                      !.fallback = None, !.want = TRUE, !.last = p.cred, !.noted = "null",
                      !.present = FALSE, !.out = <<[req |-> "roster", t |-> None]>>])
         IN  IF case.room = "hub" /\ OpHere(q) THEN EnterOperatorRoom(HostHub(q))
             ELSE PublishAwayState(
                      [q EXCEPT !.sent = restore = "yes" \/ p.present,
                                !.cl = JoinedCall(@, again, srv.others, srv.hist),
                                !.msg = IF ~again \/ case.beside # "away" THEN ""
                                        ELSE IF WasAway(p.tr) THEN "afterAway" ELSE "again"],
                      p.tr.hidden)

-----------------------------------------------------------------------------
(* The server.                                                             *)

\* What it does of what it is asked, and what it answers.
Serve(x, r) ==
    CASE r.req = "revoke" ->
            [x EXCEPT !.valid = @ \ {r.t}, !.mail = Append(@, [re |-> "list", t |-> None])]
      [] r.req = "admit" ->
            [x EXCEPT !.knocker = FALSE, !.mail = Append(@, [re |-> "knockcancel", t |-> None])]
      [] r.req = "roster" ->
            IF x.knocker /\ case.who = "op"
            THEN [x EXCEPT !.mail = Append(@, [re |-> "knock", t |-> None])]
            ELSE IF case.beside = "away"
            THEN [x EXCEPT !.away = 0, !.mail = Append(@, [re |-> "data", t |-> 0])] ELSE x
      [] r.req = "data" ->
            [x EXCEPT !.away = r.t, !.mail = Append(@, [re |-> "data", t |-> r.t])]
      [] r.req = "status" ->
            [x EXCEPT !.mail = Append(@, [re |-> "status", t |-> None, knocking |-> x.queue])]
      [] r.req = "clearchat" ->
            [x EXCEPT !.hist = 0, !.mail = Append(@, [re |-> "clearchat", t |-> None])]
      [] OTHER ->
            LET free == {t \in Tok : x.kind[t] = ""}
            IN  IF free = {}
                THEN [x EXCEPT !.mail = Append(@, [re |-> r.req, t |-> None])]
                ELSE LET n == CHOOSE t \in free : \A u \in free : t <= u
                     IN  [x EXCEPT !.valid = @ \cup {n}, !.kind[n] = r.req,
                                   !.mail = Append(@, [re |-> r.req, t |-> n])]

\* One after the other.
Served(x, out) ==
    LET after[n \in 0..Len(out)] == IF n = 0 THEN x ELSE Serve(after[n - 1], out[n])
    IN  after[Len(out)]

\* Whether the page was in the background when the call was lost, or since.
Background(p) ==
    IF ~p.want \/ p.st = "in" THEN FALSE
    ELSE IF s.st = "in" THEN p.tr.hidden \/ p.tr.recent ELSE s.bg \/ (p.rec /\ p.tr.hidden)

Had(p) == IF ~p.want \/ p.st = "in" THEN FALSE ELSE IF s.st = "in" THEN s.sent ELSE s.had

\* The page is now p; what it asked for has reached the server, unless the
\* socket was closed.  What the server says on a connection ends with it.
Turn(p) ==
    /\ s' = [p EXCEPT !.out = <<>>, !.had = Had(p), !.bg = Background(p)]
    /\ LET x == Served(srv, p.out)
       IN  srv' = IF p.st \in {"in", "closing"} THEN x ELSE [x EXCEPT !.mail = <<>>]

\* What may come of a join: an operator comes in, a guest may have to knock.
Verdicts ==
    LET token == s.cred # Pw
        room == case.room
    IN  IF token /\ s.cred \notin srv.valid THEN {"refused"}
        ELSE IF token /\ ~s.named /\ Kind(s.cred) = "invite" /\ ~case.name THEN {"need-username"}
        ELSE IF OpHere(s) THEN {"join"} \cup (IF token THEN {} ELSE {"refused"})
                                      \cup (IF "fullop" \in Races THEN {"full"} ELSE {})
        ELSE IF s.adm \/ room = "plain" THEN {"join", "full", "redirect"}
        ELSE IF room = "lobby" THEN {IF token THEN "join" ELSE "knock", "full", "refused"}
        ELSE IF room = "child" /\ token THEN {"knock", "full"}
        ELSE {"refused"}

\* The answer to a join.
Answer(v) ==
    /\ s.st = "asked" /\ v \in Verdicts
    /\ v = "knock" => (~s.rec \/ "lobby" \in Races) /\ (s.probing # "probing" \/ "probe" \in Races)
    /\ v = "refused" /\ s.dash /\ case.beside = "desk" => "duty" \in Races
    /\ Turn(CASE v = "join" -> GotJoin(s)
              [] v = "knock" -> GotKnocking(s)
              [] v = "redirect" -> GotRedirect(s)
              [] OTHER -> GotFail(s, v))
    /\ UNCHANGED <<case, old, used>>

\* The host decides on the one who knocks.
Admit == s.st = "lobby" /\ Turn(GotAdmitted(s)) /\ UNCHANGED <<case, old, used>>
Deny  == s.st = "lobby" /\ Turn(GotDeny(s)) /\ UNCHANGED <<case, old, used>>

-----------------------------------------------------------------------------
(* The connection.                                                         *)

\* gotConnected().  The event of an older connection comes before the new one
\* is up, unless the network is very slow.
Opened(edited, tick) ==
    /\ s.st = "opening" /\ (~old \/ "old" \in Races)
    /\ DropToken(s, edited).token = None /\ s.remember # None /\ ~(tick /\ case.who = "op")
          => "unticked" \in Races
    /\ edited => s.probing # "null"
    /\ Turn(IF s.rec /\ s.last # None THEN RejoinAfterReconnect(s)
            ELSE Join(SetConnectedOn(s), edited, tick))
    /\ UNCHANGED <<case, old, used>>

Closed    == s.st = "closing" /\ Turn(Gone(s)) /\ UNCHANGED <<case, old, used>>
OldClosed == old /\ old' = FALSE /\ Turn(GotClose(s)) /\ UNCHANGED <<case, used>>

\* A token that the page has asked for is still to come.
Unanswered == s.sr \/ s.ss

TimerFires == s.timer /\ Turn(ReconnectNow(s)) /\ UNCHANGED <<case, old, used>>

Lose ==
    /\ s.st \in {"opening", "asked", "lobby", "in"} /\ used.losses < case.max.losses
    /\ Unanswered => "flags" \in Races
    /\ s.row /\ ~srv.knocker => "knocks" \in Races
    /\ s.silent > 0 => "lists" \in Races
    /\ s.waiting /\ (~s.want \/ s.last = None) => "waiting" \in Races
    /\ EverybodyDeleted(s.cl).box > 0 => "replay" \in Races
    /\ s.cl.met > 2 /\ ParticipantCount(s.cl) = 2 => "drain" \in Races
    /\ Turn(Gone(s)) /\ used' = [used EXCEPT !.losses = @ + 1]
    /\ UNCHANGED <<case, old>>

-----------------------------------------------------------------------------
(* What the server says otherwise (gotUserMessage, gotKnock).              *)

GotToken(p, t) ==
    CASE p.sr -> [Revoke([p EXCEPT !.remember = t], p.prev) EXCEPT !.sr = FALSE, !.prev = None]
      [] ~p.sr /\ p.ss -> [p EXCEPT !.session = t, !.ss = FALSE]
      [] OTHER -> p

GotTokenError(p) ==
    CASE p.sr -> [p EXCEPT !.sr = FALSE]
      [] ~p.sr /\ p.ss -> [p EXCEPT !.ss = FALSE]
      [] OTHER -> p

Arrivals(prev, cur) == cur \ prev

DismissOperatorKnockToast(p, r) == HostKnockGone([p EXCEPT !.toasts = @ \ {r}], r)
OperatorKnockToast(p, r, names) == [HostKnock(p, r, names) EXCEPT !.toasts = @ \cup {r}]

\* renderOperatorRoom(): a room, and who knocks there now.
RenderRoom(p, r, cur) ==
    LET q == [p EXCEPT !.knockers[r] = cur]
    IN  IF Arrivals(p.knockers[r], cur) # {}
        THEN OperatorKnockToast(DismissOperatorKnockToast(q, r), r, cur)
        ELSE IF cur = {} THEN DismissOperatorKnockToast(q, r)
        ELSE q

\* All of them; it is about these four alone.
Rendered(p, knocking) == FoldSet(LAMBDA r, o : RenderRoom(o, r, knocking[r]), p, Rooms)
RenderRooms(p, knocking) ==
    LET q == Rendered(p, knocking)
    IN  [p EXCEPT !.knockers = q.knockers, !.toasts = q.toasts,
                  !.handlers = q.handlers, !.app = q.app]

Got(p, m) ==
    CASE m.re = "knock" -> IF p.row THEN p ELSE HostKnock([p EXCEPT !.row = TRUE], Row, {1})
      [] m.re = "knockcancel" -> HostKnockGone([p EXCEPT !.row = FALSE], Row)
      [] m.re = "status" -> RenderRooms(p, m.knocking)
      [] m.re = "data" -> [p EXCEPT !.told = IF m.t = 1 THEN "yes" ELSE "no"]
      [] m.re = "clearchat" -> [p EXCEPT !.cl.box = 0]
      [] m.re = "list" -> [p EXCEPT !.silent = IF @ > 0 THEN @ - 1 ELSE 0]
      [] OTHER -> IF m.t = None THEN GotTokenError(p) ELSE GotToken(p, m.t)

GotMail ==
    /\ s.st = "in" /\ srv.mail # <<>>
    /\ LET p == Got(s, Head(srv.mail))
       IN  /\ s' = [p EXCEPT !.out = <<>>]
           /\ srv' = Served([srv EXCEPT !.mail = Tail(@)], p.out)
    /\ UNCHANGED <<case, old, used>>

-----------------------------------------------------------------------------
(* The user.                                                               *)

\* There is nothing to press while the page is covered.
Press ==
    /\ s.load.phase = "shown"
    /\ used.presses < case.max.presses /\ used' = [used EXCEPT !.presses = @ + 1]

\* The login form.  It is there while a connection is being made or closed,
\* too; serverConnect() closes the one there is.
Submit(present) ==
    /\ s.card /\ ~s.rejoin /\ ~old /\ s.st \in {"none", "gone", "opening", "closing"} /\ Press
    /\ old' = (s.st \in {"opening", "closing"})
    /\ Turn(Connect([s EXCEPT !.present = present])) /\ UNCHANGED case

\* The "Rejoin" button: like a reconnection, on a click.
Rejoin(present) ==
    /\ s.card /\ s.rejoin /\ s.st = "gone" /\ Press /\ (~old \/ "old" \in Races)
    /\ Turn(Connect(SetConnectedOn([s EXCEPT !.present = present, !.want = TRUE, !.rec = TRUE])))
    /\ UNCHANGED <<case, old>>

\* "Log in as somebody else", and the link for operators.
RejoinOther   == s.card /\ s.rejoin /\ Press /\ Turn([s EXCEPT !.rejoin = FALSE]) /\ UNCHANGED <<case, old>>
OperatorLogin ==
    /\ s.card /\ s.token # None /\ Press
    /\ Turn([s EXCEPT !.token = None, !.usingR = FALSE, !.probing = "null"])
    /\ UNCHANGED <<case, old>>

\* The red button, and the commands that do the same.
HangUp ==
    /\ s.call /\ case.room # "hub" /\ Press /\ (s.st = "gone" => "hangup" \in Races)
    /\ Unanswered => "flags" \in Races
    /\ s.waiting => "waiting" \in Races
    /\ Turn(Close(Over(s))) /\ UNCHANGED <<case, old>>

\* operatorLogout(): the device is forgotten, and what it remembered revoked.
Logout ==
    /\ s.call /\ case.room = "hub" /\ Press /\ (s.st # "in" => "logout" \in Races)
    /\ case.beside = "desk" => "duty" \in Races
    /\ Unanswered => "flags" \in Races
    /\ Turn(Close(Over([Revoke(s, Remember(s)) EXCEPT !.session = None, !.remember = None,
                                 !.last = None, !.usingR = FALSE, !.token = None])))
    /\ UNCHANGED <<case, old>>

\* The camera button.
Camera == s.st = "in" /\ ~s.dash /\ Press /\ Turn([s EXCEPT !.sent = ~@]) /\ UNCHANGED <<case, old>>

\* A link for a client, from the panel.
CreateLink == s.st = "in" /\ s.dash /\ Press /\ Turn(Ask(s, "invite", None)) /\ UNCHANGED <<case, old>>

\* The buttons on the row of somebody who knocks.
AdmitKnocker == s.row /\ s.st = "in" /\ Press /\ Turn(Ask(s, "admit", None)) /\ UNCHANGED <<case, old>>

\* start(): the page is loaded, with a link or without.
Started(p, link) ==
    LET mine  == Session(p) # None \/ Remember(p) # None
        mine2 == IF Session(p) # None THEN Session(p) ELSE Remember(p)
        p1 == [p EXCEPT !.stash = IF link # None THEN link ELSE @,
                        !.fallback = IF mine THEN link ELSE None]
        t  == IF mine THEN mine2 ELSE p1.stash
        p2 == [p1 EXCEPT !.token = t, !.usingR = mine /\ Session(p) = None]
    IN  IF t # None THEN Connect(p2) ELSE [p2 EXCEPT !.card = TRUE]

Stored(p) == [Fresh EXCEPT !.remember = p.remember, !.session = p.session, !.stash = p.stash,
                          !.reloads = p.reloads, !.bg = FALSE, !.app = Navigated(p.app)]

\* The page is covered until it is loaded, or it is there.
Begin(p, link) ==
    IF case.beside = "load" THEN [p EXCEPT !.st = "blank", !.load = Loading] ELSE Started(p, link)

\* The page is loaded again; what it had asked for is not waited for.
Reload ==
    /\ Press /\ ~old /\ ~Unanswered
    /\ s' = Begin(Stored(s), None) /\ srv' = [srv EXCEPT !.mail = <<>>]
    /\ UNCHANGED <<case, old>>

-----------------------------------------------------------------------------
(* The page while it loads.                                                *)

\* A file arrives, or fails; the script runs as soon as it has arrived.
FileArrives(f, ok) ==
    /\ s.load.file[f] = ""
    /\ LET p == [s EXCEPT !.load.file[f] = IF ok THEN "ok" ELSE "bad"]
       IN  s' = IF f = "app" /\ ok THEN Started([p EXCEPT !.st = "none"], None) ELSE p
    /\ UNCHANGED <<srv, case, old, used>>

Guarded(l) ==
    LET a == Step(l, s.reloads, case.storage)
    IN  s' = [s EXCEPT !.load = a.load, !.reloads = a.reloads]

\* The window's "load", which comes "just the same when a stylesheet or
\* script failed"; and the timer of step(), once a second.
WindowLoads ==
    /\ Arrived(s.load) /\ ~s.load.loaded
    /\ Guarded([s.load EXCEPT !.loaded = TRUE])
GuardStep ==
    \E t \in s.load.time..2 :
        /\ s.load.phase = "loading" /\ t <= s.load.time + 1
        /\ Guarded([s.load EXCEPT !.time = t]) /\ s' # s

\* The page is loaded again, by itself or with the button.
LoadAgain(p) == s' = Begin(Stored(p), None)
Reloads == s.load.phase = "reloading" /\ LoadAgain(s)

Guard ==
    \/ WindowLoads /\ UNCHANGED <<srv, case, old, used>>
    \/ GuardStep /\ UNCHANGED <<srv, case, old, used>>
    \/ Reloads /\ srv' = [srv EXCEPT !.mail = <<>>] /\ UNCHANGED <<case, old, used>>

ReloadButton ==
    /\ s.load.note = "button" /\ s.load.phase # "shown"
    /\ LoadAgain([s EXCEPT !.reloads = 0]) /\ srv' = [srv EXCEPT !.mail = <<>>]
    /\ UNCHANGED <<case, old, used>>

-----------------------------------------------------------------------------
(* Others.                                                                 *)

Event == used.events < case.max.events /\ used' = [used EXCEPT !.events = @ + 1]

\* A token expires, or somebody revokes it.
Expire(t) ==
    /\ t \in srv.valid /\ Event
    /\ case.beside = "desk" => "duty" \in Races
    /\ srv' = [srv EXCEPT !.valid = @ \ {t}, !.lapsed = @ \cup {t}] /\ UNCHANGED <<case, s, old>>
RevokeElsewhere(t) ==
    /\ t \in srv.valid /\ Event
    /\ case.beside = "desk" => "duty" \in Races
    /\ srv' = [srv EXCEPT !.valid = @ \ {t}] /\ UNCHANGED <<case, s, old>>

\* Somebody knocks, or gives up.
Knocks ==
    /\ case.room \in {"lobby", "child"} /\ case.who = "op" /\ Event
    /\ s.st # "in" /\ s.row => "knocks" \in Races
    /\ srv' = [srv EXCEPT !.knocker = ~@,
                  !.mail = IF s.st = "in"
                           THEN Append(@, [re |-> IF srv.knocker THEN "knockcancel" ELSE "knock",
                                           t |-> None])
                           ELSE @]
    /\ UNCHANGED <<case, s, old>>

\* reconnectSoon(): the network is back, or the user looks at the page.
Soon ==
    /\ s.rec /\ s.timer /\ Event
    /\ Turn(ReconnectNow([s EXCEPT !.tries = 0])) /\ UNCHANGED <<case, old>>

-----------------------------------------------------------------------------
(* A phone in the background.                                              *)

Telling == \E i \in DOMAIN srv.mail : srv.mail[i].re = "data"

Quiet == "quick" \in Races \/ ~Telling

Hide ==
    /\ case.beside = "away" /\ ~s.tr.hidden /\ Event /\ Quiet
    /\ Turn(PublishAwayState([s EXCEPT !.tr = Hidden(@)], TRUE)) /\ UNCHANGED <<case, old>>

Show ==
    /\ s.tr.hidden /\ Event /\ Quiet
    /\ LET p == PublishAwayState([s EXCEPT !.tr = Shown(@)], FALSE)
       IN  Turn(IF p.rec /\ p.timer THEN ReconnectNow([p EXCEPT !.tries = 0]) ELSE p)
    /\ UNCHANGED <<case, old>>

\* RETURN_GRACE is over.
GraceOver ==
    /\ s.tr.recent /\ s' = [s EXCEPT !.tr.recent = FALSE] /\ UNCHANGED <<srv, case, old, used>>

-----------------------------------------------------------------------------
(* Others in the room.                                                     *)

Others == IF case.beside = "clock" THEN {1, 2} ELSE {}

SomebodyComes(u) ==
    /\ u \notin srv.others /\ Event
    /\ srv' = [srv EXCEPT !.others = @ \cup {u}]
    /\ s' = IF s.st = "in" THEN [s EXCEPT !.cl = Added(@, {u})] ELSE s
    /\ UNCHANGED <<case, old>>

SomebodyLeaves(u) ==
    /\ u \in srv.others /\ Event
    /\ s.st # "in" /\ s.cl.met > 2 => "drain" \in Races
    /\ LET p == IF s.st = "in" THEN [s EXCEPT !.cl = Deleted(@, u, OpHere(s))] ELSE s
           x == [srv EXCEPT !.others = @ \ {u}]
       IN  /\ s' = p
           /\ srv' = IF s.st = "in" /\ Solo(p.cl) /\ OpHere(s)
                     THEN Serve(x, [req |-> "clearchat", t |-> None]) ELSE x
    /\ UNCHANGED <<case, old>>

\* Something is said; the room keeps it.
Says ==
    /\ srv.others # {} /\ s.st = "in" /\ srv.hist = 0 /\ srv.mail = <<>> /\ Event
    /\ srv' = [srv EXCEPT !.hist = 1] /\ s' = [s EXCEPT !.cl.box = 1]
    /\ UNCHANGED <<case, old>>

AloneExpires ==
    /\ s.cl.alone /\ s' = [s EXCEPT !.cl = AloneTooLong(@)] /\ UNCHANGED <<srv, case, old, used>>

-----------------------------------------------------------------------------
(* The panel and the application around it.                                *)

\* pollOperatorRoom(), every three seconds; an answer takes less, and so does
\* what it makes the page say.
PollOperatorRoom ==
    /\ case.beside = "desk" /\ s.dash /\ s.st = "in"
    /\ s.app.up = <<>> /\ \A i \in DOMAIN srv.mail : srv.mail[i].re # "status"
    /\ Turn(Ask(s, "status", None)) /\ UNCHANGED <<case, old, used>>

\* The browser goes to a client's room.
OperatorJoin(p) == [p EXCEPT !.st = "away", !.app = Navigated(@)]

\* hostKnocks: from the panel operatorAdmitAndJoin(); in the room, a button
\* like that of the row.
Handle(p, key) == IF key = Row THEN Ask(p, "admit", None) ELSE OperatorJoin(p)

\* The toasts and the rows of the panel.
JoinRoom ==
    /\ case.beside = "desk" /\ s.dash /\ s.st = "in" /\ Press
    /\ \/ Turn(OperatorJoin(s)) /\ (Unanswered => "flags" \in Races)
       \/ \E r \in s.toasts : Turn([s EXCEPT !.toasts = @ \ {r}])
    /\ UNCHANGED <<case, old>>

AppHears == s.app.up # <<>> /\ s' = [s EXCEPT !.app = Heard(@)] /\ UNCHANGED <<srv, case, old, used>>
PageHears ==
    /\ s.app.down # <<>> /\ (Unanswered => "flags" \in Races)
    /\ LET key == Head(s.app.down)
           p == [s EXCEPT !.app.down = Tail(@), !.handlers = @ \ {key}]
       IN  Turn(IF key \in s.handlers /\ s.st = "in" THEN Handle(p, key) ELSE p)
    /\ UNCHANGED <<case, old, used>>

Look ==
    /\ case.beside = "desk" /\ Press
    /\ s' = [s EXCEPT !.app = Looked(@, ~@.front)] /\ UNCHANGED <<srv, case, old>>
Answers(key) ==
    /\ key \in s.app.wins /\ Press
    /\ s' = [s EXCEPT !.app = Pressed(@, key)] /\ UNCHANGED <<srv, case, old>>
Closes(key) ==
    /\ key \in s.app.wins /\ Press
    /\ s' = [s EXCEPT !.app = ClosedByHand(@, key)] /\ UNCHANGED <<srv, case, old>>

\* Somebody knocks at a room of the hub, or gives up.
Queues(r, n) ==
    /\ case.beside = "desk" /\ case.room = "hub" /\ Event
    /\ srv' = [srv EXCEPT !.queue[r] = IF n \in @ THEN @ \ {n} ELSE @ \cup {n}]
    /\ UNCHANGED <<case, s, old>>

-----------------------------------------------------------------------------

\* A case: who, the room, whether the invitation has a name in it, and which
\* tokens there are: an invitation the page is opened with, what is stored.
Init ==
    /\ case \in Cases
    /\ srv = [valid |-> {t \in Tok : case.kinds[t] # ""}, lapsed |-> {}, kind |-> case.kinds,
              knocker |-> FALSE, mail |-> <<>>, away |-> 0, others |-> {}, hist |-> 0,
              queue |-> [r \in Rooms |-> {}]]
    /\ s = Begin([Fresh EXCEPT !.remember = case.remember, !.session = case.session],
                   case.link)
    /\ old = FALSE
    /\ used = [losses |-> 0, presses |-> 0, events |-> 0]

\* What happens without anybody's doing.
Progress ==
    \/ \E v \in {"join", "knock", "full", "refused", "need-username", "redirect"} : Answer(v)
    \/ \E edited, tick \in BOOLEAN : Opened(edited, tick)
    \/ Closed \/ OldClosed \/ TimerFires \/ GotMail \/ Guard \/ AppHears \/ PageHears

Next ==
    \/ Progress \/ Lose \/ Admit \/ Deny
    \/ \E present \in BOOLEAN : Submit(present) \/ Rejoin(present)
    \/ RejoinOther \/ OperatorLogin \/ HangUp \/ Logout \/ Camera \/ CreateLink \/ AdmitKnocker
    \/ Reload \/ Knocks \/ Soon
    \/ \E t \in Tok : Expire(t) \/ RevokeElsewhere(t)
    \/ \E f \in Files, ok \in BOOLEAN : FileArrives(f, ok)
    \/ ReloadButton \/ Hide \/ Show \/ GraceOver \/ Says \/ AloneExpires
    \/ PollOperatorRoom \/ Look \/ JoinRoom
    \/ \E key \in Rooms \cup {Row} : Answers(key) \/ Closes(key)
    \/ \E r \in Rooms, n \in Names : Queues(r, n)
    \/ \E u \in Others : SomebodyComes(u) \/ SomebodyLeaves(u)

Spec == Init /\ [][Next]_vars
FairSpec == Spec /\ WF_vars(Progress) /\ WF_vars(PollOperatorRoom)

-----------------------------------------------------------------------------
(* Properties.                                                             *)

\* The screens are those of what goes on: the call is shown while there is
\* one, or one is being made or tried again; the waiting room while one waits;
\* the panel while the operator is in; and there is always one to be seen.
ShowsWhatIs ==
    /\ s.call => s.st \notin {"none", "gone"} \/ s.timer
    /\ s.waiting => s.st \in {"lobby", "asked", "closing", "away"} \/ s.rec
    /\ s.waiting => s.probing # "probing"
    /\ s.dash => s.call
    /\ s.st = "in" => s.call /\ ~s.card /\ ~s.waiting
    /\ s.st \in {"none", "gone"} => s.card \/ s.timer
    /\ s.load.phase = "shown" => Ready(s.load)

\* A token is remembered only if it was minted for that; and one that was is
\* remembered, on its way, expired or revoked: none stays alive that nobody
\* would know of.
TokensAccountedFor ==
    /\ s.remember # None => Kind(s.remember) = "remember"
    /\ s.session # None => Kind(s.session) = "session"
    /\ \A t \in srv.valid : Kind(t) = "remember" =>
          t \in {s.remember, s.prev} \/ \E i \in DOMAIN srv.mail : srv.mail[i].t = t

\* What the page believes the next answers to be is what they are.
AnswersMatch ==
    s.st = "in" =>
        /\ s.sr <=> \E i \in DOMAIN srv.mail : srv.mail[i].re = "remember"
        /\ s.ss <=> \E i \in DOMAIN srv.mail : srv.mail[i].re = "session"
        /\ s.silent = Cardinality({i \in DOMAIN srv.mail : srv.mail[i].re = "list"})

\* Who is shown to knock knocks, and the other way round.
KnocksTrue ==
    s.st = "in" /\ srv.mail = <<>> /\ OpHere(s) /\ ~s.dash => s.row = srv.knocker

\* The tray says that somebody is on duty while the panel is up; a notification
\* is for a knock that the page still stands for, and for when its window is
\* not the one in front.
AppTrue ==
    /\ s.app.duty => s.dash
    /\ s.app.front => s.app.wins = {}
    /\ s.app.wins \subseteq DOMAIN s.app.out
    /\ s.toasts \subseteq {r \in Rooms : s.knockers[r] # {}}
    /\ s.app.up = <<>> /\ s.st # "away" => s.handlers \subseteq DOMAIN s.app.out

\* What is on screen, and what is remembered and waited for, is so.
ScreenTrue == ShowsWhatIs /\ KnocksTrue /\ AppTrue
TokensTrue == TokensAccountedFor /\ AnswersMatch

\* A call that comes back sends what it was sending.
CameraComesBack == [][s.st # "in" /\ s'.st = "in" /\ s.had => s'.sent]_vars

\* The operator has been told of somebody: the window is in front, a
\* notification names them, or one was closed by hand.
ToldOf(r, n) ==
    \/ s.app.front
    \/ r \in DOMAIN s.app.out /\ n \in s.app.out[r].text
        /\ (r \in s.app.wins \/ s.app.out[r].dismissed)

\* Whoever knocks is told of, and nobody who has given up still is.
AllTold ==
    \A r \in Rooms :
        /\ \A n \in srv.queue[r] : ToldOf(r, n)
        /\ r \in s.app.wins => srv.queue[r] # {}

\* What is being waited for: a lost call to be back, or elsewhere, or the door
\* to be opened, or to be given up with the card on screen; the page, or a
\* button to load it again; the operator to be told who knocks.
Pending ==
    \/ s.want /\ s.st \notin {"in", "away"} /\ ~s.waiting
    \/ s.load.phase \in {"loading", "reloading"} /\ s.load.note # "button"
    \/ s.dash /\ s.st = "in" /\ ~AllTold

\* And that comes to an end: a lost call comes back, a page that does not load
\* does not leave the user before a spinner, nor load again for ever, and the
\* panel tells of everybody who knocks, and of nobody who has given up.
ComesBack == Pending ~> ~Pending

\* The room knows whether the page is in the background, once it has been
\* told; and who comes back is told that the background was the cause when it was.
AwayIsTrue ==
    /\ [](case.beside = "away" /\ s.st = "in" /\ ~Telling => (srv.away = 1) = s.tr.hidden)
    /\ [][s.st # "in" /\ s'.st = "in" /\ s'.msg # "" => (s'.msg = "afterAway") = s.bg]_vars

\* The chat is wiped: for everybody, or on this screen alone.
Wiped == srv'.hist < srv.hist \/ (s'.cl.box < s.cl.box /\ srv'.mail = srv.mail)

\* The clock runs when there are two, and is to be dropped when there are not;
\* what a reconnection brings back is the same clock, and the same chat, once;
\* and only a conversation of two is wiped when it is over.
CallIsKept ==
    /\ [](s.st = "in" /\ ~s.dash =>
            (s.cl.start # 0 /\ ~s.cl.alone) = (s.cl.users # {}))
    /\ [](s.st \in {"none", "gone"} /\ s.card => s.cl.start = 0 /\ ~s.cl.alone)
    /\ [](s.cl.box <= 1)
    /\ [][s.rec /\ s.st # "in" /\ s'.st = "in" /\ s.cl.start # 0 => s'.cl.start = s.cl.start]_vars
    /\ [][s.st = "in" /\ s'.st = "in" /\ Wiped => s.cl.met <= 2]_vars
\* A notification that was closed by hand comes back when the page has more to
\* say, and not because the operator looked at something else.
ClosedStaysClosed ==
    [][\A k \in DOMAIN s.app.out :
          s.app.out[k].dismissed /\ k \in s'.app.wins => s'.app.up # s.app.up]_vars
=============================================================================
