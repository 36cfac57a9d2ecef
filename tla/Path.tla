-------------------------------- MODULE Path --------------------------------
(***************************************************************************)
(* The path the media take, from one page: ice-recovery.js, which restarts *)
(* a connection before the browser declares it failed, turn-fallback.js,   *)
(* which gives UDP up where it does not work, and galene.js, which does    *)
(* what the two say.  The networks, and what ICE makes of them, are the    *)
(* environment.                                                            *)
(*                                                                         *)
(* Time goes by ticks of qualityInterval, two seconds; an age is counted   *)
(* in ticks up to the bound it is compared with.  What begins between two  *)
(* ticks is not yet a whole tick old at the first: eight seconds from then *)
(* are over at the fifth, six seconds from a tick at the third.            *)
(***************************************************************************)
EXTENDS Naturals, FiniteSets

CONSTANTS Streams,        \* the connections there are, both up and down
          Nets,           \* the networks, as the server tags them
          Start,          \* the ones the page may start on
          Earlier,        \* what may be remembered of earlier calls
          Confs,          \* what the server may offer: with "tcp", a relay over TCP or TLS
          LossPolls,      \* LOSS_POLLS
          UdpDownFor,     \* DISCONNECTED_FOR of turn-fallback.js, in ticks
          DownFor,        \* DISCONNECTED_FOR of ice-recovery.js, in ticks
          MinGap,         \* MIN_GAP, in ticks
          SuspectFor,     \* SUSPECT_FOR, in ticks
          MaxEvents,      \* how often the environment does something
          Races           \* the races that are let happen (README)

\* Longer ago than any bound.
Never == 1000

ASSUME PathAssumption ==
    /\ Confs \subseteq SUBSET {"udp", "tcp"} /\ \A conf \in Confs : conf # {}
    /\ Start \subseteq Nets /\ Earlier \subseteq SUBSET Nets /\ "off" \notin Nets
    /\ {DownFor, MinGap, SuspectFor} \subseteq 1 .. Never - 1
    /\ UdpDownFor \in 2 .. DownFor - 2 /\ LossPolls \in Nat \ {0} /\ MaxEvents \in Nat

VARIABLES c,        \* the connections
          conf,     \* rtcConfiguration
          net,      \* the network the page is on; "off": there is none
          udp,      \* what UDP is like on each network
          sig,      \* the signalling is up
          tag,      \* serverConnection.network
          up,       \* udpGivenUp, udpGivenUpOn, and what localStorage remembers
          suspect,  \* for how long a drop is a network change
          hidden,   \* the page is in the background, on a phone
          outage,   \* how long the signalling has been down, in ticks
          bad,      \* the networks on which UDP has ever been bad
          events

vars == <<c, conf, net, udp, sig, tag, up, suspect, hidden, outage, bad, events>>
environment == <<conf, net, udp, sig, tag, hidden, outage, bad, events>>

\* One tick later, up to the bound.
Aged(age, most) == IF age = Never \/ age = most THEN age ELSE age + 1

\* The state of one run of the handlers: the connections, the decision about
\* UDP, for how long a drop is suspect.
Now == [c |-> c, up |-> up, suspect |-> suspect]

Becomes(s) == c' = s.c /\ up' = s.up /\ suspect' = s.suspect

-----------------------------------------------------------------------------
(* Paths.                                                                  *)

\* The path a connection has carries what ICE sends to try it; and it loses
\* packets.
Works(x) == x.path # "none" /\ x.on = net /\ (x.path = "tcp" \/ udp[net] # "blocked")
Loses(x) == Works(x) /\ x.path = "udp" /\ udp[net] = "lossy"

-----------------------------------------------------------------------------
(* What is offered to ICE.                                                 *)

UdpRelayGivenUp(u) == u.given \/ tag \in u.remembered

CanDropUdp == "tcp" \in conf

\* onPeerConnection(): whether a new connection may go over UDP.
OffersUdp(u) == "udp" \in conf /\ ~(UdpRelayGivenUp(u) /\ CanDropUdp)

\* A new Stream, with what the two watchers know of it.
NewStream(u) ==
    [ice |-> "new", path |-> "none", on |-> net, offer |-> OffersUdp(u), restart |-> TRUE,
     down |-> Never, restarted |-> Never,
     seen |-> "none", udpDown |-> Never, lossy |-> 0]

\* Stream.restartIce(): the negotiation follows.
RestartIce(x) == [x EXCEPT !.restart = TRUE]

-----------------------------------------------------------------------------
(* ice-recovery.js                                                         *)

\* Recovery.update() when the state is known.
Noted(x) ==
    [x EXCEPT !.down = IF x.ice # "disconnected" THEN Never ELSE IF @ = Never THEN 0 ELSE @,
              !.restarted = IF x.ice = "connected" THEN Never ELSE @]

\* Whether to restart the connection now.
Restart(x, sus) ==
    /\ x.restarted \in {Never, MinGap}
    /\ \/ sus > 0 /\ x.ice = "disconnected"
       \/ x.down = DownFor

\* recoverIce(), which has nothing to do with the other connections.
RecoverIce(x, sus) ==
    LET y == Noted(x)
    IN  IF Restart(y, sus)
        THEN [RestartIce(y) EXCEPT !.restarted = 0, !.down = Never]
        ELSE y

\* Recovery.restarted()
Restarted(x) == [x EXCEPT !.restarted = 0, !.down = Never]

-----------------------------------------------------------------------------
(* turn-fallback.js                                                        *)

\* Watcher.update(), with one poll of a connection.
Watched(x) ==
    [x EXCEPT !.seen = IF x.ice = "connected" THEN x.path ELSE @,
              !.udpDown = IF x.ice # "disconnected" THEN Never ELSE IF @ = Never THEN 0 ELSE @,
              !.lossy = IF x.ice = "connected" /\ Loses(x)
                        THEN IF @ < LossPolls THEN @ + 1 ELSE @
                        ELSE 0]

Forgotten(x) == [x EXCEPT !.seen = "none", !.udpDown = Never, !.lossy = 0]

UdpBroken(x) ==
    /\ x.seen = "udp"
    /\ x.ice = "failed" \/ x.udpDown = UdpDownFor \/ x.lossy = LossPolls

GiveUpInPlace(s) ==
    IF s.up.given \/ ~CanDropUdp THEN s
    ELSE [s EXCEPT !.up = [given |-> TRUE, on |-> tag, remembered |-> @.remembered \cup {tag}],
                   !.c = [i \in Streams |-> [s.c[i] EXCEPT !.offer = FALSE]]]

\* giveUpUdpRelay()
GiveUpUdpRelay(s) ==
    IF s.up.given \/ ~CanDropUdp THEN s
    ELSE [s EXCEPT !.up = [given |-> TRUE, on |-> tag, remembered |-> @.remembered \cup {tag}],
                   !.c = [i \in Streams |-> RestartIce([s.c[i] EXCEPT !.offer = FALSE])]]

WatchAlways(s) ==
    LET t == [s EXCEPT !.c = [i \in Streams |-> Watched(s.c[i])]]
    IN  IF s.up.given THEN s
        ELSE IF \E i \in Streams : UdpBroken(t.c[i]) THEN GiveUpUdpRelay(t) ELSE t

\* watchTurnPath(), with every connection.
WatchTurnPath(s) ==
    IF s.up.given THEN s
    ELSE IF hidden THEN [s EXCEPT !.c = [i \in Streams |-> Forgotten(s.c[i])]]
    ELSE WatchAlways(s)

\* retryUdp(): the page is on another network than the one UDP is given up on.
RetryUdp(s) ==
    LET u == [s.up EXCEPT !.given = FALSE, !.on = "none"]
    IN  IF s.up.given /\ tag' # s.up.on /\ tag' \notin s.up.remembered
        THEN [s EXCEPT !.up = u,
                 !.c = [i \in Streams |->
                            Restarted(RestartIce([Forgotten(s.c[i]) EXCEPT !.offer = "udp" \in conf]))]]
        ELSE s

-----------------------------------------------------------------------------
(* The page.                                                               *)

\* gotResumed(), with the network the server has named before it.
Resume ==
    /\ ~sig /\ net # "off"
    /\ sig' = TRUE /\ tag' = net /\ outage' = 0
    /\ LET s == [Now EXCEPT !.suspect = SuspectFor]
           t == RetryUdp(s)
           all == [i \in Streams |-> RecoverIce(c[i], SuspectFor)]
       IN  Becomes(IF t # s THEN t ELSE [s EXCEPT !.c = all])
    /\ UNCHANGED <<conf, net, udp, hidden, bad, events>>

\* The state of a connection changes: onstatus, and on "failed" the restart
\* that protocol.js makes.
Turns(i, x) ==
    /\ LET y == RecoverIce(x, suspect)
       IN  c' = [c EXCEPT ![i] = IF x.ice = "failed" THEN RestartIce(y) ELSE y]
    /\ UNCHANGED <<environment, up, suspect>>

-----------------------------------------------------------------------------
(* ICE.                                                                    *)

Drop(i) == c[i].ice = "connected" /\ ~Works(c[i]) /\ Turns(i, [c[i] EXCEPT !.ice = "disconnected"])
Heal(i) == c[i].ice = "disconnected" /\ Works(c[i]) /\ Turns(i, [c[i] EXCEPT !.ice = "connected"])

\* Chrome says so long after the path went away: a restart is waiting by then.
Fail(i) ==
    /\ c[i].ice = "disconnected" /\ ~Works(c[i]) /\ c[i].restart /\ outage = 2
    /\ Turns(i, [c[i] EXCEPT !.ice = "failed"])

\* The offer and the answer of a restart have gone through.
Negotiate(i) ==
    /\ c[i].restart /\ sig /\ net # "off"
    /\ Turns(i, [c[i] EXCEPT !.restart = FALSE, !.ice = "checking", !.on = net])

\* What ICE comes to: UDP before TCP, of what it is offered and what works.
Choose(i) ==
    /\ c[i].ice = "checking"
    /\ LET open == {p \in conf : p = "tcp" \/ (c[i].offer /\ c[i].on # "off" /\ udp[c[i].on] # "blocked")}
       IN  Turns(i, IF c[i].on # net \/ open = {} THEN [c[i] EXCEPT !.ice = "failed"]
                    ELSE [c[i] EXCEPT !.ice = "connected",
                                      !.path = IF "udp" \in open THEN "udp" ELSE "tcp"])

-----------------------------------------------------------------------------
(* Everything else.                                                        *)

\* A hiccup of a path that works lasts less than turn-fallback.js allows.
Brief == \A i \in Streams : c[i].ice = "disconnected" /\ Works(c[i]) => c[i].udpDown # UdpDownFor - 1

\* Time goes by for a connection.
Older(x) == [x EXCEPT !.down = Aged(@, DownFor), !.restarted = Aged(@, MinGap),
                      !.udpDown = Aged(@, UdpDownFor)]

\* Two seconds go by, and pollQuality() has the statistics of every
\* connection.  The signalling comes back within two ticks, unless it is slow;
\* ICE answers within one, and notices within one that a path is gone.
Tick ==
    /\ Brief
    /\ ~sig => net = "off" \/ outage < 2 \/ "slow" \in Races
    /\ \A i \in Streams : c[i].ice = "connected" => Works(c[i])
    /\ \A i \in Streams : c[i].ice # "checking" /\ (c[i].restart => ~sig \/ "later" \in Races)
    /\ outage' = IF sig THEN 0 ELSE Aged(outage, 2)
    /\ LET sus == IF suspect = 0 THEN 0 ELSE suspect - 1
       IN  \E s \in {WatchTurnPath([Now EXCEPT !.c = [i \in Streams |-> Older(c[i])]])} :
              /\ c' = [i \in Streams |-> RecoverIce(s.c[i], sus)]
              /\ up' = s.up /\ suspect' = sus
    /\ UNCHANGED <<conf, net, udp, sig, tag, hidden, bad, events>>

Event == events < MaxEvents /\ events' = events + 1

\* The network does not go away while ICE is choosing, nor in the middle of a
\* disconnection: before ICE has noticed one, while a connection that failed is
\* yet to be restarted, or before a poll has seen its end.
Calm ==
    /\ "checking" \in Races \/ \A i \in Streams : c[i].ice # "checking"
    /\ "twice" \in Races \/ \A i \in Streams :
          /\ c[i].ice \notin {"disconnected", "failed"} /\ c[i].udpDown = Never
          /\ c[i].ice = "connected" => Works(c[i])

\* Another network; the sockets of the old one go quiet.
ChangeNetwork(n) ==
    /\ net # "off" /\ n # net /\ Event /\ Calm
    /\ net' = n /\ sig' = FALSE /\ outage' = 0
    /\ UNCHANGED <<c, conf, udp, tag, up, suspect, hidden, bad>>

\* UDP gets worse on this network, or well again.
UdpTurns(how) ==
    /\ net # "off" /\ udp[net] # how /\ "tcp" \in conf /\ Event
    /\ udp' = [udp EXCEPT ![net] = how]
    /\ bad' = IF how = "good" THEN bad ELSE bad \cup {net}
    /\ UNCHANGED <<c, conf, net, sig, tag, up, suspect, hidden, outage>>

\* A path that works is disconnected for a moment.
Hiccup(i) ==
    /\ c[i].ice = "connected" /\ Event
    /\ c' = [c EXCEPT ![i] = RecoverIce([@ EXCEPT !.ice = "disconnected"], suspect)]
    /\ UNCHANGED <<up, suspect, conf, net, udp, sig, tag, hidden, outage, bad>>

\* Somebody comes, or a device is changed: a connection is made anew.
Anew(i) ==
    /\ sig /\ Event
    /\ c' = [c EXCEPT ![i] = NewStream(up)]
    /\ UNCHANGED <<conf, net, udp, sig, tag, up, suspect, hidden, outage, bad>>

\* A phone puts the page in the background, takes the network from it, and
\* gives it back, or another, when the page is looked at again.
Hide ==
    /\ ~hidden /\ net # "off" /\ Event
    /\ hidden' = TRUE
    /\ UNCHANGED <<c, conf, net, udp, sig, tag, up, suspect, outage, bad>>
TakeNetwork ==
    /\ hidden /\ net # "off" /\ Calm
    /\ net' = "off" /\ sig' = FALSE /\ outage' = 0
    /\ UNCHANGED <<c, conf, udp, tag, up, suspect, hidden, bad, events>>
Show ==
    /\ hidden /\ hidden' = FALSE
    /\ IF net = "off" THEN net' \in Nets ELSE net' = net
    /\ UNCHANGED <<c, conf, udp, sig, tag, up, suspect, outage, bad, events>>

\* REMEMBER goes by.
Expire(n) ==
    /\ n \in up.remembered /\ Event
    /\ up' = [up EXCEPT !.remembered = @ \ {n}]
    /\ UNCHANGED <<c, conf, net, udp, sig, tag, suspect, hidden, outage, bad>>

-----------------------------------------------------------------------------

Init ==
    /\ conf \in Confs
    /\ net \in Start /\ tag = net
    /\ \E earlier \in Earlier :
          /\ up = [given |-> FALSE, on |-> "none", remembered |-> earlier]
          /\ udp = [n \in Nets |-> "good"] /\ bad = earlier
    /\ sig = TRUE /\ outage = 0 /\ suspect = 0 /\ hidden = FALSE /\ events = 0
    /\ c = [i \in Streams |-> NewStream(up)]

Next ==
    \/ Resume \/ Tick \/ Hide \/ TakeNetwork \/ Show
    \/ \E i \in Streams :
          Drop(i) \/ Heal(i) \/ Fail(i) \/ Negotiate(i) \/ Choose(i) \/ Hiccup(i) \/ Anew(i)
    \/ \E n \in Nets : ChangeNetwork(n) \/ Expire(n)
    \/ \E how \in {"good", "lossy", "blocked"} : UdpTurns(how)

\* The page goes on polling, the network does what networks do.
Fairness ==
    /\ WF_vars(Resume) /\ WF_vars(Tick) /\ WF_vars(Show)
    /\ \A i \in Streams :
          /\ WF_vars(Drop(i)) /\ WF_vars(Heal(i))
          /\ WF_vars(Negotiate(i)) /\ WF_vars(Choose(i))

Spec == Init /\ [][Next]_vars
FairSpec == Spec /\ Fairness

-----------------------------------------------------------------------------
(* Properties.                                                             *)

\* While UDP is given up no connection is left that may go over it, whenever it
\* was made; it is not given up for longer than the page is where it was, or
\* where UDP was bad before; and giving it up leaves every connection
\* a way to connect.
OneDecision ==
    /\ up.given => \A i \in Streams : ~c[i].offer
    /\ sig /\ up.given => tag \in bad \cup {up.on}
    /\ \A i \in Streams : c[i].offer \/ "tcp" \in conf

\* "a network is what the decision is about" (turn-fallback.js): on a network
\* where UDP was never bad every connection may go over it.
\* The code does not keep to it in every case: see README.md.
UdpWhereItWorks ==
    sig /\ tag \notin bad => \A i \in Streams : c[i].offer \/ "udp" \notin conf

\* UDP is remembered as broken only where it ever was, in this call or before: neither on a network
\* left behind, nor because a phone took the network from a hidden page.
OnlyWhereBroken == up.remembered \subseteq bad

\* What the page decides about UDP is one decision, and about the network it is on.
DecidedRightly == OneDecision /\ OnlyWhereBroken

\* ice-recovery.js leaves a connection over UDP to turn-fallback.js, unless
\* the network may have changed: it does not restart what the other is about
\* to move to TCP.
NoFight ==
    [][\A i \in Streams :
          /\ suspect' = 0 /\ ~hidden /\ CanDropUdp
          /\ c[i].seen = "udp" /\ c[i].path = "udp"
          => ~(c'[i].restarted = 0 /\ c[i].restarted # 0)]_vars

\* Whatever happens to the networks, the media come back, on a path that
\* works, and not over a UDP that loses packets if there is another way.
MediaComesBack ==
    <>[](\A i \in Streams :
            /\ c[i].ice = "connected" /\ Works(c[i])
            /\ ~Loses(c[i]))

\* The two watchers together bring the media back, and do not undo each other's work.
Recovers == NoFight /\ MediaComesBack
=============================================================================
