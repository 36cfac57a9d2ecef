----------------------------- MODULE PathProofs -----------------------------
(***************************************************************************)
(* Proofs about Path: what the page decides about UDP is one decision, for *)
(* all its connections, and about the network it is on, for any number of  *)
(* connections and networks and any bounds that PathAssumption allows.     *)
(*                                                                         *)
(* That UDP is given up only where it is broken is an argument about time. *)
(* What a poll finds broken was either broken on the network it is on; or  *)
(* it is a path of a network the page has left.  Until the signalling is   *)
(* back the page takes the old network for the present one, which is too   *)
(* short a time for UdpDownFor; once it is back every such connection is   *)
(* restarted before the next poll.                                         *)
(*                                                                         *)
(* That ice-recovery.js does not restart what turn-fallback.js is about to *)
(* move is the second: the one counts from the change of state, the other  *)
(* from the next poll, and their bounds are two ticks apart.               *)
(***************************************************************************)
EXTENDS Path, TLAPS

Ices  == {"new", "checking", "connected", "disconnected", "failed"}
Paths == {"none", "udp", "tcp"}

\* A connection, with what the two watchers know of it.
Conn ==
    [ice : Ices, path : Paths, on : Nets \cup {"off"}, offer : BOOLEAN, restart : BOOLEAN,
     down : Nat, restarted : Nat, seen : Paths, udpDown : Nat, lossy : Nat]

\* The types.
Types ==
    /\ c \in [Streams -> Conn] /\ conf \in Confs
    /\ net \in Nets \cup {"off"} /\ tag \in Nets
    /\ udp \in [Nets -> {"good", "lossy", "blocked"}]
    /\ sig \in BOOLEAN /\ hidden \in BOOLEAN /\ suspect \in Nat /\ outage \in 0 .. 2
    /\ up \in [given : BOOLEAN, on : Nets \cup {"none"}, remembered : SUBSET Nets]
    /\ bad \subseteq Nets /\ events \in Nat

\* The signalling, the network it is on and the one the page is on.
Signalling ==
    /\ sig => net = tag /\ outage = 0
    /\ net = "off" => hidden /\ ~sig
    /\ \A n \in Nets : udp[n] # "good" => n \in bad

Decision ==
    /\ up.given => "tcp" \in conf /\ \A i \in Streams : ~c[i].offer
    /\ sig /\ up.given => tag \in bad \cup {up.on}
    /\ \A i \in Streams : c[i].offer \/ "tcp" \in conf
    /\ up.remembered \subseteq bad

\* What can be said of a connection.
Live(x) == x.ice \in {"connected", "disconnected"}

ConnInv(x) ==
    /\ Live(x) => x.path # "none"
    /\ Live(x) /\ x.on # tag => sig
    /\ Live(x) /\ x.restarted # Never => x.restart
    /\ sig /\ x.ice = "connected" /\ x.on # tag => suspect > 0
    /\ sig /\ x.ice = "disconnected" /\ x.on # tag => x.restart
    /\ x.ice = "checking" => sig /\ x.on = net
    /\ x.ice = "failed" => x.restart /\ ("tcp" \in conf /\ ~sig => outage = 2)
    /\ ~up.given /\ ~sig => x.udpDown = Never \/ x.udpDown < outage
    /\ ~up.given /\ x.seen = "udp" /\ "tcp" \in conf => x.udpDown # UdpDownFor

Inv == Types /\ Signalling /\ Decision /\ \A i \in Streams : ConnInv(c[i])

-----------------------------------------------------------------------------
(* Connections.                                                            *)

\* What ice-recovery.js leaves of a connection.
Same(x, y) ==
    /\ y.ice = x.ice /\ y.path = x.path /\ y.on = x.on /\ y.offer = x.offer
    /\ y.seen = x.seen /\ y.udpDown = x.udpDown
    /\ x.restart => y.restart

\* Never is longer than any bound.
LEMMA Bounds ==
    /\ Never \in Nat /\ DownFor \in Nat /\ MinGap \in Nat /\ SuspectFor \in Nat
    /\ UdpDownFor \in Nat /\ SuspectFor > 0 /\ DownFor # Never /\ UdpDownFor # Never
    /\ UdpDownFor > 1 /\ LossPolls \in Nat /\ "off" \notin Nets
<1>1. DownFor \in 1 .. Never - 1 /\ MinGap \in 1 .. Never - 1 /\ SuspectFor \in 1 .. Never - 1
  BY PathAssumption
<1>2. UdpDownFor \in 2 .. DownFor - 2 /\ LossPolls \in Nat /\ "off" \notin Nets
  BY PathAssumption
<1>3. Never = 1000
  BY DEF Never
<1> QED
  BY <1>1, <1>2, <1>3

\* Recovery.update() restarts a connection or leaves it alone; it restarts one
\* that is disconnected while a drop is suspect.
LEMMA RecoverIceFacts ==
    ASSUME NEW x \in Conn, NEW sus \in Nat, NEW y, y = RecoverIce(x, sus)
    PROVE  /\ y \in Conn /\ Same(x, y)
           /\ x.ice = "connected" => y.restarted = Never
           /\ y.restarted # Never => y.restart \/ x.restarted # Never
           /\ x.ice = "disconnected" /\ sus > 0 /\ x.restarted = Never => y.restart
<1>1. PICK n : n = Noted(x)
  OBVIOUS
<1>2. /\ n \in Conn /\ Same(x, n) /\ n.restart = x.restart
      /\ n.restarted = (IF x.ice = "connected" THEN Never ELSE x.restarted)
      /\ x.ice # "disconnected" => n.down = Never
  BY <1>1, Bounds DEF Noted, Conn, Same
<1>3. CASE Restart(n, sus)
  <2>1. y = [n EXCEPT !.restart = TRUE, !.restarted = 0, !.down = Never]
    BY <1>1, <1>2, <1>3 DEF RecoverIce, RestartIce, Conn
  <2>2. y \in Conn
    <3>1. PICK a \in Conn : a = [n EXCEPT !.restart = TRUE]
      BY <1>2 DEF Conn
    <3>2. PICK b \in Conn : b = [a EXCEPT !.restarted = 0]
      BY DEF Conn
    <3>3. PICK d \in Conn : d = [b EXCEPT !.down = Never]
      BY Bounds DEF Conn
    <3> QED
      BY <2>1, <3>1, <3>2, <3>3
  <2>4. Same(n, y) /\ y.restart
    BY <1>2, <2>1 DEF Conn, Same
  <2>3. x.ice # "connected"
    BY <1>2, <1>3, Bounds DEF Restart, Same
  <2> QED
    BY <1>2, <2>2, <2>3, <2>4 DEF Same
<1>4. CASE ~Restart(n, sus)
  <2>1. y = n
    BY <1>1, <1>4 DEF RecoverIce
  <2>2. x.ice = "disconnected" /\ sus > 0 => n.restarted # Never
    BY <1>2, <1>4 DEF Restart, Same
  <2> QED
    BY <1>2, <2>1, <2>2
<1> QED
  BY <1>3, <1>4

\* One connection changes.
LEMMA OneConnection ==
    ASSUME Inv, NEW i \in Streams, NEW z \in Conn, c' = [c EXCEPT ![i] = z],
           ConnInv(z), up.given => ~z.offer, z.offer \/ "tcp" \in conf,
           UNCHANGED <<conf, net, udp, sig, tag, up, suspect, hidden, outage, bad>>,
           events' \in Nat
    PROVE  Inv'
<1>1. /\ c' \in [Streams -> Conn] /\ c'[i] = z /\ \A j \in Streams \ {i} : c'[j] = c[j]
  BY DEF Inv, Types
<1>2. Types' /\ Signalling'
  BY <1>1 DEF Inv, Types, Signalling
<1>3. Decision'
  BY <1>1 DEF Inv, Decision
<1>4. ASSUME NEW j \in Streams PROVE ConnInv(c[j])'
  <2>1. ConnInv(c'[j])
    BY <1>1 DEF Inv
  <2> QED
    BY <2>1 DEF ConnInv, Live
<1> QED
  BY <1>2, <1>3, <1>4 DEF Inv

\* What is known of a connection before the step.
LEMMA ConnFacts ==
    ASSUME Inv, NEW i \in Streams
    PROVE  /\ c[i] \in Conn /\ ConnInv(c[i]) /\ suspect \in Nat /\ events \in Nat
           /\ up.given => ~c[i].offer
           /\ c[i].offer \/ "tcp" \in conf
  BY DEF Inv, Types, Decision

\* What a new state of a connection must come with, for what the two watchers
\* then do about it to leave it as it should be.
Ready(x) ==
    /\ Live(x) => x.path # "none"
    /\ Live(x) /\ x.on # tag => sig
    /\ x.ice = "disconnected" /\ x.restarted # Never => x.restart
    /\ sig /\ x.ice = "connected" /\ x.on # tag => suspect > 0
    /\ sig /\ x.ice = "disconnected" /\ x.on # tag => x.restart \/ suspect > 0
    /\ x.ice = "checking" => sig /\ x.on = net
    /\ x.ice = "failed" => ("tcp" \in conf /\ ~sig => outage = 2)
    /\ ~up.given /\ ~sig => x.udpDown = Never \/ x.udpDown < outage
    /\ ~up.given /\ x.seen = "udp" /\ "tcp" \in conf => x.udpDown # UdpDownFor

\* The handler of a new state (onstatus) leaves the connection as it should be.
LEMMA RecoveredIsSound ==
    ASSUME NEW x \in Conn, Ready(x), suspect \in Nat, NEW y, y = RecoverIce(x, suspect), NEW z,
           z = IF x.ice = "failed" THEN RestartIce(y) ELSE y
    PROVE  z \in Conn /\ ConnInv(z) /\ z.offer = x.offer
<1>1. /\ y \in Conn /\ Same(x, y)
      /\ x.ice = "connected" => y.restarted = Never
      /\ y.restarted # Never => y.restart \/ x.restarted # Never
      /\ x.ice = "disconnected" /\ suspect > 0 /\ x.restarted = Never => y.restart
  BY RecoverIceFacts
<1>2. z \in Conn /\ Same(y, z) /\ (x.ice = "failed" => z.restart) /\ z.restarted = y.restarted
  BY <1>1 DEF RestartIce, Conn, Same
<1>3. Same(x, z) /\ z.offer = x.offer
  BY <1>1, <1>2 DEF Same
<1>4. /\ Live(z) /\ z.restarted # Never => z.restart
      /\ sig /\ z.ice = "disconnected" /\ z.on # tag => z.restart
  BY <1>1, <1>2, <1>3 DEF Same, Live, Ready
<1>5. ConnInv(z)
  BY <1>2, <1>3, <1>4 DEF Same, Live, Ready, ConnInv
<1> QED
  BY <1>2, <1>3, <1>5

\* A connection changes state.
LEMMA TurnsInv ==
    ASSUME Inv, NEW i \in Streams, NEW x \in Conn, Turns(i, x), Ready(x), x.offer = c[i].offer
    PROVE  Inv'
<1>1. PICK z : z = IF x.ice = "failed" THEN RestartIce(RecoverIce(x, suspect)) ELSE RecoverIce(x, suspect)
  OBVIOUS
<1>2. z \in Conn /\ ConnInv(z) /\ z.offer = x.offer
  BY <1>1, ConnFacts, RecoveredIsSound
<1>3. c' = [c EXCEPT ![i] = z] /\ UNCHANGED <<conf, net, udp, sig, tag, up, suspect, hidden, outage, bad, events>>
  BY <1>1 DEF Turns, environment
<1> QED
  BY <1>2, <1>3, ConnFacts, OneConnection

\* The path is gone, and ICE notices.
LEMMA DropInv ==
    ASSUME Inv, NEW i \in Streams, Drop(i)
    PROVE  Inv'
<1>1. PICK x : x = [c[i] EXCEPT !.ice = "disconnected"]
  OBVIOUS
<1>2. c[i] \in Conn /\ ConnInv(c[i]) /\ c[i].ice = "connected" /\ Turns(i, x)
  BY <1>1, ConnFacts DEF Drop
<1>3. /\ x \in Conn /\ x.ice = "disconnected" /\ x.path = c[i].path /\ x.on = c[i].on
      /\ x.offer = c[i].offer /\ x.restart = c[i].restart /\ x.restarted = c[i].restarted
      /\ x.seen = c[i].seen /\ x.udpDown = c[i].udpDown
  BY <1>1, <1>2 DEF Conn, Ices
<1>4. Ready(x)
  BY <1>2, <1>3 DEF Ready, ConnInv, Live
<1> QED
  BY <1>2, <1>3, <1>4, TurnsInv

\* The path works again.
LEMMA HealInv ==
    ASSUME Inv, NEW i \in Streams, Heal(i)
    PROVE  Inv'
<1>1. PICK x : x = [c[i] EXCEPT !.ice = "connected"]
  OBVIOUS
<1>2. c[i] \in Conn /\ ConnInv(c[i]) /\ c[i].ice = "disconnected" /\ c[i].on = net /\ Turns(i, x)
  BY <1>1, ConnFacts DEF Heal, Works
<1>3. /\ x \in Conn /\ x.ice = "connected" /\ x.path = c[i].path /\ x.on = c[i].on
      /\ x.offer = c[i].offer /\ x.restart = c[i].restart /\ x.restarted = c[i].restarted
      /\ x.seen = c[i].seen /\ x.udpDown = c[i].udpDown
  BY <1>1, <1>2 DEF Conn, Ices
<1>4. sig => net = tag
  BY DEF Inv, Signalling
<1>5. Ready(x)
  BY <1>2, <1>3, <1>4 DEF Ready, ConnInv, Live
<1> QED
  BY <1>2, <1>3, <1>5, TurnsInv

\* The browser declares a connection failed.
LEMMA FailInv ==
    ASSUME Inv, NEW i \in Streams, Fail(i)
    PROVE  Inv'
<1>1. PICK x : x = [c[i] EXCEPT !.ice = "failed"]
  OBVIOUS
<1>2. c[i] \in Conn /\ ConnInv(c[i]) /\ outage = 2 /\ Turns(i, x)
  BY <1>1, ConnFacts DEF Fail
<1>3. /\ x \in Conn /\ x.ice = "failed" /\ x.offer = c[i].offer
      /\ x.seen = c[i].seen /\ x.udpDown = c[i].udpDown
  BY <1>1, <1>2 DEF Conn, Ices
<1>4. Ready(x)
  BY <1>2, <1>3 DEF Ready, ConnInv, Live
<1> QED
  BY <1>2, <1>3, <1>4, TurnsInv

\* A restart is negotiated.
LEMMA NegotiateInv ==
    ASSUME Inv, NEW i \in Streams, Negotiate(i)
    PROVE  Inv'
<1>1. PICK x : x = [c[i] EXCEPT !.restart = FALSE, !.ice = "checking", !.on = net]
  OBVIOUS
<1>2. c[i] \in Conn /\ ConnInv(c[i]) /\ sig /\ net \in Nets \cup {"off"} /\ Turns(i, x)
  BY <1>1, ConnFacts DEF Negotiate, Inv, Types
<1>3. /\ x.ice = "checking" /\ x.offer = c[i].offer /\ x.on = net
      /\ x.seen = c[i].seen /\ x.udpDown = c[i].udpDown
  BY <1>1, <1>2 DEF Conn
<1>4. x \in Conn
  BY <1>1, <1>2 DEF Conn, Ices
<1>5. Ready(x)
  BY <1>2, <1>3 DEF Ready, ConnInv, Live
<1> QED
  BY <1>2, <1>3, <1>4, <1>5, TurnsInv

\* ICE comes to something.
LEMMA ChooseInv ==
    ASSUME Inv, NEW i \in Streams, Choose(i)
    PROVE  Inv'
<1>1. c[i] \in Conn /\ ConnInv(c[i]) /\ c[i].ice = "checking" /\ sig /\ c[i].on = net /\ net = tag
  BY ConnFacts DEF Choose, ConnInv, Inv, Signalling
<1>2. PICK x : /\ Turns(i, x)
               /\ \/ x = [c[i] EXCEPT !.ice = "failed"]
                  \/ \E p \in {"udp", "tcp"} : x = [c[i] EXCEPT !.ice = "connected", !.path = p]
  BY DEF Choose
<1>3. CASE x = [c[i] EXCEPT !.ice = "failed"]
  <2>1. /\ x \in Conn /\ x.ice = "failed" /\ x.offer = c[i].offer
        /\ x.seen = c[i].seen /\ x.udpDown = c[i].udpDown
    BY <1>1, <1>3 DEF Conn, Ices
  <2>2. Ready(x)
    BY <1>1, <2>1 DEF Ready, ConnInv, Live
  <2> QED
    BY <1>2, <2>1, <2>2, TurnsInv
<1>4. ASSUME NEW p \in {"udp", "tcp"}, x = [c[i] EXCEPT !.ice = "connected", !.path = p]
      PROVE  Inv'
  <2>1. /\ x.ice = "connected" /\ x.offer = c[i].offer /\ x.path # "none" /\ x.on = tag
        /\ x.seen = c[i].seen /\ x.udpDown = c[i].udpDown
    BY <1>1, <1>4 DEF Conn
  <2>2. x \in Conn
    BY <1>1, <1>4 DEF Conn, Ices, Paths
  <2>3. Ready(x)
    BY <1>1, <2>1 DEF Ready, ConnInv, Live
  <2> QED
    BY <1>2, <2>1, <2>2, <2>3, TurnsInv
<1> QED
  BY <1>2, <1>3, <1>4

\* A path that works is disconnected for a moment.
LEMMA HiccupInv ==
    ASSUME Inv, NEW i \in Streams, Hiccup(i)
    PROVE  Inv'
<1>1. PICK x : x = [c[i] EXCEPT !.ice = "disconnected"]
  OBVIOUS
<1>2. PICK z : z = RecoverIce(x, suspect)
  OBVIOUS
<1>3. /\ c[i] \in Conn /\ ConnInv(c[i]) /\ c[i].ice = "connected" /\ suspect \in Nat
      /\ up.given => ~c[i].offer
      /\ c[i].offer \/ "tcp" \in conf
  BY ConnFacts DEF Hiccup
<1>4. /\ x \in Conn /\ x.ice = "disconnected" /\ x.path = c[i].path /\ x.on = c[i].on
      /\ x.offer = c[i].offer /\ x.restart = c[i].restart /\ x.restarted = c[i].restarted
      /\ x.seen = c[i].seen /\ x.udpDown = c[i].udpDown
  BY <1>1, <1>3 DEF Conn, Ices
<1>5. Ready(x)
  BY <1>3, <1>4 DEF Ready, ConnInv, Live
<1>6. z \in Conn /\ ConnInv(z) /\ z.offer = c[i].offer
  BY <1>2, <1>3, <1>4, <1>5, RecoveredIsSound
<1>7. /\ c' = [c EXCEPT ![i] = z] /\ events' \in Nat
      /\ UNCHANGED <<conf, net, udp, sig, tag, up, suspect, hidden, outage, bad>>
  BY <1>1, <1>2, ConnFacts DEF Hiccup, Event, Inv, Types
<1> QED
  BY <1>3, <1>6, <1>7, OneConnection

\* The server offers a relay over UDP, or one over TCP.
LEMMA Offered ==
    ASSUME conf \in Confs
    PROVE  "udp" \in conf \/ "tcp" \in conf
<1>1. Confs \subseteq SUBSET {"udp", "tcp"} /\ \A f \in Confs : f # {}
  BY PathAssumption
<1>2. conf \subseteq {"udp", "tcp"} /\ conf # {}
  BY <1>1
<1> QED
  BY <1>2

\* A connection is made anew.
LEMMA AnewInv ==
    ASSUME Inv, NEW i \in Streams, Anew(i)
    PROVE  Inv'
<1>1. PICK z : z = NewStream(up)
  OBVIOUS
<1>2. z \in Conn
  BY <1>1, Bounds DEF NewStream, Conn, Ices, Paths, OffersUdp, Inv, Types
<1>3. ConnInv(z)
  BY <1>1, Bounds DEF NewStream, ConnInv, Live
<1>4. z.offer = OffersUdp(up) /\ conf \in Confs /\ (up.given => "tcp" \in conf)
  BY <1>1 DEF NewStream, Inv, Types, Decision
<1>7. "udp" \in conf \/ "tcp" \in conf
  BY <1>4, Offered
<1>5. (up.given => ~z.offer) /\ (z.offer \/ "tcp" \in conf)
  BY <1>4, <1>7 DEF OffersUdp, UdpRelayGivenUp, CanDropUdp
<1>6. /\ c' = [c EXCEPT ![i] = z] /\ events' \in Nat
      /\ UNCHANGED <<conf, net, udp, sig, tag, up, suspect, hidden, outage, bad>>
  BY <1>1, ConnFacts DEF Anew, Event, Inv, Types
<1> QED
  BY <1>2, <1>3, <1>5, <1>6, OneConnection

-----------------------------------------------------------------------------
(* The environment.                                                        *)

\* The network goes away from a page that is not in the middle of anything:
\* the connections there are go over the network the page knows of.
LEMMA GoneInv ==
    ASSUME Inv, Races = {}, Calm, net # "off", sig' = FALSE, outage' = 0,
           net' \in Nets \/ (net' = "off" /\ hidden), events' \in Nat,
           UNCHANGED <<c, conf, udp, tag, up, suspect, hidden, bad>>
    PROVE  Inv'
<1>7. outage' \in 0 .. 2
  BY SMT
<1>8. net' \in Nets \cup {"off"}
  OBVIOUS
<1>4. outage' \in 0 .. 2 /\ net' \in Nets \cup {"off"} /\ sig' \in BOOLEAN
  BY <1>7, <1>8
<1>5. Types'
  BY <1>4 DEF Inv, Types
<1>6. net' = "off" => hidden'
  BY Bounds
<1>1. Signalling'
  BY <1>6 DEF Inv, Signalling
<1>2. Decision'
  BY DEF Inv, Decision
<1>3. ASSUME NEW i \in Streams PROVE ConnInv(c[i])'
  <2>1. /\ c[i].ice \notin {"checking", "disconnected", "failed"} /\ c[i].udpDown = Never
        /\ c[i].ice = "connected" => c[i].on = net
    BY DEF Calm, Works
  <2>2. ConnInv(c[i]) /\ (sig => net = tag)
    BY DEF Inv, Signalling
  <2>3. c[i].ice = "connected" => c[i].on = tag
    BY <2>1, <2>2 DEF ConnInv, Live
  <2>4. ~up.given /\ c[i].seen = "udp" /\ "tcp" \in conf => c[i].udpDown # UdpDownFor
    BY <2>2 DEF ConnInv
  <2> QED
    BY <2>1, <2>2, <2>3, <2>4 DEF ConnInv, Live
<1> QED
  BY <1>5, <1>1, <1>2, <1>3 DEF Inv

\* Another network.
LEMMA ChangeNetworkInv ==
    ASSUME Inv, Races = {}, NEW n \in Nets, ChangeNetwork(n)
    PROVE  Inv'
<1>1. events' \in Nat
  BY DEF ChangeNetwork, Event, Inv, Types
<1> QED
  BY <1>1, GoneInv DEF ChangeNetwork

\* A phone takes the network from the page.
LEMMA TakeNetworkInv ==
    ASSUME Inv, Races = {}, TakeNetwork
    PROVE  Inv'
<1>1. events' \in Nat
  BY DEF TakeNetwork, Inv, Types
<1> QED
  BY <1>1, GoneInv DEF TakeNetwork

\* The page is put in the background, and looked at again.
LEMMA HideShowInv ==
    ASSUME Inv, Hide \/ Show
    PROVE  Inv'
<1>1. /\ UNCHANGED <<c, conf, udp, sig, tag, up, suspect, outage, bad>>
      /\ hidden' \in BOOLEAN /\ events' \in Nat /\ net' \in Nets \cup {"off"} /\ net' # "off"
      /\ net # "off" => net' = net
  <2>1. net \in Nets \cup {"off"} /\ events \in Nat /\ "off" \notin Nets
    BY Bounds DEF Inv, Types
  <2>2. CASE Hide
    BY <2>1, <2>2 DEF Hide, Event
  <2>3. CASE Show
    BY <2>1, <2>3 DEF Show
  <2> QED
    BY <2>2, <2>3
<1>2. sig => net # "off"
  BY DEF Inv, Signalling
<1>3. Types' /\ Signalling'
  BY <1>1, <1>2 DEF Inv, Types, Signalling
<1>4. Decision'
  BY <1>1 DEF Inv, Decision
<1>5. ASSUME NEW i \in Streams PROVE ConnInv(c[i])'
  <2>1. ConnInv(c[i])
    BY DEF Inv
  <2> QED
    BY <1>1, <1>2, <2>1 DEF ConnInv, Live
<1> QED
  BY <1>3, <1>4, <1>5 DEF Inv

\* UDP gets worse, or well again.
LEMMA UdpTurnsInv ==
    ASSUME Inv, NEW how \in {"good", "lossy", "blocked"}, UdpTurns(how)
    PROVE  Inv'
<1>1. /\ UNCHANGED <<c, conf, net, sig, tag, up, suspect, hidden, outage>>
      /\ net \in Nets /\ udp \in [Nets -> {"good", "lossy", "blocked"}] /\ bad \subseteq Nets
      /\ udp' = [udp EXCEPT ![net] = how] /\ events' \in Nat
      /\ bad' = IF how = "good" THEN bad ELSE bad \cup {net}
  BY DEF UdpTurns, Event, Inv, Types
<1>2. /\ udp' \in [Nets -> {"good", "lossy", "blocked"}] /\ bad \subseteq bad' /\ bad' \subseteq Nets
      /\ \A n \in Nets : udp'[n] = IF n = net THEN how ELSE udp[n]
  BY <1>1
<1>3. \A n \in Nets : udp'[n] # "good" => n \in bad'
  BY <1>1, <1>2 DEF Inv, Signalling
<1>4. Types' /\ Signalling'
  BY <1>1, <1>2, <1>3 DEF Inv, Types, Signalling
<1>5. Decision'
  BY <1>1, <1>2 DEF Inv, Decision
<1>6. ASSUME NEW i \in Streams PROVE ConnInv(c[i])'
  <2>1. ConnInv(c[i])
    BY DEF Inv
  <2> QED
    BY <1>1, <2>1 DEF ConnInv, Live
<1> QED
  BY <1>4, <1>5, <1>6 DEF Inv

\* What is remembered of a network expires.
LEMMA ExpireInv ==
    ASSUME Inv, NEW n \in Nets, Expire(n)
    PROVE  Inv'
<1>1. /\ UNCHANGED <<c, conf, net, udp, sig, tag, suspect, hidden, outage, bad>>
      /\ up \in [given : BOOLEAN, on : Nets \cup {"none"}, remembered : SUBSET Nets]
      /\ up' = [up EXCEPT !.remembered = @ \ {n}] /\ events' \in Nat
  BY DEF Expire, Event, Inv, Types
<1>2. /\ up' \in [given : BOOLEAN, on : Nets \cup {"none"}, remembered : SUBSET Nets]
      /\ up'.given = up.given /\ up'.on = up.on /\ up'.remembered = up.remembered \ {n}
  BY <1>1
<1>3. Types' /\ Signalling'
  BY <1>1, <1>2 DEF Inv, Types, Signalling
<1>4. Decision'
  BY <1>1, <1>2 DEF Inv, Decision
<1>5. ASSUME NEW i \in Streams PROVE ConnInv(c[i])'
  <2>1. ConnInv(c[i])
    BY DEF Inv
  <2> QED
    BY <1>1, <1>2, <2>1 DEF ConnInv, Live
<1> QED
  BY <1>3, <1>4, <1>5 DEF Inv

-----------------------------------------------------------------------------
(* The signalling comes back.                                              *)

\* The connections of retryUdp() and of recoverIce().
LEMMA ResumedConn ==
    ASSUME Inv, NEW i \in Streams, ~sig, sig' = TRUE, suspect' = SuspectFor, outage' = 0,
           NEW z, z \in Conn,
           z.ice = c[i].ice, z.path = c[i].path, z.ice = "failed" => z.restart,
           Live(z) /\ z.restarted # Never => z.restart,
           z.ice = "disconnected" => z.restart,
           z.seen = "udp" => up'.given = up.given /\ z.seen = c[i].seen /\ z.udpDown = c[i].udpDown,
           UNCHANGED <<conf, net, udp, hidden, bad, events>>
    PROVE  /\ Live(z) => z.path # "none"
           /\ z.ice # "checking"
           /\ suspect' > 0
           /\ ~up'.given /\ z.seen = "udp" /\ "tcp" \in conf => z.udpDown # UdpDownFor
<1>1. ConnInv(c[i])
  BY DEF Inv
<1> QED
  BY <1>1, Bounds DEF ConnInv, Live

\* What the connections are after a resume, whichever way, is as it should be.
LEMMA ResumedIsSound ==
    ASSUME Inv, NEW i \in Streams, ~sig, sig' = TRUE, suspect' = SuspectFor, outage' = 0,
           NEW z, z = c'[i], z \in Conn,
           z.ice = c[i].ice, z.path = c[i].path, z.ice = "failed" => z.restart,
           Live(z) /\ z.restarted # Never => z.restart,
           z.ice = "disconnected" => z.restart,
           z.seen = "udp" => up'.given = up.given /\ z.seen = c[i].seen /\ z.udpDown = c[i].udpDown,
           UNCHANGED <<conf, net, udp, hidden, bad, events>>
    PROVE  ConnInv(c[i])'
<1>1. /\ Live(z) => z.path # "none"
      /\ z.ice # "checking"
      /\ suspect' > 0
      /\ ~up'.given /\ z.seen = "udp" /\ "tcp" \in conf => z.udpDown # UdpDownFor
  BY ResumedConn
<1> QED
  BY <1>1 DEF ConnInv, Live

\* gotResumed(): UDP is tried again where it may work, and every connection
\* that is down is restarted.
LEMMA ResumeInv ==
    ASSUME Inv, Resume
    PROVE  Inv'
<1>1. /\ ~sig /\ net \in Nets /\ sig' = TRUE /\ tag' = net /\ outage' = 0
      /\ UNCHANGED <<conf, net, udp, hidden, bad, events>>
  BY DEF Resume, Inv, Types
<1>2. /\ c \in [Streams -> Conn] /\ conf \in Confs
      /\ up \in [given : BOOLEAN, on : Nets \cup {"none"}, remembered : SUBSET Nets]
  BY DEF Inv, Types
<1>3. "udp" \in conf \/ "tcp" \in conf
  BY <1>2, Offered
<1>4. PICK s : s = [Now EXCEPT !.suspect = SuspectFor]
  OBVIOUS
<1>5. s = [c |-> c, up |-> up, suspect |-> SuspectFor]
  BY <1>4 DEF Now
<1>6. DEFINE Elsewhere == up.given /\ tag' # up.on /\ tag' \notin up.remembered
             all == [i \in Streams |-> RecoverIce(c[i], SuspectFor)]
<1>7. Becomes(IF RetryUdp(s) # s THEN RetryUdp(s) ELSE [s EXCEPT !.c = all])
  BY <1>4 DEF Resume
<1>8. CASE Elsewhere
  <2>1. PICK u : u = [up EXCEPT !.given = FALSE, !.on = "none"]
    OBVIOUS
  <2>2. PICK d : d = [i \in Streams |->
                         Restarted(RestartIce([Forgotten(c[i]) EXCEPT !.offer = "udp" \in conf]))]
    OBVIOUS
  <2>3. RetryUdp(s) = [c |-> d, up |-> u, suspect |-> SuspectFor]
    BY <1>5, <1>8, <2>1, <2>2 DEF RetryUdp
  <2>4. u.given = FALSE /\ u.remembered = up.remembered
        /\ u \in [given : BOOLEAN, on : Nets \cup {"none"}, remembered : SUBSET Nets]
    BY <1>2, <2>1
  <2>5. RetryUdp(s) # s
    BY <1>5, <1>8, <2>3, <2>4
  <2>6. c' = d /\ up' = u /\ suspect' = SuspectFor
    BY <1>7, <2>3, <2>5 DEF Becomes
  <2>7. ASSUME NEW i \in Streams
        PROVE  /\ d[i] \in Conn /\ d[i].ice = c[i].ice /\ d[i].path = c[i].path /\ d[i].restart
               /\ d[i].seen = "none" /\ d[i].offer = ("udp" \in conf)
    <3>1. PICK a : a = [c[i] EXCEPT !.seen = "none", !.udpDown = Never, !.lossy = 0]
      OBVIOUS
    <3>2. c[i] \in Conn /\ a = Forgotten(c[i])
      BY <1>2, <3>1 DEF Forgotten
    <3>3. a.ice = c[i].ice /\ a.path = c[i].path /\ a.seen = "none"
      BY <3>1, <3>2 DEF Conn
    <3>4. a \in Conn
      <4>1. PICK a1 \in Conn : a1 = [c[i] EXCEPT !.seen = "none"]
        BY <3>2 DEF Conn, Paths
      <4>2. PICK a2 \in Conn : a2 = [a1 EXCEPT !.udpDown = Never]
        BY Bounds DEF Conn
      <4>3. PICK a3 \in Conn : a3 = [a2 EXCEPT !.lossy = 0]
        BY DEF Conn
      <4> QED
        BY <3>1, <4>1, <4>2, <4>3
    <3>12. PICK v \in BOOLEAN : v = ("udp" \in conf)
      <4>1. ("udp" \in conf) \in BOOLEAN
        OBVIOUS
      <4> QED
        BY <4>1, Zenon
    <3>5. PICK b \in Conn : b = [a EXCEPT !.offer = v]
      BY <3>4 DEF Conn
    <3>6. PICK e \in Conn : e = [b EXCEPT !.restart = TRUE]
      BY DEF Conn
    <3>7. PICK f \in Conn : f = [e EXCEPT !.restarted = 0]
      BY DEF Conn
    <3>8. PICK g \in Conn : g = [f EXCEPT !.down = Never]
      BY Bounds DEF Conn
    <3>9. b.ice = a.ice /\ b.path = a.path /\ b.seen = a.seen /\ b.offer = v
      BY <3>4, <3>5 DEF Conn
    <3>10. g.ice = b.ice /\ g.path = b.path /\ g.seen = b.seen /\ g.offer = b.offer /\ g.restart
      BY <3>6, <3>7, <3>8 DEF Conn
    <3>11. d[i] = g
      <4>1. b = [Forgotten(c[i]) EXCEPT !.offer = "udp" \in conf]
        BY <3>2, <3>5, <3>12, Zenon
      <4>2. d[i] = Restarted(RestartIce(b))
        BY <2>2, <4>1, Zenon
      <4>3. Restarted(e) = g
        BY <3>7, <3>8 DEF Restarted
      <4> QED
        BY <4>2, <4>3, <3>6 DEF RestartIce
    <3> QED
      BY <3>3, <3>9, <3>10, <3>11, <3>12
  <2>8. c' \in [Streams -> Conn]
    BY <2>2, <2>6, <2>7
  <2>9. Types' /\ Signalling'
    BY <1>1, <2>4, <2>6, <2>8, Bounds DEF Inv, Types, Signalling
  <2>10. Decision'
    BY <1>1, <1>3, <2>4, <2>6, <2>7 DEF Inv, Decision
  <2>11. ASSUME NEW i \in Streams PROVE ConnInv(c[i])'
    BY <1>1, <2>6, <2>7, ResumedIsSound
  <2> QED
    BY <2>9, <2>10, <2>11 DEF Inv
<1>9. CASE ~Elsewhere
  <2>1. RetryUdp(s) = s
    BY <1>5, <1>9 DEF RetryUdp
  <2>2. c' = all /\ up' = up /\ suspect' = SuspectFor
    BY <1>5, <1>7, <2>1 DEF Becomes
  <2>3. ASSUME NEW i \in Streams
        PROVE  /\ c'[i] \in Conn /\ Same(c[i], c'[i])
               /\ c[i].ice = "failed" => c'[i].restart
               /\ Live(c[i]) /\ c'[i].restarted # Never => c'[i].restart
               /\ c[i].ice = "disconnected" => c'[i].restart
    <3>1. PICK y : y = RecoverIce(c[i], SuspectFor)
      OBVIOUS
    <3>2. c'[i] = y /\ c[i] \in Conn /\ ConnInv(c[i])
      BY <2>2, <3>1, ConnFacts
    <3>3. /\ y \in Conn /\ Same(c[i], y)
          /\ y.restarted # Never => y.restart \/ c[i].restarted # Never
          /\ c[i].ice = "disconnected" /\ c[i].restarted = Never => y.restart
      BY <3>1, <3>2, Bounds, RecoverIceFacts
    <3> QED
      BY <3>2, <3>3 DEF ConnInv, Live, Same
  <2>4. c' \in [Streams -> Conn]
    BY <2>2, <2>3
  <2>5. Types' /\ Signalling'
    BY <1>1, <2>2, <2>4, Bounds DEF Inv, Types, Signalling
  <2>6. up.given => tag' \in bad' \cup {up.on}
    BY <1>1, <1>9 DEF Inv, Decision
  <2>7. Decision'
    BY <1>1, <2>2, <2>3, <2>6 DEF Inv, Decision, Same
  <2>8. ASSUME NEW i \in Streams PROVE ConnInv(c[i])'
    <3>1. /\ c'[i].ice = c[i].ice /\ c'[i].path = c[i].path
          /\ c'[i].seen = c[i].seen /\ c'[i].udpDown = c[i].udpDown
      BY <2>3 DEF Same
    <3>2. Live(c'[i]) = Live(c[i])
      BY <3>1 DEF Live
    <3> QED
      BY <1>1, <2>2, <2>3, <3>1, <3>2, ResumedIsSound
  <2> QED
    BY <2>5, <2>7, <2>8 DEF Inv
<1> QED
  BY <1>8, <1>9

-----------------------------------------------------------------------------
(* A poll.                                                                 *)

\* An age after a tick.
LEMMA AgedFacts ==
    ASSUME NEW a \in Nat, NEW m \in Nat
    PROVE  /\ Aged(a, m) \in Nat
           /\ a = Never => Aged(a, m) = Never
           /\ a # Never => Aged(a, m) \in {a, a + 1}
           /\ Aged(a, m) = m => a = m \/ a = m - 1
  BY Bounds DEF Aged

\* A connection a tick later.
LEMMA OlderFacts ==
    ASSUME NEW x \in Conn, NEW o, o = Older(x)
    PROVE  /\ o \in Conn
           /\ o.ice = x.ice /\ o.path = x.path /\ o.on = x.on /\ o.offer = x.offer
           /\ o.restart = x.restart /\ o.seen = x.seen /\ o.lossy = x.lossy
           /\ o.udpDown = Aged(x.udpDown, UdpDownFor)
           /\ o.down = Aged(x.down, DownFor) /\ o.restarted = Aged(x.restarted, MinGap)
           /\ x.restarted = Never => o.restarted = Never
<1>1. /\ x.down \in Nat /\ x.restarted \in Nat /\ x.udpDown \in Nat
  BY DEF Conn
<1>2. PICK d \in Nat : d = Aged(x.down, DownFor)
  BY <1>1, Bounds, AgedFacts
<1>3. PICK r \in Nat : r = Aged(x.restarted, MinGap) /\ (x.restarted = Never => r = Never)
  BY <1>1, Bounds, AgedFacts
<1>4. PICK u \in Nat : u = Aged(x.udpDown, UdpDownFor)
  BY <1>1, Bounds, AgedFacts
<1>5. o = [x EXCEPT !.down = d, !.restarted = r, !.udpDown = u]
  BY <1>2, <1>3, <1>4 DEF Older
<1>6. o \in Conn
  <2>1. PICK a1 \in Conn : a1 = [x EXCEPT !.down = d]
    BY DEF Conn
  <2>2. PICK a2 \in Conn : a2 = [a1 EXCEPT !.restarted = r]
    BY DEF Conn
  <2>3. PICK a3 \in Conn : a3 = [a2 EXCEPT !.udpDown = u]
    BY DEF Conn
  <2> QED
    BY <1>5, <2>1, <2>2, <2>3
<1>7. /\ o.ice = x.ice /\ o.path = x.path /\ o.on = x.on /\ o.offer = x.offer
      /\ o.restart = x.restart /\ o.seen = x.seen /\ o.lossy = x.lossy
      /\ o.udpDown = u /\ o.restarted = r /\ o.down = d
  BY <1>5 DEF Conn
<1> QED
  BY <1>2, <1>3, <1>4, <1>6, <1>7

\* A connection after Watcher.update().
LEMMA WatchedFacts ==
    ASSUME NEW o \in Conn, NEW w, w = Watched(o)
    PROVE  /\ w \in Conn
           /\ w.ice = o.ice /\ w.path = o.path /\ w.on = o.on /\ w.offer = o.offer
           /\ w.restart = o.restart /\ w.restarted = o.restarted /\ w.down = o.down
           /\ w.seen = IF o.ice = "connected" THEN o.path ELSE o.seen
           /\ w.udpDown = IF o.ice # "disconnected" THEN Never
                          ELSE IF o.udpDown = Never THEN 0 ELSE o.udpDown
           /\ w.lossy # 0 => o.ice = "connected" /\ Loses(o)
<1>1. PICK s \in Paths : s = IF o.ice = "connected" THEN o.path ELSE o.seen
  BY DEF Conn
<1>2. PICK u \in Nat : u = IF o.ice # "disconnected" THEN Never ELSE IF o.udpDown = Never THEN 0 ELSE o.udpDown
  BY Bounds DEF Conn
<1>3. PICK l \in Nat : /\ l = IF o.ice = "connected" /\ Loses(o)
                              THEN IF o.lossy < LossPolls THEN o.lossy + 1 ELSE o.lossy
                              ELSE 0
                       /\ l # 0 => o.ice = "connected" /\ Loses(o)
  BY DEF Conn
<1>4. w = [o EXCEPT !.seen = s, !.udpDown = u, !.lossy = l]
  BY <1>1, <1>2, <1>3 DEF Watched
<1>5. w \in Conn
  <2>1. PICK a1 \in Conn : a1 = [o EXCEPT !.seen = s]
    BY DEF Conn
  <2>2. PICK a2 \in Conn : a2 = [a1 EXCEPT !.udpDown = u]
    BY DEF Conn
  <2>3. PICK a3 \in Conn : a3 = [a2 EXCEPT !.lossy = l]
    BY DEF Conn
  <2> QED
    BY <1>4, <2>1, <2>2, <2>3
<1>6. /\ w.ice = o.ice /\ w.path = o.path /\ w.on = o.on /\ w.offer = o.offer
      /\ w.restart = o.restart /\ w.restarted = o.restarted /\ w.down = o.down
      /\ w.seen = s /\ w.udpDown = u /\ w.lossy = l
  BY <1>4 DEF Conn
<1> QED
  BY <1>1, <1>2, <1>3, <1>5, <1>6

\* A connection that Watcher.reset() forgets.
LEMMA ForgottenFacts ==
    ASSUME NEW o \in Conn, NEW w, w = Forgotten(o)
    PROVE  /\ w \in Conn
           /\ w.ice = o.ice /\ w.path = o.path /\ w.on = o.on /\ w.offer = o.offer
           /\ w.restart = o.restart /\ w.restarted = o.restarted /\ w.down = o.down
           /\ w.seen = "none" /\ w.udpDown = Never
<1>1. w = [o EXCEPT !.seen = "none", !.udpDown = Never, !.lossy = 0]
  BY DEF Forgotten
<1>2. w \in Conn
  <2>1. PICK a1 \in Conn : a1 = [o EXCEPT !.seen = "none"]
    BY DEF Conn, Paths
  <2>2. PICK a2 \in Conn : a2 = [a1 EXCEPT !.udpDown = Never]
    BY Bounds DEF Conn
  <2>3. PICK a3 \in Conn : a3 = [a2 EXCEPT !.lossy = 0]
    BY DEF Conn
  <2> QED
    BY <1>1, <2>1, <2>2, <2>3
<1> QED
  BY <1>1, <1>2 DEF Conn

\* What the poll may count on: the time the environment takes.
Polled ==
    /\ Brief
    /\ ~sig => net = "off" \/ outage < 2
    /\ \A i \in Streams : c[i].ice = "connected" => Works(c[i])
    /\ \A i \in Streams : c[i].ice # "checking" /\ (c[i].restart => ~sig)

\* When a poll comes, a connection that is up or that was goes over the
\* network the page knows of.
LEMMA PolledIsHere ==
    ASSUME Inv, Polled, NEW i \in Streams, Live(c[i])
    PROVE  c[i].on = tag
<1>1. ConnInv(c[i]) /\ (sig => net = tag)
  BY DEF Inv, Signalling
<1>2. /\ c[i].ice = "connected" => c[i].on = net
      /\ c[i].restart => ~sig
  BY DEF Polled, Works
<1> QED
  BY <1>1, <1>2 DEF ConnInv, Live

\* What a poll finds broken is broken where the page is.
LEMMA BrokenIsBad ==
    ASSUME Inv, Polled, ~hidden, ~up.given, "tcp" \in conf, NEW i \in Streams,
           UdpBroken(Watched(Older(c[i])))
    PROVE  tag \in bad
<1>1. PICK x \in Conn : x = c[i]
  BY ConnFacts
<1>2. PICK o \in Conn : /\ o = Older(x) /\ o.ice = x.ice /\ o.path = x.path /\ o.on = x.on
                        /\ o.seen = x.seen /\ o.udpDown = Aged(x.udpDown, UdpDownFor)
  BY OlderFacts
<1>3. PICK w \in Conn : /\ w = Watched(o) /\ w.ice = o.ice
                        /\ w.seen = IF o.ice = "connected" THEN o.path ELSE o.seen
                        /\ w.udpDown = IF o.ice # "disconnected" THEN Never
                                       ELSE IF o.udpDown = Never THEN 0 ELSE o.udpDown
                        /\ w.lossy # 0 => o.ice = "connected" /\ Loses(o)
  BY WatchedFacts
<1>4. w.seen = "udp" /\ (w.ice = "failed" \/ w.udpDown = UdpDownFor \/ w.lossy = LossPolls)
  BY <1>1, <1>2, <1>3 DEF UdpBroken
<1>5. /\ ConnInv(x) /\ net \in Nets /\ (sig => net = tag /\ outage = 0)
      /\ \A n \in Nets : udp[n] # "good" => n \in bad
      /\ outage \in Nat
  BY <1>1 DEF Inv, Signalling, Types
<1>6. /\ ~sig => outage < 2
      /\ x.restart => ~sig
      /\ x.ice = "disconnected" /\ Works(x) => x.udpDown # UdpDownFor - 1
  BY <1>1, <1>5, Bounds DEF Polled, Brief
<1>7. ~(w.ice = "failed")
  BY <1>2, <1>3, <1>5, <1>6 DEF ConnInv
<1>8. CASE w.udpDown = UdpDownFor
  <2>1. x.ice = "disconnected" /\ o.udpDown = UdpDownFor
    BY <1>2, <1>3, <1>8, Bounds
  <2>2. x.seen = "udp" /\ x.udpDown # UdpDownFor
    BY <1>2, <1>3, <1>4, <1>5, <2>1 DEF ConnInv
  <2>3. x.udpDown \in Nat
    BY DEF Conn
  <2>4. x.udpDown = UdpDownFor - 1 /\ x.udpDown # Never
    BY <1>2, <2>1, <2>2, <2>3, Bounds, AgedFacts
  <2>5. sig
    <3>1. ~sig => x.udpDown < outage
      BY <1>5, <2>4 DEF ConnInv
    <3> QED
      BY <1>5, <1>6, <2>3, <2>4, <3>1, Bounds
  <2>6. x.on = net /\ net = tag
    BY <1>1, <1>5, <2>1, <2>5, PolledIsHere DEF Live
  <2>7. x.path # "none" /\ ~Works(x)
    BY <1>5, <1>6, <2>1, <2>4 DEF ConnInv, Live
  <2>8. udp[net] = "blocked"
    BY <2>6, <2>7 DEF Works
  <2> QED
    BY <1>5, <2>6, <2>8
<1>9. CASE w.lossy = LossPolls
  <2>1. LossPolls # 0
    BY PathAssumption
  <2>2. x.ice = "connected" /\ Loses(o)
    BY <1>2, <1>3, <1>9, <2>1
  <2>3. x.on = net /\ udp[net] = "lossy"
    BY <1>2, <2>2 DEF Loses, Works
  <2>4. x.on = tag
    BY <1>1, <2>2, PolledIsHere DEF Live
  <2> QED
    BY <1>5, <2>3, <2>4
<1> QED
  BY <1>4, <1>7, <1>8, <1>9

\* What is left of a connection x once a poll has gone by turn-fallback.js.
Seen(x, w) ==
    /\ w \in Conn /\ w.ice = x.ice /\ w.path = x.path /\ w.on = x.on
    /\ x.restart => w.restart
    /\ x.restarted = Never => w.restarted = Never
    /\ w.down = Aged(x.down, DownFor) /\ w.restarted = Aged(x.restarted, MinGap)

\* For how long turn-fallback.js has seen a connection x over UDP down.
UdpAge(x, w) ==
    w.seen = "udp" =>
        \/ x.ice # "disconnected" /\ w.udpDown = Never
        \/ /\ x.ice = "disconnected" /\ x.seen = "udp"
           /\ w.udpDown = IF Aged(x.udpDown, UdpDownFor) = Never THEN 0 ELSE Aged(x.udpDown, UdpDownFor)

\* The decision a poll makes, and the connections as turn-fallback.js leaves
\* them: either all keep what they may go over, or UDP is given up for all.
LEMMA PollDecides ==
    ASSUME Inv, Polled, NEW s,
           s = WatchTurnPath([Now EXCEPT !.c = [i \in Streams |-> Older(c[i])]])
    PROVE  /\ DOMAIN s.c = Streams
           /\ \A i \in Streams : Seen(c[i], s.c[i])
           /\ \/ /\ s.up = up
                 /\ \A i \in Streams : s.c[i].offer = c[i].offer
                 /\ ~up.given => \A i \in Streams :
                       /\ s.c[i].udpDown = Never \/ s.c[i].udpDown = 0
                          \/ (c[i].udpDown # Never /\ s.c[i].udpDown \in {c[i].udpDown, c[i].udpDown + 1})
                       /\ s.c[i].udpDown # Never => ~hidden
                       /\ s.c[i].seen = "udp" /\ "tcp" \in conf => s.c[i].udpDown # UdpDownFor
                       /\ UdpAge(c[i], s.c[i])
              \/ /\ s.up = [given |-> TRUE, on |-> tag, remembered |-> up.remembered \cup {tag}]
                 /\ "tcp" \in conf /\ tag \in bad
                 /\ \A i \in Streams : ~s.c[i].offer /\ s.c[i].restart
<1>1. PICK old : old = [i \in Streams |-> Older(c[i])]
  OBVIOUS
<1>2. PICK n : n = [c |-> old, up |-> up, suspect |-> suspect]
  OBVIOUS
<1>3. s = WatchTurnPath(n)
  BY <1>1, <1>2 DEF Now
<1>4. ASSUME NEW i \in Streams
      PROVE  /\ c[i] \in Conn /\ c[i].udpDown \in Nat /\ old[i] = Older(c[i]) /\ old[i] \in Conn
             /\ old[i].ice = c[i].ice /\ old[i].path = c[i].path /\ old[i].on = c[i].on
             /\ old[i].offer = c[i].offer /\ old[i].restart = c[i].restart
             /\ old[i].seen = c[i].seen /\ old[i].udpDown = Aged(c[i].udpDown, UdpDownFor)
             /\ old[i].down = Aged(c[i].down, DownFor)
             /\ old[i].restarted = Aged(c[i].restarted, MinGap)
             /\ c[i].restarted = Never => old[i].restarted = Never
  <2>1. c[i] \in Conn /\ old[i] = Older(c[i])
    BY <1>1, ConnFacts
  <2>2. c[i].udpDown \in Nat
    BY <2>1 DEF Conn
  <2> QED
    BY <2>1, <2>2, OlderFacts
<1>5. CASE up.given
  <2>1. s = n
    BY <1>2, <1>3, <1>5 DEF WatchTurnPath
  <2> QED
    BY <1>1, <1>2, <1>4, <1>5, <2>1 DEF Seen
<1>6. CASE ~up.given /\ hidden
  <2>1. PICK f : f = [i \in Streams |-> Forgotten(old[i])]
    OBVIOUS
  <2>2. s = [n EXCEPT !.c = f]
    BY <1>2, <1>3, <1>6, <2>1 DEF WatchTurnPath
  <2>3. s.c = f /\ s.up = up
    BY <1>2, <2>2
  <2>4. ASSUME NEW i \in Streams
        PROVE  Seen(c[i], f[i]) /\ f[i].offer = c[i].offer /\ f[i].udpDown = Never /\ f[i].seen = "none"
    BY <1>4, <2>1, ForgottenFacts DEF Seen
  <2> QED
    BY <2>1, <2>3, <2>4 DEF UdpAge
<1>7. CASE ~up.given /\ ~hidden
  <2>1. PICK f : f = [i \in Streams |-> Watched(old[i])]
    OBVIOUS
  <2>2. PICK t : t = [c |-> f, up |-> up, suspect |-> suspect]
    OBVIOUS
  <2>3. s = IF \E i \in Streams : UdpBroken(f[i]) THEN GiveUpUdpRelay(t) ELSE t
    <3>1. t = [n EXCEPT !.c = [i \in Streams |-> Watched(n.c[i])]]
      BY <1>2, <2>1, <2>2
    <3> QED
      BY <1>2, <1>3, <1>7, <2>2, <3>1 DEF WatchTurnPath, WatchAlways
  <2>4. ASSUME NEW i \in Streams
        PROVE  /\ Seen(c[i], f[i]) /\ f[i].offer = c[i].offer /\ f[i] = Watched(Older(c[i]))
               /\ \/ f[i].udpDown = Never \/ f[i].udpDown = 0
                  \/ (c[i].udpDown # Never /\ f[i].udpDown \in {c[i].udpDown, c[i].udpDown + 1})
               /\ UdpAge(c[i], f[i])
    <3>1. f[i] = Watched(old[i]) /\ old[i] \in Conn /\ c[i].udpDown \in Nat
      BY <1>4, <2>1
    <3>2. /\ f[i] \in Conn
          /\ f[i].ice = old[i].ice /\ f[i].path = old[i].path /\ f[i].on = old[i].on
          /\ f[i].offer = old[i].offer
          /\ f[i].restart = old[i].restart /\ f[i].restarted = old[i].restarted
          /\ f[i].down = old[i].down
          /\ f[i].seen = IF old[i].ice = "connected" THEN old[i].path ELSE old[i].seen
          /\ f[i].udpDown = IF old[i].ice # "disconnected" THEN Never
                          ELSE IF old[i].udpDown = Never THEN 0 ELSE old[i].udpDown
      BY <3>1, WatchedFacts
    <3>3. Seen(c[i], f[i]) /\ f[i].offer = c[i].offer /\ f[i] = Watched(Older(c[i]))
      BY <1>4, <3>1, <3>2 DEF Seen
    <3>4. \/ f[i].udpDown = Never \/ f[i].udpDown = 0
          \/ (c[i].udpDown # Never /\ f[i].udpDown \in {c[i].udpDown, c[i].udpDown + 1})
      BY <1>4, <3>1, <3>2, Bounds, AgedFacts
    <3>5. UdpAge(c[i], f[i])
      BY <1>4, <3>2 DEF UdpAge
    <3> QED
      BY <3>3, <3>4, <3>5
  <2>5. CASE s = t /\ ((\E i \in Streams : UdpBroken(f[i])) => "tcp" \notin conf)
    <3>1. s.c = f /\ s.up = up /\ DOMAIN f = Streams
      BY <2>1, <2>2, <2>5
    <3>2. ASSUME NEW i \in Streams, f[i].seen = "udp", "tcp" \in conf
          PROVE  f[i].udpDown # UdpDownFor
      BY <2>5, <3>2 DEF UdpBroken
    <3> QED
      BY <1>7, <2>4, <3>1, <3>2
  <2>6. CASE (\E i \in Streams : UdpBroken(f[i])) /\ "tcp" \in conf
    <3>1. PICK g : g = [i \in Streams |-> RestartIce([f[i] EXCEPT !.offer = FALSE])]
      OBVIOUS
    <3>2. s = GiveUpUdpRelay(t)
      BY <2>3, <2>6
    <3>3. /\ s.c = g
          /\ s.up = [given |-> TRUE, on |-> tag, remembered |-> up.remembered \cup {tag}]
      <4>1. t.c = f /\ t.up = up
        BY <2>2
      <4>2. PICK u : u = [given |-> TRUE, on |-> tag, remembered |-> up.remembered \cup {tag}]
        OBVIOUS
      <4>3. g = [i \in Streams |-> RestartIce([t.c[i] EXCEPT !.offer = FALSE])]
        BY <3>1, <4>1, Zenon
      <4>4. s = [t EXCEPT !.up = u, !.c = g]
        BY <1>7, <2>6, <3>2, <4>1, <4>2, <4>3 DEF GiveUpUdpRelay, CanDropUdp
      <4> QED
        BY <2>2, <4>2, <4>4
    <3>4. ASSUME NEW i \in Streams
          PROVE  Seen(c[i], g[i]) /\ ~g[i].offer /\ g[i].restart
      <4>1. f[i] \in Conn /\ Seen(c[i], f[i])
        BY <2>4 DEF Seen
      <4>2. PICK a \in Conn : a = [f[i] EXCEPT !.offer = FALSE]
        BY <4>1 DEF Conn
      <4>3. PICK b \in Conn : b = [a EXCEPT !.restart = TRUE]
        BY DEF Conn
      <4>6. g[i] = RestartIce(a)
        BY <3>1, <4>2, Zenon
      <4>4. g[i] = b
        BY <4>3, <4>6 DEF RestartIce
      <4>5. /\ b.ice = f[i].ice /\ b.path = f[i].path /\ b.on = f[i].on /\ b.restart
            /\ b.restarted = f[i].restarted /\ b.down = f[i].down /\ b.offer = FALSE
        BY <4>1, <4>2, <4>3 DEF Conn
      <4> QED
        BY <4>1, <4>4, <4>5 DEF Seen
    <3>5. tag \in bad
      BY <1>7, <2>4, <2>6, BrokenIsBad
    <3> QED
      BY <2>6, <3>1, <3>3, <3>4, <3>5
  <2>7. CASE (\E i \in Streams : UdpBroken(f[i])) /\ "tcp" \notin conf
    <3>1. s = t
      BY <2>3, <2>7 DEF GiveUpUdpRelay, CanDropUdp
    <3> QED
      BY <2>5, <2>7, <3>1
  <2>8. CASE ~(\E i \in Streams : UdpBroken(f[i]))
    <3>1. s = t
      BY <2>3, <2>8
    <3> QED
      BY <2>5, <2>8, <3>1
  <2> QED
    BY <2>6, <2>7, <2>8
<1> QED
  BY <1>5, <1>6, <1>7

\* pollQuality(): the decision, then what ice-recovery.js makes of it.
LEMMA TickInv ==
    ASSUME Inv, Races = {}, Tick
    PROVE  Inv'
<1>1. Polled
  BY DEF Tick, Polled
<1>2. PICK sus : sus = IF suspect = 0 THEN 0 ELSE suspect - 1
  OBVIOUS
<1>3. sus \in Nat
  BY <1>2 DEF Inv, Types
<1>4. PICK s : /\ s = WatchTurnPath([Now EXCEPT !.c = [i \in Streams |-> Older(c[i])]])
               /\ c' = [i \in Streams |-> RecoverIce(s.c[i], sus)]
               /\ up' = s.up /\ suspect' = sus
  BY <1>2 DEF Tick
<1>5. /\ UNCHANGED <<conf, net, udp, sig, tag, hidden, bad, events>>
      /\ outage' = IF sig THEN 0 ELSE Aged(outage, 2)
  BY DEF Tick
<1>6. DEFINE Kept == /\ s.up = up
                     /\ \A i \in Streams : s.c[i].offer = c[i].offer
                     /\ ~up.given => \A i \in Streams :
                           /\ s.c[i].udpDown = Never \/ s.c[i].udpDown = 0
                              \/ (c[i].udpDown # Never /\ s.c[i].udpDown \in {c[i].udpDown, c[i].udpDown + 1})
                           /\ s.c[i].udpDown # Never => ~hidden
                           /\ s.c[i].seen = "udp" /\ "tcp" \in conf => s.c[i].udpDown # UdpDownFor
             Given == /\ s.up = [given |-> TRUE, on |-> tag, remembered |-> up.remembered \cup {tag}]
                      /\ "tcp" \in conf /\ tag \in bad
                      /\ \A i \in Streams : ~s.c[i].offer
<1>7. (\A i \in Streams : Seen(c[i], s.c[i])) /\ (Kept \/ Given)
  BY <1>1, <1>4, PollDecides
<1>8. ASSUME NEW i \in Streams
      PROVE  /\ c'[i] \in Conn /\ Same(s.c[i], c'[i])
             /\ c'[i].restarted # Never => c'[i].restart \/ s.c[i].restarted # Never
  <2>1. s.c[i] \in Conn /\ c'[i] = RecoverIce(s.c[i], sus)
    BY <1>4, <1>7 DEF Seen
  <2> QED
    BY <1>3, <2>1, RecoverIceFacts
<1>9. c' \in [Streams -> Conn]
  BY <1>4, <1>8
<1>10. outage' \in 0 .. 2 /\ (sig => outage' = 0) /\ (~sig /\ outage = 2 => outage' = 2)
       /\ (~sig /\ outage < 2 => outage' = outage + 1)
  <2>1. outage \in 0 .. 2
    BY DEF Inv, Types
  <2> QED
    BY <1>5, <2>1 DEF Aged, Never
<1>11. up' \in [given : BOOLEAN, on : Nets \cup {"none"}, remembered : SUBSET Nets]
  <2>1. up \in [given : BOOLEAN, on : Nets \cup {"none"}, remembered : SUBSET Nets] /\ tag \in Nets
    BY DEF Inv, Types
  <2>2. CASE Kept
    BY <1>4, <2>1, <2>2
  <2>3. CASE Given
    <3>1. PICK r \in SUBSET Nets : r = up.remembered \cup {tag}
      BY <2>1
    <3>2. up' = [given |-> TRUE, on |-> tag, remembered |-> r]
      BY <1>4, <2>3, <3>1, Zenon
    <3> QED
      BY <2>1, <3>2
  <2> QED
    BY <1>7, <2>2, <2>3
<1>12. Types'
  BY <1>3, <1>4, <1>5, <1>9, <1>10, <1>11 DEF Inv, Types
<1>13. Signalling'
  BY <1>5, <1>10 DEF Inv, Signalling
<1>14. Decision'
  <2>1. \A i \in Streams : c'[i].offer = s.c[i].offer
    BY <1>8 DEF Same
  <2>2. CASE Kept
    BY <1>4, <1>5, <2>1, <2>2 DEF Inv, Decision
  <2>3. CASE Given
    <3>1. /\ up'.given = TRUE /\ up'.on = tag /\ up'.remembered = up.remembered \cup {tag}
      BY <1>4, <2>3
    <3> QED
      BY <1>5, <2>1, <2>3, <3>1 DEF Inv, Decision
  <2> QED
    BY <1>7, <2>2, <2>3
<1>15. ASSUME NEW i \in Streams PROVE ConnInv(c[i])'
  <2>1. PICK x : x = c[i]
    OBVIOUS
  <2>2. PICK w : w = s.c[i]
    OBVIOUS
  <2>3. PICK z : z = c'[i]
    OBVIOUS
  <2>4. /\ x \in Conn /\ ConnInv(x) /\ Seen(x, w) /\ z \in Conn /\ Same(w, z)
        /\ z.restarted # Never => z.restart \/ w.restarted # Never
    BY <1>7, <1>8, <2>1, <2>2, <2>3, ConnFacts
  <2>5. /\ z.ice = x.ice /\ z.path = x.path /\ z.on = x.on /\ (x.restart => z.restart)
        /\ z.seen = w.seen /\ z.udpDown = w.udpDown
        /\ z.restarted # Never => z.restart \/ x.restarted # Never
    BY <2>4 DEF Seen, Same
  <2>6. /\ Live(x) => x.on = tag
        /\ x.ice # "checking"
        /\ x.restart => ~sig
    BY <1>1, <2>1, PolledIsHere DEF Polled
  <2>7. ~up'.given /\ ~sig => z.udpDown = Never \/ z.udpDown < outage'
    <3>1. SUFFICES ASSUME ~up'.given, ~sig, z.udpDown # Never
                   PROVE  z.udpDown < outage'
      OBVIOUS
    <3>2. Kept /\ ~up.given
      <4>1. Given => up'.given
        BY <1>4
      <4> QED
        BY <1>4, <1>7, <3>1, <4>1
    <3>3. /\ z.udpDown = 0 \/ (x.udpDown # Never /\ z.udpDown \in {x.udpDown, x.udpDown + 1})
          /\ ~hidden
      BY <2>1, <2>2, <2>5, <3>1, <3>2
    <3>4. outage < 2 /\ outage \in Nat /\ outage' = outage + 1
      <4>1. net # "off" /\ outage \in 0 .. 2
        BY <3>3 DEF Inv, Signalling, Types
      <4> QED
        BY <1>1, <1>10, <3>1, <4>1 DEF Polled
    <3>5. x.udpDown # Never => x.udpDown < outage
      BY <2>4, <3>1, <3>2 DEF ConnInv
    <3>6. x.udpDown \in Nat
      BY <2>4 DEF Conn
    <3> QED
      BY <3>3, <3>4, <3>5, <3>6
  <2>8. ~up'.given /\ z.seen = "udp" /\ "tcp" \in conf => z.udpDown # UdpDownFor
    <3>1. Given => up'.given
      BY <1>4
    <3>2. CASE Kept
      BY <1>4, <2>2, <2>5, <3>2
    <3> QED
      BY <1>7, <3>1, <3>2
  <2>9. /\ Live(z) => z.path # "none"
        /\ Live(z) => z.on = tag
        /\ Live(z) /\ z.restarted # Never => z.restart
        /\ z.ice # "checking"
        /\ z.ice = "failed" => z.restart /\ ~sig /\ ("tcp" \in conf => outage' = 2)
    BY <1>10, <2>4, <2>5, <2>6 DEF ConnInv, Live
  <2> QED
    BY <1>5, <2>3, <2>7, <2>8, <2>9 DEF ConnInv, Live
<1> QED
  BY <1>12, <1>13, <1>14, <1>15 DEF Inv

-----------------------------------------------------------------------------

\* A call begins.
LEMMA InitInv ==
    ASSUME Init
    PROVE  Inv
<1>1. PICK earlier \in Earlier :
         /\ up = [given |-> FALSE, on |-> "none", remembered |-> earlier]
         /\ udp = [n \in Nets |-> "good"] /\ bad = earlier
  BY DEF Init
<1>2. earlier \subseteq Nets /\ Start \subseteq Nets
  BY PathAssumption
<1>3. /\ conf \in Confs /\ net \in Nets /\ tag = net /\ sig = TRUE /\ outage = 0 /\ suspect = 0
      /\ hidden = FALSE /\ events = 0 /\ c = [i \in Streams |-> NewStream(up)]
  BY <1>2 DEF Init
<1>4. PICK z : z = NewStream(up)
  OBVIOUS
<1>5. z \in Conn
  BY <1>3, <1>4, Bounds DEF NewStream, Conn, Ices, Paths, OffersUdp
<1>6. ConnInv(z)
  BY <1>4, Bounds DEF NewStream, ConnInv, Live
<1>7. z.offer = OffersUdp(up) /\ ("udp" \in conf \/ "tcp" \in conf)
  BY <1>3, <1>4, Offered DEF NewStream
<1>8. z.offer \/ "tcp" \in conf
  BY <1>7 DEF OffersUdp, UdpRelayGivenUp, CanDropUdp
<1>9. c \in [Streams -> Conn] /\ \A i \in Streams : c[i] = z
  BY <1>3, <1>4, <1>5
<1>10. up \in [given : BOOLEAN, on : Nets \cup {"none"}, remembered : SUBSET Nets]
  BY <1>1, <1>2
<1>11. outage \in 0 .. 2 /\ suspect \in Nat /\ events \in Nat
  BY <1>3
<1>12. udp \in [Nets -> {"good", "lossy", "blocked"}]
  BY <1>1
<1>13. Types
  BY <1>1, <1>2, <1>3, <1>9, <1>10, <1>11, <1>12 DEF Types
<1>14. Signalling /\ Decision
  BY <1>1, <1>3, <1>8, <1>9, Bounds DEF Signalling, Decision
<1> QED
  BY <1>6, <1>9, <1>13, <1>14 DEF Inv

\* Nothing happens.
LEMMA StutterInv ==
    ASSUME Inv, UNCHANGED vars
    PROVE  Inv'
<1>1. Types' /\ Signalling' /\ Decision'
  BY DEF Inv, vars, Types, Signalling, Decision
<1>2. ASSUME NEW i \in Streams PROVE ConnInv(c[i])'
  BY DEF Inv, vars, ConnInv, Live
<1> QED
  BY <1>1, <1>2 DEF Inv

\* Every step keeps the invariant, in an environment without the races.
LEMMA NextInv ==
    ASSUME Inv, Races = {}, [Next]_vars
    PROVE  Inv'
<1>1. CASE Resume
  BY <1>1, ResumeInv
<1>2. CASE Tick
  BY <1>2, TickInv
<1>3. CASE Hide \/ Show
  BY <1>3, HideShowInv
<1>4. CASE TakeNetwork
  BY <1>4, TakeNetworkInv
<1>5. ASSUME NEW i \in Streams,
             Drop(i) \/ Heal(i) \/ Fail(i) \/ Negotiate(i) \/ Choose(i) \/ Hiccup(i) \/ Anew(i)
      PROVE  Inv'
  BY <1>5, DropInv, HealInv, FailInv, NegotiateInv, ChooseInv, HiccupInv, AnewInv
<1>6. ASSUME NEW n \in Nets, ChangeNetwork(n) \/ Expire(n)
      PROVE  Inv'
  BY <1>6, ChangeNetworkInv, ExpireInv
<1>7. ASSUME NEW how \in {"good", "lossy", "blocked"}, UdpTurns(how)
      PROVE  Inv'
  BY <1>7, UdpTurnsInv
<1>8. CASE UNCHANGED vars
  BY <1>8, StutterInv
<1> QED
  BY <1>1, <1>2, <1>3, <1>4, <1>5, <1>6, <1>7, <1>8 DEF Next

\* The invariant holds of every behaviour without the races.
THEOREM Invariance ==
    ASSUME Races = {}
    PROVE  Spec => []Inv
<1>1. Init => Inv
  BY InitInv
<1>2. Inv /\ [Next]_vars => Inv'
  BY NextInv
<1> QED
  BY <1>1, <1>2, PTL DEF Spec

\* turn-fallback.js and galene.js: while UDP is given up no connection may go
\* over it, whenever it was made; it is given up, and remembered, only where
\* it was bad; and every connection keeps a way to connect.
THEOREM DecisionIsRight ==
    ASSUME Races = {}
    PROVE  Spec => []DecidedRightly
<1>1. Inv => DecidedRightly
  BY DEF Inv, Decision, DecidedRightly, OneDecision, OnlyWhereBroken
<1> QED
  BY <1>1, Invariance, PTL

-----------------------------------------------------------------------------
(* The two watchers.                                                       *)
(*                                                                         *)
(* Without a network change ice-recovery.js restarts a connection when it  *)
(* has been down for DownFor, which only a poll can find.  By then the     *)
(* other watcher has decided: a poll that counts the connection as down    *)
(* comes at most one tick after ice-recovery.js has noted it, and          *)
(* UdpDownFor + 1 is less than DownFor.  Once UDP is given up every        *)
(* connection over it has a restart to come, and while the signalling is   *)
(* down nothing is down for longer than the signalling is.                 *)

\* What is known of the times of a connection.
OnTime(x) ==
    /\ x.ice # "disconnected" => x.down = Never
    /\ up.given /\ x.path = "udp" => x.restart \/ x.ice = "checking"
    /\ ~sig /\ outage < 2 => x.down = Never \/ x.down <= outage
    /\ ~up.given /\ x.seen = "udp" /\ "tcp" \in conf =>
          /\ x.udpDown = Never \/ x.udpDown <= UdpDownFor
          /\ \/ x.down = Never
             \/ x.udpDown = Never /\ x.down = 0
             \/ x.udpDown # Never /\ x.down <= x.udpDown + 1

Timely == \A i \in Streams : OnTime(c[i])

\* A step restarts no connection that turn-fallback.js is about to move.
LeftAlone ==
    \A i \in Streams :
        /\ suspect' = 0 /\ ~hidden /\ CanDropUdp
        /\ c[i].seen = "udp" /\ c[i].path = "udp"
        => ~(c'[i].restarted = 0 /\ c[i].restarted # 0)

\* The margin there is between the two.
LEMMA Margin ==
    /\ UdpDownFor \in Nat /\ DownFor \in Nat /\ UdpDownFor + 1 < DownFor /\ 2 < DownFor
    /\ UdpDownFor < Never /\ DownFor < Never /\ Never \in Nat
<1>1. DownFor \in 1 .. Never - 1 /\ UdpDownFor \in 2 .. DownFor - 2
  BY PathAssumption
<1> QED
  BY <1>1 DEF Never

\* What Recovery.update() makes of the times: it counts from the first
\* disconnection, and restarts what is suspect or has been down for too long.
LEMMA RecoverIceTimes ==
    ASSUME NEW x \in Conn, NEW sus \in Nat, NEW y, y = RecoverIce(x, sus)
    PROVE  /\ x.ice # "disconnected" => y.down = Never
           /\ y.down = Never \/ (x.down = Never /\ y.down = 0) \/ y.down = x.down
           /\ y.restarted = 0 /\ x.restarted # 0 =>
                 x.ice = "disconnected" /\ (sus > 0 \/ x.down = DownFor)
<1>1. PICK n : n = Noted(x)
  OBVIOUS
<1>2. /\ n \in Conn /\ n.ice = x.ice
      /\ n.restarted = (IF x.ice = "connected" THEN Never ELSE x.restarted)
      /\ n.down = IF x.ice # "disconnected" THEN Never ELSE IF x.down = Never THEN 0 ELSE x.down
  BY <1>1, Bounds DEF Noted, Conn
<1>3. CASE Restart(n, sus)
  <2>1. y = [n EXCEPT !.restart = TRUE, !.restarted = 0, !.down = Never]
    BY <1>1, <1>3 DEF RecoverIce, RestartIce
  <2>2. y.down = Never
    BY <1>2, <2>1 DEF Conn
  <2>3. n.ice = "disconnected" /\ (sus > 0 \/ n.down = DownFor)
    BY <1>2, <1>3, Margin DEF Restart
  <2>4. n.down = DownFor => x.down = DownFor
    BY <1>2, Margin
  <2> QED
    BY <1>2, <2>2, <2>3, <2>4
<1>4. CASE ~Restart(n, sus)
  <2>1. y = n
    BY <1>1, <1>4 DEF RecoverIce
  <2>2. x.restarted # 0 => y.restarted # 0
    BY <1>2, <2>1 DEF Never
  <2> QED
    BY <1>2, <2>1, <2>2
<1> QED
  BY <1>3, <1>4

\* What a new state of a connection must come with.
Timed(x) ==
    /\ x.ice = "disconnected" => x.down = Never
    /\ up.given /\ x.path = "udp" => x.restart \/ x.ice \in {"checking", "failed"}
    /\ ~up.given /\ x.seen = "udp" /\ "tcp" \in conf => x.udpDown = Never \/ x.udpDown <= UdpDownFor

\* One connection changes, and is not restarted without a network change.
LEMMA OneOnTime ==
    ASSUME Inv, Timely, NEW i \in Streams, NEW z \in Conn, c' = [c EXCEPT ![i] = z], OnTime(z),
           suspect = 0 => ~(z.restarted = 0 /\ c[i].restarted # 0),
           UNCHANGED <<conf, sig, up, suspect, outage>>
    PROVE  Timely' /\ LeftAlone
<1>1. c'[i] = z /\ \A j \in Streams \ {i} : c'[j] = c[j]
  BY DEF Inv, Types
<1>2. ASSUME NEW j \in Streams PROVE OnTime(c[j])'
  <2>1. OnTime(c'[j])
    BY <1>1 DEF Timely
  <2> QED
    BY <2>1 DEF OnTime
<1>3. LeftAlone
  BY <1>1 DEF LeftAlone
<1> QED
  BY <1>2, <1>3 DEF Timely

\* The handler of a new state does not restart a connection that was not down
\* before, and notes that it is down from now on.
LEMMA NotedOnTime ==
    ASSUME NEW x \in Conn, Timed(x), suspect \in Nat, outage \in Nat,
           NEW y, y = RecoverIce(x, suspect), NEW z,
           z = IF x.ice = "failed" THEN RestartIce(y) ELSE y
    PROVE  OnTime(z) /\ (suspect = 0 => ~(z.restarted = 0 /\ x.restarted # 0))
<1>1. /\ y \in Conn /\ Same(x, y)
      /\ x.ice # "disconnected" => y.down = Never
      /\ y.down = Never \/ (x.down = Never /\ y.down = 0) \/ y.down = x.down
      /\ y.restarted = 0 /\ x.restarted # 0 =>
            x.ice = "disconnected" /\ (suspect > 0 \/ x.down = DownFor)
  BY RecoverIceFacts, RecoverIceTimes
<1>2. /\ z \in Conn /\ Same(y, z) /\ (x.ice = "failed" => z.restart)
      /\ z.restarted = y.restarted /\ z.down = y.down
  BY <1>1 DEF RestartIce, Conn, Same
<1>3. suspect = 0 => ~(z.restarted = 0 /\ x.restarted # 0)
  BY <1>1, <1>2, Margin DEF Timed
<1>4. z.down = Never \/ z.down = 0
  BY <1>1, <1>2 DEF Timed
<1>5. /\ z.ice = x.ice /\ z.path = x.path /\ z.seen = x.seen /\ z.udpDown = x.udpDown
      /\ x.restart => z.restart
  BY <1>1, <1>2 DEF Same
<1>6. z.udpDown \in Nat
  BY <1>2 DEF Conn
<1>7. /\ z.ice # "disconnected" => z.down = Never
      /\ up.given /\ z.path = "udp" => z.restart \/ z.ice = "checking"
  BY <1>1, <1>2, <1>5 DEF Timed
<1>8. ~sig /\ outage < 2 => z.down = Never \/ z.down <= outage
  BY <1>4
<1>9. ~up.given /\ z.seen = "udp" /\ "tcp" \in conf =>
          /\ z.udpDown = Never \/ z.udpDown <= UdpDownFor
          /\ \/ z.down = Never
             \/ z.udpDown = Never /\ z.down = 0
             \/ z.udpDown # Never /\ z.down <= z.udpDown + 1
  BY <1>4, <1>5, <1>6 DEF Timed
<1> QED
  BY <1>3, <1>7, <1>8, <1>9 DEF OnTime

\* A connection changes state.
LEMMA TurnsOnTime ==
    ASSUME Inv, Timely, NEW i \in Streams, NEW x \in Conn, Turns(i, x), Timed(x),
           x.restarted = c[i].restarted
    PROVE  Timely' /\ LeftAlone
<1>1. PICK y : y = RecoverIce(x, suspect)
  OBVIOUS
<1>2. PICK z : z = IF x.ice = "failed" THEN RestartIce(y) ELSE y
  OBVIOUS
<1>3. suspect \in Nat /\ outage \in Nat
  BY DEF Inv, Types
<1>4. OnTime(z) /\ (suspect = 0 => ~(z.restarted = 0 /\ x.restarted # 0))
  BY <1>1, <1>2, <1>3, NotedOnTime
<1>5. z \in Conn
  <2>1. y \in Conn
    BY <1>1, <1>3, RecoverIceFacts
  <2> QED
    BY <1>2, <2>1 DEF RestartIce, Conn
<1>6. c' = [c EXCEPT ![i] = z] /\ UNCHANGED <<conf, sig, up, suspect, outage>>
  BY <1>1, <1>2 DEF Turns, environment
<1> QED
  BY <1>4, <1>5, <1>6, OneOnTime

\* What is known of a connection before the step.
LEMMA TimeFacts ==
    ASSUME Inv, Timely, NEW i \in Streams
    PROVE  c[i] \in Conn /\ OnTime(c[i])
  BY ConnFacts DEF Timely

\* ICE notices that a path is gone, or that it works again.
LEMMA DropHealOnTime ==
    ASSUME Inv, Timely, NEW i \in Streams, Drop(i) \/ Heal(i)
    PROVE  Timely' /\ LeftAlone
<1>1. PICK x : /\ x = [c[i] EXCEPT !.ice = IF c[i].ice = "connected" THEN "disconnected" ELSE "connected"]
               /\ Turns(i, x)
  BY DEF Drop, Heal
<1>2. c[i] \in Conn /\ OnTime(c[i]) /\ Live(c[i])
  BY TimeFacts DEF Drop, Heal, Live
<1>3. x \in Conn
  BY <1>1, <1>2 DEF Conn, Ices
<1>4. /\ x.ice = (IF c[i].ice = "connected" THEN "disconnected" ELSE "connected")
      /\ x.path = c[i].path /\ x.restart = c[i].restart /\ x.restarted = c[i].restarted
      /\ x.seen = c[i].seen /\ x.udpDown = c[i].udpDown /\ x.down = c[i].down
  BY <1>1, <1>2 DEF Conn
<1>5. Timed(x)
  BY <1>2, <1>4 DEF Timed, OnTime, Live
<1> QED
  BY <1>1, <1>3, <1>4, <1>5, TurnsOnTime

\* The browser declares a connection failed.
LEMMA FailOnTime ==
    ASSUME Inv, Timely, NEW i \in Streams, Fail(i)
    PROVE  Timely' /\ LeftAlone
<1>1. PICK x : x = [c[i] EXCEPT !.ice = "failed"]
  OBVIOUS
<1>2. c[i] \in Conn /\ OnTime(c[i]) /\ Turns(i, x)
  BY <1>1, TimeFacts DEF Fail
<1>3. /\ x \in Conn /\ x.ice = "failed" /\ x.restarted = c[i].restarted
      /\ x.seen = c[i].seen /\ x.udpDown = c[i].udpDown
  BY <1>1, <1>2 DEF Conn, Ices
<1>4. Timed(x)
  BY <1>2, <1>3 DEF Timed, OnTime
<1> QED
  BY <1>2, <1>3, <1>4, TurnsOnTime

\* A restart is negotiated.
LEMMA NegotiateOnTime ==
    ASSUME Inv, Timely, NEW i \in Streams, Negotiate(i)
    PROVE  Timely' /\ LeftAlone
<1>1. PICK x : x = [c[i] EXCEPT !.restart = FALSE, !.ice = "checking", !.on = net]
  OBVIOUS
<1>2. c[i] \in Conn /\ OnTime(c[i]) /\ net \in Nets \cup {"off"} /\ Turns(i, x)
  BY <1>1, TimeFacts DEF Negotiate, Inv, Types
<1>3. /\ x.ice = "checking" /\ x.restarted = c[i].restarted
      /\ x.seen = c[i].seen /\ x.udpDown = c[i].udpDown
  BY <1>1, <1>2 DEF Conn
<1>4. x \in Conn
  BY <1>1, <1>2 DEF Conn, Ices
<1>5. Timed(x)
  BY <1>2, <1>3 DEF Timed, OnTime
<1> QED
  BY <1>2, <1>3, <1>4, <1>5, TurnsOnTime

\* ICE comes to something, and to no UDP that is given up.
LEMMA ChooseOnTime ==
    ASSUME Inv, Timely, NEW i \in Streams, Choose(i)
    PROVE  Timely' /\ LeftAlone
<1>1. c[i] \in Conn /\ OnTime(c[i]) /\ (up.given => ~c[i].offer)
  BY TimeFacts, ConnFacts
<1>2. PICK x : /\ Turns(i, x)
               /\ \/ x = [c[i] EXCEPT !.ice = "failed"]
                  \/ \E p \in {"udp", "tcp"} :
                        /\ p = "udp" => c[i].offer
                        /\ x = [c[i] EXCEPT !.ice = "connected", !.path = p]
  BY DEF Choose
<1>3. CASE x = [c[i] EXCEPT !.ice = "failed"]
  <2>1. /\ x \in Conn /\ x.ice = "failed" /\ x.restarted = c[i].restarted
        /\ x.seen = c[i].seen /\ x.udpDown = c[i].udpDown
    BY <1>1, <1>3 DEF Conn, Ices
  <2>2. Timed(x)
    BY <1>1, <2>1 DEF Timed, OnTime
  <2> QED
    BY <1>2, <2>1, <2>2, TurnsOnTime
<1>4. ASSUME NEW p \in {"udp", "tcp"}, p = "udp" => c[i].offer,
             x = [c[i] EXCEPT !.ice = "connected", !.path = p]
      PROVE  Timely' /\ LeftAlone
  <2>1. /\ x.ice = "connected" /\ x.path = p /\ x.restarted = c[i].restarted
        /\ x.seen = c[i].seen /\ x.udpDown = c[i].udpDown
    BY <1>1, <1>4 DEF Conn
  <2>2. x \in Conn
    BY <1>1, <1>4 DEF Conn, Ices, Paths
  <2>3. Timed(x)
    BY <1>1, <1>4, <2>1 DEF Timed, OnTime
  <2> QED
    BY <1>2, <2>1, <2>2, <2>3, TurnsOnTime
<1> QED
  BY <1>2, <1>3, <1>4

\* A path that works is disconnected for a moment.
LEMMA HiccupOnTime ==
    ASSUME Inv, Timely, NEW i \in Streams, Hiccup(i)
    PROVE  Timely' /\ LeftAlone
<1>1. PICK x : x = [c[i] EXCEPT !.ice = "disconnected"]
  OBVIOUS
<1>2. PICK z : z = RecoverIce(x, suspect)
  OBVIOUS
<1>3. /\ c[i] \in Conn /\ OnTime(c[i]) /\ c[i].ice = "connected"
      /\ suspect \in Nat /\ outage \in Nat
  BY TimeFacts DEF Hiccup, Inv, Types
<1>4. /\ x \in Conn /\ x.ice = "disconnected" /\ x.path = c[i].path
      /\ x.restart = c[i].restart /\ x.restarted = c[i].restarted
      /\ x.seen = c[i].seen /\ x.udpDown = c[i].udpDown /\ x.down = c[i].down
  BY <1>1, <1>3 DEF Conn, Ices
<1>5. Timed(x)
  BY <1>3, <1>4 DEF Timed, OnTime
<1>6. OnTime(z) /\ (suspect = 0 => ~(z.restarted = 0 /\ x.restarted # 0))
  BY <1>2, <1>3, <1>4, <1>5, NotedOnTime
<1>7. z \in Conn
  BY <1>2, <1>3, <1>4, RecoverIceFacts
<1>8. c' = [c EXCEPT ![i] = z] /\ UNCHANGED <<conf, sig, up, suspect, outage>>
  BY <1>1, <1>2 DEF Hiccup
<1> QED
  BY <1>4, <1>6, <1>7, <1>8, OneOnTime

\* A connection is made anew.
LEMMA AnewOnTime ==
    ASSUME Inv, Timely, NEW i \in Streams, Anew(i)
    PROVE  Timely' /\ LeftAlone
<1>1. PICK z : z = NewStream(up)
  OBVIOUS
<1>2. z \in Conn
  BY <1>1, Bounds DEF NewStream, Conn, Ices, Paths, OffersUdp, Inv, Types
<1>3. OnTime(z) /\ z.restarted # 0
  BY <1>1 DEF NewStream, OnTime, Never
<1>4. c' = [c EXCEPT ![i] = z] /\ UNCHANGED <<conf, sig, up, suspect, outage>>
  BY <1>1 DEF Anew
<1> QED
  BY <1>2, <1>3, <1>4, OneOnTime

\* The network goes away from a page on which nothing is down.
LEMMA GoneOnTime ==
    ASSUME Inv, Timely, Races = {}, Calm, UNCHANGED <<c, conf, up, suspect>>
    PROVE  Timely' /\ LeftAlone
<1>1. ASSUME NEW i \in Streams PROVE OnTime(c[i])'
  <2>1. OnTime(c[i]) /\ c[i].ice # "disconnected"
    BY DEF Timely, Calm
  <2> QED
    BY <2>1 DEF OnTime
<1> QED
  BY <1>1 DEF Timely, LeftAlone

\* Something that does not concern the connections.
LEMMA ElsewhereOnTime ==
    ASSUME Inv, Timely, UNCHANGED <<c, conf, sig, suspect, outage>>, up'.given = up.given
    PROVE  Timely' /\ LeftAlone
<1>1. ASSUME NEW i \in Streams PROVE OnTime(c[i])'
  <2>1. OnTime(c[i])
    BY DEF Timely
  <2> QED
    BY <2>1 DEF OnTime
<1> QED
  BY <1>1 DEF Timely, LeftAlone

\* The signalling comes back, and with it the suspicion.
LEMMA ResumeOnTime ==
    ASSUME Inv, Timely, Resume
    PROVE  Timely' /\ LeftAlone
<1>1. PICK s : s = [Now EXCEPT !.suspect = SuspectFor]
  OBVIOUS
<1>2. s = [c |-> c, up |-> up, suspect |-> SuspectFor]
  BY <1>1 DEF Now
<1>3. DEFINE Elsewhere == up.given /\ tag' # up.on /\ tag' \notin up.remembered
             all == [i \in Streams |-> RecoverIce(c[i], SuspectFor)]
<1>4. /\ Becomes(IF RetryUdp(s) # s THEN RetryUdp(s) ELSE [s EXCEPT !.c = all])
      /\ sig' = TRUE /\ UNCHANGED conf
      /\ up \in [given : BOOLEAN, on : Nets \cup {"none"}, remembered : SUBSET Nets]
  BY <1>1 DEF Resume, Inv, Types
<1>5. CASE Elsewhere
  <2>1. PICK u : u = [up EXCEPT !.given = FALSE, !.on = "none"]
    OBVIOUS
  <2>2. PICK d : d = [i \in Streams |->
                         Restarted(RestartIce([Forgotten(c[i]) EXCEPT !.offer = "udp" \in conf]))]
    OBVIOUS
  <2>3. RetryUdp(s) = [c |-> d, up |-> u, suspect |-> SuspectFor]
    BY <1>2, <1>5, <2>1, <2>2 DEF RetryUdp
  <2>4. u.given = FALSE
    BY <1>4, <2>1
  <2>5. RetryUdp(s) # s
    BY <1>2, <1>5, <2>3, <2>4
  <2>6. c' = d /\ up' = u /\ suspect' = SuspectFor
    BY <1>4, <2>3, <2>5 DEF Becomes
  <2>7. ASSUME NEW i \in Streams PROVE OnTime(c[i])'
    <3>1. PICK v \in BOOLEAN : v = ("udp" \in conf)
      <4>1. ("udp" \in conf) \in BOOLEAN
        OBVIOUS
      <4> QED
        BY <4>1, Zenon
    <3>2. PICK f \in Conn : f = Forgotten(c[i]) /\ f.seen = "none"
      BY TimeFacts, ForgottenFacts
    <3>3. PICK b \in Conn : b = [f EXCEPT !.offer = v]
      BY <3>2 DEF Conn
    <3>8. PICK e \in Conn : e = [b EXCEPT !.restart = TRUE]
      BY DEF Conn
    <3>4. e = RestartIce(b) /\ e.seen = "none"
      BY <3>2, <3>3, <3>8 DEF RestartIce, Conn
    <3>5. PICK g : g = Restarted(e)
      OBVIOUS
    <3>6. g.seen = "none" /\ g.down = Never
      BY <3>4, <3>5 DEF Restarted, Conn
    <3>7. d[i] = g
      <4>1. b = [Forgotten(c[i]) EXCEPT !.offer = "udp" \in conf]
        BY <3>1, <3>2, <3>3, Zenon
      <4>2. d[i] = Restarted(RestartIce(b))
        BY <2>2, <4>1, Zenon
      <4> QED
        BY <3>4, <3>5, <4>2
    <3> QED
      BY <1>4, <2>4, <2>6, <3>6, <3>7 DEF OnTime
  <2> QED
    BY <2>6, <2>7, Bounds DEF Timely, LeftAlone
<1>6. CASE ~Elsewhere
  <2>1. RetryUdp(s) = s
    BY <1>2, <1>6 DEF RetryUdp
  <2>2. c' = all /\ up' = up /\ suspect' = SuspectFor
    BY <1>2, <1>4, <2>1 DEF Becomes
  <2>3. ASSUME NEW i \in Streams PROVE OnTime(c[i])'
    <3>1. PICK x \in Conn : x = c[i] /\ OnTime(x)
      BY TimeFacts
    <3>2. PICK y : y = RecoverIce(x, SuspectFor)
      OBVIOUS
    <3>3. /\ y \in Conn /\ Same(x, y)
          /\ x.ice # "disconnected" => y.down = Never
          /\ y.down = Never \/ (x.down = Never /\ y.down = 0) \/ y.down = x.down
      BY <3>2, Bounds, RecoverIceFacts, RecoverIceTimes
    <3>4. y.udpDown \in Nat
      BY <3>3 DEF Conn
    <3>5. /\ y.ice # "disconnected" => y.down = Never
          /\ up.given /\ y.path = "udp" => y.restart \/ y.ice = "checking"
      BY <3>1, <3>3 DEF OnTime, Same
    <3>6. ~up.given /\ y.seen = "udp" /\ "tcp" \in conf =>
              /\ y.udpDown = Never \/ y.udpDown <= UdpDownFor
              /\ \/ y.down = Never
                 \/ y.udpDown = Never /\ y.down = 0
                 \/ y.udpDown # Never /\ y.down <= y.udpDown + 1
      BY <3>1, <3>3, <3>4 DEF OnTime, Same
    <3>7. c'[i] = y
      BY <2>2, <3>1, <3>2
    <3> QED
      BY <1>4, <2>2, <3>5, <3>6, <3>7 DEF OnTime
  <2> QED
    BY <2>2, <2>3, Bounds DEF Timely, LeftAlone
<1> QED
  BY <1>5, <1>6

\* A connection that nothing is to restart is not down for DownFor yet when a
\* poll comes: not while UDP may still be given up, nor while the signalling
\* is down.
LEMMA NotYet ==
    ASSUME Inv, Timely, Polled, ~hidden, "tcp" \in conf, NEW i \in Streams,
           c[i].seen = "udp", c[i].path = "udp"
    PROVE  Aged(c[i].down, DownFor) # DownFor
<1>1. PICK x \in Conn : x = c[i] /\ OnTime(x) /\ ConnInv(x)
  BY TimeFacts, ConnFacts
<1>2. x.down \in Nat /\ x.udpDown \in Nat /\ outage \in 0 .. 2 /\ net # "off"
  BY <1>1 DEF Conn, Inv, Types, Signalling
<1>3. x.ice # "checking" /\ (x.restart => ~sig) /\ (~sig => outage < 2)
  BY <1>1, <1>2 DEF Polled
<1>4. CASE ~sig
  <2>1. x.down = Never \/ x.down <= 1
    BY <1>1, <1>2, <1>3, <1>4 DEF OnTime
  <2> QED
    BY <1>1, <1>2, <2>1, Margin DEF Aged
<1>5. CASE sig
  <2>1. ~up.given
    BY <1>1, <1>3, <1>5 DEF OnTime
  <2>2. x.udpDown # UdpDownFor
    BY <1>1, <2>1 DEF ConnInv
  <2>3. \/ x.down = Never
        \/ x.down <= UdpDownFor
    BY <1>1, <1>2, <2>1, <2>2, Margin DEF OnTime
  <2> QED
    BY <1>1, <1>2, <2>3, Margin DEF Aged
<1> QED
  BY <1>4, <1>5

\* A poll: what turn-fallback.js sees is as old as what ice-recovery.js does,
\* or a tick younger.
LEMMA TickOnTime ==
    ASSUME Inv, Timely, Races = {}, Tick
    PROVE  Timely' /\ LeftAlone
<1>1. Polled
  BY DEF Tick, Polled
<1>2. PICK sus : sus = IF suspect = 0 THEN 0 ELSE suspect - 1
  OBVIOUS
<1>3. sus \in Nat
  BY <1>2 DEF Inv, Types
<1>4. PICK s : /\ s = WatchTurnPath([Now EXCEPT !.c = [i \in Streams |-> Older(c[i])]])
               /\ c' = [i \in Streams |-> RecoverIce(s.c[i], sus)]
               /\ up' = s.up /\ suspect' = sus
  BY <1>2 DEF Tick
<1>5. UNCHANGED <<conf, net, udp, sig, tag, hidden, bad, events>>
      /\ outage' = IF sig THEN 0 ELSE Aged(outage, 2)
  BY DEF Tick
<1>6. DEFINE Kept == /\ s.up = up
                     /\ ~up.given => \A i \in Streams :
                           /\ s.c[i].seen = "udp" /\ "tcp" \in conf => s.c[i].udpDown # UdpDownFor
                           /\ UdpAge(c[i], s.c[i])
             Given == s.up.given = TRUE /\ \A i \in Streams : s.c[i].restart
<1>7. (\A i \in Streams : Seen(c[i], s.c[i])) /\ (Kept \/ Given)
  BY <1>1, <1>4, PollDecides
<1>8. outage' \in 0 .. 2 /\ (~sig /\ outage' < 2 => outage = 0 /\ outage' = 1)
  <2>1. outage \in 0 .. 2
    BY DEF Inv, Types
  <2> QED
    BY <1>5, <2>1 DEF Aged, Never
<1>9. ASSUME NEW i \in Streams
      PROVE  /\ OnTime(c[i])'
             /\ suspect' = 0 /\ ~hidden /\ CanDropUdp /\ c[i].seen = "udp" /\ c[i].path = "udp"
                   => ~(c'[i].restarted = 0 /\ c[i].restarted # 0)
  <2>1. PICK x \in Conn : x = c[i] /\ OnTime(x) /\ ConnInv(x)
    BY TimeFacts, ConnFacts
  <2>2. PICK w : w = s.c[i] /\ Seen(x, w)
    BY <1>7, <2>1
  <2>3. PICK z : z = c'[i]
    OBVIOUS
  <2>4. w \in Conn /\ z = RecoverIce(w, sus)
    BY <1>4, <2>2, <2>3 DEF Seen
  <2>5. /\ z \in Conn /\ Same(w, z)
        /\ w.ice # "disconnected" => z.down = Never
        /\ z.down = Never \/ (w.down = Never /\ z.down = 0) \/ z.down = w.down
        /\ z.restarted = 0 /\ w.restarted # 0 =>
              w.ice = "disconnected" /\ (sus > 0 \/ w.down = DownFor)
    BY <1>3, <2>4, RecoverIceFacts, RecoverIceTimes
  <2>6. /\ z.ice = x.ice /\ z.path = x.path /\ z.seen = w.seen /\ z.udpDown = w.udpDown
        /\ x.restart => z.restart
        /\ w.restart => z.restart
        /\ w.down = Aged(x.down, DownFor) /\ w.restarted = Aged(x.restarted, MinGap)
    BY <2>2, <2>5 DEF Same, Seen
  <2>7. /\ x.down \in Nat /\ x.udpDown \in Nat /\ x.restarted \in Nat
    BY DEF Conn
  <2>8. z.ice # "disconnected" => z.down = Never
    BY <2>2, <2>5, <2>6 DEF Seen
  <2>9. up'.given /\ z.path = "udp" => z.restart \/ z.ice = "checking"
    <3>1. CASE Kept
      BY <1>4, <2>1, <2>6, <3>1 DEF OnTime
    <3>2. CASE Given
      BY <2>2, <2>6, <3>2
    <3> QED
      BY <1>7, <3>1, <3>2
  <2>10. ~sig /\ outage' < 2 => z.down = Never \/ z.down <= outage'
    <3>1. SUFFICES ASSUME ~sig, outage' < 2
                   PROVE  z.down = Never \/ z.down <= outage'
      OBVIOUS
    <3>2. x.down = Never \/ x.down = 0
      BY <1>8, <2>1, <2>7, <3>1 DEF OnTime
    <3>3. w.down = Never \/ w.down = 0 \/ w.down = 1
      BY <2>6, <3>2 DEF Aged
    <3> QED
      BY <1>8, <2>5, <3>1, <3>3
  <2>11. ~up'.given /\ z.seen = "udp" /\ "tcp" \in conf =>
            /\ z.udpDown = Never \/ z.udpDown <= UdpDownFor
            /\ \/ z.down = Never
               \/ z.udpDown = Never /\ z.down = 0
               \/ z.udpDown # Never /\ z.down <= z.udpDown + 1
    <3>1. SUFFICES ASSUME ~up'.given, z.seen = "udp", "tcp" \in conf, x.ice = "disconnected"
                   PROVE  /\ z.udpDown = Never \/ z.udpDown <= UdpDownFor
                          /\ \/ z.down = Never
                             \/ z.udpDown = Never /\ z.down = 0
                             \/ z.udpDown # Never /\ z.down <= z.udpDown + 1
      <4>1. ~up'.given /\ z.seen = "udp" /\ x.ice # "disconnected" => z.down = Never /\ z.udpDown = Never
        BY <1>4, <1>7, <2>1, <2>2, <2>6, <2>8 DEF UdpAge
      <4> QED
        BY <4>1
    <3>2. ~up.given /\ UdpAge(x, w)
      BY <1>4, <1>7, <2>1, <2>2, <3>1
    <3>3. /\ x.seen = "udp"
          /\ z.udpDown = IF Aged(x.udpDown, UdpDownFor) = Never THEN 0 ELSE Aged(x.udpDown, UdpDownFor)
      BY <2>6, <3>1, <3>2 DEF UdpAge
    <3>4. /\ x.udpDown = Never \/ x.udpDown < UdpDownFor
          /\ \/ x.down = Never
             \/ x.udpDown = Never /\ x.down = 0
             \/ x.udpDown # Never /\ x.down <= x.udpDown + 1
      BY <2>1, <2>7, <3>1, <3>2, <3>3, Margin DEF OnTime, ConnInv
    <3>5. z.udpDown = IF x.udpDown = Never THEN 0 ELSE x.udpDown + 1
      BY <2>7, <3>3, <3>4, Margin DEF Aged
    <3>6. z.udpDown \in Nat /\ z.udpDown # Never /\ z.udpDown <= UdpDownFor
      BY <2>7, <3>4, <3>5, Margin
    <3>7. z.down = Never \/ z.down <= z.udpDown + 1
      <4>1. w.down = Never \/ w.down = x.down + 1 \/ w.down = x.down
        BY <2>6, <2>7 DEF Aged
      <4>2. x.down = Never => w.down = Never
        BY <2>6 DEF Aged
      <4> QED
        BY <2>5, <2>7, <3>4, <3>5, <3>6, <4>1, <4>2, Margin
    <3> QED
      BY <3>6, <3>7
  <2>12. ASSUME suspect' = 0, ~hidden, CanDropUdp, x.seen = "udp", x.path = "udp", x.restarted # 0
         PROVE  z.restarted # 0
    <3>1. Aged(x.down, DownFor) # DownFor
      BY <1>1, <2>1, <2>12, NotYet DEF CanDropUdp
    <3>2. w.restarted # 0
      BY <2>6, <2>7, <2>12, Bounds DEF Aged
    <3> QED
      BY <1>3, <1>4, <2>5, <2>6, <2>12, <3>1, <3>2
  <2>13. OnTime(c[i])'
    BY <1>5, <2>3, <2>8, <2>9, <2>10, <2>11 DEF OnTime
  <2> QED
    BY <2>1, <2>3, <2>12, <2>13
<1> QED
  BY <1>9 DEF Timely, LeftAlone

\* A call begins.
LEMMA InitOnTime ==
    ASSUME Init
    PROVE  Timely
<1>1. ASSUME NEW i \in Streams PROVE OnTime(c[i])
  <2>1. c[i] = NewStream(up) /\ ~up.given /\ sig
    BY DEF Init
  <2> QED
    BY <2>1 DEF NewStream, OnTime
<1> QED
  BY <1>1 DEF Timely

\* Every step leaves the two watchers on time, and each to what is its own.
LEMMA NextOnTime ==
    ASSUME Inv, Timely, Races = {}, [Next]_vars
    PROVE  Timely' /\ LeftAlone
<1>1. CASE Resume
  BY <1>1, ResumeOnTime
<1>2. CASE Tick
  BY <1>2, TickOnTime
<1>3. CASE Hide \/ Show
  BY <1>3, ElsewhereOnTime DEF Hide, Show
<1>4. CASE TakeNetwork
  BY <1>4, GoneOnTime DEF TakeNetwork
<1>5. ASSUME NEW i \in Streams,
             Drop(i) \/ Heal(i) \/ Fail(i) \/ Negotiate(i) \/ Choose(i) \/ Hiccup(i) \/ Anew(i)
      PROVE  Timely' /\ LeftAlone
  BY <1>5, DropHealOnTime, FailOnTime, NegotiateOnTime, ChooseOnTime, HiccupOnTime, AnewOnTime
<1>6. ASSUME NEW n \in Nets, ChangeNetwork(n)
      PROVE  Timely' /\ LeftAlone
  BY <1>6, GoneOnTime DEF ChangeNetwork
<1>7. ASSUME NEW n \in Nets, Expire(n)
      PROVE  Timely' /\ LeftAlone
  <2>1. up'.given = up.given
    BY <1>7 DEF Expire, Inv, Types
  <2> QED
    BY <1>7, <2>1, ElsewhereOnTime DEF Expire
<1>8. ASSUME NEW how \in {"good", "lossy", "blocked"}, UdpTurns(how)
      PROVE  Timely' /\ LeftAlone
  BY <1>8, ElsewhereOnTime DEF UdpTurns
<1>9. CASE UNCHANGED vars
  BY <1>9, ElsewhereOnTime DEF vars
<1> QED
  BY <1>1, <1>2, <1>3, <1>4, <1>5, <1>6, <1>7, <1>8, <1>9 DEF Next

\* ice-recovery.js and turn-fallback.js: unless the network may have changed,
\* a connection over UDP that may move to TCP is not restarted by the one
\* before the other has decided about it, for any two bounds that are two
\* ticks apart.
THEOREM NoFighting ==
    ASSUME Races = {}
    PROVE  Spec => NoFight
<1>1. Init => Inv /\ Timely
  BY InitInv, InitOnTime
<1>2. Inv /\ Timely /\ [Next]_vars => Inv' /\ Timely' /\ LeftAlone
  BY NextInv, NextOnTime
<1>3. LeftAlone <=>
          \A i \in Streams :
              /\ suspect' = 0 /\ ~hidden /\ CanDropUdp
              /\ c[i].seen = "udp" /\ c[i].path = "udp"
              => ~(c'[i].restarted = 0 /\ c[i].restarted # 0)
  BY DEF LeftAlone
<1> QED
  BY <1>1, <1>2, <1>3, PTL DEF Spec, NoFight
=============================================================================
