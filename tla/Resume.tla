------------------------------- MODULE Resume -------------------------------
(***************************************************************************)
(* Signalling resume: one session between a web client and the server,     *)
(* carried over a succession of websockets (rtpconn/resume.go,             *)
(* clientReader, clientLoop and clientWriter of rtpconn/webclient.go;      *)
(* ServerConnection of static/protocol.js, static/signalling-resume.js).   *)
(*                                                                         *)
(* A websocket is a pair of FIFO queues.  It delivers in order, as slowly  *)
(* as it likes, until it breaks: from then on whatever is written to it    *)
(* vanishes, and either end may find it lost at any moment, with or        *)
(* without what was still in flight.  Time is not modelled: a timer may    *)
(* fire whenever the condition it guards holds.  A numbered message is     *)
(* represented by its number.                                              *)
(***************************************************************************)
EXTENDS Integers, Sequences, FiniteSets

CONSTANTS
    MaxSocks,    \* bound: websockets the client may open in all
    MaxCSent,    \* bound: numbered messages the client may send
    MaxSSent,    \* bound: numbered messages the server may send
    Window       \* replayMaxMessages and MAX_MESSAGES (512 in the code)

ASSUME MaxSocksAssumption == MaxSocks \in Nat \ {0}
ASSUME MaxSentAssumption == MaxCSent \in Nat /\ MaxSSent \in Nat
ASSUME WindowAssumption == Window \in Nat \ {0}

VARIABLES
    (* the network *)
    up,         \* up[i]: websocket i still carries what is written to it
    c2s, s2c,   \* c2s[i], s2c[i]: what websocket i has in flight each way
    (* the client *)
    current,    \* the socket whose events it acts on
    wired,      \* sc.socket is not null
    secret,     \* sc.resumeSecret is set
    resuming,   \* sc.resuming is not null
    leaving,    \* sc.leaving: close() was called
    closed,     \* gone() has torn the session down
    crecv,      \* sc.received
    csent,      \* sentLog.count
    cfirst,     \* number of the first message the sentLog still keeps
    cgot,       \* history: numbers of the messages taken, in order
    (* the server *)
    live,       \* the session's clientLoop is running
    wconn,      \* the socket the writer writes to, 0 if it dropped it
    rsock,      \* the socket of the current reader generation
    readers,    \* sockets that still have a clientReader
    slot,       \* the read channel, of capacity 1: a sequence
    acts,       \* resumeActions not yet taken by clientLoop
    detached,
    srecv,      \* received
    ssent,      \* ring.next - 1
    sfirst,     \* number of the first message the ring still keeps
    sgot        \* history: numbers of the messages handled, in order

netVars == <<up, c2s, s2c>>
clientVars == <<current, wired, secret, resuming, leaving, closed,
                crecv, csent, cfirst, cgot>>
serverVars == <<live, wconn, rsock, readers, slot, acts, detached,
                srecv, ssent, sfirst, sgot>>
vars == <<netVars, clientVars, serverVars>>

Socks == 1 .. MaxSocks

-----------------------------------------------------------------------------
(* What travels on a websocket.                                            *)

Msg(n)     == [t |-> "msg", n |-> n]          \* a counted message
Hello(n)   == [t |-> "hello", n |-> n]        \* handshake "sozvon-resume"
Session    == [t |-> "session", n |-> 0]      \* "sozvon-session": the secret
Resumed(n) == [t |-> "resumed", n |-> n]      \* "sozvon-resumed"
Close(c)   == [t |-> "close", n |-> c]        \* a close frame, or the loss

Normal   == 1000      \* deliberate: leaving, a kick
Resuming == 4000      \* the client carries on over another socket
NoResume == 4001      \* closeNoResume, CLOSE_NO_RESUME
Broken   == 1006      \* the connection was lost
Internal == 1011      \* the session ended with an error

Codes == {Normal, Resuming, NoResume, Broken, Internal}
Frames == [t : {"msg", "hello", "session", "resumed"}, n : Nat]
              \cup [t : {"close"}, n : Codes]

\* The messages numbered a to b, in order.
Run(a, b) == [k \in 1 .. (IF b < a THEN 0 ELSE b - a + 1) |-> Msg(a + k - 1)]

\* Writing s to socket i: nothing arrives over a broken socket.
Write(q, i, s) == [q EXCEPT ![i] = IF up[i] THEN @ \o s ELSE @]

\* The client closes its socket, unless it has done so already.
CloseFrames(i, code) ==
    IF c2s[i] # <<>> /\ c2s[i][Len(c2s[i])].t = "close"
    THEN <<>>
    ELSE <<Close(code)>>

-----------------------------------------------------------------------------
(* The logs kept for replay.  A log holds the messages first .. sent.  A   *)
(* push drops the oldest until at most Window are left, and more of them,  *)
(* down to the one just pushed, while their bytes exceed the limit: sizes  *)
(* are not modelled, so how many go for their bytes is left open.          *)

Pushed(first, sent) ==
    {f \in first .. sent + 1 : sent + 1 - f < Window}

\* replayRing.after, SentLog.after: the messages after the first n are all
\* kept, and there are that many ...
Kept(first, sent, n) == ~(n + 1 < first \/ n >= sent + 1)

\* ... and these are they.
AfterSkipsOne(sent, n) == Run(n + 2, sent)
After(sent, n) == Run(n + 1, sent)

-----------------------------------------------------------------------------
Init ==
    /\ up = [i \in Socks |-> TRUE]
    /\ c2s = [i \in Socks |-> <<>>]
    /\ s2c = [i \in Socks |-> IF i = 1 THEN <<Session>> ELSE <<>>]
    /\ current = 1 /\ wired = TRUE /\ secret = FALSE /\ resuming = FALSE
    /\ leaving = FALSE /\ closed = FALSE
    /\ crecv = 0 /\ csent = 0 /\ cfirst = 1 /\ cgot = <<>>
    /\ live = TRUE /\ wconn = 1 /\ rsock = 1 /\ readers = {1}
    /\ slot = <<>> /\ acts = {} /\ detached = FALSE
    /\ srecv = 0 /\ ssent = 0 /\ sfirst = 1 /\ sgot = <<>>

-----------------------------------------------------------------------------
(* The client.                                                             *)

\* ServerConnection.send of a counted message: logged, and written at once
\* unless a resume is in progress.  Without a socket, or with a closed one
\* and no secret, send throws.
ClientSend ==
    /\ ~closed /\ wired /\ csent < MaxCSent
    /\ csent' = csent + 1
    /\ cfirst' \in Pushed(cfirst, csent)
    /\ c2s' = IF resuming THEN c2s ELSE Write(c2s, current, <<Msg(csent + 1)>>)
    /\ UNCHANGED <<up, s2c, serverVars, current, wired, secret, resuming,
                   leaving, closed, crecv, cgot>>

\* gone(): the session is torn down on the client's side, once.
Gone ==
    /\ closed' = TRUE
    /\ resuming' = FALSE
    /\ secret' = FALSE
    /\ UNCHANGED <<current, wired, leaving, crecv, csent, cfirst, cgot>>

\* resume(): replace the current socket with a new one and ask the server
\* to carry on the session over it; onopen sends the count.
NextSocket ==
    /\ current < MaxSocks
    /\ current' = current + 1
    /\ wired' = TRUE
    /\ resuming' = TRUE
    /\ c2s' = [Write(c2s, current, CloseFrames(current, Resuming))
                 EXCEPT ![current + 1] = <<Hello(crecv)>>]
    /\ UNCHANGED <<secret, leaving, closed, crecv, csent, cfirst, cgot>>

\* The ping handler finds that nothing was received for 20 s.
ClientStall ==
    /\ ~closed /\ ~resuming /\ secret
    /\ NextSocket
    /\ UNCHANGED <<up, s2c, serverVars>>

\* The timer of a resume in progress: no answer within 8 s, or the pause
\* after a refused connection is over.
ClientRetry ==
    /\ ~closed /\ resuming
    /\ NextSocket
    /\ UNCHANGED <<up, s2c, serverVars>>

\* The same timer, 110 s after the resume began.
ClientGiveUp ==
    /\ ~closed /\ resuming
    /\ Gone
    /\ c2s' = Write(c2s, current, CloseFrames(current, Normal))
    /\ UNCHANGED <<up, s2c, serverVars>>

\* s.onmessage, s.onclose: the next frame of socket i.  Those of a socket
\* that is not the current one, or that the client has closed, are ignored:
\* they stay in the queue.
ArrivingAfterTeardown(i, type) ==
    /\ i = current /\ wired
    /\ s2c[i] # <<>>
    /\ Head(s2c[i]).t = type
    /\ s2c' = [s2c EXCEPT ![i] = Tail(@)]
Arriving(i, type) ==
    /\ ~closed /\ i = current /\ wired
    /\ s2c[i] # <<>>
    /\ Head(s2c[i]).t = type
    /\ s2c' = [s2c EXCEPT ![i] = Tail(@)]

ClientSession(i) ==
    /\ Arriving(i, "session")
    /\ secret' = TRUE
    /\ UNCHANGED <<up, c2s, serverVars, current, wired, resuming, leaving,
                   closed, crecv, csent, cfirst, cgot>>

\* gotMessage of a counted message.
ClientTake(i) ==
    /\ Arriving(i, "msg")
    /\ crecv' = crecv + 1
    /\ cgot' = Append(cgot, Head(s2c[i]).n)
    /\ UNCHANGED <<up, c2s, serverVars, current, wired, secret, resuming,
                   leaving, closed, csent, cfirst>>

\* gotMessage of "sozvon-resumed": send the rest, or give up if it is lost.
ClientResumed(i) ==
    LET ack == Head(s2c[i]).n
    IN  /\ Arriving(i, "resumed")
        /\ IF ~resuming
           THEN UNCHANGED <<c2s, clientVars>>
           ELSE IF Kept(cfirst, csent, ack)
           THEN /\ c2s' = Write(c2s, i, After(csent, ack))
                /\ resuming' = FALSE
                /\ UNCHANGED <<current, wired, secret, leaving, closed,
                               crecv, csent, cfirst, cgot>>
           ELSE /\ c2s' = Write(c2s, i, CloseFrames(i, Normal))
                /\ Gone
        /\ UNCHANGED <<up, serverVars>>

\* SozvonResume.onClose
OnClose(code) ==
    IF leaving \/ ~secret \/ code \in {Normal, NoResume}
    THEN "end" ELSE "resume"

\* s.onclose of the current socket.  During a resume, any close but a
\* refusal only waits for the timer (ClientRetry).  At the bound on sockets
\* the network stays away until the client has given up.
SocketClosed(code) ==
    IF resuming /\ ~leaving /\ code # NoResume
    THEN UNCHANGED <<c2s, clientVars>>
    ELSE IF ~resuming /\ OnClose(code) = "resume" /\ current < MaxSocks
    THEN NextSocket
    ELSE Gone /\ UNCHANGED c2s

\* The server closed the socket.
ClientClosed(i) ==
    /\ Arriving(i, "close")
    /\ SocketClosed(Head(s2c[i]).n)
    /\ UNCHANGED <<up, serverVars>>

\* The browser reports the socket lost (during a resume the timer is all
\* that matters, unless the user is leaving).
ClientLost ==
    /\ ~closed /\ wired /\ ~up[current]
    /\ ~resuming \/ leaving
    /\ SocketClosed(Broken)
    /\ UNCHANGED <<up, s2c, serverVars>>

\* close(): the user leaves.
ClientLeave ==
    /\ ~closed /\ wired
    /\ leaving' = TRUE
    /\ wired' = FALSE
    /\ c2s' = Write(c2s, current, CloseFrames(current, Normal))
    /\ UNCHANGED <<up, s2c, serverVars, current, secret, resuming, closed,
                   crecv, csent, cfirst, cgot>>

\* The browser reports that the socket closed by close() is closed: at once
\* on a good path, up to a minute later on a dead one.
ClientLeft ==
    /\ ~closed /\ ~wired
    /\ Gone
    /\ UNCHANGED <<netVars, serverVars>>

-----------------------------------------------------------------------------
(* The server.                                                             *)

\* clientWriter takes a counted message: into the ring, then to the socket.
\* Writing to a broken socket may fail, and then the writer drops it.
ServerSend ==
    /\ live /\ ssent < MaxSSent
    /\ ssent' = ssent + 1
    /\ sfirst' \in Pushed(sfirst, ssent)
    /\ s2c' = IF wconn = 0 THEN s2c ELSE Write(s2c, wconn, <<Msg(ssent + 1)>>)
    /\ wconn' \in {wconn} \cup {w \in {0} : wconn # 0 /\ ~up[wconn]}
    /\ UNCHANGED <<up, c2s, clientVars, live, rsock, readers, slot, acts,
                   detached, srecv, sgot>>

\* The end of clientLoop: the writer sends the close frame and stops, the
\* readers stop, and the session is no longer registered.
EndSessionSilently(code) ==
    /\ live' = FALSE
    /\ wconn' = 0
    /\ readers' = {}
    /\ slot' = <<>>
    /\ UNCHANGED <<s2c, rsock, detached, srecv, ssent, sfirst, sgot>>
EndSession(code) ==
    /\ live' = FALSE
    /\ wconn' = 0
    /\ readers' = {}
    /\ slot' = <<>>
    /\ s2c' = IF wconn = 0 THEN s2c ELSE Write(s2c, wconn, <<Close(code)>>)
    /\ UNCHANGED <<rsock, detached, srecv, ssent, sfirst, sgot>>

\* clientReader of socket i puts what it reads into the read channel; the
\* error that ends it is put there too.
ReaderRead(i) ==
    /\ live /\ i \in readers /\ slot = <<>>
    /\ \/ /\ c2s[i] # <<>>
          /\ slot' = <<[sock |-> i, f |-> Head(c2s[i])]>>
          /\ c2s' = [c2s EXCEPT ![i] = Tail(@)]
       \/ /\ ~up[i]
          /\ slot' = <<[sock |-> i, f |-> Close(Broken)]>>
          /\ UNCHANGED c2s
    /\ readers' = IF slot'[1].f.t = "close" THEN readers \ {i} ELSE readers
    /\ UNCHANGED <<up, s2c, clientVars, live, wconn, rsock, acts, detached,
                   srecv, ssent, sfirst, sgot>>

\* clientLoop takes a read result of an earlier generation.
LoopDrop ==
    /\ live /\ slot # <<>> /\ slot[1].sock # rsock
    /\ slot' = <<>>
    /\ UNCHANGED <<netVars, clientVars, live, wconn, rsock, readers, acts,
                   detached, srecv, ssent, sfirst, sgot>>

\* clientLoop takes a message and handles it.
LoopTakeAnyGeneration ==
    /\ live /\ slot # <<>> /\ slot[1].f.t = "msg"
    /\ slot' = <<>>
    /\ srecv' = srecv + 1
    /\ sgot' = Append(sgot, slot[1].f.n)
    /\ UNCHANGED <<netVars, clientVars, live, wconn, rsock, readers, acts,
                   detached, ssent, sfirst>>
LoopTake ==
    /\ live /\ slot # <<>> /\ slot[1].sock = rsock /\ slot[1].f.t = "msg"
    /\ slot' = <<>>
    /\ srecv' = srecv + 1
    /\ sgot' = Append(sgot, slot[1].f.n)
    /\ UNCHANGED <<netVars, clientVars, live, wconn, rsock, readers, acts,
                   detached, ssent, sfirst>>

\* clientLoop takes the error of the current reader: a normal close ends the
\* session, anything else leaves it waiting.
LoopErrorAnyGeneration ==
    /\ live /\ slot # <<>> /\ slot[1].f.t = "close"
    /\ IF slot[1].f.n = Normal
       THEN EndSession(Normal)
       ELSE /\ detached' = TRUE
            /\ slot' = <<>>
            /\ UNCHANGED <<s2c, live, wconn, rsock, readers, srecv, ssent,
                           sfirst, sgot>>
    /\ UNCHANGED <<up, c2s, clientVars, acts>>
LoopError ==
    /\ live /\ slot # <<>> /\ slot[1].sock = rsock /\ slot[1].f.t = "close"
    /\ IF slot[1].f.n = Normal
       THEN EndSession(Normal)
       ELSE /\ detached' = TRUE
            /\ slot' = <<>>
            /\ UNCHANGED <<s2c, live, wconn, rsock, readers, srecv, ssent,
                           sfirst, sgot>>
    /\ UNCHANGED <<up, c2s, clientVars, acts>>

\* resumeClient: a handshake asks to resume.  A live session gets a
\* resumeAction; otherwise the connection is refused.  Requests are queued
\* by one goroutine each, so they are taken in any order.
ResumeClient(i) ==
    /\ c2s[i] # <<>> /\ Head(c2s[i]).t = "hello"
    /\ c2s' = [c2s EXCEPT ![i] = Tail(@)]
    /\ IF live
       THEN /\ acts' = acts \cup {[sock |-> i, received |-> Head(c2s[i]).n]}
            /\ UNCHANGED s2c
       ELSE /\ s2c' = Write(s2c, i, <<Close(NoResume)>>)
            /\ UNCHANGED acts
    /\ UNCHANGED <<up, clientVars, live, wconn, rsock, readers, slot,
                   detached, srecv, ssent, sfirst, sgot>>

\* The writer's half of an attach: it closes the connection it has, takes
\* the new one, announces the count and replays the rest.
Attach(i, received) ==
    /\ up' = [j \in Socks |-> up[j] /\ j # wconn]
    /\ s2c' = Write(s2c, i, <<Resumed(srecv)>> \o After(ssent, received))
    /\ wconn' \in {i} \cup {w \in {0} : ~up[i]}

\* clientLoop takes a resumeAction: resumeSession hands the connection to
\* the writer, then a reader of a new generation starts.  If the ring no
\* longer holds what the client misses, the session ends.
LoopResume(a) ==
    /\ live /\ a \in acts
    /\ acts' = acts \ {a}
    /\ IF Kept(sfirst, ssent, a.received)
       THEN /\ Attach(a.sock, a.received)
            /\ rsock' = a.sock
            /\ readers' = readers \cup {a.sock}
            /\ detached' = FALSE
            /\ UNCHANGED <<c2s, live, slot, srecv, ssent, sfirst, sgot>>
       ELSE /\ live' = FALSE
            /\ wconn' = 0
            /\ readers' = {}
            /\ slot' = <<>>
            /\ s2c' = LET refused == Write(s2c, a.sock, <<Close(NoResume)>>)
                      IN  IF wconn = 0 THEN refused
                          ELSE Write(refused, wconn, <<Close(Internal)>>)
            /\ UNCHANGED <<up, c2s, rsock, detached, srecv, ssent, sfirst,
                           sgot>>
    /\ UNCHANGED clientVars

\* resumeClient finds that the session ended before it took the connection.
RefusePending(a) ==
    /\ ~live /\ a \in acts
    /\ acts' = acts \ {a}
    /\ s2c' = Write(s2c, a.sock, <<Close(NoResume)>>)
    /\ UNCHANGED <<up, c2s, clientVars, live, wconn, rsock, readers, slot,
                   detached, srecv, ssent, sfirst, sgot>>

\* The client can hear the server and the server the client.
Connected ==
    /\ live /\ ~closed /\ wired /\ ~resuming
    /\ wconn = current /\ rsock = current /\ up[current]

\* The ticker of clientLoop finds the session expired.  A connected client
\* is pinged and answers, so it is never silent for that long.
SessionExpire ==
    /\ live /\ ~Connected
    /\ EndSession(Internal)
    /\ UNCHANGED <<up, c2s, clientVars, acts>>

\* handleClientMessage or handleAction returns an error: the client is
\* kicked (a normal close) or has made one (an abnormal one).
SessionFail ==
    /\ live
    /\ \E code \in {Normal, Internal} : EndSession(code)
    /\ UNCHANGED <<up, c2s, clientVars, acts>>

-----------------------------------------------------------------------------
(* The network.  The last socket does not break: from some point on the    *)
(* network holds.                                                          *)

Break(i) ==
    /\ up[i] /\ i <= current /\ i < MaxSocks
    /\ up' = [up EXCEPT ![i] = FALSE]
    /\ UNCHANGED <<c2s, s2c, clientVars, serverVars>>

\* A session that both sides have ended, with nothing left to refuse.
Over ==
    /\ closed /\ ~live /\ acts = {}
    /\ UNCHANGED vars

ClientStep ==
    \/ ClientSend \/ ClientStall \/ ClientRetry \/ ClientGiveUp
    \/ \E i \in Socks : \/ ClientSession(i) \/ ClientTake(i)
                        \/ ClientResumed(i) \/ ClientClosed(i)
    \/ ClientLost \/ ClientLeave \/ ClientLeft

ServerStep ==
    \/ ServerSend \/ LoopDrop \/ LoopTake \/ LoopError
    \/ SessionExpire \/ SessionFail
    \/ \E i \in Socks : ReaderRead(i) \/ ResumeClient(i)
    \/ \E a \in acts : LoopResume(a) \/ RefusePending(a)

Next ==
    \/ ClientStep
    \/ ServerStep
    \/ \E i \in Socks : Break(i)
    \/ Over

Spec == Init /\ [][Next]_vars

\* What happens without anybody's doing: sockets that hold deliver what they
\* carry, goroutines and event handlers run, and timers fire.
Progress ==
    \/ ClientRetry \/ ClientGiveUp \/ ClientLost \/ ClientLeft
    \/ LoopDrop \/ LoopTake \/ LoopError \/ SessionExpire
    \/ \E i \in Socks : \/ ClientSession(i) \/ ClientTake(i)
                        \/ ClientResumed(i) \/ ClientClosed(i)
                        \/ ReaderRead(i) \/ ResumeClient(i)
    \/ \E a \in acts : LoopResume(a) \/ RefusePending(a)

\* It goes on as long as there is any; nobody need send, leave, stall or fail.
Fairness == WF_vars(Progress)

FairSpec == Spec /\ Fairness

-----------------------------------------------------------------------------
(* Properties.                                                             *)

TypeOK ==
    /\ up \in [Socks -> BOOLEAN]
    /\ c2s \in [Socks -> Seq(Frames)]
    /\ s2c \in [Socks -> Seq(Frames)]
    /\ current \in Socks
    /\ wired \in BOOLEAN /\ secret \in BOOLEAN /\ resuming \in BOOLEAN
    /\ leaving \in BOOLEAN /\ closed \in BOOLEAN
    /\ crecv \in 0 .. MaxSSent /\ csent \in 0 .. MaxCSent
    /\ cfirst \in Nat /\ cgot \in Seq(Nat)
    /\ live \in BOOLEAN /\ detached \in BOOLEAN
    /\ wconn \in Socks \cup {0} /\ rsock \in Socks
    /\ readers \subseteq Socks
    /\ slot \in Seq([sock : Socks, f : Frames]) /\ Len(slot) <= 1
    /\ acts \subseteq [sock : Socks, received : Nat]
    /\ srecv \in 0 .. MaxCSent /\ ssent \in 0 .. MaxSSent
    /\ sfirst \in Nat /\ sgot \in Seq(Nat)

\* Exactly once, in order (resume.go: "Whatever was stuck in the dead socket
\* arrives once, in order"): the k-th message either side takes is the k-th
\* the other sent, over however many sockets they came, and the counts the
\* two sides exchange on resume count exactly those.
ExactlyOnceInOrder ==
    /\ Len(cgot) = crecv /\ crecv <= ssent
    /\ \A k \in 1 .. Len(cgot) : cgot[k] = k
    /\ Len(sgot) = srecv /\ srecv <= csent
    /\ \A k \in 1 .. Len(sgot) : sgot[k] = k

\* The messages of socket i waiting on the server, read or not.
Unhandled(i) == slot # <<>> /\ slot[1].sock = i

\* Nothing is lost on the way: once a connected client has drained its
\* socket it has every message the server ever sent it, and the other way
\* round, however many sockets broke before.
NothingMissing ==
    Connected =>
        /\ s2c[current] = <<>> => crecv = ssent
        /\ c2s[current] = <<>> /\ ~Unhandled(current) => srecv = csent

\* A session counts as detached, with the shorter limit that brings, only
\* while its client is not connected: an error of an abandoned connection
\* that arrives after a resume is not taken for the loss of the new one.
DetachedIsReal == Connected => ~detached

\* The reliable link that the two ends see.
Link == INSTANCE ReliableLink WITH
    up <- [e \in {"client", "server"} |->
              IF e = "client" THEN ~closed ELSE live],
    sent <- [e \in {"client", "server"} |->
              IF e = "client" THEN csent ELSE ssent],
    got <- [e \in {"client", "server"} |->
              IF e = "client" THEN cgot ELSE sgot]

\* The session implements one reliable link.
ImplementsLink == Link!Spec

\* Whatever an end sends reaches the other end, or the session is over: each
\* end is up to date again and again, both at once.
EventuallyDelivered ==
    []<>(closed \/ ~live \/ (srecv = csent /\ crecv = ssent))

\* A session that is over for one end is over for the other: the client
\* learns that the server dropped it, and the server does not keep the
\* session of a client that has gone.
EndsForBoth == (closed \/ ~live) ~> (closed /\ ~live)

\* "a socket we closed ourselves ends the session rather than being resumed"
\* (protocol.js, the comment on leaving): a client that is leaving never
\* gets its session back.
\* The code does not keep to it in every case: see README.md.
LeavingIsFinal == leaving => ~Connected

-----------------------------------------------------------------------------
(* The inductive invariant behind the safety properties.                   *)

HasType(q, type) == \E j \in 1 .. Len(q) : q[j].t = type

\* 1 if the queue starts with a frame that is not counted, 0 otherwise
Control(q) == IF q # <<>> /\ q[1].t \in {"session", "resumed"} THEN 1 ELSE 0

\* 1 if the read channel holds a message of socket i
Held(i) ==
    IF slot # <<>> /\ slot[1].sock = i /\ slot[1].f.t = "msg" THEN 1 ELSE 0

\* A socket whose request to resume no one has answered: nothing was ever
\* sent over it or read from it, no message was written to it, and if it is
\* the current one the client waits for the answer.
Unanswered(i, received) ==
    /\ i \notin readers /\ i # wconn /\ i # rsock /\ i <= current
    /\ s2c[i] = <<>> /\ ~Unhandled(i) /\ ~HasType(c2s[i], "msg")
    /\ i = current => received = crecv /\ (resuming \/ closed)

\* A socket that is not open yet.
Untouched(i) ==
    /\ c2s[i] = <<>> /\ s2c[i] = <<>>
    /\ i \notin readers /\ i # wconn /\ i # rsock /\ ~Unhandled(i)
    /\ \A a \in acts : a.sock # i

\* What a client writes to a socket: a close frame is the last of it.
Ordered(q) ==
    \A j \in 1 .. Len(q) :
        /\ q[j].t \in {"hello", "msg", "close"}
        /\ q[j].t = "close" => j = Len(q)

FramesInv == \A i \in Socks : Ordered(c2s[i])

FreshInv == \A i \in Socks : i > current => Untouched(i)

HelloInv ==
    \A i \in Socks : \A j \in 1 .. Len(c2s[i]) :
        c2s[i][j].t = "hello" =>
            /\ j = 1 /\ Unanswered(i, c2s[i][j].n)
            /\ \A a \in acts : a.sock # i

ActsInv ==
    /\ \A a \in acts : Unanswered(a.sock, a.received)
    /\ \A a, b \in acts : a.sock = b.sock => a = b

WriterInv == live => wconn \in {0, rsock}

\* What the current socket carries to the client is what comes next.
ToClientInv ==
    LET q == s2c[current]
    IN  ~closed =>
        /\ \A j \in 1 .. Len(q) :
              /\ q[j].t \in {"session", "resumed"} => j = 1
              /\ q[j].t = "close" => j = Len(q)
              /\ q[j].t = "msg" =>
                    q[j].n = crecv + j - Control(q) /\ q[j].n <= ssent
        /\ live /\ wconn = current /\ up[current] =>
              /\ ~HasType(q, "close")
              /\ crecv + Len(q) - Control(q) = ssent

\* What the current reader's socket carries to the server is what comes
\* next.
ToServerInv ==
    LET q == c2s[rsock]
    IN  live =>
        /\ Held(rsock) = 1 => slot[1].f.n = srecv + 1 /\ srecv < csent
        /\ \A j \in 1 .. Len(q) :
              q[j].t = "msg" => q[j].n = srecv + Held(rsock) + j /\ q[j].n <= csent

\* The client's side of the current socket, as long as it has not closed it.
CurrentInv ==
    LET q == c2s[current]
    IN  ~closed /\ wired =>
        /\ ~HasType(q, "close")
        /\ resuming =>
              /\ q \in {<<>>, <<Hello(crecv)>>}
              /\ Unhandled(current) => slot[1].f.t = "close"
              /\ live /\ rsock = current /\ s2c[current] # <<>>
                    /\ s2c[current][1].t = "resumed"
                       => s2c[current][1].n = srecv
        /\ live /\ rsock = current /\ up[current] =>
              /\ ~detached /\ current \in readers
              /\ Unhandled(current) => slot[1].f.t # "close"
              /\ ~resuming => srecv + Held(rsock) + Len(q) = csent

Inv ==
    /\ TypeOK
    /\ ExactlyOnceInOrder
    /\ FramesInv /\ FreshInv /\ HelloInv /\ ActsInv /\ WriterInv
    /\ ToClientInv
    /\ ToServerInv
    /\ CurrentInv
=============================================================================
