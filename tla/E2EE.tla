-------------------------------- MODULE E2EE --------------------------------
(***************************************************************************)
(* End-to-end encryption between two pages (static/e2ee.js, its worker and *)
(* what static/galene.js does with it): the controller of each page, the   *)
(* handshake relayed by the server, the media it lets out and the text     *)
(* and names it carries.                                                   *)
(*                                                                         *)
(* A key pair is named by who made it and when; what is derived from two   *)
(* of them is named by the transcript.  A chain of awaits is a sequence of *)
(* runs: the operations of Web Crypto complete in the order they are       *)
(* started, and everything else may happen in between.                     *)
(***************************************************************************)
EXTENDS Naturals, Sequences, FiniteSets, SequencesExt

CONSTANTS Pages,        \* the pages in the room
          IdsOf,        \* the identifiers the server gives a page's connections
          MaxChats,     \* how many texts a page writes in one session
          MaxEvents,    \* how often a page connects or learns of a change of status
          Active,       \* the pages whose users turn cameras on and write
          Deployed,     \* which pages may be of another version of the protocol
          Slow,         \* a socket may stall while participants come and go
          FailWhen      \* when an encryptor fails to attach: "required", "any"

ASSUME E2EEAssumption ==
    /\ IdsOf \in [Pages -> SUBSET (Nat \ {0})]
    /\ \A p, q \in Pages : p # q => IdsOf[p] \cap IdsOf[q] = {}
    /\ MaxChats \in Nat /\ MaxEvents \in Nat
    /\ Active \subseteq Pages /\ Deployed \subseteq [Pages -> Nat]
    /\ Slow \in BOOLEAN /\ FailWhen \in {"required", "any"}

VARIABLES pg,           \* the controller of each page, with what it commands
          runs,         \* the asynchronous operations it has under way
          outbox,       \* what it has sent and the server has not relayed
          inbox,        \* what the server has relayed to it
          members,      \* the identifiers of those the server holds in the room
          used,         \* the identifiers handed out
          requireE2ee,  \* whether the group requires encryption
          events        \* how often a page has connected or learned of a change

vars == <<pg, runs, outbox, inbox, members, used, requireE2ee, events>>

Ids       == UNION {IdsOf[p] : p \in Pages}
None      == 0      \* no participant
NoKey     == <<>>   \* no key pair, public key or commitment
NoSession == <<>>   \* no secret

-----------------------------------------------------------------------------
(* The state of a controller.                                              *)

CanEncrypt(g) == g.supported /\ ~g.transformFailed
Initiator(g)  == g.id < g.peer

AwaitsClearConsent(g) ==
    g.state = "blocked" /\ ~g.require /\ g.wasEncrypted /\ ~g.clearAgreed
MayPublishWhileAsking(g) == AwaitsClearConsent(g) /\ CanEncrypt(g)
MayPublish(g) == g.state = "blocked" => MayPublishWhileAsking(g)
CanChat(g) == g.state = "established" /\ g.chatKey # NoSession /\ g.peer # None

\* Media that may not be published is closed.
EnforceMediaPolicy(g) == [g EXCEPT !.tracks = IF MayPublish(g) THEN @ ELSE "none"]

\* The page remembers that the room has been encrypted, applies the policy,
\* and without a session forgets to whom our name was sent.
GotState(g) ==
    [EnforceMediaPolicy(g) EXCEPT
        !.everEncrypted = @ \/ g.state = "established",
        !.nameSentTo = IF g.state = "established" THEN @ ELSE None]

SetState(g, s) == GotState([g EXCEPT !.state = s])

\* The lock in the corner of the page.
Indicator(g) ==
    CASE g.state = "established" -> "padlock"
      [] g.state \in {"unencrypted", "blocked", "failed"} -> "open padlock"
      [] OTHER -> "nothing"

\* What comes out of the worker for a frame of a track.
Emits(g) ==
    IF g.tracks = "none" THEN "nothing"
    ELSE IF g.tracks = "bare" \/ g.cleartext THEN "clear"
    ELSE IF g.mediaKey = NoSession THEN "nothing" ELSE "sealed"

\* The worker forwards frames unchanged, or seals and opens them.
SetWorkerMode(g, c) == [g EXCEPT !.cleartext = g.supported /\ c]

DowngradeIfAllowed(g) ==
    IF g.require THEN SetState(SetWorkerMode(g, FALSE), "blocked")
                 ELSE SetState(SetWorkerMode(g, TRUE), "unencrypted")


Downgrade(g) ==
    IF g.require \/ (g.wasEncrypted /\ ~g.clearAgreed)
    THEN SetState(SetWorkerMode(g, FALSE), "blocked")
    ELSE SetState(SetWorkerMode(g, TRUE), "unencrypted")

DropKeys(g) ==
    [g EXCEPT !.generation = @ + 1, !.secret = NoSession, !.mediaKey = NoSession,
              !.chatKey = NoSession, !.chatSendSeq = 0, !.chatRecvSeq = 0,
              !.cleartext = FALSE]


ResetPeer(g) ==
    [DropKeys(g) EXCEPT !.peer = None, !.starting = FALSE, !.key = NoKey,
                        !.peerCommit = NoKey, !.peerPub = NoKey]

Fail(g) == SetState(DropKeys(g), "failed")

-----------------------------------------------------------------------------
(* What a handler does: the controller it leaves, the messages it sends to *)
(* its peer, and the asynchronous operations it starts.                    *)

Result(g, out, rs) == [g |-> g, out |-> out, runs |-> rs]
Just(g) == Result(g, <<>>, <<>>)

\* send() says nothing when there is no peer.
Say(g, m) == IF g.peer = None THEN <<>> ELSE <<[m EXCEPT !.to = g.peer]>>
Message(g, t, k) == [type |-> t, from |-> g.id, to |-> None, key |-> k, v |-> g.version]
Nocrypto(g) == Say(g, Message(g, "nocrypto", NoKey))

SayCannot(g) == Result(Downgrade(g), Nocrypto(g), <<>>)

\* transcript(): all that the two sides took from the handshake.
Transcript(g) ==
    IF Initiator(g)
    THEN <<g.id, g.peer, g.peerCommit, g.key, g.peerPub>>
    ELSE <<g.peer, g.id, g.key, g.peerPub, g.key>>

Finalize(g) ==
    <<[at |-> "keys", gen |-> g.generation, peer |-> g.peer,
       session |-> Transcript(g), msg |-> <<>>]>>

Hash(g, pub) ==
    <<[at |-> "hash", gen |-> g.generation, peer |-> g.peer,
       session |-> pub, msg |-> <<>>]>>

HandleHelloSilent(g) == Just(g)


HandleHello(g) ==
    IF Initiator(g) THEN Just(g)
    ELSE Result(g, Say(g, Message(g, "commit", g.key)), <<>>)

HandleCommit(g, k) ==
    IF ~Initiator(g) THEN Just(g)
    ELSE IF g.peerCommit # NoKey
         THEN Just(IF k = g.peerCommit THEN g ELSE Fail(g))
         ELSE Result([g EXCEPT !.peerCommit = k], Say(g, Message(g, "dh", g.key)), <<>>)

HandleDh(g, k) ==
    IF g.peerPub # NoKey THEN Just(IF k = g.peerPub THEN g ELSE Fail(g))
    ELSE IF ~Initiator(g)
         THEN LET h == [g EXCEPT !.peerPub = k]
              IN  Result(h, Say(h, Message(h, "dh", h.key)), Finalize(h))
         ELSE IF g.peerCommit = NoKey THEN Just(g) ELSE Result(g, <<>>, Hash(g, k))

\* The part of onMessage() that follows startWith().
Handle(g, m) ==
    IF g.state \in {"established", "failed"} \/ g.key = NoKey THEN Just(g)
    ELSE IF m.v # g.version THEN Just(Fail(g))
    ELSE CASE m.type = "hello"  -> HandleHello(g)
           [] m.type = "commit" -> HandleCommit(g, m.key)
           [] m.type = "dh"     -> HandleDh(g, m.key)

\* startWith(): the message that caused it, if one did, waits for its end.
StartWith(g, q, msg) ==
    IF g.peer = q /\ (g.key # NoKey \/ g.starting)
    THEN IF msg = <<>> THEN Just(g) ELSE Handle(g, msg[1])
    ELSE LET h == SetState([ResetPeer(g) EXCEPT !.peer = q, !.starting = TRUE],
                           "handshaking")
         IN  Result(h, <<>>, <<[at |-> "start", gen |-> h.generation, peer |-> q,
                                session |-> NoSession, msg |-> msg]>>)

OnMessage(g, m) ==
    IF g.users # {m.from} THEN Just(g)
    ELSE IF ~g.supported THEN SayCannot([g EXCEPT !.peer = m.from])
    ELSE IF m.type = "nocrypto" THEN Just(Downgrade([g EXCEPT !.peer = m.from]))
    ELSE IF g.peer # m.from \/ g.key = NoKey THEN StartWith(g, m.from, <<m>>)
    ELSE Handle(g, m)

Recompute(g) ==
    IF g.users = {}
    THEN LET h == ResetPeer(g)
         IN  Just(IF g.require /\ ~CanEncrypt(g) THEN Downgrade(h)
                                                 ELSE SetState(h, "idle"))
    ELSE IF Cardinality(g.users) > 1 THEN Just(Downgrade(ResetPeer(g)))
    ELSE LET q == CHOOSE u \in g.users : TRUE
         IN  IF CanEncrypt(g) THEN StartWith(g, q, <<>>)
                              ELSE SayCannot([g EXCEPT !.peer = q])

AddUser(g, u) == Recompute([g EXCEPT !.users = @ \cup {u}])

DelUser(g, u) ==
    LET h == [g EXCEPT !.users = @ \ {u}, !.names = @ \ {u}]
    IN  Recompute(IF u = g.peer THEN ResetPeer(h) ELSE h)

SetRequire(g, r) == Recompute([g EXCEPT !.require = r])

-----------------------------------------------------------------------------
(* What completes after an await.                                          *)

Seal(g, text) ==
    <<[at |-> "seal", gen |-> g.generation, peer |-> g.peer,
       session |-> g.chatKey, msg |-> <<text>>]>>

\* A key pair is there: unless the peer changed meanwhile, say hello.
Started(g, r) ==
    LET stale == g.peer # r.peer \/ g.generation # r.gen
        h == [g EXCEPT !.key = <<g.id, g.generation>>, !.starting = FALSE]
        said == Say(h, Message(h, "hello", NoKey)) \o
                    (IF Initiator(h) THEN <<>> ELSE Say(h, Message(h, "commit", h.key)))
        k == IF stale THEN g ELSE h
        next == IF r.msg = <<>> THEN Just(k) ELSE Handle(k, r.msg[1])
    IN  Result(next.g, (IF stale THEN <<>> ELSE said) \o next.out, next.runs)

\* The initiator has hashed the responder's key.
Hashed(g, r) ==
    IF g.peerCommit = NoKey THEN Just(g)
    ELSE IF r.session # g.peerCommit THEN Just(Fail(g))
    ELSE IF g.peerPub # NoKey \/ g.state # "handshaking" THEN Just(g)
    ELSE LET h == [g EXCEPT !.peerPub = r.session] IN Result(h, <<>>, Finalize(h))

\* finalize(): keys to the worker, keys for chat, then the emoji.
Finalizing(g, r) ==
    CASE r.at = "keys" ->
           Result(SetWorkerMode([g EXCEPT !.secret = r.session, !.mediaKey = r.session,
                                          !.chatKey = r.session, !.chatSendSeq = 0,
                                          !.chatRecvSeq = 0], FALSE),
                  <<>>, <<[r EXCEPT !.at = "sas"]>>)
      [] r.at = "sas" ->
           LET h == SetState([g EXCEPT !.wasEncrypted = TRUE, !.clearAgreed = FALSE],
                             "established")
           IN  Result(h, <<>>, IF h.nameSentTo = h.peer THEN <<>> ELSE Seal(h, "name"))

\* sendChatNow(), once the text is sealed.
Sealed(g, r) ==
    IF g.generation # r.gen \/ ~CanChat(g) THEN Just(g)
    ELSE Result([g EXCEPT !.chatSendSeq = @ + 1,
                          !.nameSentTo = IF r.msg[1] = "name" THEN g.peer ELSE @],
                Say(g, [type |-> "e2eechat", from |-> g.id, to |-> None, key |-> r.session,
                        v |-> <<g.chatSendSeq + 1, r.msg[1]>>]), <<>>)

\* A text opens with the key, for the sender and the number it was sealed with.
Opens(g, r, m) == m.key = r.session /\ m.from = r.peer /\ m.to = g.id

\* decryptChatNow(), once the text is open: numbers start at 1.
Opened(g, r) ==
    LET m == r.msg[1] IN
    IF g.generation # r.gen \/ ~Opens(g, r, m) \/ m.v[1] <= g.chatRecvSeq THEN Just(g)
    ELSE Just([g EXCEPT !.chatRecvSeq = m.v[1],
                        !.names = IF m.v[2] = "name" THEN @ \cup {m.from} ELSE @])

CompletedAnyGeneration(g, r) ==
    CASE r.at = "start" -> Started(g, r)
      [] r.at = "hash"  -> Hashed(g, r)
      [] r.at = "seal"  -> Sealed(g, r)
      [] r.at = "open"  -> Opened(g, r)
      [] OTHER -> Finalizing(g, r)


Completed(g, r) ==
    CASE r.at = "start" -> Started(g, r)
      [] r.at = "hash"  -> Hashed(g, r)
      [] r.at = "seal"  -> Sealed(g, r)
      [] r.at = "open"  -> Opened(g, r)
      [] OTHER -> IF g.generation # r.gen THEN Just(g) ELSE Finalizing(g, r)

DecryptChat(g, m) ==
    IF g.state = "established" /\ g.chatKey # NoSession /\ m.from = g.peer
    THEN Result(g, <<>>, <<[at |-> "open", gen |-> g.generation, peer |-> m.from,
                            session |-> g.chatKey, msg |-> <<m>>]>>)
    ELSE Just(g)

-----------------------------------------------------------------------------
(* Steps.                                                                  *)

\* A handler of page p that leaves `rest` of its runs ahead of its own.
Apply(p, r, rest) ==
    /\ pg' = [pg EXCEPT ![p] = r.g]
    /\ outbox' = [outbox EXCEPT ![p] = @ \o r.out]
    /\ runs' = [runs EXCEPT ![p] = rest \o r.runs]

Here(p) == pg[p].id # None
PageOf(i) == CHOOSE p \in Pages : pg[p].id = i
Note(type, i) == [type |-> type, from |-> i, to |-> None, key |-> NoKey, v |-> 0]

\* The server tells everybody in the room.
Announce(type, i, others) ==
    [p \in Pages |-> IF Here(p) /\ pg[p].id \in others
                     THEN Append(inbox[p], Note(type, i)) ELSE inbox[p]]

\* A page that has just been loaded.
Loaded(supported, version) ==
    [id |-> None, users |-> {}, peer |-> None, starting |-> FALSE, key |-> NoKey,
     peerCommit |-> NoKey, peerPub |-> NoKey, secret |-> NoSession,
     mediaKey |-> NoSession, chatKey |-> NoSession, chatSendSeq |-> 0,
     chatRecvSeq |-> 0, generation |-> 0, cleartext |-> FALSE,
     transformFailed |-> FALSE, clearAgreed |-> FALSE, wasEncrypted |-> FALSE,
     everEncrypted |-> FALSE, state |-> "idle", tracks |-> "none",
     nameSentTo |-> None, names |-> {}, supported |-> supported,
     version |-> version, require |-> FALSE]

\* What a new connection starts with; of the old the page keeps only that the
\* room has been encrypted, and what the group requires.
NewController(g, i) ==
    [Loaded(g.supported, g.version) EXCEPT
        !.id = i, !.wasEncrypted = g.everEncrypted, !.everEncrypted = g.everEncrypted,
        !.require = g.require]

\* A join may not take back that encryption is required (keepE2EEStatus).
KeepStatus(g, required) == g.require \/ required

Event == events < MaxEvents /\ events' = events + 1

\* A page joins the room with a new controller, and learns the group's status.
Connect(p) ==
    \E i \in IdsOf[p] \ used :
        /\ ~Here(p) /\ Event
        /\ LET g == NewController(pg[p], i)
           IN  pg' = [pg EXCEPT ![p] = SetRequire(g, KeepStatus(g, requireE2ee)).g]
        /\ inbox' = [Announce("add", i, members) EXCEPT
                        ![p] = SetToSeq({Note("add", m) : m \in members})]
        /\ members' = members \cup {i}
        /\ used' = used \cup {i}
        /\ UNCHANGED <<runs, outbox, requireE2ee>>

\* A page is closed or loses its connection for good: what it had sent and
\* was to receive is gone, and the server has not noticed yet.
Disconnect(p) ==
    /\ Here(p)
    /\ pg' = [pg EXCEPT ![p] = NewController(@, None)]
    /\ runs' = [runs EXCEPT ![p] = <<>>]
    /\ outbox' = [outbox EXCEPT ![p] = <<>>]
    /\ inbox' = [inbox EXCEPT ![p] = <<>>]
    /\ UNCHANGED <<members, used, requireE2ee, events>>

\* The server notices.  Until then the room has one participant more, which
\* never answers; if the page has come back, that makes three.  Unless
\* sockets may stall, everybody has seen whoever came before.
Expire(i) ==
    /\ i \in members /\ \A p \in Pages : pg[p].id # i
    /\ Slow \/ \A p \in Pages : inbox[p] = <<>> /\ outbox[p] = <<>>
    /\ members' = members \ {i}
    /\ inbox' = Announce("delete", i, members \ {i})
    /\ UNCHANGED <<pg, runs, outbox, used, requireE2ee, events>>

\* The server relays a message to whom it is for, if they are still there.
Relay(p) ==
    /\ outbox[p] # <<>>
    /\ LET m == Head(outbox[p])
       IN  inbox' = IF \E q \in Pages : pg[q].id = m.to
                    THEN [inbox EXCEPT ![PageOf(m.to)] = Append(@, m)] ELSE inbox
    /\ outbox' = [outbox EXCEPT ![p] = Tail(@)]
    /\ UNCHANGED <<pg, runs, members, used, requireE2ee, events>>

\* The page takes the next message (gotUser, gotUserMessage).
Deliver(p) ==
    /\ inbox[p] # <<>>
    /\ LET m == Head(inbox[p])
       IN  Apply(p, CASE m.type = "add"      -> AddUser(pg[p], m.from)
                      [] m.type = "delete"   -> DelUser(pg[p], m.from)
                      [] m.type = "e2eechat" -> DecryptChat(pg[p], m)
                      [] OTHER               -> OnMessage(pg[p], m), runs[p])
    /\ inbox' = [inbox EXCEPT ![p] = Tail(@)]
    /\ UNCHANGED <<members, used, requireE2ee, events>>

\* The oldest asynchronous operation completes.
Complete(p) ==
    /\ runs[p] # <<>>
    /\ Apply(p, Completed(pg[p], Head(runs[p])), Tail(runs[p]))
    /\ UNCHANGED <<inbox, members, used, requireE2ee, events>>

\* A change of the group's status, or of ours (gotJoined, "change").
Changed(p) ==
    /\ Here(p) /\ Event
    /\ Apply(p, SetRequire(pg[p], pg[p].require), runs[p])
    /\ UNCHANGED <<inbox, members, used, requireE2ee>>

\* The user turns the camera on (setUpStream, attachSender).
Publish(p) ==
    /\ p \in Active /\ Here(p) /\ pg[p].tracks = "none" /\ MayPublish(pg[p])
    /\ Apply(p, Just([pg[p] EXCEPT !.tracks = IF pg[p].supported THEN "sealed" ELSE "bare"]),
             runs[p])
    /\ UNCHANGED <<inbox, members, used, requireE2ee, events>>

\* ... and the encryptor cannot be attached.
AttachFails(p) ==
    /\ p \in Active /\ Here(p) /\ pg[p].tracks = "none" /\ MayPublish(pg[p]) /\ pg[p].supported
    /\ FailWhen = "any" \/ pg[p].require
    /\ Apply(p, SayCannot([pg[p] EXCEPT !.tracks = "bare", !.transformFailed = TRUE]),
             runs[p])
    /\ UNCHANGED <<inbox, members, used, requireE2ee, events>>

Unpublish(p) ==
    /\ pg[p].tracks # "none"
    /\ pg' = [pg EXCEPT ![p].tracks = "none"]
    /\ UNCHANGED <<runs, outbox, inbox, members, used, requireE2ee, events>>

\* The user agrees to go on without encryption.
ContinueInClear(p) ==
    /\ AwaitsClearConsent(pg[p])
    /\ Apply(p, Just(SetState(SetWorkerMode([pg[p] EXCEPT !.clearAgreed = TRUE], TRUE),
                              "unencrypted")), runs[p])
    /\ UNCHANGED <<inbox, members, used, requireE2ee, events>>

\* The user writes a text in an encrypted call (handleInput, sendChat).
Chat(p) ==
    /\ p \in Active /\ CanChat(pg[p])
    /\ pg[p].chatSendSeq + Cardinality({i \in DOMAIN runs[p] : runs[p][i].at = "seal"})
           <= MaxChats
    /\ Apply(p, Result(pg[p], <<>>, Seal(pg[p], "text")), runs[p])
    /\ UNCHANGED <<inbox, members, used, requireE2ee, events>>

-----------------------------------------------------------------------------

Init ==
    /\ \E supported \in [Pages -> BOOLEAN], version \in Deployed :
          pg = [p \in Pages |-> Loaded(supported[p], version[p])]
    /\ runs = [p \in Pages |-> <<>>]
    /\ outbox = [p \in Pages |-> <<>>]
    /\ inbox = [p \in Pages |-> <<>>]
    /\ members = {} /\ used = {} /\ requireE2ee \in BOOLEAN /\ events = 0

System(p) == Relay(p) \/ Deliver(p) \/ Complete(p)

User(p) ==
    \/ Connect(p) \/ Disconnect(p) \/ Changed(p) \/ Publish(p) \/ AttachFails(p)
    \/ Unpublish(p) \/ ContinueInClear(p) \/ Chat(p)

Next ==
    \/ \E i \in Ids : Expire(i)
    \/ \E p \in Pages : System(p) \/ User(p)

Spec == Init /\ [][Next]_vars
FairSpec == Spec /\ \A p \in Pages : WF_vars(System(p))

-----------------------------------------------------------------------------
(* Properties.                                                             *)

States == {"idle", "handshaking", "established", "failed", "unencrypted", "blocked"}

\* The types of what the controllers hold.
TypeOK ==
    /\ \A p \in Pages :
          /\ pg[p].id \in Ids \cup {None} /\ pg[p].users \subseteq Ids
          /\ pg[p].peer \in Ids \cup {None} /\ pg[p].state \in States
          /\ pg[p].tracks \in {"none", "sealed", "bare"}
          /\ (pg[p].peer # None => pg[p].peer \in pg[p].users)
    /\ members \subseteq used

\* Two pages that each show the padlock for the other hold the same secret,
\* and so show the same emoji (finalize, the comment on `generation`).
SameSecret ==
    \A p, q \in Pages :
        (/\ pg[p].state = "established" /\ pg[q].state = "established"
         /\ pg[p].peer = pg[q].id /\ pg[q].peer = pg[p].id)
            => pg[p].secret = pg[q].secret

\* Where the group requires encryption, and in a room that has been encrypted
\* until the user agrees, no media leaves a page in clear (downgrade,
\* enforceE2EEMediaPolicy).
NothingInClear ==
    \A p \in Pages : Emits(pg[p]) = "clear" =>
        ~pg[p].require /\ (pg[p].wasEncrypted => pg[p].clearAgreed)

\* The padlock is never shown over media that leaves in clear: the worker is
\* not forwarding, and every track has its encryptor.
PadlockIsTrue ==
    \A p \in Pages : Indicator(pg[p]) = "padlock" =>
        Emits(pg[p]) # "clear" /\ ~pg[p].cleartext /\ pg[p].mediaKey = pg[p].secret

\* Between pages that follow the protocol a handshake fails for a difference
\* of versions only, and never as if somebody had interfered.
NoFalseAlarm ==
    \A p \in Pages : pg[p].state = "failed" =>
        \E q \in Pages : pg[q].version # pg[p].version

\* What a page shows of the encryption is so: the padlock, the emoji, and the
\* warning.
ShownIsTrue == TypeOK /\ SameSecret /\ PadlockIsTrue /\ NoFalseAlarm

Together(p, q) ==
    /\ Here(p) /\ Here(q) /\ members = {pg[p].id, pg[q].id}
    /\ CanEncrypt(pg[p]) /\ CanEncrypt(pg[q]) /\ pg[p].version = pg[q].version

\* Two pages that can encrypt and remain alone with each other end up in an
\* encrypted call, whatever came before.
Settles ==
    \A p, q \in Pages : p # q =>
        (<>[]Together(p, q) => <>[](pg[p].state = "established"))

\* ... and each learns the other's name (sendOwnName: "Send our name to the
\* peer once the encrypted session is up").
\* The code does not keep to it in every case: see README.md.
NamesArrive ==
    \A p, q \in Pages : p # q =>
        (<>[]Together(p, q) => <>[](pg[q].id \in pg[p].names))
=============================================================================
