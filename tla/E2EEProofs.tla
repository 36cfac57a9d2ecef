----------------------------- MODULE E2EEProofs -----------------------------
(***************************************************************************)
(* Proofs about E2EE: what leaves a page and what its padlock says, for    *)
(* any number of pages, connections, messages and operations under way.    *)
(*                                                                         *)
(* The argument is about one controller at a time.  What every handler     *)
(* must keep is stated once (Kept, Sends, Starts) for a controller, the    *)
(* messages it sends and the operation it starts; a lemma for every        *)
(* operator of E2EE shows that it does so; and one lemma (HandlerInv)      *)
(* takes that to the state of the whole system.  Two cases have separate   *)
(* arguments.  Where encryption is required a page never lets a frame out  *)
(* in clear (Strict), whatever it receives.  Where it is not, a page turns *)
(* to clear only with a peer that cannot encrypt, so that a handshake that *)
(* completes late finds the state it left (Calm, RunOK): this rests on     *)
(* what messages can be under way (Honest) and on generations, which tell  *)
(* an operation of an earlier handshake from one of the present.           *)
(*                                                                         *)
(* The second half is about two controllers at once: that two padlocks     *)
(* mean one secret, and that no handshake fails for nothing.  What a page  *)
(* holds of the other's keys is what it has been told (Tied, RunTied),     *)
(* and it has been told one key by each only (Single).  That is so since a *)
(* key that a page was told is its owner's still while the two are alone   *)
(* (Stands), and since a page learns of a departure before anything that   *)
(* the departure allows others to say (Knows): true as long as no socket   *)
(* stalls while participants come and go (~Slow).                          *)
(***************************************************************************)
EXTENDS E2EE, FiniteSetTheorems, TLAPS

\* What a controller consists of.
Fields ==
    {"id", "users", "peer", "starting", "key", "peerCommit", "peerPub", "secret",
     "mediaKey", "chatKey", "chatSendSeq", "chatRecvSeq", "generation", "cleartext",
     "transformFailed", "clearAgreed", "wasEncrypted", "everEncrypted", "state",
     "tracks", "nameSentTo", "names", "supported", "version", "require"}

\* The identifiers of pages that can encrypt.
Able == UNION {IdsOf[p] : p \in {q \in Pages : pg[q].supported}}

\* Messages.
Handshake == {"hello", "commit", "dh"}
Types == Handshake \cup {"add", "delete", "e2eechat", "nocrypto"}

\* What is in an inbox, and in an outbox.
MsgOK(m) == m.type \in Types /\ m.from \in Ids
Letter(m) == MsgOK(m) /\ m.to \in Ids

\* Only a page that can encrypt takes part in a handshake, and only one that
\* cannot says so.
Honest(m, A) == /\ m.type \in Handshake => m.from \in A
                /\ m.type = "nocrypto" => m.from \notin A

\* What is under way.
RunType(r) ==
    /\ DOMAIN r = {"at", "gen", "peer", "session", "msg"} /\ r.gen \in Nat
    /\ r.at \in {"start", "hash", "keys", "sas", "seal", "open"}
    /\ r.at = "start" /\ r.msg # <<>> => r.msg[1].type \in Handshake

\* The yes and no of a controller.
Flags(g) ==
    /\ g.starting \in BOOLEAN /\ g.cleartext \in BOOLEAN /\ g.transformFailed \in BOOLEAN
    /\ g.clearAgreed \in BOOLEAN /\ g.wasEncrypted \in BOOLEAN
    /\ g.everEncrypted \in BOOLEAN /\ g.supported \in BOOLEAN /\ g.require \in BOOLEAN

\* The controller of a page that is in the room.
Controller(g, A) ==
    /\ DOMAIN g = Fields /\ Flags(g)
    /\ g.id \in Ids /\ (g.id \in A <=> g.supported)
    /\ g.users \subseteq Ids /\ IsFiniteSet(g.users)
    /\ g.peer \in Ids \cup {None}
    /\ g.state \in States /\ g.tracks \in {"none", "sealed", "bare"}
    /\ g.generation \in Nat /\ g.mediaKey = g.secret
    /\ ~g.supported => g.state # "established" /\ ~g.wasEncrypted /\ ~g.everEncrypted

\* A peer is the only other participant.
Settled(g) == g.peer # None => g.users = {g.peer}

\* Where encryption is required.
Closed(g) == g.require /\ ~g.cleartext /\ g.tracks # "bare"
Strict(g) == Closed(g) /\ (~g.supported => g.state = "blocked")

\* Where it is not, and an encryptor fails only where it is.
Optional(g) == FailWhen = "required" /\ ~g.require /\ ~g.transformFailed

\* There nothing goes out in clear unasked, and a page that has begun a
\* handshake with one that can encrypt does not turn to clear before its end.
Calm(g, A) ==
    /\ Optional(g)
    /\ g.supported => g.tracks # "bare"
    /\ g.wasEncrypted /\ ~g.clearAgreed => ~g.cleartext
    /\ g.state = "established" => ~g.cleartext
    /\ g.supported /\ (g.key # NoKey \/ g.starting) /\ g.peer \in A
          => g.state \in {"handshaking", "established", "failed"}
    /\ g.supported /\ g.peerCommit # NoKey => g.key # NoKey /\ g.peer \in A

\* What is under way is of this generation or an older one: a handshake that
\* is being started has no key yet, and one that is being finished has a key, a
\* peer that can encrypt and a worker that no longer forwards.
RunOK(g, r, A) ==
    /\ r.gen <= g.generation
    /\ r.at = "start" =>
          /\ g.key = NoKey /\ r.peer \in Ids
          /\ r.gen = g.generation => g.starting /\ g.peer = r.peer
          /\ r.msg # <<>> => r.msg[1].from = r.peer /\ r.peer \in A
    /\ r.at \in {"keys", "sas"} /\ r.gen = g.generation =>
          /\ g.key # NoKey /\ g.peer \in A /\ g.state # "failed"
          /\ r.at = "sas" => ~g.cleartext

\* What a handler leaves of a controller.
Kept(g, h, A) ==
    /\ Controller(h, A) /\ h.id = g.id /\ h.supported = g.supported /\ h.require = g.require
    /\ g.generation <= h.generation
    /\ Closed(g) => Closed(h)
    /\ Strict(g) => Strict(h)
    /\ Calm(g, A) => Calm(h, A)
    /\ Calm(g, A) /\ g.supported =>
          \A r : RunType(r) /\ RunOK(g, r, A) => RunOK(h, r, A)

\* What it may send, and the one operation it may start.
Sends(g, out, A) ==
    /\ out \in Seq(Range(out))
    /\ \A m \in Range(out) : Letter(m) /\ (Calm(g, A) => Honest(m, A))

Starts(g, res, A) ==
    \/ res.runs = <<>>
    \/ \E r : /\ res.runs = <<r>> /\ g.supported /\ RunType(r)
              /\ Calm(g, A) => RunOK(res.g, r, A)
              /\ r.at = "start" => g.generation < r.gen

\* A handler that is as it should be.
Outcome(g, res, A) == Kept(g, res.g, A) /\ Sends(g, res.out, A) /\ Starts(g, res, A)

-----------------------------------------------------------------------------

\* What no handler but NewController touches.
SamePage(g, h) ==
    /\ h.id = g.id /\ h.supported = g.supported
    /\ h.everEncrypted = g.everEncrypted

SameRoom(g, h) ==
    /\ h.users = g.users /\ h.require = g.require /\ h.transformFailed = g.transformFailed
    /\ h.wasEncrypted = g.wasEncrypted /\ h.clearAgreed = g.clearAgreed

SameHandshake(g, h) ==
    /\ h.peer = g.peer /\ h.starting = g.starting /\ h.key = g.key
    /\ h.peerCommit = g.peerCommit

SameKeys(g, h) ==
    /\ h.generation = g.generation /\ h.secret = g.secret /\ h.mediaKey = g.mediaKey

SameMedia(g, h) == h.cleartext = g.cleartext /\ h.tracks = g.tracks

\* Dropping the keys begins a new generation and leaves the rest alone.
LEMMA DropKeysFields ==
    ASSUME NEW g, DOMAIN g = Fields
    PROVE  LET h == DropKeys(g)
           IN  /\ DOMAIN h = Fields /\ h.state = g.state /\ h.tracks = g.tracks
               /\ SamePage(g, h) /\ SameRoom(g, h) /\ SameHandshake(g, h)
               /\ h.generation = g.generation + 1 /\ h.cleartext = FALSE
               /\ h.secret = NoSession /\ h.mediaKey = NoSession
  BY DEF DropKeys, Fields, SamePage, SameRoom, SameHandshake

\* So does resetting the peer, which also forgets the handshake.
LEMMA ResetPeerFields ==
    ASSUME NEW g, DOMAIN g = Fields
    PROVE  LET h == ResetPeer(g)
           IN  /\ DOMAIN h = Fields /\ h.state = g.state /\ h.tracks = g.tracks
               /\ SamePage(g, h) /\ SameRoom(g, h)
               /\ h.generation = g.generation + 1 /\ h.cleartext = FALSE
               /\ h.secret = NoSession /\ h.mediaKey = NoSession
               /\ h.peer = None /\ h.starting = FALSE /\ h.key = NoKey
               /\ h.peerCommit = NoKey
<1> DEFINE d == DropKeys(g)
<1> HIDE DEF d
<1>1. /\ DOMAIN d = Fields /\ d.state = g.state /\ d.tracks = g.tracks
      /\ SamePage(g, d) /\ SameRoom(g, d)
      /\ d.generation = g.generation + 1 /\ d.cleartext = FALSE
      /\ d.secret = NoSession /\ d.mediaKey = NoSession
  BY DropKeysFields DEF d
<1> QED
  BY <1>1 DEF ResetPeer, d, Fields, SamePage, SameRoom

\* A new state closes the media it does not allow, and no more.
LEMMA SetStateFields ==
    ASSUME NEW g, DOMAIN g = Fields, g.everEncrypted \in BOOLEAN,
           NEW s \in States
    PROVE  LET h == SetState(g, s)
           IN  /\ DOMAIN h = Fields /\ h.state = s /\ h.cleartext = g.cleartext
               /\ h.id = g.id /\ h.supported = g.supported
               /\ SameRoom(g, h) /\ SameHandshake(g, h) /\ SameKeys(g, h)
               /\ h.tracks = g.tracks \/ h.tracks = "none"
               /\ s = "blocked" /\ (g.require \/ g.transformFailed \/ ~g.supported)
                    => h.tracks = "none"
               /\ s # "established" => h.everEncrypted = g.everEncrypted
<1> DEFINE h1 == [g EXCEPT !.state = s]
           h2 == EnforceMediaPolicy(h1)
<1> HIDE DEF h1, h2
<1>1. /\ DOMAIN h1 = Fields /\ h1.state = s /\ SameRoom(g, h1) /\ SameHandshake(g, h1)
      /\ SameKeys(g, h1) /\ SameMedia(g, h1) /\ SamePage(g, h1)
  BY DEF h1, Fields, SameRoom, SameHandshake, SameKeys, SameMedia, SamePage
<1>2. h1.tracks = g.tracks
  BY <1>1 DEF SameMedia
<1>3. /\ DOMAIN h2 = Fields /\ h2.state = s /\ SameRoom(h1, h2) /\ SameHandshake(h1, h2)
      /\ SameKeys(h1, h2) /\ h2.cleartext = h1.cleartext /\ SamePage(h1, h2)
      /\ h2.tracks = IF MayPublish(h1) THEN h1.tracks ELSE "none"
  BY <1>1 DEF h2, Fields, EnforceMediaPolicy, SameRoom, SameHandshake, SameKeys, SamePage
<1>4. SetState(g, s) = [h2 EXCEPT !.everEncrypted = @ \/ h1.state = "established",
                                  !.nameSentTo = IF h1.state = "established" THEN @ ELSE None]
  BY DEF SetState, GotState, h1, h2
<1> DEFINE h3 == SetState(g, s)
<1> HIDE DEF h3
<1>5. /\ DOMAIN h3 = Fields /\ h3.state = s /\ SameRoom(h2, h3) /\ SameHandshake(h2, h3)
      /\ SameKeys(h2, h3) /\ SameMedia(h2, h3) /\ h3.id = h2.id /\ h3.supported = h2.supported
      /\ h3.everEncrypted = (h2.everEncrypted \/ h1.state = "established")
  BY <1>3, <1>4 DEF h3, Fields, SameRoom, SameHandshake, SameKeys, SameMedia
<1>6. s # "established" => h3.everEncrypted = g.everEncrypted
  BY <1>1, <1>3, <1>5 DEF SamePage
<1>7. /\ h3.tracks = g.tracks \/ h3.tracks = "none"
      /\ s = "blocked" /\ (g.require \/ g.transformFailed \/ ~g.supported) => h3.tracks = "none"
  BY <1>1, <1>2, <1>3, <1>5 DEF SamePage, SameRoom, SameMedia, MayPublish, MayPublishWhileAsking,
     AwaitsClearConsent, CanEncrypt
<1> QED
  BY <1>1, <1>3, <1>5, <1>6, <1>7 DEF h3, SamePage, SameRoom, SameHandshake, SameKeys, SameMedia

\* Identifiers are numbers, and None is not one of them.
LEMMA Numbers == /\ Ids \subseteq Nat \ {0} /\ None \notin Ids
  BY E2EEAssumption DEF Ids, None

\* Handlers one after the other.
LEMMA KeptTwice ==
    ASSUME NEW A, NEW g, NEW h, NEW k, Controller(g, A), Kept(g, h, A), Kept(h, k, A)
    PROVE  Kept(g, k, A)
  BY DEF Kept, Controller

\* A controller that nothing happens to is kept.
LEMMA KeptAll ==
    ASSUME NEW A, NEW g, Controller(g, A)
    PROVE  Kept(g, g, A)
  BY DEF Kept, Controller

\* A handler that says and starts nothing has only the controller to keep.
LEMMA Nothing ==
    ASSUME NEW A, NEW g, NEW h, Kept(g, h, A)
    PROVE  Outcome(g, Just(h), A) /\ Just(h).g = h
  BY DEF Outcome, Just, Result, Sends, Starts, Range

\* A handler may keep the controller first and then go on.
LEMMA OutcomeAfter ==
    ASSUME NEW A, NEW g, NEW h, NEW res, Controller(g, A), Kept(g, h, A), Outcome(h, res, A)
    PROVE  Outcome(g, res, A)
<1>1. Kept(g, res.g, A)
  BY KeptTwice DEF Outcome
<1>2. Sends(g, res.out, A)
  BY DEF Outcome, Sends, Kept
<1>3. Starts(g, res, A)
  <2>1. CASE res.runs = <<>>
    BY <2>1 DEF Starts
  <2>2. CASE res.runs # <<>>
    <3>1. PICK r : /\ res.runs = <<r>> /\ h.supported /\ RunType(r)
                   /\ Calm(h, A) => RunOK(res.g, r, A)
                   /\ r.at = "start" => h.generation < r.gen
      BY <2>2 DEF Outcome, Starts
    <3>2. g.supported /\ (Calm(g, A) => RunOK(res.g, r, A))
      BY <3>1 DEF Kept
    <3>3. r.at = "start" => g.generation < r.gen
      BY <3>1 DEF Kept, Controller, RunType
    <3> QED
      BY <3>1, <3>2, <3>3 DEF Starts
  <2> QED
    BY <2>1, <2>2
<1> QED
  BY <1>1, <1>2, <1>3 DEF Outcome

\* resetPeer(): whatever was under way is of an older generation.
LEMMA ResetPeerKept ==
    ASSUME NEW A, NEW g, Controller(g, A), A \subseteq Ids
    PROVE  Kept(g, ResetPeer(g), A)
<1> DEFINE h == ResetPeer(g)
<1> HIDE DEF h
<1>1. /\ DOMAIN h = Fields /\ h.state = g.state /\ h.tracks = g.tracks
      /\ SamePage(g, h) /\ SameRoom(g, h)
      /\ h.generation = g.generation + 1 /\ h.cleartext = FALSE
      /\ h.secret = NoSession /\ h.mediaKey = NoSession
      /\ h.peer = None /\ h.starting = FALSE /\ h.key = NoKey
      /\ h.peerCommit = NoKey
  BY ResetPeerFields DEF h, Controller
<1>2. Controller(h, A) /\ g.generation <= h.generation
  <2>1. Flags(h)
    BY <1>1 DEF Controller, Flags, SamePage, SameRoom
  <2>2. h.generation \in Nat /\ g.generation <= h.generation
    BY <1>1 DEF Controller
  <2> QED
    BY <1>1, <2>1, <2>2 DEF Controller, SamePage, SameRoom
<1>3. (Closed(g) => Closed(h)) /\ (Strict(g) => Strict(h))
  BY <1>1 DEF Strict, Closed, SamePage, SameRoom
<1>4. Calm(g, A) => Calm(h, A)
  BY <1>1, Numbers DEF Calm, Optional, SamePage, SameRoom
<1>5. ASSUME NEW r, RunType(r), RunOK(g, r, A)
      PROVE  RunOK(h, r, A)
  <2>1. r.gen <= h.generation /\ r.gen # h.generation
    BY <1>1, <1>5 DEF RunOK, Controller, RunType
  <2> QED
    BY <1>1, <1>5, <2>1 DEF RunOK
<1>6. h.id = g.id /\ h.supported = g.supported /\ h.require = g.require
  BY <1>1 DEF SamePage, SameRoom
<1>7. Kept(g, h, A)
  BY <1>2, <1>3, <1>4, <1>5, <1>6 DEF Kept
<1> QED
  BY <1>7 DEF h

\* fail(): the keys are gone, and nothing is let out in clear.
LEMMA FailKept ==
    ASSUME NEW A, NEW g, Controller(g, A), g.supported
    PROVE  /\ Kept(g, Fail(g), A)
           /\ Settled(g) => Settled(Fail(g))
<1> DEFINE d == DropKeys(g)
           h == SetState(d, "failed")
<1> HIDE DEF d, h
<1>1. /\ DOMAIN d = Fields /\ d.state = g.state /\ d.tracks = g.tracks
      /\ SamePage(g, d) /\ SameRoom(g, d) /\ SameHandshake(g, d)
      /\ d.generation = g.generation + 1 /\ d.cleartext = FALSE
      /\ d.secret = NoSession /\ d.mediaKey = NoSession
  BY DropKeysFields DEF d, Controller
<1>2. d.everEncrypted \in BOOLEAN /\ "failed" \in States
  BY <1>1 DEF Controller, Flags, SamePage, States
<1>3. /\ DOMAIN h = Fields /\ h.state = "failed" /\ h.cleartext = FALSE
      /\ h.id = g.id /\ h.supported = g.supported
      /\ SameRoom(d, h) /\ SameHandshake(d, h) /\ SameKeys(d, h)
      /\ h.tracks = g.tracks \/ h.tracks = "none"
      /\ h.everEncrypted = g.everEncrypted
  BY <1>1, <1>2, SetStateFields DEF h, SamePage
<1>4. SameRoom(g, h) /\ SameHandshake(g, h)
  BY <1>1, <1>3 DEF SameRoom, SameHandshake
<1>5. h.generation = g.generation + 1 /\ h.secret = NoSession /\ h.mediaKey = NoSession
  BY <1>1, <1>3 DEF SameKeys
<1>6. Controller(h, A)
  <2>1. Flags(h)
    BY <1>3, <1>4 DEF Controller, Flags, SameRoom, SameHandshake
  <2>2. h.generation \in Nat
    BY <1>5 DEF Controller
  <2>3. h.tracks \in {"none", "sealed", "bare"} /\ h.state \in States
    BY <1>2, <1>3 DEF Controller
  <2> QED
    BY <1>3, <1>4, <1>5, <2>1, <2>2, <2>3 DEF Controller, SameRoom, SameHandshake
<1>7. (Closed(g) => Closed(h)) /\ (Strict(g) => Strict(h))
  BY <1>3, <1>4 DEF Strict, Closed, SameRoom
<1>8. Calm(g, A) => Calm(h, A)
  BY <1>3, <1>4 DEF Calm, Optional, SameRoom, SameHandshake
<1>9. ASSUME NEW r, RunType(r), RunOK(g, r, A)
      PROVE  RunOK(h, r, A)
  <2>1. r.gen <= h.generation /\ r.gen # h.generation
    BY <1>5, <1>9 DEF RunOK, Controller, RunType
  <2> QED
    BY <1>4, <1>9, <2>1 DEF RunOK, SameHandshake
<1>10. g.generation <= h.generation
  BY <1>5 DEF Controller
<1>11. Kept(g, h, A)
  BY <1>3, <1>4, <1>6, <1>7, <1>8, <1>9, <1>10 DEF Kept, SameRoom
<1> QED
  BY <1>4, <1>11 DEF Fail, d, h, Settled, SameRoom, SameHandshake

\* One message to a participant is as it should be.
LEMMA LetterSends ==
    ASSUME NEW A, NEW g, Controller(g, A), NEW t \in Types, NEW k, NEW v,
           t \in Handshake => g.supported,
           t = "nocrypto" /\ Calm(g, A) => ~g.supported
    PROVE  Sends(g, Say(g, [type |-> t, from |-> g.id, to |-> None, key |-> k, v |-> v]), A)
<1>1. CASE g.peer = None
  BY <1>1 DEF Say, Sends, Range
<1>2. CASE g.peer # None
  <2> DEFINE m == [[type |-> t, from |-> g.id, to |-> None, key |-> k, v |-> v]
                EXCEPT !.to = g.peer]
  <2>1. m.type = t /\ m.from = g.id /\ m.to = g.peer
    OBVIOUS
  <2> HIDE DEF m
  <2>2. Say(g, [type |-> t, from |-> g.id, to |-> None, key |-> k, v |-> v]) = <<m>>
    BY <1>2 DEF Say, m
  <2>3. Range(<<m>>) = {m} /\ <<m>> \in Seq({m})
    BY DEF Range
  <2>4. Letter(m)
    BY <1>2, <2>1 DEF Letter, MsgOK, Controller
  <2>5. Calm(g, A) => Honest(m, A)
    BY <2>1, Zenon DEF Honest, Controller, Handshake
  <2> QED
    BY <2>2, <2>3, <2>4, <2>5 DEF Sends
<1> QED
  BY <1>1, <1>2

\* So is what send() sends, if it sends anything.
LEMMA SaySends ==
    ASSUME NEW A, NEW g, Controller(g, A), NEW t \in Types, NEW k,
           t \in Handshake => g.supported,
           t = "nocrypto" /\ Calm(g, A) => ~g.supported
    PROVE  Sends(g, Say(g, Message(g, t, k)), A)
  BY LetterSends DEF Message

\* So is nothing.
LEMMA SaysNothing == ASSUME NEW A, NEW g PROVE Sends(g, <<>>, A)
  BY DEF Sends, Range

\* What a handler does is right when its three parts are.
LEMMA ResultOutcome ==
    ASSUME NEW A, NEW g, NEW h, NEW out, Kept(g, h, A), Sends(g, out, A)
    PROVE  Outcome(g, Result(h, out, <<>>), A) /\ Result(h, out, <<>>).g = h
  BY DEF Outcome, Result, Starts

\* The two handlers that complete a handshake go on to finalize().
LEMMA FinalizeStarts ==
    ASSUME NEW A, NEW g, NEW out, Controller(g, A), g.supported, g.key # NoKey,
           Calm(g, A) => g.peer \in A, g.state # "failed"
    PROVE  Starts(g, Result(g, out, Finalize(g)), A)
<1> DEFINE r == [at |-> "keys", gen |-> g.generation, peer |-> g.peer,
                 session |-> Transcript(g), msg |-> <<>>]
<1>1. /\ r.at = "keys" /\ r.gen = g.generation
      /\ DOMAIN r = {"at", "gen", "peer", "session", "msg"}
  OBVIOUS
<1>2. Finalize(g) = <<r>>
  BY DEF Finalize
<1> HIDE DEF r
<1>3. RunType(r)
  BY <1>1 DEF RunType, Controller
<1>4. Calm(g, A) => RunOK(g, r, A)
  BY <1>1 DEF RunOK, Controller
<1> QED
  BY <1>1, <1>2, <1>3, <1>4 DEF Starts, Result

\* Fields that no invariant reads.
LEMMA AsideKept ==
    ASSUME NEW A, NEW g, NEW h, Controller(g, A), DOMAIN h = Fields, SameRoom(g, h),
           SameHandshake(g, h), SamePage(g, h), SameMedia(g, h),
           h.generation = g.generation, h.state = g.state, h.mediaKey = h.secret
    PROVE  Kept(g, h, A) /\ (Calm(h, A) => Calm(g, A))
<1>1. Controller(h, A)
  <2>1. Flags(h)
    BY DEF Controller, Flags, SameRoom, SameHandshake, SamePage, SameMedia
  <2> QED
    BY <2>1 DEF Controller, SameRoom, SameHandshake, SamePage, SameMedia
<1>2. (Closed(g) => Closed(h)) /\ (Strict(g) => Strict(h))
  BY DEF Strict, Closed, SameRoom, SameMedia, SamePage
<1>3. Calm(g, A) <=> Calm(h, A)
  BY DEF Calm, Optional, SameRoom, SameHandshake, SamePage, SameMedia
<1>4. ASSUME NEW r, RunOK(g, r, A)
      PROVE  RunOK(h, r, A)
  BY <1>4 DEF RunOK, SameHandshake, SameMedia
<1>5. g.generation <= h.generation
  BY DEF Controller
<1> QED
  BY <1>1, <1>2, <1>3, <1>4, <1>5 DEF Kept, SamePage, SameRoom

\* Storing the peer's public key leaves the rest alone.
LEMMA PeerPubKept ==
    ASSUME NEW A, NEW g, NEW k, NEW h, Controller(g, A), h = [g EXCEPT !.peerPub = k]
    PROVE  /\ Kept(g, h, A) /\ SameRoom(g, h) /\ SameHandshake(g, h)
           /\ h.state = g.state /\ h.supported = g.supported
           /\ Calm(h, A) => Calm(g, A)
<1>1. /\ DOMAIN h = Fields /\ SameRoom(g, h) /\ SameHandshake(g, h) /\ SamePage(g, h)
      /\ SameKeys(g, h) /\ SameMedia(g, h) /\ h.state = g.state /\ h.mediaKey = h.secret
      /\ h.generation = g.generation
  BY DEF Controller, Fields, SameRoom, SameHandshake, SamePage, SameKeys, SameMedia
<1>2. Kept(g, h, A) /\ (Calm(h, A) => Calm(g, A))
  BY <1>1, AsideKept
<1> QED
  BY <1>1, <1>2 DEF SamePage

\* Storing the peer's commitment needs our key pair and a peer that can
\* encrypt.
LEMMA PeerCommitKept ==
    ASSUME NEW A, NEW g, NEW k, Controller(g, A), g.key # NoKey,
           Calm(g, A) => g.peer \in A
    PROVE  LET h == [g EXCEPT !.peerCommit = k]
           IN  Kept(g, h, A) /\ SameRoom(g, h) /\ h.peer = g.peer
<1> DEFINE h == [g EXCEPT !.peerCommit = k]
<1>1. /\ DOMAIN h = Fields /\ SameRoom(g, h) /\ SamePage(g, h)
      /\ h.peer = g.peer /\ h.starting = g.starting /\ h.key = g.key
      /\ SameKeys(g, h) /\ SameMedia(g, h) /\ h.state = g.state
  BY DEF Controller, Fields, SameRoom, SamePage, SameKeys, SameMedia
<1> HIDE DEF h
<1>2. Controller(h, A)
  <2>1. Flags(h)
    BY <1>1 DEF Controller, Flags, SameRoom, SamePage, SameMedia
  <2> QED
    BY <1>1, <2>1 DEF Controller, SameRoom, SamePage, SameKeys, SameMedia
<1>3. (Closed(g) => Closed(h)) /\ (Strict(g) => Strict(h))
  BY <1>1 DEF Strict, Closed, SameRoom, SameMedia, SamePage
<1>4. Calm(g, A) => Calm(h, A)
  BY <1>1 DEF Calm, Optional, SameRoom, SamePage, SameKeys, SameMedia
<1>5. ASSUME NEW r, RunOK(g, r, A)
      PROVE  RunOK(h, r, A)
  BY <1>1, <1>5 DEF RunOK, SameKeys, SameMedia
<1>6. g.generation <= h.generation
  BY <1>1 DEF Controller, SameKeys
<1>7. Kept(g, h, A)
  BY <1>1, <1>2, <1>3, <1>4, <1>5, <1>6 DEF Kept, SamePage, SameRoom
<1> QED
  BY <1>1, <1>7 DEF h

\* What a handler of the handshake leaves, and that it keeps the peer.
Sound(g, res, A) == Outcome(g, res, A) /\ (Settled(g) => Settled(res.g))

\* A message that is ignored.
LEMMA NothingSound ==
    ASSUME NEW A, NEW g, Controller(g, A) PROVE Sound(g, Just(g), A)
  BY KeptAll, Nothing DEF Sound

\* A handshake that fails.
LEMMA FailSound ==
    ASSUME NEW A, NEW g, Controller(g, A), g.supported PROVE Sound(g, Just(Fail(g)), A)
  BY FailKept, Nothing DEF Sound

\* handleHello().
LEMMA HandleHelloSound ==
    ASSUME NEW A, NEW g, Controller(g, A), g.supported
    PROVE  Sound(g, HandleHello(g), A)
<1>1. CASE Initiator(g)
  BY <1>1, NothingSound DEF HandleHello
<1>2. CASE ~Initiator(g)
  <2>1. "commit" \in Types /\ "commit" # "nocrypto"
    BY DEF Types, Handshake
  <2>2. Sends(g, Say(g, Message(g, "commit", g.key)), A)
    BY <2>1, SaySends
  <2> QED
    BY <1>2, <2>2, KeptAll, ResultOutcome DEF HandleHello, Sound
<1> QED
  BY <1>1, <1>2

\* handleCommit().
LEMMA HandleCommitSound ==
    ASSUME NEW A, NEW g, NEW k, Controller(g, A), g.supported, g.key # NoKey,
           Calm(g, A) => g.peer \in A
    PROVE  Sound(g, HandleCommit(g, k), A)
<1>1. CASE ~Initiator(g)
  BY <1>1, NothingSound DEF HandleCommit
<1>2. CASE Initiator(g) /\ g.peerCommit # NoKey
  <2>1. HandleCommit(g, k) = Just(g) \/ HandleCommit(g, k) = Just(Fail(g))
    BY <1>2 DEF HandleCommit
  <2> QED
    BY <2>1, NothingSound, FailSound
<1>3. CASE Initiator(g) /\ g.peerCommit = NoKey
  <2> DEFINE h == [g EXCEPT !.peerCommit = k]
             out == Say(g, Message(g, "dh", g.key))
  <2>1. HandleCommit(g, k) = Result(h, out, <<>>)
    BY <1>3 DEF HandleCommit
  <2>2. Kept(g, h, A) /\ SameRoom(g, h) /\ h.peer = g.peer
    BY PeerCommitKept
  <2>3. "dh" \in Types /\ "dh" # "nocrypto"
    BY DEF Types, Handshake
  <2>4. Sends(g, out, A)
    BY <2>3, SaySends
  <2> HIDE DEF h, out
  <2>5. Outcome(g, Result(h, out, <<>>), A) /\ Result(h, out, <<>>).g = h
    BY <2>2, <2>4, ResultOutcome
  <2> QED
    BY <2>1, <2>2, <2>5 DEF Sound, Settled, SameRoom
<1> QED
  BY <1>1, <1>2, <1>3

\* handleDh().
LEMMA HandleDhSound ==
    ASSUME NEW A, NEW g, NEW k, Controller(g, A), g.supported, g.key # NoKey,
           Calm(g, A) => g.peer \in A, g.state # "failed"
    PROVE  Sound(g, HandleDh(g, k), A)
<1>1. CASE g.peerPub # NoKey
  <2>1. HandleDh(g, k) = Just(g) \/ HandleDh(g, k) = Just(Fail(g))
    BY <1>1 DEF HandleDh
  <2> QED
    BY <2>1, NothingSound, FailSound
<1>2. CASE g.peerPub = NoKey /\ ~Initiator(g)
  <2> DEFINE h == [g EXCEPT !.peerPub = k]
             out == Say(h, Message(h, "dh", h.key))
             res == Result(h, out, Finalize(h))
  <2>1. HandleDh(g, k) = res
    BY <1>2 DEF HandleDh
  <2>2. /\ Kept(g, h, A) /\ SameRoom(g, h) /\ SameHandshake(g, h)
        /\ h.state = g.state /\ h.supported = g.supported
        /\ Calm(h, A) => Calm(g, A)
    BY PeerPubKept
  <2> HIDE DEF h
  <2>3. Controller(h, A) /\ h.supported /\ h.key # NoKey /\ h.state # "failed"
        /\ (Calm(h, A) => h.peer \in A)
    BY <2>2 DEF Kept, SameHandshake
  <2>4. "dh" \in Types /\ "dh" # "nocrypto"
    BY DEF Types, Handshake
  <2>5. Sends(h, out, A)
    BY <2>3, <2>4, SaySends
  <2>6. Starts(h, res, A)
    BY <2>3, FinalizeStarts
  <2>7. Outcome(h, res, A)
    BY <2>3, <2>5, <2>6, KeptAll DEF Outcome, Result
  <2>8. Outcome(g, res, A)
    BY <2>2, <2>7, OutcomeAfter
  <2>9. res.g = h
    BY DEF Result
  <2> QED
    BY <2>1, <2>2, <2>8, <2>9 DEF Sound, Settled, SameRoom, SameHandshake
<1>3. CASE g.peerPub = NoKey /\ Initiator(g) /\ g.peerCommit = NoKey
  BY <1>3, NothingSound DEF HandleDh
<1>4. CASE g.peerPub = NoKey /\ Initiator(g) /\ g.peerCommit # NoKey
  <2> DEFINE r == [at |-> "hash", gen |-> g.generation, peer |-> g.peer,
                   session |-> k, msg |-> <<>>]
             res == Result(g, <<>>, <<r>>)
  <2>1. HandleDh(g, k) = res
    BY <1>4 DEF HandleDh, Hash
  <2>2. r.at = "hash" /\ r.gen = g.generation /\ DOMAIN r = {"at", "gen", "peer", "session", "msg"}
    OBVIOUS
  <2> HIDE DEF r
  <2>3. RunType(r) /\ RunOK(g, r, A)
    BY <2>2 DEF RunType, RunOK, Controller
  <2>4. Starts(g, res, A)
    BY <2>2, <2>3 DEF Starts, Result
  <2> QED
    BY <2>1, <2>4, KeptAll, SaysNothing DEF Sound, Outcome, Result
<1> QED
  BY <1>1, <1>2, <1>3, <1>4

\* A message of the handshake, from a peer that can encrypt.
LEMMA HandleSound ==
    ASSUME NEW A, NEW g, NEW m, Controller(g, A), g.supported, m.type \in Handshake,
           Calm(g, A) /\ g.key # NoKey => g.peer \in A
    PROVE  Sound(g, Handle(g, m), A)
<1>1. CASE g.state \in {"established", "failed"} \/ g.key = NoKey
  BY <1>1, NothingSound DEF Handle
<1>2. CASE ~(g.state \in {"established", "failed"} \/ g.key = NoKey) /\ m.v # g.version
  BY <1>2, FailSound DEF Handle
<1>3. CASE ~(g.state \in {"established", "failed"} \/ g.key = NoKey) /\ m.v = g.version
  <2>1. CASE m.type = "hello"
    BY <1>3, <2>1, HandleHelloSound DEF Handle
  <2>2. CASE m.type = "commit"
    BY <1>3, <2>2, HandleCommitSound DEF Handle
  <2>3. CASE m.type = "dh"
    BY <1>3, <2>3, HandleDhSound DEF Handle
  <2> QED
    BY <2>1, <2>2, <2>3 DEF Handshake
<1> QED
  BY <1>1, <1>2, <1>3

-----------------------------------------------------------------------------

\* Nothing of a handshake with a peer that can encrypt is under way.
Silent(g, A) ==
    g.supported => ~(g.key # NoKey \/ g.starting) \/ g.peer \notin A

\* A new state, for a controller of which nothing else changes but whether
\* the worker forwards.
LEMMA NewStateKept ==
    ASSUME NEW A, NEW g, NEW w, NEW s \in States, Controller(g, A),
           DOMAIN w = Fields, SameRoom(g, w), SameHandshake(g, w), SameKeys(g, w),
           SamePage(g, w), w.tracks = g.tracks, w.cleartext \in BOOLEAN,
           w.cleartext => ~g.require /\ (g.wasEncrypted => g.clearAgreed),
           s \notin {"failed", "established"},
           g.require /\ ~g.supported => s = "blocked",
           Calm(g, A) => Silent(g, A) \/ (s = "handshaking" /\ w.cleartext = g.cleartext)
    PROVE  LET h == SetState(w, s)
           IN  /\ Kept(g, h, A) /\ (Closed(g) => Strict(h))
               /\ SameRoom(g, h) /\ SameHandshake(g, h) /\ SameKeys(g, h)
               /\ h.state = s
<1> DEFINE h == SetState(w, s)
<1> HIDE DEF h
<1>1. w.everEncrypted \in BOOLEAN
  BY DEF Controller, Flags, SamePage
<1>2. /\ DOMAIN h = Fields /\ h.state = s /\ h.cleartext = w.cleartext
      /\ h.id = w.id /\ h.supported = w.supported
      /\ SameRoom(w, h) /\ SameHandshake(w, h) /\ SameKeys(w, h)
      /\ h.tracks = w.tracks \/ h.tracks = "none"
      /\ h.everEncrypted = w.everEncrypted
  BY <1>1, SetStateFields DEF h
<1>3. /\ SameRoom(g, h) /\ SameHandshake(g, h) /\ SameKeys(g, h) /\ SamePage(g, h)
  BY <1>2 DEF SameRoom, SameHandshake, SameKeys, SamePage
<1>4. h.tracks = g.tracks \/ h.tracks = "none"
  BY <1>2
<1>5. Controller(h, A)
  <2>1. Flags(h)
    BY <1>2, <1>3 DEF Controller, Flags, SameRoom, SameHandshake, SamePage
  <2>2. h.tracks \in {"none", "sealed", "bare"} /\ h.state \in States
    BY <1>2, <1>4 DEF Controller
  <2> QED
    BY <1>2, <1>3, <2>1, <2>2 DEF Controller, SameRoom, SameHandshake, SamePage, SameKeys
<1>6. (Closed(g) => Closed(h) /\ Strict(h)) /\ (Strict(g) => Strict(h))
  BY <1>2, <1>3, <1>4 DEF Strict, Closed, SameRoom, SamePage, Controller, Flags
<1>7. Calm(g, A) => Calm(h, A)
  <2>1. h.cleartext => ~h.require /\ (h.wasEncrypted => h.clearAgreed)
    BY <1>2, <1>3 DEF SameRoom
  <2>2. Calm(g, A) => (h.supported /\ (h.key # NoKey \/ h.starting) /\ h.peer \in A
                          => h.state = "handshaking")
    BY <1>2, <1>3 DEF Silent, SameHandshake, SamePage
  <2> QED
    BY <1>2, <1>3, <1>4, <2>1, <2>2 DEF Calm, Optional, SameRoom, SameHandshake, SamePage
<1>8. ASSUME NEW r, Calm(g, A), g.supported, RunOK(g, r, A)
      PROVE  RunOK(h, r, A)
  <2>1. CASE r.at \in {"keys", "sas"} /\ r.gen = g.generation
    <3>1. g.key # NoKey /\ g.peer \in A /\ (r.at = "sas" => ~g.cleartext)
      BY <1>8, <2>1 DEF RunOK
    <3>2. s = "handshaking" /\ w.cleartext = g.cleartext
      BY <1>8, <3>1 DEF Silent
    <3> QED
      BY <1>2, <1>3, <1>8, <3>1, <3>2 DEF RunOK, SameHandshake, SameKeys
  <2>2. CASE ~(r.at \in {"keys", "sas"} /\ r.gen = g.generation)
    BY <1>3, <1>8, <2>2 DEF RunOK, SameHandshake, SameKeys
  <2> QED
    BY <2>1, <2>2
<1>9. g.generation <= h.generation
  BY <1>3 DEF Controller, SameKeys
<1>10. Kept(g, h, A)
  BY <1>3, <1>5, <1>6, <1>7, <1>8, <1>9 DEF Kept, SamePage, SameRoom
<1> QED
  BY <1>2, <1>3, <1>6, <1>10 DEF h

\* The worker forwards only for a page that has one.
LEMMA SetWorkerModeFields ==
    ASSUME NEW g, NEW c \in BOOLEAN, NEW w, DOMAIN g = Fields, g.supported \in BOOLEAN,
           w = SetWorkerMode(g, c)
    PROVE  /\ DOMAIN w = Fields /\ SameRoom(g, w) /\ SameHandshake(g, w)
           /\ SameKeys(g, w) /\ SamePage(g, w) /\ w.tracks = g.tracks /\ w.state = g.state
           /\ w.cleartext \in BOOLEAN /\ (w.cleartext <=> g.supported /\ c)
  BY DEF SetWorkerMode, Fields, SameRoom, SameHandshake, SameKeys, SamePage

\* downgrade(): media goes out in clear only where that is allowed.  The state
\* may not change under a handshake that is under way (Silent).
LEMMA DowngradeKept ==
    ASSUME NEW A, NEW g, Controller(g, A), Calm(g, A) => Silent(g, A)
    PROVE  /\ Kept(g, Downgrade(g), A) /\ (Closed(g) => Strict(Downgrade(g)))
           /\ SameRoom(g, Downgrade(g)) /\ SameHandshake(g, Downgrade(g))
           /\ SameKeys(g, Downgrade(g))
<1>1. CASE g.require \/ (g.wasEncrypted /\ ~g.clearAgreed)
  <2> DEFINE w == SetWorkerMode(g, FALSE)
  <2>1. /\ DOMAIN w = Fields /\ SameRoom(g, w) /\ SameHandshake(g, w)
        /\ SameKeys(g, w) /\ SamePage(g, w) /\ w.tracks = g.tracks
        /\ w.cleartext \in BOOLEAN /\ ~w.cleartext
    BY SetWorkerModeFields DEF Controller, Flags
  <2> HIDE DEF w
  <2>2. "blocked" \in States /\ "blocked" \notin {"failed", "established"}
    BY DEF States
  <2>3. Downgrade(g) = SetState(w, "blocked")
    BY <1>1 DEF Downgrade, w
  <2> QED
    BY <2>1, <2>2, <2>3, NewStateKept
<1>2. CASE ~(g.require \/ (g.wasEncrypted /\ ~g.clearAgreed))
  <2> DEFINE w == SetWorkerMode(g, TRUE)
  <2>1. /\ DOMAIN w = Fields /\ SameRoom(g, w) /\ SameHandshake(g, w)
        /\ SameKeys(g, w) /\ SamePage(g, w) /\ w.tracks = g.tracks
        /\ w.cleartext \in BOOLEAN
    BY SetWorkerModeFields DEF Controller, Flags
  <2> HIDE DEF w
  <2>2. "unencrypted" \in States /\ "unencrypted" \notin {"failed", "established"}
    BY DEF States
  <2>3. Downgrade(g) = SetState(w, "unencrypted")
    BY <1>2 DEF Downgrade, w
  <2>4. ~g.require /\ (g.wasEncrypted => g.clearAgreed)
    BY <1>2
  <2> QED
    BY <2>1, <2>2, <2>3, <2>4, NewStateKept
<1> QED
  BY <1>1, <1>2

\* A page that cannot encrypt says so, and downgrades.
LEMMA SayCannotSound ==
    ASSUME NEW A, NEW g, Controller(g, A), Calm(g, A) => ~g.supported
    PROVE  /\ Sound(g, SayCannot(g), A) /\ SameHandshake(g, SayCannot(g).g)
           /\ SameRoom(g, SayCannot(g).g) /\ (Closed(g) => Strict(SayCannot(g).g))
<1>1. Calm(g, A) => Silent(g, A)
  BY DEF Silent
<1>2. /\ Kept(g, Downgrade(g), A) /\ (Closed(g) => Strict(Downgrade(g)))
      /\ SameRoom(g, Downgrade(g)) /\ SameHandshake(g, Downgrade(g))
  BY <1>1, DowngradeKept
<1>3. "nocrypto" \in Types /\ "nocrypto" \notin Handshake
  BY DEF Types, Handshake
<1>4. Sends(g, Nocrypto(g), A)
  BY <1>3, SaySends DEF Nocrypto
<1>5. SayCannot(g).g = Downgrade(g)
  BY DEF SayCannot, Result
<1> QED
  BY <1>2, <1>4, <1>5, ResultOutcome DEF SayCannot, Sound, Settled, SameRoom, SameHandshake

\* The participant we say something to becomes the peer.
LEMMA PeerKept ==
    ASSUME NEW A, NEW g, NEW q \in Ids, NEW h, Controller(g, A), A \subseteq Ids,
           h = [g EXCEPT !.peer = q],
           Calm(g, A) /\ g.supported => q \notin A /\ g.peer \in {None, q}
    PROVE  /\ Kept(g, h, A) /\ SameRoom(g, h) /\ h.peer = q /\ h.supported = g.supported
<1>1. /\ DOMAIN h = Fields /\ SameRoom(g, h) /\ SamePage(g, h) /\ SameKeys(g, h)
      /\ SameMedia(g, h) /\ h.state = g.state /\ h.peer = q
      /\ h.starting = g.starting /\ h.key = g.key /\ h.peerCommit = g.peerCommit
  BY DEF Controller, Fields, SameRoom, SamePage, SameKeys, SameMedia
<1>2. Controller(h, A)
  <2>1. Flags(h)
    BY <1>1 DEF Controller, Flags, SameRoom, SamePage, SameMedia
  <2> QED
    BY <1>1, <2>1 DEF Controller, SameRoom, SamePage, SameKeys, SameMedia
<1>3. (Closed(g) => Closed(h)) /\ (Strict(g) => Strict(h))
  BY <1>1 DEF Strict, Closed, SameRoom, SameMedia, SamePage
<1>4. Calm(g, A) => Calm(h, A)
  BY <1>1, Numbers DEF Calm, Optional, SameRoom, SamePage, SameMedia
<1>6. ASSUME NEW r, Calm(g, A), g.supported, RunType(r), RunOK(g, r, A)
      PROVE  RunOK(h, r, A)
  <2>1. CASE g.peer = q
    BY <1>1, <1>6, <2>1 DEF RunOK, SameKeys, SameMedia
  <2>2. CASE g.peer = None
    BY <1>1, <1>6, <2>2, Numbers DEF RunOK, SameKeys, SameMedia
  <2> QED
    BY <1>6, <2>1, <2>2
<1>7. g.generation <= h.generation
  BY <1>1 DEF Controller, SameKeys
<1>8. Kept(g, h, A)
  BY <1>1, <1>2, <1>3, <1>4, <1>6, <1>7 DEF Kept, SamePage, SameRoom
<1> QED
  BY <1>1, <1>8 DEF SamePage

\* A handshake with q, and with the message that caused it, if one did.
LEMMA StartWithSound ==
    ASSUME NEW A, NEW g, NEW q \in Ids, NEW msg, Controller(g, A), A \subseteq Ids,
           g.supported, g.users = {q},
           msg # <<>> => msg[1].type \in Handshake /\ msg[1].from = q,
           msg # <<>> /\ Calm(g, A) => q \in A
    PROVE  LET res == StartWith(g, q, msg)
           IN  Outcome(g, res, A) /\ Settled(res.g) /\ (Closed(g) => Strict(res.g))
<1>1. CASE g.peer = q /\ (g.key # NoKey \/ g.starting)
  <2>1. Settled(g)
    BY <1>1 DEF Settled
  <2>2. Sound(g, StartWith(g, q, msg), A)
    <3>1. CASE msg = <<>>
      BY <1>1, <3>1, NothingSound DEF StartWith
    <3>2. CASE msg # <<>>
      BY <1>1, <3>2, HandleSound DEF StartWith
    <3> QED
      BY <3>1, <3>2
  <2>3. Closed(g) => Strict(g)
    BY DEF Strict
  <2> QED
    BY <2>1, <2>2, <2>3 DEF Sound, Outcome, Kept
<1>2. CASE ~(g.peer = q /\ (g.key # NoKey \/ g.starting))
  <2> DEFINE r0 == ResetPeer(g)
             w == [r0 EXCEPT !.peer = q, !.starting = TRUE]
             h == SetState(w, "handshaking")
             r == [at |-> "start", gen |-> h.generation, peer |-> q,
                   session |-> NoSession, msg |-> msg]
             res == Result(h, <<>>, <<r>>)
  <2>1. StartWith(g, q, msg) = res
    BY <1>2 DEF StartWith
  <2>2. r.at = "start" /\ r.gen = h.generation /\ r.peer = q /\ r.msg = msg
        /\ DOMAIN r = {"at", "gen", "peer", "session", "msg"}
    OBVIOUS
  <2>3. res.g = h /\ res.out = <<>> /\ res.runs = <<r>>
    BY DEF Result
  <2> HIDE DEF r0, h, r, res
  <2>4. /\ DOMAIN r0 = Fields /\ r0.state = g.state /\ r0.tracks = g.tracks
        /\ SamePage(g, r0) /\ SameRoom(g, r0)
        /\ r0.generation = g.generation + 1 /\ r0.cleartext = FALSE
        /\ r0.secret = NoSession /\ r0.mediaKey = NoSession
        /\ r0.peer = None /\ r0.starting = FALSE /\ r0.key = NoKey
        /\ r0.peerCommit = NoKey
    BY ResetPeerFields DEF r0, Controller
  <2>5. /\ DOMAIN w = Fields /\ w.tracks = g.tracks
        /\ SamePage(g, w) /\ SameRoom(g, w)
        /\ w.generation = g.generation + 1 /\ w.cleartext = FALSE
        /\ w.secret = NoSession /\ w.mediaKey = NoSession
        /\ w.peer = q /\ w.starting = TRUE /\ w.key = NoKey
        /\ w.peerCommit = NoKey
    BY <2>4 DEF Fields, SamePage, SameRoom
  <2>6. w.everEncrypted \in BOOLEAN /\ "handshaking" \in States
        /\ "handshaking" # "established"
    BY <2>5 DEF Controller, Flags, SamePage, States
  <2> HIDE DEF w
  <2>7. /\ DOMAIN h = Fields /\ h.state = "handshaking" /\ h.cleartext = w.cleartext
        /\ h.id = w.id /\ h.supported = w.supported
        /\ SameRoom(w, h) /\ SameHandshake(w, h) /\ SameKeys(w, h)
        /\ h.tracks = w.tracks \/ h.tracks = "none"
        /\ h.everEncrypted = w.everEncrypted
    BY <2>5, <2>6, SetStateFields DEF h
  <2>8. /\ SameRoom(g, h) /\ SamePage(g, h)
        /\ h.generation = g.generation + 1 /\ h.cleartext = FALSE
        /\ h.secret = NoSession /\ h.mediaKey = NoSession
        /\ h.peer = q /\ h.starting = TRUE /\ h.key = NoKey
        /\ h.peerCommit = NoKey
        /\ h.tracks = g.tracks \/ h.tracks = "none"
    BY <2>5, <2>7 DEF SameRoom, SamePage, SameHandshake, SameKeys
  <2>9. Controller(h, A)
    <3>1. Flags(h)
      BY <2>8 DEF Controller, Flags, SameRoom, SamePage
    <3>2. h.generation \in Nat /\ h.state \in States /\ h.tracks \in {"none", "sealed", "bare"}
      BY <2>6, <2>7, <2>8 DEF Controller
    <3> QED
      BY <2>7, <2>8, <3>1, <3>2 DEF Controller, SameRoom, SamePage
  <2>10. (Closed(g) => Closed(h) /\ Strict(h)) /\ (Strict(g) => Strict(h))
    BY <2>8 DEF Strict, Closed, SameRoom, SamePage
  <2>11. Calm(g, A) => Calm(h, A)
    BY <2>7, <2>8 DEF Calm, Optional, SameRoom, SamePage
  <2>12. ASSUME NEW x, RunType(x), RunOK(g, x, A)
         PROVE  RunOK(h, x, A)
    <3>1. x.gen <= h.generation /\ x.gen # h.generation
      BY <2>8, <2>12 DEF RunOK, Controller, RunType
    <3> QED
      BY <2>8, <2>12, <3>1 DEF RunOK
  <2>13. g.generation < h.generation /\ g.generation <= h.generation
    BY <2>8 DEF Controller
  <2>14. Kept(g, h, A)
    BY <2>8, <2>9, <2>10, <2>11, <2>12, <2>13 DEF Kept, SameRoom, SamePage
  <2>15. RunType(r)
    BY <2>2, <2>9 DEF RunType, Controller
  <2>16. Calm(g, A) => RunOK(h, r, A)
    BY <2>2, <2>8, <2>9 DEF RunOK, Controller
  <2>17. Starts(g, res, A)
    BY <2>2, <2>3, <2>13, <2>15, <2>16 DEF Starts
  <2>18. Outcome(g, res, A)
    BY <2>3, <2>14, <2>17, SaysNothing DEF Outcome
  <2>19. Settled(h)
    BY <2>8 DEF Settled, SameRoom
  <2> QED
    BY <2>1, <2>3, <2>10, <2>18, <2>19
<1> QED
  BY <1>1, <1>2

\* Nobody is left: the page waits.
LEMMA IdleKept ==
    ASSUME NEW A, NEW g, Controller(g, A), A \subseteq Ids,
           g.require => CanEncrypt(g)
    PROVE  LET h == SetState(ResetPeer(g), "idle")
           IN  Kept(g, h, A) /\ Settled(h) /\ (Closed(g) => Strict(h))
<1> DEFINE r0 == ResetPeer(g)
<1>1. Kept(g, r0, A) /\ r0.peer = None /\ r0.key = NoKey /\ r0.starting = FALSE
      /\ r0.cleartext = FALSE /\ SameRoom(g, r0) /\ r0.supported = g.supported
  BY ResetPeerKept, ResetPeerFields DEF Controller, SamePage
<1> HIDE DEF r0
<1>2. Controller(r0, A)
  BY <1>1 DEF Kept
<1>3. /\ DOMAIN r0 = Fields /\ SameRoom(r0, r0) /\ SameHandshake(r0, r0) /\ SameKeys(r0, r0)
      /\ SamePage(r0, r0)
  BY <1>2 DEF Controller, SameRoom, SameHandshake, SameKeys, SamePage
<1>4. "idle" \in States /\ "idle" \notin {"failed", "established"}
  BY DEF States
<1>5. r0.require => r0.supported
  BY <1>1 DEF CanEncrypt, SameRoom
<1>6. Calm(r0, A) => Silent(r0, A)
  BY <1>1 DEF Silent
<1> DEFINE h == SetState(r0, "idle")
<1>7. /\ Kept(r0, h, A) /\ (Closed(r0) => Strict(h)) /\ SameHandshake(r0, h)
  BY <1>1, <1>2, <1>3, <1>4, <1>5, <1>6, NewStateKept
<1> HIDE DEF h
<1>8. Kept(g, h, A)
  BY <1>1, <1>7, KeptTwice
<1>9. Settled(h)
  BY <1>1, <1>7 DEF Settled, SameHandshake
<1>10. Closed(g) => Strict(h)
  BY <1>1, <1>7 DEF Kept
<1> QED
  BY <1>8, <1>9, <1>10 DEF h, r0

\* With no peer there is no handshake to change the state under.
LEMMA DowngradeAfterReset ==
    ASSUME NEW A, NEW g, Controller(g, A), A \subseteq Ids
    PROVE  LET h == Downgrade(ResetPeer(g))
           IN  Kept(g, h, A) /\ Settled(h) /\ (Closed(g) => Strict(h))
<1> DEFINE r0 == ResetPeer(g)
<1>1. Kept(g, r0, A) /\ r0.peer = None /\ r0.key = NoKey /\ r0.starting = FALSE
  BY ResetPeerKept, ResetPeerFields DEF Controller
<1> HIDE DEF r0
<1>2. Controller(r0, A) /\ (Closed(g) => Closed(r0))
  BY <1>1 DEF Kept
<1>3. Calm(r0, A) => Silent(r0, A)
  BY <1>1 DEF Silent
<1>4. /\ Kept(r0, Downgrade(r0), A) /\ (Closed(r0) => Strict(Downgrade(r0)))
      /\ SameHandshake(r0, Downgrade(r0))
  BY <1>2, <1>3, DowngradeKept
<1>5. Kept(g, Downgrade(r0), A)
  BY <1>1, <1>4, KeptTwice
<1>6. Settled(Downgrade(r0))
  BY <1>1, <1>4 DEF Settled, SameHandshake
<1> QED
  BY <1>2, <1>4, <1>5, <1>6 DEF r0

\* A room of one other participant and ourselves.
LEMMA OneUser ==
    ASSUME NEW S, IsFiniteSet(S), S # {}, ~(Cardinality(S) > 1)
    PROVE  S = {CHOOSE u \in S : TRUE}
<1>1. Cardinality(S) \in Nat /\ Cardinality(S) # 0
  BY FS_CardinalityType, FS_EmptySet
<1>2. Cardinality(S) = 1
  BY <1>1
<1>3. PICK x : S = {x}
  BY <1>2, FS_Singleton
<1>4. (CHOOSE u \in S : TRUE) = x
  BY <1>3
<1> QED
  BY <1>3, <1>4

\* recompute(): whoever is in the room, the policy holds afterwards.
LEMMA RecomputeSound ==
    ASSUME NEW A, NEW g, Controller(g, A), A \subseteq Ids
    PROVE  LET res == Recompute(g)
           IN  Outcome(g, res, A) /\ Settled(res.g) /\ (Closed(g) => Strict(res.g))
<1>1. CASE g.users = {}
  <2>1. CASE g.require /\ ~CanEncrypt(g)
    <3>1. Recompute(g) = Just(Downgrade(ResetPeer(g)))
      BY <1>1, <2>1 DEF Recompute
    <3> QED
      BY <3>1, DowngradeAfterReset, Nothing
  <2>2. CASE ~(g.require /\ ~CanEncrypt(g))
    <3>1. Recompute(g) = Just(SetState(ResetPeer(g), "idle"))
      BY <1>1, <2>2 DEF Recompute
    <3> QED
      BY <2>2, <3>1, IdleKept, Nothing
  <2> QED
    BY <2>1, <2>2
<1>2. CASE g.users # {} /\ Cardinality(g.users) > 1
  <2>1. Recompute(g) = Just(Downgrade(ResetPeer(g)))
    BY <1>2 DEF Recompute
  <2> QED
    BY <2>1, DowngradeAfterReset, Nothing
<1>3. CASE g.users # {} /\ ~(Cardinality(g.users) > 1)
  <2> DEFINE q == CHOOSE u \in g.users : TRUE
             h == [g EXCEPT !.peer = q]
  <2>1. g.users = {q}
    BY <1>3, OneUser DEF Controller
  <2> HIDE DEF q
  <2>2. q \in Ids
    BY <2>1 DEF Controller
  <2>3. CASE CanEncrypt(g)
    <3>1. Recompute(g) = StartWith(g, q, <<>>)
      BY <1>3, <2>3 DEF Recompute, q
    <3> QED
      BY <2>1, <2>2, <2>3, <3>1, StartWithSound DEF CanEncrypt
  <2>4. CASE ~CanEncrypt(g)
    <3>1. Recompute(g) = SayCannot(h)
      BY <1>3, <2>4 DEF Recompute, q
    <3>2. Calm(g, A) => ~g.supported
      BY <2>4 DEF CanEncrypt, Calm, Optional
    <3>3. Kept(g, h, A) /\ SameRoom(g, h) /\ h.peer = q /\ h.supported = g.supported
      <4>1. Calm(g, A) /\ g.supported => q \notin A /\ g.peer \in {None, q}
        BY <3>2
      <4>2. PICK k : k = [g EXCEPT !.peer = q]
        OBVIOUS
      <4>3. Kept(g, k, A)
        BY <2>2, <4>1, <4>2, PeerKept
      <4>4. SameRoom(g, k) /\ k.peer = q /\ k.supported = g.supported
        BY <4>2 DEF Controller, Fields, SameRoom
      <4>5. h = k
        BY <4>2
      <4> QED
        BY <4>3, <4>4, <4>5
    <3> HIDE DEF h
    <3>4. Controller(h, A) /\ (Closed(g) => Closed(h))
      BY <3>3 DEF Kept
    <3>5. Calm(h, A) => ~h.supported
      BY <2>4, <3>3 DEF CanEncrypt, Calm, Optional, SameRoom
    <3>6. /\ Sound(h, SayCannot(h), A) /\ (Closed(h) => Strict(SayCannot(h).g))
      BY <3>4, <3>5, SayCannotSound
    <3>7. Settled(h)
      BY <2>1, <3>3 DEF Settled, SameRoom
    <3> QED
      BY <3>1, <3>3, <3>4, <3>6, <3>7, OutcomeAfter DEF Sound
  <2> QED
    BY <2>3, <2>4
<1> QED
  BY <1>1, <1>2, <1>3

\* Those in the room matter to nothing but the choice of a peer.
LEMMA UsersKept ==
    ASSUME NEW A, NEW g, NEW h, NEW U, NEW N, Controller(g, A), U \subseteq Ids, IsFiniteSet(U),
           h = [g EXCEPT !.users = U] \/ h = [g EXCEPT !.users = U, !.names = N]
    PROVE  Kept(g, h, A) /\ h.users = U /\ h.peer = g.peer
<1>1. /\ DOMAIN h = Fields /\ SameHandshake(g, h) /\ SamePage(g, h) /\ SameKeys(g, h)
      /\ SameMedia(g, h) /\ h.state = g.state /\ h.users = U
      /\ h.require = g.require /\ h.transformFailed = g.transformFailed
      /\ h.wasEncrypted = g.wasEncrypted /\ h.clearAgreed = g.clearAgreed
  <2>1. CASE h = [g EXCEPT !.users = U]
    BY <2>1 DEF Controller, Fields, SameHandshake, SamePage, SameKeys, SameMedia
  <2>2. CASE h = [g EXCEPT !.users = U, !.names = N]
    BY <2>2 DEF Controller, Fields, SameHandshake, SamePage, SameKeys, SameMedia
  <2> QED
    BY <2>1, <2>2
<1>2. Controller(h, A)
  <2>1. Flags(h)
    BY <1>1 DEF Controller, Flags, SameHandshake, SamePage, SameMedia
  <2> QED
    BY <1>1, <2>1 DEF Controller, SameHandshake, SamePage, SameKeys, SameMedia
<1>3. (Closed(g) => Closed(h)) /\ (Strict(g) => Strict(h))
  BY <1>1 DEF Strict, Closed, SameMedia, SamePage
<1>4. Calm(g, A) => Calm(h, A)
  BY <1>1 DEF Calm, Optional, SameHandshake, SamePage, SameMedia
<1>5. ASSUME NEW r, RunOK(g, r, A)
      PROVE  RunOK(h, r, A)
  BY <1>1, <1>5 DEF RunOK, SameHandshake, SameKeys, SameMedia
<1>6. g.generation <= h.generation
  BY <1>1 DEF Controller, SameKeys
<1>7. Kept(g, h, A)
  BY <1>1, <1>2, <1>3, <1>4, <1>5, <1>6 DEF Kept, SamePage
<1> QED
  BY <1>1, <1>7 DEF SameHandshake

\* addUser().
LEMMA AddUserSound ==
    ASSUME NEW A, NEW g, NEW u \in Ids, Controller(g, A), A \subseteq Ids
    PROVE  Sound(g, AddUser(g, u), A)
<1>1. PICK h : h = [g EXCEPT !.users = @ \cup {u}]
  OBVIOUS
<1>2. /\ g.users \cup {u} \subseteq Ids /\ IsFiniteSet(g.users \cup {u})
  BY FS_AddElement DEF Controller
<1>3. h = [g EXCEPT !.users = g.users \cup {u}]
  BY <1>1
<1>4. Kept(g, h, A)
  BY <1>2, <1>3, UsersKept
<1>5. Outcome(h, Recompute(h), A) /\ Settled(Recompute(h).g)
  BY <1>4, RecomputeSound DEF Kept
<1>6. AddUser(g, u) = Recompute(h)
  BY <1>1 DEF AddUser
<1> QED
  BY <1>4, <1>5, <1>6, OutcomeAfter DEF Sound

\* delUser().
LEMMA DelUserSound ==
    ASSUME NEW A, NEW g, NEW u, Controller(g, A), A \subseteq Ids
    PROVE  Sound(g, DelUser(g, u), A)
<1>1. PICK h : h = [g EXCEPT !.users = @ \ {u}, !.names = @ \ {u}]
  OBVIOUS
<1>2. /\ g.users \ {u} \subseteq Ids /\ IsFiniteSet(g.users \ {u})
  BY FS_RemoveElement DEF Controller
<1>3. h = [g EXCEPT !.users = g.users \ {u}, !.names = g.names \ {u}]
  BY <1>1
<1>4. Kept(g, h, A)
  BY <1>2, <1>3, UsersKept
<1>5. PICK k : k = IF u = g.peer THEN ResetPeer(h) ELSE h
  OBVIOUS
<1>6. Controller(h, A) /\ Kept(h, ResetPeer(h), A) /\ Kept(h, h, A)
  BY <1>4, ResetPeerKept, KeptAll DEF Kept
<1>7. Kept(g, k, A)
  BY <1>4, <1>5, <1>6, KeptTwice
<1>8. Outcome(k, Recompute(k), A) /\ Settled(Recompute(k).g)
  BY <1>7, RecomputeSound DEF Kept
<1>9. DelUser(g, u) = Recompute(k)
  BY <1>1, <1>5 DEF DelUser
<1> QED
  BY <1>7, <1>8, <1>9, OutcomeAfter DEF Sound

\* A message of the peer: it is so only of the one that is alone with us.
LEMMA OnMessageSound ==
    ASSUME NEW A, NEW g, NEW m, Controller(g, A), A \subseteq Ids, MsgOK(m),
           m.type \in Handshake \cup {"nocrypto"},
           Optional(g) => Honest(m, A) /\ Settled(g)
    PROVE  Sound(g, OnMessage(g, m), A)
<1> DEFINE q == m.from
<1>1. q \in Ids
  BY DEF MsgOK
<1> HIDE DEF q
<1>2. PICK h : h = [g EXCEPT !.peer = q]
  OBVIOUS
<1>3. CASE g.users # {q}
  BY <1>3, NothingSound DEF OnMessage, q
<1>4. CASE g.users = {q} /\ ~g.supported
  <2>1. OnMessage(g, m) = SayCannot(h)
    BY <1>2, <1>4 DEF OnMessage, q
  <2>2. Kept(g, h, A) /\ SameRoom(g, h) /\ h.peer = q /\ h.supported = g.supported
    <3>1. Calm(g, A) /\ g.supported => q \notin A /\ g.peer \in {None, q}
      BY <1>4
    <3> QED
      BY <1>1, <1>2, <3>1, PeerKept
  <2>3. Sound(h, SayCannot(h), A)
    BY <1>4, <2>2, SayCannotSound DEF Kept
  <2>4. Settled(h)
    BY <1>4, <2>2 DEF Settled, SameRoom
  <2> QED
    BY <2>1, <2>2, <2>3, <2>4, OutcomeAfter DEF Sound
<1>5. CASE g.users = {q} /\ g.supported /\ m.type = "nocrypto"
  <2>1. OnMessage(g, m) = Just(Downgrade(h))
    BY <1>2, <1>5 DEF OnMessage, q
  <2>2. Optional(g) => q \notin A /\ g.peer \in {None, q}
    BY <1>5 DEF Honest, Settled, q
  <2>3. Kept(g, h, A) /\ SameRoom(g, h) /\ h.peer = q /\ h.supported = g.supported
    <3>1. Calm(g, A) /\ g.supported => q \notin A /\ g.peer \in {None, q}
      BY <2>2 DEF Calm, Optional
    <3> QED
      BY <1>1, <1>2, <3>1, PeerKept
  <2>4. Calm(h, A) => Silent(h, A)
    BY <2>2, <2>3 DEF Calm, Optional, Silent, SameRoom, Kept
  <2>5. /\ Kept(h, Downgrade(h), A) /\ SameRoom(h, Downgrade(h))
        /\ SameHandshake(h, Downgrade(h))
    BY <2>3, <2>4, DowngradeKept DEF Kept
  <2>6. Settled(Downgrade(h))
    BY <1>5, <2>3, <2>5 DEF Settled, SameRoom, SameHandshake
  <2> QED
    BY <2>1, <2>3, <2>5, <2>6, KeptTwice, Nothing DEF Sound
<1>6. CASE /\ g.users = {q} /\ g.supported /\ m.type # "nocrypto"
           /\ g.peer # q \/ g.key = NoKey
  <2>1. OnMessage(g, m) = StartWith(g, q, <<m>>)
    BY <1>6 DEF OnMessage, q
  <2>2. m.type \in Handshake /\ (Calm(g, A) => q \in A)
    BY <1>6 DEF Honest, Calm, Optional, q
  <2>3. <<m>> # <<>> /\ <<m>>[1] = m
    OBVIOUS
  <2>4. Outcome(g, StartWith(g, q, <<m>>), A) /\ Settled(StartWith(g, q, <<m>>).g)
    <3>1. PICK msg : msg = <<m>>
      OBVIOUS
    <3>2. msg # <<>> /\ msg[1].type \in Handshake /\ msg[1].from = q
      BY <2>2, <2>3, <3>1 DEF q
    <3>3. Outcome(g, StartWith(g, q, msg), A) /\ Settled(StartWith(g, q, msg).g)
      BY <1>1, <1>6, <2>2, <3>2, StartWithSound
    <3> QED
      BY <3>1, <3>3
  <2> QED
    BY <2>1, <2>4 DEF Sound
<1>7. CASE /\ g.users = {q} /\ g.supported /\ m.type # "nocrypto"
           /\ g.peer = q /\ g.key # NoKey
  <2>1. OnMessage(g, m) = Handle(g, m)
    BY <1>7 DEF OnMessage, q
  <2>2. m.type \in Handshake /\ (Calm(g, A) => g.peer \in A)
    BY <1>7 DEF Honest, Calm, Optional, q
  <2> QED
    BY <1>7, <2>1, <2>2, HandleSound
<1> QED
  BY <1>3, <1>4, <1>5, <1>6, <1>7

-----------------------------------------------------------------------------

\* What is left of a controller when its run r is over; a handshake that was
\* started later is of a later generation.
KeptAfter(g, r, h, A) ==
    /\ Controller(h, A) /\ h.id = g.id /\ h.supported = g.supported /\ h.require = g.require
    /\ g.generation <= h.generation
    /\ Strict(g) => Strict(h)
    /\ Calm(g, A) => Calm(h, A)
    /\ Calm(g, A) /\ g.supported =>
          \A x : RunType(x) /\ RunOK(g, x, A)
                    /\ (r.at = "start" /\ x.at = "start" => r.gen < x.gen)
                    => RunOK(h, x, A)

\* A handler that completes run r.
SoundAfter(g, r, res, A) ==
    /\ KeptAfter(g, r, res.g, A) /\ Sends(g, res.out, A) /\ Starts(g, res, A)
    /\ Settled(g) => Settled(res.g)

\* A handler that keeps everything keeps it after any run.
LEMMA KeptSo ==
    ASSUME NEW A, NEW g, NEW r, NEW res, Sound(g, res, A)
    PROVE  SoundAfter(g, r, res, A)
  BY DEF Sound, Outcome, Kept, KeptAfter, SoundAfter

\* A sequence is one of its own elements.
LEMMA QueueOfItsElements ==
    ASSUME NEW S, NEW q \in Seq(S) PROVE q \in Seq(Range(q)) /\ Range(q) \subseteq S
<1>1. DOMAIN q = 1 .. Len(q) /\ Len(q) \in Nat /\ \A i \in 1 .. Len(q) : q[i] \in S
  OBVIOUS
<1>2. \A i \in 1 .. Len(q) : q[i] \in Range(q)
  BY <1>1 DEF Range
<1>3. q = [i \in 1 .. Len(q) |-> q[i]]
  OBVIOUS
<1>4. q \in [1 .. Len(q) -> Range(q)]
  BY <1>2, <1>3
<1> QED
  BY <1>1, <1>4 DEF Range

\* Two queues, one after the other.
Joined(q1, q2, w) == q1 \in Seq(Range(q1)) /\ q2 \in Seq(Range(q2)) /\ w = q1 \o q2

\* What is in two queues joined is in one of them.
LEMMA BothQueues ==
    ASSUME NEW q1, NEW q2, NEW w, Joined(q1, q2, w)
    PROVE  w \in Seq(Range(w)) /\ Range(w) \subseteq Range(q1) \cup Range(q2)
<1> DEFINE S == Range(q1) \cup Range(q2)
<1>1. q1 \in Seq(S) /\ q2 \in Seq(S) /\ w = q1 \o q2
  BY DEF Joined
<1>2. w \in Seq(S)
  BY <1>1
<1> QED
  BY <1>2, QueueOfItsElements

\* Two lots of messages, one after the other.
LEMMA SendsBoth ==
    ASSUME NEW A, NEW g, NEW o1, NEW o2, Sends(g, o1, A), Sends(g, o2, A)
    PROVE  Sends(g, o1 \o o2, A)
<1> DEFINE S == Range(o1) \cup Range(o2)
<1>1. o1 \in Seq(S) /\ o2 \in Seq(S)
  BY DEF Sends
<1>2. /\ o1 \o o2 \in Seq(S)
      /\ \A i \in DOMAIN (o1 \o o2) : (o1 \o o2)[i] \in S
  BY <1>1
<1>3. Range(o1 \o o2) \subseteq S
  BY <1>2 DEF Range
<1>4. o1 \o o2 \in Seq(Range(o1 \o o2))
  BY <1>2, QueueOfItsElements
<1>5. \A m \in S : Letter(m) /\ (Calm(g, A) => Honest(m, A))
  BY DEF Sends
<1> QED
  BY <1>3, <1>4, <1>5 DEF Sends

\* The key pair is there, for the peer it was made for.
WithKey(g, key) == [g EXCEPT !.key = key, !.starting = FALSE]

\* The key pair of a handshake that is still wanted: no other handshake that
\* is being started is of its generation.
LEMMA KeyKept ==
    ASSUME NEW A, NEW g, NEW r, NEW h, NEW key, Controller(g, A), g.supported, RunType(r),
           r.at = "start", g.generation = r.gen, g.peer = r.peer, key # NoKey,
           h = WithKey(g, key),
           Optional(g) => Calm(g, A) /\ RunOK(g, r, A)
    PROVE  /\ KeptAfter(g, r, h, A) /\ SameRoom(g, h) /\ h.peer = g.peer /\ h.supported
           /\ Optional(h) => Optional(g)
<1>1. /\ DOMAIN h = Fields /\ SameRoom(g, h) /\ SamePage(g, h) /\ SameKeys(g, h)
      /\ SameMedia(g, h) /\ h.state = g.state /\ h.peer = g.peer
      /\ h.starting = FALSE /\ h.key = key /\ h.peerCommit = g.peerCommit
  BY DEF WithKey, Controller, Fields, SameRoom, SamePage, SameKeys, SameMedia
<1>2. Controller(h, A)
  <2>1. Flags(h)
    BY <1>1 DEF Controller, Flags, SameRoom, SamePage, SameMedia
  <2> QED
    BY <1>1, <2>1 DEF Controller, SameRoom, SamePage, SameKeys, SameMedia
<1>3. Strict(g) => Strict(h)
  BY <1>1 DEF Strict, Closed, SameRoom, SameMedia, SamePage
<1>4. Calm(g, A) => Calm(h, A)
  <2>1. Calm(g, A) => g.starting
    BY DEF RunOK, Calm
  <2> QED
    BY <1>1, <2>1 DEF Calm, Optional, SameRoom, SamePage, SameMedia
<1>5. ASSUME NEW x, RunType(x), RunOK(g, x, A),
             r.at = "start" /\ x.at = "start" => r.gen < x.gen
      PROVE  RunOK(h, x, A)
  <2>1. x.at # "start"
    BY <1>5 DEF RunOK, RunType
  <2> QED
    BY <1>1, <1>5, <2>1 DEF RunOK, SameKeys, SameMedia
<1>6. g.generation <= h.generation
  BY <1>1 DEF Controller, SameKeys
<1>7. KeptAfter(g, r, h, A)
  BY <1>1, <1>2, <1>3, <1>4, <1>5, <1>6 DEF KeptAfter, SamePage, SameRoom
<1> QED
  BY <1>1, <1>7 DEF SamePage, SameRoom, Optional

\* The message that began the handshake is handled once the key is there.
LEMMA SoundAfterKey ==
    ASSUME NEW A, NEW g, NEW r, NEW h, NEW res, Controller(g, A), g.supported,
           KeptAfter(g, r, h, A), Sound(h, res, A), Settled(g) => Settled(h)
    PROVE  SoundAfter(g, r, res, A)
<1>1. /\ Controller(res.g, A) /\ res.g.id = g.id /\ res.g.supported = g.supported
      /\ res.g.require = g.require /\ g.generation <= res.g.generation
  BY DEF Sound, Outcome, Kept, KeptAfter, Controller
<1>2. (Strict(g) => Strict(res.g)) /\ (Calm(g, A) => Calm(res.g, A))
  BY DEF Sound, Outcome, Kept, KeptAfter
<1>3. ASSUME NEW x, Calm(g, A), RunType(x), RunOK(g, x, A),
             r.at = "start" /\ x.at = "start" => r.gen < x.gen
      PROVE  RunOK(res.g, x, A)
  BY <1>3 DEF Sound, Outcome, Kept, KeptAfter
<1>4. Sends(g, res.out, A)
  BY DEF Sound, Outcome, Sends, KeptAfter
<1>5. Starts(g, res, A)
  <2>1. CASE res.runs = <<>>
    BY <2>1 DEF Starts
  <2>2. CASE res.runs # <<>>
    <3>1. PICK x : /\ res.runs = <<x>> /\ h.supported /\ RunType(x)
                   /\ Calm(h, A) => RunOK(res.g, x, A)
                   /\ x.at = "start" => h.generation < x.gen
      BY <2>2 DEF Sound, Outcome, Starts
    <3>2. Calm(g, A) => RunOK(res.g, x, A)
      BY <3>1 DEF KeptAfter
    <3>3. x.at = "start" => g.generation < x.gen
      BY <3>1 DEF KeptAfter, Controller, RunType
    <3> QED
      BY <3>1, <3>2, <3>3 DEF Starts
  <2> QED
    BY <2>1, <2>2
<1>6. KeptAfter(g, r, res.g, A)
  BY <1>1, <1>2, <1>3 DEF KeptAfter
<1> QED
  BY <1>4, <1>5, <1>6 DEF SoundAfter, Sound

\* startWith(), after the key pair has been made.
LEMMA StartedSound ==
    ASSUME NEW A, NEW g, NEW r, Controller(g, A), A \subseteq Ids, g.supported,
           RunType(r), r.at = "start", Optional(g) => Calm(g, A) /\ RunOK(g, r, A)
    PROVE  SoundAfter(g, r, Started(g, r), A)
<1>1. r.msg # <<>> => r.msg[1].type \in Handshake
  BY DEF RunType
<1>2. CASE g.peer # r.peer \/ g.generation # r.gen
  <2>1. PICK next : next = IF r.msg = <<>> THEN Just(g) ELSE Handle(g, r.msg[1])
    OBVIOUS
  <2>2. Started(g, r) = Result(next.g, <<>> \o next.out, next.runs)
    BY <1>2, <2>1 DEF Started
  <2>3. Sound(g, next, A)
    <3>1. CASE r.msg = <<>>
      BY <2>1, <3>1, NothingSound
    <3>2. CASE r.msg # <<>>
      <4>1. Calm(g, A) => g.key = NoKey
        BY DEF RunOK, Calm
      <4>2. Sound(g, Handle(g, r.msg[1]), A)
        BY <1>1, <3>2, <4>1, HandleSound
      <4> QED
        BY <2>1, <3>2, <4>2
    <3> QED
      BY <3>1, <3>2
  <2>4. Sends(g, <<>> \o next.out, A)
    BY <2>3, SaysNothing, SendsBoth DEF Sound, Outcome
  <2>5. Sound(g, Started(g, r), A)
    BY <2>2, <2>3, <2>4 DEF Sound, Outcome, Result, Starts
  <2> QED
    BY <2>5, KeptSo
<1>3. CASE g.peer = r.peer /\ g.generation = r.gen
  <2>1. PICK h : h = [g EXCEPT !.key = <<g.id, g.generation>>, !.starting = FALSE]
    OBVIOUS
  <2>2. PICK next : next = IF r.msg = <<>> THEN Just(h) ELSE Handle(h, r.msg[1])
    OBVIOUS
  <2>3. PICK said : said = Say(h, Message(h, "hello", NoKey)) \o
                    (IF Initiator(h) THEN <<>> ELSE Say(h, Message(h, "commit", h.key)))
    OBVIOUS
  <2>4. Started(g, r) = Result(next.g, said \o next.out, next.runs)
    BY <1>3, <2>1, <2>2, <2>3 DEF Started
  <2>5. /\ KeptAfter(g, r, h, A) /\ SameRoom(g, h) /\ h.peer = g.peer /\ h.supported
        /\ Optional(h) => Optional(g)
    <3>1. PICK key : key = <<g.id, g.generation>>
      OBVIOUS
    <3>2. key # NoKey
      BY <3>1 DEF NoKey
    <3>3. h = WithKey(g, key)
      BY <2>1, <3>1 DEF WithKey
    <3> QED
      BY <1>3, <3>2, <3>3, KeyKept
  <2>6. Controller(h, A)
    BY <2>5 DEF KeptAfter
  <2>7. Sends(h, said, A)
    <3>1. {"hello", "commit"} \subseteq Types /\ "nocrypto" \notin {"hello", "commit"}
      BY DEF Types, Handshake
    <3>2. Sends(h, Say(h, Message(h, "hello", NoKey)), A)
      BY <2>5, <2>6, <3>1, SaySends
    <3>3. Sends(h, Say(h, Message(h, "commit", h.key)), A)
      BY <2>5, <2>6, <3>1, SaySends
    <3> QED
      BY <2>3, <3>2, <3>3, SaysNothing, SendsBoth
  <2>8. Sound(h, next, A)
    <3>1. CASE r.msg = <<>>
      BY <2>2, <2>6, <3>1, NothingSound
    <3>2. CASE r.msg # <<>>
      <4>1. Calm(h, A) => h.peer \in A
        BY <1>3, <2>5, <3>2 DEF Calm, RunOK
      <4>2. Sound(h, Handle(h, r.msg[1]), A)
        BY <1>1, <2>5, <2>6, <3>2, <4>1, HandleSound
      <4> QED
        BY <2>2, <3>2, <4>2
    <3> QED
      BY <3>1, <3>2
  <2>9. Sends(h, said \o next.out, A)
    BY <2>7, <2>8, SendsBoth DEF Sound, Outcome
  <2>10. Sound(h, Started(g, r), A)
    BY <2>4, <2>8, <2>9 DEF Sound, Outcome, Result, Starts
  <2>11. Settled(g) => Settled(h)
    BY <2>5 DEF Settled, SameRoom
  <2> QED
    BY <2>5, <2>10, <2>11, SoundAfterKey
<1> QED
  BY <1>2, <1>3

\* handleDh(), after the responder's key has been hashed.
LEMMA HashedSound ==
    ASSUME NEW A, NEW g, NEW r, Controller(g, A), g.supported,
           Optional(g) => Calm(g, A)
    PROVE  Sound(g, Hashed(g, r), A)
<1>1. CASE g.peerCommit = NoKey
  BY <1>1, NothingSound DEF Hashed
<1>2. CASE g.peerCommit # NoKey /\ r.session # g.peerCommit
  BY <1>2, FailSound DEF Hashed
<1>3. CASE /\ g.peerCommit # NoKey /\ r.session = g.peerCommit
           /\ g.peerPub # NoKey \/ g.state # "handshaking"
  BY <1>3, NothingSound DEF Hashed
<1>4. CASE /\ g.peerCommit # NoKey /\ r.session = g.peerCommit
           /\ ~(g.peerPub # NoKey \/ g.state # "handshaking")
  <2>1. PICK h : h = [g EXCEPT !.peerPub = r.session]
    OBVIOUS
  <2>2. PICK res : res = Result(h, <<>>, Finalize(h))
    OBVIOUS
  <2>3. Hashed(g, r) = res
    BY <1>4, <2>1, <2>2 DEF Hashed
  <2>4. /\ Kept(g, h, A) /\ SameRoom(g, h) /\ SameHandshake(g, h)
        /\ h.state = g.state /\ h.supported = g.supported
        /\ Calm(h, A) => Calm(g, A)
    <3>1. PICK k : k = r.session
      OBVIOUS
    <3>2. h = [g EXCEPT !.peerPub = k]
      BY <2>1, <3>1
    <3> QED
      BY <3>2, PeerPubKept
  <2>5. Controller(h, A) /\ h.supported /\ h.state # "failed"
    BY <1>4, <2>4 DEF Kept
  <2>6. res.g = h /\ res.out = <<>> /\ res.runs = Finalize(h)
    BY <2>2 DEF Result
  <2>7. Starts(h, res, A)
    <3>1. CASE Calm(h, A)
      <4>1. h.key # NoKey /\ h.peer \in A
        BY <1>4, <2>4, <3>1 DEF Calm, SameHandshake
      <4>2. Starts(h, Result(h, <<>>, Finalize(h)), A)
        BY <2>5, <4>1, FinalizeStarts
      <4> QED
        BY <2>2, <4>2
    <3>2. CASE ~Calm(h, A)
      <4>1. PICK x : x = [at |-> "keys", gen |-> h.generation, peer |-> h.peer,
                          session |-> Transcript(h), msg |-> <<>>]
        OBVIOUS
      <4>2. RunType(x) /\ x.at = "keys"
        BY <2>5, <4>1 DEF RunType, Controller
      <4>3. res.runs = <<x>>
        BY <2>2, <4>1 DEF Result, Finalize
      <4> QED
        BY <2>5, <3>2, <4>2, <4>3 DEF Starts
    <3> QED
      BY <3>1, <3>2
  <2>8. Outcome(h, res, A)
    BY <2>5, <2>6, <2>7, KeptAll, SaysNothing DEF Outcome
  <2>9. Outcome(g, res, A)
    BY <2>4, <2>8, OutcomeAfter
  <2> QED
    BY <2>3, <2>4, <2>6, <2>9 DEF Sound, Settled, SameRoom, SameHandshake
<1> QED
  BY <1>1, <1>2, <1>3, <1>4

\* The keys go to the worker, which seals from now on.
LEMMA KeysSound ==
    ASSUME NEW A, NEW g, NEW r, Controller(g, A), g.supported, RunType(r), r.at = "keys",
           g.generation = r.gen, Optional(g) => Calm(g, A) /\ RunOK(g, r, A)
    PROVE  Sound(g, Finalizing(g, r), A)
<1>1. PICK w : w = [g EXCEPT !.secret = r.session, !.mediaKey = r.session,
                             !.chatKey = r.session, !.chatSendSeq = 0, !.chatRecvSeq = 0]
  OBVIOUS
<1>2. PICK h : h = SetWorkerMode(w, FALSE)
  OBVIOUS
<1>3. PICK x : x = [r EXCEPT !.at = "sas"]
  OBVIOUS
<1>4. PICK res : res = Result(h, <<>>, <<x>>)
  OBVIOUS
<1>5. Finalizing(g, r) = res
  BY <1>1, <1>2, <1>3, <1>4 DEF Finalizing
<1>6. /\ DOMAIN w = Fields /\ SameRoom(g, w) /\ SamePage(g, w) /\ SameHandshake(g, w)
      /\ SameMedia(g, w) /\ w.state = g.state
      /\ w.generation = g.generation /\ w.mediaKey = w.secret
  BY <1>1 DEF Controller, Fields, SameRoom, SamePage, SameHandshake, SameMedia
<1>7. Kept(g, w, A)
  BY <1>6, AsideKept
<1>8. /\ DOMAIN h = Fields /\ SameRoom(w, h) /\ SameHandshake(w, h)
      /\ SameKeys(w, h) /\ SamePage(w, h) /\ h.tracks = w.tracks /\ h.state = w.state
      /\ h.cleartext \in BOOLEAN /\ ~h.cleartext
  BY <1>2, <1>6, SetWorkerModeFields DEF Controller, Flags, SamePage
<1>9. /\ SameRoom(g, h) /\ SameHandshake(g, h) /\ SamePage(g, h) /\ h.tracks = g.tracks
      /\ h.state = g.state /\ h.generation = g.generation /\ h.mediaKey = h.secret
  BY <1>6, <1>8 DEF SameRoom, SameHandshake, SamePage, SameKeys, SameMedia
<1>10. Controller(h, A)
  <2>1. Flags(h)
    BY <1>8, <1>9 DEF Controller, Flags, SameRoom, SameHandshake, SamePage
  <2> QED
    BY <1>8, <1>9, <2>1 DEF Controller, SameRoom, SameHandshake, SamePage
<1>11. (Closed(g) => Closed(h)) /\ (Strict(g) => Strict(h))
  BY <1>8, <1>9 DEF Strict, Closed, SameRoom, SamePage
<1>12. Calm(g, A) => Calm(h, A)
  BY <1>8, <1>9 DEF Calm, Optional, SameRoom, SameHandshake, SamePage
<1>13. ASSUME NEW y, RunOK(g, y, A)
       PROVE  RunOK(h, y, A)
  BY <1>8, <1>9, <1>13 DEF RunOK, SameHandshake
<1>14. Kept(g, h, A)
  BY <1>9, <1>10, <1>11, <1>12, <1>13 DEF Kept, SamePage, SameRoom, Controller
<1>15. /\ x.at = "sas" /\ x.gen = r.gen
       /\ DOMAIN x = {"at", "gen", "peer", "session", "msg"}
  BY <1>3 DEF RunType
<1>16. RunType(x)
  BY <1>15 DEF RunType
<1>17. Calm(g, A) => RunOK(h, x, A)
  <2>1. Calm(g, A) => RunOK(g, r, A)
    BY DEF Calm
  <2> QED
    BY <1>8, <1>9, <1>15, <2>1 DEF RunOK, SameHandshake
<1>18. res.g = h /\ res.out = <<>> /\ res.runs = <<x>>
  BY <1>4 DEF Result
<1>19. Starts(g, res, A)
  BY <1>15, <1>16, <1>17, <1>18 DEF Starts
<1>20. Outcome(g, res, A)
  BY <1>14, <1>18, <1>19, SaysNothing DEF Outcome
<1> QED
  BY <1>5, <1>9, <1>18, <1>20 DEF Sound, Settled, SameRoom, SameHandshake

\* The state is "established" when both have derived the emoji.
LEMMA EstablishedSound ==
    ASSUME NEW A, NEW g, NEW r, Controller(g, A), g.supported, RunType(r), r.at = "sas",
           g.generation = r.gen, Optional(g) => Calm(g, A) /\ RunOK(g, r, A)
    PROVE  Sound(g, Finalizing(g, r), A)
<1>1. PICK w : w = [g EXCEPT !.wasEncrypted = TRUE, !.clearAgreed = FALSE]
  OBVIOUS
<1>2. PICK h : h = SetState(w, "established")
  OBVIOUS
<1>3. PICK rs : rs = IF h.nameSentTo = h.peer THEN <<>> ELSE Seal(h, "name")
  OBVIOUS
<1>4. PICK res : res = Result(h, <<>>, rs)
  OBVIOUS
<1>5. Finalizing(g, r) = res
  BY <1>1, <1>2, <1>3, <1>4 DEF Finalizing
<1>6. /\ DOMAIN w = Fields /\ SamePage(g, w) /\ SameHandshake(g, w) /\ SameKeys(g, w)
      /\ SameMedia(g, w) /\ w.wasEncrypted = TRUE /\ w.clearAgreed = FALSE
      /\ w.users = g.users /\ w.require = g.require /\ w.transformFailed = g.transformFailed
  BY <1>1 DEF Controller, Fields, SamePage, SameHandshake, SameMedia, SameKeys
<1>7. w.everEncrypted \in BOOLEAN /\ "established" \in States
  BY <1>6 DEF Controller, Flags, SamePage, States
<1>8. /\ DOMAIN h = Fields /\ h.state = "established" /\ h.cleartext = w.cleartext
      /\ h.id = w.id /\ h.supported = w.supported
      /\ SameRoom(w, h) /\ SameHandshake(w, h) /\ SameKeys(w, h)
      /\ h.tracks = w.tracks \/ h.tracks = "none"
  BY <1>2, <1>6, <1>7, SetStateFields
<1>9. h.everEncrypted = TRUE
  <2>1. PICK v : v = EnforceMediaPolicy([w EXCEPT !.state = "established"])
    OBVIOUS
  <2>2. DOMAIN v = Fields
    BY <1>6, <2>1 DEF EnforceMediaPolicy, Fields
  <2>3. [w EXCEPT !.state = "established"].state = "established"
    BY <1>6 DEF Fields
  <2>4. h = [v EXCEPT !.everEncrypted = TRUE, !.nameSentTo = v.nameSentTo]
    BY <1>2, <2>1, <2>2, <2>3 DEF SetState, GotState
  <2> QED
    BY <2>2, <2>4 DEF Fields
<1>10. /\ h.id = g.id /\ h.supported = g.supported /\ SameHandshake(g, h)
       /\ h.generation = g.generation /\ h.mediaKey = h.secret /\ h.cleartext = g.cleartext
       /\ h.users = g.users /\ h.require = g.require /\ h.transformFailed = g.transformFailed
       /\ h.wasEncrypted = TRUE /\ h.clearAgreed = FALSE
       /\ h.tracks = g.tracks \/ h.tracks = "none"
  BY <1>6, <1>8 DEF SameHandshake, SameRoom, SamePage, SameKeys, SameMedia, Controller
<1>11. Controller(h, A)
  <2>1. Flags(h)
    BY <1>9, <1>10 DEF Controller, Flags, SameHandshake
  <2>2. h.tracks \in {"none", "sealed", "bare"} /\ h.state \in States
    BY <1>7, <1>8, <1>10 DEF Controller
  <2> QED
    BY <1>8, <1>10, <2>1, <2>2 DEF Controller, SameHandshake
<1>12. (Closed(g) => Closed(h)) /\ (Strict(g) => Strict(h))
  BY <1>10 DEF Strict, Closed
<1>13. Calm(g, A) => RunOK(g, r, A) /\ ~g.cleartext
  BY DEF Calm, RunOK
<1>14. Calm(g, A) => Calm(h, A)
  BY <1>8, <1>10, <1>13 DEF Calm, Optional, SameHandshake
<1>15. ASSUME NEW y, RunOK(g, y, A)
       PROVE  RunOK(h, y, A)
  BY <1>8, <1>10, <1>15 DEF RunOK, SameHandshake
<1>16. Kept(g, h, A)
  BY <1>10, <1>11, <1>12, <1>14, <1>15 DEF Kept, Controller
<1>17. res.g = h /\ res.out = <<>> /\ res.runs = rs
  BY <1>4 DEF Result
<1>18. Starts(g, res, A)
  <2>1. CASE rs = <<>>
    BY <1>17, <2>1 DEF Starts
  <2>2. CASE rs # <<>>
    <3>1. PICK x : x = [at |-> "seal", gen |-> h.generation, peer |-> h.peer,
                        session |-> h.chatKey, msg |-> <<"name">>]
      OBVIOUS
    <3>2. rs = <<x>>
      BY <1>3, <2>2, <3>1 DEF Seal
    <3>3. RunType(x) /\ RunOK(h, x, A) /\ x.at = "seal"
      BY <1>11, <3>1 DEF RunType, RunOK, Controller
    <3> QED
      BY <1>17, <3>2, <3>3 DEF Starts
  <2> QED
    BY <2>1, <2>2
<1>19. Outcome(g, res, A)
  BY <1>16, <1>17, <1>18, SaysNothing DEF Outcome
<1> QED
  BY <1>5, <1>10, <1>17, <1>19 DEF Sound, Settled, SameHandshake

\* The text that is sealed goes out.
LEMMA SealedSound ==
    ASSUME NEW A, NEW g, NEW r, Controller(g, A), g.supported
    PROVE  Sound(g, Sealed(g, r), A)
<1>1. CASE g.generation # r.gen \/ ~CanChat(g)
  BY <1>1, NothingSound DEF Sealed
<1>2. CASE ~(g.generation # r.gen \/ ~CanChat(g))
  <2>1. PICK h : h = [g EXCEPT !.chatSendSeq = @ + 1,
                          !.nameSentTo = IF r.msg[1] = "name" THEN g.peer ELSE @]
    OBVIOUS
  <2>2. PICK k, v : k = r.session /\ v = <<g.chatSendSeq + 1, r.msg[1]>>
    OBVIOUS
  <2>3. PICK out : out = Say(g, [type |-> "e2eechat", from |-> g.id, to |-> None, key |-> k, v |-> v])
    OBVIOUS
  <2>4. Sealed(g, r) = Result(h, out, <<>>)
    BY <1>2, <2>1, <2>2, <2>3 DEF Sealed
  <2>5. "e2eechat" \in Types /\ "e2eechat" \notin Handshake /\ "e2eechat" # "nocrypto"
    BY DEF Types, Handshake
  <2>6. Sends(g, out, A)
    BY <2>3, <2>5, LetterSends
  <2>7. /\ DOMAIN h = Fields /\ SameRoom(g, h) /\ SameHandshake(g, h) /\ SamePage(g, h)
        /\ SameMedia(g, h) /\ h.generation = g.generation /\ h.state = g.state
        /\ h.mediaKey = h.secret
    BY <2>1 DEF Controller, Fields, SameRoom, SameHandshake, SamePage, SameMedia
  <2>8. Kept(g, h, A)
    BY <2>7, AsideKept
  <2> QED
    BY <2>4, <2>6, <2>7, <2>8, ResultOutcome DEF Sound, Settled, SameRoom, SameHandshake
<1> QED
  BY <1>1, <1>2

\* decryptChatNow(), after the text has been opened.
LEMMA OpenedSound ==
    ASSUME NEW A, NEW g, NEW r, Controller(g, A)
    PROVE  Sound(g, Opened(g, r), A)
<1> DEFINE m == r.msg[1]
<1>1. CASE g.generation # r.gen \/ ~Opens(g, r, m) \/ m.v[1] <= g.chatRecvSeq
  BY <1>1, NothingSound DEF Opened
<1>2. CASE ~(g.generation # r.gen \/ ~Opens(g, r, m) \/ m.v[1] <= g.chatRecvSeq)
  <2>1. PICK h : h = [g EXCEPT !.chatRecvSeq = m.v[1],
                        !.names = IF m.v[2] = "name" THEN @ \cup {m.from} ELSE @]
    OBVIOUS
  <2>2. Opened(g, r) = Just(h)
    BY <1>2, <2>1 DEF Opened
  <2>3. /\ DOMAIN h = Fields /\ SameRoom(g, h) /\ SameHandshake(g, h) /\ SamePage(g, h)
        /\ SameMedia(g, h) /\ h.generation = g.generation /\ h.state = g.state
        /\ h.mediaKey = h.secret
    BY <2>1 DEF Controller, Fields, SameRoom, SameHandshake, SamePage, SameMedia
  <2>4. Kept(g, h, A)
    BY <2>3, AsideKept
  <2> QED
    BY <2>2, <2>3, <2>4, Nothing DEF Sound, Settled, SameRoom, SameHandshake
<1> QED
  BY <1>1, <1>2

\* Whatever completes.
LEMMA CompletedSound ==
    ASSUME NEW A, NEW g, NEW r, Controller(g, A), A \subseteq Ids, g.supported,
           RunType(r), Optional(g) => Calm(g, A) /\ RunOK(g, r, A)
    PROVE  SoundAfter(g, r, Completed(g, r), A)
<1>1. CASE r.at = "start"
  BY <1>1, StartedSound DEF Completed
<1>2. CASE r.at = "hash"
  BY <1>2, HashedSound, KeptSo DEF Completed
<1>3. CASE r.at = "seal"
  BY <1>3, SealedSound, KeptSo DEF Completed
<1>4. CASE r.at = "open"
  BY <1>4, OpenedSound, KeptSo DEF Completed
<1>5. CASE r.at \in {"keys", "sas"} /\ g.generation # r.gen
  <2>1. Completed(g, r) = Just(g)
    BY <1>5 DEF Completed
  <2> QED
    BY <2>1, NothingSound, KeptSo
<1>6. CASE r.at = "keys" /\ g.generation = r.gen
  <2>1. Completed(g, r) = Finalizing(g, r)
    BY <1>6 DEF Completed
  <2> QED
    BY <1>6, <2>1, KeysSound, KeptSo
<1>7. CASE r.at = "sas" /\ g.generation = r.gen
  <2>1. Completed(g, r) = Finalizing(g, r)
    BY <1>7 DEF Completed
  <2> QED
    BY <1>7, <2>1, EstablishedSound, KeptSo
<1> QED
  BY <1>1, <1>2, <1>3, <1>4, <1>5, <1>6, <1>7 DEF RunType

\* A text comes in, and is opened.
LEMMA DecryptChatSound ==
    ASSUME NEW A, NEW g, NEW m, Controller(g, A)
    PROVE  Sound(g, DecryptChat(g, m), A)
<1>1. CASE ~(g.state = "established" /\ g.chatKey # NoSession /\ m.from = g.peer)
  BY <1>1, NothingSound DEF DecryptChat
<1>2. CASE g.state = "established" /\ g.chatKey # NoSession /\ m.from = g.peer
  <2>1. PICK x : x = [at |-> "open", gen |-> g.generation, peer |-> m.from,
                      session |-> g.chatKey, msg |-> <<m>>]
    OBVIOUS
  <2>2. DecryptChat(g, m) = Result(g, <<>>, <<x>>)
    BY <1>2, <2>1 DEF DecryptChat
  <2>3. RunType(x) /\ RunOK(g, x, A) /\ x.at = "open"
    BY <2>1 DEF RunType, RunOK, Controller
  <2>4. g.supported
    BY <1>2 DEF Controller, Flags
  <2>5. Starts(g, Result(g, <<>>, <<x>>), A)
    BY <2>3, <2>4 DEF Starts, Result
  <2> QED
    BY <2>2, <2>5, KeptAll, SaysNothing DEF Sound, Outcome, Result
<1> QED
  BY <1>1, <1>2

\* sendChat(), before the text is sealed.
LEMMA ChatSound ==
    ASSUME NEW A, NEW g, NEW text, Controller(g, A), CanChat(g)
    PROVE  Sound(g, Result(g, <<>>, Seal(g, text)), A)
<1>1. PICK x : x = [at |-> "seal", gen |-> g.generation, peer |-> g.peer,
                    session |-> g.chatKey, msg |-> <<text>>]
  OBVIOUS
<1>2. Seal(g, text) = <<x>>
  BY <1>1 DEF Seal
<1>3. RunType(x) /\ RunOK(g, x, A) /\ x.at = "seal"
  BY <1>1 DEF RunType, RunOK, Controller
<1>4. g.supported
  BY DEF CanChat, Controller, Flags
<1>5. Starts(g, Result(g, <<>>, <<x>>), A)
  BY <1>3, <1>4 DEF Starts, Result
<1> QED
  BY <1>2, <1>5, KeptAll, SaysNothing DEF Sound, Outcome, Result

\* The camera is turned on where media may be published, and off anywhere.
LEMMA TracksKept ==
    ASSUME NEW A, NEW g, NEW h, NEW t \in {"none", "sealed", "bare"}, Controller(g, A),
           t = "bare" => ~g.supported /\ MayPublish(g),
           h = [g EXCEPT !.tracks = t]
    PROVE  /\ Controller(h, A) /\ SameRoom(g, h) /\ SameHandshake(g, h) /\ SamePage(g, h)
           /\ SameKeys(g, h) /\ h.cleartext = g.cleartext /\ h.state = g.state /\ h.tracks = t
           /\ Strict(g) => Strict(h)
           /\ Calm(g, A) => Calm(h, A)
           /\ \A r : RunOK(g, r, A) => RunOK(h, r, A)
<1>1. /\ DOMAIN h = Fields /\ SameRoom(g, h) /\ SameHandshake(g, h) /\ SamePage(g, h)
      /\ SameKeys(g, h) /\ h.cleartext = g.cleartext /\ h.state = g.state /\ h.tracks = t
  BY DEF Controller, Fields, SameRoom, SameHandshake, SamePage, SameKeys
<1>2. Controller(h, A)
  <2>1. Flags(h)
    BY <1>1 DEF Controller, Flags, SameRoom, SameHandshake, SamePage
  <2> QED
    BY <1>1, <2>1 DEF Controller, SameRoom, SameHandshake, SamePage, SameKeys
<1>3. ASSUME Strict(g) PROVE Strict(h)
  <2>1. ~(t = "bare")
    BY <1>3 DEF Strict, Closed, MayPublish, MayPublishWhileAsking, AwaitsClearConsent
  <2> QED
    BY <1>1, <1>3, <2>1 DEF Strict, Closed, SameRoom, SamePage
<1>4. Calm(g, A) => Calm(h, A)
  BY <1>1 DEF Calm, Optional, SameRoom, SameHandshake, SamePage
<1>5. ASSUME NEW r, RunOK(g, r, A)
      PROVE  RunOK(h, r, A)
  BY <1>1, <1>5 DEF RunOK, SameHandshake, SameKeys
<1> QED
  BY <1>1, <1>2, <1>3, <1>4, <1>5

\* The encryptor cannot be attached: where encryption is required, the media
\* is closed at once.
\* The camera is on, and has no encryptor.
Bare(g) == [g EXCEPT !.tracks = "bare", !.transformFailed = TRUE]

\* What is left when an encryptor fails to attach.
FailsSafely(g, res, A) ==
    /\ Controller(res.g, A) /\ res.g.id = g.id /\ res.g.supported = g.supported
    /\ res.g.require = g.require /\ res.g.generation = g.generation
    /\ Settled(g) => Settled(res.g)
    /\ Strict(g) => Strict(res.g)
    /\ Sends(g, res.out, A) /\ res.runs = <<>>
    /\ ~Optional(g)

\* An encryptor that fails to attach where encryption is required leaves the
\* page blocked, with its camera off.
LEMMA AttachFailsSound ==
    ASSUME NEW A, NEW g, Controller(g, A), g.supported, FailWhen = "any" \/ g.require
    PROVE  FailsSafely(g, SayCannot(Bare(g)), A)
<1>0. PICK h : h = Bare(g)
  OBVIOUS
<1>1. ~Optional(g)
  BY E2EEAssumption DEF Optional
<1>2. /\ DOMAIN h = Fields /\ SameHandshake(g, h) /\ SamePage(g, h) /\ SameKeys(g, h)
      /\ h.tracks = "bare" /\ h.transformFailed = TRUE /\ h.cleartext = g.cleartext
      /\ h.users = g.users /\ h.require = g.require /\ h.state = g.state
      /\ h.wasEncrypted = g.wasEncrypted /\ h.clearAgreed = g.clearAgreed
  BY <1>0 DEF Bare, Controller, Fields, SameHandshake, SamePage, SameKeys
<1>3. Controller(h, A)
  <2>1. Flags(h)
    BY <1>2 DEF Controller, Flags, SameHandshake, SamePage
  <2> QED
    BY <1>2, <2>1 DEF Controller, SameHandshake, SamePage, SameKeys
<1>4. Calm(h, A) => ~h.supported
  BY <1>2 DEF Calm, Optional
<1>5. PICK res : res = SayCannot(h)
  OBVIOUS
<1>6. /\ Sound(h, res, A) /\ SameHandshake(h, res.g) /\ SameRoom(h, res.g)
  BY <1>3, <1>4, <1>5, SayCannotSound
<1>7. res.g = Downgrade(h) /\ res.runs = <<>>
  BY <1>5 DEF SayCannot, Result
<1>8. Calm(h, A) => Silent(h, A)
  BY <1>4 DEF Silent
<1>9. SameKeys(h, res.g)
  BY <1>3, <1>7, <1>8, DowngradeKept
<1>10. ~Calm(g, A)
  BY <1>1 DEF Calm
<1>11. Sends(g, res.out, A)
  BY <1>6, <1>10 DEF Sound, Outcome, Sends
<1>12. Strict(g) => Strict(res.g)
  <2>1. SUFFICES ASSUME Strict(g) PROVE Strict(res.g)
    OBVIOUS
  <2>2. h.require
    BY <1>2, <2>1 DEF Strict, Closed
  <2>3. PICK w : w = SetWorkerMode(h, FALSE)
    OBVIOUS
  <2>4. res.g = SetState(w, "blocked")
    BY <1>7, <2>2, <2>3 DEF Downgrade
  <2>5. /\ DOMAIN w = Fields /\ SameRoom(h, w) /\ SamePage(h, w) /\ ~w.cleartext
        /\ w.cleartext \in BOOLEAN
    <3>1. DOMAIN h = Fields /\ h.supported \in BOOLEAN
      BY <1>3 DEF Controller, Flags
    <3> QED
      BY <2>3, <3>1 DEF SetWorkerMode, Fields, SameRoom, SamePage
  <2>6. w.everEncrypted \in BOOLEAN /\ "blocked" \in States
    BY <1>3, <2>5 DEF Controller, Flags, SamePage, States
  <2>7. /\ SameRoom(w, res.g) /\ res.g.tracks = "none" /\ res.g.cleartext = w.cleartext
        /\ res.g.state = "blocked"
    <3>1. w.require
      BY <2>2, <2>5 DEF SameRoom
    <3> QED
      BY <2>4, <2>5, <2>6, <3>1, SetStateFields
  <2> QED
    BY <2>2, <2>5, <2>7 DEF Strict, Closed, SameRoom
<1>13. /\ Controller(res.g, A) /\ res.g.id = g.id /\ res.g.supported = g.supported
       /\ res.g.require = g.require /\ res.g.generation = g.generation
  BY <1>2, <1>6, <1>9 DEF Sound, Outcome, Kept, SamePage, SameKeys
<1>14. Settled(g) => Settled(res.g)
  BY <1>2, <1>6 DEF Settled, SameRoom, SameHandshake
<1>15. FailsSafely(g, res, A)
  BY <1>1, <1>7, <1>11, <1>12, <1>13, <1>14 DEF FailsSafely
<1> QED
  BY <1>0, <1>5, <1>15

\* The user agrees.
LEMMA ContinueSound ==
    ASSUME NEW A, NEW g, NEW h, Controller(g, A), AwaitsClearConsent(g),
           h = SetState(SetWorkerMode([g EXCEPT !.clearAgreed = TRUE], TRUE), "unencrypted")
    PROVE  Sound(g, Just(h), A)
<1>1. PICK a : a = [g EXCEPT !.clearAgreed = TRUE]
  OBVIOUS
<1>2. g.state = "blocked" /\ ~g.require /\ g.wasEncrypted /\ g.supported
  BY DEF AwaitsClearConsent, Controller, Flags
<1>3. /\ DOMAIN a = Fields /\ SameHandshake(g, a) /\ SamePage(g, a) /\ SameKeys(g, a)
      /\ SameMedia(g, a) /\ a.transformFailed = g.transformFailed
      /\ a.users = g.users /\ a.require = g.require /\ a.state = g.state
      /\ a.wasEncrypted = g.wasEncrypted /\ a.clearAgreed = TRUE
  BY <1>1 DEF Controller, Fields, SameHandshake, SamePage, SameKeys, SameMedia
<1>4. Controller(a, A)
  <2>1. Flags(a)
    BY <1>3 DEF Controller, Flags, SameHandshake, SamePage, SameMedia
  <2> QED
    BY <1>3, <2>1 DEF Controller, SameHandshake, SamePage, SameKeys, SameMedia
<1>5. ~Closed(g) /\ ~Strict(g)
  BY <1>2 DEF Strict, Closed
<1>6. Calm(g, A) => Calm(a, A)
  BY <1>3 DEF Calm, Optional, SameHandshake, SamePage, SameMedia
<1>7. ASSUME NEW r, RunOK(g, r, A)
      PROVE  RunOK(a, r, A)
  BY <1>3, <1>7 DEF RunOK, SameHandshake, SameKeys, SameMedia
<1>8. Kept(g, a, A)
  BY <1>3, <1>4, <1>5, <1>6, <1>7 DEF Kept, SamePage, SameKeys, Controller
<1>9. PICK w : w = SetWorkerMode(a, TRUE)
  OBVIOUS
<1>10. /\ DOMAIN w = Fields /\ SameRoom(a, w) /\ SameHandshake(a, w)
       /\ SameKeys(a, w) /\ SamePage(a, w) /\ w.tracks = a.tracks
       /\ w.cleartext \in BOOLEAN
  BY <1>4, <1>9, SetWorkerModeFields DEF Controller, Flags
<1>11. "unencrypted" \in States /\ "unencrypted" \notin {"failed", "established"}
  BY DEF States
<1>12. Calm(a, A) => Silent(a, A)
  BY <1>2, <1>3 DEF Calm, Silent
<1>13. ~a.require /\ (a.wasEncrypted => a.clearAgreed)
  BY <1>2, <1>3
<1>14. h = SetState(w, "unencrypted")
  BY <1>1, <1>9
<1>15. Kept(a, h, A) /\ SameRoom(a, h) /\ SameHandshake(a, h)
  <2>1. PICK k : k = SetState(w, "unencrypted")
    OBVIOUS
  <2>2. Kept(a, k, A) /\ SameRoom(a, k) /\ SameHandshake(a, k)
    BY <1>4, <1>10, <1>11, <1>12, <1>13, <2>1, NewStateKept
  <2> QED
    BY <1>14, <2>1, <2>2
<1>16. Kept(g, h, A)
  BY <1>8, <1>15, KeptTwice
<1>17. Outcome(g, Just(h), A) /\ Just(h).g = h
  BY <1>16, Nothing
<1>18. h.users = g.users /\ h.peer = g.peer
  BY <1>3, <1>15 DEF SameRoom, SameHandshake
<1> QED
  BY <1>17, <1>18 DEF Sound, Settled

\* A page that is not in the room.
Absent(g) ==
    /\ DOMAIN g = Fields /\ g.supported \in BOOLEAN /\ g.everEncrypted \in BOOLEAN
    /\ g.require \in BOOLEAN
    /\ ~g.supported => ~g.everEncrypted
    /\ g.id = None /\ g.users = {} /\ g.peer = None /\ g.state = "idle"
    /\ g.tracks = "none" /\ ~g.cleartext

\* A controller h that is new, on page g with identifier i.
Fresh(g, i, h) ==
    /\ DOMAIN h = Fields /\ h.id = i /\ h.supported = g.supported
    /\ h.everEncrypted = g.everEncrypted /\ h.require = g.require
    /\ h.wasEncrypted = g.everEncrypted /\ h.users = {} /\ h.peer = None
    /\ h.starting = FALSE /\ h.key = NoKey /\ h.peerCommit = NoKey
    /\ h.mediaKey = h.secret /\ h.generation = 0 /\ h.cleartext = FALSE
    /\ h.transformFailed = FALSE /\ h.clearAgreed = FALSE /\ h.state = "idle"
    /\ h.tracks = "none"

\* What a new controller takes from the page.
LEMMA NewControllerFields ==
    ASSUME NEW g, NEW i PROVE Fresh(g, i, NewController(g, i))
  BY DEF NewController, Loaded, Fields, Fresh

\* A new controller that learns the group's status.
LEMMA ConnectSound ==
    ASSUME NEW A, NEW g, NEW i \in Ids, NEW required \in BOOLEAN, Absent(g),
           A \subseteq Ids, i \in A <=> g.supported
    PROVE  LET h == SetRequire(NewController(g, i), required).g
           IN  /\ Controller(h, A) /\ Settled(h) /\ h.id = i /\ h.supported = g.supported
               /\ h.require = required
               /\ required => Strict(h)
               /\ ~required /\ FailWhen = "required" => Calm(h, A)
<1>1. PICK n : n = NewController(g, i)
  OBVIOUS
<1>2. PICK k : k = [n EXCEPT !.require = required]
  OBVIOUS
<1>3. /\ DOMAIN n = Fields /\ n.id = i /\ n.supported = g.supported
      /\ n.everEncrypted = g.everEncrypted
      /\ n.wasEncrypted = g.everEncrypted /\ n.users = {} /\ n.peer = None
      /\ n.starting = FALSE /\ n.key = NoKey /\ n.peerCommit = NoKey
      /\ n.mediaKey = n.secret /\ n.generation = 0 /\ n.cleartext = FALSE
      /\ n.transformFailed = FALSE /\ n.clearAgreed = FALSE /\ n.state = "idle"
      /\ n.tracks = "none"
  <2>1. Fresh(g, i, n)
    BY <1>1, NewControllerFields
  <2> QED
    BY <2>1 DEF Fresh
<1>4. /\ DOMAIN k = Fields /\ k.id = i /\ k.supported = g.supported
      /\ k.everEncrypted = g.everEncrypted /\ k.require = required
      /\ k.wasEncrypted = g.everEncrypted /\ k.users = {} /\ k.peer = None
      /\ k.starting = FALSE /\ k.key = NoKey /\ k.peerCommit = NoKey
      /\ k.mediaKey = k.secret /\ k.generation = 0 /\ k.cleartext = FALSE
      /\ k.transformFailed = FALSE /\ k.clearAgreed = FALSE /\ k.state = "idle"
      /\ k.tracks = "none"
  BY <1>2, <1>3 DEF Fields
<1>5. Controller(k, A)
  <2>1. Flags(k)
    BY <1>4 DEF Absent, Flags
  <2>2. IsFiniteSet(k.users)
    BY <1>4, FS_EmptySet
  <2>3. k.state \in States /\ "idle" # "established"
    BY <1>4 DEF States
  <2> QED
    BY <1>4, <2>1, <2>2, <2>3 DEF Controller, Absent
<1>6. required => Closed(k)
  BY <1>4 DEF Closed
<1>7. ~required /\ FailWhen = "required" => Calm(k, A)
  BY <1>4 DEF Calm, Optional
<1>8. SetRequire(n, required) = Recompute(k)
  BY <1>2 DEF SetRequire
<1>9. /\ Kept(k, Recompute(k).g, A) /\ Settled(Recompute(k).g)
      /\ Closed(k) => Strict(Recompute(k).g)
  BY <1>5, RecomputeSound DEF Outcome
<1> QED
  BY <1>1, <1>4, <1>6, <1>7, <1>8, <1>9 DEF Kept

-----------------------------------------------------------------------------

\* Handshakes that are being started are so one after the other.
StartsInOrder(rs) ==
    \A i, j \in DOMAIN rs :
        i < j /\ rs[i].at = "start" /\ rs[j].at = "start" => rs[i].gen < rs[j].gen

\* The group does not require encryption, and encryptors attach.
Lax == ~requireE2ee /\ FailWhen = "required"

\* The controller of a page that is in the room: encryption is required and
\* nothing is let out, or it is not and nothing surprising happens.
Resident(g) ==
    /\ Controller(g, Able) /\ Settled(g) /\ g.require = requireE2ee
    /\ requireE2ee => Strict(g)
    /\ Lax => Calm(g, Able)

\* The operations it has under way.
RunsGood(g, rs) ==
    /\ rs \in Seq(Range(rs)) /\ (~g.supported => rs = <<>>)
    /\ \A r \in Range(rs) : RunType(r) /\ (Lax => RunOK(g, r, Able))
    /\ Lax => StartsInOrder(rs)

\* Each page, with what it has under way, is in the room or is not.
PageInv(p) ==
    /\ pg[p].id \in IdsOf[p] \cup {None} /\ pg[p].supported \in BOOLEAN
    /\ pg[p].require => requireE2ee
    /\ ~Here(p) => Absent(pg[p]) /\ runs[p] = <<>>
    /\ Here(p) => Resident(pg[p]) /\ RunsGood(pg[p], runs[p])

\* What it is to receive.
InMail(p) ==
    /\ inbox[p] \in Seq(Range(inbox[p])) /\ (~Here(p) => inbox[p] = <<>>)
    /\ \A m \in Range(inbox[p]) : MsgOK(m) /\ (Lax => Honest(m, Able))

\* What it has sent.
OutMail(p) ==
    /\ outbox[p] \in Seq(Range(outbox[p]))
    /\ \A m \in Range(outbox[p]) : Letter(m) /\ (Lax => Honest(m, Able))

\* What the server knows.
Server ==
    /\ DOMAIN pg = Pages /\ DOMAIN runs = Pages /\ DOMAIN outbox = Pages
    /\ DOMAIN inbox = Pages /\ requireE2ee \in BOOLEAN
    /\ members \subseteq used /\ used \subseteq Ids /\ IsFiniteSet(members)

\* The inductive invariant.
Inv == Server /\ \A p \in Pages : PageInv(p) /\ InMail(p) /\ OutMail(p)

\* A queue and what it is with one element more, or one fewer.
Longer(q, x, w)  == q \in Seq(Range(q)) /\ (w = q \o <<x>> \/ w = Append(q, x))
Shorter(q, w) == q \in Seq(Range(q)) /\ q # <<>> /\ w = Tail(q)

\* A queue with one element more.
LEMMA LastElement ==
    ASSUME NEW q, NEW x, NEW w, Longer(q, x, w)
    PROVE  /\ w \in Seq(Range(w)) /\ Range(w) = Range(q) \cup {x}
           /\ Len(q) \in Nat /\ DOMAIN q = 1 .. Len(q)
           /\ DOMAIN w = 1 .. Len(q) + 1 /\ w[Len(q) + 1] = x
           /\ \A i \in 1 .. Len(q) : w[i] = q[i]
<1> DEFINE S == Range(q) \cup {x}
<1>1. q \in Seq(Range(q)) /\ (w = q \o <<x>> \/ w = Append(q, x))
  BY DEF Longer
<1>6. q \in Seq(S) /\ x \in S
  BY <1>1 DEF S
<1> HIDE DEF S
<1>2. /\ w \in Seq(S) /\ Len(w) = Len(q) + 1 /\ DOMAIN w = 1 .. Len(w) /\ w[Len(q) + 1] = x
      /\ \A i \in 1 .. Len(q) : w[i] = q[i]
      /\ Len(q) \in Nat /\ DOMAIN q = 1 .. Len(q)
  <2>1. CASE w = q \o <<x>>
    BY <1>6, <2>1
  <2>2. CASE w = Append(q, x)
    BY <1>6, <2>2
  <2> QED
    BY <1>1, <2>1, <2>2
<1>3. w \in Seq(Range(w)) /\ Range(w) \subseteq S
  BY <1>2, QueueOfItsElements
<1>4. Range(q) \subseteq Range(w)
  BY <1>2 DEF Range
<1>5. x \in Range(w)
  BY <1>2 DEF Range
<1> QED
  BY <1>2, <1>3, <1>4, <1>5 DEF S

\* A queue with one element fewer.
LEMMA FirstElement ==
    ASSUME NEW q, NEW w, Shorter(q, w)
    PROVE  /\ w \in Seq(Range(w)) /\ Range(w) \subseteq Range(q)
           /\ Head(q) = q[1] /\ Head(q) \in Range(q)
           /\ Len(q) \in Nat /\ Len(q) >= 1 /\ DOMAIN q = 1 .. Len(q)
           /\ DOMAIN w = 1 .. Len(q) - 1
           /\ \A i \in 1 .. Len(q) - 1 : w[i] = q[i + 1]
<1> DEFINE S == Range(q)
<1> HIDE DEF S
<1>1. /\ w \in Seq(S) /\ Len(w) = Len(q) - 1 /\ DOMAIN w = 1 .. Len(w)
      /\ Head(q) = q[1] /\ q[1] \in S
      /\ Len(q) \in Nat /\ Len(q) >= 1 /\ DOMAIN q = 1 .. Len(q)
      /\ \A i \in 1 .. Len(q) - 1 : w[i] = q[i + 1]
  BY DEF S, Shorter
<1>2. w \in Seq(Range(w)) /\ Range(w) \subseteq S
  BY <1>1, QueueOfItsElements
<1> QED
  BY <1>1, <1>2 DEF S

\* An identifier belongs to a page that can encrypt if its own page can.
LEMMA AbleFacts ==
    ASSUME Inv
    PROVE  /\ Able \subseteq Ids
           /\ \A p \in Pages : \A i \in IdsOf[p] : i \in Ids /\ (i \in Able <=> pg[p].supported)
<1>1. \A p, q \in Pages : p # q => IdsOf[p] \cap IdsOf[q] = {}
  BY E2EEAssumption
<1> QED
  BY <1>1 DEF Able, Ids

\* No step changes who can encrypt.
LEMMA AbleSame ==
    ASSUME \A q \in Pages : pg'[q].supported = pg[q].supported
    PROVE  Able' = Able
  BY DEF Able

\* A page that nothing happens to.
LEMMA PageSame ==
    ASSUME NEW q \in Pages, PageInv(q), pg'[q] = pg[q], runs'[q] = runs[q],
           Able' = Able, requireE2ee' = requireE2ee
    PROVE  PageInv(q)'
  BY DEF PageInv, Here, Resident, RunsGood, Lax

\* An outbox that nothing happens to.
LEMMA OutMailSame ==
    ASSUME NEW q \in Pages, OutMail(q), outbox'[q] = outbox[q], Able' = Able,
           requireE2ee' = requireE2ee
    PROVE  OutMail(q)'
  BY DEF OutMail, Lax

\* An inbox that nothing happens to.
LEMMA InMailSame ==
    ASSUME NEW q \in Pages, InMail(q), inbox'[q] = inbox[q], Able' = Able,
           requireE2ee' = requireE2ee, Here(q)' <=> Here(q)
    PROVE  InMail(q)'
  BY DEF InMail, Lax

\* What a handler of page p has to be for the invariant.
Handler(p, res, rest) ==
    LET g == pg[p] IN
    /\ Here(p) /\ Controller(res.g, Able) /\ res.g.id = g.id
    /\ res.g.supported = g.supported /\ res.g.require = g.require
    /\ g.generation <= res.g.generation
    /\ Settled(g) => Settled(res.g)
    /\ Strict(g) => Strict(res.g)
    /\ Lax => Calm(res.g, Able)
    /\ RunsGood(res.g, rest)
    /\ Lax => \A r \in Range(rest) : r.gen <= g.generation
    /\ Sends(g, res.out, Able) /\ Starts(g, res, Able)

\* The runs a handler leaves: the one it starts comes after all others, and a
\* handshake it starts is of a new generation.
LEMMA HandlerRuns ==
    ASSUME Inv, NEW p \in Pages, NEW res, NEW rest, Handler(p, res, rest)
    PROVE  RunsGood(res.g, rest \o res.runs)
<1> DEFINE g == pg[p]
<1>1. RunsGood(res.g, rest)
  BY DEF Handler
<1>2. CASE res.runs = <<>>
  <2>1. rest \in Seq(Range(rest))
    BY <1>1 DEF RunsGood
  <2>2. rest \o <<>> = rest
    BY <2>1
  <2> QED
    BY <1>1, <1>2, <2>2
<1>3. CASE res.runs # <<>>
  <2>1. PICK r : /\ res.runs = <<r>> /\ g.supported /\ RunType(r)
                 /\ Calm(g, Able) => RunOK(res.g, r, Able)
                 /\ r.at = "start" => g.generation < r.gen
    BY <1>3 DEF Handler, Starts
  <2>2. PICK w : w = rest \o <<r>>
    OBVIOUS
  <2> rest \in Seq(Range(rest))
    BY <1>1 DEF RunsGood
  <2>3. /\ w \in Seq(Range(w)) /\ Range(w) = Range(rest) \cup {r}
        /\ Len(rest) \in Nat /\ DOMAIN rest = 1 .. Len(rest)
        /\ DOMAIN w = 1 .. Len(rest) + 1 /\ w[Len(rest) + 1] = r
        /\ \A i \in 1 .. Len(rest) : w[i] = rest[i]
    <3>1. Longer(rest, r, w)
      BY <2>2 DEF Longer
    <3> QED
      BY <3>1, LastElement
  <2>4. Lax => RunOK(res.g, r, Able)
    <3>1. Lax => Calm(g, Able)
      BY DEF Inv, PageInv, Resident, Handler
    <3> QED
      BY <2>1, <3>1
  <2>5. \A x \in Range(w) : RunType(x) /\ (Lax => RunOK(res.g, x, Able))
    BY <1>1, <2>1, <2>3, <2>4 DEF RunsGood
  <2>6. ASSUME Lax PROVE StartsInOrder(w)
    <3>1. StartsInOrder(rest)
      BY <1>1, <2>6 DEF RunsGood
    <3>2. \A i \in 1 .. Len(rest) : rest[i] \in Range(rest) /\ rest[i].gen <= g.generation
      BY <2>3, <2>6 DEF Handler, Range
    <3>3. \A x \in Range(w) : x.gen \in Nat
      BY <2>5 DEF RunType
    <3>4. g.generation \in Nat
      BY DEF Inv, PageInv, Resident, Handler, Controller
    <3> SUFFICES ASSUME NEW i \in DOMAIN w, NEW j \in DOMAIN w, i < j,
                        w[i].at = "start", w[j].at = "start"
                 PROVE  w[i].gen < w[j].gen
      BY DEF StartsInOrder
    <3>5. i \in 1 .. Len(rest)
      BY <2>3
    <3>6. CASE j \in 1 .. Len(rest)
      BY <2>3, <3>1, <3>5, <3>6 DEF StartsInOrder
    <3>7. CASE j = Len(rest) + 1
      <4>1. w[j] = r /\ g.generation < r.gen
        BY <2>1, <2>3, <3>7
      <4>2. w[i].gen <= g.generation
        BY <2>3, <3>2, <3>5
      <4>3. w[i].gen \in Nat /\ r.gen \in Nat
        BY <2>3, <3>3 DEF Range
      <4> QED
        BY <3>4, <4>1, <4>2, <4>3
    <3> QED
      BY <2>3, <3>6, <3>7
  <2>7. ~res.g.supported => w = <<>>
    BY <2>1 DEF Handler
  <2> QED
    BY <2>1, <2>2, <2>3, <2>5, <2>6, <2>7 DEF RunsGood
<1> QED
  BY <1>2, <1>3

\* What a handler's step leaves of everybody's controller, runs and outbox.
Untouched ==
    /\ Able' = Able /\ requireE2ee' = requireE2ee
    /\ \A q \in Pages : pg'[q].id = pg[q].id /\ (Here(q)' <=> Here(q))

\* What the handler of page p does to the three that it writes.
Did(p, res, rest) ==
    /\ pg'[p] = res.g /\ \A q \in Pages \ {p} : pg'[q] = pg[q]
    /\ runs'[p] = rest \o res.runs /\ \A q \in Pages \ {p} : runs'[q] = runs[q]
    /\ outbox'[p] = outbox[p] \o res.out /\ \A q \in Pages \ {p} : outbox'[q] = outbox[q]
    /\ DOMAIN pg' = Pages /\ DOMAIN runs' = Pages /\ DOMAIN outbox' = Pages

\* What Apply comes to.
LEMMA ApplyDid ==
    ASSUME Inv, NEW p \in Pages, NEW res, NEW rest, Apply(p, res, rest)
    PROVE  Did(p, res, rest)
  BY DEF Inv, Server, Apply, Did

\* A handler that is as it should be leaves every page so.
LEMMA HandlerInv ==
    ASSUME Inv, NEW p \in Pages, NEW res, NEW rest, Handler(p, res, rest), Did(p, res, rest),
           UNCHANGED <<members, used, requireE2ee>>
    PROVE  /\ Untouched
           /\ DOMAIN pg' = Pages /\ DOMAIN runs' = Pages /\ DOMAIN outbox' = Pages
           /\ \A q \in Pages : PageInv(q)' /\ OutMail(q)'
<1>1. /\ pg'[p] = res.g /\ \A q \in Pages \ {p} : pg'[q] = pg[q]
      /\ runs'[p] = rest \o res.runs /\ \A q \in Pages \ {p} : runs'[q] = runs[q]
      /\ outbox'[p] = outbox[p] \o res.out /\ \A q \in Pages \ {p} : outbox'[q] = outbox[q]
      /\ DOMAIN pg' = Pages /\ DOMAIN runs' = Pages /\ DOMAIN outbox' = Pages
  BY DEF Did
<1>2. \A q \in Pages : pg'[q].supported = pg[q].supported /\ pg'[q].id = pg[q].id
  BY <1>1 DEF Handler
<1>3. Able' = Able
  BY <1>2, AbleSame
<1>4. \A q \in Pages : Here(q)' <=> Here(q)
  BY <1>2 DEF Here
<1>5. ASSUME NEW q \in Pages, q # p
      PROVE  PageInv(q)' /\ OutMail(q)'
  BY <1>1, <1>3, <1>5, PageSame, OutMailSame DEF Inv
<1>6. PageInv(p)'
  <2>1. RunsGood(res.g, rest \o res.runs)
    BY HandlerRuns
  <2>2. RunsGood(pg[p], runs[p])' <=> RunsGood(res.g, rest \o res.runs)
    BY <1>1, <1>3 DEF RunsGood, Lax
  <2>3. /\ pg[p].id \in IdsOf[p] \cup {None} /\ pg[p].supported \in BOOLEAN
        /\ (pg[p].require => requireE2ee) /\ Here(p) /\ Resident(pg[p])
    BY DEF Inv, PageInv, Handler
  <2>4. Resident(pg[p])'
    <3>1. /\ Controller(res.g, Able) /\ Settled(res.g) /\ res.g.require = requireE2ee
          /\ requireE2ee => Strict(res.g)
          /\ Lax => Calm(res.g, Able)
      BY <2>3 DEF Resident, Handler
    <3> QED
      BY <1>1, <1>3, <3>1 DEF Resident, Lax
  <2>5. pg'[p].id = pg[p].id /\ pg'[p].supported = pg[p].supported /\ pg'[p].require = pg[p].require
    BY <1>1 DEF Handler
  <2> QED
    BY <1>4, <2>1, <2>2, <2>3, <2>4, <2>5 DEF PageInv
<1>7. OutMail(p)'
  <2>1. /\ outbox[p] \in Seq(Range(outbox[p]))
        /\ \A m \in Range(outbox[p]) : Letter(m) /\ (Lax => Honest(m, Able))
    BY DEF Inv, OutMail
  <2>2. /\ res.out \in Seq(Range(res.out))
        /\ \A m \in Range(res.out) : Letter(m) /\ (Lax => Honest(m, Able))
    <3>1. Lax => Calm(pg[p], Able)
      BY DEF Inv, PageInv, Resident, Handler
    <3> QED
      BY <3>1 DEF Handler, Sends
  <2>3. PICK o : o = outbox[p] \o res.out
    OBVIOUS
  <2>4. o \in Seq(Range(o)) /\ Range(o) \subseteq Range(outbox[p]) \cup Range(res.out)
    <3>1. Joined(outbox[p], res.out, o)
      BY <2>1, <2>2, <2>3 DEF Joined
    <3> QED
      BY <3>1, BothQueues
  <2> QED
    BY <1>1, <1>3, <2>1, <2>2, <2>3, <2>4 DEF OutMail, Lax
<1> QED
  BY <1>1, <1>2, <1>3, <1>4, <1>5, <1>6, <1>7 DEF Untouched

\* A handler that treats the controller as it should, with its runs left alone.
LEMMA SoundAfterHandler ==
    ASSUME Inv, NEW p \in Pages, Here(p), NEW res, NEW x, x.at # "start",
           SoundAfter(pg[p], x, res, Able)
    PROVE  Handler(p, res, runs[p])
<1> DEFINE g == pg[p]
<1>1. Resident(g) /\ RunsGood(g, runs[p])
  BY DEF Inv, PageInv
<1>2. KeptAfter(g, x, res.g, Able) /\ Sends(g, res.out, Able) /\ Starts(g, res, Able)
      /\ Settled(res.g)
  BY <1>1 DEF SoundAfter, Resident
<1>3. Lax => Calm(g, Able)
  BY <1>1 DEF Resident
<1>4. \A r \in Range(runs[p]) : Lax => RunOK(g, r, Able) /\ r.gen <= g.generation
  BY <1>1 DEF RunsGood, RunOK
<1>5. ASSUME NEW r \in Range(runs[p]), Lax
      PROVE  RunOK(res.g, r, Able)
  <2>1. runs[p] # <<>>
    BY <1>5 DEF Range
  <2>2. g.supported /\ RunType(r)
    BY <1>1, <2>1 DEF RunsGood, Inv, PageInv
  <2> QED
    BY <1>2, <1>3, <1>4, <1>5, <2>2 DEF KeptAfter
<1>6. RunsGood(res.g, runs[p])
  BY <1>1, <1>2, <1>5 DEF RunsGood, KeptAfter
<1> QED
  BY <1>2, <1>3, <1>4, <1>6 DEF Handler, KeptAfter

\* A handler that keeps everything.
LEMMA SoundHandler ==
    ASSUME Inv, NEW p \in Pages, Here(p), NEW res, Sound(pg[p], res, Able)
    PROVE  Handler(p, res, runs[p])
<1>1. PICK x : x = [at |-> "none"]
  OBVIOUS
<1>2. x.at # "start"
  BY <1>1
<1>3. SoundAfter(pg[p], x, res, Able)
  BY KeptSo
<1> QED
  BY <1>2, <1>3, SoundAfterHandler

-----------------------------------------------------------------------------

\* SetToSeq lists the elements of a finite set.
LEMMA SetToSeqOfFinite ==
    ASSUME NEW S, IsFiniteSet(S)
    PROVE  SetToSeq(S) \in Seq(Range(SetToSeq(S))) /\ Range(SetToSeq(S)) \subseteq S
<1>1. Cardinality(S) \in Nat /\ ExistsBijection(1 .. Cardinality(S), S)
  BY FS_CardinalityType
<1>2. PICK f \in [1 .. Cardinality(S) -> S] : IsInjective(f)
  BY <1>1 DEF ExistsBijection, Bijection, Injection
<1>3. SetToSeq(S) \in [1 .. Cardinality(S) -> S]
  BY <1>2 DEF SetToSeq
<1>4. SetToSeq(S) \in Seq(S)
  BY <1>1, <1>3
<1> QED
  BY <1>4, QueueOfItsElements

\* What the server says itself.
LEMMA NotesAreGood ==
    ASSUME NEW type \in {"add", "delete"}, NEW i \in Ids, NEW A
    PROVE  MsgOK(Note(type, i)) /\ Honest(Note(type, i), A)
  BY DEF MsgOK, Honest, Note, Types, Handshake

\* The list of participants that a new connection is sent.
LEMMA GreetingIsGood ==
    ASSUME Inv, NEW w, w = SetToSeq({Note("add", m) : m \in members})
    PROVE  /\ w \in Seq(Range(w))
           /\ \A m \in Range(w) : MsgOK(m) /\ Honest(m, Able)
<1> DEFINE T == {Note("add", m) : m \in members}
           f == [m \in members |-> Note("add", m)]
<1>1. f \in Surjection(members, T)
  BY DEF Surjection
<1>2. IsFiniteSet(T)
  BY <1>1, FS_Surjection DEF Inv, Server
<1>3. w = SetToSeq(T)
  OBVIOUS
<1>4. \A m \in T : MsgOK(m) /\ Honest(m, Able)
  BY NotesAreGood DEF Inv, Server
<1> HIDE DEF T, f
<1> QED
  BY <1>2, <1>3, <1>4, SetToSeqOfFinite

\* What the server announces.
LEMMA AnnounceIsGood ==
    ASSUME Inv, NEW type \in {"add", "delete"}, NEW i \in Ids, NEW others, NEW q \in Pages
    PROVE  LET w == Announce(type, i, others)[q]
           IN  /\ w \in Seq(Range(w)) /\ (~Here(q) => w = <<>>)
               /\ \A m \in Range(w) : MsgOK(m) /\ (Lax => Honest(m, Able))
<1> DEFINE w == Announce(type, i, others)[q]
<1>1. w = IF Here(q) /\ pg[q].id \in others THEN Append(inbox[q], Note(type, i)) ELSE inbox[q]
  BY DEF Announce
<1> HIDE DEF w
<1>2. InMail(q)
  BY DEF Inv
<1>3. CASE w = inbox[q]
  BY <1>2, <1>3 DEF InMail, w
<1>4. CASE Here(q) /\ w = Append(inbox[q], Note(type, i))
  <2>1. Longer(inbox[q], Note(type, i), w)
    BY <1>2, <1>4 DEF Longer, InMail
  <2>2. w \in Seq(Range(w)) /\ Range(w) = Range(inbox[q]) \cup {Note(type, i)}
    BY <2>1, LastElement
  <2>3. MsgOK(Note(type, i)) /\ Honest(Note(type, i), Able)
    BY NotesAreGood
  <2> QED
    BY <1>2, <1>4, <2>2, <2>3 DEF InMail, w
<1> QED
  BY <1>1, <1>3, <1>4

-----------------------------------------------------------------------------
(* One lemma per step.                                                     *)

\* The invariant, part by part.
LEMMA InvAgain ==
    ASSUME Server', \A q \in Pages : PageInv(q)' /\ InMail(q)' /\ OutMail(q)'
    PROVE  Inv'
  BY DEF Inv

\* No inbox changes.
LEMMA InboxesSame ==
    ASSUME Inv, Untouched, inbox' = inbox
    PROVE  \A q \in Pages : InMail(q)'
  BY InMailSame DEF Inv, Untouched

\* A handler that takes nothing from the inbox.
LEMMA HandlerStep ==
    ASSUME Inv, NEW p \in Pages, NEW res, NEW rest, Handler(p, res, rest), Did(p, res, rest),
           UNCHANGED <<inbox, members, used, requireE2ee>>
    PROVE  Inv'
<1>1. /\ Untouched
      /\ DOMAIN pg' = Pages /\ DOMAIN runs' = Pages /\ DOMAIN outbox' = Pages
      /\ \A q \in Pages : PageInv(q)' /\ OutMail(q)'
  BY HandlerInv
<1>2. Server'
  BY <1>1 DEF Inv, Server
<1>3. \A q \in Pages : InMail(q)'
  BY <1>1, InboxesSame
<1> QED
  BY <1>1, <1>2, <1>3, InvAgain

\* A page joins.
LEMMA ConnectInv ==
    ASSUME Inv, NEW p \in Pages, Connect(p) PROVE Inv'
<1>1. PICK i \in IdsOf[p] \ used :
        /\ ~Here(p)
        /\ pg' = [pg EXCEPT ![p] =
                    SetRequire(NewController(pg[p], i),
                               KeepStatus(NewController(pg[p], i), requireE2ee)).g]
        /\ inbox' = [Announce("add", i, members) EXCEPT
                        ![p] = SetToSeq({Note("add", m) : m \in members})]
        /\ members' = members \cup {i}
        /\ used' = used \cup {i}
        /\ UNCHANGED <<runs, outbox, requireE2ee>>
  BY DEF Connect
<1> DEFINE g == pg[p]  h == SetRequire(NewController(g, i), requireE2ee).g
<1>2. i \in Ids /\ Able \subseteq Ids /\ (i \in Able <=> g.supported) /\ requireE2ee \in BOOLEAN
  BY AbleFacts DEF Inv, Server
<1>3. Absent(g) /\ runs[p] = <<>> /\ inbox[p] = <<>>
  BY <1>1 DEF Inv, PageInv, InMail
<1>4. KeepStatus(NewController(g, i), requireE2ee) = requireE2ee
  <2>1. g.require \in BOOLEAN /\ (g.require => requireE2ee) /\ DOMAIN g = Fields
    BY <1>3 DEF Inv, PageInv, Absent
  <2>2. NewController(g, i).require = g.require
    <3>1. Fresh(g, i, NewController(g, i))
      BY NewControllerFields
    <3>2. PICK n : n = NewController(g, i)
      OBVIOUS
    <3>3. Fresh(g, i, n)
      BY <3>1, <3>2
    <3>4. n.require = g.require
      BY <3>3 DEF Fresh
    <3> QED
      BY <3>2, <3>4
  <2> QED
    BY <1>2, <2>1, <2>2 DEF KeepStatus
<1>5. /\ pg'[p] = h /\ \A q \in Pages \ {p} : pg'[q] = pg[q]
      /\ inbox'[p] = SetToSeq({Note("add", m) : m \in members})
      /\ \A q \in Pages \ {p} : inbox'[q] = Announce("add", i, members)[q]
      /\ DOMAIN pg' = Pages /\ DOMAIN inbox' = Pages
  BY <1>1, <1>4 DEF Inv, Server, Announce
<1>6. /\ Controller(h, Able) /\ Settled(h) /\ h.id = i /\ h.supported = g.supported
      /\ h.require = requireE2ee
      /\ requireE2ee => Strict(h)
      /\ Lax => Calm(h, Able)
  BY <1>2, <1>3, ConnectSound DEF Lax
<1> HIDE DEF h
<1>7. Able' = Able
  BY <1>5, <1>6, AbleSame
<1>8. i # None
  BY <1>1, E2EEAssumption DEF None
<1>9. Here(p)' /\ \A q \in Pages \ {p} : Here(q)' <=> Here(q)
  BY <1>5, <1>6, <1>8 DEF Here
<1>10. Server'
  <2>1. IsFiniteSet(members')
    BY <1>1, FS_AddElement DEF Inv, Server
  <2> QED
    BY <1>1, <1>2, <1>5, <2>1 DEF Inv, Server
<1>11. PageInv(p)'
  <2>1. RunsGood(h, <<>>)
    BY DEF RunsGood, Range, StartsInOrder
  <2>2. RunsGood(pg[p], runs[p])'
    BY <1>1, <1>3, <1>5, <1>7, <2>1 DEF RunsGood, Lax
  <2>3. Resident(pg[p])'
    BY <1>1, <1>5, <1>6, <1>7 DEF Resident, Lax
  <2>4. h.supported \in BOOLEAN /\ h.id \in IdsOf[p] /\ (h.require => requireE2ee)
    BY <1>1, <1>3, <1>6 DEF Absent
  <2> QED
    BY <1>1, <1>5, <1>9, <2>2, <2>3, <2>4 DEF PageInv
<1>12. InMail(p)'
  <2>1. PICK w : w = SetToSeq({Note("add", m) : m \in members})
    OBVIOUS
  <2>2. w \in Seq(Range(w)) /\ \A m \in Range(w) : MsgOK(m) /\ Honest(m, Able)
    BY <2>1, GreetingIsGood
  <2>3. inbox'[p] = w
    BY <1>5, <2>1
  <2> QED
    BY <1>7, <1>9, <2>2, <2>3 DEF InMail
<1>13. ASSUME NEW q \in Pages, q # p
       PROVE  PageInv(q)' /\ InMail(q)'
  <2>1. PageInv(q)'
    BY <1>1, <1>5, <1>7, <1>13, PageSame DEF Inv
  <2>2. PICK w : w = Announce("add", i, members)[q]
    OBVIOUS
  <2>3. /\ w \in Seq(Range(w)) /\ (~Here(q) => w = <<>>)
        /\ \A m \in Range(w) : MsgOK(m) /\ (Lax => Honest(m, Able))
    BY <1>2, <2>2, AnnounceIsGood
  <2>4. inbox'[q] = w /\ (Here(q)' <=> Here(q))
    BY <1>5, <1>9, <1>13, <2>2
  <2> QED
    BY <1>1, <1>7, <2>1, <2>3, <2>4 DEF InMail, Lax
<1>14. \A q \in Pages : OutMail(q)'
  BY <1>1, <1>7, OutMailSame DEF Inv
<1> QED
  BY <1>10, <1>11, <1>12, <1>13, <1>14, InvAgain

\* A page goes.
LEMMA DisconnectInv ==
    ASSUME Inv, NEW p \in Pages, Disconnect(p) PROVE Inv'
<1>1. PICK h : h = NewController(pg[p], None)
  OBVIOUS
<1>2. /\ Here(p) /\ pg'[p] = h /\ \A q \in Pages \ {p} : pg'[q] = pg[q]
      /\ runs'[p] = <<>> /\ \A q \in Pages \ {p} : runs'[q] = runs[q]
      /\ outbox'[p] = <<>> /\ \A q \in Pages \ {p} : outbox'[q] = outbox[q]
      /\ inbox'[p] = <<>> /\ \A q \in Pages \ {p} : inbox'[q] = inbox[q]
      /\ UNCHANGED <<members, used, requireE2ee>>
      /\ Server'
  BY <1>1 DEF Disconnect, Inv, Server
<1>3. Controller(pg[p], Able) /\ pg[p].require = requireE2ee
  BY <1>2 DEF Inv, PageInv, Resident
<1>4. Absent(h) /\ h.supported = pg[p].supported /\ h.require = pg[p].require /\ h.id = None
  <2>1. Flags(pg[p]) /\ DOMAIN pg[p] = Fields /\ (~pg[p].supported => ~pg[p].everEncrypted)
    BY <1>3 DEF Controller
  <2>2. /\ DOMAIN h = Fields /\ h.supported = pg[p].supported
        /\ h.everEncrypted = pg[p].everEncrypted /\ h.require = pg[p].require
        /\ h.id = None /\ h.users = {} /\ h.peer = None /\ h.state = "idle"
        /\ h.tracks = "none" /\ h.cleartext = FALSE
    <3>1. Fresh(pg[p], None, h)
      BY <1>1, NewControllerFields
    <3> QED
      BY <3>1 DEF Fresh
  <2> QED
    BY <2>1, <2>2 DEF Absent, Flags
<1>5. Able' = Able
  BY <1>2, <1>4, AbleSame
<1>6. ~Here(p)' /\ \A q \in Pages \ {p} : Here(q)' <=> Here(q)
  BY <1>2, <1>4 DEF Here
<1>7. PageInv(p)' /\ InMail(p)' /\ OutMail(p)'
  <2>1. <<>> \in Seq(Range(<<>>)) /\ Range(<<>>) = {}
    BY DEF Range
  <2>2. InMail(p)' /\ OutMail(p)'
    BY <1>2, <2>1 DEF InMail, OutMail
  <2>3. h.supported \in BOOLEAN
    BY <1>4 DEF Absent
  <2> QED
    BY <1>2, <1>3, <1>4, <1>6, <2>2, <2>3 DEF PageInv
<1>8. ASSUME NEW q \in Pages, q # p
      PROVE  PageInv(q)' /\ InMail(q)' /\ OutMail(q)'
  BY <1>2, <1>5, <1>6, <1>8, PageSame, InMailSame, OutMailSame DEF Inv
<1> QED
  BY <1>2, <1>7, <1>8, InvAgain

\* The server notices that a page has gone.
LEMMA ExpireInv ==
    ASSUME Inv, NEW i \in Ids, Expire(i) PROVE Inv'
<1>1. /\ members' = members \ {i} /\ inbox' = Announce("delete", i, members \ {i})
      /\ UNCHANGED <<pg, runs, outbox, used, requireE2ee>>
  BY DEF Expire
<1>2. Able' = Able
  BY <1>1 DEF Able
<1>3. Server'
  <2>1. IsFiniteSet(members \ {i})
    BY FS_RemoveElement DEF Inv, Server
  <2> QED
    BY <1>1, <2>1 DEF Inv, Server, Announce
<1>4. ASSUME NEW q \in Pages
      PROVE  PageInv(q)' /\ InMail(q)' /\ OutMail(q)'
  <2>1. PageInv(q)' /\ OutMail(q)'
    BY <1>1, <1>2, PageSame, OutMailSame DEF Inv
  <2>2. PICK w : w = Announce("delete", i, members \ {i})[q]
    OBVIOUS
  <2>3. /\ w \in Seq(Range(w)) /\ (~Here(q) => w = <<>>)
        /\ \A m \in Range(w) : MsgOK(m) /\ (Lax => Honest(m, Able))
    BY <2>2, AnnounceIsGood
  <2>4. inbox'[q] = w /\ (Here(q)' <=> Here(q))
    BY <1>1, <2>2 DEF Here
  <2> QED
    BY <1>1, <1>2, <2>1, <2>3, <2>4 DEF InMail, Lax
<1> QED
  BY <1>3, <1>4, InvAgain

\* The server relays a message.
LEMMA RelayInv ==
    ASSUME Inv, NEW p \in Pages, Relay(p) PROVE Inv'
<1>1. /\ outbox[p] # <<>> /\ DOMAIN outbox = Pages /\ DOMAIN inbox = Pages
      /\ OutMail(p) /\ 0 \notin Ids
  <2>1. outbox[p] # <<>>
    BY DEF Relay
  <2>2. 0 \notin Ids
    BY E2EEAssumption DEF Ids
  <2> QED
    BY <2>1, <2>2 DEF Inv, Server
<1>2. PICK w : w = Tail(outbox[p])
  OBVIOUS
<1>3. PICK m : m = Head(outbox[p])
  OBVIOUS
<1>4. w \in Seq(Range(w)) /\ Range(w) \subseteq Range(outbox[p]) /\ m \in Range(outbox[p])
  <2>1. Shorter(outbox[p], w)
    BY <1>1, <1>2 DEF Shorter, OutMail
  <2> QED
    BY <1>3, <2>1, FirstElement
<1>5. Letter(m) /\ (Lax => Honest(m, Able))
  BY <1>1, <1>4 DEF OutMail
<1>6. /\ inbox' = (IF \E q \in Pages : pg[q].id = m.to
                   THEN [inbox EXCEPT ![PageOf(m.to)] = Append(@, m)] ELSE inbox)
      /\ outbox' = [outbox EXCEPT ![p] = w]
      /\ UNCHANGED <<pg, runs, members, used, requireE2ee>>
  BY <1>2, <1>3 DEF Relay
<1>7. Able' = Able /\ \A q \in Pages : Here(q)' <=> Here(q)
  BY <1>6 DEF Able, Here
<1>8. Server'
  BY <1>6 DEF Inv, Server
<1>9. \A q \in Pages : PageInv(q)'
  BY <1>6, <1>7, PageSame DEF Inv
<1>10. \A q \in Pages : OutMail(q)'
  <2>1. OutMail(p)'
    BY <1>1, <1>4, <1>6, <1>7 DEF OutMail, Lax
  <2>2. ASSUME NEW q \in Pages, q # p PROVE OutMail(q)'
    BY <1>1, <1>6, <1>7, <2>2, OutMailSame DEF Inv
  <2> QED
    BY <2>1, <2>2
<1>11. CASE \A q \in Pages : pg[q].id # m.to
  BY <1>6, <1>7, <1>8, <1>9, <1>10, <1>11, InMailSame, InvAgain DEF Inv
<1>12. CASE \E q \in Pages : pg[q].id = m.to
  <2>1. PICK x : x = PageOf(m.to)
    OBVIOUS
  <2>2. x \in Pages /\ pg[x].id = m.to
    BY <1>12, <2>1 DEF PageOf
  <2>3. Here(x)
    BY <1>1, <1>5, <2>2 DEF Here, None, Letter
  <2>4. PICK z : z = Append(inbox[x], m)
    OBVIOUS
  <2>5. inbox'[x] = z /\ \A q \in Pages \ {x} : inbox'[q] = inbox[q]
    BY <1>1, <1>6, <1>12, <2>1, <2>2, <2>4
  <2>6. InMail(x)
    BY <2>2 DEF Inv
  <2>7. Longer(inbox[x], m, z)
    BY <2>4, <2>6 DEF Longer, InMail
  <2>8. z \in Seq(Range(z)) /\ Range(z) = Range(inbox[x]) \cup {m}
    BY <2>7, LastElement
  <2>9. InMail(x)'
    BY <1>5, <1>6, <1>7, <2>2, <2>3, <2>5, <2>6, <2>8 DEF InMail, Lax, Letter
  <2>10. ASSUME NEW q \in Pages, q # x PROVE InMail(q)'
    BY <1>6, <1>7, <2>5, <2>10, InMailSame DEF Inv
  <2> QED
    BY <1>8, <1>9, <1>10, <2>9, <2>10, InvAgain
<1> QED
  BY <1>11, <1>12

\* A page takes a message.
LEMMA DeliverInv ==
    ASSUME Inv, NEW p \in Pages, Deliver(p) PROVE Inv'
<1> DEFINE g == pg[p]
<1>1. inbox[p] # <<>> /\ InMail(p) /\ DOMAIN inbox = Pages
  BY DEF Deliver, Inv, Server
<1>2. PICK w : w = Tail(inbox[p])
  OBVIOUS
<1>3. PICK m : m = Head(inbox[p])
  OBVIOUS
<1>4. w \in Seq(Range(w)) /\ Range(w) \subseteq Range(inbox[p]) /\ m \in Range(inbox[p])
  <2>1. Shorter(inbox[p], w)
    BY <1>1, <1>2 DEF Shorter, InMail
  <2> QED
    BY <1>3, <2>1, FirstElement
<1>5. MsgOK(m) /\ (Lax => Honest(m, Able)) /\ Here(p)
  BY <1>1, <1>4 DEF InMail
<1>6. Resident(g) /\ Able \subseteq Ids
  BY <1>5, AbleFacts DEF Inv, PageInv
<1>7. PICK res : /\ res = (CASE m.type = "add"      -> AddUser(g, m.from)
                             [] m.type = "delete"   -> DelUser(g, m.from)
                             [] m.type = "e2eechat" -> DecryptChat(g, m)
                             [] OTHER               -> OnMessage(g, m))
                 /\ Apply(p, res, runs[p])
                 /\ inbox' = [inbox EXCEPT ![p] = w]
                 /\ UNCHANGED <<members, used, requireE2ee>>
  BY <1>2, <1>3 DEF Deliver
<1>8. Sound(g, res, Able)
  <2>1. CASE m.type = "add"
    BY <1>5, <1>6, <1>7, <2>1, AddUserSound DEF MsgOK, Resident
  <2>2. CASE m.type = "delete"
    BY <1>6, <1>7, <2>2, DelUserSound DEF Resident
  <2>3. CASE m.type = "e2eechat"
    BY <1>6, <1>7, <2>3, DecryptChatSound DEF Resident
  <2>4. CASE m.type \in Handshake \cup {"nocrypto"}
    <3>1. Optional(g) => Lax
      BY <1>6 DEF Optional, Lax, Resident
    <3>2. res = OnMessage(g, m)
      BY <1>7, <2>4 DEF Handshake
    <3> QED
      BY <1>5, <1>6, <2>4, <3>1, <3>2, OnMessageSound DEF Resident
  <2> QED
    BY <1>5, <2>1, <2>2, <2>3, <2>4 DEF MsgOK, Types
<1>9. Handler(p, res, runs[p])
  BY <1>5, <1>8, SoundHandler
<1>10. /\ Untouched
       /\ DOMAIN pg' = Pages /\ DOMAIN runs' = Pages /\ DOMAIN outbox' = Pages
       /\ \A q \in Pages : PageInv(q)' /\ OutMail(q)'
  BY <1>7, <1>9, HandlerInv, ApplyDid
<1>11. Server'
  BY <1>1, <1>7, <1>10 DEF Inv, Server
<1>12. InMail(p)'
  BY <1>1, <1>4, <1>5, <1>7, <1>10 DEF InMail, Untouched, Lax
<1>13. ASSUME NEW q \in Pages, q # p PROVE InMail(q)'
  BY <1>1, <1>7, <1>10, <1>13, InMailSame DEF Inv, Untouched
<1> QED
  BY <1>10, <1>11, <1>12, <1>13, InvAgain

\* An asynchronous operation completes: every handshake that was started
\* after it is of a later generation.
LEMMA CompleteInv ==
    ASSUME Inv, NEW p \in Pages, Complete(p) PROVE Inv'
<1>1. PICK g : g = pg[p]
  OBVIOUS
<1>2. PICK rest : rest = Tail(runs[p])
  OBVIOUS
<1>3. PICK r : r = Head(runs[p])
  OBVIOUS
<1>4. PICK res : res = Completed(g, r)
  OBVIOUS
<1>5. runs[p] # <<>> /\ Here(p) /\ Resident(g) /\ RunsGood(g, runs[p]) /\ Able \subseteq Ids
      /\ g.supported \in BOOLEAN
  BY <1>1, AbleFacts DEF Complete, Inv, PageInv
<1>6. Shorter(runs[p], rest)
  BY <1>2, <1>5 DEF Shorter, RunsGood
<1>7. /\ rest \in Seq(Range(rest)) /\ Range(rest) \subseteq Range(runs[p])
      /\ r = runs[p][1] /\ r \in Range(runs[p])
      /\ Len(runs[p]) \in Nat /\ Len(runs[p]) >= 1 /\ DOMAIN runs[p] = 1 .. Len(runs[p])
      /\ DOMAIN rest = 1 .. Len(runs[p]) - 1
      /\ \A i \in 1 .. Len(runs[p]) - 1 : rest[i] = runs[p][i + 1]
  BY <1>3, <1>6, FirstElement
<1>8. g.supported /\ RunType(r)
  BY <1>5, <1>7 DEF RunsGood
<1>9. Optional(g) => Calm(g, Able) /\ RunOK(g, r, Able)
  <2>1. Optional(g) => Lax
    BY <1>5 DEF Optional, Lax, Resident
  <2> QED
    BY <1>5, <1>7, <2>1 DEF Resident, RunsGood
<1>10. SoundAfter(g, r, res, Able)
  BY <1>4, <1>5, <1>8, <1>9, CompletedSound DEF Resident
<1>11. Lax => Calm(g, Able)
  BY <1>5 DEF Resident
<1>12. ASSUME NEW x \in Range(rest), Lax
       PROVE  RunOK(res.g, x, Able) /\ x.gen <= g.generation
  <2>1. RunType(x) /\ RunOK(g, x, Able)
    BY <1>5, <1>7, <1>12 DEF RunsGood
  <2>2. r.at = "start" /\ x.at = "start" => r.gen < x.gen
    <3>1. PICK i \in 1 .. Len(runs[p]) - 1 : x = rest[i]
      BY <1>7 DEF Range
    <3>2. x = runs[p][i + 1] /\ i + 1 \in DOMAIN runs[p] /\ 1 \in DOMAIN runs[p] /\ 1 < i + 1
      BY <1>7, <3>1
    <3>3. r.at = "start" /\ x.at = "start" => r.gen < x.gen
      BY <1>5, <1>7, <1>12, <3>2 DEF RunsGood, StartsInOrder
    <3> QED
      BY <3>3
  <2> QED
    BY <1>8, <1>10, <1>11, <1>12, <2>1, <2>2 DEF SoundAfter, KeptAfter, RunOK
<1>13. Lax => StartsInOrder(rest)
  <2> SUFFICES ASSUME Lax, NEW i \in DOMAIN rest, NEW j \in DOMAIN rest, i < j,
                      rest[i].at = "start", rest[j].at = "start"
               PROVE  rest[i].gen < rest[j].gen
    BY DEF StartsInOrder
  <2>1. /\ i + 1 \in DOMAIN runs[p] /\ j + 1 \in DOMAIN runs[p] /\ i + 1 < j + 1
        /\ rest[i] = runs[p][i + 1] /\ rest[j] = runs[p][j + 1]
    BY <1>7
  <2>2. StartsInOrder(runs[p])
    BY <1>5 DEF RunsGood
  <2> QED
    BY <2>1, <2>2 DEF StartsInOrder
<1>14. \A x \in Range(rest) : RunType(x)
  BY <1>5, <1>7 DEF RunsGood
<1>15. RunsGood(res.g, rest)
  BY <1>7, <1>8, <1>10, <1>12, <1>13, <1>14 DEF RunsGood, SoundAfter, KeptAfter
<1>16. Handler(p, res, rest)
  BY <1>1, <1>5, <1>10, <1>11, <1>12, <1>15 DEF Handler, SoundAfter, KeptAfter
<1>17. Apply(p, res, rest) /\ UNCHANGED <<inbox, members, used, requireE2ee>>
  BY <1>1, <1>2, <1>3, <1>4 DEF Complete
<1> QED
  BY <1>16, <1>17, HandlerStep, ApplyDid

\* The group's status comes again, and is the same.
LEMMA StatusKept ==
    ASSUME NEW A, NEW g, Controller(g, A), NEW k, k = [g EXCEPT !.require = g.require]
    PROVE  Kept(g, k, A)
<1>1. /\ DOMAIN k = Fields /\ SameRoom(g, k) /\ SameHandshake(g, k) /\ SamePage(g, k)
      /\ SameKeys(g, k) /\ SameMedia(g, k) /\ k.state = g.state
  BY DEF Controller, Fields, SameRoom, SameHandshake, SamePage, SameKeys, SameMedia
<1>2. Flags(k)
  BY <1>1 DEF Controller, Flags, SameRoom, SameHandshake, SamePage, SameMedia
<1>3. Controller(k, A)
  BY <1>1, <1>2 DEF Controller, SameRoom, SameHandshake, SamePage, SameKeys, SameMedia
<1>4. (Closed(g) => Closed(k)) /\ (Strict(g) => Strict(k))
  BY <1>1 DEF Strict, Closed, SameRoom, SameMedia, SamePage
<1>5. Calm(g, A) => Calm(k, A)
  BY <1>1 DEF Calm, Optional, SameRoom, SameHandshake, SamePage, SameMedia
<1>6. ASSUME NEW r, RunOK(g, r, A) PROVE RunOK(k, r, A)
  BY <1>1, <1>6 DEF RunOK, SameHandshake, SameKeys, SameMedia
<1>7. g.generation <= k.generation
  BY <1>1 DEF Controller, SameKeys
<1> QED
  BY <1>1, <1>3, <1>4, <1>5, <1>6, <1>7 DEF Kept, SamePage, SameRoom

\* The group's status comes again.
LEMMA ChangedInv ==
    ASSUME Inv, NEW p \in Pages, Changed(p) PROVE Inv'
<1>1. PICK g : g = pg[p]
  OBVIOUS
<1>2. PICK k : k = [g EXCEPT !.require = g.require]
  OBVIOUS
<1>3. PICK res : res = Recompute(k)
  OBVIOUS
<1>4. Here(p) /\ Controller(g, Able) /\ Able \subseteq Ids
  BY <1>1, AbleFacts DEF Changed, Inv, PageInv, Resident
<1>5. Kept(g, k, Able)
  BY <1>2, <1>4, StatusKept
<1>6. Outcome(k, res, Able) /\ Settled(res.g)
  BY <1>3, <1>4, <1>5, RecomputeSound DEF Kept
<1>7. Sound(g, res, Able)
  BY <1>4, <1>5, <1>6, OutcomeAfter DEF Sound
<1>8. Handler(p, res, runs[p])
  BY <1>1, <1>4, <1>7, SoundHandler
<1>9. Apply(p, res, runs[p]) /\ UNCHANGED <<inbox, members, used, requireE2ee>>
  BY <1>1, <1>2, <1>3 DEF Changed, SetRequire
<1> QED
  BY <1>8, <1>9, HandlerStep, ApplyDid

\* A page that turns a camera on or off.
LEMMA TracksHandler ==
    ASSUME Inv, NEW p \in Pages, Here(p), NEW h, NEW t \in {"none", "sealed", "bare"},
           t = "bare" => ~pg[p].supported /\ MayPublish(pg[p]),
           h = [pg[p] EXCEPT !.tracks = t]
    PROVE  Handler(p, Just(h), runs[p])
<1>1. PICK g : g = pg[p]
  OBVIOUS
<1>2. Controller(g, Able)
  BY <1>1 DEF Inv, PageInv, Resident
<1>3. PICK x : x = [at |-> "none"]
  OBVIOUS
<1>4. x.at # "start"
  BY <1>3
<1>5. /\ Controller(h, Able) /\ SameRoom(g, h) /\ SameHandshake(g, h) /\ SamePage(g, h)
      /\ SameKeys(g, h) /\ h.cleartext = g.cleartext /\ h.state = g.state /\ h.tracks = t
      /\ Strict(g) => Strict(h)
      /\ Calm(g, Able) => Calm(h, Able)
      /\ \A r : RunOK(g, r, Able) => RunOK(h, r, Able)
  BY <1>1, <1>2, TracksKept
<1>6. g.generation <= h.generation
  BY <1>2, <1>5 DEF SameKeys, Controller
<1>7. KeptAfter(g, x, h, Able)
  BY <1>5, <1>6 DEF KeptAfter, SamePage, SameRoom
<1>8. Just(h).g = h /\ Sends(g, Just(h).out, Able) /\ Starts(g, Just(h), Able)
  BY DEF Just, Result, Sends, Starts, Range
<1>9. Settled(g) => Settled(h)
  BY <1>5 DEF Settled, SameRoom, SameHandshake
<1>10. SoundAfter(g, x, Just(h), Able)
  BY <1>7, <1>8, <1>9 DEF SoundAfter
<1> QED
  BY <1>1, <1>4, <1>10, SoundAfterHandler

\* A camera is turned on.
LEMMA PublishInv ==
    ASSUME Inv, NEW p \in Pages, Publish(p) PROVE Inv'
<1>1. PICK g : g = pg[p]
  OBVIOUS
<1>2. PICK t : t = IF g.supported THEN "sealed" ELSE "bare"
  OBVIOUS
<1>3. PICK h : h = [g EXCEPT !.tracks = t]
  OBVIOUS
<1>4. /\ Here(p) /\ Controller(g, Able) /\ MayPublish(g) /\ g.supported \in BOOLEAN
      /\ Apply(p, Just(h), runs[p]) /\ UNCHANGED <<inbox, members, used, requireE2ee>>
  BY <1>1, <1>2, <1>3 DEF Publish, Inv, PageInv, Resident
<1>5. t \in {"none", "sealed", "bare"} /\ (t = "bare" => ~g.supported /\ MayPublish(g))
  BY <1>2, <1>4
<1>6. Handler(p, Just(h), runs[p])
  BY <1>1, <1>3, <1>4, <1>5, TracksHandler
<1> QED
  BY <1>4, <1>6, HandlerStep, ApplyDid

\* An encryptor fails to attach.
LEMMA AttachFailsInv ==
    ASSUME Inv, NEW p \in Pages, AttachFails(p) PROVE Inv'
<1>1. PICK g : g = pg[p]
  OBVIOUS
<1>2. PICK h : h = Bare(g)
  OBVIOUS
<1>3. PICK res : res = SayCannot(h)
  OBVIOUS
<1>4. /\ Here(p) /\ Resident(g) /\ RunsGood(g, runs[p]) /\ g.supported
      /\ FailWhen = "any" \/ g.require
      /\ Apply(p, res, runs[p]) /\ UNCHANGED <<inbox, members, used, requireE2ee>>
  BY <1>1, <1>2, <1>3 DEF AttachFails, Inv, PageInv, Bare
<1>5. /\ Controller(res.g, Able) /\ res.g.id = g.id /\ res.g.supported = g.supported
      /\ res.g.require = g.require /\ res.g.generation = g.generation
      /\ Settled(g) => Settled(res.g)
      /\ Strict(g) => Strict(res.g)
      /\ Sends(g, res.out, Able) /\ res.runs = <<>>
      /\ ~Optional(g)
  <2>1. Controller(g, Able)
    BY <1>4 DEF Resident
  <2> QED
    BY <1>2, <1>3, <1>4, <2>1, AttachFailsSound DEF FailsSafely
<1>6. ~Lax
  BY <1>4, <1>5 DEF Resident, Calm
<1>7. RunsGood(res.g, runs[p])
  BY <1>4, <1>5, <1>6 DEF RunsGood
<1>8. g.generation <= res.g.generation
  BY <1>4, <1>5 DEF Resident, Controller
<1>9. Handler(p, res, runs[p])
  BY <1>1, <1>4, <1>5, <1>6, <1>7, <1>8 DEF Handler, Starts
<1> QED
  BY <1>4, <1>9, HandlerStep, ApplyDid

\* A camera is turned off.
LEMMA UnpublishInv ==
    ASSUME Inv, NEW p \in Pages, Unpublish(p) PROVE Inv'
<1>1. PICK g : g = pg[p]
  OBVIOUS
<1>2. PICK h : h = [g EXCEPT !.tracks = "none"]
  OBVIOUS
<1>3. Here(p) /\ Controller(g, Able) /\ RunsGood(g, runs[p]) /\ InMail(p) /\ OutMail(p)
  BY <1>1 DEF Unpublish, Inv, PageInv, Absent, Resident
<1>4. PICK t : t = "none"
  OBVIOUS
<1>5. Handler(p, Just(h), runs[p])
  <2>1. t \in {"none", "sealed", "bare"} /\ t # "bare" /\ h = [g EXCEPT !.tracks = t]
    BY <1>2, <1>4
  <2> QED
    BY <1>1, <1>3, <2>1, TracksHandler
<1>6. Did(p, Just(h), runs[p]) /\ UNCHANGED <<inbox, members, used, requireE2ee>>
  <2>1. pg' = [pg EXCEPT ![p] = h] /\ UNCHANGED <<runs, outbox, inbox, members, used, requireE2ee>>
    BY <1>1, <1>2 DEF Unpublish
  <2>2. runs[p] \o <<>> = runs[p] /\ outbox[p] \o <<>> = outbox[p]
    BY <1>3 DEF RunsGood, OutMail
  <2>3. DOMAIN pg = Pages /\ DOMAIN runs = Pages /\ DOMAIN outbox = Pages
    BY DEF Inv, Server
  <2> QED
    BY <2>1, <2>2, <2>3 DEF Did, Just, Result
<1> QED
  BY <1>5, <1>6, HandlerStep

\* The user agrees to go on in clear.
LEMMA ContinueInClearInv ==
    ASSUME Inv, NEW p \in Pages, ContinueInClear(p) PROVE Inv'
<1>1. PICK g : g = pg[p]
  OBVIOUS
<1>2. PICK h : h = SetState(SetWorkerMode([g EXCEPT !.clearAgreed = TRUE], TRUE), "unencrypted")
  OBVIOUS
<1>3. /\ AwaitsClearConsent(g) /\ Apply(p, Just(h), runs[p])
      /\ UNCHANGED <<inbox, members, used, requireE2ee>>
  BY <1>1, <1>2 DEF ContinueInClear
<1>4. Here(p) /\ Controller(g, Able)
  BY <1>1, <1>3 DEF AwaitsClearConsent, Inv, PageInv, Absent, Resident
<1>5. Sound(g, Just(h), Able)
  BY <1>2, <1>3, <1>4, ContinueSound
<1>6. Handler(p, Just(h), runs[p])
  BY <1>1, <1>4, <1>5, SoundHandler
<1> QED
  BY <1>3, <1>6, HandlerStep, ApplyDid

\* The user writes.
LEMMA ChatInv ==
    ASSUME Inv, NEW p \in Pages, Chat(p) PROVE Inv'
<1>1. PICK g : g = pg[p]
  OBVIOUS
<1>2. PICK res : res = Result(g, <<>>, Seal(g, "text"))
  OBVIOUS
<1>3. /\ CanChat(g) /\ Apply(p, res, runs[p])
      /\ UNCHANGED <<inbox, members, used, requireE2ee>>
  BY <1>1, <1>2 DEF Chat
<1>4. Here(p) /\ Controller(g, Able)
  BY <1>1, <1>3 DEF CanChat, Inv, PageInv, Absent, Resident
<1>5. Sound(g, res, Able)
  BY <1>2, <1>3, <1>4, ChatSound
<1>6. Handler(p, res, runs[p])
  BY <1>1, <1>4, <1>5, SoundHandler
<1> QED
  BY <1>3, <1>6, HandlerStep, ApplyDid

-----------------------------------------------------------------------------

\* Pages that have just been loaded.
LEMMA InitInv == Init => Inv
<1> SUFFICES ASSUME Init PROVE Inv
  OBVIOUS
<1>1. PICK supported \in [Pages -> BOOLEAN], version \in Deployed :
        pg = [p \in Pages |-> Loaded(supported[p], version[p])]
  BY DEF Init
<1>2. /\ runs = [p \in Pages |-> <<>>] /\ outbox = [p \in Pages |-> <<>>]
      /\ inbox = [p \in Pages |-> <<>>] /\ members = {} /\ used = {}
      /\ requireE2ee \in BOOLEAN
  BY DEF Init
<1>3. Server
  BY <1>1, <1>2, FS_EmptySet DEF Server
<1>4. ASSUME NEW p \in Pages
      PROVE  PageInv(p) /\ InMail(p) /\ OutMail(p)
  <2>1. PICK g : g = Loaded(supported[p], version[p])
    OBVIOUS
  <2>2. supported[p] \in BOOLEAN
    OBVIOUS
  <2>3. /\ DOMAIN g = Fields /\ g.supported = supported[p] /\ g.everEncrypted = FALSE
        /\ g.require = FALSE /\ g.id = None /\ g.users = {} /\ g.peer = None
        /\ g.state = "idle" /\ g.tracks = "none" /\ g.cleartext = FALSE
    BY <2>1 DEF Loaded, Fields
  <2>4. Absent(g)
    BY <2>2, <2>3 DEF Absent
  <2>5. pg[p] = g /\ runs[p] = <<>> /\ outbox[p] = <<>> /\ inbox[p] = <<>>
    BY <1>1, <1>2, <2>1
  <2>6. ~Here(p)
    BY <2>3, <2>5 DEF Here
  <2>7. PageInv(p)
    BY <2>2, <2>3, <2>4, <2>5, <2>6 DEF PageInv
  <2>8. <<>> \in Seq(Range(<<>>)) /\ Range(<<>>) = {}
    BY DEF Range
  <2> QED
    BY <2>5, <2>6, <2>7, <2>8 DEF InMail, OutMail
<1> QED
  BY <1>3, <1>4 DEF Inv

\* Every step keeps the invariant.
LEMMA NextInv == Inv /\ [Next]_vars => Inv'
<1> SUFFICES ASSUME Inv, [Next]_vars PROVE Inv'
  OBVIOUS
<1>1. ASSUME NEW i \in Ids, Expire(i) PROVE Inv'
  BY <1>1, ExpireInv
<1>2. ASSUME NEW p \in Pages, System(p) PROVE Inv'
  BY <1>2, RelayInv, DeliverInv, CompleteInv DEF System
<1>3. ASSUME NEW p \in Pages, User(p) PROVE Inv'
  BY <1>3, ConnectInv, DisconnectInv, ChangedInv, PublishInv, AttachFailsInv,
     UnpublishInv, ContinueInClearInv, ChatInv DEF User
<1>4. CASE UNCHANGED vars
  <2>1. Able' = Able /\ \A q \in Pages : Here(q)' <=> Here(q)
    BY <1>4 DEF vars, Able, Here
  <2>2. Server'
    BY <1>4 DEF vars, Inv, Server
  <2> QED
    BY <1>4, <2>1, <2>2, PageSame, InMailSame, OutMailSame, InvAgain DEF vars, Inv
<1> QED
  BY <1>1, <1>2, <1>3, <1>4 DEF Next

\* The invariant holds of every behaviour, whatever the number of pages and
\* connections, however often an encryptor fails.
THEOREM Invariance == Spec => []Inv
  BY InitInv, NextInv, PTL DEF Spec

\* The types; and a peer is always among the participants the page knows of.
THEOREM TypeCorrect == Spec => []TypeOK
<1>1. Inv => TypeOK
  <2> SUFFICES ASSUME Inv PROVE TypeOK
    OBVIOUS
  <2>1. members \subseteq used
    BY DEF Inv, Server
  <2>2. ASSUME NEW p \in Pages
        PROVE  /\ pg[p].id \in Ids \cup {None} /\ pg[p].users \subseteq Ids
               /\ pg[p].peer \in Ids \cup {None} /\ pg[p].state \in States
               /\ pg[p].tracks \in {"none", "sealed", "bare"}
               /\ (pg[p].peer # None => pg[p].peer \in pg[p].users)
    <3>1. CASE Here(p)
      <4>1. Controller(pg[p], Able) /\ Settled(pg[p])
        BY <3>1 DEF Inv, PageInv, Resident
      <4> QED
        BY <4>1 DEF Controller, Settled
    <3>2. CASE ~Here(p)
      <4>1. Absent(pg[p])
        BY <3>2 DEF Inv, PageInv
      <4> QED
        BY <4>1 DEF Absent, States
    <3> QED
      BY <3>1, <3>2
  <2> QED
    BY <2>1, <2>2 DEF TypeOK
<1> QED
  BY <1>1, Invariance, PTL

\* What Inv says of the media of a page.
LEMMA MediaFacts ==
    ASSUME Inv, NEW p \in Pages
    PROVE  LET g == pg[p] IN
           /\ g.require => g.tracks # "bare" /\ ~g.cleartext
           /\ ~Here(p) => g.tracks = "none" /\ g.state = "idle"
           /\ Here(p) => /\ Controller(g, Able)
                         /\ ~g.require /\ FailWhen = "required" => Calm(g, Able)
<1>1. CASE Here(p)
  BY <1>1 DEF Inv, PageInv, Resident, Strict, Closed, Lax
<1>2. CASE ~Here(p)
  BY <1>2 DEF Inv, PageInv, Absent
<1> QED
  BY <1>1, <1>2

\* Media in clear comes from a bare track, or through a forwarding worker.
LEMMA EmitsClear ==
    ASSUME NEW g, Emits(g) = "clear"
    PROVE  g.tracks # "none" /\ (g.tracks = "bare" \/ g.cleartext)
  BY DEF Emits

\* Where encryption is required nothing leaves in clear.
RequiredIsKept == \A p \in Pages : pg[p].require => Emits(pg[p]) # "clear"

\* Where the group requires encryption no frame leaves a page in clear
\* (downgrade, attachSender, enforceE2EEMediaPolicy), whether or not encryptors
\* attach, whatever the others send and in whatever order things complete.
THEOREM RequiredNeverClear == Spec => []RequiredIsKept
<1>1. Inv => RequiredIsKept
  BY MediaFacts, EmitsClear DEF RequiredIsKept
<1> QED
  BY <1>1, Invariance, PTL

\* Nor does one in a room that has been encrypted before its user agrees, as
\* long as encryptors attach where encryption is not required.
THEOREM NothingLeavesInClear ==
    ASSUME FailWhen = "required" PROVE Spec => []NothingInClear
<1>1. Inv => NothingInClear
  <2> SUFFICES ASSUME Inv, NEW p \in Pages, Emits(pg[p]) = "clear"
               PROVE  ~pg[p].require /\ (pg[p].wasEncrypted => pg[p].clearAgreed)
    BY DEF NothingInClear
  <2>1. PICK g : g = pg[p]
    OBVIOUS
  <2>2. g.tracks # "none" /\ (g.tracks = "bare" \/ g.cleartext)
    BY <2>1, EmitsClear
  <2>3. ~g.require /\ Here(p) /\ Controller(g, Able) /\ Calm(g, Able)
    BY <2>1, <2>2, MediaFacts
  <2>4. g.supported \in BOOLEAN /\ g.clearAgreed \in BOOLEAN
    BY <2>3 DEF Controller, Flags
  <2>5. g.wasEncrypted => g.clearAgreed
    BY <2>2, <2>3, <2>4 DEF Controller, Calm
  <2> QED
    BY <2>1, <2>3, <2>5
<1> QED
  BY <1>1, Invariance, PTL

\* Then the padlock is never shown over media in clear, or over media sealed
\* with another secret than the one whose emoji are shown (updateE2EEUI).
THEOREM PadlockTrue ==
    ASSUME FailWhen = "required" PROVE Spec => []PadlockIsTrue
<1>1. Inv => PadlockIsTrue
  <2> SUFFICES ASSUME Inv, NEW p \in Pages, Indicator(pg[p]) = "padlock"
               PROVE  /\ Emits(pg[p]) # "clear" /\ ~pg[p].cleartext
                      /\ pg[p].mediaKey = pg[p].secret
    BY DEF PadlockIsTrue
  <2>1. PICK g : g = pg[p]
    OBVIOUS
  <2>2. g.state = "established"
    BY <2>1 DEF Indicator
  <2>3. /\ Here(p) /\ Controller(g, Able) /\ (~g.require => Calm(g, Able))
        /\ g.require => g.tracks # "bare" /\ ~g.cleartext
    BY <2>1, <2>2, MediaFacts
  <2>4. g.tracks # "bare" /\ ~g.cleartext /\ g.mediaKey = g.secret
    BY <2>2, <2>3 DEF Controller, Calm
  <2> QED
    BY <2>1, <2>4, EmitsClear
<1> QED
  BY <1>1, Invariance, PTL

-----------------------------------------------------------------------------
(* Two pages that agree: what each has been told of the other.             *)

\* The versions of the protocol that are deployed.
Versions == {pg[q].version : q \in Pages}

\* A message that carries the key of its sender, or a commitment to it.
Bears(m) == m.type \in {"commit", "dh"}

\* It carries one, and a message of the handshake says a version there is.
Speaks(m, V) ==
    /\ Bears(m) => m.key # NoKey
    /\ m.type \in Handshake => m.v \in V

\* A controller has all that the transcript takes.
Whole(g) == g.key # NoKey /\ g.peerPub # NoKey /\ (Initiator(g) => g.peerCommit # NoKey)

\* What a controller holds of a handshake: nothing without a peer, nothing of
\* the peer without a key of ours, and of the peer what it has told.  T is
\* what has been told: pairs of who and which key.
Tied(g, T) ==
    /\ g.key # NoKey \/ g.starting => g.peer # None
    /\ g.peerCommit # NoKey => g.key # NoKey /\ <<g.peer, g.peerCommit>> \in T
    /\ g.peerPub # NoKey => g.key # NoKey /\ <<g.peer, g.peerPub>> \in T
    /\ g.state = "established" => Whole(g) /\ g.secret = Transcript(g)

\* The same of what is under way, in the order a handshake goes.
RunTied(g, r, T, V) ==
    /\ r.gen <= g.generation
    /\ r.at = "start" =>
          /\ g.key = NoKey
          /\ r.gen = g.generation => g.starting /\ g.peer = r.peer
          /\ r.msg # <<>> => r.msg[1].from = r.peer /\ Speaks(r.msg[1], V)
          /\ r.gen = g.generation /\ r.msg # <<>> /\ Bears(r.msg[1])
                => <<r.peer, r.msg[1].key>> \in T
    /\ r.at = "hash" =>
          r.session # NoKey /\ (g.key # NoKey => <<g.peer, r.session>> \in T)
    /\ r.at \in {"keys", "sas"} /\ r.gen = g.generation =>
          Whole(g) /\ r.session = Transcript(g) /\ (r.at = "sas" => g.secret = r.session)

\* Nobody has told two keys.
Single(T) == \A j, k, l : <<j, k>> \in T /\ <<j, l>> \in T => k = l

\* Who takes part, and what it has of the handshake.
SameParty(g, h) ==
    h.id = g.id /\ h.version = g.version /\ h.users = g.users /\ h.supported = g.supported
SameTerms(g, h) ==
    /\ h.peer = g.peer /\ h.starting = g.starting /\ h.key = g.key
    /\ h.peerCommit = g.peerCommit /\ h.peerPub = g.peerPub
SameDeal(g, h) ==
    /\ SameParty(g, h) /\ SameTerms(g, h)
    /\ h.generation = g.generation /\ h.secret = g.secret
NoTerms(h) ==
    /\ h.peer = None /\ h.starting = FALSE /\ h.key = NoKey
    /\ h.peerCommit = NoKey /\ h.peerPub = NoKey

\* Dropping the keys leaves the handshake as it is.
LEMMA DropKeysDeal ==
    ASSUME NEW g, DOMAIN g = Fields
    PROVE  LET h == DropKeys(g)
           IN  /\ DOMAIN h = Fields /\ SameParty(g, h) /\ SameTerms(g, h)
               /\ h.generation = g.generation + 1 /\ h.secret = NoSession /\ h.state = g.state
  BY DEF DropKeys, Fields, SameParty, SameTerms

\* Resetting the peer forgets it.
LEMMA ResetPeerDeal ==
    ASSUME NEW g, DOMAIN g = Fields
    PROVE  LET h == ResetPeer(g)
           IN  /\ DOMAIN h = Fields /\ SameParty(g, h) /\ NoTerms(h)
               /\ h.generation = g.generation + 1 /\ h.secret = NoSession /\ h.state = g.state
<1>1. PICK d : d = DropKeys(g)
  OBVIOUS
<1>2. /\ DOMAIN d = Fields /\ SameParty(g, d) /\ d.generation = g.generation + 1
      /\ d.secret = NoSession /\ d.state = g.state
  BY <1>1, DropKeysDeal
<1>3. ResetPeer(g) = [d EXCEPT !.peer = None, !.starting = FALSE, !.key = NoKey,
                              !.peerCommit = NoKey, !.peerPub = NoKey]
  BY <1>1 DEF ResetPeer
<1>4. PICK h : h = ResetPeer(g)
  OBVIOUS
<1>5. DOMAIN h = Fields /\ SameParty(d, h) /\ NoTerms(h) /\ h.generation = d.generation
      /\ h.secret = d.secret /\ h.state = d.state
  BY <1>2, <1>3, <1>4 DEF Fields, SameParty, NoTerms
<1> QED
  BY <1>2, <1>4, <1>5 DEF SameParty

\* A new state leaves the handshake as it is.
LEMMA SetStateDeal ==
    ASSUME NEW g, DOMAIN g = Fields, NEW s
    PROVE  LET h == SetState(g, s)
           IN  DOMAIN h = Fields /\ SameDeal(g, h) /\ h.state = s
<1>1. PICK a : a = [g EXCEPT !.state = s]
  OBVIOUS
<1>2. DOMAIN a = Fields /\ SameDeal(g, a) /\ a.state = s
  BY <1>1 DEF Fields, SameDeal, SameParty, SameTerms
<1>3. PICK b : b = EnforceMediaPolicy(a)
  OBVIOUS
<1>4. DOMAIN b = Fields /\ SameDeal(a, b) /\ b.state = s
  BY <1>2, <1>3 DEF EnforceMediaPolicy, Fields, SameDeal, SameParty, SameTerms
<1>5. PICK c : c = SetState(g, s)
  OBVIOUS
<1>6. c = [b EXCEPT !.everEncrypted = @ \/ a.state = "established",
                    !.nameSentTo = IF a.state = "established" THEN @ ELSE None]
  BY <1>1, <1>3, <1>5 DEF SetState, GotState
<1>7. DOMAIN c = Fields /\ SameDeal(b, c) /\ c.state = s
  BY <1>4, <1>6 DEF Fields, SameDeal, SameParty, SameTerms
<1> QED
  BY <1>2, <1>4, <1>5, <1>7 DEF SameDeal, SameParty, SameTerms

\* So does the worker's mode.
LEMMA SetWorkerModeDeal ==
    ASSUME NEW g, DOMAIN g = Fields, NEW x
    PROVE  LET h == SetWorkerMode(g, x)
           IN  DOMAIN h = Fields /\ SameDeal(g, h) /\ h.state = g.state
  BY DEF SetWorkerMode, Fields, SameDeal, SameParty, SameTerms

\* One thing after the other.
LEMMA SameDealTwice ==
    ASSUME NEW g, NEW h, NEW k, SameDeal(g, h), SameDeal(h, k)
    PROVE  SameDeal(g, k)
  BY DEF SameDeal, SameParty, SameTerms

\* Turning to clear, or to nothing, leaves the handshake as it is.
LEMMA DowngradeDeal ==
    ASSUME NEW g, DOMAIN g = Fields
    PROVE  LET h == Downgrade(g)
           IN  DOMAIN h = Fields /\ SameDeal(g, h) /\ h.state \in {"blocked", "unencrypted"}
<1>1. ASSUME NEW x, NEW s \in {"blocked", "unencrypted"}
      PROVE  LET h == SetState(SetWorkerMode(g, x), s)
             IN  DOMAIN h = Fields /\ SameDeal(g, h) /\ h.state \in {"blocked", "unencrypted"}
  <2>1. PICK w : w = SetWorkerMode(g, x)
    OBVIOUS
  <2>2. DOMAIN w = Fields /\ SameDeal(g, w)
    BY <2>1, SetWorkerModeDeal
  <2>3. PICK h : h = SetState(w, s)
    OBVIOUS
  <2>4. DOMAIN h = Fields /\ SameDeal(w, h) /\ h.state = s
    BY <2>2, <2>3, SetStateDeal
  <2> QED
    BY <2>1, <2>2, <2>3, <2>4, SameDealTwice
<1> QED
  BY <1>1 DEF Downgrade

\* A failure drops the keys and leaves the handshake as it is.
LEMMA FailDeal ==
    ASSUME NEW g, DOMAIN g = Fields
    PROVE  LET h == Fail(g)
           IN  /\ DOMAIN h = Fields /\ SameParty(g, h) /\ SameTerms(g, h)
               /\ h.generation = g.generation + 1 /\ h.state = "failed"
<1>1. PICK d : d = DropKeys(g)
  OBVIOUS
<1>2. DOMAIN d = Fields /\ SameParty(g, d) /\ SameTerms(g, d) /\ d.generation = g.generation + 1
  BY <1>1, DropKeysDeal
<1>3. PICK h : h = SetState(d, "failed")
  OBVIOUS
<1>4. DOMAIN h = Fields /\ SameDeal(d, h) /\ h.state = "failed"
  BY <1>2, <1>3, SetStateDeal
<1> QED
  BY <1>1, <1>2, <1>3, <1>4 DEF Fail, SameDeal, SameParty, SameTerms

\* What a handler keeps of what is under way.
RunsKept(g, h, T, V) == \A r : r.gen \in Nat /\ RunTied(g, r, T, V) => RunTied(h, r, T, V)

\* A message of controller h: to its peer, with its own key.
Posted(h, m, V) ==
    /\ m.type \notin {"add", "delete"} /\ m.from = h.id
    /\ h.peer # None /\ m.to = h.peer
    /\ Speaks(m, V) /\ (Bears(m) => m.key = h.key)

\* What it starts: a handshake is of a new generation, and a key is hashed
\* only by who has one.
Begins(g, h, r, T, V) ==
    /\ RunTied(h, r, T, V)
    /\ r.at = "start" => g.generation < r.gen
    /\ r.at = "hash" => h.key # NoKey

\* A handler of controller g that keeps to what has been told: it gives up a
\* key only together with the peer, and fails only where versions differ.
Turns(g, res, T, V) ==
    LET h == res.g IN
    /\ h.id = g.id /\ h.version = g.version /\ g.generation <= h.generation
    /\ Tied(h, T)
    /\ g.key # NoKey => h.key = g.key \/ h.users # {g.peer}
    /\ h.state = "failed" => g.state = "failed" \/ \E v \in V : v # g.version
    /\ \A m \in Range(res.out) : Posted(h, m, V)
    /\ res.runs = <<>> \/ \E r : res.runs = <<r>> /\ Begins(g, h, r, T, V)

\* Nothing of the handshake changes; a peer may be named that was not.
LEMMA DealStays ==
    ASSUME NEW T, NEW V, NEW g, NEW h, g.generation \in Nat, Tied(g, T),
           h.id = g.id, h.starting = g.starting, h.key = g.key,
           h.peerCommit = g.peerCommit, h.peerPub = g.peerPub,
           h.generation = g.generation, h.secret = g.secret,
           h.peer = g.peer \/ g.peer = None,
           h.state = g.state \/ h.state # "established"
    PROVE  Tied(h, T) /\ RunsKept(g, h, T, V)
<1>1. CASE g.peer = None
  <2>1. g.key = NoKey /\ ~g.starting /\ g.peerCommit = NoKey /\ g.peerPub = NoKey
    BY <1>1 DEF Tied
  <2>2. g.state # "established"
    BY <2>1 DEF Tied, Whole
  <2>3. Tied(h, T)
    BY <2>1, <2>2 DEF Tied
  <2>4. ASSUME NEW r, RunTied(g, r, T, V) PROVE RunTied(h, r, T, V)
    BY <2>1, <2>4 DEF RunTied, Whole
  <2> QED
    BY <2>3, <2>4 DEF RunsKept
<1>2. CASE h.peer = g.peer
  <2>1. Transcript(h) = Transcript(g) /\ (Whole(h) <=> Whole(g))
    BY <1>2 DEF Transcript, Whole, Initiator
  <2>2. Tied(h, T)
    BY <1>2, <2>1 DEF Tied
  <2>3. ASSUME NEW r, RunTied(g, r, T, V) PROVE RunTied(h, r, T, V)
    BY <1>2, <2>1, <2>3 DEF RunTied
  <2> QED
    BY <2>2, <2>3 DEF RunsKept
<1> QED
  BY <1>1, <1>2

\* The keys are dropped, and with them the generation.
LEMMA DealFails ==
    ASSUME NEW T, NEW V, NEW g, NEW h, g.generation \in Nat, Tied(g, T), SameTerms(g, h),
           h.generation = g.generation + 1, h.state # "established"
    PROVE  Tied(h, T) /\ RunsKept(g, h, T, V)
<1>1. Tied(h, T)
  BY DEF Tied, SameTerms
<1>2. ASSUME NEW r, r.gen \in Nat, RunTied(g, r, T, V) PROVE RunTied(h, r, T, V)
  <2>1. r.gen <= h.generation /\ r.gen # h.generation
    BY <1>2 DEF RunTied
  <2> QED
    BY <1>2, <2>1 DEF RunTied, SameTerms
<1> QED
  BY <1>1, <1>2 DEF RunsKept

\* The handshake is forgotten, and perhaps another is begun.
LEMMA DealForgotten ==
    ASSUME NEW T, NEW V, NEW g, NEW h, g.generation \in Nat,
           h.generation = g.generation + 1, h.state # "established",
           h.key = NoKey, h.peerCommit = NoKey, h.peerPub = NoKey,
           h.starting => h.peer # None
    PROVE  Tied(h, T) /\ RunsKept(g, h, T, V)
<1>1. Tied(h, T)
  BY DEF Tied
<1>2. ASSUME NEW r, r.gen \in Nat, RunTied(g, r, T, V) PROVE RunTied(h, r, T, V)
  <2>1. r.gen <= h.generation /\ r.gen # h.generation
    BY <1>2 DEF RunTied
  <2> QED
    BY <1>2, <2>1 DEF RunTied
<1> QED
  BY <1>1, <1>2 DEF RunsKept

\* Something of the peer is learnt that was missing, and has been told.
LEMMA DealLearnt ==
    ASSUME NEW T, NEW V, NEW g, NEW h, Tied(g, T), ~Whole(g), g.key # NoKey,
           h.peer = g.peer, h.starting = g.starting, h.key = g.key,
           h.generation = g.generation, h.state = g.state,
           h.peerCommit = g.peerCommit \/ <<g.peer, h.peerCommit>> \in T,
           h.peerPub = g.peerPub \/ <<g.peer, h.peerPub>> \in T
    PROVE  Tied(h, T) /\ RunsKept(g, h, T, V)
<1>1. Tied(h, T)
  BY DEF Tied
<1>2. ASSUME NEW r, RunTied(g, r, T, V) PROVE RunTied(h, r, T, V)
  BY <1>2 DEF RunTied
<1> QED
  BY <1>1, <1>2 DEF RunsKept

-----------------------------------------------------------------------------

\* A handler of the handshake also keeps the peer and the key.
Answers(g, res, T, V) ==
    /\ Turns(g, res, T, V) /\ RunsKept(g, res.g, T, V)
    /\ SameParty(g, res.g) /\ res.g.key = g.key /\ res.g.peer = g.peer

\* Nothing is said or started.
LEMMA SilentTurn ==
    ASSUME NEW T, NEW V, NEW g, NEW h, h.id = g.id, h.version = g.version,
           g.generation <= h.generation, Tied(h, T),
           g.key # NoKey => h.key = g.key \/ h.users # {g.peer},
           h.state = "failed" => g.state = "failed" \/ \E v \in V : v # g.version
    PROVE  Turns(g, Just(h), T, V) /\ Just(h).g = h
  BY DEF Turns, Just, Result, Range

\* A message that is ignored.
LEMMA IgnoredAnswer ==
    ASSUME NEW T, NEW V, NEW g, g.generation \in Nat, Tied(g, T)
    PROVE  Answers(g, Just(g), T, V)
<1>1. Turns(g, Just(g), T, V) /\ Just(g).g = g
  BY SilentTurn
<1> QED
  BY <1>1 DEF Answers, RunsKept, SameParty

\* A handshake that fails, where versions differ.
LEMMA FailAnswer ==
    ASSUME NEW T, NEW V, NEW g, DOMAIN g = Fields, g.generation \in Nat, Tied(g, T),
           \E v \in V : v # g.version
    PROVE  Answers(g, Just(Fail(g)), T, V)
<1>1. PICK h : h = Fail(g)
  OBVIOUS
<1>2. /\ SameParty(g, h) /\ SameTerms(g, h) /\ h.generation = g.generation + 1
      /\ h.state = "failed"
  BY <1>1, FailDeal
<1>3. Tied(h, T) /\ RunsKept(g, h, T, V)
  BY <1>2, DealFails
<1>4. Turns(g, Just(h), T, V) /\ Just(h).g = h
  BY <1>2, <1>3, SilentTurn DEF SameParty, SameTerms
<1> QED
  BY <1>1, <1>2, <1>3, <1>4 DEF Answers, SameTerms

\* What send() sends.
LEMMA SayPosted ==
    ASSUME NEW V, NEW h, NEW t \in Handshake \cup {"nocrypto"}, NEW k, h.version \in V,
           t \in {"commit", "dh"} => k # NoKey /\ k = h.key
    PROVE  \A m \in Range(Say(h, Message(h, t, k))) : Posted(h, m, V)
<1>1. CASE h.peer = None
  BY <1>1 DEF Say, Range
<1>2. CASE h.peer # None
  <2>1. PICK m : m = [Message(h, t, k) EXCEPT !.to = h.peer]
    OBVIOUS
  <2>2. m.type = t /\ m.from = h.id /\ m.to = h.peer /\ m.key = k /\ m.v = h.version
    BY <2>1 DEF Message
  <2>3. Say(h, Message(h, t, k)) = <<m>>
    BY <1>2, <2>1 DEF Say
  <2>4. Range(<<m>>) = {m}
    BY DEF Range
  <2>5. Posted(h, m, V)
    BY <1>2, <2>2 DEF Posted, Speaks, Bears, Handshake
  <2> QED
    BY <2>3, <2>4, <2>5
<1> QED
  BY <1>1, <1>2

\* handleHello().
LEMMA HandleHelloAnswer ==
    ASSUME NEW T, NEW V, NEW g, g.generation \in Nat, Tied(g, T), g.key # NoKey,
           g.version \in V
    PROVE  Answers(g, HandleHello(g), T, V)
<1>1. CASE Initiator(g)
  BY <1>1, IgnoredAnswer DEF HandleHello
<1>2. CASE ~Initiator(g)
  <2>1. PICK res : res = HandleHello(g)
    OBVIOUS
  <2>2. res.g = g /\ res.runs = <<>> /\ res.out = Say(g, Message(g, "commit", g.key))
    BY <1>2, <2>1 DEF HandleHello, Result
  <2>3. \A m \in Range(res.out) : Posted(g, m, V)
    <3>1. "commit" \in Handshake \cup {"nocrypto"}
      BY DEF Handshake
    <3>2. \A m \in Range(Say(g, Message(g, "commit", g.key))) : Posted(g, m, V)
      BY <3>1, SayPosted
    <3> QED
      BY <2>2, <3>2
  <2>4. Turns(g, res, T, V)
    BY <2>2, <2>3 DEF Turns
  <2> QED
    BY <2>1, <2>2, <2>4 DEF Answers, RunsKept, SameParty
<1> QED
  BY <1>1, <1>2

\* handleCommit(): a second commitment is the first again.
LEMMA HandleCommitAnswer ==
    ASSUME NEW T, NEW V, NEW g, NEW k, DOMAIN g = Fields, g.generation \in Nat, Tied(g, T),
           Single(T), g.key # NoKey, g.version \in V, <<g.peer, k>> \in T
    PROVE  Answers(g, HandleCommit(g, k), T, V)
<1>1. CASE ~Initiator(g)
  BY <1>1, IgnoredAnswer DEF HandleCommit
<1>2. CASE Initiator(g) /\ g.peerCommit # NoKey
  <2>1. k = g.peerCommit
    BY <1>2 DEF Single, Tied
  <2>2. HandleCommit(g, k) = Just(g)
    BY <1>2, <2>1 DEF HandleCommit
  <2> QED
    BY <2>2, IgnoredAnswer
<1>3. CASE Initiator(g) /\ g.peerCommit = NoKey
  <2>1. PICK h : h = [g EXCEPT !.peerCommit = k]
    OBVIOUS
  <2>2. PICK res : res = HandleCommit(g, k)
    OBVIOUS
  <2>3. res.g = h /\ res.runs = <<>> /\ res.out = Say(h, Message(h, "dh", h.key))
    <3>1. res = Result(h, Say(g, Message(g, "dh", g.key)), <<>>)
      BY <1>3, <2>1, <2>2 DEF HandleCommit
    <3>2. h.peer = g.peer /\ h.key = g.key /\ h.id = g.id /\ h.version = g.version
      BY <2>1 DEF Fields
    <3>3. Say(h, Message(h, "dh", h.key)) = Say(g, Message(g, "dh", g.key))
      BY <3>2 DEF Say, Message
    <3> QED
      BY <3>1, <3>3 DEF Result
  <2>4. /\ SameParty(g, h) /\ h.peer = g.peer /\ h.starting = g.starting /\ h.key = g.key
        /\ h.generation = g.generation /\ h.state = g.state /\ h.peerCommit = k
        /\ h.peerPub = g.peerPub
    BY <2>1 DEF Fields, SameParty
  <2>5. ~Whole(g)
    BY <1>3 DEF Whole
  <2>6. Tied(h, T) /\ RunsKept(g, h, T, V)
    BY <2>4, <2>5, DealLearnt
  <2>7. \A m \in Range(res.out) : Posted(h, m, V)
    <3>1. "dh" \in Handshake \cup {"nocrypto"} /\ h.version \in V /\ h.key # NoKey
      BY <2>4 DEF Handshake, SameParty
    <3>2. \A m \in Range(Say(h, Message(h, "dh", h.key))) : Posted(h, m, V)
      BY <3>1, SayPosted
    <3> QED
      BY <2>3, <3>2
  <2>8. Turns(g, res, T, V)
    BY <2>3, <2>4, <2>6, <2>7 DEF Turns, SameParty
  <2> QED
    BY <2>2, <2>3, <2>4, <2>6, <2>8 DEF Answers
<1> QED
  BY <1>1, <1>2, <1>3

\* finalize() is begun with all that the transcript takes.
LEMMA FinalizeBegins ==
    ASSUME NEW T, NEW V, NEW g, NEW h, h.generation \in Nat, Whole(h)
    PROVE  \E r : Finalize(h) = <<r>> /\ Begins(g, h, r, T, V)
<1>1. PICK r : r = [at |-> "keys", gen |-> h.generation, peer |-> h.peer,
                    session |-> Transcript(h), msg |-> <<>>]
  OBVIOUS
<1>2. r.at = "keys" /\ r.gen = h.generation /\ r.session = Transcript(h)
  BY <1>1
<1>3. Finalize(h) = <<r>>
  BY <1>1 DEF Finalize
<1>4. Begins(g, h, r, T, V)
  BY <1>2 DEF Begins, RunTied
<1> QED
  BY <1>3, <1>4

\* The peer's key is stored, and what it completes is finalized.
LEMMA PubLearnt ==
    ASSUME NEW T, NEW V, NEW g, NEW k, NEW h, DOMAIN g = Fields, g.generation \in Nat,
           Tied(g, T), g.key # NoKey, g.peerPub = NoKey,
           <<g.peer, k>> \in T, k # NoKey, Initiator(g) => g.peerCommit # NoKey,
           h = [g EXCEPT !.peerPub = k]
    PROVE  /\ SameParty(g, h) /\ h.key = g.key /\ h.peer = g.peer /\ h.state = g.state
           /\ h.generation = g.generation
           /\ Tied(h, T) /\ RunsKept(g, h, T, V)
           /\ \E r : Finalize(h) = <<r>> /\ Begins(g, h, r, T, V)
<1>1. /\ SameParty(g, h) /\ h.peer = g.peer /\ h.starting = g.starting /\ h.key = g.key
      /\ h.generation = g.generation /\ h.state = g.state /\ h.peerCommit = g.peerCommit
      /\ h.peerPub = k
  BY DEF Fields, SameParty
<1>2. ~Whole(g)
  BY DEF Whole
<1>3. Tied(h, T) /\ RunsKept(g, h, T, V)
  BY <1>1, <1>2, DealLearnt
<1>4. Whole(h)
  BY <1>1 DEF Whole, Initiator, SameParty
<1>5. \E r : Finalize(h) = <<r>> /\ Begins(g, h, r, T, V)
  BY <1>1, <1>4, FinalizeBegins
<1> QED
  BY <1>1, <1>3, <1>5

\* handleDh(): a second key is the first again.
LEMMA HandleDhAnswer ==
    ASSUME NEW T, NEW V, NEW g, NEW k, DOMAIN g = Fields, g.generation \in Nat, Tied(g, T),
           Single(T), g.key # NoKey, g.version \in V, <<g.peer, k>> \in T, k # NoKey
    PROVE  Answers(g, HandleDh(g, k), T, V)
<1>1. CASE g.peerPub # NoKey
  <2>1. k = g.peerPub
    BY <1>1 DEF Single, Tied
  <2>2. HandleDh(g, k) = Just(g)
    BY <1>1, <2>1 DEF HandleDh
  <2> QED
    BY <2>2, IgnoredAnswer
<1>2. CASE g.peerPub = NoKey /\ ~Initiator(g)
  <2>1. PICK h : h = [g EXCEPT !.peerPub = k]
    OBVIOUS
  <2>2. PICK res : res = HandleDh(g, k)
    OBVIOUS
  <2>3. res.g = h /\ res.runs = Finalize(h) /\ res.out = Say(h, Message(h, "dh", h.key))
    BY <1>2, <2>1, <2>2 DEF HandleDh, Result
  <2>4. /\ SameParty(g, h) /\ h.key = g.key /\ h.peer = g.peer /\ h.state = g.state
        /\ h.generation = g.generation
        /\ Tied(h, T) /\ RunsKept(g, h, T, V)
        /\ \E r : Finalize(h) = <<r>> /\ Begins(g, h, r, T, V)
    BY <1>2, <2>1, PubLearnt
  <2>5. \A m \in Range(res.out) : Posted(h, m, V)
    <3>1. "dh" \in Handshake \cup {"nocrypto"} /\ h.version \in V /\ h.key # NoKey
      BY <2>4 DEF Handshake, SameParty
    <3>2. \A m \in Range(Say(h, Message(h, "dh", h.key))) : Posted(h, m, V)
      BY <3>1, SayPosted
    <3> QED
      BY <2>3, <3>2
  <2>6. Turns(g, res, T, V)
    BY <2>3, <2>4, <2>5 DEF Turns, SameParty
  <2> QED
    BY <2>2, <2>3, <2>4, <2>6 DEF Answers
<1>3. CASE g.peerPub = NoKey /\ Initiator(g) /\ g.peerCommit = NoKey
  BY <1>3, IgnoredAnswer DEF HandleDh
<1>4. CASE g.peerPub = NoKey /\ Initiator(g) /\ g.peerCommit # NoKey
  <2>1. PICK r : r = [at |-> "hash", gen |-> g.generation, peer |-> g.peer,
                      session |-> k, msg |-> <<>>]
    OBVIOUS
  <2>2. PICK res : res = HandleDh(g, k)
    OBVIOUS
  <2>3. res.g = g /\ res.runs = <<r>> /\ res.out = <<>>
    BY <1>4, <2>1, <2>2 DEF HandleDh, Hash, Result
  <2>4. r.at = "hash" /\ r.gen = g.generation /\ r.session = k
    BY <2>1
  <2>5. Begins(g, g, r, T, V)
    BY <2>4 DEF Begins, RunTied
  <2>6. Turns(g, res, T, V)
    BY <2>3, <2>5 DEF Turns, Range
  <2> QED
    BY <2>2, <2>3, <2>6 DEF Answers, RunsKept, SameParty
<1> QED
  BY <1>1, <1>2, <1>3, <1>4

\* A message of the handshake, which says what its sender has told.
LEMMA HandleAnswer ==
    ASSUME NEW T, NEW V, NEW g, NEW m, DOMAIN g = Fields, g.generation \in Nat, Tied(g, T),
           Single(T), g.version \in V, m.type \in Handshake, Speaks(m, V),
           Bears(m) => <<g.peer, m.key>> \in T
    PROVE  Answers(g, Handle(g, m), T, V)
<1>1. CASE g.state \in {"established", "failed"} \/ g.key = NoKey
  BY <1>1, IgnoredAnswer DEF Handle
<1>2. CASE ~(g.state \in {"established", "failed"} \/ g.key = NoKey) /\ m.v # g.version
  <2>1. \E v \in V : v # g.version
    BY <1>2 DEF Speaks
  <2>2. Handle(g, m) = Just(Fail(g))
    BY <1>2 DEF Handle
  <2> QED
    BY <2>1, <2>2, FailAnswer
<1>3. CASE ~(g.state \in {"established", "failed"} \/ g.key = NoKey) /\ m.v = g.version
  <2>1. CASE m.type = "hello"
    <3>1. Handle(g, m) = HandleHello(g)
      BY <1>3, <2>1 DEF Handle
    <3> QED
      BY <1>3, <3>1, HandleHelloAnswer
  <2>2. CASE m.type = "commit"
    <3>1. Handle(g, m) = HandleCommit(g, m.key)
      BY <1>3, <2>2 DEF Handle
    <3> QED
      BY <1>3, <2>2, <3>1, HandleCommitAnswer DEF Bears
  <2>3. CASE m.type = "dh"
    <3>1. Handle(g, m) = HandleDh(g, m.key)
      BY <1>3, <2>3 DEF Handle
    <3> QED
      BY <1>3, <2>3, <3>1, HandleDhAnswer DEF Bears, Speaks
  <2> QED
    BY <2>1, <2>2, <2>3 DEF Handshake
<1> QED
  BY <1>1, <1>2, <1>3

\* A handler that keeps to what has been told, and to what is under way.
Deals(g, res, T, V) == Turns(g, res, T, V) /\ RunsKept(g, res.g, T, V)

\* One that only changes what the handshake does not look at.
LEMMA SilentDeals ==
    ASSUME NEW T, NEW V, NEW g, NEW h, g.generation \in Nat, Tied(g, T), SameDeal(g, h),
           h.state = g.state \/ h.state \notin {"established", "failed"}
    PROVE  Deals(g, Just(h), T, V) /\ Just(h).g = h
<1>1. Tied(h, T) /\ RunsKept(g, h, T, V)
  BY DealStays DEF SameDeal, SameParty, SameTerms
<1>2. Turns(g, Just(h), T, V) /\ Just(h).g = h
  BY <1>1, SilentTurn DEF SameDeal, SameParty, SameTerms
<1> QED
  BY <1>1, <1>2 DEF Deals

\* One that starts an operation that is no part of a handshake.
LEMMA AsideDeals ==
    ASSUME NEW T, NEW V, NEW g, NEW r, g.generation \in Nat, Tied(g, T),
           r.at \in {"seal", "open"}, r.gen = g.generation
    PROVE  Deals(g, Result(g, <<>>, <<r>>), T, V)
<1>1. PICK res : res = Result(g, <<>>, <<r>>)
  OBVIOUS
<1>2. res.g = g /\ res.out = <<>> /\ res.runs = <<r>>
  BY <1>1 DEF Result
<1>3. Begins(g, g, r, T, V)
  BY DEF Begins, RunTied
<1>4. Turns(g, res, T, V)
  BY <1>2, <1>3 DEF Turns, Range
<1> QED
  BY <1>1, <1>2, <1>4 DEF Deals, RunsKept

\* A handler may change the controller first and then go on.
LEMMA DealsAfter ==
    ASSUME NEW T, NEW V, NEW g, NEW k, NEW res,
           g.generation \in Nat, k.generation \in Nat, res.g.generation \in Nat,
           \A r : res.runs = <<r>> => r.gen \in Nat,
           k.id = g.id, k.version = g.version, g.generation <= k.generation,
           k.state = g.state \/ k.state # "failed",
           RunsKept(g, k, T, V), Deals(k, res, T, V),
           g.key # NoKey => (k.key = g.key /\ k.peer = g.peer) \/ res.g.users # {g.peer}
    PROVE  Deals(g, res, T, V)
<1>1. res.g.generation \in Nat /\ k.generation <= res.g.generation
  BY DEF Deals, Turns
<1>2. g.generation <= res.g.generation
  BY <1>1
<1>3. /\ res.g.id = g.id /\ res.g.version = g.version /\ Tied(res.g, T)
      /\ \A m \in Range(res.out) : Posted(res.g, m, V)
      /\ res.g.state = "failed" => g.state = "failed" \/ \E v \in V : v # g.version
  BY DEF Deals, Turns
<1>4. g.key # NoKey => res.g.key = g.key \/ res.g.users # {g.peer}
  BY DEF Deals, Turns
<1>5. res.runs = <<>> \/ \E r : res.runs = <<r>> /\ Begins(g, res.g, r, T, V)
  <2>1. ASSUME NEW r, res.runs = <<r>>, Begins(k, res.g, r, T, V)
        PROVE  Begins(g, res.g, r, T, V)
    <3>1. r.gen \in Nat
      BY <2>1
    <3>2. r.at = "start" => g.generation < r.gen
      BY <2>1, <3>1 DEF Begins
    <3> QED
      BY <2>1, <3>2 DEF Begins
  <2> QED
    BY <2>1 DEF Deals, Turns
<1>6. Turns(g, res, T, V)
  BY <1>2, <1>3, <1>4, <1>5 DEF Turns
<1>7. RunsKept(g, res.g, T, V)
  BY DEF Deals, RunsKept
<1> QED
  BY <1>6, <1>7 DEF Deals

\* The handshake is forgotten and the page waits, or goes on without.
LEMMA ForgottenDeals ==
    ASSUME NEW T, NEW V, NEW g, NEW h, g.generation \in Nat,
           h.id = g.id, h.version = g.version, h.generation = g.generation + 1,
           h.state \notin {"established", "failed"}, NoTerms(h),
           g.key # NoKey => h.users # {g.peer}
    PROVE  Deals(g, Just(h), T, V) /\ Just(h).g = h
<1>1. Tied(h, T) /\ RunsKept(g, h, T, V)
  BY DealForgotten DEF NoTerms
<1>2. g.generation <= h.generation
  OBVIOUS
<1>3. Turns(g, Just(h), T, V) /\ Just(h).g = h
  BY <1>1, <1>2, SilentTurn
<1> QED
  BY <1>1, <1>3 DEF Deals

\* SayCannot(): nothing of the handshake changes.
LEMMA SayCannotDeals ==
    ASSUME NEW T, NEW V, NEW g, DOMAIN g = Fields, g.generation \in Nat, Tied(g, T),
           g.version \in V
    PROVE  LET res == SayCannot(g)
           IN  Deals(g, res, T, V) /\ SameDeal(g, res.g) /\ res.runs = <<>>
<1>1. PICK res : res = SayCannot(g)
  OBVIOUS
<1>2. PICK h : h = Downgrade(g)
  OBVIOUS
<1>3. res.g = h /\ res.out = Say(g, Message(g, "nocrypto", NoKey)) /\ res.runs = <<>>
  BY <1>1, <1>2 DEF SayCannot, Result, Nocrypto
<1>4. SameDeal(g, h) /\ h.state \in {"blocked", "unencrypted"}
  BY <1>2, DowngradeDeal
<1>5. Tied(h, T) /\ RunsKept(g, h, T, V)
  BY <1>4, DealStays DEF SameDeal, SameParty, SameTerms
<1>6. \A m \in Range(res.out) : Posted(h, m, V)
  <2>1. "nocrypto" \in Handshake \cup {"nocrypto"}
    OBVIOUS
  <2>2. \A m \in Range(Say(g, Message(g, "nocrypto", NoKey))) : Posted(g, m, V)
    BY <2>1, SayPosted
  <2>3. \A m : Posted(g, m, V) => Posted(h, m, V)
    BY <1>4 DEF Posted, SameDeal, SameParty, SameTerms
  <2> QED
    BY <1>3, <2>2, <2>3
<1>7. Turns(g, res, T, V)
  BY <1>3, <1>4, <1>5, <1>6 DEF Turns, SameDeal, SameParty, SameTerms
<1> QED
  BY <1>1, <1>3, <1>4, <1>5, <1>7 DEF Deals

\* The participant we say something to becomes the peer.
LEMMA NamedDeals ==
    ASSUME NEW T, NEW V, NEW g, NEW q, NEW h, NEW res, DOMAIN g = Fields,
           g.generation \in Nat, Tied(g, T), g.peer \in {None, q}, g.version \in V,
           h = [g EXCEPT !.peer = q], res \in {SayCannot(h), Just(Downgrade(h))}
    PROVE  Deals(g, res, T, V) /\ SameParty(g, res.g)
<1>1. /\ DOMAIN h = Fields /\ SameParty(g, h) /\ h.generation = g.generation
      /\ h.key = g.key /\ h.state = g.state /\ h.peer = q
      /\ Tied(h, T) /\ RunsKept(g, h, T, V)
  <2>1. /\ DOMAIN h = Fields /\ SameParty(g, h) /\ h.starting = g.starting /\ h.key = g.key
        /\ h.peerCommit = g.peerCommit /\ h.peerPub = g.peerPub
        /\ h.generation = g.generation /\ h.secret = g.secret /\ h.state = g.state
        /\ h.peer = q
    BY DEF Fields, SameParty
  <2>2. Tied(h, T) /\ RunsKept(g, h, T, V)
    BY <2>1, DealStays DEF SameParty
  <2> QED
    BY <2>1, <2>2
<1>2. Deals(h, res, T, V) /\ SameDeal(h, res.g) /\ res.runs = <<>>
  <2>1. CASE res = SayCannot(h)
    BY <1>1, <2>1, SayCannotDeals DEF SameParty
  <2>2. CASE res = Just(Downgrade(h))
    <3>1. PICK k : k = Downgrade(h)
      OBVIOUS
    <3>2. SameDeal(h, k) /\ k.state \in {"blocked", "unencrypted"}
      BY <1>1, <3>1, DowngradeDeal
    <3>3. Deals(h, Just(k), T, V) /\ Just(k).g = k
      BY <1>1, <3>2, SilentDeals
    <3>4. Just(k).runs = <<>>
      BY DEF Just, Result
    <3> QED
      BY <2>2, <3>1, <3>2, <3>3, <3>4
  <2> QED
    BY <2>1, <2>2
<1>3. g.key # NoKey => g.peer # None
  BY DEF Tied
<1>4. /\ h.generation \in Nat /\ res.g.generation \in Nat /\ g.generation <= h.generation
      /\ \A r : res.runs = <<r>> => r.gen \in Nat
  BY <1>1, <1>2 DEF SameDeal
<1>5. Deals(g, res, T, V)
  BY <1>1, <1>2, <1>3, <1>4, DealsAfter DEF SameParty
<1> QED
  BY <1>1, <1>2, <1>5 DEF SameDeal, SameParty

\* startWith(): a handshake that is begun is of a new generation, and what its
\* first message tells has been told.
LEMMA StartWithDeals ==
    ASSUME NEW T, NEW V, NEW g, NEW q, NEW msg, DOMAIN g = Fields, g.generation \in Nat,
           Tied(g, T), Single(T), g.version \in V, g.users = {q}, q # None,
           msg # <<>> => /\ msg[1].type \in Handshake /\ msg[1].from = q /\ Speaks(msg[1], V)
                         /\ Bears(msg[1]) => <<q, msg[1].key>> \in T
    PROVE  LET res == StartWith(g, q, msg) IN Deals(g, res, T, V) /\ SameParty(g, res.g)
<1>1. CASE g.peer = q /\ (g.key # NoKey \/ g.starting) /\ msg = <<>>
  <2>1. StartWith(g, q, msg) = Just(g)
    BY <1>1 DEF StartWith
  <2>2. Answers(g, Just(g), T, V)
    BY IgnoredAnswer
  <2> QED
    BY <2>1, <2>2 DEF Answers, Deals
<1>2. CASE g.peer = q /\ (g.key # NoKey \/ g.starting) /\ msg # <<>>
  <2>1. StartWith(g, q, msg) = Handle(g, msg[1])
    BY <1>2 DEF StartWith
  <2>2. PICK m : m = msg[1]
    OBVIOUS
  <2>3. Answers(g, Handle(g, m), T, V)
    BY <1>2, <2>2, HandleAnswer
  <2> QED
    BY <2>1, <2>2, <2>3 DEF Answers, Deals
<1>3. CASE ~(g.peer = q /\ (g.key # NoKey \/ g.starting))
  <2>1. PICK k : k = ResetPeer(g)
    OBVIOUS
  <2>2. PICK w : w = [k EXCEPT !.peer = q, !.starting = TRUE]
    OBVIOUS
  <2>3. PICK h : h = SetState(w, "handshaking")
    OBVIOUS
  <2>4. PICK r : r = [at |-> "start", gen |-> h.generation, peer |-> q,
                      session |-> NoSession, msg |-> msg]
    OBVIOUS
  <2>5. PICK res : res = StartWith(g, q, msg)
    OBVIOUS
  <2>6. res.g = h /\ res.out = <<>> /\ res.runs = <<r>>
    BY <1>3, <2>1, <2>2, <2>3, <2>4, <2>5 DEF StartWith, Result
  <2>7. /\ DOMAIN k = Fields /\ SameParty(g, k) /\ NoTerms(k)
        /\ k.generation = g.generation + 1
    BY <2>1, ResetPeerDeal
  <2>8. /\ DOMAIN w = Fields /\ SameParty(g, w) /\ w.generation = g.generation + 1
        /\ w.key = NoKey /\ w.peerCommit = NoKey /\ w.peerPub = NoKey
        /\ w.peer = q /\ w.starting = TRUE
    BY <2>2, <2>7 DEF Fields, SameParty, NoTerms
  <2>9. SameDeal(w, h) /\ h.state = "handshaking"
    BY <2>3, <2>8, SetStateDeal
  <2>10. /\ SameParty(g, h) /\ h.generation = g.generation + 1
         /\ h.key = NoKey /\ h.peerCommit = NoKey /\ h.peerPub = NoKey
         /\ h.peer = q /\ h.starting = TRUE
    BY <2>8, <2>9 DEF SameDeal, SameParty, SameTerms
  <2>11. Tied(h, T) /\ RunsKept(g, h, T, V)
    BY <2>9, <2>10, DealForgotten
  <2>12. r.at = "start" /\ r.gen = h.generation /\ r.peer = q /\ r.msg = msg
    BY <2>4
  <2>13. Begins(g, h, r, T, V)
    <3>1. RunTied(h, r, T, V)
      BY <2>10, <2>12 DEF RunTied
    <3>2. g.generation < r.gen
      BY <2>10, <2>12
    <3> QED
      BY <2>12, <3>1, <3>2 DEF Begins
  <2>14. g.key # NoKey => h.users # {g.peer}
    BY <1>3, <2>10 DEF SameParty
  <2>15. g.generation <= h.generation /\ h.state # "failed"
    BY <2>9, <2>10
  <2>16. Turns(g, res, T, V)
    <3>1. \A m \in Range(res.out) : Posted(h, m, V)
      BY <2>6 DEF Range
    <3>2. \E x : res.runs = <<x>> /\ Begins(g, h, x, T, V)
      BY <2>6, <2>13
    <3>3. h.id = g.id /\ h.version = g.version
      BY <2>10 DEF SameParty
    <3> QED
      BY <2>6, <2>11, <2>14, <2>15, <3>1, <3>2, <3>3 DEF Turns
  <2> QED
    BY <2>5, <2>6, <2>10, <2>11, <2>16 DEF Deals
<1> QED
  BY <1>1, <1>2, <1>3

\* recompute(): a handshake is begun, forgotten or left alone.
LEMMA RecomputeDeals ==
    ASSUME NEW T, NEW V, NEW g, DOMAIN g = Fields, g.generation \in Nat, IsFiniteSet(g.users),
           g.users = {} \/ Tied(g, T), Single(T), g.version \in V, None \notin g.users,
           \A q : g.users = {q} => g.peer \in {None, q}
    PROVE  LET res == Recompute(g) IN Deals(g, res, T, V) /\ SameParty(g, res.g)
<1>1. ASSUME NEW h, DOMAIN h = Fields, SameParty(g, h), NoTerms(h),
             h.generation = g.generation + 1,
             h.state \notin {"established", "failed"}, \A q : g.users # {q}
      PROVE  Deals(g, Just(h), T, V) /\ SameParty(g, Just(h).g)
  <2>1. h.id = g.id /\ h.version = g.version /\ h.users # {g.peer}
    BY <1>1 DEF SameParty
  <2>2. Deals(g, Just(h), T, V) /\ Just(h).g = h
    BY <1>1, <2>1, ForgottenDeals
  <2> QED
    BY <1>1, <2>2
<1>2. PICK k : k = ResetPeer(g)
  OBVIOUS
<1>3. /\ DOMAIN k = Fields /\ SameParty(g, k) /\ NoTerms(k) /\ k.generation = g.generation + 1
  BY <1>2, ResetPeerDeal
<1>4. ASSUME NEW h, h \in {Downgrade(k), SetState(k, "idle")}
      PROVE  /\ DOMAIN h = Fields /\ SameParty(g, h) /\ NoTerms(h)
             /\ h.generation = g.generation + 1 /\ h.state \notin {"established", "failed"}
  <2>1. DOMAIN h = Fields /\ SameDeal(k, h) /\ h.state \notin {"established", "failed"}
    BY <1>3, <1>4, DowngradeDeal, SetStateDeal
  <2> QED
    BY <1>3, <2>1 DEF SameDeal, SameParty, SameTerms, NoTerms
<1>5. CASE g.users = {}
  <2>1. PICK h : h = IF g.require /\ ~CanEncrypt(g) THEN Downgrade(k) ELSE SetState(k, "idle")
    OBVIOUS
  <2>2. Recompute(g) = Just(h)
    BY <1>2, <1>5, <2>1 DEF Recompute
  <2>3. h \in {Downgrade(k), SetState(k, "idle")}
    BY <2>1
  <2>4. \A q : g.users # {q}
    BY <1>5
  <2> QED
    BY <1>1, <1>4, <2>2, <2>3, <2>4
<1>6. CASE g.users # {} /\ Cardinality(g.users) > 1
  <2>1. PICK h : h = Downgrade(k)
    OBVIOUS
  <2>2. Recompute(g) = Just(h)
    BY <1>2, <1>6, <2>1 DEF Recompute
  <2>3. ASSUME NEW q, g.users = {q} PROVE FALSE
    <3>1. Cardinality({q}) = 1
      BY FS_Singleton
    <3>2. Cardinality(g.users) = 1
      BY <2>3, <3>1
    <3> QED
      BY <1>6, <3>2
  <2>4. \A q : g.users # {q}
    BY <2>3
  <2> QED
    BY <1>1, <1>4, <2>1, <2>2, <2>4
<1>7. CASE g.users # {} /\ ~(Cardinality(g.users) > 1)
  <2>1. PICK q : q = CHOOSE u \in g.users : TRUE
    OBVIOUS
  <2>2. g.users = {q}
    BY <1>7, <2>1, OneUser
  <2>3. q # None /\ g.peer \in {None, q} /\ Tied(g, T)
    BY <1>7, <2>2
  <2>4. CASE CanEncrypt(g)
    <3>1. Recompute(g) = StartWith(g, q, <<>>)
      BY <1>7, <2>1, <2>4 DEF Recompute
    <3>2. PICK msg : msg = <<>>
      OBVIOUS
    <3>3. Deals(g, StartWith(g, q, msg), T, V) /\ SameParty(g, StartWith(g, q, msg).g)
      BY <2>2, <2>3, <3>2, StartWithDeals
    <3> QED
      BY <3>1, <3>2, <3>3
  <2>5. CASE ~CanEncrypt(g)
    <3>1. PICK h : h = [g EXCEPT !.peer = q]
      OBVIOUS
    <3>2. PICK res : res = SayCannot(h)
      OBVIOUS
    <3>3. Recompute(g) = res
      BY <1>7, <2>1, <2>5, <3>1, <3>2 DEF Recompute
    <3>4. res \in {SayCannot(h), Just(Downgrade(h))}
      BY <3>2
    <3>5. Deals(g, res, T, V) /\ SameParty(g, res.g)
      BY <2>3, <3>1, <3>4, NamedDeals
    <3> QED
      BY <3>3, <3>5
  <2> QED
    BY <2>4, <2>5
<1> QED
  BY <1>5, <1>6, <1>7

\* The numbers of a handler that is as it should be.
LEMMA SoundNumbers ==
    ASSUME NEW A, NEW g, NEW res, Sound(g, res, A)
    PROVE  res.g.generation \in Nat /\ \A r : res.runs = <<r>> => r.gen \in Nat
<1>1. res.g.generation \in Nat
  BY DEF Sound, Outcome, Kept, Controller
<1>2. ASSUME NEW r, res.runs = <<r>> PROVE r.gen \in Nat
  <2>1. res.runs # <<>>
    BY <1>2
  <2>2. PICK x : res.runs = <<x>> /\ RunType(x)
    BY <2>1 DEF Sound, Outcome, Starts
  <2>3. x = r
    BY <1>2, <2>2
  <2> QED
    BY <2>2, <2>3 DEF RunType
<1> QED
  BY <1>1, <1>2

\* Others are in the room, and perhaps others have told their names.
Among(g, h, U, N) ==
    h = [g EXCEPT !.users = U] \/ h = [g EXCEPT !.users = U, !.names = N]

\* Those in the room are no part of the handshake.
LEMMA UsersDeal ==
    ASSUME NEW g, NEW h, NEW U, NEW N, DOMAIN g = Fields, Among(g, h, U, N)
    PROVE  /\ DOMAIN h = Fields /\ h.users = U /\ h.id = g.id /\ h.version = g.version
           /\ h.supported = g.supported /\ SameTerms(g, h)
           /\ h.generation = g.generation /\ h.secret = g.secret /\ h.state = g.state
<1>1. CASE h = [g EXCEPT !.users = U]
  BY <1>1 DEF Fields, SameTerms
<1>2. CASE h = [g EXCEPT !.users = U, !.names = N]
  BY <1>2 DEF Fields, SameTerms
<1> QED
  BY <1>1, <1>2 DEF Among

\* addUser().
LEMMA AddUserDeals ==
    ASSUME NEW T, NEW V, NEW A, NEW g, NEW u \in Ids, Controller(g, A), A \subseteq Ids,
           Settled(g), Tied(g, T), Single(T), g.version \in V
    PROVE  LET res == AddUser(g, u)
           IN  Deals(g, res, T, V) /\ res.g.users = g.users \cup {u}
<1>1. PICK U : U = g.users \cup {u}
  OBVIOUS
<1>2. PICK k : k = [g EXCEPT !.users = U]
  OBVIOUS
<1>3. PICK res : res = AddUser(g, u)
  OBVIOUS
<1>4. res = Recompute(k)
  BY <1>1, <1>2, <1>3 DEF AddUser
<1>5. /\ DOMAIN k = Fields /\ k.users = U /\ k.id = g.id /\ k.version = g.version
      /\ k.supported = g.supported /\ SameTerms(g, k)
      /\ k.generation = g.generation /\ k.secret = g.secret /\ k.state = g.state
  <2>1. Among(g, k, U, U)
    BY <1>2 DEF Among
  <2> QED
    BY <2>1, UsersDeal DEF Controller
<1>6. g.generation \in Nat /\ IsFiniteSet(U) /\ None \notin U
  BY <1>1, FS_AddElement, Numbers DEF Controller
<1>7. Tied(k, T) /\ RunsKept(g, k, T, V)
  BY <1>5, <1>6, DealStays DEF SameTerms
<1>8. \A q : k.users = {q} => k.peer \in {None, q}
  BY <1>1, <1>5 DEF Settled, SameTerms
<1>9. Deals(k, res, T, V) /\ SameParty(k, res.g)
  BY <1>4, <1>5, <1>6, <1>7, <1>8, RecomputeDeals
<1>10. res.g.generation \in Nat /\ \A r : res.runs = <<r>> => r.gen \in Nat
  <2>1. Sound(g, AddUser(g, u), A)
    BY AddUserSound
  <2> QED
    BY <1>3, <2>1, SoundNumbers
<1>11. k.key = g.key /\ k.peer = g.peer /\ g.generation <= k.generation /\ k.generation \in Nat
  BY <1>5, <1>6 DEF SameTerms
<1>12. Deals(g, res, T, V)
  BY <1>5, <1>6, <1>7, <1>9, <1>10, <1>11, DealsAfter
<1> QED
  BY <1>1, <1>3, <1>5, <1>9, <1>12 DEF SameParty

\* delUser(): with the peer goes the handshake.
LEMMA DelUserDeals ==
    ASSUME NEW T, NEW V, NEW A, NEW g, NEW u \in Ids, Controller(g, A), A \subseteq Ids,
           Settled(g), Tied(g, T), Single(T), g.version \in V
    PROVE  LET res == DelUser(g, u)
           IN  Deals(g, res, T, V) /\ res.g.users = g.users \ {u}
<1>1. PICK U : U = g.users \ {u}
  OBVIOUS
<1>2. PICK N : N = g.names \ {u}
  OBVIOUS
<1>3. PICK h : h = [g EXCEPT !.users = U, !.names = N]
  OBVIOUS
<1>4. PICK k : k = IF u = g.peer THEN ResetPeer(h) ELSE h
  OBVIOUS
<1>5. PICK res : res = DelUser(g, u)
  OBVIOUS
<1>6. res = Recompute(k)
  BY <1>1, <1>2, <1>3, <1>4, <1>5 DEF DelUser
<1>7. /\ DOMAIN h = Fields /\ h.users = U /\ h.id = g.id /\ h.version = g.version
      /\ h.supported = g.supported /\ SameTerms(g, h)
      /\ h.generation = g.generation /\ h.secret = g.secret /\ h.state = g.state
  <2>1. Among(g, h, U, N)
    BY <1>3 DEF Among
  <2> QED
    BY <2>1, UsersDeal DEF Controller
<1>8. g.generation \in Nat /\ IsFiniteSet(U) /\ None \notin U
  BY <1>1, FS_RemoveElement, Numbers DEF Controller
<1>9. Tied(h, T) /\ RunsKept(g, h, T, V)
  BY <1>7, <1>8, DealStays DEF SameTerms
<1>10. /\ DOMAIN k = Fields /\ k.users = U /\ k.id = g.id /\ k.version = g.version
       /\ k.state = g.state /\ k.generation \in Nat /\ g.generation <= k.generation
       /\ U = {} \/ Tied(k, T)
       /\ RunsKept(g, k, T, V)
       /\ u # g.peer => k.key = g.key /\ k.peer = g.peer
       /\ u = g.peer => k.peer = None
  <2>1. CASE u # g.peer
    BY <1>4, <1>7, <1>8, <1>9, <2>1 DEF SameTerms
  <2>2. CASE u = g.peer
    <3>1. k = ResetPeer(h)
      BY <1>4, <2>2
    <3>2. /\ DOMAIN k = Fields /\ SameParty(h, k) /\ NoTerms(k)
          /\ k.generation = h.generation + 1 /\ k.secret = NoSession /\ k.state = h.state
      BY <1>7, <3>1, ResetPeerDeal
    <3>3. /\ \A r : r.gen \in Nat /\ RunTied(h, r, T, V) => RunTied(k, r, T, V)
      <4>1. ASSUME NEW r, r.gen \in Nat, RunTied(h, r, T, V) PROVE RunTied(k, r, T, V)
        <5>1. r.gen <= k.generation /\ r.gen # k.generation
          BY <1>7, <1>8, <3>2, <4>1 DEF RunTied
        <5> QED
          BY <3>2, <4>1, <5>1 DEF RunTied, NoTerms
      <4> QED
        BY <4>1
    <3>4. RunsKept(g, k, T, V)
      BY <1>9, <3>3 DEF RunsKept
    <3>5. k.generation \in Nat /\ g.generation <= k.generation
      BY <1>7, <1>8, <3>2
    <3>6. U = {}
      BY <1>1, <2>2, Numbers DEF Settled
    <3> QED
      BY <1>7, <2>2, <3>2, <3>4, <3>5, <3>6 DEF SameParty, NoTerms
  <2> QED
    BY <2>1, <2>2
<1>11. \A q : k.users = {q} => k.peer \in {None, q}
  BY <1>1, <1>10 DEF Settled
<1>12. Deals(k, res, T, V) /\ SameParty(k, res.g)
  BY <1>6, <1>8, <1>10, <1>11, RecomputeDeals
<1>13. res.g.generation \in Nat /\ \A r : res.runs = <<r>> => r.gen \in Nat
  <2>1. Sound(g, DelUser(g, u), A)
    BY DelUserSound
  <2> QED
    BY <1>5, <2>1, SoundNumbers
<1>14. g.key # NoKey => (k.key = g.key /\ k.peer = g.peer) \/ res.g.users # {g.peer}
  BY <1>1, <1>10, <1>12 DEF SameParty
<1>15. Deals(g, res, T, V)
  BY <1>8, <1>10, <1>12, <1>13, <1>14, DealsAfter
<1> QED
  BY <1>1, <1>5, <1>10, <1>12, <1>15 DEF SameParty

\* onMessage(), of a message that says what its sender has told.
LEMMA OnMessageDeals ==
    ASSUME NEW T, NEW V, NEW g, NEW m, DOMAIN g = Fields, g.generation \in Nat,
           Settled(g), Tied(g, T), Single(T), g.version \in V,
           m.type \in Handshake \cup {"nocrypto"}, m.from # None, Speaks(m, V),
           Bears(m) => <<m.from, m.key>> \in T
    PROVE  LET res == OnMessage(g, m) IN Deals(g, res, T, V) /\ SameParty(g, res.g)
<1>1. PICK q : q = m.from
  OBVIOUS
<1>2. PICK h : h = [g EXCEPT !.peer = q]
  OBVIOUS
<1>3. g.users = {q} => g.peer \in {None, q}
  BY DEF Settled
<1>4. CASE g.users # {q}
  <2>1. OnMessage(g, m) = Just(g)
    BY <1>1, <1>4 DEF OnMessage
  <2>2. Answers(g, Just(g), T, V)
    BY IgnoredAnswer
  <2> QED
    BY <2>1, <2>2 DEF Answers, Deals
<1>5. CASE g.users = {q} /\ (~g.supported \/ m.type = "nocrypto")
  <2>1. PICK res : res = OnMessage(g, m)
    OBVIOUS
  <2>2. res \in {SayCannot(h), Just(Downgrade(h))}
    BY <1>1, <1>2, <1>5, <2>1 DEF OnMessage
  <2>3. Deals(g, res, T, V) /\ SameParty(g, res.g)
    BY <1>2, <1>3, <1>5, <2>2, NamedDeals
  <2> QED
    BY <2>1, <2>3
<1>6. CASE /\ g.users = {q} /\ g.supported /\ m.type # "nocrypto"
           /\ g.peer # q \/ g.key = NoKey
  <2>1. PICK msg : msg = <<m>>
    OBVIOUS
  <2>2. msg # <<>> /\ msg[1] = m
    BY <2>1
  <2>3. OnMessage(g, m) = StartWith(g, q, msg)
    BY <1>1, <1>6, <2>1 DEF OnMessage
  <2>4. /\ msg[1].type \in Handshake /\ msg[1].from = q /\ Speaks(msg[1], V)
        /\ Bears(msg[1]) => <<q, msg[1].key>> \in T
    BY <1>1, <1>6, <2>2
  <2>5. Deals(g, StartWith(g, q, msg), T, V) /\ SameParty(g, StartWith(g, q, msg).g)
    BY <1>1, <1>6, <2>4, StartWithDeals
  <2> QED
    BY <2>3, <2>5
<1>7. CASE /\ g.users = {q} /\ g.supported /\ m.type # "nocrypto"
           /\ g.peer = q /\ g.key # NoKey
  <2>1. OnMessage(g, m) = Handle(g, m)
    BY <1>1, <1>7 DEF OnMessage
  <2>2. m.type \in Handshake /\ (Bears(m) => <<g.peer, m.key>> \in T)
    BY <1>1, <1>7
  <2>3. Answers(g, Handle(g, m), T, V)
    BY <2>2, HandleAnswer
  <2> QED
    BY <2>1, <2>3 DEF Answers, Deals
<1> QED
  BY <1>4, <1>5, <1>6, <1>7

\* A text that comes in.
LEMMA DecryptChatDeals ==
    ASSUME NEW T, NEW V, NEW g, NEW m, g.generation \in Nat, Tied(g, T)
    PROVE  LET res == DecryptChat(g, m) IN Deals(g, res, T, V) /\ SameParty(g, res.g)
<1>1. CASE ~(g.state = "established" /\ g.chatKey # NoSession /\ m.from = g.peer)
  <2>1. DecryptChat(g, m) = Just(g)
    BY <1>1 DEF DecryptChat
  <2>2. Answers(g, Just(g), T, V)
    BY IgnoredAnswer
  <2> QED
    BY <2>1, <2>2 DEF Answers, Deals
<1>2. CASE g.state = "established" /\ g.chatKey # NoSession /\ m.from = g.peer
  <2>1. PICK r : r = [at |-> "open", gen |-> g.generation, peer |-> m.from,
                      session |-> g.chatKey, msg |-> <<m>>]
    OBVIOUS
  <2>2. r.at \in {"seal", "open"} /\ r.gen = g.generation
    BY <2>1
  <2>3. DecryptChat(g, m) = Result(g, <<>>, <<r>>)
    BY <1>2, <2>1 DEF DecryptChat
  <2>4. Deals(g, Result(g, <<>>, <<r>>), T, V)
    BY <2>2, AsideDeals
  <2>5. Result(g, <<>>, <<r>>).g = g
    BY DEF Result
  <2> QED
    BY <2>3, <2>4, <2>5 DEF SameParty
<1> QED
  BY <1>1, <1>2

\* What is kept of what is still under way when run r is over: behind a
\* handshake that is being started there is no other part of one.
KeptBehind(g, h, r, T, V) ==
    \A x : /\ x.gen \in Nat /\ RunTied(g, x, T, V)
           /\ r.at = "start" /\ r.gen = g.generation => x.at \notin {"start", "hash"}
           => RunTied(h, x, T, V)

\* A handler that completes run r.
DealsBehind(g, r, res, T, V) ==
    Turns(g, res, T, V) /\ KeptBehind(g, res.g, r, T, V) /\ SameParty(g, res.g)

\* One that keeps everything keeps it behind any run.
LEMMA KeptBehindSo ==
    ASSUME NEW T, NEW V, NEW g, NEW r, NEW res, Deals(g, res, T, V), SameParty(g, res.g)
    PROVE  DealsBehind(g, r, res, T, V)
  BY DEF Deals, DealsBehind, KeptBehind, RunsKept

\* An answer is at most one message.
LEMMA HandleSays ==
    ASSUME NEW g, NEW m, m.type \in Handshake
    PROVE  LET out == Handle(g, m).out IN out = <<>> \/ \E x : out = <<x>>
<1>1. \A h : Just(h).out = <<>>
  BY DEF Just, Result
<1>2. \A h, x : Say(h, x) = <<>> \/ \E y : Say(h, x) = <<y>>
  BY DEF Say
<1>3. \A h, o, rs : Result(h, o, rs).out = o
  BY DEF Result
<1>4. LET out == HandleHello(g).out IN out = <<>> \/ \E x : out = <<x>>
  BY <1>1, <1>2, <1>3 DEF HandleHello
<1>5. \A k : LET out == HandleCommit(g, k).out IN out = <<>> \/ \E x : out = <<x>>
  BY <1>1, <1>2, <1>3 DEF HandleCommit
<1>6. \A k : LET out == HandleDh(g, k).out IN out = <<>> \/ \E x : out = <<x>>
  BY <1>1, <1>2, <1>3 DEF HandleDh
<1>7. Handle(g, m) \in {Just(g), Just(Fail(g)), HandleHello(g), HandleCommit(g, m.key),
                        HandleDh(g, m.key)}
  BY DEF Handle, Handshake
<1> QED
  BY <1>1, <1>4, <1>5, <1>6, <1>7

\* Two lots of messages of at most one, one after the other.
LEMMA ShortQueues ==
    ASSUME NEW o1, NEW o2, NEW o3, o1 = <<>> \/ (\E x : o1 = <<x>>),
           o2 = <<>> \/ (\E x : o2 = <<x>>), o3 = <<>> \/ (\E x : o3 = <<x>>)
    PROVE  Range((o1 \o o2) \o o3) \subseteq Range(o1) \cup Range(o2) \cup Range(o3)
<1>1. \A o : o = <<>> \/ (\E x : o = <<x>>) => o \in Seq(Range(o))
  <2>1. ASSUME NEW o, o = <<>> PROVE o \in Seq(Range(o))
    BY <2>1
  <2>2. ASSUME NEW o, NEW x, o = <<x>> PROVE o \in Seq(Range(o))
    BY <2>2 DEF Range
  <2> QED
    BY <2>1, <2>2
<1>2. o1 \in Seq(Range(o1)) /\ o2 \in Seq(Range(o2)) /\ o3 \in Seq(Range(o3))
  BY <1>1
<1>3. PICK o : o = o1 \o o2
  OBVIOUS
<1>4. o \in Seq(Range(o)) /\ Range(o) \subseteq Range(o1) \cup Range(o2)
  <2>1. Joined(o1, o2, o)
    BY <1>2, <1>3 DEF Joined
  <2> QED
    BY <2>1, BothQueues
<1>5. PICK w : w = o \o o3
  OBVIOUS
<1>6. Range(w) \subseteq Range(o) \cup Range(o3)
  <2>1. Joined(o, o3, w)
    BY <1>2, <1>4, <1>5 DEF Joined
  <2> QED
    BY <2>1, BothQueues
<1> QED
  BY <1>3, <1>4, <1>5, <1>6

\* startWith(), after the key pair has been made: a key that is no longer
\* wanted is dropped.
LEMMA StartedDeals ==
    ASSUME NEW T, NEW V, NEW A, NEW g, NEW r, Controller(g, A), Tied(g, T), Single(T),
           g.version \in V, RunType(r), r.at = "start", RunTied(g, r, T, V)
    PROVE  DealsBehind(g, r, Started(g, r), T, V)
<1>1. PICK m : m = r.msg[1]
  OBVIOUS
<1>2. DOMAIN g = Fields /\ g.generation \in Nat /\ g.key = NoKey
      /\ (r.msg # <<>> => m.type \in Handshake /\ m.from = r.peer /\ Speaks(m, V))
  BY <1>1 DEF Controller, RunType, RunTied
<1>3. CASE g.peer # r.peer \/ g.generation # r.gen
  <2>1. PICK next : next = IF r.msg = <<>> THEN Just(g) ELSE Handle(g, m)
    OBVIOUS
  <2>2. next = Just(g)
    BY <1>2, <2>1 DEF Handle
  <2>3. Started(g, r) = Result(next.g, <<>> \o next.out, next.runs)
    BY <1>1, <1>3, <2>1 DEF Started
  <2>4. <<>> \o <<>> = <<>>
    OBVIOUS
  <2>5. Started(g, r) = Just(g)
    BY <2>2, <2>3, <2>4 DEF Just, Result
  <2>6. Answers(g, Just(g), T, V)
    BY <1>2, IgnoredAnswer
  <2> QED
    BY <2>5, <2>6, KeptBehindSo DEF Answers, Deals
<1>4. CASE g.peer = r.peer /\ g.generation = r.gen
  <2>1. PICK key : key = <<g.id, g.generation>>
    OBVIOUS
  <2>2. PICK h : h = WithKey(g, key)
    OBVIOUS
  <2>3. PICK next : next = IF r.msg = <<>> THEN Just(h) ELSE Handle(h, m)
    OBVIOUS
  <2>4. PICK hello : hello = Say(h, Message(h, "hello", NoKey))
    OBVIOUS
  <2>5. PICK commit : commit = IF Initiator(h) THEN <<>> ELSE Say(h, Message(h, "commit", h.key))
    OBVIOUS
  <2>6. PICK res : res = Started(g, r)
    OBVIOUS
  <2>7. res = Result(next.g, (hello \o commit) \o next.out, next.runs)
    <3>1. h = [g EXCEPT !.key = <<g.id, g.generation>>, !.starting = FALSE]
      BY <2>1, <2>2 DEF WithKey
    <3> QED
      BY <1>1, <1>4, <2>3, <2>4, <2>5, <2>6, <3>1 DEF Started
  <2>8. key # NoKey
    BY <2>1 DEF NoKey
  <2>9. /\ DOMAIN h = Fields /\ SameParty(g, h) /\ h.peer = g.peer /\ h.starting = FALSE
        /\ h.key = key /\ h.peerCommit = g.peerCommit /\ h.peerPub = g.peerPub
        /\ h.generation = g.generation /\ h.state = g.state /\ h.secret = g.secret
    BY <1>2, <2>2 DEF WithKey, Fields, SameParty
  <2>10. g.starting /\ g.peer # None
    BY <1>4 DEF RunTied, Tied
  <2>11. g.peerCommit = NoKey /\ g.peerPub = NoKey /\ g.state # "established"
    BY <1>2 DEF Tied, Whole
  <2>12. Tied(h, T)
    BY <2>9, <2>10, <2>11 DEF Tied
  <2>13. ASSUME NEW x, RunTied(g, x, T, V), x.at \notin {"start", "hash"}
         PROVE  RunTied(h, x, T, V)
    <3>1. ~(x.at \in {"keys", "sas"} /\ x.gen = g.generation)
      BY <1>2, <2>13 DEF RunTied, Whole
    <3>2. x.gen <= h.generation
      BY <2>9, <2>13 DEF RunTied
    <3> QED
      BY <2>9, <2>13, <3>1, <3>2 DEF RunTied
  <2>14. Answers(h, next, T, V)
    <3>1. h.generation \in Nat /\ h.version \in V
      BY <1>2, <2>9 DEF SameParty
    <3>2. CASE r.msg = <<>>
      BY <2>3, <2>12, <3>1, <3>2, IgnoredAnswer
    <3>3. CASE r.msg # <<>>
      <4>1. Bears(m) => <<h.peer, m.key>> \in T
        BY <1>1, <1>4, <2>9, <3>3 DEF RunTied
      <4>2. Answers(h, Handle(h, m), T, V)
        BY <1>2, <2>9, <2>12, <3>1, <3>3, <4>1, HandleAnswer
      <4> QED
        BY <2>3, <3>3, <4>2
    <3> QED
      BY <3>2, <3>3
  <2>15. res.g = next.g /\ res.runs = next.runs /\ res.out = (hello \o commit) \o next.out
    BY <2>7 DEF Result
  <2>16. /\ SameParty(h, next.g) /\ next.g.key = h.key /\ next.g.peer = h.peer
         /\ Turns(h, next, T, V) /\ RunsKept(h, next.g, T, V)
    BY <2>14 DEF Answers
  <2>17. \A x \in Range(hello) \cup Range(commit) : Posted(next.g, x, V)
    <3>1. "hello" \in Handshake \cup {"nocrypto"} /\ "commit" \in Handshake \cup {"nocrypto"}
          /\ "hello" \notin {"commit", "dh"}
      BY DEF Handshake
    <3>2. h.version \in V /\ h.key # NoKey
      BY <2>8, <2>9 DEF SameParty
    <3>3. \A x \in Range(Say(h, Message(h, "hello", NoKey))) : Posted(h, x, V)
      BY <3>1, <3>2, SayPosted
    <3>4. \A x \in Range(Say(h, Message(h, "commit", h.key))) : Posted(h, x, V)
      BY <3>1, <3>2, SayPosted
    <3>5. Range(<<>>) = {}
      BY DEF Range
    <3>6. \A x \in Range(hello) \cup Range(commit) : Posted(h, x, V)
      BY <2>4, <2>5, <3>3, <3>4, <3>5
    <3>7. \A x : Posted(h, x, V) => Posted(next.g, x, V)
      BY <2>16 DEF Posted, SameParty
    <3> QED
      BY <3>6, <3>7
  <2>18. \A x \in Range(res.out) : Posted(res.g, x, V)
    <3>1. hello = <<>> \/ \E x : hello = <<x>>
      BY <2>4 DEF Say
    <3>2. commit = <<>> \/ \E x : commit = <<x>>
      BY <2>5 DEF Say
    <3>3. PICK o : o = next.out
      OBVIOUS
    <3>4. o = <<>> \/ \E x : o = <<x>>
      <4>1. CASE r.msg = <<>>
        BY <2>3, <3>3, <4>1 DEF Just, Result
      <4>2. CASE r.msg # <<>>
        BY <1>2, <2>3, <3>3, <4>2, HandleSays
      <4> QED
        BY <4>1, <4>2
    <3>5. Range((hello \o commit) \o o) \subseteq Range(hello) \cup Range(commit) \cup Range(o)
      BY <3>1, <3>2, <3>4, ShortQueues
    <3>6. \A x \in Range(o) : Posted(next.g, x, V)
      BY <2>16, <3>3 DEF Turns
    <3> QED
      BY <2>15, <2>17, <3>3, <3>5, <3>6
  <2>19. res.runs = <<>> \/ \E x : res.runs = <<x>> /\ Begins(g, res.g, x, T, V)
    <3>1. ASSUME NEW x, Begins(h, next.g, x, T, V) PROVE Begins(g, next.g, x, T, V)
      BY <2>9, <3>1 DEF Begins
    <3> QED
      BY <2>15, <2>16, <3>1 DEF Turns
  <2>20. /\ res.g.id = g.id /\ res.g.version = g.version /\ g.generation <= res.g.generation
         /\ Tied(res.g, T) /\ SameParty(g, res.g)
         /\ res.g.state = "failed" => g.state = "failed" \/ \E v \in V : v # g.version
    BY <2>9, <2>15, <2>16 DEF Turns, SameParty
  <2>21. Turns(g, res, T, V)
    BY <1>2, <2>18, <2>19, <2>20 DEF Turns
  <2>22. KeptBehind(g, res.g, r, T, V)
    BY <1>4, <2>13, <2>15, <2>16 DEF KeptBehind, RunsKept
  <2> QED
    BY <2>6, <2>20, <2>21, <2>22 DEF DealsBehind
<1> QED
  BY <1>3, <1>4

\* handleDh(), after the responder's key has been hashed: it is the one it
\* has committed to.
LEMMA HashedDeals ==
    ASSUME NEW T, NEW V, NEW g, NEW r, DOMAIN g = Fields, g.generation \in Nat, Tied(g, T),
           Single(T), r.at = "hash", RunTied(g, r, T, V)
    PROVE  LET res == Hashed(g, r) IN Deals(g, res, T, V) /\ SameParty(g, res.g)
<1>1. g.peerCommit # NoKey => g.key # NoKey /\ <<g.peer, r.session>> \in T
                              /\ r.session = g.peerCommit
  BY DEF Tied, RunTied, Single
<1>2. CASE g.peerCommit = NoKey \/ g.peerPub # NoKey \/ g.state # "handshaking"
  <2>1. Hashed(g, r) = Just(g)
    BY <1>1, <1>2 DEF Hashed
  <2>2. Answers(g, Just(g), T, V)
    BY IgnoredAnswer
  <2> QED
    BY <2>1, <2>2 DEF Answers, Deals
<1>3. CASE ~(g.peerCommit = NoKey \/ g.peerPub # NoKey \/ g.state # "handshaking")
  <2>1. PICK k : k = r.session
    OBVIOUS
  <2>2. PICK h : h = [g EXCEPT !.peerPub = k]
    OBVIOUS
  <2>3. PICK res : res = Result(h, <<>>, Finalize(h))
    OBVIOUS
  <2>4. Hashed(g, r) = res
    BY <1>1, <1>3, <2>1, <2>2, <2>3 DEF Hashed
  <2>5. res.g = h /\ res.out = <<>> /\ res.runs = Finalize(h)
    BY <2>3 DEF Result
  <2>6. k # NoKey /\ <<g.peer, k>> \in T /\ g.key # NoKey
    BY <1>1, <1>3, <2>1 DEF RunTied
  <2>7. /\ SameParty(g, h) /\ h.key = g.key /\ h.peer = g.peer /\ h.state = g.state
        /\ h.generation = g.generation
        /\ Tied(h, T) /\ RunsKept(g, h, T, V)
        /\ \E x : Finalize(h) = <<x>> /\ Begins(g, h, x, T, V)
    BY <1>3, <2>2, <2>6, PubLearnt
  <2>8. \A m \in Range(res.out) : Posted(h, m, V)
    BY <2>5 DEF Range
  <2>9. Turns(g, res, T, V)
    BY <2>5, <2>7, <2>8 DEF Turns, SameParty
  <2> QED
    BY <2>4, <2>5, <2>7, <2>9 DEF Deals
<1> QED
  BY <1>2, <1>3

\* The secret is there: it is that of the transcript.
LEMMA DealSealed ==
    ASSUME NEW T, NEW V, NEW g, NEW h, g.generation \in Nat, Tied(g, T), Whole(g),
           SameParty(g, h), SameTerms(g, h), h.generation = g.generation,
           h.secret = Transcript(g)
    PROVE  /\ Tied(h, T) /\ RunsKept(g, h, T, V)
           /\ Whole(h) /\ Transcript(h) = Transcript(g)
<1>1. Transcript(h) = Transcript(g) /\ Whole(h)
  BY DEF Transcript, Whole, Initiator, SameParty, SameTerms
<1>2. Tied(h, T)
  BY <1>1 DEF Tied, SameTerms
<1>3. ASSUME NEW r, RunTied(g, r, T, V) PROVE RunTied(h, r, T, V)
  BY <1>1, <1>3 DEF RunTied, SameTerms
<1> QED
  BY <1>1, <1>2, <1>3 DEF RunsKept

\* finalize(), when the keys are there, and when the emoji are.
LEMMA FinalizingDeals ==
    ASSUME NEW T, NEW V, NEW g, NEW r, DOMAIN g = Fields, g.generation \in Nat, Tied(g, T),
           RunType(r), r.at \in {"keys", "sas"}, r.gen = g.generation, RunTied(g, r, T, V)
    PROVE  LET res == Finalizing(g, r) IN Deals(g, res, T, V) /\ SameParty(g, res.g)
<1>1. Whole(g) /\ r.session = Transcript(g) /\ (r.at = "sas" => g.secret = Transcript(g))
  BY DEF RunTied
<1>2. CASE r.at = "keys"
  <2>1. PICK w : w = [g EXCEPT !.secret = r.session, !.mediaKey = r.session,
                               !.chatKey = r.session, !.chatSendSeq = 0, !.chatRecvSeq = 0]
    OBVIOUS
  <2>2. PICK h : h = SetWorkerMode(w, FALSE)
    OBVIOUS
  <2>3. PICK x : x = [r EXCEPT !.at = "sas"]
    OBVIOUS
  <2>4. PICK res : res = Finalizing(g, r)
    OBVIOUS
  <2>5. res.g = h /\ res.out = <<>> /\ res.runs = <<x>>
    BY <1>2, <2>1, <2>2, <2>3, <2>4 DEF Finalizing, Result
  <2>6. /\ DOMAIN w = Fields /\ SameParty(g, w) /\ SameTerms(g, w)
        /\ w.generation = g.generation /\ w.secret = r.session /\ w.state = g.state
    BY <2>1 DEF Fields, SameParty, SameTerms
  <2>7. SameDeal(w, h) /\ h.state = w.state
    BY <2>2, <2>6, SetWorkerModeDeal
  <2>8. /\ SameParty(g, h) /\ SameTerms(g, h) /\ h.generation = g.generation
        /\ h.secret = Transcript(g) /\ h.state = g.state
    BY <1>1, <2>6, <2>7 DEF SameDeal, SameParty, SameTerms
  <2>9. Tied(h, T) /\ RunsKept(g, h, T, V) /\ Whole(h) /\ Transcript(h) = Transcript(g)
    BY <1>1, <2>8, DealSealed
  <2>10. x.at = "sas" /\ x.gen = r.gen /\ x.session = r.session
    BY <2>3 DEF RunType
  <2>11. Begins(g, h, x, T, V)
    BY <1>1, <2>8, <2>9, <2>10 DEF Begins, RunTied
  <2>12. \A m \in Range(res.out) : Posted(h, m, V)
    BY <2>5 DEF Range
  <2>13. Turns(g, res, T, V)
    BY <2>5, <2>8, <2>9, <2>11, <2>12 DEF Turns, SameParty, SameTerms
  <2> QED
    BY <2>4, <2>5, <2>8, <2>9, <2>13 DEF Deals
<1>3. CASE r.at = "sas"
  <2>1. PICK w : w = [g EXCEPT !.wasEncrypted = TRUE, !.clearAgreed = FALSE]
    OBVIOUS
  <2>2. PICK h : h = SetState(w, "established")
    OBVIOUS
  <2>3. PICK rs : rs = IF h.nameSentTo = h.peer THEN <<>> ELSE Seal(h, "name")
    OBVIOUS
  <2>4. PICK res : res = Finalizing(g, r)
    OBVIOUS
  <2>5. res.g = h /\ res.out = <<>> /\ res.runs = rs
    BY <1>3, <2>1, <2>2, <2>3, <2>4 DEF Finalizing, Result
  <2>6. DOMAIN w = Fields /\ SameDeal(g, w)
    BY <2>1 DEF Fields, SameDeal, SameParty, SameTerms
  <2>7. SameDeal(w, h) /\ h.state = "established"
    BY <2>2, <2>6, SetStateDeal
  <2>8. SameDeal(g, h) /\ h.secret = Transcript(g)
    BY <1>1, <1>3, <2>6, <2>7, SameDealTwice DEF SameDeal
  <2>9. Tied(h, T) /\ RunsKept(g, h, T, V)
    BY <1>1, <2>8, DealSealed DEF SameDeal
  <2>10. rs = <<>> \/ \E x : rs = <<x>> /\ Begins(g, h, x, T, V)
    <3>1. PICK x : x = [at |-> "seal", gen |-> h.generation, peer |-> h.peer,
                        session |-> h.chatKey, msg |-> <<"name">>]
      OBVIOUS
    <3>2. x.at = "seal" /\ x.gen = h.generation
      BY <3>1
    <3>3. rs = <<>> \/ rs = <<x>>
      BY <2>3, <3>1 DEF Seal
    <3>4. Begins(g, h, x, T, V)
      <4>1. h.generation \in Nat
        BY <2>8 DEF SameDeal
      <4> QED
        BY <3>2, <4>1 DEF Begins, RunTied
    <3> QED
      BY <3>3, <3>4
  <2>11. \A m \in Range(res.out) : Posted(h, m, V)
    BY <2>5 DEF Range
  <2>12. Turns(g, res, T, V)
    BY <2>5, <2>7, <2>8, <2>9, <2>10, <2>11 DEF Turns, SameDeal, SameParty, SameTerms
  <2> QED
    BY <2>4, <2>5, <2>8, <2>9, <2>12 DEF Deals, SameDeal
<1> QED
  BY <1>2, <1>3

\* The text that is sealed goes out, to the peer.
LEMMA SealedDeals ==
    ASSUME NEW T, NEW V, NEW g, NEW r, DOMAIN g = Fields, g.generation \in Nat, Tied(g, T)
    PROVE  LET res == Sealed(g, r) IN Deals(g, res, T, V) /\ SameParty(g, res.g)
<1>1. CASE g.generation # r.gen \/ ~CanChat(g)
  <2>1. Sealed(g, r) = Just(g)
    BY <1>1 DEF Sealed
  <2>2. Answers(g, Just(g), T, V)
    BY IgnoredAnswer
  <2> QED
    BY <2>1, <2>2 DEF Answers, Deals
<1>2. CASE ~(g.generation # r.gen \/ ~CanChat(g))
  <2>1. PICK n : n = IF r.msg[1] = "name" THEN g.peer ELSE g.nameSentTo
    OBVIOUS
  <2>2. PICK h : h = [g EXCEPT !.chatSendSeq = @ + 1, !.nameSentTo = n]
    OBVIOUS
  <2>3. PICK k, v : k = r.session /\ v = <<g.chatSendSeq + 1, r.msg[1]>>
    OBVIOUS
  <2>4. PICK w : w = [type |-> "e2eechat", from |-> g.id, to |-> None, key |-> k, v |-> v]
    OBVIOUS
  <2>5. PICK m : m = [w EXCEPT !.to = g.peer]
    OBVIOUS
  <2>6. PICK res : res = Sealed(g, r)
    OBVIOUS
  <2>7. res.g = h /\ res.out = <<m>> /\ res.runs = <<>>
    <3>1. g.peer # None
      BY <1>2 DEF CanChat
    <3>2. h = [g EXCEPT !.chatSendSeq = @ + 1,
                        !.nameSentTo = IF r.msg[1] = "name" THEN g.peer ELSE @]
      BY <2>1, <2>2
    <3>3. res = Result(h, Say(g, w), <<>>)
      BY <1>2, <2>3, <2>4, <2>6, <3>2 DEF Sealed
    <3>4. Say(g, w) = <<m>>
      BY <2>5, <3>1 DEF Say
    <3> QED
      BY <3>3, <3>4 DEF Result
  <2>8. SameDeal(g, h) /\ h.state = g.state
    BY <2>2 DEF Fields, SameDeal, SameParty, SameTerms
  <2>9. Tied(h, T) /\ RunsKept(g, h, T, V)
    BY <2>8, DealStays DEF SameDeal, SameParty, SameTerms
  <2>10. m.type = "e2eechat" /\ m.from = g.id /\ m.to = g.peer
    BY <2>4, <2>5
  <2>11. Posted(h, m, V)
    BY <1>2, <2>8, <2>10 DEF Posted, Speaks, Bears, Handshake, CanChat, SameDeal, SameParty,
       SameTerms
  <2>12. Range(<<m>>) = {m}
    BY DEF Range
  <2>13. Turns(g, res, T, V)
    BY <2>7, <2>8, <2>9, <2>11, <2>12 DEF Turns, SameDeal, SameParty, SameTerms
  <2> QED
    BY <2>6, <2>7, <2>8, <2>9, <2>13 DEF Deals, SameDeal
<1> QED
  BY <1>1, <1>2

\* decryptChatNow(), after the text has been opened.
LEMMA OpenedDeals ==
    ASSUME NEW T, NEW V, NEW g, NEW r, DOMAIN g = Fields, g.generation \in Nat, Tied(g, T)
    PROVE  LET res == Opened(g, r) IN Deals(g, res, T, V) /\ SameParty(g, res.g)
<1>1. PICK m : m = r.msg[1]
  OBVIOUS
<1>2. PICK h : h = [g EXCEPT !.chatRecvSeq = m.v[1],
                      !.names = IF m.v[2] = "name" THEN @ \cup {m.from} ELSE @]
  OBVIOUS
<1>3. Opened(g, r) = Just(g) \/ Opened(g, r) = Just(h)
  BY <1>1, <1>2 DEF Opened
<1>4. SameDeal(g, h) /\ h.state = g.state
  BY <1>2 DEF Fields, SameDeal, SameParty, SameTerms
<1>5. Deals(g, Just(h), T, V) /\ Just(h).g = h
  BY <1>4, SilentDeals
<1>6. Answers(g, Just(g), T, V)
  BY IgnoredAnswer
<1> QED
  BY <1>3, <1>4, <1>5, <1>6 DEF Answers, Deals, SameDeal

\* Whatever completes.
LEMMA CompletedDeals ==
    ASSUME NEW T, NEW V, NEW A, NEW g, NEW r, Controller(g, A), Tied(g, T), Single(T),
           g.version \in V, RunType(r), RunTied(g, r, T, V)
    PROVE  DealsBehind(g, r, Completed(g, r), T, V)
<1>1. DOMAIN g = Fields /\ g.generation \in Nat
  BY DEF Controller
<1>2. CASE r.at = "start"
  BY <1>2, StartedDeals DEF Completed
<1>3. CASE r.at = "hash"
  <2>1. Deals(g, Hashed(g, r), T, V) /\ SameParty(g, Hashed(g, r).g)
    BY <1>1, <1>3, HashedDeals
  <2> QED
    BY <1>3, <2>1, KeptBehindSo DEF Completed
<1>4. CASE r.at = "seal"
  <2>1. Deals(g, Sealed(g, r), T, V) /\ SameParty(g, Sealed(g, r).g)
    BY <1>1, SealedDeals
  <2> QED
    BY <1>4, <2>1, KeptBehindSo DEF Completed
<1>5. CASE r.at = "open"
  <2>1. Deals(g, Opened(g, r), T, V) /\ SameParty(g, Opened(g, r).g)
    BY <1>1, OpenedDeals
  <2> QED
    BY <1>5, <2>1, KeptBehindSo DEF Completed
<1>6. CASE r.at \in {"keys", "sas"} /\ g.generation # r.gen
  <2>1. Completed(g, r) = Just(g)
    BY <1>6 DEF Completed
  <2>2. Answers(g, Just(g), T, V)
    BY <1>1, IgnoredAnswer
  <2> QED
    BY <2>1, <2>2, KeptBehindSo DEF Answers, Deals
<1>7. CASE r.at \in {"keys", "sas"} /\ g.generation = r.gen
  <2>1. Completed(g, r) = Finalizing(g, r)
    BY <1>7 DEF Completed
  <2>2. Deals(g, Finalizing(g, r), T, V) /\ SameParty(g, Finalizing(g, r).g)
    BY <1>1, <1>7, FinalizingDeals
  <2> QED
    BY <2>1, <2>2, KeptBehindSo
<1> QED
  BY <1>2, <1>3, <1>4, <1>5, <1>6, <1>7 DEF RunType

\* A message of a handshake that is being started, which waits for its key.
Waits(g, r) == r.at = "start" /\ r.gen = g.generation /\ r.msg # <<>> /\ Bears(r.msg[1])

\* What a controller, with what is under way, has of its peer's keys.
Held(g, rs) ==
    {<<g.peer, k>> : k \in {g.peerCommit, g.peerPub} \ {NoKey}}
    \cup {<<g.peer, r.session>> : r \in {x \in Range(rs) : x.at = "hash" /\ g.key # NoKey}}
    \cup {<<r.peer, r.msg[1].key>> : r \in {x \in Range(rs) : Waits(g, x)}}

\* What it has, is to receive, and is being sent: who has told it which key.
Told(g, rs, in, out) ==
    Held(g, rs)
    \cup {<<m.from, m.key>> : m \in {x \in Range(in) : Bears(x)}}
    \cup {<<m.from, m.key>> : m \in {x \in UNION {Range(out[q]) : q \in Pages} :
                                        Bears(x) /\ x.to = g.id}}
Spoken(p) == Told(pg[p], runs[p], inbox[p], outbox)

\* Who the server says has come, and has gone.
Adds(in) == {m.from : m \in {x \in Range(in) : x.type = "add"}}
Deletes(in) == {m.from : m \in {x \in Range(in) : x.type = "delete"}}

\* Behind a handshake that is being started there is no other part of one.
StartIsLast(g, rs) ==
    \A i, j \in DOMAIN rs :
        i < j /\ rs[i].at = "start" /\ rs[i].gen = g.generation
            => rs[j].at \notin {"start", "hash"}

\* A page keeps to what it has been told, by each with one key only.
Keeps(p) ==
    Here(p) =>
        /\ Tied(pg[p], Spoken(p))
        /\ \A r \in Range(runs[p]) : RunTied(pg[p], r, Spoken(p), Versions)
        /\ StartIsLast(pg[p], runs[p])
        /\ pg[p].state = "failed" => \E v \in Versions : v # pg[p].version
        /\ Single(Spoken(p))

\* It knows of everybody in the room, or is about to; and of somebody who has
\* gone it learns before anything else.
Knows(p) ==
    Here(p) =>
        /\ pg[p].id \in members /\ pg[p].users \subseteq used
        /\ pg[p].id \notin pg[p].users \cup Adds(inbox[p])
        /\ members \ {pg[p].id} \subseteq pg[p].users \cup Adds(inbox[p])
        /\ \A m \in Range(inbox[p]) : m.from \in used /\ Speaks(m, Versions)
        /\ \A n \in DOMAIN inbox[p] : inbox[p][n].type = "delete" => n = 1
        /\ Deletes(inbox[p]) \subseteq pg[p].users \ members

\* It speaks for itself, to those there have been.
Writes(p) ==
    /\ ~Here(p) => outbox[p] = <<>>
    /\ \A m \in Range(outbox[p]) :
          /\ m.type \notin {"add", "delete"} /\ m.from = pg[p].id
          /\ m.to \in used /\ Speaks(m, Versions)

\* What p has been told by q is q's key still, if they are alone; and q knows
\* of p, and that nobody has gone.
Stands(p, q) ==
    Here(p) /\ Here(q) /\ p # q =>
        \A k : <<pg[q].id, k>> \in Spoken(p) =>
            /\ pg[p].id \in pg[q].users
            /\ pg[q].users = {pg[p].id} => k = pg[q].key
            /\ Deletes(inbox[q]) = {}

\* The invariant that two pages agree by.
Accord ==
    /\ \A p \in Pages : Keeps(p) /\ Knows(p) /\ Writes(p)
    /\ \A p, q \in Pages : Stands(p, q)

-----------------------------------------------------------------------------

\* What is in Held, one by one.
LEMMA HeldIs ==
    ASSUME NEW g, NEW rs, NEW x
    PROVE  x \in Held(g, rs) <=>
              \/ \E k \in {g.peerCommit, g.peerPub} \ {NoKey} : x = <<g.peer, k>>
              \/ \E r \in Range(rs) : r.at = "hash" /\ g.key # NoKey /\ x = <<g.peer, r.session>>
              \/ \E r \in Range(rs) : Waits(g, r) /\ x = <<r.peer, r.msg[1].key>>
  BY DEF Held

\* What is in Told, one by one.
LEMMA ToldIs ==
    ASSUME NEW g, NEW rs, NEW in, NEW out, NEW x
    PROVE  x \in Told(g, rs, in, out) <=>
              \/ x \in Held(g, rs)
              \/ \E m \in Range(in) : Bears(m) /\ x = <<m.from, m.key>>
              \/ \E q \in Pages : \E m \in Range(out[q]) :
                    Bears(m) /\ m.to = g.id /\ x = <<m.from, m.key>>
  BY DEF Told

\* A controller that keeps to what has been told holds nothing else, and of
\* its peer only.
LEMMA HeldTold ==
    ASSUME NEW g, NEW rs, NEW T, NEW V, Tied(g, T), \A r \in Range(rs) : RunTied(g, r, T, V)
    PROVE  /\ Held(g, rs) \subseteq T
           /\ \A x \in Held(g, rs) : g.peer # None /\ \E k : k # NoKey /\ x = <<g.peer, k>>
<1> SUFFICES ASSUME NEW x \in Held(g, rs)
             PROVE  x \in T /\ g.peer # None /\ \E k : k # NoKey /\ x = <<g.peer, k>>
  OBVIOUS
<1>1. \/ \E k \in {g.peerCommit, g.peerPub} \ {NoKey} : x = <<g.peer, k>>
      \/ \E r \in Range(rs) : r.at = "hash" /\ g.key # NoKey /\ x = <<g.peer, r.session>>
      \/ \E r \in Range(rs) : Waits(g, r) /\ x = <<r.peer, r.msg[1].key>>
  BY HeldIs
<1>2. CASE \E k \in {g.peerCommit, g.peerPub} \ {NoKey} : x = <<g.peer, k>>
  BY <1>2 DEF Tied
<1>3. CASE \E r \in Range(rs) : r.at = "hash" /\ g.key # NoKey /\ x = <<g.peer, r.session>>
  <2>1. PICK r \in Range(rs) : r.at = "hash" /\ g.key # NoKey /\ x = <<g.peer, r.session>>
    BY <1>3
  <2>2. RunTied(g, r, T, V)
    OBVIOUS
  <2>3. r.session # NoKey /\ x \in T
    BY <2>1, <2>2 DEF RunTied
  <2>4. g.peer # None
    BY <2>1 DEF Tied
  <2> QED
    BY <2>1, <2>3, <2>4
<1>4. CASE \E r \in Range(rs) : Waits(g, r) /\ x = <<r.peer, r.msg[1].key>>
  <2>1. PICK r \in Range(rs) : Waits(g, r) /\ x = <<r.peer, r.msg[1].key>>
    BY <1>4
  <2>2. RunTied(g, r, T, V)
    OBVIOUS
  <2>3. g.starting /\ g.peer = r.peer /\ x \in T /\ r.msg[1].key # NoKey
    BY <2>1, <2>2 DEF RunTied, Waits, Speaks
  <2>4. g.peer # None
    BY <2>3 DEF Tied
  <2> QED
    BY <2>1, <2>3, <2>4
<1> QED
  BY <1>1, <1>2, <1>3, <1>4

\* It is enough to have been told what one holds.
LEMMA TiedByHeld ==
    ASSUME NEW g, NEW rs, NEW S, NEW T, NEW V, Tied(g, S), \A r \in Range(rs) : RunTied(g, r, S, V),
           Held(g, rs) \subseteq T
    PROVE  Tied(g, T) /\ \A r \in Range(rs) : RunTied(g, r, T, V)
<1>1. Tied(g, T)
  <2>1. \A k \in {g.peerCommit, g.peerPub} : k # NoKey => <<g.peer, k>> \in T
    BY DEF Held
  <2> QED
    BY <2>1 DEF Tied
<1>2. ASSUME NEW r \in Range(rs) PROVE RunTied(g, r, T, V)
  <2>1. RunTied(g, r, S, V)
    OBVIOUS
  <2>2. r.at = "hash" /\ g.key # NoKey => <<g.peer, r.session>> \in T
    BY DEF Held
  <2>3. Waits(g, r) => <<r.peer, r.msg[1].key>> \in T
    BY DEF Held
  <2> QED
    BY <2>1, <2>2, <2>3 DEF RunTied, Waits
<1> QED
  BY <1>1, <1>2

\* What is told holds what is held.
LEMMA ToldOfHeld ==
    ASSUME NEW g, NEW rs, NEW in, NEW out PROVE Held(g, rs) \subseteq Told(g, rs, in, out)
  BY DEF Told

\* Whoever has told something has been there, and it was something.
LEMMA SpokenOfUsed ==
    ASSUME Inv, Accord, NEW p \in Pages, Here(p), NEW j, NEW k, <<j, k>> \in Spoken(p)
    PROVE  j \in used /\ k # NoKey
<1>1. \/ <<j, k>> \in Held(pg[p], runs[p])
      \/ \E m \in Range(inbox[p]) : Bears(m) /\ <<j, k>> = <<m.from, m.key>>
      \/ \E q \in Pages : \E m \in Range(outbox[q]) :
            Bears(m) /\ m.to = pg[p].id /\ <<j, k>> = <<m.from, m.key>>
  BY ToldIs DEF Spoken
<1>2. CASE <<j, k>> \in Held(pg[p], runs[p])
  <2>1. Tied(pg[p], Spoken(p)) /\ \A r \in Range(runs[p]) : RunTied(pg[p], r, Spoken(p), Versions)
    BY DEF Accord, Keeps
  <2>2. pg[p].peer # None /\ \E l : l # NoKey /\ <<j, k>> = <<pg[p].peer, l>>
    BY <1>2, <2>1, HeldTold
  <2>3. pg[p].users = {pg[p].peer}
    BY <2>2 DEF Inv, PageInv, Resident, Settled
  <2> QED
    BY <2>2, <2>3 DEF Accord, Knows
<1>3. CASE \E m \in Range(inbox[p]) : Bears(m) /\ <<j, k>> = <<m.from, m.key>>
  BY <1>3 DEF Accord, Knows, Speaks
<1>4. CASE \E q \in Pages : \E m \in Range(outbox[q]) :
             Bears(m) /\ m.to = pg[p].id /\ <<j, k>> = <<m.from, m.key>>
  <2>0. PICK q \in Pages : \E m \in Range(outbox[q]) :
          Bears(m) /\ m.to = pg[p].id /\ <<j, k>> = <<m.from, m.key>>
    BY <1>4
  <2>1. PICK m \in Range(outbox[q]) :
          Bears(m) /\ m.to = pg[p].id /\ <<j, k>> = <<m.from, m.key>>
    BY <2>0
  <2>2. m.from = pg[q].id /\ Speaks(m, Versions)
    BY DEF Accord, Writes
  <2>3. outbox[q] # <<>>
    BY DEF Range
  <2>4. Here(q)
    BY <2>3 DEF Accord, Writes
  <2>5. pg[q].id \in members /\ members \subseteq used
    BY <2>4 DEF Accord, Knows, Inv, Server
  <2> QED
    BY <2>1, <2>2, <2>5 DEF Speaks
<1> QED
  BY <1>1, <1>2, <1>3, <1>4

\* What a handler of page p, which leaves `in` to receive, has heard of who
\* comes and goes.
Hears(p, users, in) ==
    /\ Range(in) \subseteq Range(inbox[p])
    /\ \A n \in DOMAIN in : in[n].type = "delete" => n = 1
    /\ \/ users = pg[p].users /\ Adds(inbox[p]) \subseteq Adds(in)
       \/ \E u \in Adds(inbox[p]) :
             users = pg[p].users \cup {u} /\ Adds(inbox[p]) \subseteq Adds(in) \cup {u}
       \/ \E u \in Deletes(inbox[p]) :
             /\ users = pg[p].users \ {u} /\ Adds(inbox[p]) \subseteq Adds(in)
             /\ Deletes(in) = {}

\* A handler of page p that keeps to what has been told: what it leaves of its
\* runs, what it takes from the inbox, and what it does.
Leaves(p, h, rest) ==
    /\ rest \in Seq(Range(rest)) /\ StartIsLast(pg[p], rest)
    /\ \A r \in Range(rest) : /\ RunTied(h, r, Spoken(p), Versions)
                              /\ r.gen \in Nat /\ r.gen <= pg[p].generation
Turning(p, res, rest) ==
    /\ Here(p) /\ Turns(pg[p], res, Spoken(p), Versions)
    /\ pg[p].generation \in Nat /\ res.g.generation \in Nat
    /\ Settled(pg[p]) /\ Settled(res.g)
    /\ res.out \in Seq(Range(res.out)) /\ \A r : res.runs = <<r>> => r.gen \in Nat
    /\ Leaves(p, res.g, rest)

\* What is under way afterwards.
LEMMA TurningRuns ==
    ASSUME NEW p \in Pages, NEW res, NEW rest, NEW w, Turning(p, res, rest), w = rest \o res.runs
    PROVE  /\ \A r \in Range(w) : RunTied(res.g, r, Spoken(p), Versions)
           /\ StartIsLast(res.g, w)
<1> DEFINE g == pg[p]  h == res.g
<1>1. /\ rest \in Seq(Range(rest)) /\ StartIsLast(g, rest)
      /\ \A r \in Range(rest) : /\ RunTied(h, r, Spoken(p), Versions)
                                /\ r.gen \in Nat /\ r.gen <= g.generation
  BY DEF Turning, Leaves
<1>2. g.generation \in Nat /\ h.generation \in Nat /\ g.generation <= h.generation
  BY DEF Turning, Turns
<1>3. Len(rest) \in Nat /\ DOMAIN rest = 1 .. Len(rest) /\ \A i \in 1 .. Len(rest) : rest[i] \in Range(rest)
  BY <1>1 DEF Range
<1>4. ASSUME NEW i \in 1 .. Len(rest), rest[i].at = "start", rest[i].gen = h.generation
      PROVE  g.generation = h.generation /\ h.key = NoKey
  <2>1. PICK r \in Range(rest) : r = rest[i]
    BY <1>3
  <2>2. RunTied(h, r, Spoken(p), Versions) /\ r.gen \in Nat /\ r.gen <= g.generation
    BY <1>1
  <2>3. r.at = "start" /\ r.gen = h.generation
    BY <1>4, <2>1
  <2>4. h.key = NoKey
    BY <2>2, <2>3 DEF RunTied
  <2> QED
    BY <1>2, <2>2, <2>3, <2>4
<1>5. ASSUME NEW i \in 1 .. Len(rest), NEW j \in 1 .. Len(rest), i < j, rest[i].at = "start",
             rest[i].gen = h.generation
      PROVE  rest[j].at \notin {"start", "hash"}
  <2>1. rest[i].gen = g.generation
    BY <1>4, <1>5
  <2>2. i \in DOMAIN rest /\ j \in DOMAIN rest
    BY <1>3
  <2> QED
    BY <1>1, <1>5, <2>1, <2>2 DEF StartIsLast
<1>6. CASE res.runs = <<>>
  <2>1. w = rest
    BY <1>1, <1>6
  <2>2. StartIsLast(h, rest)
    BY <1>3, <1>5 DEF StartIsLast
  <2> QED
    BY <1>1, <2>1, <2>2
<1>7. CASE res.runs # <<>>
  <2>1. PICK r : res.runs = <<r>> /\ Begins(g, h, r, Spoken(p), Versions)
    BY <1>7 DEF Turning, Turns
  <2>2. PICK z : z = rest \o <<r>>
    OBVIOUS
  <2>3. Longer(rest, r, z) /\ w = z
    BY <1>1, <2>2, <2>1 DEF Longer
  <2>4. /\ z \in Seq(Range(z)) /\ Range(z) = Range(rest) \cup {r}
        /\ Len(rest) \in Nat /\ DOMAIN rest = 1 .. Len(rest)
        /\ DOMAIN z = 1 .. Len(rest) + 1 /\ z[Len(rest) + 1] = r
        /\ \A i \in 1 .. Len(rest) : z[i] = rest[i]
    BY <2>3, LastElement
  <2>5. /\ Range(w) = Range(rest) \cup {r}
        /\ DOMAIN w = 1 .. Len(rest) + 1 /\ w[Len(rest) + 1] = r
        /\ \A i \in 1 .. Len(rest) : w[i] = rest[i]
    BY <2>3, <2>4
  <2>6. ASSUME NEW x \in Range(w) PROVE RunTied(h, x, Spoken(p), Versions)
    <3>1. CASE x = r
      BY <2>1, <3>1 DEF Begins
    <3>2. CASE x \in Range(rest)
      BY <1>1, <3>2
    <3> QED
      BY <2>5, <3>1, <3>2
  <2>7. ASSUME NEW i \in DOMAIN w, NEW j \in DOMAIN w, i < j, w[i].at = "start",
               w[i].gen = h.generation
        PROVE  w[j].at \notin {"start", "hash"}
    <3>1. i \in 1 .. Len(rest) /\ w[i] = rest[i]
      BY <1>3, <2>5, <2>7
    <3>2. CASE j \in 1 .. Len(rest)
      <4>1. w[j] = rest[j] /\ rest[i].at = "start" /\ rest[i].gen = h.generation
        BY <2>5, <2>7, <3>1, <3>2
      <4> QED
        BY <1>5, <2>7, <3>1, <3>2, <4>1
    <3>3. CASE j = Len(rest) + 1
      <4>1. g.generation = h.generation /\ h.key = NoKey
        BY <1>4, <2>7, <3>1
      <4>2. w[j] = r /\ r.gen \in Nat /\ r.gen <= h.generation
        BY <2>1, <2>5, <3>3 DEF Begins, RunTied, Turning
      <4>3. r.at # "start"
        BY <1>2, <2>1, <4>1, <4>2 DEF Begins
      <4>4. r.at # "hash"
        BY <2>1, <4>1 DEF Begins
      <4> QED
        BY <4>2, <4>3, <4>4
    <3> QED
      BY <1>3, <2>5, <3>2, <3>3
  <2> QED
    BY <2>6, <2>7 DEF StartIsLast
<1> QED
  BY <1>6, <1>7

\* Nobody is in its own room, nor does it speak to itself.
LEMMA TurningUsers ==
    ASSUME Inv, Accord, NEW p \in Pages, NEW res, NEW rest, NEW in, Turning(p, res, rest),
           Hears(p, res.g.users, in)
    PROVE  /\ Adds(in) \subseteq Adds(inbox[p]) /\ Deletes(in) \subseteq Deletes(inbox[p])
           /\ pg[p].id \notin res.g.users \cup Adds(in)
           /\ res.g.users \subseteq used
           /\ members \ {pg[p].id} \subseteq res.g.users \cup Adds(in)
           /\ Deletes(in) \subseteq res.g.users \ members
<1>1. Adds(in) \subseteq Adds(inbox[p]) /\ Deletes(in) \subseteq Deletes(inbox[p])
  BY DEF Hears, Adds, Deletes
<1>2. /\ pg[p].users \subseteq used
      /\ pg[p].id \notin pg[p].users \cup Adds(inbox[p])
      /\ members \ {pg[p].id} \subseteq pg[p].users \cup Adds(inbox[p])
      /\ Deletes(inbox[p]) \subseteq pg[p].users \ members
      /\ \A m \in Range(inbox[p]) : m.from \in used
  BY DEF Turning, Accord, Knows
<1>3. Adds(inbox[p]) \subseteq used
  BY <1>2 DEF Adds
<1>4. CASE res.g.users = pg[p].users /\ Adds(inbox[p]) \subseteq Adds(in)
  BY <1>1, <1>2, <1>4
<1>5. CASE \E u \in Adds(inbox[p]) : /\ res.g.users = pg[p].users \cup {u}
                                     /\ Adds(inbox[p]) \subseteq Adds(in) \cup {u}
  BY <1>1, <1>2, <1>3, <1>5
<1>6. CASE \E u \in Deletes(inbox[p]) :
              /\ res.g.users = pg[p].users \ {u} /\ Adds(inbox[p]) \subseteq Adds(in)
              /\ Deletes(in) = {}
  BY <1>1, <1>2, <1>6
<1> QED
  BY <1>4, <1>5, <1>6 DEF Hears

\* It is told nothing.
LEMMA TurningSelf ==
    ASSUME Inv, Accord, NEW p \in Pages, NEW res, NEW rest, NEW in, NEW out,
           NEW w, Turning(p, res, rest), w = rest \o res.runs, Hears(p, res.g.users, in),
           \A q \in Pages \ {p} : out[q] = outbox[q], out[p] = outbox[p] \o res.out
    PROVE  Told(res.g, w, in, out) \subseteq Spoken(p)
<1> SUFFICES ASSUME NEW x \in Told(res.g, w, in, out) PROVE x \in Spoken(p)
  OBVIOUS
<1>1. Tied(res.g, Spoken(p)) /\ \A r \in Range(w) : RunTied(res.g, r, Spoken(p), Versions)
  BY TurningRuns DEF Turning, Turns
<1>2. CASE x \in Held(res.g, w)
  BY <1>1, <1>2, HeldTold
<1>3. CASE \E m \in Range(in) : Bears(m) /\ x = <<m.from, m.key>>
  <2>1. \E m \in Range(inbox[p]) : Bears(m) /\ x = <<m.from, m.key>>
    BY <1>3 DEF Hears
  <2> QED
    BY <2>1, ToldIs DEF Spoken
<1>4. CASE \E q \in Pages : \E m \in Range(out[q]) :
             Bears(m) /\ m.to = res.g.id /\ x = <<m.from, m.key>>
  <2>1. PICK q \in Pages : \E m \in Range(out[q]) :
             Bears(m) /\ m.to = res.g.id /\ x = <<m.from, m.key>>
    BY <1>4
  <2>2. PICK m \in Range(out[q]) : Bears(m) /\ m.to = res.g.id /\ x = <<m.from, m.key>>
    BY <2>1
  <2>3. res.g.id = pg[p].id
    BY DEF Turning, Turns
  <2>4. m \in Range(outbox[q])
    <3>1. CASE q # p
      BY <3>1
    <3>2. CASE q = p
      <4>1. Joined(outbox[p], res.out, out[p])
        BY DEF Joined, Inv, OutMail, Turning
      <4>2. m \in Range(outbox[p]) \/ m \in Range(res.out)
        BY <3>2, <4>1, BothQueues
      <4>3. ASSUME m \in Range(res.out) PROVE FALSE
        <5>1. res.g.peer # None /\ m.to = res.g.peer
          BY <4>3 DEF Turning, Turns, Posted
        <5>2. pg[p].id \in res.g.users
          BY <2>2, <2>3, <5>1 DEF Turning, Settled
        <5> QED
          BY <5>2, TurningUsers
      <4> QED
        BY <3>2, <4>2, <4>3
    <3> QED
      BY <3>1, <3>2
  <2>5. \E y \in Pages : \E z \in Range(outbox[y]) :
             Bears(z) /\ z.to = pg[p].id /\ x = <<z.from, z.key>>
    BY <2>2, <2>3, <2>4
  <2> QED
    BY <2>5, ToldIs DEF Spoken
<1> QED
  BY <1>2, <1>3, <1>4, ToldIs

\* Another is told its key, if they are alone.
LEMMA TurningOther ==
    ASSUME Inv, Accord, NEW p \in Pages, NEW res, NEW rest, NEW out, NEW q \in Pages, q # p,
           Turning(p, res, rest),
           \A y \in Pages \ {p} : out[y] = outbox[y], out[p] = outbox[p] \o res.out,
           NEW x \in Told(pg[q], runs[q], inbox[q], out), x \notin Spoken(q)
    PROVE  x = <<pg[p].id, res.g.key>> /\ res.g.users = {pg[q].id} /\ res.g.key # NoKey
<1>1. ~(x \in Held(pg[q], runs[q])) /\ ~(\E m \in Range(inbox[q]) : Bears(m) /\ x = <<m.from, m.key>>)
      /\ ~(\E y \in Pages : \E m \in Range(outbox[y]) :
             Bears(m) /\ m.to = pg[q].id /\ x = <<m.from, m.key>>)
  BY ToldIs DEF Spoken
<1>2. PICK y \in Pages : \E m \in Range(out[y]) :
             Bears(m) /\ m.to = pg[q].id /\ x = <<m.from, m.key>>
  BY <1>1, ToldIs
<1>3. PICK m \in Range(out[y]) : Bears(m) /\ m.to = pg[q].id /\ x = <<m.from, m.key>>
  BY <1>2
<1>4. y = p
  BY <1>1, <1>3
<1>5. Joined(outbox[p], res.out, out[p])
  BY DEF Joined, Inv, OutMail, Turning
<1>6. m \in Range(res.out)
  BY <1>1, <1>3, <1>4, <1>5, BothQueues
<1>7. /\ m.from = res.g.id /\ res.g.peer # None /\ m.to = res.g.peer /\ m.key = res.g.key
      /\ m.key # NoKey /\ res.g.id = pg[p].id
  BY <1>3, <1>6 DEF Turning, Turns, Posted, Speaks
<1>8. res.g.users = {res.g.peer}
  BY <1>7 DEF Turning, Settled
<1> QED
  BY <1>3, <1>7, <1>8

\* Two pages in the room have two identifiers.
LEMMA TwoIds ==
    ASSUME Inv, NEW p \in Pages, NEW q \in Pages, p # q, Here(p) PROVE pg[p].id # pg[q].id
<1>1. pg[p].id \in IdsOf[p] /\ pg[q].id \in IdsOf[q] \cup {None} /\ pg[p].id # None
  BY DEF Inv, PageInv, Here
<1>2. IdsOf[p] \cap IdsOf[q] = {}
  BY E2EEAssumption
<1> QED
  BY <1>1, <1>2

\* A page whose controller does not change keeps to what it is told.
LEMMA KeepsOn ==
    ASSUME NEW q \in Pages, Keeps(q), pg'[q] = pg[q], runs'[q] = runs[q], Versions' = Versions,
           Here(q) => Single(Spoken(q)')
    PROVE  Keeps(q)'
<1> SUFFICES ASSUME Here(q)' PROVE Keeps(q)'
  BY DEF Keeps
<1>1. Here(q)
  BY DEF Here
<1>2. /\ Tied(pg[q], Spoken(q))
      /\ \A r \in Range(runs[q]) : RunTied(pg[q], r, Spoken(q), Versions)
      /\ StartIsLast(pg[q], runs[q])
      /\ pg[q].state = "failed" => \E v \in Versions : v # pg[q].version
  BY <1>1 DEF Keeps
<1>3. PICK S : S = Spoken(q)'
  OBVIOUS
<1>4. Held(pg[q], runs[q]) \subseteq S
  BY <1>3, ToldOfHeld DEF Spoken
<1>5. /\ Tied(pg[q], S)
      /\ \A r \in Range(runs[q]) : RunTied(pg[q], r, S, Versions)
  BY <1>2, <1>4, TiedByHeld
<1>6. Single(S)
  BY <1>1, <1>3
<1> QED
  BY <1>2, <1>3, <1>5, <1>6 DEF Keeps

\* Who has told its key to the one it is alone with has that key still.
LEMMA KeyStands ==
    ASSUME Inv, Accord, NEW p \in Pages, NEW res, NEW rest, NEW in, Turning(p, res, rest),
           Hears(p, res.g.users, in), NEW q \in Pages, q # p, Here(q),
           NEW k, <<pg[p].id, k>> \in Spoken(q)
    PROVE  /\ pg[q].id \in res.g.users /\ Deletes(in) = {}
           /\ res.g.users = {pg[q].id} => k = res.g.key
<1>1. /\ pg[q].id \in pg[p].users
      /\ pg[p].users = {pg[q].id} => k = pg[p].key
      /\ Deletes(inbox[p]) = {}
  BY DEF Accord, Stands, Turning
<1>2. pg[p].users \subseteq res.g.users
  BY <1>1 DEF Hears
<1>3. Deletes(in) = {}
  BY <1>1, TurningUsers
<1>4. ASSUME res.g.users = {pg[q].id} PROVE k = res.g.key
  <2>1. pg[p].users = {pg[q].id} /\ k = pg[p].key
    BY <1>1, <1>2, <1>4
  <2>2. pg[p].key # NoKey
    BY <2>1, SpokenOfUsed
  <2>3. pg[p].peer # None
    BY <2>2 DEF Accord, Keeps, Turning, Tied
  <2>4. pg[p].users = {pg[p].peer}
    BY <2>3 DEF Turning, Settled
  <2>5. pg[p].peer = pg[q].id
    BY <2>1, <2>4
  <2> QED
    BY <1>4, <2>1, <2>2, <2>5 DEF Turning, Turns
<1> QED
  BY <1>1, <1>2, <1>3, <1>4

\* A handler that keeps to what has been told leaves the pages in accord.
LEMMA HandlerAccord ==
    ASSUME Inv, Inv', Accord, NEW p \in Pages, NEW res, NEW rest, Turning(p, res, rest),
           Did(p, res, rest), Hears(p, res.g.users, inbox'[p]),
           \A q \in Pages \ {p} : inbox'[q] = inbox[q], members' = members, used' = used
    PROVE  Accord'
<1>1. /\ pg'[p] = res.g /\ \A q \in Pages \ {p} : pg'[q] = pg[q]
      /\ runs'[p] = rest \o res.runs /\ \A q \in Pages \ {p} : runs'[q] = runs[q]
      /\ outbox'[p] = outbox[p] \o res.out /\ \A q \in Pages \ {p} : outbox'[q] = outbox[q]
      /\ res.g.id = pg[p].id /\ res.g.version = pg[p].version /\ Here(p)
  BY DEF Did, Turning, Turns
<1>2. /\ Versions' = Versions
      /\ \A q \in Pages : pg'[q].id = pg[q].id /\ (Here(q)' <=> Here(q))
  <2>1. \A q \in Pages : pg'[q].id = pg[q].id /\ pg'[q].version = pg[q].version
    BY <1>1
  <2> QED
    BY <2>1 DEF Versions, Here
<1>3. Spoken(p)' \subseteq Spoken(p)
  BY <1>1, TurningSelf DEF Spoken
<1>4. ASSUME NEW q \in Pages, q # p, NEW x \in Spoken(q)', x \notin Spoken(q)
      PROVE  x = <<pg[p].id, res.g.key>> /\ res.g.users = {pg[q].id} /\ res.g.key # NoKey
  <2>1. PICK out : out = outbox'
    OBVIOUS
  <2>2. x \in Told(pg[q], runs[q], inbox[q], out)
    BY <1>1, <1>4, <2>1 DEF Spoken
  <2>3. \A y \in Pages \ {p} : out[y] = outbox[y]
    BY <1>1, <2>1
  <2>4. out[p] = outbox[p] \o res.out
    BY <1>1, <2>1
  <2> QED
    BY <1>4, <2>2, <2>3, <2>4, TurningOther
<1>5. /\ pg[p].id \notin res.g.users \cup Adds(inbox'[p])
      /\ res.g.users \subseteq used
      /\ members \ {pg[p].id} \subseteq res.g.users \cup Adds(inbox'[p])
      /\ Deletes(inbox'[p]) \subseteq res.g.users \ members
  BY TurningUsers
<1>6. ASSUME NEW q \in Pages, q # p, Here(q), NEW k, <<pg[p].id, k>> \in Spoken(q)
      PROVE  /\ pg[q].id \in res.g.users /\ Deletes(inbox'[p]) = {}
             /\ res.g.users = {pg[q].id} => k = res.g.key
  <2>1. PICK in : in = inbox'[p]
    OBVIOUS
  <2>2. Hears(p, res.g.users, in)
    BY <2>1
  <2>3. /\ pg[q].id \in res.g.users /\ Deletes(in) = {}
        /\ res.g.users = {pg[q].id} => k = res.g.key
    BY <1>6, <2>2, KeyStands
  <2> QED
    BY <2>1, <2>3
<1>7. Keeps(p)'
  <2>1. PICK S : S = Spoken(p)'
    OBVIOUS
  <2>2. PICK w : w = runs'[p]
    OBVIOUS
  <2>3. Held(res.g, w) \subseteq S
    BY <1>1, <2>1, <2>2, ToldOfHeld DEF Spoken
  <2>4. /\ \A r \in Range(w) : RunTied(res.g, r, Spoken(p), Versions)
        /\ StartIsLast(res.g, w)
    BY <1>1, <2>2, TurningRuns
  <2>5. Tied(res.g, Spoken(p))
    BY DEF Turning, Turns
  <2>6. /\ Tied(res.g, S)
        /\ \A r \in Range(w) : RunTied(res.g, r, S, Versions)
    BY <2>3, <2>4, <2>5, TiedByHeld
  <2>7. res.g.state = "failed" => \E v \in Versions : v # res.g.version
    BY <1>1 DEF Turning, Turns, Accord, Keeps
  <2>8. Single(S)
    BY <1>1, <1>3, <2>1 DEF Accord, Keeps, Single
  <2> QED
    BY <1>1, <1>2, <2>1, <2>2, <2>4, <2>6, <2>7, <2>8 DEF Keeps
<1>8. Knows(p)'
  <2>1. pg[p].id \in members
    BY <1>1 DEF Accord, Knows
  <2>2. \A m \in Range(inbox'[p]) : m.from \in used /\ Speaks(m, Versions)
    BY <1>1 DEF Accord, Knows, Hears
  <2>3. \A n \in DOMAIN inbox'[p] : inbox'[p][n].type = "delete" => n = 1
    BY DEF Hears
  <2> QED
    BY <1>1, <1>2, <1>5, <2>1, <2>2, <2>3 DEF Knows
<1>9. Writes(p)'
  <2>1. \A m \in Range(outbox[p]) :
          /\ m.type \notin {"add", "delete"} /\ m.from = pg[p].id
          /\ m.to \in used /\ Speaks(m, Versions)
    BY DEF Accord, Writes
  <2>2. ASSUME NEW m \in Range(res.out)
        PROVE  /\ m.type \notin {"add", "delete"} /\ m.from = pg[p].id
               /\ m.to \in used /\ Speaks(m, Versions)
    <3>1. Posted(res.g, m, Versions)
      BY DEF Turning, Turns
    <3>2. res.g.users = {res.g.peer}
      BY <3>1 DEF Posted, Turning, Settled
    <3> QED
      BY <1>1, <1>5, <3>1, <3>2 DEF Posted
  <2>3. Joined(outbox[p], res.out, outbox'[p])
    BY <1>1 DEF Joined, Inv, OutMail, Turning
  <2>4. Range(outbox'[p]) \subseteq Range(outbox[p]) \cup Range(res.out)
    BY <2>3, BothQueues
  <2>5. \A m \in Range(outbox'[p]) :
          /\ m.type \notin {"add", "delete"} /\ m.from = pg'[p].id
          /\ m.to \in used' /\ Speaks(m, Versions')
    BY <1>1, <1>2, <2>1, <2>2, <2>4
  <2> QED
    BY <1>1, <1>2, <2>5 DEF Writes
<1>10. ASSUME NEW q \in Pages, q # p PROVE Keeps(q)' /\ Knows(q)' /\ Writes(q)'
  <2>1. Keeps(q) /\ Knows(q) /\ Writes(q)
    BY DEF Accord
  <2>2. ASSUME Here(q) PROVE Single(Spoken(q)')
    <3> SUFFICES ASSUME NEW j, NEW k, NEW l, <<j, k>> \in Spoken(q)', <<j, l>> \in Spoken(q)'
                 PROVE  k = l
      BY DEF Single
    <3>1. Single(Spoken(q))
      BY <2>1, <2>2 DEF Keeps
    <3>2. ASSUME NEW y, NEW z, <<j, y>> \in Spoken(q)', <<j, z>> \in Spoken(q)',
                 <<j, y>> \notin Spoken(q)
          PROVE  y = z
      <4>1. j = pg[p].id /\ y = res.g.key /\ res.g.users = {pg[q].id}
        BY <1>4, <1>10, <3>2
      <4>2. CASE <<j, z>> \in Spoken(q)
        BY <1>6, <1>10, <2>2, <4>1, <4>2
      <4>3. CASE <<j, z>> \notin Spoken(q)
        BY <1>4, <1>10, <3>2, <4>1, <4>3
      <4> QED
        BY <4>2, <4>3
    <3>3. CASE <<j, k>> \in Spoken(q) /\ <<j, l>> \in Spoken(q)
      BY <3>1, <3>3 DEF Single
    <3> QED
      BY <3>2, <3>3
  <2>3. Keeps(q)'
    BY <1>1, <1>2, <1>10, <2>1, <2>2, KeepsOn
  <2>4. Knows(q)'
    BY <1>1, <1>2, <1>10, <2>1 DEF Knows
  <2>5. Writes(q)'
    BY <1>1, <1>2, <1>10, <2>1 DEF Writes
  <2> QED
    BY <2>3, <2>4, <2>5
<1>11. ASSUME NEW x \in Pages, NEW y \in Pages, Here(x), Here(y), x # y,
              NEW k, <<pg[y].id, k>> \in Spoken(x)'
       PROVE  /\ pg[x].id \in pg'[y].users
              /\ pg'[y].users = {pg[x].id} => k = pg'[y].key
              /\ Deletes(inbox'[y]) = {}
  <2>1. CASE <<pg[y].id, k>> \in Spoken(x) /\ y # p
    <3>1. /\ pg[x].id \in pg[y].users
          /\ pg[y].users = {pg[x].id} => k = pg[y].key
          /\ Deletes(inbox[y]) = {}
      BY <1>11, <2>1 DEF Accord, Stands
    <3> QED
      BY <1>1, <2>1, <3>1
  <2>2. CASE <<pg[y].id, k>> \in Spoken(x) /\ y = p
    BY <1>1, <1>6, <1>11, <2>2
  <2>3. CASE <<pg[y].id, k>> \notin Spoken(x)
    <3>1. x # p
      BY <1>3, <1>11, <2>3
    <3>2. pg[y].id = pg[p].id /\ k = res.g.key /\ res.g.users = {pg[x].id}
      BY <1>4, <1>11, <2>3, <3>1
    <3>3. y = p
      BY <1>1, <3>2, TwoIds
    <3>4. pg[x].id \in members
      BY <1>11 DEF Accord, Knows
    <3> QED
      BY <1>1, <1>5, <3>2, <3>3, <3>4
  <2> QED
    BY <2>1, <2>2, <2>3
<1>12. ASSUME NEW x \in Pages, NEW y \in Pages PROVE Stands(x, y)'
  BY <1>2, <1>11 DEF Stands
<1> QED
  BY <1>7, <1>8, <1>9, <1>10, <1>12 DEF Accord

\* Where a page in the room stands.
LEMMA Footing ==
    ASSUME Inv, Accord, NEW p \in Pages, Here(p)
    PROVE  /\ Controller(pg[p], Able) /\ Able \subseteq Ids /\ Settled(pg[p])
           /\ DOMAIN pg[p] = Fields /\ pg[p].generation \in Nat
           /\ Tied(pg[p], Spoken(p)) /\ Single(Spoken(p)) /\ pg[p].version \in Versions
           /\ RunsGood(pg[p], runs[p]) /\ StartIsLast(pg[p], runs[p])
           /\ \A r \in Range(runs[p]) :
                 RunTied(pg[p], r, Spoken(p), Versions) /\ RunType(r) /\ r.gen \in Nat
<1>1. Controller(pg[p], Able) /\ Settled(pg[p]) /\ RunsGood(pg[p], runs[p])
  BY DEF Inv, PageInv, Resident
<1>2. \A r \in Range(runs[p]) : RunType(r) /\ r.gen \in Nat
  BY <1>1 DEF RunsGood, RunType
<1>3. pg[p].version \in Versions
  BY DEF Versions
<1>4. /\ Tied(pg[p], Spoken(p)) /\ Single(Spoken(p)) /\ StartIsLast(pg[p], runs[p])
      /\ \A r \in Range(runs[p]) : RunTied(pg[p], r, Spoken(p), Versions)
  BY DEF Accord, Keeps
<1> QED
  BY <1>1, <1>2, <1>3, <1>4, AbleFacts DEF Controller

\* What a handler leaves is settled.
LEMMA LeftSettled ==
    ASSUME Inv', NEW p \in Pages, Here(p)', NEW h, pg'[p] = h
    PROVE  Settled(h) /\ h.generation \in Nat
<1>1. Resident(pg[p])'
  BY DEF Inv, PageInv
<1> QED
  BY <1>1 DEF Resident, Controller

\* A handler that keeps every run there is.
LEMMA WholeTurning ==
    ASSUME Inv, Inv', Accord, NEW p \in Pages, Here(p), NEW res, pg'[p] = res.g,
           Deals(pg[p], res, Spoken(p), Versions), Sends(pg[p], res.out, Able),
           Starts(pg[p], res, Able)
    PROVE  Turning(p, res, runs[p])
<1>1. PICK h : h = res.g
  OBVIOUS
<1>2. Here(p)' /\ pg'[p] = h
  BY <1>1 DEF Deals, Turns, Here
<1>3. Settled(h) /\ h.generation \in Nat
  BY <1>2, LeftSettled
<1>4. \A r : res.runs = <<r>> => r.gen \in Nat
  <2> SUFFICES ASSUME NEW r, res.runs = <<r>> PROVE r.gen \in Nat
    OBVIOUS
  <2>1. PICK x : res.runs = <<x>> /\ RunType(x)
    BY DEF Starts
  <2> QED
    BY <2>1 DEF RunType
<1>5. Leaves(p, h, runs[p])
  <2>1. runs[p] \in Seq(Range(runs[p])) /\ StartIsLast(pg[p], runs[p])
    BY Footing DEF RunsGood
  <2>2. ASSUME NEW r \in Range(runs[p])
        PROVE  RunTied(h, r, Spoken(p), Versions) /\ r.gen \in Nat /\ r.gen <= pg[p].generation
    <3>1. RunTied(pg[p], r, Spoken(p), Versions) /\ r.gen \in Nat
      BY Footing
    <3>2. RunsKept(pg[p], h, Spoken(p), Versions)
      BY <1>1 DEF Deals
    <3>3. RunTied(h, r, Spoken(p), Versions)
      BY <3>1, <3>2 DEF RunsKept
    <3>4. r.gen <= pg[p].generation
      BY <3>1 DEF RunTied
    <3> QED
      BY <3>1, <3>3, <3>4
  <2> QED
    BY <2>1, <2>2 DEF Leaves
<1>6. res.out \in Seq(Range(res.out))
  BY DEF Sends
<1>7. pg[p].generation \in Nat /\ Settled(pg[p]) /\ Turns(pg[p], res, Spoken(p), Versions)
  BY Footing DEF Deals
<1> QED
  BY <1>1, <1>3, <1>4, <1>5, <1>6, <1>7 DEF Turning

\* A handler that takes nothing from the inbox and learns of nobody.
LEMMA QuietAccord ==
    ASSUME Inv, Inv', Accord, NEW p \in Pages, NEW res, NEW rest, Turning(p, res, rest),
           Did(p, res, rest), res.g.users = pg[p].users, inbox' = inbox,
           members' = members, used' = used
    PROVE  Accord'
<1>1. Here(p)
  BY DEF Turning
<1>2. Hears(p, res.g.users, inbox[p])
  BY <1>1 DEF Hears, Accord, Knows
<1>3. Hears(p, res.g.users, inbox'[p])
  BY <1>2
<1> QED
  BY <1>3, HandlerAccord

\* The same, with all there is under way.
LEMMA DealsAccord ==
    ASSUME Inv, Inv', Accord, NEW p \in Pages, Here(p), NEW res, Did(p, res, runs[p]),
           Deals(pg[p], res, Spoken(p), Versions), SameParty(pg[p], res.g),
           Sends(pg[p], res.out, Able), Starts(pg[p], res, Able), inbox' = inbox,
           members' = members, used' = used
    PROVE  Accord'
<1>1. Turning(p, res, runs[p])
  BY WholeTurning DEF Did
<1> QED
  BY <1>1, QuietAccord DEF SameParty

\* The rest of an inbox of which the first message is taken.
LEMMA InboxTaken ==
    ASSUME Inv, Accord, NEW p \in Pages, inbox[p] # <<>>, NEW w, w = Tail(inbox[p]),
           NEW m, m = Head(inbox[p])
    PROVE  /\ Here(p) /\ MsgOK(m) /\ m \in Range(inbox[p]) /\ Speaks(m, Versions)
           /\ Range(w) \subseteq Range(inbox[p]) /\ Range(inbox[p]) \subseteq Range(w) \cup {m}
           /\ Deletes(w) = {} /\ \A n \in DOMAIN w : w[n].type # "delete"
<1>1. InMail(p)
  BY DEF Inv
<1>2. PICK q : q = inbox[p]
  OBVIOUS
<1>3. Shorter(q, w)
  BY <1>1, <1>2 DEF Shorter, InMail
<1>4. /\ w \in Seq(Range(w)) /\ Range(w) \subseteq Range(q)
      /\ Head(q) = q[1] /\ Head(q) \in Range(q)
      /\ Len(q) \in Nat /\ Len(q) >= 1 /\ DOMAIN q = 1 .. Len(q)
      /\ DOMAIN w = 1 .. Len(q) - 1
      /\ \A i \in 1 .. Len(q) - 1 : w[i] = q[i + 1]
  BY <1>3, FirstElement
<1>5. Here(p)
  BY <1>1 DEF InMail
<1>6. m \in Range(inbox[p]) /\ MsgOK(m) /\ Speaks(m, Versions)
  BY <1>1, <1>2, <1>4, <1>5 DEF InMail, Accord, Knows
<1>7. ASSUME NEW x \in Range(q) PROVE x \in Range(w) \cup {m}
  <2>1. PICK i \in 1 .. Len(q) : x = q[i]
    BY <1>4, <1>7 DEF Range
  <2>2. CASE i = 1
    BY <1>2, <1>4, <2>1, <2>2
  <2>3. CASE i # 1
    <3>1. i - 1 \in 1 .. Len(q) - 1 /\ (i - 1) + 1 = i
      BY <1>4, <2>3
    <3>2. w[i - 1] = x /\ i - 1 \in DOMAIN w
      BY <1>4, <2>1, <3>1
    <3> QED
      BY <3>2 DEF Range
  <2> QED
    BY <2>2, <2>3
<1>8. ASSUME NEW n \in DOMAIN w PROVE w[n].type # "delete"
  <2>1. n + 1 \in DOMAIN q /\ w[n] = q[n + 1] /\ n + 1 # 1
    BY <1>4
  <2>2. \A l \in DOMAIN q : q[l].type = "delete" => l = 1
    BY <1>2, <1>5 DEF Accord, Knows
  <2> QED
    BY <2>1, <2>2
<1>9. Deletes(w) = {}
  BY <1>8 DEF Deletes, Range
<1> QED
  BY <1>2, <1>4, <1>5, <1>6, <1>7, <1>8, <1>9

\* A page takes a message.
LEMMA DeliverAccord ==
    ASSUME Inv, Inv', Accord, NEW p \in Pages, Deliver(p) PROVE Accord'
<1>1. PICK g : g = pg[p]
  OBVIOUS
<1>2. PICK w : w = Tail(inbox[p])
  OBVIOUS
<1>3. PICK m : m = Head(inbox[p])
  OBVIOUS
<1>4. inbox[p] # <<>> /\ DOMAIN inbox = Pages
  BY DEF Deliver, Inv, Server
<1>5. /\ Here(p) /\ MsgOK(m) /\ m \in Range(inbox[p]) /\ Speaks(m, Versions)
      /\ Range(w) \subseteq Range(inbox[p]) /\ Range(inbox[p]) \subseteq Range(w) \cup {m}
      /\ Deletes(w) = {} /\ \A n \in DOMAIN w : w[n].type # "delete"
  BY <1>2, <1>3, <1>4, InboxTaken
<1>6. /\ Controller(g, Able) /\ Able \subseteq Ids /\ Settled(g)
      /\ DOMAIN g = Fields /\ g.generation \in Nat
      /\ Tied(g, Spoken(p)) /\ Single(Spoken(p)) /\ g.version \in Versions
  BY <1>1, <1>5, Footing
<1>7. PICK res : /\ res = (CASE m.type = "add"      -> AddUser(g, m.from)
                             [] m.type = "delete"   -> DelUser(g, m.from)
                             [] m.type = "e2eechat" -> DecryptChat(g, m)
                             [] OTHER               -> OnMessage(g, m))
                 /\ Apply(p, res, runs[p])
                 /\ inbox' = [inbox EXCEPT ![p] = w]
                 /\ UNCHANGED <<members, used>>
  BY <1>1, <1>2, <1>3 DEF Deliver
<1>8. m.from \in Ids /\ m.from # None
  BY <1>5, Numbers DEF MsgOK
<1>9. Adds(inbox[p]) \subseteq Adds(w) \cup {m.from} /\ (m.type # "add" => Adds(inbox[p]) \subseteq Adds(w))
  BY <1>5 DEF Adds
<1>10. \A n \in DOMAIN w : w[n].type = "delete" => n = 1
  BY <1>5
<1>11. /\ Deals(g, res, Spoken(p), Versions) /\ Sends(g, res.out, Able) /\ Starts(g, res, Able)
       /\ Hears(p, res.g.users, w)
  <2>1. CASE m.type = "add"
    <3>1. res = AddUser(g, m.from)
      BY <1>7, <2>1
    <3>2. Deals(g, res, Spoken(p), Versions) /\ res.g.users = g.users \cup {m.from}
      <4>1. PICK u \in Ids : u = m.from
        BY <1>8
      <4>2. Deals(g, AddUser(g, u), Spoken(p), Versions) /\ AddUser(g, u).g.users = g.users \cup {u}
        BY <1>6, AddUserDeals
      <4> QED
        BY <3>1, <4>1, <4>2
    <3>3. Sound(g, res, Able)
      BY <1>6, <1>8, <3>1, AddUserSound
    <3>4. m.from \in Adds(inbox[p])
      BY <1>5, <2>1 DEF Adds
    <3>5. Hears(p, res.g.users, w)
      BY <1>1, <1>5, <1>9, <1>10, <3>2, <3>4 DEF Hears
    <3> QED
      BY <3>2, <3>3, <3>5 DEF Sound, Outcome
  <2>2. CASE m.type = "delete"
    <3>1. res = DelUser(g, m.from)
      BY <1>7, <2>2
    <3>2. Deals(g, res, Spoken(p), Versions) /\ res.g.users = g.users \ {m.from}
      BY <1>6, <1>8, <3>1, DelUserDeals
    <3>3. Sound(g, res, Able)
      BY <1>6, <1>8, <3>1, DelUserSound
    <3>4. m.from \in Deletes(inbox[p])
      BY <1>5, <2>2 DEF Deletes
    <3>5. Hears(p, res.g.users, w)
      BY <1>1, <1>5, <1>9, <1>10, <2>2, <3>2, <3>4 DEF Hears
    <3> QED
      BY <3>2, <3>3, <3>5 DEF Sound, Outcome
  <2>3. CASE m.type = "e2eechat"
    <3>1. res = DecryptChat(g, m)
      BY <1>7, <2>3
    <3>2. Deals(g, res, Spoken(p), Versions) /\ SameParty(g, res.g)
      BY <1>6, <3>1, DecryptChatDeals
    <3>3. Sound(g, res, Able)
      BY <1>6, <3>1, DecryptChatSound
    <3>4. Hears(p, res.g.users, w)
      BY <1>1, <1>5, <1>9, <1>10, <2>3, <3>2 DEF Hears, SameParty
    <3> QED
      BY <3>2, <3>3, <3>4 DEF Sound, Outcome
  <2>4. CASE m.type \in Handshake \cup {"nocrypto"}
    <3>1. res = OnMessage(g, m)
      BY <1>7, <2>4 DEF Handshake
    <3>2. Bears(m) => <<m.from, m.key>> \in Spoken(p)
      BY <1>5, ToldIs DEF Spoken
    <3>3. Deals(g, res, Spoken(p), Versions) /\ SameParty(g, res.g)
      BY <1>5, <1>6, <1>8, <2>4, <3>1, <3>2, OnMessageDeals
    <3>4. Sound(g, res, Able)
      <4>1. Resident(g) /\ (Optional(g) => Lax)
        BY <1>1, <1>5 DEF Inv, PageInv, Optional, Lax, Resident
      <4>2. Lax => Honest(m, Able)
        BY <1>5 DEF Inv, InMail
      <4> QED
        BY <1>5, <1>6, <2>4, <3>1, <4>1, <4>2, OnMessageSound
    <3>5. Hears(p, res.g.users, w)
      BY <1>1, <1>5, <1>9, <1>10, <2>4, <3>3 DEF Hears, SameParty, Handshake
    <3> QED
      BY <3>3, <3>4, <3>5 DEF Sound, Outcome
  <2> QED
    BY <1>5, <2>1, <2>2, <2>3, <2>4 DEF MsgOK, Types
<1>12. Did(p, res, runs[p])
  BY <1>7, ApplyDid
<1>13. Turning(p, res, runs[p])
  BY <1>1, <1>5, <1>11, <1>12, WholeTurning DEF Did
<1>14. Hears(p, res.g.users, inbox'[p]) /\ \A q \in Pages \ {p} : inbox'[q] = inbox[q]
  BY <1>4, <1>7, <1>11
<1> QED
  BY <1>7, <1>12, <1>13, <1>14, HandlerAccord

\* An asynchronous operation completes: behind a handshake that gets its key
\* nothing of one is under way.
LEMMA CompleteAccord ==
    ASSUME Inv, Inv', Accord, NEW p \in Pages, Complete(p) PROVE Accord'
<1>1. PICK g : g = pg[p]
  OBVIOUS
<1>2. PICK rest : rest = Tail(runs[p])
  OBVIOUS
<1>3. PICK r : r = Head(runs[p])
  OBVIOUS
<1>4. PICK res : res = Completed(g, r)
  OBVIOUS
<1>5. PICK q : q = runs[p]
  OBVIOUS
<1>6. q # <<>> /\ Here(p)
  BY <1>5 DEF Complete, Inv, PageInv
<1>7. /\ Controller(g, Able) /\ Able \subseteq Ids /\ Settled(g) /\ g.generation \in Nat
      /\ Tied(g, Spoken(p)) /\ Single(Spoken(p)) /\ g.version \in Versions
      /\ RunsGood(g, q) /\ StartIsLast(g, q)
      /\ \A x \in Range(q) : RunTied(g, x, Spoken(p), Versions) /\ RunType(x) /\ x.gen \in Nat
  BY <1>1, <1>5, <1>6, Footing
<1>8. Shorter(q, rest)
  BY <1>2, <1>5, <1>6, <1>7 DEF Shorter, RunsGood
<1>9. /\ rest \in Seq(Range(rest)) /\ Range(rest) \subseteq Range(q)
      /\ Head(q) = q[1] /\ Head(q) \in Range(q)
      /\ Len(q) \in Nat /\ Len(q) >= 1 /\ DOMAIN q = 1 .. Len(q)
      /\ DOMAIN rest = 1 .. Len(q) - 1
      /\ \A i \in 1 .. Len(q) - 1 : rest[i] = q[i + 1]
  BY <1>8, FirstElement
<1>10. RunTied(g, r, Spoken(p), Versions) /\ RunType(r) /\ r = q[1]
  BY <1>3, <1>5, <1>7, <1>9
<1>11. DealsBehind(g, r, res, Spoken(p), Versions)
  BY <1>4, <1>7, <1>10, CompletedDeals
<1>12. SoundAfter(g, r, res, Able)
  <2>1. g.supported \in BOOLEAN /\ Resident(g)
    BY <1>1, <1>6 DEF Inv, PageInv
  <2>2. g.supported
    BY <1>6, <1>7, <2>1 DEF RunsGood
  <2>3. Optional(g) => Lax
    BY <2>1 DEF Optional, Lax, Resident
  <2>4. Lax => Calm(g, Able) /\ RunOK(g, r, Able)
    BY <1>3, <1>5, <1>7, <1>9, <2>1 DEF Resident, RunsGood
  <2> QED
    BY <1>4, <1>7, <1>10, <2>2, <2>3, <2>4, CompletedSound
<1>13. StartIsLast(g, rest)
  <2> SUFFICES ASSUME NEW i \in DOMAIN rest, NEW j \in DOMAIN rest, i < j,
                      rest[i].at = "start", rest[i].gen = g.generation
               PROVE  rest[j].at \notin {"start", "hash"}
    BY DEF StartIsLast
  <2>1. /\ i + 1 \in DOMAIN q /\ j + 1 \in DOMAIN q /\ i + 1 < j + 1
        /\ rest[i] = q[i + 1] /\ rest[j] = q[j + 1]
    BY <1>9
  <2> QED
    BY <1>7, <2>1 DEF StartIsLast
<1>14. ASSUME NEW x \in Range(rest)
       PROVE  RunTied(res.g, x, Spoken(p), Versions) /\ x.gen \in Nat /\ x.gen <= g.generation
  <2>1. RunTied(g, x, Spoken(p), Versions) /\ x.gen \in Nat
    BY <1>7, <1>9
  <2>2. r.at = "start" /\ r.gen = g.generation => x.at \notin {"start", "hash"}
    <3>1. PICK i \in 1 .. Len(q) - 1 : x = rest[i]
      BY <1>9 DEF Range
    <3>2. x = q[i + 1] /\ i + 1 \in DOMAIN q /\ 1 \in DOMAIN q /\ 1 < i + 1
      BY <1>9, <3>1
    <3> QED
      BY <1>7, <1>10, <3>2 DEF StartIsLast
  <2>3. KeptBehind(g, res.g, r, Spoken(p), Versions)
    BY <1>11 DEF DealsBehind
  <2>4. RunTied(res.g, x, Spoken(p), Versions)
    BY <2>1, <2>2, <2>3 DEF KeptBehind
  <2> QED
    BY <2>1, <2>4 DEF RunTied
<1>15. Did(p, res, rest) /\ UNCHANGED <<inbox, members, used>>
  <2>1. Apply(p, res, rest) /\ UNCHANGED <<inbox, members, used>>
    BY <1>1, <1>2, <1>3, <1>4 DEF Complete
  <2> QED
    BY <2>1, ApplyDid
<1>16. Turning(p, res, rest)
  <2>1. PICK h : h = res.g
    OBVIOUS
  <2>2. pg'[p] = h /\ Here(p)'
    BY <1>1, <1>6, <1>11, <1>15, <2>1 DEF Did, DealsBehind, SameParty, Here
  <2>3. Settled(h) /\ h.generation \in Nat
    BY <2>2, LeftSettled
  <2>4. \A x : res.runs = <<x>> => x.gen \in Nat
    <3> SUFFICES ASSUME NEW x, res.runs = <<x>> PROVE x.gen \in Nat
      OBVIOUS
    <3>1. PICK y : res.runs = <<y>> /\ RunType(y)
      BY <1>12 DEF SoundAfter, Starts
    <3> QED
      BY <3>1 DEF RunType
  <2>5. Leaves(p, h, rest)
    BY <1>1, <1>9, <1>13, <1>14, <2>1 DEF Leaves
  <2>6. res.out \in Seq(Range(res.out))
    BY <1>12 DEF SoundAfter, Sends
  <2>7. Turns(g, res, Spoken(p), Versions)
    BY <1>11 DEF DealsBehind
  <2> QED
    BY <1>1, <1>6, <1>7, <2>1, <2>3, <2>4, <2>5, <2>6, <2>7 DEF Turning
<1>17. res.g.users = pg[p].users
  BY <1>1, <1>11 DEF DealsBehind, SameParty
<1> QED
  BY <1>15, <1>16, <1>17, QuietAccord

\* Two that are alike for the handshake keep the same.
LEMMA SameDealKeeps ==
    ASSUME NEW T, NEW V, NEW g, NEW h, g.generation \in Nat, Tied(g, T), SameDeal(g, h),
           h.state = g.state
    PROVE  Tied(h, T) /\ RunsKept(g, h, T, V)
<1>1. /\ h.id = g.id /\ h.starting = g.starting /\ h.key = g.key
      /\ h.peerCommit = g.peerCommit /\ h.peerPub = g.peerPub
      /\ h.generation = g.generation /\ h.secret = g.secret /\ h.peer = g.peer
  BY DEF SameDeal, SameParty, SameTerms
<1> QED
  BY <1>1, DealStays

\* The group's status, when it is the same, is no part of the handshake.
LEMMA StatusDeal ==
    ASSUME NEW g, DOMAIN g = Fields, NEW k, k = [g EXCEPT !.require = g.require]
    PROVE  SameDeal(g, k) /\ k.state = g.state
  BY DEF Fields, SameDeal, SameParty, SameTerms

\* The group's status comes again.
LEMMA ChangedAccord ==
    ASSUME Inv, Inv', Accord, NEW p \in Pages, Changed(p) PROVE Accord'
<1>1. PICK g : g = pg[p]
  OBVIOUS
<1>2. PICK k : k = [g EXCEPT !.require = g.require]
  OBVIOUS
<1>3. PICK res : res = Recompute(k)
  OBVIOUS
<1>4. Here(p)
  BY DEF Changed
<1>5. /\ Controller(g, Able) /\ Able \subseteq Ids /\ Settled(g)
      /\ DOMAIN g = Fields /\ g.generation \in Nat
      /\ Tied(g, Spoken(p)) /\ Single(Spoken(p)) /\ g.version \in Versions
  BY <1>1, <1>4, Footing
<1>6. Kept(g, k, Able) /\ SameDeal(g, k) /\ k.state = g.state
  BY <1>2, <1>5, StatusKept, StatusDeal
<1>7. /\ Controller(k, Able) /\ DOMAIN k = Fields /\ k.generation \in Nat
      /\ IsFiniteSet(k.users) /\ None \notin k.users
  BY <1>6, Numbers DEF Kept, Controller
<1>8. /\ k.id = g.id /\ k.version = g.version /\ k.generation = g.generation
      /\ k.key = g.key /\ k.peer = g.peer /\ k.users = g.users
  BY <1>6 DEF SameDeal, SameParty, SameTerms
<1>9. Tied(k, Spoken(p)) /\ RunsKept(g, k, Spoken(p), Versions)
  BY <1>5, <1>6, SameDealKeeps
<1>10. Deals(k, res, Spoken(p), Versions) /\ SameParty(k, res.g)
  <2>1. \A q : k.users = {q} => k.peer \in {None, q}
    BY <1>5, <1>8 DEF Settled
  <2>2. k.users = {} \/ Tied(k, Spoken(p))
    BY <1>9
  <2>3. k.version \in Versions
    BY <1>5, <1>8
  <2>4. Deals(k, Recompute(k), Spoken(p), Versions) /\ SameParty(k, Recompute(k).g)
    BY <1>5, <1>7, <2>1, <2>2, <2>3, RecomputeDeals
  <2> QED
    BY <1>3, <2>4
<1>11. Deals(g, res, Spoken(p), Versions) /\ SameParty(g, res.g) /\ Outcome(g, res, Able)
  <2>1. Outcome(k, res, Able)
    BY <1>3, <1>5, <1>7, RecomputeSound
  <2>2. Outcome(g, res, Able)
    BY <1>5, <1>6, <2>1, OutcomeAfter
  <2>3. res.g.generation \in Nat /\ \A r : res.runs = <<r>> => r.gen \in Nat
    <3>1. \A r : res.runs = <<r>> => r.gen \in Nat
      BY <2>1 DEF Outcome, Starts, RunType
    <3> QED
      BY <2>1, <3>1 DEF Outcome, Kept, Controller
  <2>4. k.state = g.state \/ k.state # "failed"
    BY <1>6
  <2>5. g.key # NoKey => (k.key = g.key /\ k.peer = g.peer) \/ res.g.users # {g.peer}
    BY <1>8
  <2>6. g.generation <= k.generation
    BY <1>5, <1>8
  <2>7. Deals(g, res, Spoken(p), Versions)
    BY <1>5, <1>7, <1>8, <1>9, <1>10, <2>3, <2>4, <2>5, <2>6, DealsAfter
  <2> QED
    BY <1>6, <1>10, <2>2, <2>7 DEF SameDeal, SameParty
<1>12. Did(p, res, runs[p]) /\ UNCHANGED <<inbox, members, used>>
  <2>1. Apply(p, res, runs[p]) /\ UNCHANGED <<inbox, members, used>>
    BY <1>1, <1>2, <1>3 DEF Changed, SetRequire
  <2> QED
    BY <2>1, ApplyDid
<1> QED
  BY <1>1, <1>4, <1>11, <1>12, DealsAccord DEF Outcome

\* A step that only changes what the handshake does not look at.
LEMMA SilentAccord ==
    ASSUME Inv, Inv', Accord, NEW p \in Pages, Here(p), NEW h, Did(p, Just(h), runs[p]),
           SameDeal(pg[p], h), h.state = pg[p].state \/ h.state \notin {"established", "failed"},
           inbox' = inbox, members' = members, used' = used
    PROVE  Accord'
<1>1. pg[p].generation \in Nat /\ Tied(pg[p], Spoken(p))
  BY Footing
<1>2. Deals(pg[p], Just(h), Spoken(p), Versions) /\ Just(h).g = h
  BY <1>1, SilentDeals
<1>3. SameParty(pg[p], Just(h).g)
  BY <1>2 DEF SameDeal
<1>4. Sends(pg[p], Just(h).out, Able) /\ Starts(pg[p], Just(h), Able)
  BY DEF Just, Result, Sends, Starts, Range
<1> QED
  BY <1>2, <1>3, <1>4, DealsAccord

\* A camera is no part of the handshake.
LEMMA TracksDeal ==
    ASSUME NEW g, NEW h, NEW t, DOMAIN g = Fields, h = [g EXCEPT !.tracks = t]
    PROVE  SameDeal(g, h) /\ h.state = g.state
  BY DEF Fields, SameDeal, SameParty, SameTerms

\* A camera is turned on.
LEMMA PublishAccord ==
    ASSUME Inv, Inv', Accord, NEW p \in Pages, Publish(p) PROVE Accord'
<1>1. PICK t : t = IF pg[p].supported THEN "sealed" ELSE "bare"
  OBVIOUS
<1>2. PICK h : h = [pg[p] EXCEPT !.tracks = t]
  OBVIOUS
<1>3. /\ Here(p) /\ Apply(p, Just(h), runs[p]) /\ UNCHANGED <<inbox, members, used>>
  BY <1>1, <1>2 DEF Publish
<1>4. SameDeal(pg[p], h) /\ h.state = pg[p].state
  BY <1>2, <1>3, Footing, TracksDeal
<1>5. Did(p, Just(h), runs[p])
  BY <1>3, ApplyDid
<1> QED
  BY <1>3, <1>4, <1>5, SilentAccord

\* A camera is turned off.
LEMMA UnpublishAccord ==
    ASSUME Inv, Inv', Accord, NEW p \in Pages, Unpublish(p) PROVE Accord'
<1>1. PICK h : h = [pg[p] EXCEPT !.tracks = "none"]
  OBVIOUS
<1>2. Here(p) /\ RunsGood(pg[p], runs[p]) /\ OutMail(p)
  BY DEF Unpublish, Inv, PageInv, Absent
<1>3. Did(p, Just(h), runs[p]) /\ UNCHANGED <<inbox, members, used>>
  <2>1. pg' = [pg EXCEPT ![p] = h] /\ UNCHANGED <<runs, outbox, inbox, members, used>>
    BY <1>1 DEF Unpublish
  <2>2. runs[p] \o <<>> = runs[p] /\ outbox[p] \o <<>> = outbox[p]
    BY <1>2 DEF RunsGood, OutMail
  <2>3. DOMAIN pg = Pages /\ DOMAIN runs = Pages /\ DOMAIN outbox = Pages
    BY DEF Inv, Server
  <2> QED
    BY <2>1, <2>2, <2>3 DEF Did, Just, Result
<1>4. SameDeal(pg[p], h) /\ h.state = pg[p].state
  BY <1>1, <1>2, Footing, TracksDeal
<1> QED
  BY <1>2, <1>3, <1>4, SilentAccord

\* The user agrees to go on in clear.
LEMMA ContinueInClearAccord ==
    ASSUME Inv, Inv', Accord, NEW p \in Pages, ContinueInClear(p) PROVE Accord'
<1>1. PICK a : a = [pg[p] EXCEPT !.clearAgreed = TRUE]
  OBVIOUS
<1>2. PICK b : b = SetWorkerMode(a, TRUE)
  OBVIOUS
<1>3. PICK h : h = SetState(b, "unencrypted")
  OBVIOUS
<1>4. /\ AwaitsClearConsent(pg[p]) /\ Apply(p, Just(h), runs[p])
      /\ UNCHANGED <<inbox, members, used>>
  BY <1>1, <1>2, <1>3 DEF ContinueInClear
<1>5. Here(p)
  BY <1>4 DEF AwaitsClearConsent, Inv, PageInv, Absent
<1>6. DOMAIN pg[p] = Fields
  BY <1>5, Footing
<1>7. DOMAIN a = Fields /\ SameDeal(pg[p], a)
  BY <1>1, <1>6 DEF Fields, SameDeal, SameParty, SameTerms
<1>8. DOMAIN b = Fields /\ SameDeal(a, b)
  BY <1>2, <1>7, SetWorkerModeDeal
<1>9. SameDeal(b, h) /\ h.state = "unencrypted"
  BY <1>3, <1>8, SetStateDeal
<1>10. SameDeal(pg[p], h)
  BY <1>7, <1>8, <1>9, SameDealTwice
<1>11. Did(p, Just(h), runs[p])
  BY <1>4, ApplyDid
<1> QED
  BY <1>4, <1>5, <1>9, <1>10, <1>11, SilentAccord

\* The user writes.
LEMMA ChatAccord ==
    ASSUME Inv, Inv', Accord, NEW p \in Pages, Chat(p) PROVE Accord'
<1>1. PICK r : r = [at |-> "seal", gen |-> pg[p].generation, peer |-> pg[p].peer,
                    session |-> pg[p].chatKey, msg |-> <<"text">>]
  OBVIOUS
<1>2. PICK res : res = Result(pg[p], <<>>, <<r>>)
  OBVIOUS
<1>3. CanChat(pg[p]) /\ Apply(p, res, runs[p]) /\ UNCHANGED <<inbox, members, used>>
  BY <1>1, <1>2 DEF Chat, Seal
<1>4. Here(p)
  BY <1>3 DEF CanChat, Inv, PageInv, Absent
<1>5. Controller(pg[p], Able) /\ pg[p].generation \in Nat /\ Tied(pg[p], Spoken(p))
  BY <1>4, Footing
<1>6. Deals(pg[p], res, Spoken(p), Versions)
  <2>1. r.at \in {"seal", "open"} /\ r.gen = pg[p].generation
    BY <1>1
  <2> QED
    BY <1>2, <1>5, <2>1, AsideDeals
<1>7. Sound(pg[p], Result(pg[p], <<>>, Seal(pg[p], "text")), Able)
  BY <1>3, <1>5, ChatSound
<1>8. Sends(pg[p], res.out, Able) /\ Starts(pg[p], res, Able)
  BY <1>1, <1>2, <1>7 DEF Seal, Sound, Outcome
<1>9. SameParty(pg[p], res.g)
  BY <1>2 DEF Result, SameParty
<1> QED
  BY <1>3, <1>4, <1>6, <1>8, <1>9, DealsAccord, ApplyDid

\* An encryptor fails to attach: the handshake stays as it is.
LEMMA AttachFailsAccord ==
    ASSUME Inv, Inv', Accord, NEW p \in Pages, AttachFails(p) PROVE Accord'
<1>1. PICK g : g = pg[p]
  OBVIOUS
<1>2. PICK k : k = Bare(g)
  OBVIOUS
<1>3. PICK res : res = SayCannot(k)
  OBVIOUS
<1>4. /\ Here(p) /\ g.supported /\ (FailWhen = "any" \/ g.require)
      /\ Apply(p, res, runs[p]) /\ UNCHANGED <<inbox, members, used>>
  BY <1>1, <1>2, <1>3 DEF AttachFails, Bare
<1>5. /\ Controller(g, Able) /\ DOMAIN g = Fields /\ g.generation \in Nat
      /\ Tied(g, Spoken(p)) /\ g.version \in Versions
  BY <1>1, <1>4, Footing
<1>6. DOMAIN k = Fields /\ SameDeal(g, k) /\ k.state = g.state
  BY <1>2, <1>5 DEF Bare, Fields, SameDeal, SameParty, SameTerms
<1>7. Tied(k, Spoken(p)) /\ RunsKept(g, k, Spoken(p), Versions)
  BY <1>5, <1>6, SameDealKeeps
<1>8. k.id = g.id /\ k.version = g.version /\ k.generation = g.generation
      /\ k.key = g.key /\ k.peer = g.peer
  BY <1>6 DEF SameDeal, SameParty, SameTerms
<1>9. Deals(k, res, Spoken(p), Versions) /\ SameDeal(k, res.g) /\ res.runs = <<>>
  BY <1>3, <1>5, <1>6, <1>7, <1>8, SayCannotDeals
<1>10. res.g.generation = g.generation
  BY <1>8, <1>9 DEF SameDeal
<1>11. Deals(g, res, Spoken(p), Versions)
  <2>1. \A r : res.runs = <<r>> => r.gen \in Nat
    <3>1. \A r : <<r>> # <<>>
      OBVIOUS
    <3> QED
      BY <1>9, <3>1
  <2>2. g.generation <= k.generation /\ k.generation \in Nat /\ res.g.generation \in Nat
    BY <1>5, <1>8, <1>10
  <2>3. k.state = g.state \/ k.state # "failed"
    BY <1>6
  <2>4. g.key # NoKey => (k.key = g.key /\ k.peer = g.peer) \/ res.g.users # {g.peer}
    BY <1>8
  <2>5. Deals(k, res, Spoken(p), Versions) /\ RunsKept(g, k, Spoken(p), Versions)
    BY <1>7, <1>9
  <2>6. k.id = g.id /\ k.version = g.version /\ g.generation \in Nat
    BY <1>5, <1>8
  <2> QED
    BY <2>1, <2>2, <2>3, <2>4, <2>5, <2>6, DealsAfter
<1>12. Sends(g, res.out, Able)
  BY <1>2, <1>3, <1>4, <1>5, AttachFailsSound DEF FailsSafely
<1>13. SameParty(g, res.g) /\ Starts(g, res, Able)
  BY <1>6, <1>9 DEF SameDeal, SameParty, Starts
<1> QED
  BY <1>1, <1>4, <1>11, <1>12, <1>13, DealsAccord, ApplyDid

\* A page that stays as it is, and is told no more than before, keeps to it.
LEMMA LessSaid ==
    ASSUME NEW q \in Pages, Keeps(q), pg'[q] = pg[q], runs'[q] = runs[q], Versions' = Versions,
           Here(q) => Spoken(q)' \subseteq Spoken(q)
    PROVE  Keeps(q)'
<1>1. ASSUME Here(q) PROVE Single(Spoken(q)')
  <2>1. Single(Spoken(q)) /\ Spoken(q)' \subseteq Spoken(q)
    BY <1>1 DEF Keeps
  <2> QED
    BY <2>1 DEF Single
<1> QED
  BY <1>1, KeepsOn

\* ... and it stands to another as before.
LEMMA LessStands ==
    ASSUME NEW x \in Pages, NEW y \in Pages, Stands(x, y), pg'[x] = pg[x], pg'[y] = pg[y],
           Here(x) /\ Here(y) => /\ Spoken(x)' \subseteq Spoken(x)
                                 /\ Deletes(inbox'[y]) \subseteq Deletes(inbox[y])
    PROVE  Stands(x, y)'
<1> SUFFICES ASSUME Here(x)', Here(y)', x # y, NEW k, <<pg'[y].id, k>> \in Spoken(x)'
             PROVE  /\ pg'[x].id \in pg'[y].users
                    /\ pg'[y].users = {pg'[x].id} => k = pg'[y].key
                    /\ Deletes(inbox'[y]) = {}
  BY DEF Stands
<1>1. Here(x) /\ Here(y)
  BY DEF Here
<1>2. <<pg[y].id, k>> \in Spoken(x)
  BY <1>1
<1>3. /\ pg[x].id \in pg[y].users
      /\ pg[y].users = {pg[x].id} => k = pg[y].key
      /\ Deletes(inbox[y]) = {}
  BY <1>1, <1>2 DEF Stands
<1> QED
  BY <1>1, <1>3

\* The server relays a message: it was said before.
LEMMA RelayAccord ==
    ASSUME Inv, Inv', Accord, NEW p \in Pages, Relay(p) PROVE Accord'
<1>1. /\ outbox[p] # <<>> /\ DOMAIN outbox = Pages /\ DOMAIN inbox = Pages
      /\ OutMail(p) /\ None \notin Ids
  BY Numbers DEF Relay, Inv, Server
<1>2. PICK w : w = Tail(outbox[p])
  OBVIOUS
<1>3. PICK m : m = Head(outbox[p])
  OBVIOUS
<1>4. Range(w) \subseteq Range(outbox[p]) /\ m \in Range(outbox[p])
  <2>1. Shorter(outbox[p], w)
    BY <1>1, <1>2 DEF Shorter, OutMail
  <2> QED
    BY <1>3, <2>1, FirstElement
<1>5. /\ inbox' = (IF \E q \in Pages : pg[q].id = m.to
                   THEN [inbox EXCEPT ![PageOf(m.to)] = Append(@, m)] ELSE inbox)
      /\ outbox'[p] = w /\ \A q \in Pages \ {p} : outbox'[q] = outbox[q]
      /\ UNCHANGED <<pg, runs, members, used>>
  BY <1>1, <1>2, <1>3 DEF Relay
<1>6. Versions' = Versions /\ \A q \in Pages : Here(q)' <=> Here(q)
  BY <1>5 DEF Versions, Here
<1>7. /\ m.type \notin {"add", "delete"} /\ m.from \in used /\ Speaks(m, Versions) /\ Letter(m)
      /\ Here(p)
  <2>1. Here(p) /\ m.type \notin {"add", "delete"} /\ m.from = pg[p].id /\ Speaks(m, Versions)
    BY <1>1, <1>4 DEF Accord, Writes
  <2>2. pg[p].id \in members /\ members \subseteq used
    BY <2>1 DEF Accord, Knows, Inv, Server
  <2> QED
    BY <1>1, <1>4, <2>1, <2>2 DEF OutMail
<1>8. ASSUME NEW q \in Pages
      PROVE  \/ inbox'[q] = inbox[q]
             \/ /\ m.to = pg[q].id /\ Here(q) /\ Range(inbox'[q]) = Range(inbox[q]) \cup {m}
                /\ \A n \in DOMAIN inbox'[q] : inbox'[q][n].type = "delete" =>
                      n \in DOMAIN inbox[q] /\ inbox[q][n].type = "delete"
  <2>1. CASE \A y \in Pages : pg[y].id # m.to
    BY <1>5, <2>1
  <2>2. CASE \E y \in Pages : pg[y].id = m.to
    <3>1. PICK x : x = PageOf(m.to)
      OBVIOUS
    <3>2. x \in Pages /\ pg[x].id = m.to
      BY <2>2, <3>1 DEF PageOf
    <3>3. PICK i : i = inbox[x]
      OBVIOUS
    <3>4. PICK z : z = Append(i, m)
      OBVIOUS
    <3>5. inbox'[x] = z /\ \A y \in Pages \ {x} : inbox'[y] = inbox[y]
      BY <1>1, <1>5, <2>2, <3>1, <3>2, <3>3, <3>4
    <3>6. Longer(i, m, z)
      BY <3>2, <3>3, <3>4 DEF Longer, Inv, InMail
    <3>7. /\ Range(z) = Range(i) \cup {m}
          /\ Len(i) \in Nat /\ DOMAIN i = 1 .. Len(i)
          /\ DOMAIN z = 1 .. Len(i) + 1 /\ z[Len(i) + 1] = m
          /\ \A n \in 1 .. Len(i) : z[n] = i[n]
      BY <3>6, LastElement
    <3>8. ASSUME NEW n \in DOMAIN z, z[n].type = "delete"
          PROVE  n \in DOMAIN i /\ i[n].type = "delete"
      <4>1. n # Len(i) + 1
        BY <1>7, <3>7, <3>8
      <4>2. n \in 1 .. Len(i)
        BY <3>7, <4>1
      <4> QED
        BY <3>7, <3>8, <4>2
    <3>9. Here(x)
      BY <1>1, <1>7, <3>2 DEF Here, Letter
    <3>10. CASE q = x
      BY <3>2, <3>3, <3>5, <3>7, <3>8, <3>9, <3>10
    <3>11. CASE q # x
      BY <3>5, <3>11
    <3> QED
      BY <3>10, <3>11
  <2> QED
    BY <2>1, <2>2
<1>9. ASSUME NEW q \in Pages
      PROVE  /\ Adds(inbox'[q]) = Adds(inbox[q]) /\ Deletes(inbox'[q]) = Deletes(inbox[q])
             /\ \A x \in Range(inbox'[q]) : x \in Range(inbox[q]) \/ (x = m /\ m.to = pg[q].id)
             /\ \A n \in DOMAIN inbox'[q] : inbox'[q][n].type = "delete" =>
                      n \in DOMAIN inbox[q] /\ inbox[q][n].type = "delete"
  <2>1. CASE inbox'[q] = inbox[q]
    BY <2>1
  <2>2. CASE /\ m.to = pg[q].id /\ Here(q) /\ Range(inbox'[q]) = Range(inbox[q]) \cup {m}
             /\ \A n \in DOMAIN inbox'[q] : inbox'[q][n].type = "delete" =>
                      n \in DOMAIN inbox[q] /\ inbox[q][n].type = "delete"
    <3>1. Adds(inbox'[q]) = Adds(inbox[q])
      BY <1>7, <2>2 DEF Adds
    <3>2. Deletes(inbox'[q]) = Deletes(inbox[q])
      BY <1>7, <2>2 DEF Deletes
    <3> QED
      BY <2>2, <3>1, <3>2
  <2> QED
    BY <1>8, <2>1, <2>2
<1>10. ASSUME NEW q \in Pages PROVE Spoken(q)' \subseteq Spoken(q)
  <2> SUFFICES ASSUME NEW x \in Spoken(q)' PROVE x \in Spoken(q)
    OBVIOUS
  <2>1. PICK in : in = inbox'[q]
    OBVIOUS
  <2>2. PICK out : out = outbox'
    OBVIOUS
  <2>3. x \in Told(pg[q], runs[q], in, out)
    BY <1>5, <2>1, <2>2 DEF Spoken
  <2>4. CASE x \in Held(pg[q], runs[q])
    BY <2>4, ToldOfHeld DEF Spoken
  <2>5. CASE \E z \in Range(in) : Bears(z) /\ x = <<z.from, z.key>>
    <3>1. PICK z \in Range(in) : Bears(z) /\ x = <<z.from, z.key>>
      BY <2>5
    <3>2. CASE z \in Range(inbox[q])
      BY <3>1, <3>2, ToldIs DEF Spoken
    <3>3. CASE z = m /\ m.to = pg[q].id
      BY <1>4, <3>1, <3>3, ToldIs DEF Spoken
    <3> QED
      BY <1>9, <2>1, <3>2, <3>3
  <2>6. CASE \E y \in Pages : \E z \in Range(out[y]) :
                Bears(z) /\ z.to = pg[q].id /\ x = <<z.from, z.key>>
    <3>1. PICK y \in Pages : \E z \in Range(out[y]) :
                Bears(z) /\ z.to = pg[q].id /\ x = <<z.from, z.key>>
      BY <2>6
    <3>2. Range(out[y]) \subseteq Range(outbox[y])
      BY <1>4, <1>5, <2>2
    <3> QED
      BY <3>1, <3>2, ToldIs DEF Spoken
  <2> QED
    BY <2>3, <2>4, <2>5, <2>6, ToldIs
<1>11. ASSUME NEW q \in Pages PROVE Keeps(q)' /\ Knows(q)' /\ Writes(q)'
  <2>1. Keeps(q) /\ Knows(q) /\ Writes(q)
    BY DEF Accord
  <2>2. Keeps(q)'
    BY <1>5, <1>6, <1>10, <2>1, LessSaid
  <2>3. Knows(q)'
    <3> SUFFICES ASSUME Here(q)' PROVE Knows(q)'
      BY DEF Knows
    <3>1. Here(q)
      BY <1>6
    <3>2. \A x \in Range(inbox'[q]) : x.from \in used /\ Speaks(x, Versions)
      BY <1>7, <1>9, <2>1, <3>1 DEF Knows
    <3>3. \A n \in DOMAIN inbox'[q] : inbox'[q][n].type = "delete" => n = 1
      BY <1>9, <2>1, <3>1 DEF Knows
    <3> QED
      BY <1>5, <1>6, <1>9, <2>1, <3>1, <3>2, <3>3 DEF Knows
  <2>4. Writes(q)'
    <3>1. Range(outbox'[q]) \subseteq Range(outbox[q])
      BY <1>4, <1>5
    <3>2. ~Here(q) => outbox'[q] = <<>>
      BY <1>5, <1>7, <2>1 DEF Writes
    <3> QED
      BY <1>5, <1>6, <2>1, <3>1, <3>2 DEF Writes
  <2> QED
    BY <2>2, <2>3, <2>4
<1>12. ASSUME NEW x \in Pages, NEW y \in Pages PROVE Stands(x, y)'
  BY <1>5, <1>9, <1>10, LessStands DEF Accord
<1> QED
  BY <1>11, <1>12 DEF Accord

\* A page goes, and what it had said.
LEMMA DisconnectAccord ==
    ASSUME Inv, Inv', Accord, NEW p \in Pages, Disconnect(p) PROVE Accord'
<1>1. PICK h : h = NewController(pg[p], None)
  OBVIOUS
<1>2. /\ pg'[p] = h /\ \A q \in Pages \ {p} : pg'[q] = pg[q]
      /\ \A q \in Pages \ {p} : runs'[q] = runs[q]
      /\ outbox'[p] = <<>> /\ \A q \in Pages \ {p} : outbox'[q] = outbox[q]
      /\ \A q \in Pages \ {p} : inbox'[q] = inbox[q]
      /\ UNCHANGED <<members, used>>
  BY <1>1 DEF Disconnect, Inv, Server
<1>3. h.id = None /\ h.version = pg[p].version
  BY <1>1 DEF NewController, Loaded
<1>4. Versions' = Versions
  <2>1. \A q \in Pages : pg'[q].version = pg[q].version
    BY <1>2, <1>3
  <2> QED
    BY <2>1 DEF Versions
<1>5. ~Here(p)' /\ \A q \in Pages \ {p} : Here(q)' <=> Here(q)
  BY <1>2, <1>3 DEF Here
<1>6. Range(<<>>) = {}
  BY DEF Range
<1>7. ASSUME NEW q \in Pages, q # p PROVE Spoken(q)' \subseteq Spoken(q)
  <2> SUFFICES ASSUME NEW x \in Spoken(q)' PROVE x \in Spoken(q)
    OBVIOUS
  <2>1. PICK out : out = outbox'
    OBVIOUS
  <2>2. x \in Told(pg[q], runs[q], inbox[q], out)
    BY <1>2, <1>7, <2>1 DEF Spoken
  <2>3. \A y \in Pages : Range(out[y]) \subseteq Range(outbox[y])
    BY <1>2, <1>6, <2>1
  <2> QED
    BY <2>2, <2>3, ToldIs DEF Spoken
<1>8. Keeps(p)' /\ Knows(p)' /\ Writes(p)'
  BY <1>2, <1>5, <1>6 DEF Keeps, Knows, Writes
<1>9. ASSUME NEW q \in Pages, q # p PROVE Keeps(q)' /\ Knows(q)' /\ Writes(q)'
  <2>1. Keeps(q) /\ Knows(q) /\ Writes(q)
    BY DEF Accord
  <2>2. Keeps(q)'
    BY <1>2, <1>4, <1>7, <1>9, <2>1, LessSaid
  <2>3. Knows(q)'
    BY <1>2, <1>4, <1>5, <1>9, <2>1 DEF Knows
  <2>4. Writes(q)'
    BY <1>2, <1>4, <1>5, <1>9, <2>1 DEF Writes
  <2> QED
    BY <2>2, <2>3, <2>4
<1>10. ASSUME NEW x \in Pages, NEW y \in Pages PROVE Stands(x, y)'
  <2>1. CASE x = p \/ y = p
    BY <1>5, <2>1 DEF Stands
  <2>2. CASE x # p /\ y # p
    <3>1. pg'[x] = pg[x] /\ pg'[y] = pg[y] /\ inbox'[y] = inbox[y]
      BY <1>2, <2>2
    <3>2. Spoken(x)' \subseteq Spoken(x) /\ Stands(x, y)
      BY <1>7, <2>2 DEF Accord
    <3> QED
      BY <3>1, <3>2, LessStands
  <2> QED
    BY <2>1, <2>2
<1> QED
  BY <1>8, <1>9, <1>10 DEF Accord

\* A note of the server carries no key and belongs to no handshake.
LEMMA NoteIs ==
    ASSUME NEW t \in {"add", "delete"}, NEW i, NEW V
    PROVE  LET m == Note(t, i)
           IN  m.type = t /\ m.from = i /\ ~Bears(m) /\ Speaks(m, V)
<1>1. PICK m : m = Note(t, i)
  OBVIOUS
<1>2. m.type = t /\ m.from = i
  BY <1>1 DEF Note
<1>3. ~Bears(m) /\ m.type \notin Handshake
  BY <1>2 DEF Bears, Handshake
<1> QED
  BY <1>1, <1>2, <1>3 DEF Speaks

\* Everybody is told that somebody has gone, and has been told everything
\* else: who was not alone with another holds nothing of it.
LEMMA ExpireAccord ==
    ASSUME Inv, Inv', Accord, ~Slow, NEW i \in Ids, Expire(i) PROVE Accord'
<1>1. /\ members' = members \ {i} /\ inbox' = Announce("delete", i, members \ {i})
      /\ UNCHANGED <<pg, runs, outbox, used>>
      /\ i \in members /\ \A p \in Pages : pg[p].id # i
      /\ \A p \in Pages : inbox[p] = <<>> /\ outbox[p] = <<>>
  BY DEF Expire
<1>2. Versions' = Versions /\ \A q \in Pages : Here(q)' <=> Here(q)
  BY <1>1 DEF Versions, Here
<1>3. PICK m : m = Note("delete", i)
  OBVIOUS
<1>4. m.type = "delete" /\ m.from = i /\ ~Bears(m) /\ \A V : Speaks(m, V)
  <2>1. PICK t \in {"add", "delete"} : t = "delete"
    OBVIOUS
  <2>2. \A V : LET n == Note(t, i) IN n.type = t /\ n.from = i /\ ~Bears(n) /\ Speaks(n, V)
    BY NoteIs
  <2> QED
    BY <1>3, <2>1, <2>2
<1>5. Range(<<>>) = {} /\ Range(<<m>>) = {m} /\ DOMAIN <<m>> = {1} /\ <<m>>[1] = m
  BY DEF Range
<1>6. Adds(<<>>) = {}
  BY <1>5 DEF Adds
<1>7. ASSUME NEW q \in Pages, Here(q)
      PROVE  /\ inbox'[q] = <<m>> /\ pg[q].id \in members \ {i}
             /\ members \ {pg[q].id} \subseteq pg[q].users
             /\ pg[q].id \notin pg[q].users /\ pg[q].users \subseteq used
  <2>1. /\ pg[q].id \in members /\ pg[q].users \subseteq used
        /\ pg[q].id \notin pg[q].users \cup Adds(inbox[q])
        /\ members \ {pg[q].id} \subseteq pg[q].users \cup Adds(inbox[q])
    BY <1>7 DEF Accord, Knows
  <2>2. pg[q].id \in members \ {i}
    BY <1>1, <2>1
  <2>3. inbox'[q] = Append(inbox[q], m)
    BY <1>1, <1>3, <1>7, <2>2 DEF Announce
  <2>4. inbox[q] = <<>>
    BY <1>1
  <2>5. Append(<<>>, m) = <<m>>
    OBVIOUS
  <2> QED
    BY <1>6, <2>1, <2>2, <2>3, <2>4, <2>5
<1>8. ASSUME NEW q \in Pages, Here(q) PROVE Spoken(q)' \subseteq Held(pg[q], runs[q])
  <2> SUFFICES ASSUME NEW x \in Spoken(q)' PROVE x \in Held(pg[q], runs[q])
    OBVIOUS
  <2>1. PICK in : in = inbox'[q]
    OBVIOUS
  <2>2. x \in Told(pg[q], runs[q], in, outbox)
    BY <1>1, <2>1 DEF Spoken
  <2>3. Range(in) = {m}
    BY <1>5, <1>7, <1>8, <2>1
  <2>4. \A y \in Pages : Range(outbox[y]) = {}
    BY <1>1, <1>5
  <2> QED
    BY <1>4, <2>2, <2>3, <2>4, ToldIs
<1>9. ASSUME NEW q \in Pages, Here(q) PROVE Spoken(q)' \subseteq Spoken(q)
  BY <1>8, <1>9, ToldOfHeld DEF Spoken
<1>10. ASSUME NEW q \in Pages PROVE Keeps(q)' /\ Knows(q)' /\ Writes(q)'
  <2>1. Keeps(q) /\ Knows(q) /\ Writes(q)
    BY DEF Accord
  <2>2. Keeps(q)'
    BY <1>1, <1>2, <1>9, <2>1, LessSaid
  <2>3. Knows(q)'
    <3> SUFFICES ASSUME Here(q) PROVE Knows(q)'
      BY <1>2 DEF Knows
    <3>1. PICK in : in = inbox'[q]
      OBVIOUS
    <3>2. in = <<m>>
      BY <1>7, <3>1
    <3>3. Adds(in) = {}
      BY <1>4, <1>5, <3>2 DEF Adds
    <3>4. Deletes(in) = {i}
      BY <1>4, <1>5, <3>2 DEF Deletes
    <3>5. \A n \in DOMAIN in : in[n].type = "delete" => n = 1
      BY <1>5, <3>2
    <3>6. \A x \in Range(in) : x.from \in used /\ Speaks(x, Versions)
      BY <1>1, <1>4, <1>5, <3>2 DEF Inv, Server
    <3>7. /\ pg[q].id \in members \ {i}
          /\ members \ {pg[q].id} \subseteq pg[q].users
          /\ pg[q].id \notin pg[q].users /\ pg[q].users \subseteq used
      BY <1>7
    <3>8. {i} \subseteq pg[q].users \ (members \ {i})
      BY <1>1, <3>7
    <3> QED
      BY <1>1, <1>2, <3>1, <3>3, <3>4, <3>5, <3>6, <3>7, <3>8 DEF Knows
  <2>4. Writes(q)'
    BY <1>1, <1>2, <2>1 DEF Writes
  <2> QED
    BY <2>2, <2>3, <2>4
<1>11. ASSUME NEW x \in Pages, NEW y \in Pages PROVE Stands(x, y)'
  <2> SUFFICES ASSUME Here(x), Here(y), x # y, NEW k, <<pg[y].id, k>> \in Spoken(x)'
               PROVE  FALSE
    BY <1>1, <1>2 DEF Stands
  <2>1. <<pg[y].id, k>> \in Held(pg[x], runs[x])
    BY <1>8
  <2>2. Tied(pg[x], Spoken(x)) /\ \A r \in Range(runs[x]) : RunTied(pg[x], r, Spoken(x), Versions)
    BY DEF Accord, Keeps
  <2>3. pg[x].peer # None
    <3>1. \A z \in Held(pg[x], runs[x]) : pg[x].peer # None
      BY <2>2, HeldTold
    <3> QED
      BY <2>1, <3>1
  <2>4. pg[x].users = {pg[x].peer}
    BY <2>3, Footing DEF Settled
  <2>5. pg[y].id # pg[x].id
    BY TwoIds
  <2>6. i \in pg[x].users /\ pg[y].id \in pg[x].users /\ pg[y].id # i
    BY <1>1, <1>7, <2>5
  <2> QED
    BY <2>4, <2>6
<1> QED
  BY <1>10, <1>11 DEF Accord

-----------------------------------------------------------------------------

\* A new controller, in an empty room.
LEMMA ConnectTerms ==
    ASSUME NEW g, NEW i, NEW required
    PROVE  LET h == SetRequire(NewController(g, i), required).g
           IN  /\ h.id = i /\ h.users = {} /\ h.version = g.version /\ NoTerms(h)
               /\ h.state \notin {"established", "failed"}
<1>1. PICK n : n = NewController(g, i)
  OBVIOUS
<1>2. DOMAIN n = Fields /\ n.id = i /\ n.users = {}
  <2>1. Fresh(g, i, n)
    BY <1>1, NewControllerFields
  <2> QED
    BY <2>1 DEF Fresh
<1>3. n.version = g.version
  BY <1>1 DEF NewController, Loaded
<1>4. PICK k : k = [n EXCEPT !.require = required]
  OBVIOUS
<1>5. DOMAIN k = Fields /\ k.id = i /\ k.users = {} /\ k.version = g.version
  BY <1>2, <1>3, <1>4 DEF Fields
<1>6. PICK a : a = ResetPeer(k)
  OBVIOUS
<1>7. DOMAIN a = Fields /\ SameParty(k, a) /\ NoTerms(a)
  BY <1>5, <1>6, ResetPeerDeal
<1>8. PICK h : h = SetRequire(n, required).g
  OBVIOUS
<1>9. h = Downgrade(a) \/ h = SetState(a, "idle")
  BY <1>4, <1>5, <1>6, <1>8 DEF SetRequire, Recompute, Just, Result
<1>10. SameDeal(a, h) /\ h.state \notin {"established", "failed"}
  <2>1. CASE h = Downgrade(a)
    BY <1>7, <2>1, DowngradeDeal
  <2>2. CASE h = SetState(a, "idle")
    BY <1>7, <2>2, SetStateDeal
  <2> QED
    BY <1>9, <2>1, <2>2
<1>11. /\ h.id = i /\ h.users = {} /\ h.version = g.version /\ NoTerms(h)
  BY <1>5, <1>7, <1>10 DEF SameDeal, SameParty, SameTerms, NoTerms
<1> QED
  BY <1>1, <1>8, <1>10, <1>11

\* A set made a sequence is all there.
LEMMA SetToSeqOfAll ==
    ASSUME NEW S, IsFiniteSet(S) PROVE Range(SetToSeq(S)) = S
<1>1. PICK n : n = Cardinality(S)
  OBVIOUS
<1>2. n \in Nat /\ ExistsBijection(1 .. n, S)
  BY <1>1, FS_CardinalityType
<1>3. PICK f \in [1 .. n -> S] : IsInjective(f)
  BY <1>2 DEF ExistsBijection, Bijection, Injection
<1>4. PICK s : s = SetToSeq(S)
  OBVIOUS
<1>5. s \in [1 .. n -> S] /\ IsInjective(s)
  BY <1>1, <1>3, <1>4 DEF SetToSeq
<1>6. s \in Injection(1 .. n, S)
  BY <1>5 DEF Injection
<1>7. Cardinality(1 .. n) = n
  BY <1>2, FS_Interval
<1>8. s \in Surjection(1 .. n, S)
  BY <1>1, <1>6, <1>7, FS_Injection
<1>9. \A x \in S : \E y \in 1 .. n : s[y] = x
  BY <1>8 DEF Surjection
<1>10. Range(s) = S
  BY <1>5, <1>9 DEF Range
<1> QED
  BY <1>4, <1>10

\* Who comes is told of everybody, and of nothing else.
LEMMA Greeted ==
    ASSUME NEW M, IsFiniteSet(M), NEW w, w = SetToSeq({Note("add", m) : m \in M}), NEW V
    PROVE  /\ Adds(w) = M /\ Deletes(w) = {}
           /\ \A x \in Range(w) : x.type = "add" /\ x.from \in M /\ ~Bears(x) /\ Speaks(x, V)
<1>1. PICK t \in {"add", "delete"} : t = "add"
  OBVIOUS
<1>2. ASSUME NEW m
      PROVE  /\ Note("add", m).type = "add" /\ Note("add", m).from = m
             /\ ~Bears(Note("add", m)) /\ Speaks(Note("add", m), V)
  <2>1. LET n == Note(t, m) IN n.type = t /\ n.from = m /\ ~Bears(n) /\ Speaks(n, V)
    BY NoteIs
  <2> QED
    BY <1>1, <2>1
<1>3. PICK S : S = {Note("add", m) : m \in M}
  OBVIOUS
<1>4. IsFiniteSet(S)
  <2>1. [m \in M |-> Note("add", m)] \in Surjection(M, S)
    BY <1>3 DEF Surjection
  <2> QED
    BY <2>1, FS_Surjection
<1>5. Range(w) = S
  BY <1>3, <1>4, SetToSeqOfAll
<1>6. \A x \in S : x.type = "add" /\ x.from \in M /\ ~Bears(x) /\ Speaks(x, V)
  BY <1>2, <1>3
<1>7. \A m \in M : \E x \in S : x.type = "add" /\ x.from = m
  BY <1>2, <1>3
<1>8. Adds(w) = M
  BY <1>5, <1>6, <1>7 DEF Adds
<1>9. Deletes(w) = {}
  BY <1>5, <1>6 DEF Deletes
<1> QED
  BY <1>5, <1>6, <1>8, <1>9

\* A queue, and what it is with a note that somebody has come.
Noted(q, i, w) == q \in Seq(Range(q)) /\ w = Append(q, Note("add", i))

\* It is a note more, of whom it names.
LEMMA NewcomerNoted ==
    ASSUME NEW q, NEW i, NEW w, Noted(q, i, w), NEW V
    PROVE  /\ Adds(w) = Adds(q) \cup {i} /\ Deletes(w) = Deletes(q)
           /\ \A x \in Range(w) : x \in Range(q) \/ (x.from = i /\ ~Bears(x) /\ Speaks(x, V))
           /\ \A n \in DOMAIN w : w[n].type = "delete" => n \in DOMAIN q /\ q[n].type = "delete"
<1>1. PICK t \in {"add", "delete"} : t = "add"
  OBVIOUS
<1>2. PICK m : m = Note(t, i)
  OBVIOUS
<1>3. m.type = "add" /\ m.from = i /\ ~Bears(m) /\ Speaks(m, V)
  <2>1. LET n == Note(t, i) IN n.type = t /\ n.from = i /\ ~Bears(n) /\ Speaks(n, V)
    BY NoteIs
  <2> QED
    BY <1>1, <1>2, <2>1
<1>4. Longer(q, m, w)
  BY <1>1, <1>2 DEF Longer, Noted
<1>5. /\ Range(w) = Range(q) \cup {m}
      /\ Len(q) \in Nat /\ DOMAIN q = 1 .. Len(q)
      /\ DOMAIN w = 1 .. Len(q) + 1 /\ w[Len(q) + 1] = m
      /\ \A n \in 1 .. Len(q) : w[n] = q[n]
  <2>1. PICK z : z = w
    OBVIOUS
  <2>2. Longer(q, m, z)
    BY <1>4, <2>1
  <2>3. /\ Range(z) = Range(q) \cup {m}
        /\ Len(q) \in Nat /\ DOMAIN q = 1 .. Len(q)
        /\ DOMAIN z = 1 .. Len(q) + 1 /\ z[Len(q) + 1] = m
        /\ \A n \in 1 .. Len(q) : z[n] = q[n]
    BY <2>2, LastElement
  <2> QED
    BY <2>1, <2>3
<1>6. Adds(w) = Adds(q) \cup {i}
  BY <1>3, <1>5 DEF Adds
<1>7. Deletes(w) = Deletes(q)
  BY <1>3, <1>5 DEF Deletes
<1>8. ASSUME NEW n \in DOMAIN w, w[n].type = "delete" PROVE n \in DOMAIN q /\ q[n].type = "delete"
  <2>1. n # Len(q) + 1
    BY <1>3, <1>5, <1>8
  <2>2. n \in 1 .. Len(q)
    BY <1>5, <2>1
  <2> QED
    BY <1>5, <1>8, <2>2
<1> QED
  BY <1>3, <1>5, <1>6, <1>7, <1>8

\* A page joins, of whom nobody has told anything, nor anybody to it.
LEMMA ConnectAccord ==
    ASSUME Inv, Inv', Accord, NEW p \in Pages, Connect(p) PROVE Accord'
<1>1. PICK i \in IdsOf[p] \ used :
        /\ ~Here(p)
        /\ pg' = [pg EXCEPT ![p] =
                    SetRequire(NewController(pg[p], i),
                               KeepStatus(NewController(pg[p], i), requireE2ee)).g]
        /\ inbox' = [Announce("add", i, members) EXCEPT
                        ![p] = SetToSeq({Note("add", m) : m \in members})]
        /\ members' = members \cup {i}
        /\ used' = used \cup {i}
        /\ UNCHANGED <<runs, outbox>>
  BY DEF Connect
<1>2. PICK h : h = SetRequire(NewController(pg[p], i),
                              KeepStatus(NewController(pg[p], i), requireE2ee)).g
  OBVIOUS
<1>3. /\ h.id = i /\ h.users = {} /\ h.version = pg[p].version /\ NoTerms(h)
      /\ h.state \notin {"established", "failed"}
  BY <1>2, ConnectTerms
<1>4. PICK w : w = SetToSeq({Note("add", m) : m \in members})
  OBVIOUS
<1>5. /\ pg'[p] = h /\ \A q \in Pages \ {p} : pg'[q] = pg[q]
      /\ inbox'[p] = w /\ \A q \in Pages \ {p} : inbox'[q] = Announce("add", i, members)[q]
  BY <1>1, <1>2, <1>4 DEF Inv, Server, Announce
<1>6. i # None /\ i \notin used /\ members \subseteq used /\ IsFiniteSet(members)
  BY <1>1, E2EEAssumption DEF None, Inv, Server
<1>7. Here(p)' /\ \A q \in Pages \ {p} : Here(q)' <=> Here(q)
  BY <1>3, <1>5, <1>6 DEF Here
<1>8. Versions' = Versions
  <2>1. \A q \in Pages : pg'[q].version = pg[q].version
    BY <1>3, <1>5
  <2> QED
    BY <2>1 DEF Versions
<1>9. runs[p] = <<>> /\ outbox[p] = <<>> /\ Range(<<>>) = {}
  BY <1>1 DEF Inv, PageInv, Accord, Writes, Range
<1>10. /\ Adds(w) = members /\ Deletes(w) = {}
       /\ \A x \in Range(w) : x.type = "add" /\ x.from \in members /\ ~Bears(x) /\ Speaks(x, Versions)
  BY <1>4, <1>6, Greeted
<1>11. Spoken(p)' = {}
  <2> SUFFICES ASSUME NEW x \in Spoken(p)' PROVE FALSE
    OBVIOUS
  <2>1. x \in Told(h, runs[p], w, outbox)
    BY <1>1, <1>5 DEF Spoken
  <2>2. ~(x \in Held(h, runs[p]))
    BY <1>3, <1>9, HeldIs DEF NoTerms
  <2>3. ASSUME NEW y \in Pages, NEW z \in Range(outbox[y]) PROVE z.to # h.id
    BY <1>3, <1>6, <2>3 DEF Accord, Writes
  <2> QED
    BY <1>10, <2>1, <2>2, <2>3, ToldIs
<1>12. ASSUME NEW q \in Pages, q # p, Here(q)
       PROVE  /\ Adds(inbox'[q]) = Adds(inbox[q]) \cup {i} /\ Deletes(inbox'[q]) = Deletes(inbox[q])
              /\ \A x \in Range(inbox'[q]) :
                    x \in Range(inbox[q]) \/ (x.from = i /\ ~Bears(x) /\ Speaks(x, Versions))
              /\ \A n \in DOMAIN inbox'[q] : inbox'[q][n].type = "delete" =>
                    n \in DOMAIN inbox[q] /\ inbox[q][n].type = "delete"
  <2>1. pg[q].id \in members
    BY <1>12 DEF Accord, Knows
  <2>2. PICK in : in = inbox[q]
    OBVIOUS
  <2>3. PICK z : z = Append(in, Note("add", i))
    OBVIOUS
  <2>4. inbox'[q] = z
    BY <1>5, <1>12, <2>1, <2>2, <2>3 DEF Announce
  <2>5. Noted(in, i, z)
    BY <2>2, <2>3 DEF Noted, Inv, InMail
  <2>6. /\ Adds(z) = Adds(in) \cup {i} /\ Deletes(z) = Deletes(in)
        /\ \A x \in Range(z) : x \in Range(in) \/ (x.from = i /\ ~Bears(x) /\ Speaks(x, Versions))
        /\ \A n \in DOMAIN z : z[n].type = "delete" => n \in DOMAIN in /\ in[n].type = "delete"
    <3>1. PICK V : V = Versions
      OBVIOUS
    <3>2. Adds(z) = Adds(in) \cup {i} /\ Deletes(z) = Deletes(in)
      BY <2>5, NewcomerNoted
    <3>3. \A x \in Range(z) : x \in Range(in) \/ (x.from = i /\ ~Bears(x) /\ Speaks(x, V))
      BY <2>5, NewcomerNoted
    <3>4. \A n \in DOMAIN z : z[n].type = "delete" => n \in DOMAIN in /\ in[n].type = "delete"
      BY <2>5, NewcomerNoted
    <3> QED
      BY <3>1, <3>2, <3>3, <3>4
  <2> QED
    BY <2>2, <2>4, <2>6
<1>13. ASSUME NEW q \in Pages, q # p, Here(q) PROVE Spoken(q)' \subseteq Spoken(q)
  <2> SUFFICES ASSUME NEW x \in Spoken(q)' PROVE x \in Spoken(q)
    OBVIOUS
  <2>1. PICK in : in = inbox'[q]
    OBVIOUS
  <2>2. x \in Told(pg[q], runs[q], in, outbox)
    BY <1>1, <1>5, <1>13, <2>1 DEF Spoken
  <2>3. \A z \in Range(in) : Bears(z) => z \in Range(inbox[q])
    BY <1>12, <1>13, <2>1
  <2> QED
    BY <2>2, <2>3, ToldIs DEF Spoken
<1>14. Keeps(p)'
  <2>1. Tied(h, {})
    BY <1>3 DEF Tied, NoTerms
  <2>2. Single({}) /\ StartIsLast(h, <<>>)
    BY DEF Single, StartIsLast
  <2> QED
    BY <1>1, <1>3, <1>5, <1>9, <1>11, <2>1, <2>2 DEF Keeps
<1>15. Knows(p)'
  <2>1. \A n \in DOMAIN w : w[n].type # "delete"
    BY <1>10 DEF Range
  <2> QED
    <3>1. i \in members \cup {i} /\ {} \subseteq used \cup {i}
      OBVIOUS
    <3>2. i \notin {} \cup Adds(w) /\ (members \cup {i}) \ {i} \subseteq {} \cup Adds(w)
      BY <1>6, <1>10
    <3>3. \A m \in Range(w) : m.from \in used \cup {i} /\ Speaks(m, Versions)
      BY <1>6, <1>10
    <3>4. Deletes(w) \subseteq {} \ (members \cup {i})
      BY <1>10
    <3> QED
      BY <1>1, <1>3, <1>5, <1>8, <2>1, <3>1, <3>2, <3>3, <3>4 DEF Knows
<1>16. Writes(p)'
  BY <1>1, <1>9 DEF Writes
<1>17. ASSUME NEW q \in Pages, q # p PROVE Keeps(q)' /\ Knows(q)' /\ Writes(q)'
  <2>1. Keeps(q) /\ Knows(q) /\ Writes(q)
    BY DEF Accord
  <2>2. Keeps(q)'
    BY <1>1, <1>5, <1>8, <1>13, <1>17, <2>1, LessSaid
  <2>3. Knows(q)'
    <3> SUFFICES ASSUME Here(q) PROVE Knows(q)'
      BY <1>7, <1>17 DEF Knows
    <3>1. /\ Adds(inbox'[q]) = Adds(inbox[q]) \cup {i} /\ Deletes(inbox'[q]) = Deletes(inbox[q])
          /\ \A x \in Range(inbox'[q]) :
                x \in Range(inbox[q]) \/ (x.from = i /\ ~Bears(x) /\ Speaks(x, Versions))
          /\ \A n \in DOMAIN inbox'[q] : inbox'[q][n].type = "delete" =>
                n \in DOMAIN inbox[q] /\ inbox[q][n].type = "delete"
      BY <1>12, <1>17
    <3>2. /\ pg[q].id \in members /\ pg[q].users \subseteq used
          /\ pg[q].id \notin pg[q].users \cup Adds(inbox[q])
          /\ members \ {pg[q].id} \subseteq pg[q].users \cup Adds(inbox[q])
          /\ \A m \in Range(inbox[q]) : m.from \in used /\ Speaks(m, Versions)
          /\ \A n \in DOMAIN inbox[q] : inbox[q][n].type = "delete" => n = 1
          /\ Deletes(inbox[q]) \subseteq pg[q].users \ members
      BY <2>1 DEF Knows
    <3>3. pg[q].id # i
      BY <1>6, <3>2
    <3>4. /\ pg[q].id \notin pg[q].users \cup Adds(inbox'[q])
          /\ (members \cup {i}) \ {pg[q].id} \subseteq pg[q].users \cup Adds(inbox'[q])
      BY <3>1, <3>2, <3>3
    <3>5. Deletes(inbox'[q]) \subseteq pg[q].users \ (members \cup {i})
      BY <1>6, <3>1, <3>2
    <3>6. \A m \in Range(inbox'[q]) : m.from \in used \cup {i} /\ Speaks(m, Versions)
      BY <3>1, <3>2
    <3>7. \A n \in DOMAIN inbox'[q] : inbox'[q][n].type = "delete" => n = 1
      BY <3>1, <3>2
    <3>8. pg[q].id \in members \cup {i} /\ pg[q].users \subseteq used \cup {i}
      BY <3>2
    <3> QED
      BY <1>1, <1>5, <1>8, <1>17, <3>4, <3>5, <3>6, <3>7, <3>8 DEF Knows
  <2>4. Writes(q)'
    BY <1>1, <1>5, <1>7, <1>8, <1>17, <2>1 DEF Writes
  <2> QED
    BY <2>2, <2>3, <2>4
<1>18. ASSUME NEW x \in Pages, NEW y \in Pages PROVE Stands(x, y)'
  <2>1. CASE x = p
    BY <1>11, <2>1 DEF Stands
  <2>2. CASE x # p /\ y = p
    <3>1. ASSUME Here(x), NEW k PROVE <<i, k>> \notin Spoken(x)'
      BY <1>6, <1>13, <2>2, <3>1, SpokenOfUsed
    <3> QED
      BY <1>3, <1>5, <1>7, <2>2, <3>1 DEF Stands
  <2>3. CASE x # p /\ y # p
    <3>1. pg'[x] = pg[x] /\ pg'[y] = pg[y] /\ Stands(x, y)
      BY <1>5, <2>3 DEF Accord
    <3>2. Here(x) /\ Here(y) => /\ Spoken(x)' \subseteq Spoken(x)
                                /\ Deletes(inbox'[y]) \subseteq Deletes(inbox[y])
      BY <1>12, <1>13, <2>3
    <3> QED
      BY <3>1, <3>2, LessStands
  <2> QED
    BY <2>1, <2>2, <2>3
<1> QED
  BY <1>14, <1>15, <1>16, <1>17, <1>18 DEF Accord

\* Pages that have just been loaded are not in the room.
LEMMA InitAccord == Init => Accord
<1> SUFFICES ASSUME Init PROVE Accord
  OBVIOUS
<1>1. \A p \in Pages : ~Here(p)
  BY DEF Init, Loaded, Here
<1>2. \A p \in Pages : outbox[p] = <<>>
  BY DEF Init
<1>3. Range(<<>>) = {}
  BY DEF Range
<1> QED
  BY <1>1, <1>2, <1>3 DEF Accord, Keeps, Knows, Writes, Stands

\* Every step leaves the pages in accord.
LEMMA NextAccord == Inv /\ Inv' /\ Accord /\ ~Slow /\ [Next]_vars => Accord'
<1> SUFFICES ASSUME Inv, Inv', Accord, ~Slow, [Next]_vars PROVE Accord'
  OBVIOUS
<1>1. ASSUME NEW i \in Ids, Expire(i) PROVE Accord'
  BY <1>1, ExpireAccord
<1>2. ASSUME NEW p \in Pages, System(p) PROVE Accord'
  BY <1>2, RelayAccord, DeliverAccord, CompleteAccord DEF System
<1>3. ASSUME NEW p \in Pages, User(p) PROVE Accord'
  BY <1>3, ConnectAccord, DisconnectAccord, ChangedAccord, PublishAccord, AttachFailsAccord,
     UnpublishAccord, ContinueInClearAccord, ChatAccord DEF User
<1>4. CASE UNCHANGED vars
  <2>1. /\ pg' = pg /\ runs' = runs /\ inbox' = inbox /\ outbox' = outbox
        /\ members' = members /\ used' = used
    BY <1>4 DEF vars
  <2>2. \A q \in Pages : (Here(q)' <=> Here(q)) /\ Spoken(q)' = Spoken(q)
    BY <2>1 DEF Here, Spoken
  <2>3. Versions' = Versions
    BY <2>1 DEF Versions
  <2>4. \A q \in Pages : Keeps(q)' /\ Knows(q)' /\ Writes(q)'
    BY <2>1, <2>2, <2>3 DEF Accord, Keeps, Knows, Writes
  <2>5. \A x, y \in Pages : Stands(x, y)'
    BY <2>1, <2>2 DEF Accord, Stands
  <2> QED
    BY <2>4, <2>5 DEF Accord
<1> QED
  BY <1>1, <1>2, <1>3, <1>4 DEF Next

\* The two of a call have the same of the handshake: who is asked first here
\* is its initiator.
LEMMA SameTranscript ==
    ASSUME Inv, Accord, NEW p \in Pages, NEW q \in Pages, p # q,
           pg[p].state = "established", pg[q].state = "established",
           pg[p].peer = pg[q].id, pg[q].peer = pg[p].id, pg[p].id < pg[q].id
    PROVE  pg[p].secret = pg[q].secret
<1>1. Here(p) /\ Here(q)
  BY DEF Inv, PageInv, Absent
<1>2. /\ Whole(pg[p]) /\ pg[p].secret = Transcript(pg[p]) /\ Tied(pg[p], Spoken(p))
      /\ Whole(pg[q]) /\ pg[q].secret = Transcript(pg[q]) /\ Tied(pg[q], Spoken(q))
  BY <1>1 DEF Accord, Keeps, Tied
<1>3. pg[p].users = {pg[q].id} /\ pg[q].users = {pg[p].id}
  BY <1>1, Footing DEF Settled, Here
<1>4. pg[p].id \in Nat /\ pg[q].id \in Nat
  BY <1>1, Footing, Numbers DEF Controller
<1>5. Initiator(pg[p]) /\ ~Initiator(pg[q])
  BY <1>4 DEF Initiator
<1>6. \A k : <<pg[q].id, k>> \in Spoken(p) => k = pg[q].key
  BY <1>1, <1>3 DEF Accord, Stands
<1>7. \A k : <<pg[p].id, k>> \in Spoken(q) => k = pg[p].key
  BY <1>1, <1>3 DEF Accord, Stands
<1>8. pg[p].peerCommit = pg[q].key /\ pg[p].peerPub = pg[q].key /\ pg[q].peerPub = pg[p].key
  BY <1>2, <1>5, <1>6, <1>7 DEF Whole, Tied
<1> QED
  BY <1>2, <1>5, <1>8 DEF Transcript

\* Pages in accord share their secrets.
LEMMA AccordSecret == Inv /\ Accord => SameSecret
<1> SUFFICES ASSUME Inv, Accord, NEW p \in Pages, NEW q \in Pages,
                    pg[p].state = "established", pg[q].state = "established",
                    pg[p].peer = pg[q].id, pg[q].peer = pg[p].id
             PROVE  pg[p].secret = pg[q].secret
  BY DEF SameSecret
<1>1. CASE p = q
  BY <1>1
<1>2. CASE p # q
  <2>1. Here(p) /\ Here(q)
    BY DEF Inv, PageInv, Absent
  <2>2. pg[p].id \in Nat /\ pg[q].id \in Nat /\ pg[p].id # pg[q].id
    BY <1>2, <2>1, Footing, Numbers, TwoIds DEF Controller
  <2>3. CASE pg[p].id < pg[q].id
    BY <1>2, <2>3, SameTranscript
  <2>4. CASE pg[q].id < pg[p].id
    BY <1>2, <2>4, SameTranscript
  <2> QED
    BY <2>2, <2>3, <2>4
<1> QED
  BY <1>1, <1>2

\* ... and fail for their versions only.
LEMMA AccordAlarm == Inv /\ Accord => NoFalseAlarm
<1> SUFFICES ASSUME Inv, Accord, NEW p \in Pages, pg[p].state = "failed"
             PROVE  \E q \in Pages : pg[q].version # pg[p].version
  BY DEF NoFalseAlarm
<1>1. Here(p)
  BY DEF Inv, PageInv, Absent
<1>2. \E v \in Versions : v # pg[p].version
  BY <1>1 DEF Accord, Keeps
<1> QED
  BY <1>2 DEF Versions

\* Pages are in accord wherever no socket stalls while participants come and
\* go.
THEOREM InAccord ==
    ASSUME ~Slow PROVE Spec => []Accord
<1>1. Init => Accord
  BY InitAccord
<1>2. Inv /\ Inv' /\ Accord /\ [Next]_vars => Accord'
  BY NextAccord
<1> QED
  BY <1>1, <1>2, Invariance, PTL DEF Spec

\* Two pages that each show the padlock for the other hold the same secret,
\* however their handshakes overlap with departures and with each other.
THEOREM SecretShared ==
    ASSUME ~Slow PROVE Spec => []SameSecret
  BY AccordSecret, InAccord, Invariance, PTL

\* e2ee.js takes a second key for an interception and fails the handshake:
\* where pages are of one version, none fails.
THEOREM NeverFalseAlarm ==
    ASSUME ~Slow PROVE Spec => []NoFalseAlarm
  BY AccordAlarm, InAccord, Invariance, PTL

\* What a page shows of its encryption is so: the padlock and its emoji, which
\* the peer's page shows too, and the warning that a handshake has failed.
THEOREM ShownTrue ==
    ASSUME FailWhen = "required", ~Slow PROVE Spec => []ShownIsTrue
<1>1. TypeOK /\ SameSecret /\ PadlockIsTrue /\ NoFalseAlarm => ShownIsTrue
  BY DEF ShownIsTrue
<1>2. Spec => []PadlockIsTrue
  BY PadlockTrue
<1>3. Spec => []SameSecret
  BY SecretShared
<1>4. Spec => []NoFalseAlarm
  BY NeverFalseAlarm
<1> QED
  BY <1>1, <1>2, <1>3, <1>4, TypeCorrect, PTL
=============================================================================
