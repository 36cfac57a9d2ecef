----------------------------- MODULE MediaProofs -----------------------------
(***************************************************************************)
(* Proofs about Media, for any numbers of devices and bounds, when none of *)
(* the races is let happen: what is sent is what the others have been told *)
(* of (SentAsTold), nothing stays open that nothing uses (NothingLeftOpen) *)
(* and the picture a user sees of itself stays (PictureStays).             *)
(*                                                                         *)
(* All three rest on one invariant, MediaTrue.  Sound is about the call:   *)
(* the streams and their devices (PageTrue), what each run relies on, be   *)
(* it at the head of the queue (Current), behind it (Waiting) or beside it *)
(* (Beside), and who holds what is open (HeldTrue).  CheckTrue is the same *)
(* for the device check.  A handler is a chain of operators that map the   *)
(* page to the page it leaves; every operator has a lemma that says what   *)
(* it does to the streams in terms that can be chained (Later, Calm,       *)
(* Holding, Took ...), and every action follows from those of its chain.   *)
(***************************************************************************)
EXTENDS Media, FiniteSetTheorems, SequenceTheorems, TLAPS

-----------------------------------------------------------------------------
(* The page: its streams, and the devices they have.                       *)

Looks == {"none", "blur", "orientation"}
Cards == {"shown", "sent", "gone"}

Stream ==
    [label : {"camera", "screenshare"}, lid : Nat, conn : Nat, up : BOOLEAN, raw : SUBSET Tracks,
     def : Looks, filtered : BOOLEAN, ready : BOOLEAN, sent : SUBSET Tracks, idle : BOOLEAN]
PageRecord ==
    [conn : Nat, joined : BOOLEAN, restore : SUBSET {"mic", "cam"}, card : Cards,
     mute : BOOLEAN, filter : Looks, st : Seq(Stream), tiles : SUBSET Nat,
     tracks : SUBSET Tracks, open : SUBSET Tracks, enabled : SUBSET Tracks,
     ended : [Tracks -> Nat]]

Ups(h) == {i \in DOMAIN h.st : h.st[i].up}
CamUps(h) == {i \in Ups(h) : h.st[i].label = "camera"}

\* One device of a kind, at most.
OneEach(T) == \A t, u \in T : Kind(t) = Kind(u) => t = u
KindsIn(T, K) == \A t \in T : Kind(t) \in K

\* A stream has tracks that were opened for it, and is in the call.
StreamTrue(h, c) ==
    /\ c.raw \subseteq h.tracks /\ c.sent \subseteq c.raw
    /\ KindsIn(c.raw, IF c.label = "camera" THEN {"mic", "cam"} ELSE {"screen"})
    /\ c.up => c.conn = h.conn /\ h.joined /\ OneEach(c.raw)

Streams(h) == \A i \in DOMAIN h.st : StreamTrue(h, h.st[i])

\* A local id is that of one stream that is up, and of one label; one camera
\* is up.
Lids(h) ==
    /\ \A i \in DOMAIN h.st : h.st[i].lid \in 1..i
    /\ \A i, j \in DOMAIN h.st : h.st[i].lid = h.st[j].lid => h.st[i].label = h.st[j].label
    /\ \A i, j \in Ups(h) : h.st[i].lid = h.st[j].lid => i = j
    /\ \A i, j \in CamUps(h) : i = j

Tiles(h) == h.tiles \subseteq {h.st[i].lid : i \in Ups(h)}

\* The tracks are numbered.
Numbered(h) == h.open \subseteq h.tracks /\ h.enabled \subseteq h.tracks
               /\ \A t \in h.tracks : t[2] <= Cardinality(h.tracks)

Silent(h) == h.mute => \A i \in Ups(h) : Mics(h.st[i].sent) \cap h.open \cap h.enabled = {}

Tellers(h) == \A t \in Tracks : h.ended[t] \in 0..Len(h.st)

PageTrue(h) ==
    h \in PageRecord /\ Streams(h) /\ Lids(h) /\ Tiles(h) /\ Numbered(h) /\ Silent(h) /\ Tellers(h)

HeldBy(h) == UNION {h.st[i].raw : i \in Ups(h)}

-----------------------------------------------------------------------------
(* The runs.                                                               *)

Asked == [op : {"add", "mic"}, lid : Nat, kinds : SUBSET {"mic", "cam"}, keepVideo : BOOLEAN, unmute : BOOLEAN]

CameraLid(h, l) == \E i \in DOMAIN h.st : h.st[i].label = "camera" /\ h.st[i].lid = l

\* Devices are being opened for the camera that is up, which has let go of
\* all but what it keeps.
Adding(h, r) ==
    /\ DOMAIN r = {"op", "pc", "req", "lid", "conn", "keep", "tracks"} /\ r.op = "add" /\ r.pc = "opening"
    /\ r.req.op = "add" /\ r.lid = r.req.lid /\ r.conn \in Nat
    /\ r.keep \subseteq Cams(h.tracks) /\ OneEach(r.keep)
    /\ r.lid = None => r.keep = {}
    /\ r.lid # None => /\ CameraLid(h, r.lid)
                       /\ \A i \in CamUps(h) : h.st[i].lid = r.lid /\ h.st[i].raw \cap h.open \subseteq r.keep

\* They are open, and are to be published in its place.
Choosing(h, r) ==
    /\ DOMAIN r = {"op", "pc", "req", "lid", "conn", "keep", "tracks"} /\ r.op = "add" /\ r.pc = "choices"
    /\ r.lid \in Nat /\ h.joined
    /\ r.tracks \subseteq h.tracks /\ KindsIn(r.tracks, {"mic", "cam"}) /\ OneEach(r.tracks)
    /\ r.lid # None => CameraLid(h, r.lid)
    /\ \A i \in CamUps(h) : h.st[i].lid = r.lid /\ h.st[i].raw \cap h.open \subseteq r.tracks

AddingMic(h, r) ==
    /\ DOMAIN r = {"op", "pc", "req", "i"} /\ r.op = "mic" /\ r.pc = "opening"
    /\ r.i \in DOMAIN h.st /\ h.st[r.i].label = "camera"

SettingUp(h, r) ==
    DOMAIN r = {"op", "pc", "req", "i"} /\ r.op = "add" /\ r.pc = "setup" /\ r.i \in DOMAIN h.st

Running(h, r) ==
    r.req \in Asked /\ (Adding(h, r) \/ Choosing(h, r) \/ AddingMic(h, r) \/ SettingUp(h, r))

Current(h, c) == c = Idle \/ Running(h, c)

\* Only what is to be sent again after a reconnection waits.
Waiting(q) ==
    /\ q \in Seq(Asked)
    /\ \A k \in DOMAIN q : q[k].op = "add" /\ q[k].lid = None /\ q[k].kinds # {}

Sharing(r) == r = [op |-> "share", pc |-> "opening", i |-> None]
Replacing(h, r) == r.op = "replace" /\ r.pc = "setup" /\ r.i \in DOMAIN h.st
Lacking(h, r) == r.i \in DOMAIN h.st /\ r.lost \in Mics(h.tracks) /\ r.lost \notin h.open
Recovering(h, r) ==
    /\ r.op = "recover" /\ r.pc \in {"waiting", "opening"} /\ r.tries \in Nat /\ Lacking(h, r)
    /\ DOMAIN r = {"op", "pc", "i", "lost", "tries"}
Exchanging(h, r) ==
    /\ r.op = "recover" /\ r.pc = "swapping" /\ DOMAIN r = {"op", "pc", "i", "lost", "new"} /\ Lacking(h, r)
    /\ h.st[r.i].up /\ r.lost \in h.st[r.i].raw
    /\ r.new \in Mics(h.tracks) /\ (h.mute => r.new \notin h.enabled)

\* A microphone is brought back into a stream that is up only while nothing
\* else is under way, and by one run.
Beside(h, c, S) ==
    /\ \A r \in S : Sharing(r) \/ Replacing(h, r) \/ Recovering(h, r) \/ Exchanging(h, r)
    /\ \A r \in S : r.op = "share" => h.joined
    /\ \A r \in S : r.op = "recover" /\ h.st[r.i].up => c = Idle /\ \A q \in S : q.op # "replace"
    /\ \A r, q \in S : r.op = "recover" /\ q.op = "recover" /\ r.lost = q.lost => r = q

\* Who has what is open.
Carried(c) == IF c # Idle /\ c.op = "add" /\ c.pc = "choices" THEN c.tracks ELSE {}
Swaps(S) == {r.new : r \in {q \in S : q.pc = "swapping"}}
HeldTrue(h, c, S) == h.open \subseteq HeldBy(h) \cup Carried(c) \cup Swaps(S)

-----------------------------------------------------------------------------
(* The device check.                                                       *)

PreviewRun ==
    [kind : Toggles, gen : Nat, from : {"toggle", "picker"}, pc : {"opening", "listing"}, t : Nat]

Check ==
    [on : SUBSET Toggles, opening : SUBSET Toggles, gen : Nat, held : [Toggles -> Nat],
     live : SUBSET Nat, runs : SUBSET PreviewRun,
     told : SUBSET Nat, last : Nat, help : Toggles \cup {Anybody}, helpSoon : Toggles \cup {Anybody}]

\* A picker opens what is on, and a toggle what is about to be.
RunTrue(p, r) ==
    /\ r.gen <= p.gen
    /\ r.from = "picker" => r.gen = p.gen /\ r.kind \in p.on
    /\ r.from = "toggle" => r.kind \notin p.on /\ (r.gen = p.gen => r.kind \in p.opening)
    /\ r.gen = p.gen /\ r.pc = "opening" => p.held[r.kind] = Nothing
    /\ r.pc = "listing" => r.t \notin p.told /\ r.t <= p.last /\ (r.gen = p.gen => p.held[r.kind] = r.t)

\* Two runs are about two devices.
Apiece(p) ==
    \A r, q \in p.runs : r.kind = q.kind \/ (r.pc = "listing" /\ q.pc = "listing" /\ r.t = q.t) => r = q

HeldAtCheck(p) == Nothing \notin p.live /\ p.live \subseteq {p.held[k] : k \in p.on \cup p.opening}

CheckTrue(p) ==
    p \in Check /\ (\A r \in p.runs : RunTrue(p, r)) /\ Apiece(p) /\ HeldAtCheck(p)
    /\ \A t \in p.told : t <= p.last

\* A device that may stop, and its toggle go off.
Stoppable(p, k, on) ==
    /\ \A r \in p.runs : r.kind = k => r.gen # p.gen \/ r.pc = "opening"
    /\ on = p.on \/ (on = p.on \ {k} /\ \A r \in p.runs : r.kind = k => r.from # "picker")

\* A device has just opened.
JustOpened(p, r) ==
    MediaHelpResolved([p EXCEPT !.last = p.last + 1, !.live = @ \cup {p.last + 1}, !.runs = @ \ {r}], r.kind)

PreviewOff(p, k, on) == [StopPreview(p, k) EXCEPT !.on = on]

Sound(h, c, q, S) == PageTrue(h) /\ Current(h, c) /\ Waiting(q) /\ Beside(h, c, S) /\ HeldTrue(h, c, S)
MediaTrue == Sound(g, cur, queue, side) /\ CheckTrue(pre)

-----------------------------------------------------------------------------
(* What the page may become.                                               *)

\* Streams are never forgotten nor opened again, and a device that has ended
\* does not come back.
Later(h, k) ==
    /\ Len(h.st) <= Len(k.st)
    /\ \A i \in DOMAIN h.st : /\ k.st[i].label = h.st[i].label /\ k.st[i].lid = h.st[i].lid
                              /\ k.st[i].up => h.st[i].up
    /\ h.tracks \subseteq k.tracks /\ \A t \in h.tracks : t \in k.open => t \in h.open

\* No camera comes, and none gets a device.
Calm(h, k) ==
    \A i \in CamUps(k) : /\ i \in CamUps(h) /\ k.st[i].lid = h.st[i].lid
                         /\ k.st[i].raw \cap k.open \subseteq h.st[i].raw \cap h.open

\* Nothing comes at all.
Shrunk(h, k) ==
    /\ k.conn = h.conn /\ k.joined = h.joined /\ k.mute = h.mute /\ k.tracks = h.tracks
    /\ k.open \subseteq h.open /\ k.enabled \subseteq h.enabled /\ Len(k.st) = Len(h.st)
    /\ \A i \in DOMAIN h.st :
          /\ k.st[i].label = h.st[i].label /\ k.st[i].lid = h.st[i].lid /\ k.st[i].conn = h.st[i].conn
          /\ k.st[i].up => h.st[i].up
          /\ k.st[i].raw \subseteq h.st[i].raw /\ k.st[i].sent \subseteq h.st[i].sent \cap k.st[i].raw

\* The same stream, open or not.
Alike(c, d) ==
    c.label = d.label /\ c.lid = d.lid /\ c.conn = d.conn /\ c.raw = d.raw /\ c.sent = d.sent

\* The page with another stream in a place.
WithStream(h, i, c) == [h EXCEPT !.st = [@ EXCEPT ![i] = c]]

\* ... and nothing else has changed.
Placed(h, i, c, k) ==
    /\ k \in PageRecord
    /\ Len(k.st) = Len(h.st) /\ DOMAIN k.st = DOMAIN h.st
    /\ \A j \in DOMAIN h.st : k.st[j] = IF j = i THEN c ELSE h.st[j]
    /\ k.open = h.open /\ k.enabled = h.enabled /\ k.mute = h.mute /\ k.tracks = h.tracks
    /\ k.conn = h.conn /\ k.joined = h.joined /\ k.tiles = h.tiles /\ k.ended = h.ended

\* A stream with these tracks may take the place of those of its local id.
Fits(h, label, lid, T) ==
    /\ h.joined /\ lid \in Nat /\ T \subseteq h.tracks /\ OneEach(T)
    /\ \/ label = "camera" /\ KindsIn(T, {"mic", "cam"}) /\ \A i \in CamUps(h) : h.st[i].lid = lid
       \/ label = "screenshare" /\ KindsIn(T, {"screen"}) /\ lid = None
    /\ lid # None => CameraLid(h, lid)

\* The page once it has.
Came(h, k, label, lid, T) ==
    /\ PageTrue(k) /\ Later(h, k) /\ Len(k.st) = Len(h.st) + 1
    /\ \A i \in DOMAIN h.st : Alike(k.st[i], h.st[i])
    /\ Ups(k) = {i \in Ups(h) : h.st[i].lid # lid} \cup {Len(k.st)}
    /\ k.st[Len(k.st)].label = label /\ k.st[Len(k.st)].raw = T /\ k.st[Len(k.st)].sent = {}
    /\ k.st[Len(k.st)].lid = (IF lid = None THEN Len(k.st) ELSE lid)
    /\ k.open = h.open /\ k.enabled = h.enabled /\ k.mute = h.mute /\ k.tracks = h.tracks
    /\ k.conn = h.conn /\ k.joined = h.joined

\* The same streams, with the same devices.
Steady(h, k) ==
    /\ Len(k.st) = Len(h.st) /\ DOMAIN k.st = DOMAIN h.st
    /\ \A i \in DOMAIN h.st : /\ k.st[i].label = h.st[i].label /\ k.st[i].lid = h.st[i].lid
                              /\ k.st[i].up = h.st[i].up /\ k.st[i].raw = h.st[i].raw
    /\ k.open = h.open /\ k.mute = h.mute /\ k.tracks = h.tracks
    /\ k.conn = h.conn /\ k.joined = h.joined /\ k.enabled \subseteq h.enabled

\* What is open was open, and is held by a stream if it was.
Holding(h, k) == \A t \in k.open : t \in h.open /\ (t \in HeldBy(h) => t \in HeldBy(k))

\* Streams and devices go, and none comes.
Eases(h, k) ==
    /\ PageTrue(k) /\ Later(h, k) /\ Calm(h, k) /\ Holding(h, k)
    /\ k.tracks = h.tracks /\ k.joined = h.joined /\ k.conn = h.conn

\* A request that may be started: about the camera there is, or none.
Startable(h, r) ==
    /\ r \in Asked
    /\ \/ r.op = "add" /\ (r.lid # None => CameraLid(h, r.lid) /\ \A i \in CamUps(h) : h.st[i].lid = r.lid)
       \/ r.op = "mic" /\ r.lid \in CamUps(h)

\* A run, and the page it leaves.
Goes(h, k, c) ==
    /\ PageTrue(k) /\ Later(h, k) /\ k.joined = h.joined
    /\ Current(k, c) /\ k.open \subseteq HeldBy(k) \cup Carried(c)

\* What streams of a local id have open is among these tracks.
Yields(h, lid, T) == \A i \in Ups(h) : h.st[i].lid = lid => h.st[i].raw \cap h.open \subseteq T

\* A stream has come with these tracks, and has been set up.
Took(h, k, T) ==
    /\ Later(h, k) /\ Holding(h, k) /\ T \subseteq HeldBy(k)
    /\ k.joined = h.joined /\ k.open = h.open /\ k.tracks = h.tracks /\ k.mute = h.mute
    /\ k.enabled \subseteq h.enabled

\* ... and those that were up are as they were.
TookBeside(h, k, T) ==
    /\ PageTrue(k) /\ Took(h, k, T) /\ Calm(h, k)
    /\ \A i \in Ups(h) : k.st[i].up /\ k.st[i].raw = h.st[i].raw

\* A microphone has taken the place of the one that was lost.
Exchanged(h, k, r) ==
    /\ PageTrue(k) /\ Later(h, k) /\ Ups(k) = Ups(h) /\ CamUps(k) = CamUps(h)
    /\ k.open = h.open /\ k.mute = h.mute /\ k.tracks = h.tracks /\ k.conn = h.conn /\ k.joined = h.joined
    /\ k.enabled = h.enabled /\ DOMAIN k.st = DOMAIN h.st
    /\ \A j \in DOMAIN h.st : /\ k.st[j].label = h.st[j].label /\ k.st[j].lid = h.st[j].lid
                              /\ k.st[j].up = h.st[j].up
                              /\ k.st[j].raw = IF j = r.i THEN (h.st[j].raw \ {r.lost}) \cup {r.new} ELSE h.st[j].raw

\* The page, but for its connection, the card and what is to be sent again.
Apart(h, k) ==
    /\ k \in PageRecord /\ k.st = h.st /\ k.tiles = h.tiles /\ k.tracks = h.tracks /\ k.open = h.open
    /\ k.enabled = h.enabled /\ k.mute = h.mute /\ k.ended = h.ended

\* Nothing is under way that is about the call.
Alone(c, S) ==
    (c = Idle \/ c.pc # "choices") /\ \A q \in S : q.op # "share" /\ q.pc # "swapping"

\* The pictures that are live are still sent.
Seen(h, k) ==
    \A i \in Ups(h) : \A t \in Cams(h.st[i].raw) \cap h.open :
        t \in k.open /\ i \in Ups(k) /\ t \in Cams(k.st[i].raw)

-----------------------------------------------------------------------------
(* What is asked of the page and of its streams.                           *)

\* The streams of the page are numbered from 1.
LEMMA Typed ==
    ASSUME NEW h \in PageRecord
    PROVE  /\ Len(h.st) \in Nat /\ DOMAIN h.st = 1..Len(h.st) /\ None \notin DOMAIN h.st
           /\ \A i \in DOMAIN h.st : h.st[i] \in Stream
           /\ h.open \in SUBSET Tracks /\ h.enabled \in SUBSET Tracks /\ h.tracks \in SUBSET Tracks
           /\ Ups(h) \subseteq DOMAIN h.st /\ CamUps(h) \subseteq Ups(h)
<1>1. h.st \in Seq(Stream)
  BY DEF PageRecord
<1>2. Len(h.st) \in Nat /\ DOMAIN h.st = 1..Len(h.st) /\ \A i \in 1..Len(h.st) : h.st[i] \in Stream
  BY <1>1, LenProperties, ElementOfSeq
<1> QED
  BY <1>2 DEF PageRecord, Ups, CamUps, None

\* What shrinks stays true.
LEMMA ShrunkTrue ==
    ASSUME NEW h, PageTrue(h), NEW k \in PageRecord, Shrunk(h, k), Tiles(k), Tellers(k)
    PROVE  PageTrue(k) /\ Later(h, k) /\ Calm(h, k)
<1> USE DEF PageTrue
<1>1. DOMAIN k.st = DOMAIN h.st
  BY Typed DEF Shrunk
<1>2. Ups(k) \subseteq Ups(h) /\ CamUps(k) \subseteq CamUps(h)
  BY <1>1 DEF Ups, CamUps, Shrunk
<1>3. Streams(k)
  <2>1. SUFFICES ASSUME NEW i \in DOMAIN h.st PROVE StreamTrue(k, k.st[i])
    BY <1>1 DEF Streams
  <2>2. StreamTrue(h, h.st[i])
    BY DEF Streams
  <2>3. /\ k.conn = h.conn /\ k.joined = h.joined /\ k.tracks = h.tracks
        /\ k.st[i].label = h.st[i].label /\ k.st[i].conn = h.st[i].conn
        /\ k.st[i].up => h.st[i].up
        /\ k.st[i].raw \subseteq h.st[i].raw /\ k.st[i].sent \subseteq k.st[i].raw
    BY DEF Shrunk
  <2>4. k.st[i].raw \subseteq k.tracks
    BY <2>2, <2>3 DEF StreamTrue
  <2>5. KindsIn(k.st[i].raw, IF k.st[i].label = "camera" THEN {"mic", "cam"} ELSE {"screen"})
    BY <2>2, <2>3 DEF StreamTrue, KindsIn
  <2>6. k.st[i].up => k.st[i].conn = k.conn /\ k.joined /\ OneEach(k.st[i].raw)
    BY <2>2, <2>3 DEF StreamTrue, OneEach
  <2> QED
    BY <2>3, <2>4, <2>5, <2>6 DEF StreamTrue
<1>4. Lids(k)
  <2>1. \A i \in DOMAIN k.st : k.st[i].lid = h.st[i].lid /\ k.st[i].label = h.st[i].label
    BY <1>1 DEF Shrunk
  <2>2. \A i \in Ups(k) : i \in Ups(h) /\ i \in DOMAIN k.st
    BY <1>2 DEF Ups
  <2> QED
    BY <1>1, <1>2, <2>1, <2>2 DEF Lids
<1>5. Numbered(k)
  BY DEF Numbered, Shrunk
<1>6. Silent(k)
  <2>1. SUFFICES ASSUME k.mute, NEW i \in Ups(k), NEW t \in Mics(k.st[i].sent), t \in k.open, t \in k.enabled
                 PROVE  FALSE
    BY DEF Silent
  <2>2. i \in Ups(h) /\ t \in Mics(h.st[i].sent) /\ h.mute /\ t \in h.open /\ t \in h.enabled
    BY <1>1, <1>2, <2>1 DEF Shrunk, Mics, OfKind, Ups
  <2> QED
    BY <2>1, <2>2 DEF Silent
<1>7. Later(h, k)
  BY <1>1, Typed DEF Later, Shrunk
<1>8. Calm(h, k)
  BY <1>1, <1>2, Typed DEF Calm, Shrunk
<1> QED
  BY <1>3, <1>4, <1>5, <1>6, <1>7, <1>8

\* One after the other.
LEMMA LaterTransitive ==
    ASSUME NEW h \in PageRecord, NEW k \in PageRecord, NEW m \in PageRecord, Later(h, k), Later(k, m)
    PROVE  Later(h, m)
<1>1. Len(h.st) <= Len(k.st) /\ Len(k.st) <= Len(m.st) /\ DOMAIN h.st \subseteq DOMAIN k.st
  BY Typed DEF Later
<1> QED
  BY <1>1, Typed DEF Later

\* The same of cameras.
LEMMA CalmTransitive ==
    ASSUME NEW h, NEW k, NEW m, Calm(h, k), Calm(k, m)
    PROVE  Calm(h, m)
BY DEF Calm

\* Nothing has happened.
LEMMA LaterSame ==
    ASSUME NEW h \in PageRecord
    PROVE  Later(h, h) /\ Calm(h, h)
BY Typed DEF Later, Calm

-----------------------------------------------------------------------------
(* What stops and what closes.                                             *)

\* stopStream()
LEMMA Stops ==
    ASSUME NEW h, PageTrue(h), NEW T, NEW k, k = StopStream(h, T)
    PROVE  /\ PageTrue(k) /\ Later(h, k) /\ Calm(h, k)
           /\ k.st = h.st /\ k.open = h.open \ T /\ k.enabled = h.enabled /\ k.mute = h.mute
           /\ k.tracks = h.tracks /\ k.conn = h.conn /\ k.joined = h.joined
<1>1. h \in PageRecord
  BY DEF PageTrue
<1>2. /\ k.st = h.st /\ k.open = h.open \ T /\ k.enabled = h.enabled /\ k.mute = h.mute
      /\ k.tracks = h.tracks /\ k.conn = h.conn /\ k.joined = h.joined
      /\ k.tiles = h.tiles /\ k.ended = h.ended
  BY <1>1 DEF StopStream, PageRecord
<1>3. k \in PageRecord
  BY <1>1 DEF StopStream, PageRecord
<1>4. Shrunk(h, k)
  <2>1. \A i \in DOMAIN h.st : h.st[i].sent \subseteq h.st[i].raw
    BY DEF PageTrue, Streams, StreamTrue
  <2> QED
    BY <1>2, <2>1 DEF Shrunk
<1>5. Tiles(k) /\ Tellers(k)
  BY <1>2 DEF Tiles, Tellers, PageTrue, Ups
<1> QED
  BY <1>2, <1>3, <1>4, <1>5, ShrunkTrue

\* A stream, changed in one place.
LEMMA OneStream ==
    ASSUME NEW h, NEW i, NEW c, h \in PageRecord, i \in DOMAIN h.st, c \in Stream
    PROVE  Placed(h, i, c, WithStream(h, i, c))
<1> DEFINE k == WithStream(h, i, c)
<1>1. h.st \in Seq(Stream)
  BY DEF PageRecord
<1>2. i \in 1..Len(h.st)
  BY Typed
<1>3. k.st = [h.st EXCEPT ![i] = c]
  BY DEF PageRecord, WithStream
<1> HIDE DEF k
<1>4. k.st \in Seq(Stream) /\ Len(k.st) = Len(h.st) /\ \A j \in 1..Len(h.st) : k.st[j] = IF j = i THEN c ELSE h.st[j]
  BY <1>1, <1>2, <1>3, ExceptSeq
<1>5. DOMAIN k.st = DOMAIN h.st
  BY <1>1, <1>4, LenProperties
<1>6. k \in PageRecord
  BY <1>3, <1>4 DEF PageRecord, WithStream, k
<1>7. /\ k.open = h.open /\ k.enabled = h.enabled /\ k.mute = h.mute /\ k.tracks = h.tracks
      /\ k.conn = h.conn /\ k.joined = h.joined /\ k.tiles = h.tiles /\ k.ended = h.ended
  BY DEF PageRecord, WithStream, k
<1> QED
  BY <1>4, <1>5, <1>6, <1>7, Typed DEF Placed, k

\* removeFilter()
LEMMA Unfilters ==
    ASSUME NEW h, PageTrue(h), NEW i \in DOMAIN h.st, NEW k, k = RemoveFilter(h, i)
    PROVE  /\ PageTrue(k) /\ Later(h, k) /\ Calm(h, k)
           /\ Len(k.st) = Len(h.st) /\ DOMAIN k.st = DOMAIN h.st
           /\ \A j \in DOMAIN h.st : Alike(k.st[j], h.st[j]) /\ k.st[j].up = h.st[j].up
           /\ Ups(k) = Ups(h) /\ CamUps(k) = CamUps(h)
           /\ k.open = h.open /\ k.enabled = h.enabled /\ k.mute = h.mute
           /\ k.tracks = h.tracks /\ k.conn = h.conn /\ k.joined = h.joined
<1> DEFINE c == [h.st[i] EXCEPT !.filtered = FALSE]
<1>1. h \in PageRecord
  BY DEF PageTrue
<1>2. \A j \in DOMAIN h.st : h.st[j] \in Stream
  BY <1>1, Typed
<1>c. /\ c \in Stream /\ c.label = h.st[i].label /\ c.lid = h.st[i].lid /\ c.conn = h.st[i].conn
      /\ c.up = h.st[i].up /\ c.raw = h.st[i].raw /\ c.sent = h.st[i].sent
  <2>1. h.st[i] \in Stream
    BY <1>2
  <2> QED
    BY <2>1 DEF Stream
<1>3. k = WithStream(h, i, c)
  BY <1>1 DEF RemoveFilter, PageRecord, WithStream
<1> HIDE DEF c
<1>4. /\ k \in PageRecord
      /\ Len(k.st) = Len(h.st) /\ DOMAIN k.st = DOMAIN h.st
      /\ \A j \in DOMAIN h.st : k.st[j] = IF j = i THEN c ELSE h.st[j]
      /\ k.open = h.open /\ k.enabled = h.enabled /\ k.mute = h.mute /\ k.tracks = h.tracks
      /\ k.conn = h.conn /\ k.joined = h.joined /\ k.tiles = h.tiles /\ k.ended = h.ended
  BY <1>1, <1>c, <1>3, OneStream DEF Placed
<1>6. \A j \in DOMAIN h.st : Alike(k.st[j], h.st[j]) /\ k.st[j].up = h.st[j].up
  BY <1>c, <1>4 DEF Alike
<1>5. Ups(k) = Ups(h) /\ CamUps(k) = CamUps(h)
  BY <1>4, <1>6 DEF Ups, CamUps, Alike
<1>7. Shrunk(h, k)
  <2>1. \A j \in DOMAIN h.st : h.st[j].sent \subseteq h.st[j].raw
    BY DEF PageTrue, Streams, StreamTrue
  <2> QED
    BY <1>4, <1>6, <2>1 DEF Shrunk, Alike
<1>8. Tiles(k) /\ Tellers(k)
  <2>1. \A j \in Ups(h) : k.st[j].lid = h.st[j].lid
    BY <1>6 DEF Ups, Alike
  <2> QED
    BY <1>4, <1>5, <2>1 DEF Tiles, Tellers, PageTrue
<1> QED
  BY <1>4, <1>5, <1>6, <1>7, <1>8, ShrunkTrue

\* Stream.close
LEMMA ClosedIs ==
    ASSUME NEW c \in Stream
    PROVE  Closed(c) \in Stream /\ Alike(Closed(c), c) /\ ~Closed(c).up
BY DEF Closed, Stream, Alike

\* Streams that are closed are not up, and neither their devices nor their
\* tiles are left.
LEMMA Closes ==
    ASSUME NEW h, PageTrue(h), NEW S, S \subseteq DOMAIN h.st, NEW k, k = CloseStreams(h, S)
    PROVE  /\ PageTrue(k) /\ Later(h, k) /\ Calm(h, k)
           /\ Len(k.st) = Len(h.st) /\ DOMAIN k.st = DOMAIN h.st
           /\ \A j \in DOMAIN h.st : Alike(k.st[j], h.st[j])
           /\ k.open = h.open \ UNION {h.st[i].raw : i \in S}
           /\ k.enabled = h.enabled /\ k.mute = h.mute
           /\ k.tracks = h.tracks /\ k.conn = h.conn /\ k.joined = h.joined
           /\ Ups(k) = Ups(h) \ S
<1> DEFINE st == [i \in DOMAIN h.st |-> IF i \in S THEN Closed(h.st[i]) ELSE h.st[i]]
<1>1. h \in PageRecord
  BY DEF PageTrue
<1>2. \A j \in DOMAIN h.st : h.st[j] \in Stream
  BY <1>1, Typed
<1>3. \A j \in DOMAIN h.st : st[j] \in Stream
  BY <1>2, ClosedIs
<1>4. st \in Seq(Stream) /\ Len(st) = Len(h.st) /\ DOMAIN st = DOMAIN h.st
  <2>1. DOMAIN h.st = 1..Len(h.st) /\ Len(h.st) \in Nat
    BY <1>1, Typed
  <2>2. st \in [1..Len(h.st) -> Stream]
    BY <1>3, <2>1
  <2> HIDE DEF st
  <2>3. st \in Seq(Stream)
    BY <2>1, <2>2, SeqDef
  <2> QED
    BY <2>1, <2>2, <2>3, LenProperties
<1>5. /\ k.st = st /\ k.open = h.open \ UNION {h.st[i].raw : i \in S}
      /\ k.tiles = h.tiles \ {h.st[i].lid : i \in S} /\ k.ended = h.ended
      /\ k.enabled = h.enabled /\ k.mute = h.mute
      /\ k.tracks = h.tracks /\ k.conn = h.conn /\ k.joined = h.joined
  BY <1>1 DEF CloseStreams, PageRecord
<1>6. k \in PageRecord
  <2>1. k = [h EXCEPT !.st = st, !.open = h.open \ UNION {h.st[i].raw : i \in S},
                      !.tiles = h.tiles \ {h.st[i].lid : i \in S}]
    BY <1>1 DEF CloseStreams, PageRecord
  <2> HIDE DEF st
  <2> QED
    BY <1>1, <1>4, <2>1 DEF PageRecord
<1>8. ASSUME NEW j \in DOMAIN h.st
      PROVE  Alike(k.st[j], h.st[j]) /\ (k.st[j].up <=> h.st[j].up /\ j \notin S)
  <2>1. h.st[j] \in Stream
    BY <1>2
  <2>2. CASE j \in S
    <3>1. k.st[j] = Closed(h.st[j])
      BY <1>5, <2>2
    <3> QED
      BY <2>1, <2>2, <3>1, ClosedIs
  <2>3. CASE j \notin S
    <3>1. k.st[j] = h.st[j]
      BY <1>5, <2>3
    <3> QED
      BY <2>3, <3>1 DEF Alike
  <2> QED
    BY <2>2, <2>3
<1> HIDE DEF st
<1>9. Ups(k) = Ups(h) \ S
  BY <1>4, <1>5, <1>8 DEF Ups
<1>10. Shrunk(h, k)
  <2>1. \A j \in DOMAIN h.st : h.st[j].sent \subseteq h.st[j].raw
    BY DEF PageTrue, Streams, StreamTrue
  <2> QED
    BY <1>4, <1>5, <1>8, <2>1 DEF Shrunk, Alike
<1>11. Tiles(k) /\ Tellers(k)
  <2>1. \A i \in Ups(h) : i \in DOMAIN h.st
    BY DEF Ups
  <2>2. ASSUME NEW l \in k.tiles PROVE \E i \in Ups(k) : k.st[i].lid = l
    <3>1. PICK i \in Ups(h) : h.st[i].lid = l
      BY <1>5, <2>2 DEF PageTrue, Tiles
    <3>2. i \notin S
      BY <1>5, <2>2, <3>1
    <3> QED
      BY <1>8, <1>9, <2>1, <3>1, <3>2 DEF Alike
  <2> QED
    BY <1>4, <1>5, <2>2 DEF Tiles, Tellers, PageTrue
<1> QED
  BY <1>4, <1>5, <1>6, <1>8, <1>9, <1>10, <1>11, ShrunkTrue

-----------------------------------------------------------------------------
(* What is found.                                                          *)

\* Of one, the oldest.
LEMMA OldestOne ==
    ASSUME NEW S, S \subseteq Nat, \A i, j \in S : i = j
    PROVE  (S = {} /\ Oldest(S) = None) \/ (Oldest(S) \in S /\ S = {Oldest(S)})
<1>1. CASE S = {}
  BY <1>1 DEF Oldest
<1>2. CASE S # {}
  <2>1. PICK i \in S : TRUE
    BY <1>2
  <2>2. S = {i} /\ i \in Nat
    BY <2>1
  <2>3. Min(S) = CHOOSE x \in S : \A y \in S : x <= y
    BY DEF Min
  <2>4. Min(S) = i
    BY <2>2, <2>3
  <2> QED
    BY <1>2, <2>2, <2>4 DEF Oldest
<1> QED
  BY <1>1, <1>2

\* The streams of this connection are those that are up.
LEMMA MineUp ==
    ASSUME NEW h, PageTrue(h)
    PROVE  Mine(h) = Ups(h) /\ Ups(h) \subseteq Nat
<1>1. \A i \in Ups(h) : h.st[i].conn = h.conn
  BY DEF Ups, PageTrue, Streams, StreamTrue
<1>2. DOMAIN h.st = 1..Len(h.st) /\ Len(h.st) \in Nat
  BY Typed DEF PageTrue
<1> QED
  BY <1>1, <1>2 DEF Mine, Ups

\* The camera, if there is one.
LEMMA FindsCamera ==
    ASSUME NEW h, PageTrue(h), NEW i, i = FindUpMedia(h, "camera")
    PROVE  (i = None /\ CamUps(h) = {}) \/ (i \in CamUps(h) /\ CamUps(h) = {i} /\ i \in DOMAIN h.st /\ i # None)
<1>1. {j \in Mine(h) : h.st[j].label = "camera"} = CamUps(h)
  BY MineUp DEF CamUps
<1>2. CamUps(h) \subseteq Nat /\ \A j, m \in CamUps(h) : j = m
  BY MineUp DEF CamUps, PageTrue, Lids
<1>3. i = Oldest(CamUps(h))
  BY <1>1 DEF FindUpMedia
<1>4. CamUps(h) \subseteq DOMAIN h.st /\ None \notin DOMAIN h.st
  BY Typed DEF CamUps, Ups, PageTrue
<1> QED
  BY <1>2, <1>3, <1>4, OldestOne

\* The stream of a local id, if there is one; none has no id.
LEMMA FindsLocalId ==
    ASSUME NEW h, PageTrue(h), NEW lid, NEW i, i = FindByLocalId(h, lid)
    PROVE  /\ \/ i = None /\ \A j \in Ups(h) : h.st[j].lid # lid
              \/ i \in Ups(h) /\ i \in DOMAIN h.st /\ i # None /\ h.st[i].lid = lid
                 /\ \A j \in Ups(h) : h.st[j].lid = lid => j = i
           /\ lid = None => i = None
<1> DEFINE S == {j \in Ups(h) : h.st[j].lid = lid}
<1>1. i = Oldest(S)
  BY MineUp DEF FindByLocalId
<1>2. S \subseteq Nat /\ \A j, m \in S : j = m
  BY MineUp DEF PageTrue, Lids
<1>3. Ups(h) \subseteq DOMAIN h.st /\ None \notin DOMAIN h.st
  BY Typed DEF Ups, PageTrue
<1>4. (S = {} /\ i = None) \/ (i \in S /\ S = {i})
  BY <1>1, <1>2, OldestOne
<1>5. lid = None => S = {}
  <2>1. \A j \in Ups(h) : h.st[j].lid \in 1..j
    BY <1>3 DEF PageTrue, Lids
  <2> QED
    BY <2>1 DEF None
<1> QED
  BY <1>3, <1>4, <1>5

-----------------------------------------------------------------------------
(* A stream that takes the place of another.                               *)

\* Stream.close, of a stream that is replaced.
LEMMA MakesRoom ==
    ASSUME NEW h, PageTrue(h), NEW i \in Ups(h), NEW k, k = CloseStream(h, i, TRUE)
    PROVE  /\ k \in PageRecord /\ Len(k.st) = Len(h.st) /\ DOMAIN k.st = DOMAIN h.st
           /\ \A j \in DOMAIN h.st : Alike(k.st[j], h.st[j]) /\ (k.st[j].up <=> h.st[j].up /\ j # i)
           /\ k.open = h.open /\ k.enabled = h.enabled /\ k.mute = h.mute /\ k.tracks = h.tracks
           /\ k.conn = h.conn /\ k.joined = h.joined /\ k.tiles = h.tiles /\ k.ended = h.ended
<1> DEFINE c == Closed(h.st[i])
<1>1. h \in PageRecord /\ i \in DOMAIN h.st /\ i # None /\ h.st[i].up
  BY Typed DEF PageTrue, Ups
<1>2. h.st[i] \in Stream
  BY <1>1, Typed
<1>3. Alike(c, h.st[i]) /\ ~c.up
  BY <1>2, ClosedIs
<1>4. c \in Stream
  BY <1>2, ClosedIs
<1>5. k = WithStream(h, i, c)
  BY <1>1 DEF CloseStream, WithStream
<1> HIDE DEF c
<1>6. /\ k \in PageRecord
      /\ Len(k.st) = Len(h.st) /\ DOMAIN k.st = DOMAIN h.st
      /\ \A j \in DOMAIN h.st : k.st[j] = IF j = i THEN c ELSE h.st[j]
      /\ k.open = h.open /\ k.enabled = h.enabled /\ k.mute = h.mute /\ k.tracks = h.tracks
      /\ k.conn = h.conn /\ k.joined = h.joined /\ k.tiles = h.tiles /\ k.ended = h.ended
  <2>1. Placed(h, i, c, WithStream(h, i, c))
    BY <1>1, <1>4, OneStream
  <2>2. Placed(h, i, c, k)
    BY <1>5, <2>1
  <2> QED
    BY <2>2 DEF Placed
<1>7. ASSUME NEW j \in DOMAIN h.st
      PROVE  Alike(k.st[j], h.st[j]) /\ (k.st[j].up <=> h.st[j].up /\ j # i)
  <2>1. CASE j = i
    BY <1>3, <1>6, <2>1
  <2>2. CASE j # i
    <3>1. k.st[j] = h.st[j]
      BY <1>6, <2>2
    <3> QED
      BY <2>2, <3>1 DEF Alike
  <2> QED
    BY <2>1, <2>2
<1> QED
  BY <1>6, <1>7

\* newUpStream()
LEMMA Comes ==
    ASSUME NEW h, PageTrue(h), NEW label, NEW lid, NEW def \in Looks, NEW T, Fits(h, label, lid, T),
           NEW k, k = NewUpStream(h, label, lid, def, T)
    PROVE  Came(h, k, label, lid, T)
<1> DEFINE old == FindByLocalId(h, lid)
           m == CloseStream(h, old, TRUE)
           n == Len(h.st) + 1
           c == [label |-> label, lid |-> IF lid = None THEN n ELSE lid,
                 conn |-> h.conn, up |-> TRUE, raw |-> T, def |-> def,
                 filtered |-> FALSE, ready |-> FALSE, sent |-> {}, idle |-> FALSE]
<1>1. /\ h \in PageRecord /\ Len(h.st) \in Nat /\ DOMAIN h.st = 1..Len(h.st)
      /\ Ups(h) \subseteq DOMAIN h.st /\ \A i \in DOMAIN h.st : h.st[i] \in Stream
  BY Typed DEF PageTrue
<1>2. /\ m \in PageRecord /\ Len(m.st) = Len(h.st) /\ DOMAIN m.st = DOMAIN h.st
      /\ \A j \in DOMAIN h.st : /\ Alike(m.st[j], h.st[j])
                                /\ m.st[j].up <=> h.st[j].up /\ (lid = None \/ h.st[j].lid # lid)
      /\ m.open = h.open /\ m.enabled = h.enabled /\ m.mute = h.mute /\ m.tracks = h.tracks
      /\ m.conn = h.conn /\ m.joined = h.joined /\ m.tiles = h.tiles /\ m.ended = h.ended
  <2> HIDE DEF old
  <2>1. CASE old = None
    <3>1. m = h
      BY <2>1 DEF CloseStream
    <3>2. \A j \in Ups(h) : h.st[j].lid # lid
      BY <2>1, FindsLocalId, Typed DEF old, PageTrue
    <3>3. \A j \in DOMAIN h.st : h.st[j].up => h.st[j].lid # lid
      BY <3>2 DEF Ups
    <3> QED
      BY <1>1, <3>1, <3>3 DEF Alike
  <2>2. CASE old # None
    <3>1. old \in Ups(h) /\ h.st[old].lid = lid /\ lid # None /\ \A j \in Ups(h) : h.st[j].lid = lid => j = old
      BY <2>2, FindsLocalId DEF old
    <3>2. /\ m \in PageRecord /\ Len(m.st) = Len(h.st) /\ DOMAIN m.st = DOMAIN h.st
          /\ \A j \in DOMAIN h.st : Alike(m.st[j], h.st[j]) /\ (m.st[j].up <=> h.st[j].up /\ j # old)
          /\ m.open = h.open /\ m.enabled = h.enabled /\ m.mute = h.mute /\ m.tracks = h.tracks
          /\ m.conn = h.conn /\ m.joined = h.joined /\ m.tiles = h.tiles /\ m.ended = h.ended
      BY <3>1, MakesRoom
    <3>3. ASSUME NEW j \in DOMAIN h.st PROVE m.st[j].up <=> h.st[j].up /\ (lid = None \/ h.st[j].lid # lid)
      BY <3>1, <3>2 DEF Ups
    <3> QED
      BY <3>2, <3>3
  <2> QED
    BY <2>1, <2>2
<1>3. c \in Stream /\ c.up /\ c.label = label /\ c.raw = T /\ c.sent = {} /\ c.conn = h.conn
      /\ c.lid = (IF lid = None THEN n ELSE lid)
  <2>1. label \in {"camera", "screenshare"} /\ lid \in Nat /\ T \in SUBSET Tracks /\ h.conn \in Nat /\ n \in Nat
    BY <1>1, Typed DEF Fits, PageRecord
  <2> QED
    BY <2>1 DEF Stream
<1>4. k = [m EXCEPT !.st = Append(m.st, c)]
  BY DEF NewUpStream
<1> HIDE DEF old, m, c
<1>5. /\ Append(m.st, c) \in Seq(Stream) /\ Len(Append(m.st, c)) = n
      /\ \A i \in 1..Len(h.st) : Append(m.st, c)[i] = m.st[i]
      /\ Append(m.st, c)[n] = c
  <2>1. m.st \in Seq(Stream) /\ c \in Stream
    BY <1>2, <1>3 DEF PageRecord
  <2> QED
    BY <1>1, <1>2, <2>1, AppendProperties
<1> DEFINE a == Append(m.st, c)
<1> HIDE DEF a
<1>6. /\ k \in PageRecord /\ k.st = a
      /\ k.open = h.open /\ k.enabled = h.enabled /\ k.mute = h.mute /\ k.tracks = h.tracks
      /\ k.conn = h.conn /\ k.joined = h.joined /\ k.tiles = h.tiles /\ k.ended = h.ended
  BY <1>2, <1>4, <1>5 DEF PageRecord, a
<1>7. /\ Len(k.st) = n /\ n \in Nat /\ DOMAIN k.st = DOMAIN h.st \cup {n} /\ n \notin DOMAIN h.st
      /\ k.st[n] = c
      /\ \A i \in DOMAIN h.st : k.st[i] = m.st[i]
  <2>1. Len(k.st) = n /\ DOMAIN k.st = 1..n
    BY <1>5, <1>6, Typed DEF a
  <2> QED
    BY <1>1, <1>5, <1>6, <2>1 DEF a
<1> HIDE DEF n
<1>8. \A i \in DOMAIN h.st : /\ Alike(k.st[i], h.st[i])
                             /\ k.st[i].up <=> h.st[i].up /\ (lid = None \/ h.st[i].lid # lid)
  BY <1>2, <1>7
<1>9. \A i \in DOMAIN h.st : h.st[i].lid \in 1..i /\ h.st[i].lid # None /\ h.st[i].lid # n
  BY <1>1, <1>7 DEF PageTrue, Lids, None, n
<1>10. Ups(k) = {i \in Ups(h) : h.st[i].lid # lid} \cup {n}
  BY <1>3, <1>7, <1>8, <1>9 DEF Ups
<1>11. Later(h, k)
  <2>1. Len(h.st) <= n
    BY <1>1 DEF n
  <2> QED
    BY <1>6, <1>7, <1>8, <2>1 DEF Later, Alike
<1>12. PageTrue(k)
  <2>1. Streams(k)
    <3>1. SUFFICES ASSUME NEW i \in DOMAIN k.st PROVE StreamTrue(k, k.st[i])
      BY DEF Streams
    <3>2. CASE i = n
      BY <1>3, <1>6, <1>7, <3>2 DEF Fits, StreamTrue
    <3>3. CASE i \in DOMAIN h.st
      <4>1. StreamTrue(h, h.st[i]) /\ Alike(k.st[i], h.st[i]) /\ (k.st[i].up => h.st[i].up)
        BY <1>8, <3>3 DEF PageTrue, Streams
      <4> QED
        BY <1>6, <4>1 DEF StreamTrue, Alike
    <3> QED
      BY <1>7, <3>2, <3>3
  <2>2. Lids(k)
    <3>1. c.lid \in 1..n
      <4>1. CASE lid = None
        BY <1>1, <1>3, <4>1 DEF n
      <4>2. CASE lid # None
        <5>1. PICK j \in DOMAIN h.st : h.st[j].lid = lid
          BY <4>2 DEF Fits, CameraLid
        <5> QED
          BY <1>1, <1>3, <1>9, <4>2, <5>1 DEF n
      <4> QED
        BY <4>1, <4>2
    <3>2. \A i \in DOMAIN k.st : k.st[i].lid \in 1..i
      BY <1>7, <1>8, <1>9, <3>1 DEF Alike
    <3>3. \A i \in DOMAIN h.st : h.st[i].lid = c.lid => h.st[i].label = label
      <4>1. SUFFICES ASSUME NEW i \in DOMAIN h.st, h.st[i].lid = c.lid PROVE h.st[i].label = label
        OBVIOUS
      <4>2. lid # None /\ c.lid = lid
        BY <1>3, <1>9, <4>1
      <4>3. PICK j \in DOMAIN h.st : h.st[j].label = "camera" /\ h.st[j].lid = lid
        BY <4>2 DEF Fits, CameraLid
      <4> QED
        BY <4>1, <4>2, <4>3 DEF PageTrue, Lids, Fits
    <3>4. \A i, j \in DOMAIN k.st : k.st[i].lid = k.st[j].lid => k.st[i].label = k.st[j].label
      BY <1>3, <1>7, <1>8, <3>3 DEF Alike, PageTrue, Lids
    <3>5. \A i \in Ups(k) : i # n => i \in Ups(h) /\ i \in DOMAIN h.st /\ h.st[i].lid # c.lid
      BY <1>1, <1>3, <1>9, <1>10
    <3>6. \A i, j \in Ups(k) : k.st[i].lid = k.st[j].lid => i = j
      <4>1. SUFFICES ASSUME NEW i \in Ups(k), NEW j \in Ups(k), k.st[i].lid = k.st[j].lid PROVE i = j
        OBVIOUS
      <4>2. i # n => k.st[i].lid = h.st[i].lid /\ i \in Ups(h)
        BY <1>8, <3>5 DEF Alike
      <4>3. j # n => k.st[j].lid = h.st[j].lid /\ j \in Ups(h)
        BY <1>8, <3>5 DEF Alike
      <4> QED
        BY <1>7, <3>5, <4>1, <4>2, <4>3 DEF PageTrue, Lids
    <3>7. \A i, j \in CamUps(k) : i = j
      <4>1. SUFFICES ASSUME NEW i \in CamUps(k), NEW j \in CamUps(k) PROVE i = j
        OBVIOUS
      <4>2. ASSUME NEW e \in CamUps(k), e # n PROVE e \in CamUps(h) /\ label # "camera"
        <5>1. e \in Ups(h) /\ e \in DOMAIN h.st /\ h.st[e].lid # c.lid /\ h.st[e].label = "camera"
          BY <1>8, <3>5, <4>2 DEF CamUps, Alike
        <5>2. e \in CamUps(h)
          BY <5>1 DEF CamUps
        <5>3. label = "camera" => h.st[e].lid = lid
          BY <5>2 DEF Fits
        <5>4. h.st[e].lid # None
          BY <1>9, <5>1
        <5> QED
          BY <1>3, <5>1, <5>2, <5>3, <5>4
      <4>3. \A e \in CamUps(k) : k.st[e].label = "camera"
        BY DEF CamUps
      <4>4. CASE i = n \/ j = n
        <5>1. label = "camera"
          BY <1>3, <1>7, <4>3, <4>4
        <5> QED
          BY <4>2, <4>4, <5>1
      <4>5. CASE i # n /\ j # n
        BY <4>2, <4>5 DEF PageTrue, Lids
      <4> QED
        BY <4>4, <4>5
    <3> QED
      BY <3>2, <3>4, <3>6, <3>7 DEF Lids
  <2>3. Tiles(k)
    <3>1. SUFFICES ASSUME NEW l \in h.tiles PROVE \E i \in Ups(k) : k.st[i].lid = l
      BY <1>6 DEF Tiles
    <3>2. PICK i \in Ups(h) : h.st[i].lid = l
      BY DEF PageTrue, Tiles
    <3>3. CASE l = lid
      <4>1. lid # None
        BY <1>1, <1>9, <3>2, <3>3
      <4> QED
        BY <1>3, <1>7, <1>10, <3>3, <4>1
    <3>4. CASE l # lid
      BY <1>1, <1>8, <1>10, <3>2, <3>4 DEF Alike
    <3> QED
      BY <3>3, <3>4
  <2>4. Numbered(k)
    BY <1>6 DEF PageTrue, Numbered
  <2>5. Silent(k)
    <3>1. SUFFICES ASSUME h.mute, NEW i \in Ups(k) PROVE Mics(k.st[i].sent) \cap h.open \cap h.enabled = {}
      BY <1>6 DEF Silent
    <3>2. CASE i = n
      BY <1>3, <1>7, <3>2 DEF Mics, OfKind
    <3>3. CASE i # n
      <4>1. i \in Ups(h) /\ i \in DOMAIN h.st
        BY <1>1, <1>10, <3>3
      <4> QED
        BY <1>8, <3>1, <4>1 DEF Alike, PageTrue, Silent
    <3> QED
      BY <3>2, <3>3
  <2>6. Tellers(k)
    <3>1. \A t \in Tracks : h.ended[t] \in 0..Len(h.st)
      BY DEF PageTrue, Tellers
    <3>2. 0..Len(h.st) \subseteq 0..n
      BY <1>1 DEF n
    <3> QED
      BY <1>6, <1>7, <3>1, <3>2 DEF Tellers
  <2> QED
    BY <1>6, <2>1, <2>2, <2>3, <2>4, <2>5, <2>6 DEF PageTrue
<1>13. Len(k.st) = Len(h.st) + 1 /\ k.st[Len(k.st)] = c
  BY <1>7 DEF n
<1> QED
  BY <1>3, <1>6, <1>7, <1>8, <1>10, <1>11, <1>12, <1>13 DEF Came, n

-----------------------------------------------------------------------------
(* A stream is set up.                                                     *)

\* The same streams are the same for all that is asked of them.
LEMMA SteadyIs ==
    ASSUME NEW h, PageTrue(h), NEW k, Steady(h, k)
    PROVE  Later(h, k) /\ Calm(h, k) /\ Ups(k) = Ups(h) /\ CamUps(k) = CamUps(h) /\ HeldBy(k) = HeldBy(h)
<1>1. Ups(k) = Ups(h)
  BY DEF Steady, Ups
<1>2. CamUps(k) = CamUps(h)
  BY <1>1 DEF Steady, CamUps, Ups
<1>3. Ups(h) \subseteq DOMAIN h.st /\ CamUps(h) \subseteq DOMAIN h.st /\ Len(h.st) \in Nat
  BY Typed DEF Ups, CamUps, PageTrue
<1>4. HeldBy(k) = HeldBy(h)
  BY <1>1, <1>3 DEF HeldBy, Steady
<1>5. Later(h, k)
  BY <1>3 DEF Later, Steady
<1>6. Calm(h, k)
  BY <1>2, <1>3 DEF Calm, Steady
<1> QED
  BY <1>1, <1>2, <1>4, <1>5, <1>6

\* One after the other.
LEMMA SteadyTransitive ==
    ASSUME NEW h, NEW k, NEW m, Steady(h, k), Steady(k, m)
    PROVE  Steady(h, m)
BY DEF Steady

\* ... and they stay true, with fewer of them heard.
LEMMA SteadyTrue ==
    ASSUME NEW h, PageTrue(h), NEW k \in PageRecord, Steady(h, k), Tellers(k),
           k.tiles \subseteq h.tiles \cup {h.st[i].lid : i \in Ups(h)},
           \A i \in DOMAIN h.st : k.st[i].conn = h.st[i].conn /\ k.st[i].sent \subseteq k.st[i].raw,
           h.mute => \A i \in DOMAIN h.st : Mics(k.st[i].sent \ h.st[i].sent) \cap k.enabled = {}
    PROVE  PageTrue(k)
<1>1. Ups(k) = Ups(h) /\ CamUps(k) = CamUps(h)
  BY SteadyIs
<1>2. Ups(h) \subseteq DOMAIN h.st
  BY DEF Ups
<1>3. Streams(k)
  <2>1. SUFFICES ASSUME NEW i \in DOMAIN h.st PROVE StreamTrue(k, k.st[i])
    BY DEF Streams, Steady
  <2>2. StreamTrue(h, h.st[i])
    BY DEF Streams, PageTrue
  <2> QED
    BY <2>2 DEF StreamTrue, Steady
<1>4. Lids(k)
  BY <1>1, <1>2 DEF Lids, Steady, PageTrue, CamUps
<1>5. Tiles(k)
  <2>1. \A i \in Ups(h) : k.st[i].lid = h.st[i].lid
    BY <1>2 DEF Steady
  <2> QED
    BY <1>1, <2>1 DEF Tiles, PageTrue
<1>6. Numbered(k)
  BY DEF Numbered, Steady, PageTrue
<1>7. Silent(k)
  <2>1. SUFFICES ASSUME h.mute, NEW i \in Ups(h), NEW t \in Mics(k.st[i].sent), t \in h.open, t \in k.enabled
                 PROVE  FALSE
    BY <1>1 DEF Silent, Steady
  <2>2. CASE t \in h.st[i].sent
    <3>1. t \in Mics(h.st[i].sent) /\ t \in h.enabled
      BY <2>1, <2>2 DEF Mics, OfKind, Steady
    <3> QED
      BY <2>1, <3>1 DEF PageTrue, Silent
  <2>3. CASE t \notin h.st[i].sent
    <3>1. t \in Mics(k.st[i].sent \ h.st[i].sent)
      BY <2>1, <2>3 DEF Mics, OfKind
    <3> QED
      BY <1>2, <2>1, <3>1
  <2> QED
    BY <2>2, <2>3
<1> QED
  BY <1>3, <1>4, <1>5, <1>6, <1>7 DEF PageTrue

\* Who is told.
LEMMA Tells ==
    ASSUME NEW h, PageTrue(h), NEW T, NEW i \in 0..Len(h.st)
    PROVE  /\ Telling(h, T, i) \in [Tracks -> Nat]
           /\ \A t \in Tracks : Telling(h, T, i)[t] \in 0..Len(h.st)
<1>1. \A t \in Tracks : h.ended[t] \in 0..Len(h.st)
  BY DEF PageTrue, Tellers
<1>2. Len(h.st) \in Nat
  BY Typed DEF PageTrue
<1> QED
  BY <1>1, <1>2 DEF Telling

\* Filter.start
LEMMA FilterStarted ==
    ASSUME NEW h, PageTrue(h), NEW i \in DOMAIN h.st, NEW k, k = FilterStart(h, i)
    PROVE  PageTrue(k) /\ Steady(h, k) /\ k.st = h.st /\ k.enabled = h.enabled
<1>1. h \in PageRecord /\ None \in 0..Len(h.st)
  BY Typed DEF PageTrue, None
<1> DEFINE e == Telling(h, h.st[i].raw, None)
<1>2. e \in [Tracks -> Nat] /\ \A t \in Tracks : e[t] \in 0..Len(h.st)
  BY <1>1, Tells
<1>3. k = [h EXCEPT !.ended = e]
  BY DEF FilterStart
<1> HIDE DEF e
<1>4. /\ k \in PageRecord /\ k.ended = e /\ k.st = h.st /\ k.tiles = h.tiles
      /\ k.open = h.open /\ k.enabled = h.enabled /\ k.mute = h.mute /\ k.tracks = h.tracks
      /\ k.conn = h.conn /\ k.joined = h.joined
  BY <1>1, <1>2, <1>3 DEF PageRecord
<1>5. Steady(h, k)
  BY <1>4 DEF Steady
<1>6. Tellers(k)
  BY <1>2, <1>4 DEF Tellers
<1>7. \A j \in DOMAIN h.st : k.st[j].conn = h.st[j].conn /\ k.st[j].sent \subseteq k.st[j].raw /\ Mics(k.st[j].sent \ h.st[j].sent) = {}
  BY <1>4 DEF PageTrue, Streams, StreamTrue, Mics, OfKind
<1> QED
  BY <1>4, <1>5, <1>6, <1>7, SteadyTrue

\* setMedia(), once the filter is there or not needed.
LEMMA Ready ==
    ASSUME NEW h, PageTrue(h), NEW i \in DOMAIN h.st, NEW f \in BOOLEAN,
           NEW k, k = SetMedia([h EXCEPT !.st[i] = [@ EXCEPT !.filtered = f, !.ready = TRUE]], i)
    PROVE  /\ PageTrue(k) /\ Steady(h, k) /\ k.enabled = h.enabled
           /\ \A j \in DOMAIN h.st : k.st[j].conn = h.st[j].conn /\ k.st[j].sent = h.st[j].sent
<1> DEFINE c == [h.st[i] EXCEPT !.filtered = f, !.ready = TRUE]
           m == WithStream(h, i, c)
<1>1. h \in PageRecord /\ h.st[i] \in Stream
  BY Typed DEF PageTrue
<1>2. c \in Stream /\ Alike(c, h.st[i]) /\ c.up = h.st[i].up
  BY <1>1 DEF Stream, Alike
<1>3. k = SetMedia(m, i)
  BY <1>1 DEF WithStream, PageRecord
<1> HIDE DEF c, m
<1>4. Placed(h, i, c, m)
  BY <1>1, <1>2, OneStream DEF m
<1>5. \A j \in DOMAIN h.st : Alike(m.st[j], h.st[j]) /\ m.st[j].up = h.st[j].up
  BY <1>2, <1>4 DEF Placed, Alike
<1>6. /\ k \in PageRecord /\ k.st = m.st /\ k.ended = m.ended
      /\ k.tiles \subseteq h.tiles \cup (IF h.st[i].up THEN {h.st[i].lid} ELSE {})
      /\ k.open = m.open /\ k.enabled = m.enabled /\ k.mute = m.mute /\ k.tracks = m.tracks
      /\ k.conn = m.conn /\ k.joined = m.joined
  <2>1. m \in PageRecord /\ m.tiles = h.tiles /\ m.st[i].lid = h.st[i].lid /\ m.st[i].up = h.st[i].up
        /\ h.st[i].lid \in Nat
    BY <1>1, <1>4, <1>5 DEF Placed, Alike, Stream
  <2>2. CASE h.st[i].up
    <3>1. k = [m EXCEPT !.tiles = @ \cup {h.st[i].lid}]
      BY <1>3, <2>1, <2>2 DEF SetMedia
    <3> DEFINE more == m.tiles \cup {h.st[i].lid}
    <3>4. more \in SUBSET Nat
      BY <2>1 DEF PageRecord
    <3>5. k = [m EXCEPT !.tiles = more]
      BY <3>1
    <3> HIDE DEF more
    <3>2. k \in PageRecord
      BY <2>1, <3>4, <3>5 DEF PageRecord
    <3> USE DEF more
    <3>3. /\ k.st = m.st /\ k.ended = m.ended /\ k.tiles = m.tiles \cup {h.st[i].lid}
          /\ k.open = m.open /\ k.enabled = m.enabled /\ k.mute = m.mute /\ k.tracks = m.tracks
          /\ k.conn = m.conn /\ k.joined = m.joined
      BY <2>1, <3>1 DEF PageRecord
    <3> QED
      BY <2>1, <2>2, <3>2, <3>3
  <2>3. CASE ~h.st[i].up
    <3>1. k = m
      BY <1>3, <2>1, <2>3 DEF SetMedia
    <3> QED
      BY <2>1, <3>1
  <2> QED
    BY <2>2, <2>3
<1>7. Steady(h, k)
  <2>1. Len(k.st) = Len(h.st) /\ DOMAIN k.st = DOMAIN h.st
    BY <1>4, <1>6 DEF Placed
  <2>2. \A j \in DOMAIN h.st : /\ k.st[j].label = h.st[j].label /\ k.st[j].lid = h.st[j].lid
                               /\ k.st[j].up = h.st[j].up /\ k.st[j].raw = h.st[j].raw
    BY <1>5, <1>6 DEF Alike
  <2>3. /\ k.open = h.open /\ k.mute = h.mute /\ k.tracks = h.tracks
        /\ k.conn = h.conn /\ k.joined = h.joined /\ k.enabled \subseteq h.enabled
    BY <1>4, <1>6 DEF Placed
  <2> QED
    BY <2>1, <2>2, <2>3 DEF Steady
<1>8. Tellers(k)
  BY <1>4, <1>6 DEF Tellers, Placed, PageTrue
<1>9. \A j \in DOMAIN h.st : k.st[j].conn = h.st[j].conn /\ k.st[j].sent = h.st[j].sent /\ k.st[j].sent \subseteq k.st[j].raw
                             /\ Mics(k.st[j].sent \ h.st[j].sent) = {}
  BY <1>5, <1>6 DEF PageTrue, Streams, StreamTrue, Mics, OfKind, Alike
<1>10. k.tiles \subseteq h.tiles \cup {h.st[j].lid : j \in Ups(h)}
  BY <1>6 DEF Ups
<1>11. k.enabled = h.enabled
  BY <1>4, <1>6 DEF Placed
<1>12. k \in PageRecord
  BY <1>6
<1>13. PageTrue(k)
  BY <1>7, <1>8, <1>9, <1>10, <1>12, SteadyTrue
<1> QED
  BY <1>7, <1>9, <1>11, <1>13

\* addUpTrack()
LEMMA Adds ==
    ASSUME NEW h, PageTrue(h), NEW i \in DOMAIN h.st, NEW T, T \subseteq h.st[i].raw,
           NEW k, k = AddUpTracks(h, i, T)
    PROVE  PageTrue(k) /\ Steady(h, k)
<1> DEFINE c == [h.st[i] EXCEPT !.sent = @ \cup T]
           m == WithStream(h, i, c)
           e == Telling(h, T, i)
<1>1. h \in PageRecord /\ h.st[i] \in Stream /\ i \in 0..Len(h.st)
  BY Typed DEF PageTrue
<1>2. e \in [Tracks -> Nat] /\ \A t \in Tracks : e[t] \in 0..Len(h.st)
  BY <1>1, Tells
<1>3. c \in Stream /\ c.label = h.st[i].label /\ c.lid = h.st[i].lid /\ c.conn = h.st[i].conn
      /\ c.up = h.st[i].up /\ c.raw = h.st[i].raw /\ c.sent = h.st[i].sent \cup T
  BY <1>1 DEF Stream
<1>4. k = [m EXCEPT !.ended = e, !.enabled = IF h.mute THEN @ \ Mics(T) ELSE @]
  BY <1>1 DEF AddUpTracks, WithStream, PageRecord
<1> HIDE DEF c, m, e
<1>5. Placed(h, i, c, m)
  BY <1>1, <1>3, OneStream DEF m
<1>6. /\ k \in PageRecord /\ k.st = m.st /\ k.ended = e /\ k.tiles = m.tiles
      /\ k.enabled = (IF h.mute THEN h.enabled \ Mics(T) ELSE h.enabled)
      /\ k.open = m.open /\ k.mute = m.mute /\ k.tracks = m.tracks
      /\ k.conn = m.conn /\ k.joined = m.joined
  BY <1>2, <1>4, <1>5 DEF Placed, PageRecord
<1>7. \A j \in DOMAIN h.st : /\ k.st[j].label = h.st[j].label /\ k.st[j].lid = h.st[j].lid
                             /\ k.st[j].conn = h.st[j].conn /\ k.st[j].up = h.st[j].up
                             /\ k.st[j].raw = h.st[j].raw
                             /\ k.st[j].sent = IF j = i THEN h.st[j].sent \cup T ELSE h.st[j].sent
  BY <1>3, <1>5, <1>6 DEF Placed
<1>8. Steady(h, k)
  BY <1>5, <1>6, <1>7 DEF Steady, Placed
<1>9. Tellers(k)
  BY <1>2, <1>5, <1>6 DEF Tellers, Placed
<1>10. \A j \in DOMAIN h.st : k.st[j].sent \subseteq k.st[j].raw
  BY <1>7 DEF PageTrue, Streams, StreamTrue
<1>11. h.mute => \A j \in DOMAIN h.st : Mics(k.st[j].sent \ h.st[j].sent) \cap k.enabled = {}
  BY <1>6, <1>7 DEF Mics, OfKind
<1>12. k.tiles \subseteq h.tiles
  BY <1>5, <1>6 DEF Placed
<1> QED
  BY <1>6, <1>7, <1>8, <1>9, <1>10, <1>11, <1>12, SteadyTrue

\* The end of setUpStream().
LEMMA SetsUp ==
    ASSUME NEW h, PageTrue(h), NEW i \in DOMAIN h.st, NEW k, k = SetUp(h, i)
    PROVE  PageTrue(k) /\ Steady(h, k)
<1> DEFINE f == h.st[i].def # "none"
           told == IF f THEN h.st[i].raw \ Cams(h.st[i].raw) ELSE h.st[i].raw
           m == IF f THEN FilterStart(h, i) ELSE h
           q == SetMedia([m EXCEPT !.st[i] = [@ EXCEPT !.filtered = f, !.ready = TRUE]], i)
<1>1. k = AddUpTracks(q, i, told)
  BY DEF SetUp
<1>2. PageTrue(m) /\ Steady(h, m) /\ i \in DOMAIN m.st
  <2>1. PageTrue(FilterStart(h, i)) /\ Steady(h, FilterStart(h, i))
    BY FilterStarted
  <2>2. Steady(h, h)
    BY DEF Steady
  <2> QED
    BY <2>1, <2>2 DEF Steady
<1>3. f \in BOOLEAN /\ told \subseteq h.st[i].raw
  OBVIOUS
<1> HIDE DEF f, told, m
<1>4. PageTrue(q) /\ Steady(m, q)
  BY <1>2, <1>3, Ready
<1> HIDE DEF q
<1>5. Steady(h, q) /\ i \in DOMAIN q.st /\ told \subseteq q.st[i].raw
  BY <1>2, <1>3, <1>4, SteadyTransitive DEF Steady
<1>6. PageTrue(k) /\ Steady(q, k)
  BY <1>1, <1>4, <1>5, Adds
<1> QED
  BY <1>5, <1>6, SteadyTransitive

-----------------------------------------------------------------------------
(* Devices are opened, muted, added, exchanged and given up.               *)

\* What is said of the call, and the card, change; not while a stream is up
\* where the call does.
LEMMA Quiet ==
    ASSUME NEW h, PageTrue(h), NEW k \in PageRecord,
           k.st = h.st, k.tiles = h.tiles, k.tracks = h.tracks, k.open = h.open,
           k.enabled = h.enabled, k.mute = h.mute, k.ended = h.ended,
           Ups(h) = {} \/ (k.conn = h.conn /\ k.joined = h.joined)
    PROVE  PageTrue(k) /\ Later(h, k) /\ Calm(h, k) /\ Ups(k) = Ups(h) /\ CamUps(k) = CamUps(h) /\ HeldBy(k) = HeldBy(h)
<1>1. Ups(k) = Ups(h) /\ CamUps(k) = CamUps(h) /\ HeldBy(k) = HeldBy(h)
  BY DEF Ups, CamUps, HeldBy
<1>2. Later(h, k) /\ Calm(h, k)
  <2>1. Len(h.st) \in Nat
    BY Typed DEF PageTrue
  <2> QED
    BY <1>1, <2>1 DEF Later, Calm
<1>3. Streams(k)
  <2>1. SUFFICES ASSUME NEW i \in DOMAIN h.st PROVE StreamTrue(k, h.st[i])
    BY DEF Streams
  <2>2. StreamTrue(h, h.st[i])
    BY DEF PageTrue, Streams
  <2>3. h.st[i].up => k.conn = h.conn /\ k.joined = h.joined
    BY DEF Ups
  <2> QED
    BY <2>2, <2>3 DEF StreamTrue
<1>4. Lids(k) /\ Tiles(k) /\ Numbered(k) /\ Silent(k) /\ Tellers(k)
  BY <1>1 DEF PageTrue, Lids, Tiles, Numbered, Silent, Tellers
<1> QED
  BY <1>1, <1>2, <1>3, <1>4 DEF PageTrue

\* setLocalMute()
LEMMA Mutes ==
    ASSUME NEW h, PageTrue(h), NEW m \in BOOLEAN, NEW k, k = SetLocalMute(h, m)
    PROVE  /\ PageTrue(k) /\ Later(h, k) /\ Calm(h, k) /\ Ups(k) = Ups(h) /\ CamUps(k) = CamUps(h) /\ HeldBy(k) = HeldBy(h)
           /\ k.st = h.st /\ k.open = h.open /\ k.tracks = h.tracks /\ k.conn = h.conn /\ k.joined = h.joined
           /\ k.mute = m /\ m => k.enabled \subseteq h.enabled
<1> DEFINE mics == UNION {Mics(h.st[i].raw) : i \in {j \in Mine(h) : h.st[j].label = "camera"}}
           e == IF m THEN h.enabled \ mics ELSE h.enabled \cup mics
<1>1. h \in PageRecord /\ \A i \in CamUps(h) : h.st[i].raw \subseteq h.tracks /\ i \in DOMAIN h.st
  BY Typed DEF PageTrue, Streams, StreamTrue
<1>2. mics = UNION {Mics(h.st[i].raw) : i \in CamUps(h)}
  BY MineUp DEF CamUps
<1>3. mics \subseteq h.tracks
  BY <1>1, <1>2 DEF Mics, OfKind
<1>4. e \in SUBSET Tracks /\ e \subseteq h.tracks
  BY <1>1, <1>3 DEF PageTrue, Numbered, PageRecord
<1>5. k = [h EXCEPT !.mute = m, !.enabled = e]
  BY <1>1 DEF SetLocalMute, PageRecord
<1>6. m => e \cap mics = {} /\ e \subseteq h.enabled
  OBVIOUS
<1> HIDE DEF e, mics
<1>7. /\ k \in PageRecord /\ k.st = h.st /\ k.tiles = h.tiles /\ k.tracks = h.tracks /\ k.open = h.open
      /\ k.enabled = e /\ k.mute = m /\ k.ended = h.ended /\ k.conn = h.conn /\ k.joined = h.joined
  BY <1>1, <1>4, <1>5 DEF PageRecord
<1>8. Ups(k) = Ups(h) /\ CamUps(k) = CamUps(h) /\ HeldBy(k) = HeldBy(h)
  BY <1>7 DEF Ups, CamUps, HeldBy
<1>9. Later(h, k) /\ Calm(h, k)
  <2>1. Len(h.st) \in Nat
    BY <1>1, Typed
  <2> QED
    BY <1>7, <1>8, <2>1 DEF Later, Calm
<1>10. Streams(k) /\ Lids(k) /\ Tiles(k) /\ Numbered(k) /\ Tellers(k)
  BY <1>4, <1>7, <1>8 DEF PageTrue, Streams, StreamTrue, Lids, Tiles, Numbered, Tellers
<1>11. Silent(k)
  <2>1. SUFFICES ASSUME m, NEW i \in Ups(h), NEW t \in Mics(h.st[i].sent), t \in e PROVE FALSE
    BY <1>7, <1>8 DEF Silent
  <2>2. i \in DOMAIN h.st /\ StreamTrue(h, h.st[i]) /\ t \in h.st[i].raw /\ Kind(t) = "mic"
    BY <2>1 DEF Ups, PageTrue, Streams, StreamTrue, Mics, OfKind
  <2>3. h.st[i].label = "camera"
    BY <2>2 DEF StreamTrue, KindsIn
  <2>4. i \in CamUps(h)
    BY <2>3 DEF CamUps
  <2>5. t \in mics
    BY <1>2, <2>2, <2>4 DEF Mics, OfKind
  <2> QED
    BY <1>6, <2>1, <2>5
<1> QED
  BY <1>6, <1>7, <1>8, <1>9, <1>10, <1>11 DEF PageTrue

\* Tracks are opened: they are new ones.
Opens(h, kinds, T, k) ==
    /\ PageTrue(k) /\ Later(h, k) /\ Calm(h, k) /\ Ups(k) = Ups(h) /\ CamUps(k) = CamUps(h) /\ HeldBy(k) = HeldBy(h)
    /\ k.st = h.st /\ k.conn = h.conn /\ k.joined = h.joined /\ k.mute = h.mute /\ k.ended = h.ended
    /\ k.tracks = h.tracks \cup T /\ k.open = h.open \cup T /\ k.enabled = h.enabled \cup T
    /\ T \cap h.tracks = {} /\ OneEach(T) /\ KindsIn(T, kinds) /\ T \subseteq k.tracks
    /\ \A kind \in kinds : \E t \in T : Kind(t) = kind

\* There are finitely many tracks, of three kinds.
LEMMA Finite == IsFiniteSet(Tracks) /\ IsFiniteSet({"mic", "cam", "screen"})
<1>1. IsFiniteSet(1..MaxOpens)
  BY MediaAssumption, FS_Interval
<1>2. IsFiniteSet({}) /\ IsFiniteSet({} \cup {"mic"}) /\ IsFiniteSet({} \cup {"mic"} \cup {"cam"})
      /\ IsFiniteSet({} \cup {"mic"} \cup {"cam"} \cup {"screen"})
  BY FS_EmptySet, FS_AddElement
<1>3. {"mic", "cam", "screen"} = {} \cup {"mic"} \cup {"cam"} \cup {"screen"}
  OBVIOUS
<1>4. IsFiniteSet({"mic", "cam", "screen"})
  BY <1>2, <1>3
<1> QED
  BY <1>1, <1>4, FS_Product DEF Tracks

\* getUserMedia() and getDisplayMedia(), when they give what is asked for.
LEMMA Opening ==
    ASSUME NEW h, PageTrue(h), NEW kinds, kinds \subseteq {"mic", "cam", "screen"}, kinds # {},
           Opened(h) + Cardinality(kinds) <= MaxOpens, NEW k, k = Open(h, kinds)
    PROVE  Opens(h, kinds, Fresh(h, k), k)
<1> DEFINE n == Opened(h) + 1
           T == {NewTrack(h, kind) : kind \in kinds}
<1>1. h \in PageRecord /\ h.tracks \in SUBSET Tracks /\ MaxOpens \in Nat
  BY MediaAssumption, Typed DEF PageTrue
<1>2. IsFiniteSet(h.tracks) /\ Opened(h) \in Nat /\ Opened(h) = Cardinality(h.tracks)
  <2>4. IsFiniteSet(h.tracks)
    BY <1>1, Finite, FS_Subset
  <2> QED
    BY <2>4, FS_CardinalityType DEF Opened
<1>3. n \in 1..MaxOpens
  <2>1. IsFiniteSet(kinds) /\ Cardinality(kinds) \in Nat /\ Cardinality(kinds) # 0
    <3>3. IsFiniteSet(kinds)
      BY Finite, FS_Subset
    <3> QED
      BY <3>3, FS_EmptySet, FS_CardinalityType
  <2> QED
    BY <1>1, <1>2, <2>1
<1>4. \A kind \in kinds : NewTrack(h, kind) = <<kind, n>> /\ <<kind, n>> \in Tracks
  BY <1>3 DEF NewTrack, Tracks
<1>5. T \subseteq Tracks /\ \A t \in T : Kind(t) \in kinds /\ t = <<Kind(t), n>> /\ t[2] = n
  <2>1. SUFFICES ASSUME NEW kind \in kinds, NEW t, t = <<kind, n>>
                 PROVE  Kind(t) = kind /\ t[2] = n
    BY <1>4
  <2> QED
    BY <2>1 DEF Kind
<1>6. \A kind \in kinds : \E t \in T : Kind(t) = kind
  <2>1. SUFFICES ASSUME NEW kind \in kinds PROVE \E t \in T : Kind(t) = kind
    OBVIOUS
  <2>2. NewTrack(h, kind) \in T /\ Kind(<<kind, n>>) = kind
    BY DEF Kind
  <2> QED
    BY <1>4, <2>2
<1>7. T \cap h.tracks = {}
  <2>1. \A t \in h.tracks : t[2] <= Opened(h)
    BY <1>2 DEF PageTrue, Numbered
  <2>2. \A t \in h.tracks : t[2] # n
    BY <1>2, <2>1
  <2> QED
    BY <1>5, <2>2
<1>8. k = [h EXCEPT !.tracks = @ \cup T, !.open = @ \cup T, !.enabled = @ \cup T]
  BY DEF Open
<1> HIDE DEF T, n
<1>9. /\ k \in PageRecord /\ k.st = h.st /\ k.tiles = h.tiles /\ k.mute = h.mute
      /\ k.ended = h.ended /\ k.conn = h.conn /\ k.joined = h.joined
      /\ k.tracks = h.tracks \cup T /\ k.open = h.open \cup T /\ k.enabled = h.enabled \cup T
  <2> DEFINE a == h.tracks \cup T
             b == h.open \cup T
             c == h.enabled \cup T
  <2>1. a \in SUBSET Tracks /\ b \in SUBSET Tracks /\ c \in SUBSET Tracks
    BY <1>1, <1>5, Typed
  <2>2. k = [h EXCEPT !.tracks = a, !.open = b, !.enabled = c]
    BY <1>1, <1>8 DEF PageRecord
  <2> HIDE DEF a, b, c
  <2>3. /\ k \in PageRecord /\ k.st = h.st /\ k.tiles = h.tiles /\ k.mute = h.mute
        /\ k.ended = h.ended /\ k.conn = h.conn /\ k.joined = h.joined
        /\ k.tracks = a /\ k.open = b /\ k.enabled = c
    BY <1>1, <2>1, <2>2 DEF PageRecord
  <2> QED
    BY <2>3 DEF a, b, c
<1>10. T = Fresh(h, k)
  BY <1>7, <1>9 DEF Fresh
<1>11. OneEach(T) /\ KindsIn(T, kinds)
  BY <1>5 DEF OneEach, KindsIn
<1>12. Ups(k) = Ups(h) /\ CamUps(k) = CamUps(h) /\ HeldBy(k) = HeldBy(h)
  BY <1>9 DEF Ups, CamUps, HeldBy
<1>13. \A i \in DOMAIN h.st : StreamTrue(h, h.st[i]) /\ h.st[i].raw \cap T = {} /\ h.st[i].sent \cap T = {}
  BY <1>7 DEF PageTrue, Streams, StreamTrue
<1>14. Later(h, k) /\ Calm(h, k)
  <2>1. Len(h.st) \in Nat /\ CamUps(h) \subseteq DOMAIN h.st
    BY <1>1, Typed DEF CamUps, Ups
  <2>2. Later(h, k)
    BY <1>7, <1>9, <2>1 DEF Later
  <2>3. Calm(h, k)
    BY <1>9, <1>12, <1>13, <2>1 DEF Calm
  <2> QED
    BY <2>2, <2>3
<1>15. Streams(k)
  BY <1>9, <1>13 DEF Streams, StreamTrue
<1>16. Lids(k) /\ Tiles(k) /\ Tellers(k)
  BY <1>9, <1>12 DEF PageTrue, Lids, Tiles, Tellers
<1>17. Silent(k)
  <2>1. SUFFICES ASSUME h.mute, NEW i \in Ups(h) PROVE Mics(h.st[i].sent) \cap k.open \cap k.enabled = {}
    BY <1>9, <1>12 DEF Silent
  <2>2. Mics(h.st[i].sent) \cap h.open \cap h.enabled = {} /\ h.st[i].sent \cap T = {}
    BY <1>13, <2>1 DEF PageTrue, Silent, Ups
  <2> QED
    BY <1>9, <2>2 DEF Mics, OfKind
<1>18. Numbered(k)
  <2>1. PICK kind \in kinds : TRUE
    OBVIOUS
  <2>2. PICK t \in T : TRUE
    BY <1>6, <2>1
  <2>3. IsFiniteSet(h.tracks \cup {t}) /\ Cardinality(h.tracks \cup {t}) = Opened(h) + 1
    BY <1>2, <1>7, <2>2, FS_AddElement
  <2>4. IsFiniteSet(h.tracks \cup T)
    <3>4. h.tracks \cup T \in SUBSET Tracks
      BY <1>1, <1>5
    <3> QED
      BY <3>4, Finite, FS_Subset
  <2>5. h.tracks \cup {t} \in SUBSET (h.tracks \cup T)
    BY <2>2
  <2>6. Cardinality(h.tracks \cup {t}) <= Cardinality(h.tracks \cup T) /\ Cardinality(h.tracks \cup T) \in Nat
    BY <2>4, <2>5, FS_Subset, FS_CardinalityType
  <2>7. Cardinality(k.tracks) \in Nat /\ n <= Cardinality(k.tracks) /\ n \in Nat
    BY <1>2, <1>9, <2>3, <2>6 DEF n
  <2>8. \A u \in h.tracks : u[2] \in Nat /\ u[2] <= Opened(h)
    BY <1>1, <1>2 DEF PageTrue, Numbered, Tracks
  <2>9. \A u \in k.tracks : u[2] <= Cardinality(k.tracks)
    <3>1. SUFFICES ASSUME NEW u \in k.tracks PROVE u[2] <= Cardinality(k.tracks)
      OBVIOUS
    <3>2. CASE u \in h.tracks
      BY <1>2, <2>7, <2>8, <3>2 DEF n
    <3>3. CASE u \in T
      BY <1>5, <2>7, <3>3
    <3> QED
      BY <1>9, <3>2, <3>3
  <2>10. k.open \subseteq k.tracks /\ k.enabled \subseteq k.tracks
    BY <1>9 DEF PageTrue, Numbered
  <2> QED
    BY <2>9, <2>10 DEF Numbered
<1> QED
  BY <1>6, <1>7, <1>9, <1>10, <1>11, <1>12, <1>14, <1>15, <1>16, <1>17, <1>18 DEF Opens, PageTrue

\* A stream gets other tracks.
LEMMA Refitted ==
    ASSUME NEW h, PageTrue(h), NEW i \in DOMAIN h.st, NEW c \in Stream,
           c.label = h.st[i].label, c.lid = h.st[i].lid, c.conn = h.st[i].conn, c.up = h.st[i].up,
           StreamTrue(h, c), h.mute => Mics(c.sent) \cap h.open \cap h.enabled = {},
           NEW k, k = WithStream(h, i, c)
    PROVE  /\ PageTrue(k) /\ Later(h, k) /\ Ups(k) = Ups(h) /\ CamUps(k) = CamUps(h) /\ Placed(h, i, c, k)
           /\ \A j \in DOMAIN h.st : k.st[j].label = h.st[j].label /\ k.st[j].lid = h.st[j].lid /\ k.st[j].up = h.st[j].up
<1>1. h \in PageRecord /\ \A j \in DOMAIN h.st : h.st[j] \in Stream
  BY Typed DEF PageTrue
<1>2. Placed(h, i, c, k)
  BY <1>1, OneStream
<1>3. /\ k \in PageRecord /\ Len(k.st) = Len(h.st) /\ DOMAIN k.st = DOMAIN h.st /\ Len(h.st) \in Nat
      /\ k.open = h.open /\ k.enabled = h.enabled /\ k.mute = h.mute /\ k.tracks = h.tracks
      /\ k.conn = h.conn /\ k.joined = h.joined /\ k.tiles = h.tiles /\ k.ended = h.ended
  BY <1>1, <1>2, Typed DEF Placed
<1>4. \A j \in DOMAIN h.st : /\ k.st[j].label = h.st[j].label /\ k.st[j].lid = h.st[j].lid
                             /\ k.st[j].conn = h.st[j].conn /\ k.st[j].up = h.st[j].up
  BY <1>2 DEF Placed
<1>5. \A j \in DOMAIN h.st : (j = i /\ k.st[j] = c) \/ k.st[j] = h.st[j]
  BY <1>2 DEF Placed
<1>6. Ups(k) = Ups(h) /\ CamUps(k) = CamUps(h)
  BY <1>3, <1>4 DEF Ups, CamUps
<1>7. Later(h, k)
  BY <1>3, <1>4 DEF Later
<1>8. Streams(k)
  <2>1. \A j \in DOMAIN h.st : StreamTrue(h, h.st[j])
    BY DEF PageTrue, Streams
  <2>2. \A j \in DOMAIN h.st : StreamTrue(h, k.st[j])
    BY <1>5, <2>1
  <2> QED
    BY <1>3, <2>2 DEF Streams, StreamTrue
<1>9. Lids(k)
  BY <1>3, <1>4, <1>6 DEF PageTrue, Lids, CamUps, Ups
<1>10. Tiles(k)
  <2>1. \A j \in Ups(h) : k.st[j].lid = h.st[j].lid
    BY <1>4 DEF Ups
  <2> QED
    BY <1>3, <1>6, <2>1 DEF Tiles, PageTrue
<1>11. Numbered(k) /\ Tellers(k)
  BY <1>3 DEF Numbered, Tellers, PageTrue
<1>12. Silent(k)
  <2>1. SUFFICES ASSUME h.mute, NEW j \in Ups(h) PROVE Mics(k.st[j].sent) \cap h.open \cap h.enabled = {}
    BY <1>3, <1>6 DEF Silent
  <2>2. Mics(h.st[j].sent) \cap h.open \cap h.enabled = {}
    BY <2>1 DEF PageTrue, Silent
  <2>3. j \in DOMAIN h.st
    BY DEF Ups
  <2> QED
    BY <1>5, <2>1, <2>2, <2>3
<1> QED
  BY <1>2, <1>3, <1>4, <1>6, <1>7, <1>8, <1>9, <1>10, <1>11, <1>12 DEF PageTrue

\* addMicrophoneNow(), when the microphone has opened.
LEMMA GetsMicrophone ==
    ASSUME NEW h, PageTrue(h), NEW i \in Ups(h), h.st[i].label = "camera", Mics(h.st[i].raw) = {},
           NEW t \in h.tracks, Kind(t) = "mic", NEW k,
           k = AddMicrophoneTrack(h, i, t)
    PROVE  /\ PageTrue(k) /\ Later(h, k) /\ Ups(k) = Ups(h) /\ CamUps(k) = CamUps(h)
           /\ k.open = h.open /\ k.mute = h.mute /\ k.tracks = h.tracks /\ k.conn = h.conn /\ k.joined = h.joined
           /\ k.enabled \subseteq h.enabled
           /\ DOMAIN k.st = DOMAIN h.st /\ t \in k.st[i].raw
           /\ \A j \in DOMAIN h.st : /\ k.st[j].label = h.st[j].label /\ k.st[j].lid = h.st[j].lid
                                     /\ k.st[j].up = h.st[j].up /\ h.st[j].raw \subseteq k.st[j].raw
<1> DEFINE c == WithMicrophone(h.st[i], t)
           m == WithStream(h, i, c)
<1>1. h \in PageRecord /\ i \in DOMAIN h.st /\ h.st[i] \in Stream /\ t \in Tracks
  BY Typed DEF PageTrue, Ups
<1>2. c \in Stream /\ c.label = h.st[i].label /\ c.lid = h.st[i].lid /\ c.conn = h.st[i].conn
      /\ c.up = h.st[i].up /\ c.raw = h.st[i].raw \cup {t} /\ c.sent = h.st[i].sent
  BY <1>1 DEF Stream, WithMicrophone
<1>3. m = [h EXCEPT !.st[i] = WithMicrophone(@, t)]
  BY <1>1 DEF WithStream, PageRecord
<1>4. k = AddUpTracks(m, i, {t})
  BY <1>3 DEF AddMicrophoneTrack
<1> HIDE DEF c, m
<1>5. StreamTrue(h, c)
  <2>1. StreamTrue(h, h.st[i])
    BY <1>1 DEF PageTrue, Streams
  <2>2. \A u \in h.st[i].raw : Kind(u) # "mic"
    BY DEF Mics, OfKind
  <2>3. OneEach(h.st[i].raw) => OneEach(c.raw)
    BY <1>2, <2>2 DEF OneEach
  <2>4. KindsIn(c.raw, {"mic", "cam"})
    BY <1>2, <2>1 DEF StreamTrue, KindsIn
  <2> QED
    BY <1>2, <2>1, <2>3, <2>4 DEF StreamTrue
<1>6. h.mute => Mics(c.sent) \cap h.open \cap h.enabled = {}
  BY <1>2 DEF PageTrue, Silent
<1>7. /\ PageTrue(m) /\ Later(h, m) /\ Ups(m) = Ups(h) /\ CamUps(m) = CamUps(h) /\ Placed(h, i, c, m)
      /\ \A j \in DOMAIN h.st : m.st[j].label = h.st[j].label /\ m.st[j].lid = h.st[j].lid /\ m.st[j].up = h.st[j].up
  BY <1>1, <1>2, <1>5, <1>6, Refitted DEF m
<1>8. DOMAIN m.st = DOMAIN h.st /\ m.st[i] = c /\ \A j \in DOMAIN h.st : h.st[j].raw \subseteq m.st[j].raw
  BY <1>1, <1>2, <1>7 DEF Placed
<1>9. PageTrue(k) /\ Steady(m, k)
  BY <1>1, <1>2, <1>4, <1>7, <1>8, Adds
<1>10. Later(m, k) /\ Ups(k) = Ups(m) /\ CamUps(k) = CamUps(m)
  BY <1>7, <1>9, SteadyIs
<1>11. Later(h, k)
  BY <1>7, <1>9, <1>10, LaterTransitive DEF PageTrue
<1>12. m.open = h.open /\ m.mute = h.mute /\ m.tracks = h.tracks /\ m.conn = h.conn /\ m.joined = h.joined /\ m.enabled = h.enabled
  BY <1>7 DEF Placed
<1>13. \A j \in DOMAIN h.st : /\ k.st[j].label = h.st[j].label /\ k.st[j].lid = h.st[j].lid
                              /\ k.st[j].up = h.st[j].up /\ k.st[j].raw = m.st[j].raw
  BY <1>7, <1>8, <1>9 DEF Steady
<1> QED
  BY <1>1, <1>2, <1>7, <1>8, <1>9, <1>10, <1>11, <1>12, <1>13 DEF Steady

\* recoverMicrophone, swap: the new microphone takes the place of the lost one.
LEMMA Exchanges ==
    ASSUME NEW h, PageTrue(h), NEW r, Exchanging(h, r), NEW k, k = Swap(h, r, r.new)
    PROVE  Exchanged(h, k, r)
<1> DEFINE c == OtherMicrophone(h.st[r.i], r.lost, r.new)
<1>1. /\ h \in PageRecord /\ r.i \in DOMAIN h.st /\ h.st[r.i] \in Stream /\ h.st[r.i].up /\ r.lost \in h.st[r.i].raw
      /\ r.new \in h.tracks /\ Kind(r.new) = "mic" /\ Kind(r.lost) = "mic" /\ r.new \in Tracks
      /\ (h.mute => r.new \notin h.enabled)
  BY Typed DEF PageTrue, Exchanging, Lacking, Mics, OfKind
<1>2. c \in Stream /\ c.label = h.st[r.i].label /\ c.lid = h.st[r.i].lid /\ c.conn = h.st[r.i].conn
      /\ c.up = h.st[r.i].up /\ c.raw = (h.st[r.i].raw \ {r.lost}) \cup {r.new}
      /\ c.sent = (h.st[r.i].sent \ {r.lost}) \cup {r.new}
  <2>1. c = [h.st[r.i] EXCEPT !.raw = (@ \ {r.lost}) \cup {r.new}, !.sent = (@ \ {r.lost}) \cup {r.new}]
    BY <1>1 DEF OtherMicrophone
  <2> HIDE DEF c
  <2> QED
    BY <1>1, <2>1 DEF Stream
<1>3. k = WithStream(h, r.i, c)
  BY <1>1 DEF Swap, WithStream, PageRecord
<1>4. StreamTrue(h, h.st[r.i])
  BY <1>1 DEF PageTrue, Streams
<1> HIDE DEF c
<1>5. StreamTrue(h, c)
  <2>1. c.raw \subseteq h.tracks /\ c.sent \subseteq c.raw
    BY <1>1, <1>2, <1>4 DEF StreamTrue
  <2>2. h.st[r.i].label = "camera"
    <3>1. h.st[r.i].label \in {"camera", "screenshare"}
      BY <1>1 DEF Stream
    <3> QED
      BY <1>1, <1>4, <3>1 DEF StreamTrue, KindsIn
  <2>3. KindsIn(c.raw, {"mic", "cam"})
    BY <1>1, <1>2, <1>4, <2>2 DEF StreamTrue, KindsIn
  <2>4. OneEach(c.raw)
    <3>1. OneEach(h.st[r.i].raw)
      BY <1>1, <1>4 DEF StreamTrue
    <3>2. \A u \in h.st[r.i].raw \ {r.lost} : Kind(u) # "mic"
      BY <1>1, <3>1 DEF OneEach
    <3> QED
      BY <1>1, <1>2, <3>1, <3>2 DEF OneEach
  <2> QED
    BY <1>2, <1>4, <2>1, <2>2, <2>3, <2>4 DEF StreamTrue
<1>6. h.mute => Mics(c.sent) \cap h.open \cap h.enabled = {}
  <2>1. SUFFICES ASSUME h.mute, NEW t \in Mics(c.sent), t \in h.open, t \in h.enabled PROVE FALSE
    OBVIOUS
  <2>2. t # r.new
    BY <1>1, <2>1
  <2>3. t \in Mics(h.st[r.i].sent)
    BY <1>2, <2>1, <2>2 DEF Mics, OfKind
  <2> QED
    BY <1>1, <2>1, <2>3 DEF PageTrue, Silent, Ups
<1>7. /\ PageTrue(k) /\ Later(h, k) /\ Ups(k) = Ups(h) /\ CamUps(k) = CamUps(h) /\ Placed(h, r.i, c, k)
      /\ \A j \in DOMAIN h.st : k.st[j].label = h.st[j].label /\ k.st[j].lid = h.st[j].lid /\ k.st[j].up = h.st[j].up
  <2>1. PICK i \in DOMAIN h.st : i = r.i
    BY <1>1
  <2>2. /\ c \in Stream /\ c.label = h.st[i].label /\ c.lid = h.st[i].lid /\ c.conn = h.st[i].conn /\ c.up = h.st[i].up
        /\ k = WithStream(h, i, c)
    BY <1>2, <1>3, <2>1
  <2>3. /\ PageTrue(k) /\ Later(h, k) /\ Ups(k) = Ups(h) /\ CamUps(k) = CamUps(h) /\ Placed(h, i, c, k)
        /\ \A j \in DOMAIN h.st : k.st[j].label = h.st[j].label /\ k.st[j].lid = h.st[j].lid /\ k.st[j].up = h.st[j].up
    BY <1>5, <1>6, <2>2, Refitted
  <2> QED
    BY <2>1, <2>3
<1>8. \A j \in DOMAIN h.st : k.st[j].raw = IF j = r.i THEN (h.st[j].raw \ {r.lost}) \cup {r.new} ELSE h.st[j].raw
  BY <1>2, <1>7 DEF Placed
<1>9. /\ k.open = h.open /\ k.mute = h.mute /\ k.tracks = h.tracks /\ k.conn = h.conn /\ k.joined = h.joined
      /\ k.enabled = h.enabled /\ DOMAIN k.st = DOMAIN h.st
  BY <1>7 DEF Placed
<1> QED
  BY <1>7, <1>8, <1>9 DEF Exchanged

\* recoverMicrophone, when every attempt has failed: a stream goes on without
\* the microphone, or is closed.
LEMMA GivesUp ==
    ASSUME NEW h, PageTrue(h), NEW r, Recovering(h, r), NEW k, k = GiveUp(h, r)
    PROVE  /\ PageTrue(k) /\ Later(h, k) /\ Calm(h, k) /\ Len(k.st) = Len(h.st) /\ DOMAIN k.st = DOMAIN h.st
           /\ k.enabled = h.enabled /\ k.mute = h.mute
           /\ k.tracks = h.tracks /\ k.conn = h.conn /\ k.joined = h.joined
           /\ \A t \in k.open : t \in h.open /\ (t \in HeldBy(h) => t \in HeldBy(k))
           /\ \/ \A i \in DOMAIN h.st : k.st[i].up = h.st[i].up /\ k.st[i].raw \in {h.st[i].raw, h.st[i].raw \ {r.lost}}
              \/ Wanted(h, r) /\ ~VideoLive(h, r.i)
           /\ \A i \in DOMAIN h.st : i # r.i => k.st[i].up = h.st[i].up /\ k.st[i].raw = h.st[i].raw
<1>1. h \in PageRecord /\ r.i \in DOMAIN h.st /\ r.lost \notin h.open /\ Ups(h) \subseteq DOMAIN h.st
      /\ \A j \in DOMAIN h.st : h.st[j] \in Stream
  BY Typed DEF PageTrue, Recovering, Lacking
<1>2. CASE ~Wanted(h, r)
  <2>1. k = h
    BY <1>2 DEF GiveUp
  <2>2. Later(h, h) /\ Calm(h, h)
    BY <1>1, LaterSame
  <2> QED
    BY <2>1, <2>2
<1>3. CASE Wanted(h, r) /\ ~VideoLive(h, r.i)
  <2>1. h.st[r.i].up /\ r.i # None
    BY <1>1, <1>3, Typed DEF Wanted
  <2>2. k = CloseStreams(h, {r.i})
    BY <1>3, <2>1 DEF GiveUp, CloseStream
  <2>3. {r.i} \subseteq DOMAIN h.st
    BY <1>1
  <2>4. /\ PageTrue(k) /\ Later(h, k) /\ Calm(h, k)
        /\ Len(k.st) = Len(h.st) /\ DOMAIN k.st = DOMAIN h.st
        /\ \A j \in DOMAIN h.st : Alike(k.st[j], h.st[j])
        /\ k.open = h.open \ UNION {h.st[i].raw : i \in {r.i}}
        /\ k.enabled = h.enabled /\ k.mute = h.mute
        /\ k.tracks = h.tracks /\ k.conn = h.conn /\ k.joined = h.joined
        /\ Ups(k) = Ups(h) \ {r.i}
    BY <2>2, <2>3, Closes
  <2>5. k.open = h.open \ h.st[r.i].raw
    BY <2>4
  <2>6. \A t \in k.open : t \in h.open /\ (t \in HeldBy(h) => t \in HeldBy(k))
    <3>1. SUFFICES ASSUME NEW t \in k.open, t \in HeldBy(h) PROVE t \in HeldBy(k)
      BY <2>5
    <3>2. PICK i \in Ups(h) : t \in h.st[i].raw
      BY <3>1 DEF HeldBy
    <3>3. i \in Ups(k) /\ k.st[i].raw = h.st[i].raw
      BY <1>1, <2>4, <2>5, <3>1, <3>2 DEF Alike
    <3> QED
      BY <3>2, <3>3 DEF HeldBy
  <2>7. \A j \in DOMAIN h.st : j # r.i => k.st[j].up = h.st[j].up /\ k.st[j].raw = h.st[j].raw
    <3>1. SUFFICES ASSUME NEW j \in DOMAIN h.st, j # r.i PROVE k.st[j].up = h.st[j].up /\ k.st[j].raw = h.st[j].raw
      OBVIOUS
    <3>2. k.st[j].raw = h.st[j].raw
      BY <2>4 DEF Alike
    <3>3. k.st[j].up <=> h.st[j].up
      BY <2>4, <3>1 DEF Ups
    <3>4. k.st[j].up \in BOOLEAN /\ h.st[j].up \in BOOLEAN
      <4>1. k.st[j] \in Stream /\ h.st[j] \in Stream
        BY <2>4, Typed DEF PageTrue
      <4> QED
        BY <4>1 DEF Stream
    <3> QED
      BY <3>2, <3>3, <3>4
  <2> QED
    BY <1>3, <2>4, <2>6, <2>7
<1>4. CASE Wanted(h, r) /\ VideoLive(h, r.i)
  <2> DEFINE c == WithoutMicrophone(h.st[r.i], r.lost)
  <2>1. c \in Stream /\ c.label = h.st[r.i].label /\ c.lid = h.st[r.i].lid /\ c.conn = h.st[r.i].conn
        /\ c.up = h.st[r.i].up /\ c.raw = h.st[r.i].raw \ {r.lost} /\ c.sent = h.st[r.i].sent \ {r.lost}
    <3>1. h.st[r.i] \in Stream
      BY <1>1
    <3> QED
      BY <3>1 DEF Stream, WithoutMicrophone
  <2>2. k = WithStream(h, r.i, c)
    BY <1>1, <1>4 DEF GiveUp, WithStream, PageRecord
  <2>3. StreamTrue(h, h.st[r.i])
    BY <1>1 DEF PageTrue, Streams
  <2> HIDE DEF c
  <2>4. StreamTrue(h, c)
    BY <2>1, <2>3 DEF StreamTrue, KindsIn, OneEach
  <2>5. h.mute => Mics(c.sent) \cap h.open \cap h.enabled = {}
    <3>1. r.i \in Ups(h)
      BY <1>1, <1>4 DEF Wanted, Ups
    <3>2. h.mute => Mics(h.st[r.i].sent) \cap h.open \cap h.enabled = {}
      BY <3>1 DEF PageTrue, Silent
    <3> QED
      BY <2>1, <3>2 DEF Mics, OfKind
  <2>6. r.i \in DOMAIN h.st
    BY <1>1
  <2>7. /\ PageTrue(k) /\ Later(h, k) /\ Ups(k) = Ups(h) /\ CamUps(k) = CamUps(h) /\ Placed(h, r.i, c, k)
        /\ \A j \in DOMAIN h.st : k.st[j].label = h.st[j].label /\ k.st[j].lid = h.st[j].lid /\ k.st[j].up = h.st[j].up
    <3>1. PICK i \in DOMAIN h.st : i = r.i
      BY <2>6
    <3>2. /\ c \in Stream /\ c.label = h.st[i].label /\ c.lid = h.st[i].lid /\ c.conn = h.st[i].conn /\ c.up = h.st[i].up
          /\ k = WithStream(h, i, c)
      BY <2>1, <2>2, <3>1
    <3>3. /\ PageTrue(k) /\ Later(h, k) /\ Ups(k) = Ups(h) /\ CamUps(k) = CamUps(h) /\ Placed(h, i, c, k)
          /\ \A j \in DOMAIN h.st : k.st[j].label = h.st[j].label /\ k.st[j].lid = h.st[j].lid /\ k.st[j].up = h.st[j].up
      BY <2>4, <2>5, <3>2, Refitted
    <3> QED
      BY <3>1, <3>3
  <2>8. \A j \in DOMAIN h.st : k.st[j].raw = IF j = r.i THEN h.st[j].raw \ {r.lost} ELSE h.st[j].raw
    BY <2>1, <2>7 DEF Placed
  <2>9. /\ k.open = h.open /\ k.mute = h.mute /\ k.tracks = h.tracks /\ k.conn = h.conn /\ k.joined = h.joined
        /\ k.enabled = h.enabled /\ DOMAIN k.st = DOMAIN h.st /\ Len(k.st) = Len(h.st)
    BY <2>7 DEF Placed
  <2>10. \A t \in k.open : t \in h.open /\ (t \in HeldBy(h) => t \in HeldBy(k))
    <3>1. SUFFICES ASSUME NEW t \in k.open, t \in HeldBy(h) PROVE t \in HeldBy(k)
      BY <2>9
    <3>2. PICK j \in Ups(h) : t \in h.st[j].raw
      BY <3>1 DEF HeldBy
    <3>3. t # r.lost
      BY <1>1, <2>9, <3>1
    <3>4. t \in k.st[j].raw
      BY <1>1, <2>8, <3>2, <3>3
    <3> QED
      BY <2>7, <3>2, <3>4 DEF HeldBy
  <2>11. Calm(h, k)
    <3>1. \A j \in CamUps(h) : j \in DOMAIN h.st
      BY DEF CamUps, Ups
    <3> QED
      BY <2>7, <2>8, <2>9, <3>1 DEF Calm
  <2> QED
    BY <2>7, <2>8, <2>9, <2>10, <2>11
<1> QED
  BY <1>2, <1>3, <1>4

-----------------------------------------------------------------------------
(* Streams and devices go.                                                 *)

\* One after the other.
LEMMA EasesTransitive ==
    ASSUME NEW h, PageTrue(h), NEW k, Eases(h, k), NEW m, Eases(k, m)
    PROVE  Eases(h, m)
<1>1. h \in PageRecord /\ k \in PageRecord /\ m \in PageRecord
  BY DEF Eases, PageTrue
<1>2. Later(h, m)
  BY <1>1, LaterTransitive DEF Eases
<1>3. Calm(h, m)
  BY CalmTransitive DEF Eases
<1>4. Holding(h, m)
  BY DEF Eases, Holding
<1> QED
  BY <1>2, <1>3, <1>4 DEF Eases

\* Nothing has happened.
LEMMA EasesSame ==
    ASSUME NEW h, PageTrue(h)
    PROVE  Eases(h, h)
<1>1. Later(h, h) /\ Calm(h, h)
  BY LaterSame DEF PageTrue
<1> QED
  BY <1>1 DEF Eases, Holding

\* The same streams.
LEMMA SteadyEases ==
    ASSUME NEW h, PageTrue(h), NEW k, PageTrue(k), Steady(h, k)
    PROVE  Eases(h, k)
<1>1. Later(h, k) /\ Calm(h, k) /\ HeldBy(k) = HeldBy(h)
  BY SteadyIs
<1> QED
  BY <1>1 DEF Eases, Holding, Steady

\* stopStream()
LEMMA StopsEases ==
    ASSUME NEW h, PageTrue(h), NEW T, NEW k, k = StopStream(h, T)
    PROVE  Eases(h, k) /\ k.st = h.st /\ k.open = h.open \ T
<1>1. /\ PageTrue(k) /\ Later(h, k) /\ Calm(h, k)
      /\ k.st = h.st /\ k.open = h.open \ T
      /\ k.tracks = h.tracks /\ k.conn = h.conn /\ k.joined = h.joined
  BY Stops
<1>2. HeldBy(k) = HeldBy(h)
  BY <1>1 DEF HeldBy, Ups
<1> QED
  BY <1>1, <1>2 DEF Eases, Holding

\* removeFilter()
LEMMA UnfiltersEases ==
    ASSUME NEW h, PageTrue(h), NEW i \in DOMAIN h.st, NEW k, k = RemoveFilter(h, i)
    PROVE  /\ Eases(h, k) /\ k.open = h.open /\ DOMAIN k.st = DOMAIN h.st
           /\ \A j \in DOMAIN h.st : Alike(k.st[j], h.st[j]) /\ k.st[j].up = h.st[j].up
<1>1. /\ PageTrue(k) /\ Later(h, k) /\ Calm(h, k)
      /\ DOMAIN k.st = DOMAIN h.st
      /\ \A j \in DOMAIN h.st : Alike(k.st[j], h.st[j]) /\ k.st[j].up = h.st[j].up
      /\ Ups(k) = Ups(h)
      /\ k.open = h.open /\ k.tracks = h.tracks /\ k.conn = h.conn /\ k.joined = h.joined
  BY Unfilters
<1>2. \A j \in Ups(h) : k.st[j].raw = h.st[j].raw
  BY <1>1 DEF Ups, Alike
<1>3. HeldBy(k) = HeldBy(h)
  BY <1>1, <1>2 DEF HeldBy
<1> QED
  BY <1>1, <1>3 DEF Eases, Holding

\* setLocalMute()
LEMMA MutesEases ==
    ASSUME NEW h, PageTrue(h), NEW m \in BOOLEAN, NEW k, k = SetLocalMute(h, m)
    PROVE  Eases(h, k) /\ k.st = h.st
<1>1. /\ PageTrue(k) /\ Later(h, k) /\ Calm(h, k) /\ HeldBy(k) = HeldBy(h)
      /\ k.st = h.st /\ k.open = h.open /\ k.tracks = h.tracks /\ k.conn = h.conn /\ k.joined = h.joined
  BY Mutes
<1> QED
  BY <1>1 DEF Eases, Holding

\* Stream.close, of some.
LEMMA ClosesEases ==
    ASSUME NEW h, PageTrue(h), NEW S, S \subseteq DOMAIN h.st, NEW k, k = CloseStreams(h, S)
    PROVE  /\ Eases(h, k) /\ Ups(k) = Ups(h) \ S /\ DOMAIN k.st = DOMAIN h.st
           /\ \A j \in DOMAIN h.st : Alike(k.st[j], h.st[j])
<1>1. /\ PageTrue(k) /\ Later(h, k) /\ Calm(h, k) /\ DOMAIN k.st = DOMAIN h.st
      /\ \A j \in DOMAIN h.st : Alike(k.st[j], h.st[j])
      /\ k.open = h.open \ UNION {h.st[i].raw : i \in S}
      /\ k.tracks = h.tracks /\ k.conn = h.conn /\ k.joined = h.joined
      /\ Ups(k) = Ups(h) \ S
  BY Closes
<1>2. Holding(h, k)
  <2>1. SUFFICES ASSUME NEW t \in k.open, t \in HeldBy(h) PROVE t \in HeldBy(k)
    BY <1>1 DEF Holding
  <2>2. PICK i \in Ups(h) : t \in h.st[i].raw
    BY <2>1 DEF HeldBy
  <2>3. i \notin S /\ i \in DOMAIN h.st
    BY <1>1, <2>1, <2>2 DEF Ups
  <2>4. i \in Ups(k) /\ k.st[i].raw = h.st[i].raw
    BY <1>1, <2>2, <2>3 DEF Alike
  <2> QED
    BY <2>2, <2>4 DEF HeldBy
<1> QED
  BY <1>1, <1>2 DEF Eases

\* ... of one, if there is one.
LEMMA CloseEases ==
    ASSUME NEW h, PageTrue(h), NEW i \in 0..Len(h.st), NEW k, k = CloseStream(h, i, FALSE)
    PROVE  Eases(h, k)
<1>1. CASE i = None \/ ~h.st[i].up
  <2>1. k = h
    BY <1>1 DEF CloseStream
  <2> QED
    BY <2>1, EasesSame
<1>2. CASE ~(i = None \/ ~h.st[i].up)
  <2>1. k = CloseStreams(h, {i})
    BY <1>2 DEF CloseStream
  <2>2. {i} \subseteq DOMAIN h.st
    BY <1>2, Typed DEF PageTrue, None
  <2> QED
    BY <2>1, <2>2, ClosesEases
<1> QED
  BY <1>1, <1>2

\* The end of setUpStream(), or not.
LEMMA FilteredEases ==
    ASSUME NEW h, PageTrue(h), NEW i \in DOMAIN h.st, NEW ok, NEW k, k = Filtered(h, i, ok)
    PROVE  Eases(h, k)
<1>1. CASE h.st[i].up /\ ok
  <2>1. k = SetUp(h, i)
    BY <1>1 DEF Filtered
  <2> QED
    BY <2>1, SetsUp, SteadyEases
<1>2. CASE ~(h.st[i].up /\ ok)
  <2>1. k = CloseStream(h, i, FALSE)
    BY <1>2 DEF Filtered
  <2>2. i \in 0..Len(h.st)
    BY Typed DEF PageTrue
  <2> QED
    BY <2>1, <2>2, CloseEases
<1> QED
  BY <1>1, <1>2

\* Nothing is asked for, and nothing is opened.
LEMMA OpensNone ==
    ASSUME NEW h, PageTrue(h), NEW k, k = Open(h, {})
    PROVE  Opens(h, {}, Fresh(h, k), k)
<1>1. h \in PageRecord
  BY DEF PageTrue
<1>2. {NewTrack(h, kind) : kind \in {}} = {}
  OBVIOUS
<1>3. k = [h EXCEPT !.tracks = @ \cup {}, !.open = @ \cup {}, !.enabled = @ \cup {}]
  BY <1>2 DEF Open
<1>4. k = [h EXCEPT !.tracks = h.tracks, !.open = h.open, !.enabled = h.enabled]
  BY <1>3
<1>5. /\ k \in PageRecord /\ k.st = h.st /\ k.tiles = h.tiles /\ k.mute = h.mute
      /\ k.ended = h.ended /\ k.conn = h.conn /\ k.joined = h.joined
      /\ k.tracks = h.tracks /\ k.open = h.open /\ k.enabled = h.enabled
  BY <1>1, <1>4 DEF PageRecord
<1>6. PageTrue(k) /\ Later(h, k) /\ Calm(h, k) /\ Ups(k) = Ups(h) /\ CamUps(k) = CamUps(h) /\ HeldBy(k) = HeldBy(h)
  BY <1>5, Quiet
<1>7. Fresh(h, k) = {}
  BY <1>5 DEF Fresh
<1> QED
  BY <1>5, <1>6, <1>7 DEF Opens, OneEach, KindsIn

-----------------------------------------------------------------------------
(* What runs, and what it leaves.                                          *)

\* The local id of a camera stays one.
LEMMA CameraLidStays ==
    ASSUME NEW h \in PageRecord, NEW k \in PageRecord, Later(h, k), NEW l, CameraLid(h, l)
    PROVE  CameraLid(k, l)
<1>1. PICK i \in DOMAIN h.st : h.st[i].label = "camera" /\ h.st[i].lid = l
  BY DEF CameraLid
<1>2. i \in DOMAIN k.st
  BY Typed DEF Later
<1> QED
  BY <1>1, <1>2 DEF CameraLid, Later

\* The cameras of a page that eases.
LEMMA EasesCameras ==
    ASSUME NEW h, PageTrue(h), NEW k, Eases(h, k), NEW l
    PROVE  /\ CameraLid(h, l) => CameraLid(k, l)
           /\ CamUps(k) \subseteq CamUps(h) /\ \A i \in CamUps(k) : k.st[i].lid = h.st[i].lid
           /\ \A i \in CamUps(k) : k.st[i].raw \cap k.open \subseteq h.st[i].raw \cap h.open
<1>1. CameraLid(h, l) => CameraLid(k, l)
  BY CameraLidStays DEF Eases, PageTrue
<1>2. Calm(h, k)
  BY DEF Eases
<1> QED
  BY <1>1, <1>2 DEF Calm

\* addLocalMediaNow(), before the devices are asked for.
LEMMA Releases ==
    ASSUME NEW h, PageTrue(h), NEW r, Startable(h, r), r.op = "add",
           NEW res, res = AddLocalMediaNow(h, r)
    PROVE  /\ Eases(h, res.g) /\ res.run.req = r /\ res.run.conn = h.conn
           /\ Adding(res.g, res.run) /\ Running(res.g, res.run)
<1> DEFINE old == FindByLocalId(h, r.lid)
           raw == h.st[old].raw
           keep == IF old = None \/ ~r.keepVideo \/ "cam" \notin r.kinds THEN {} ELSE Cams(raw) \cap h.open
           released == IF old = None THEN h
                       ELSE IF keep # {} THEN StopStream(h, Mics(raw))
                       ELSE StopStream(RemoveFilter(h, old), raw)
           run == [op |-> "add", pc |-> "opening", req |-> r, lid |-> r.lid,
                   conn |-> h.conn, keep |-> keep, tracks |-> {}]
<1>1. res.g = released /\ res.run = run
  BY DEF AddLocalMediaNow, Result
<1>2. /\ \/ old = None /\ \A j \in Ups(h) : h.st[j].lid # r.lid
         \/ old \in Ups(h) /\ old \in DOMAIN h.st /\ old # None /\ h.st[old].lid = r.lid
            /\ \A j \in Ups(h) : h.st[j].lid = r.lid => j = old
      /\ r.lid = None => old = None
  BY FindsLocalId
<1>3. /\ r \in Asked /\ h \in PageRecord /\ h.conn \in Nat
      /\ r.lid # None => CameraLid(h, r.lid) /\ \A i \in CamUps(h) : h.st[i].lid = r.lid
  BY DEF Startable, PageTrue, PageRecord
<1>4. old # None => h.st[old].label = "camera" /\ raw \subseteq h.tracks /\ OneEach(raw) /\ KindsIn(raw, {"mic", "cam"})
  <2>1. SUFFICES ASSUME old # None PROVE h.st[old].label = "camera" /\ StreamTrue(h, h.st[old]) /\ h.st[old].up
    BY <2>1 DEF StreamTrue
  <2>2. PICK i \in DOMAIN h.st : h.st[i].label = "camera" /\ h.st[i].lid = r.lid
    BY <1>2, <1>3, <2>1 DEF CameraLid
  <2>3. h.st[old].lid = h.st[i].lid /\ old \in DOMAIN h.st
    BY <1>2, <2>1, <2>2
  <2>4. h.st[old].label = h.st[i].label
    BY <2>3 DEF PageTrue, Lids
  <2> QED
    BY <1>2, <2>1, <2>2, <2>3, <2>4 DEF PageTrue, Streams, Ups
<1>5. keep = {} \/ (old # None /\ keep = Cams(raw) \cap h.open)
  OBVIOUS
<1>6. keep \subseteq Cams(h.tracks) /\ OneEach(keep) /\ (old = None => keep = {})
  BY <1>4, <1>5 DEF Cams, OfKind, OneEach
<1>7. \A i \in CamUps(h) : r.lid # None => i = old
  BY <1>2, <1>3 DEF CamUps
<1>8. /\ Eases(h, released)
      /\ r.lid # None => \A i \in CamUps(released) : released.st[i].raw \cap released.open \subseteq keep
  <2>1. CASE old = None
    <3>1. released = h
      BY <2>1
    <3>2. r.lid # None => CamUps(h) = {}
      BY <1>2, <1>3, <2>1 DEF CamUps
    <3> HIDE DEF released
    <3> QED
      BY <3>1, <3>2, EasesSame
  <2>2. CASE old # None /\ keep # {}
    <3>1. released = StopStream(h, Mics(raw))
      BY <2>2
    <3> HIDE DEF released
    <3>2. Eases(h, released) /\ released.st = h.st /\ released.open = h.open \ Mics(raw)
      BY <3>1, StopsEases
    <3>3. CamUps(released) = CamUps(h)
      BY <3>2 DEF CamUps, Ups
    <3>4. (raw \cap h.open) \ Mics(raw) \subseteq keep
      BY <1>4, <1>5, <2>2 DEF Mics, Cams, OfKind, KindsIn
    <3> QED
      BY <1>7, <3>2, <3>3, <3>4
  <2>3. CASE old # None /\ keep = {}
    <3> DEFINE m == RemoveFilter(h, old)
    <3>1. released = StopStream(m, raw)
      BY <2>3
    <3>2. /\ Eases(h, m) /\ m.open = h.open /\ DOMAIN m.st = DOMAIN h.st
          /\ \A j \in DOMAIN h.st : Alike(m.st[j], h.st[j]) /\ m.st[j].up = h.st[j].up
      BY <1>2, <2>3, UnfiltersEases
    <3> HIDE DEF m, released
    <3>3. PageTrue(m)
      BY <3>2 DEF Eases
    <3>4. Eases(m, released) /\ released.st = m.st /\ released.open = m.open \ raw
      BY <3>1, <3>3, StopsEases
    <3>5. Eases(h, released)
      BY <3>2, <3>4, EasesTransitive
    <3>6. CamUps(released) = CamUps(h)
      BY <3>2, <3>4 DEF CamUps, Ups, Alike
    <3>7. r.lid # None => \A i \in CamUps(released) : i = old /\ released.st[i].raw = raw
      BY <1>2, <1>7, <2>3, <3>2, <3>4, <3>6 DEF Alike
    <3> QED
      BY <3>4, <3>5, <3>7
  <2> QED
    BY <2>1, <2>2, <2>3
<1> HIDE DEF keep, released, old
<1>9. r.lid # None => CameraLid(released, r.lid) /\ \A i \in CamUps(released) : released.st[i].lid = r.lid
  BY <1>3, <1>8, EasesCameras
<1>10. released.tracks = h.tracks
  BY <1>8 DEF Eases
<1>11. /\ DOMAIN run = {"op", "pc", "req", "lid", "conn", "keep", "tracks"} /\ run.op = "add" /\ run.pc = "opening"
       /\ run.req = r /\ run.lid = r.lid /\ run.conn = h.conn /\ run.keep = keep
  OBVIOUS
<1> HIDE DEF run
<1>12. Adding(released, run)
  BY <1>2, <1>3, <1>6, <1>8, <1>9, <1>10, <1>11 DEF Adding
<1> QED
  BY <1>1, <1>3, <1>8, <1>11, <1>12 DEF Running

\* The camera there is lets go of its devices.
LEMMA LetsGo ==
    ASSUME NEW h, PageTrue(h), NEW i \in DOMAIN h.st,
           NEW k, k = StopStream(RemoveFilter(h, i), h.st[i].raw)
    PROVE  /\ Eases(h, k) /\ CamUps(k) = CamUps(h) /\ k.open = h.open \ h.st[i].raw
           /\ \A j \in DOMAIN h.st : k.st[j].raw = h.st[j].raw /\ k.st[j].lid = h.st[j].lid
<1> DEFINE m == RemoveFilter(h, i)
<1>1. /\ Eases(h, m) /\ m.open = h.open /\ DOMAIN m.st = DOMAIN h.st
      /\ \A j \in DOMAIN h.st : Alike(m.st[j], h.st[j]) /\ m.st[j].up = h.st[j].up
  BY UnfiltersEases
<1> HIDE DEF m
<1>2. PageTrue(m)
  BY <1>1 DEF Eases
<1>3. k = StopStream(m, h.st[i].raw)
  BY DEF m
<1>4. Eases(m, k) /\ k.st = m.st /\ k.open = m.open \ h.st[i].raw
  BY <1>2, <1>3, StopsEases
<1>5. Eases(h, k)
  BY <1>1, <1>4, EasesTransitive
<1>6. CamUps(k) = CamUps(h)
  BY <1>1, <1>4 DEF CamUps, Ups, Alike
<1> QED
  BY <1>1, <1>4, <1>5, <1>6 DEF Alike

\* Where a page eases, what was held is.
LEMMA StaysHeld ==
    ASSUME NEW h, NEW k, Holding(h, k), NEW X, h.open \subseteq HeldBy(h) \cup X
    PROVE  k.open \subseteq HeldBy(k) \cup X
BY DEF Holding

\* addLocalMediaNow(), when the devices have been opened.
LEMMA Gathers ==
    ASSUME NEW h, PageTrue(h), NEW run, Adding(h, run), run.req \in Asked,
           NEW T, T \subseteq h.tracks, KindsIn(T, {"mic", "cam"}), OneEach(T \cup run.keep),
           h.open \subseteq HeldBy(h) \cup T,
           NEW res, res = AddLocalMediaOpened(h, run, T)
    PROVE  Goes(h, res.g, res.run)
<1> DEFINE all == T \cup run.keep
           other == IF run.lid = None THEN FindUpMedia(h, "camera") ELSE None
           released == IF other = None THEN h ELSE StopStream(RemoveFilter(h, other), h.st[other].raw)
           lid == IF other = None THEN run.lid ELSE h.st[other].lid
<1>1. /\ h \in PageRecord /\ run.lid = run.req.lid /\ run.lid \in Nat /\ run.keep \subseteq Cams(h.tracks)
      /\ run.req.op = "add" /\ run.op = "add" /\ (run.lid = None => run.keep = {})
      /\ DOMAIN run = {"op", "pc", "req", "lid", "conn", "keep", "tracks"}
      /\ run.lid # None => /\ CameraLid(h, run.lid)
                           /\ \A i \in CamUps(h) : h.st[i].lid = run.lid /\ h.st[i].raw \cap h.open \subseteq run.keep
  BY DEF PageTrue, Adding, Asked
<1>2. CASE ~(run.keep \subseteq h.open)
  <2> DEFINE m == StopStream(h, T)
             r == [run.req EXCEPT !.keepVideo = FALSE]
  <2>1. res = AddLocalMediaNow(m, r)
    BY <1>2 DEF AddLocalMediaOpened
  <2>2. Eases(h, m) /\ m.open = h.open \ T
    BY StopsEases
  <2>3. r \in Asked /\ r.op = "add" /\ r.lid = run.lid
    BY <1>1 DEF Asked
  <2> HIDE DEF m, r
  <2>4. PageTrue(m)
    BY <2>2 DEF Eases
  <2>5. Startable(m, r)
    <3>1. run.lid # None => CameraLid(m, run.lid) /\ \A i \in CamUps(m) : m.st[i].lid = run.lid
      BY <1>1, <2>2, EasesCameras
    <3> QED
      BY <2>3, <3>1 DEF Startable
  <2>6. Eases(m, res.g) /\ Running(res.g, res.run)
    BY <2>1, <2>3, <2>4, <2>5, Releases
  <2>7. Eases(h, res.g)
    BY <2>2, <2>6, EasesTransitive
  <2>8. m.open \subseteq HeldBy(m) \cup {}
    BY <2>2 DEF Eases, Holding
  <2>9. res.g.open \subseteq HeldBy(res.g) \cup {}
    BY <2>6, <2>8, StaysHeld DEF Eases
  <2> QED
    BY <2>6, <2>7, <2>9 DEF Goes, Eases, Current
<1>3. CASE run.keep \subseteq h.open /\ (h.conn # run.conn \/ ~h.joined)
  <2>1. res.g = StopStream(h, all) /\ res.run = Idle
    BY <1>3 DEF AddLocalMediaOpened, Result
  <2>2. Eases(h, res.g) /\ res.g.open = h.open \ all
    BY <2>1, StopsEases
  <2>3. res.g.open \subseteq HeldBy(res.g)
    BY <2>2 DEF Eases, Holding
  <2> QED
    BY <2>1, <2>2, <2>3 DEF Goes, Eases, Current
<1>4. CASE run.keep \subseteq h.open /\ ~(h.conn # run.conn \/ ~h.joined)
  <2> DEFINE next == [run EXCEPT !.pc = "choices", !.lid = lid, !.tracks = all]
  <2>1. res.g = released /\ res.run = next
    BY <1>4 DEF AddLocalMediaOpened, Result
  <2>2. /\ DOMAIN next = {"op", "pc", "req", "lid", "conn", "keep", "tracks"} /\ next.op = "add" /\ next.pc = "choices"
        /\ next.lid = lid /\ next.tracks = all /\ next.req = run.req
    BY <1>1
  <2>3. other = None \/ (run.lid = None /\ other \in CamUps(h) /\ CamUps(h) = {other} /\ other \in DOMAIN h.st)
    BY FindsCamera
  <2>4. other = None => run.lid # None \/ CamUps(h) = {}
    BY FindsCamera
  <2>5. all \subseteq h.tracks /\ KindsIn(all, {"mic", "cam"}) /\ OneEach(all)
    BY <1>1 DEF KindsIn, Cams, OfKind
  <2>6. lid \in Nat
    BY <1>1, <2>3, Typed DEF Stream
  <2>7. /\ Eases(h, released) /\ (lid # None => CameraLid(h, lid))
        /\ \A i \in CamUps(released) : released.st[i].lid = lid /\ released.st[i].raw \cap released.open \subseteq all
    <3>1. CASE other = None
      <4>1. released = h /\ lid = run.lid
        BY <3>1
      <4> HIDE DEF released, lid
      <4>2. Eases(h, released)
        BY <4>1, EasesSame
      <4> QED
        BY <1>1, <2>4, <3>1, <4>1, <4>2
    <3>2. CASE other # None
      <4>1. released = StopStream(RemoveFilter(h, other), h.st[other].raw) /\ lid = h.st[other].lid
        BY <3>2
      <4> HIDE DEF released, lid, other
      <4>2. /\ Eases(h, released) /\ CamUps(released) = CamUps(h) /\ released.open = h.open \ h.st[other].raw
            /\ \A j \in DOMAIN h.st : released.st[j].raw = h.st[j].raw /\ released.st[j].lid = h.st[j].lid
        BY <2>3, <3>2, <4>1, LetsGo
      <4>3. h.st[other].label = "camera"
        BY <2>3, <3>2 DEF CamUps
      <4>4. CameraLid(h, lid)
        BY <2>3, <3>2, <4>1, <4>3 DEF CameraLid
      <4> QED
        BY <2>3, <3>2, <4>1, <4>2, <4>4
    <3> QED
      BY <3>1, <3>2
  <2> HIDE DEF released, lid, other, all, next
  <2>8. lid # None => CameraLid(released, lid)
    BY <2>7, EasesCameras
  <2>9. released.joined /\ released.tracks = h.tracks
    BY <1>4, <2>7 DEF Eases
  <2>10. Choosing(released, next)
    BY <2>2, <2>5, <2>6, <2>7, <2>8, <2>9 DEF Choosing
  <2>11. h.open \subseteq HeldBy(h) \cup all
    BY DEF all
  <2>12. released.open \subseteq HeldBy(released) \cup all
    BY <2>7, <2>11, StaysHeld DEF Eases
  <2>13. next # Idle
    BY <2>2 DEF Idle
  <2>14. Carried(next) = all
    BY <2>2, <2>13 DEF Carried
  <2>15. Running(released, next)
    BY <2>2, <2>10 DEF Running
  <2> QED
    BY <2>1, <2>7, <2>12, <2>14, <2>15 DEF Goes, Eases, Current
<1> QED
  BY <1>2, <1>3, <1>4

\* A stream that has come, and has been set up, holds what is its own.
LEMMA Takes ==
    ASSUME NEW h, PageTrue(h), NEW label, NEW lid, NEW T, NEW n, Came(h, n, label, lid, T),
           Yields(h, lid, T), NEW k, PageTrue(k), Steady(n, k)
    PROVE  Took(h, k, T)
<1>1. Later(n, k) /\ HeldBy(k) = HeldBy(n) /\ PageTrue(n)
  BY SteadyIs DEF Came
<1>2. Later(h, k)
  BY <1>1, LaterTransitive DEF PageTrue, Came
<1>3. Len(n.st) \in Ups(n) /\ n.st[Len(n.st)].raw = T
  BY DEF Came
<1>4. T \subseteq HeldBy(n)
  BY <1>3 DEF HeldBy
<1>5. /\ k.joined = h.joined /\ k.open = h.open /\ k.tracks = h.tracks /\ k.mute = h.mute
      /\ k.enabled \subseteq h.enabled
  BY DEF Came, Steady
<1>6. Holding(h, k)
  <2>1. SUFFICES ASSUME NEW t \in h.open, t \in HeldBy(h) PROVE t \in HeldBy(n)
    BY <1>1, <1>5 DEF Holding
  <2>2. PICK i \in Ups(h) : t \in h.st[i].raw
    BY <2>1 DEF HeldBy
  <2>3. CASE h.st[i].lid = lid
    BY <1>4, <2>1, <2>2, <2>3 DEF Yields
  <2>4. CASE h.st[i].lid # lid
    <3>1. i \in Ups(n) /\ n.st[i].raw = h.st[i].raw
      BY <2>2, <2>4 DEF Came, Alike, Ups
    <3> QED
      BY <2>2, <3>1 DEF HeldBy
  <2> QED
    BY <2>3, <2>4
<1> QED
  BY <1>1, <1>2, <1>4, <1>5, <1>6 DEF Took

\* addLocalMediaNow(), when the pickers have been filled.
LEMMA Publishes ==
    ASSUME NEW h, PageTrue(h), NEW run, Choosing(h, run), run.req \in Asked,
           h.open \subseteq HeldBy(h) \cup run.tracks,
           NEW res, res = AddLocalMediaPublish(h, run)
    PROVE  Goes(h, res.g, res.run)
<1> DEFINE def == Definition(h, run.tracks)
           n == NewUpStream(h, "camera", run.lid, def, run.tracks)
           i == Newest(n)
<1>1. def \in Looks
  BY DEF Definition, PageTrue, PageRecord, Looks
<1>2. Fits(h, "camera", run.lid, run.tracks)
  BY DEF Choosing, Fits
<1> HIDE DEF def
<1>3. Came(h, n, "camera", run.lid, run.tracks)
  BY <1>1, <1>2, Comes
<1>4. res = IF Slow(n, i) THEN Result(FilterStart(n, i), [op |-> "add", pc |-> "setup", req |-> run.req, i |-> i])
            ELSE Result(SetUp(n, i), Idle)
  BY DEF AddLocalMediaPublish, def
<1> HIDE DEF n, i
<1>5. PageTrue(n) /\ i \in DOMAIN n.st
  BY <1>3 DEF Came, Ups, i, Newest
<1>6. PageTrue(res.g) /\ Steady(n, res.g)
      /\ (res.run = Idle \/ res.run = [op |-> "add", pc |-> "setup", req |-> run.req, i |-> i])
  BY <1>4, <1>5, FilterStarted, SetsUp DEF Result
<1>7. Yields(h, run.lid, run.tracks)
  <2>1. SUFFICES ASSUME NEW j \in Ups(h), h.st[j].lid = run.lid PROVE h.st[j].raw \cap h.open \subseteq run.tracks
    BY DEF Yields
  <2>2. j \in DOMAIN h.st /\ h.st[j].lid \in 1..j
    BY <2>1 DEF PageTrue, Lids, Ups
  <2>3. run.lid # None
    BY <2>1, <2>2, Typed DEF None, PageTrue
  <2>4. PICK m \in DOMAIN h.st : h.st[m].label = "camera" /\ h.st[m].lid = run.lid
    BY <2>3 DEF Choosing, CameraLid
  <2>5. h.st[j].label = "camera"
    BY <2>1, <2>2, <2>4 DEF PageTrue, Lids
  <2>6. j \in CamUps(h)
    BY <2>1, <2>5 DEF CamUps
  <2> QED
    BY <2>6 DEF Choosing
<1>8. /\ Later(h, res.g) /\ Holding(h, res.g) /\ run.tracks \subseteq HeldBy(res.g)
      /\ res.g.joined = h.joined
  BY <1>3, <1>6, <1>7, Takes DEF Took
<1>9. res.g.open \subseteq HeldBy(res.g)
  BY <1>8, StaysHeld
<1>10. Current(res.g, res.run)
  <2>1. i \in DOMAIN res.g.st
    BY <1>5, <1>6 DEF Steady
  <2> QED
    BY <1>6, <2>1 DEF Current, Running, SettingUp
<1> QED
  BY <1>6, <1>8, <1>9, <1>10 DEF Goes

\* addLocalMedia() and addMicrophone(), at the head of the queue.
LEMMA Begins ==
    ASSUME NEW h, PageTrue(h), h.open \subseteq HeldBy(h), NEW r, Startable(h, r),
           NEW b, b = Begin(h, r)
    PROVE  Goes(h, b.g, b.run)
<1> DEFINE first == IF r.op = "mic" THEN AddMicrophoneNow(h, r) ELSE AddLocalMediaNow(h, r)
<1>1. /\ Eases(h, first.g) /\ Running(first.g, first.run)
      /\ Adding(first.g, first.run) \/ first.run.op = "mic"
  <2>1. CASE r.op = "add"
    <3>1. first = AddLocalMediaNow(h, r)
      BY <2>1
    <3> HIDE DEF first
    <3> QED
      BY <2>1, <3>1, Releases
  <2>2. CASE r.op = "mic"
    <3>1. first = AddMicrophoneNow(h, r) /\ r.lid \in CamUps(h) /\ r \in Asked
      BY <2>2 DEF Startable
    <3>2. h.st[r.lid].label = "camera" /\ r.lid \in DOMAIN h.st /\ h.st[r.lid] \in Stream
          /\ \A i \in CamUps(h) : h.st[i].lid = h.st[r.lid].lid
      BY <3>1, Typed DEF CamUps, Ups, PageTrue, Lids
    <3> DEFINE kinds == {"mic"} \cup (IF HasVideo(h, r.lid) THEN {"cam"} ELSE {})
               q == Request("add", h.st[r.lid].lid, kinds, TRUE, r.unmute)
    <3>3. CASE ~Usable(h, r.lid) \/ ~HasVideo(h, r.lid)
      <4>1. first = AddLocalMediaNow(h, q)
        BY <3>1, <3>3 DEF AddMicrophoneNow, Republish
      <4>2. q \in Asked /\ q.op = "add" /\ q.lid = h.st[r.lid].lid
        BY <3>1, <3>2 DEF Request, Asked, Stream
      <4> HIDE DEF q, first
      <4>3. Startable(h, q)
        BY <3>2, <4>2 DEF Startable, CameraLid
      <4> QED
        BY <4>1, <4>2, <4>3, Releases
    <3>4. CASE ~(~Usable(h, r.lid) \/ ~HasVideo(h, r.lid))
      <4>1. first = Result(h, [op |-> "mic", pc |-> "opening", req |-> r, i |-> r.lid])
        BY <3>1, <3>4 DEF AddMicrophoneNow
      <4>2. first.g = h /\ first.run = [op |-> "mic", pc |-> "opening", req |-> r, i |-> r.lid]
        BY <4>1 DEF Result
      <4> HIDE DEF first
      <4>3. Running(h, first.run) /\ first.run.op = "mic"
        BY <3>1, <3>2, <4>2 DEF Running, AddingMic
      <4> QED
        BY <4>2, <4>3, EasesSame
    <3> QED
      BY <3>3, <3>4
  <2> QED
    BY <2>1, <2>2 DEF Startable
<1>2. first.g.open \subseteq HeldBy(first.g) \cup {} /\ PageTrue(first.g)
  BY <1>1, StaysHeld DEF Eases
<1>3. b = IF first.run.op = "add" /\ Wants(first.run) = {} THEN AddLocalMediaOpened(first.g, first.run, {}) ELSE first
  BY DEF Begin
<1> HIDE DEF first
<1>4. CASE first.run.op = "add" /\ Wants(first.run) = {}
  <2>1. b = AddLocalMediaOpened(first.g, first.run, {})
    BY <1>3, <1>4
  <2>2. Adding(first.g, first.run) /\ first.run.req \in Asked
    BY <1>1, <1>4 DEF Running
  <2>3. OneEach({} \cup first.run.keep) /\ KindsIn({}, {"mic", "cam"})
    BY <2>2 DEF Adding, KindsIn
  <2>4. Goes(first.g, b.g, b.run)
    BY <1>2, <2>1, <2>2, <2>3, Gathers
  <2>5. h \in PageRecord /\ first.g \in PageRecord /\ b.g \in PageRecord
    BY <1>2, <2>4 DEF PageTrue, Goes
  <2>6. Later(h, b.g)
    BY <1>1, <2>4, <2>5, LaterTransitive DEF Eases, Goes
  <2> QED
    BY <1>1, <2>4, <2>6 DEF Goes, Eases
<1>5. CASE ~(first.run.op = "add" /\ Wants(first.run) = {})
  <2>1. b = first
    BY <1>3, <1>5
  <2> QED
    BY <1>1, <1>2, <2>1 DEF Goes, Eases, Current
<1> QED
  BY <1>4, <1>5

-----------------------------------------------------------------------------
(* What is under way stays what it is.                                     *)

\* No microphone is being exchanged while something else runs, or nothing is
\* up.
LEMMA NoSwaps ==
    ASSUME NEW h, NEW c, NEW S, Beside(h, c, S), c # Idle \/ Ups(h) = {} \/ \A q \in S : q.pc # "swapping"
    PROVE  Swaps(S) = {} /\ \A q \in S : q.pc # "swapping"
<1>1. \A q \in S : q.pc # "swapping"
  <2>1. SUFFICES ASSUME NEW q \in S, q.pc = "swapping" PROVE c = Idle /\ Ups(h) # {}
    OBVIOUS
  <2>2. Exchanging(h, q)
    BY <2>1 DEF Beside, Sharing, Replacing, Recovering
  <2>3. q.op = "recover" /\ q.i \in DOMAIN h.st /\ h.st[q.i].up
    BY <2>2 DEF Exchanging, Lacking
  <2> QED
    BY <2>3 DEF Beside, Ups
<1> QED
  BY <1>1 DEF Swaps

\* ... and none is brought back into what is up.
LEMMA NoneUp ==
    ASSUME NEW h, NEW c, NEW S, Beside(h, c, S), c # Idle
    PROVE  \A q \in S : q.op = "recover" => ~h.st[q.i].up
BY DEF Beside

\* What runs at the head of the queue, while streams and devices go.
LEMMA CurrentStays ==
    ASSUME NEW h, PageTrue(h), NEW k \in PageRecord, Later(h, k), Calm(h, k),
           NEW c, Current(h, c), k.joined \/ c = Idle \/ c.pc # "choices"
    PROVE  Current(k, c)
<1>1. CASE c = Idle
  BY <1>1 DEF Current
<1>2. CASE Running(h, c)
  <2>1. h \in PageRecord /\ DOMAIN h.st \subseteq DOMAIN k.st /\ h.tracks \subseteq k.tracks /\ c # Idle
    <3>1. h \in PageRecord
      BY DEF PageTrue
    <3>2. DOMAIN h.st \subseteq DOMAIN k.st
      BY <3>1, Typed DEF Later
    <3>3. c # Idle
      BY <1>2 DEF Running, Adding, Choosing, AddingMic, SettingUp, Idle
    <3> QED
      BY <3>1, <3>2, <3>3 DEF Later
  <2>2. \A l : CameraLid(h, l) => CameraLid(k, l)
    BY <2>1, CameraLidStays
  <2>3. CASE Adding(h, c)
    <3>1. c.keep \subseteq Cams(k.tracks)
      BY <2>1, <2>3 DEF Adding, Cams, OfKind
    <3>2. c.lid # None => \A i \in CamUps(k) : k.st[i].lid = c.lid /\ k.st[i].raw \cap k.open \subseteq c.keep
      BY <2>3 DEF Adding, Calm
    <3>3. Adding(k, c)
      BY <2>2, <2>3, <3>1, <3>2 DEF Adding
    <3> QED
      BY <1>2, <3>3 DEF Current, Running
  <2>4. CASE Choosing(h, c)
    <3>1. \A i \in CamUps(k) : k.st[i].lid = c.lid /\ k.st[i].raw \cap k.open \subseteq c.tracks
      BY <2>4 DEF Choosing, Calm
    <3>2. k.joined
      BY <2>1, <2>4 DEF Choosing
    <3>3. Choosing(k, c)
      BY <2>1, <2>2, <2>4, <3>1, <3>2 DEF Choosing
    <3> QED
      BY <1>2, <3>3 DEF Current, Running
  <2>5. CASE AddingMic(h, c)
    <3>1. AddingMic(k, c)
      BY <2>1, <2>5 DEF AddingMic, Later
    <3> QED
      BY <1>2, <3>1 DEF Current, Running
  <2>6. CASE SettingUp(h, c)
    <3>1. SettingUp(k, c)
      BY <2>1, <2>6 DEF SettingUp
    <3> QED
      BY <1>2, <3>1 DEF Current, Running
  <2> QED
    BY <1>2, <2>3, <2>4, <2>5, <2>6 DEF Running
<1> QED
  BY <1>1, <1>2 DEF Current

\* What nothing serialises, while the page goes on.
LEMMA BesideStays ==
    ASSUME NEW h, PageTrue(h), NEW k \in PageRecord, Later(h, k),
           NEW c, NEW S, Beside(h, c, S), NEW d, NEW R, R \subseteq S,
           d \in {c, Idle} \/ \A q \in R : q.op = "recover" => ~h.st[q.i].up,
           \A q \in R : q.op = "share" => k.joined,
           \A q \in R : q.pc = "swapping" =>
               k.st[q.i].up /\ q.lost \in k.st[q.i].raw /\ (k.mute => q.new \notin k.enabled)
    PROVE  Beside(k, d, R)
<1>1. DOMAIN h.st \subseteq DOMAIN k.st /\ h.tracks \subseteq k.tracks
  BY Typed DEF Later, PageTrue
<1>2. \A q : Lacking(h, q) => Lacking(k, q)
  BY <1>1 DEF Lacking, Later, Mics, OfKind
<1>3. \A q \in R : Sharing(q) \/ Replacing(k, q) \/ Recovering(k, q) \/ Exchanging(k, q)
  <2>1. SUFFICES ASSUME NEW q \in R PROVE Sharing(q) \/ Replacing(k, q) \/ Recovering(k, q) \/ Exchanging(k, q)
    OBVIOUS
  <2>2. Sharing(q) \/ Replacing(h, q) \/ Recovering(h, q) \/ Exchanging(h, q)
    BY DEF Beside
  <2>3. Replacing(h, q) => Replacing(k, q)
    BY <1>1 DEF Replacing
  <2>4. Recovering(h, q) => Recovering(k, q)
    BY <1>2 DEF Recovering
  <2>5. Exchanging(h, q) => Exchanging(k, q)
    BY <1>1, <1>2 DEF Exchanging, Mics, OfKind
  <2> QED
    BY <2>2, <2>3, <2>4, <2>5
<1>4. \A q \in R : q.op = "recover" /\ k.st[q.i].up => h.st[q.i].up
  <2>1. SUFFICES ASSUME NEW q \in R, q.op = "recover", k.st[q.i].up PROVE h.st[q.i].up
    OBVIOUS
  <2>2. q.i \in DOMAIN h.st
    BY <2>1 DEF Beside, Sharing, Replacing, Recovering, Exchanging, Lacking
  <2> QED
    BY <2>1, <2>2 DEF Later
<1>5. \A q \in R : q.op = "recover" /\ k.st[q.i].up => d = Idle /\ \A p \in R : p.op # "replace"
  BY <1>4 DEF Beside
<1>6. \A p, q \in R : p.op = "recover" /\ q.op = "recover" /\ p.lost = q.lost => p = q
  BY DEF Beside
<1> QED
  BY <1>3, <1>5, <1>6 DEF Beside

-----------------------------------------------------------------------------
(* The queue.                                                              *)

\* A step of the run at the head, and the next one when it has ended.
LEMMA Proceeds ==
    ASSUME PageTrue(g), Waiting(queue), Beside(g, cur, side), cur # Idle,
           NEW res, Goes(g, res.g, res.run), Proceed(res), side' = side
    PROVE  Sound(g', cur', queue', side')
<1>1. Swaps(side) = {} /\ \A q \in side : q.pc # "swapping"
  BY NoSwaps
<1>2. \A q \in side : q.op = "recover" => ~g.st[q.i].up
  BY NoneUp
<1>3. \A q \in side : q.op = "share" => g.joined
  BY DEF Beside
<1>4. /\ PageTrue(res.g) /\ Later(g, res.g) /\ res.g.joined = g.joined
      /\ Current(res.g, res.run) /\ res.g.open \subseteq HeldBy(res.g) \cup Carried(res.run)
  BY DEF Goes
<1>5. \A k, d : k \in PageRecord /\ Later(g, k) /\ k.joined = g.joined => Beside(k, d, side)
  <2>1. SUFFICES ASSUME NEW k \in PageRecord, Later(g, k), k.joined = g.joined, NEW d PROVE Beside(k, d, side)
    OBVIOUS
  <2>2. side \subseteq side
    OBVIOUS
  <2>3. \A q \in side : q.op = "share" => k.joined
    BY <1>3, <2>1
  <2> QED
    BY <1>1, <1>2, <2>1, <2>2, <2>3, BesideStays
<1>6. CASE res.run # Idle
  <2>1. g' = res.g /\ cur' = res.run /\ queue' = queue
    BY <1>6 DEF Proceed
  <2>2. Beside(res.g, res.run, side)
    BY <1>4, <1>5 DEF PageTrue
  <2> QED
    BY <1>1, <1>4, <2>1, <2>2 DEF Sound, HeldTrue
<1>7. CASE res.run = Idle
  <2> DEFINE h == Ended(res.g, cur.req)
  <2>1. Eases(res.g, h)
    <3>1. h = SetLocalMute(res.g, FALSE) \/ h = res.g
      BY DEF Ended
    <3> HIDE DEF h
    <3>2. h = SetLocalMute(res.g, FALSE) => Eases(res.g, h)
      BY <1>4, MutesEases
    <3>3. Eases(res.g, res.g)
      BY <1>4, EasesSame
    <3> QED
      BY <3>1, <3>2, <3>3
  <2>2. Carried(Idle) = {}
    BY DEF Carried
  <2>3. IF queue = <<>> THEN g' = h /\ cur' = Idle /\ UNCHANGED queue
        ELSE g' = Begin(h, Head(queue)).g /\ cur' = Begin(h, Head(queue)).run /\ queue' = Tail(queue)
    BY <1>7 DEF Proceed
  <2> HIDE DEF h
  <2>4. PageTrue(h) /\ h.joined = g.joined /\ h \in PageRecord
    BY <1>4, <2>1 DEF Eases, PageTrue
  <2>5. Later(g, h)
    BY <1>4, <2>1, <2>4, LaterTransitive DEF Eases, PageTrue
  <2>6. h.open \subseteq HeldBy(h)
    <3>1. res.g.open \subseteq HeldBy(res.g) \cup {}
      BY <1>4, <1>7, <2>2
    <3>2. h.open \subseteq HeldBy(h) \cup {}
      BY <2>1, <3>1, StaysHeld DEF Eases
    <3> QED
      BY <3>2
  <2>7. CASE queue = <<>>
    <3>1. g' = h /\ cur' = Idle /\ queue' = queue
      BY <2>3, <2>7
    <3>2. Beside(h, Idle, side)
      BY <1>5, <2>4, <2>5
    <3> QED
      BY <2>4, <2>6, <3>1, <3>2 DEF Sound, HeldTrue, Current
  <2>8. CASE queue # <<>>
    <3> DEFINE r == Head(queue)
               b == Begin(h, r)
    <3>1. g' = b.g /\ cur' = b.run /\ queue' = Tail(queue)
      BY <2>3, <2>8
    <3>2. queue \in Seq(Asked) /\ r = queue[1] /\ r \in Asked /\ 1 \in DOMAIN queue
      BY <2>8 DEF Waiting
    <3>3. r.op = "add" /\ r.lid = None
      BY <3>2 DEF Waiting
    <3>4. Startable(h, r)
      BY <3>2, <3>3 DEF Startable
    <3>5. Waiting(queue')
      <4>1. queue' \in Seq(Asked) /\ \A n \in DOMAIN queue' : n + 1 \in DOMAIN queue /\ queue'[n] = queue[n + 1]
        BY <2>8, <3>1, <3>2
      <4> QED
        BY <4>1 DEF Waiting
    <3> HIDE DEF r, b
    <3>6. Goes(h, b.g, b.run)
      BY <2>4, <2>6, <3>4, Begins DEF b
    <3>7. PageTrue(b.g) /\ b.g.joined = g.joined /\ b.g \in PageRecord
      BY <2>4, <3>6 DEF Goes, PageTrue
    <3>8. Later(g, b.g)
      BY <2>4, <2>5, <3>6, <3>7, LaterTransitive DEF Goes, PageTrue
    <3>9. Beside(b.g, b.run, side)
      BY <1>5, <3>7, <3>8
    <3> QED
      BY <3>1, <3>5, <3>6, <3>7, <3>9 DEF Sound, HeldTrue, Goes
  <2> QED
    BY <2>7, <2>8
<1> QED
  BY <1>6, <1>7

\* A request of the user is begun at once.
LEMMA Asks ==
    ASSUME PageTrue(g), Waiting(queue), Beside(g, cur, side), cur = Idle, \A q \in side : q.op # "recover",
           NEW h, Eases(g, h), h.open \subseteq HeldBy(h),
           NEW r, Startable(h, r), Enqueue(h, r), side' = side
    PROVE  Sound(g', cur', queue', side')
<1> DEFINE b == Begin(h, r)
<1>1. g' = b.g /\ cur' = b.run /\ queue' = queue
  BY DEF Enqueue
<1> HIDE DEF b
<1>2. Goes(h, b.g, b.run)
  BY Begins DEF Eases, b
<1>3. PageTrue(b.g) /\ b.g \in PageRecord /\ h \in PageRecord /\ g \in PageRecord /\ b.g.joined = g.joined
  BY <1>2 DEF Goes, Eases, PageTrue
<1>4. Later(g, b.g)
  BY <1>2, <1>3, LaterTransitive DEF Goes, Eases
<1>5. \A q \in side : q.pc # "swapping"
  BY DEF Beside, Sharing, Replacing, Recovering, Exchanging
<1>6. \A q \in side : q.op = "share" => b.g.joined
  BY <1>3 DEF Beside
<1>7. Beside(b.g, b.run, side)
  <2>1. side \subseteq side
    OBVIOUS
  <2> QED
    BY <1>3, <1>4, <1>5, <1>6, <2>1, BesideStays
<1>8. Swaps(side) = {}
  BY <1>5 DEF Swaps
<1> QED
  BY <1>1, <1>2, <1>3, <1>7, <1>8 DEF Sound, HeldTrue, Goes

-----------------------------------------------------------------------------
(* The steps of the run at the head of the queue.                          *)

\* Nothing comes, and then a run goes on.
LEMMA GoesFrom ==
    ASSUME NEW h, PageTrue(h), NEW m, PageTrue(m), Later(h, m), m.joined = h.joined, NEW k, NEW c, Goes(m, k, c)
    PROVE  Goes(h, k, c)
<1>1. h \in PageRecord /\ m \in PageRecord /\ k \in PageRecord
  BY DEF PageTrue, Goes
<1>2. Later(h, k)
  BY <1>1, LaterTransitive DEF Goes
<1> QED
  BY <1>2 DEF Goes

\* Nothing comes, and the run has ended.
LEMMA GoesIdle ==
    ASSUME NEW h, PageTrue(h), h.open \subseteq HeldBy(h), NEW k, Eases(h, k)
    PROVE  Goes(h, k, Idle)
<1>1. k.open \subseteq HeldBy(k)
  BY DEF Eases, Holding
<1> QED
  BY <1>1 DEF Eases, Goes, Current

\* Tracks are opened, or none are.
LEMMA OpensAny ==
    ASSUME NEW h, PageTrue(h), NEW kinds, kinds \subseteq {"mic", "cam", "screen"},
           Opened(h) + Cardinality(kinds) <= MaxOpens, NEW k, k = Open(h, kinds)
    PROVE  Opens(h, kinds, Fresh(h, k), k)
<1>1. CASE kinds = {}
  BY <1>1, OpensNone
<1>2. CASE kinds # {}
  BY <1>2, Opening
<1> QED
  BY <1>1, <1>2

\* While a run is at the head, what is open is held by a stream, or the run.
LEMMA RunHolds ==
    ASSUME Sound(g, cur, queue, side), cur # Idle
    PROVE  /\ PageTrue(g) /\ Waiting(queue) /\ Beside(g, cur, side) /\ Running(g, cur) /\ cur.req \in Asked
           /\ g.open \subseteq HeldBy(g) \cup Carried(cur)
           /\ cur.pc # "choices" => g.open \subseteq HeldBy(g)
           /\ cur.pc = "opening" => Adding(g, cur) \/ AddingMic(g, cur)
           /\ cur.pc = "choices" => Choosing(g, cur) /\ Carried(cur) = cur.tracks
           /\ cur.pc = "setup" => cur.i \in DOMAIN g.st
<1>1. Beside(g, cur, side) /\ Running(g, cur)
  BY DEF Sound, Current
<1>2. Swaps(side) = {}
  BY <1>1, NoSwaps
<1>3. g.open \subseteq HeldBy(g) \cup Carried(cur)
  BY <1>2 DEF Sound, HeldTrue
<1>4. cur.pc # "choices" => Carried(cur) = {}
  BY DEF Carried
<1>5. cur.pc = "opening" => Adding(g, cur) \/ AddingMic(g, cur)
  BY <1>1 DEF Running, Choosing, SettingUp
<1>6. cur.pc = "choices" => Choosing(g, cur) /\ Carried(cur) = cur.tracks
  BY <1>1 DEF Running, Choosing, SettingUp, Adding, AddingMic, Carried
<1>7. cur.pc = "setup" => cur.i \in DOMAIN g.st
  BY <1>1 DEF Running, Choosing, SettingUp, Adding, AddingMic
<1> QED
  BY <1>1, <1>3, <1>4, <1>5, <1>6, <1>7 DEF Sound, Running

\* addMicrophoneNow(), when the microphone has been opened.
LEMMA MicrophoneAdds ==
    ASSUME NEW h, PageTrue(h), NEW run, AddingMic(h, run), NEW t \in h.tracks, Kind(t) = "mic",
           h.open \subseteq HeldBy(h) \cup {t}, NEW k, k = AddMicrophoneOpened(h, run, t)
    PROVE  Goes(h, k, Idle)
<1>1. run.i \in DOMAIN h.st /\ h.st[run.i].label = "camera" /\ run.i # None
  BY Typed DEF AddingMic, PageTrue
<1>2. CASE ~Usable(h, run.i)
  <2>1. k = StopStream(h, {t})
    BY <1>2 DEF AddMicrophoneOpened
  <2>2. Eases(h, k) /\ k.open = h.open \ {t}
    BY <2>1, StopsEases
  <2>3. k.open \subseteq HeldBy(k)
    BY <2>2 DEF Eases, Holding
  <2> QED
    BY <2>2, <2>3 DEF Eases, Goes, Current
<1>3. CASE Usable(h, run.i)
  <2>1. PICK i \in Ups(h) : i = run.i
    BY <1>1, <1>3 DEF Usable, Ups
  <2>2. k = AddMicrophoneTrack(h, i, t)
    BY <1>3, <2>1 DEF AddMicrophoneOpened
  <2>3. h.st[i].label = "camera" /\ Mics(h.st[i].raw) = {}
    BY <1>1, <1>3, <2>1 DEF Usable, HasAudio
  <2>4. /\ PageTrue(k) /\ Later(h, k) /\ Ups(k) = Ups(h)
        /\ k.open = h.open /\ k.joined = h.joined
        /\ DOMAIN k.st = DOMAIN h.st /\ t \in k.st[i].raw
        /\ \A j \in DOMAIN h.st : h.st[j].raw \subseteq k.st[j].raw
    BY <2>2, <2>3, GetsMicrophone
  <2>5. \A j \in Ups(h) : h.st[j].raw \subseteq k.st[j].raw
    BY <2>4 DEF Ups
  <2>6. HeldBy(h) \subseteq HeldBy(k) /\ t \in HeldBy(k)
    BY <2>4, <2>5 DEF HeldBy
  <2> QED
    BY <2>4, <2>6 DEF Goes, Current
<1> QED
  BY <1>2, <1>3

\* getUserMedia() gives what it was asked for.
LEMMA UserMediaOpensSound ==
    ASSUME Sound(g, cur, queue, side), UserMediaOpens
    PROVE  Sound(g', cur', queue', side')
<1> DEFINE kinds == IF cur.op = "mic" THEN {"mic"} ELSE Wants(cur)
           h == Open(g, kinds)
           T == Fresh(g, h)
<1>1. /\ cur # Idle /\ cur.pc = "opening" /\ MayOpen(kinds) /\ side' = side
      /\ IF cur.op = "add" THEN Proceed(AddLocalMediaOpened(h, cur, T))
         ELSE Proceed(Result(AddMicrophoneOpened(h, cur, CHOOSE t \in T : TRUE), Idle))
  BY DEF UserMediaOpens
<1>2. /\ PageTrue(g) /\ Waiting(queue) /\ Beside(g, cur, side) /\ cur.req \in Asked
      /\ g.open \subseteq HeldBy(g)
      /\ Adding(g, cur) \/ AddingMic(g, cur)
      /\ Current(g, cur)
  BY <1>1, RunHolds DEF Sound
<1>3. kinds \subseteq {"mic", "cam"}
  BY <1>2 DEF Wants, Asked
<1>4. Opened(g) + Cardinality(kinds) <= MaxOpens
  BY <1>1 DEF MayOpen
<1>5. kinds \subseteq {"mic", "cam", "screen"}
  BY <1>3
<1> HIDE DEF kinds
<1>6. Opens(g, kinds, T, h)
  BY <1>2, <1>4, <1>5, OpensAny
<1> HIDE DEF h, T
<1>7. /\ PageTrue(h) /\ Later(g, h) /\ Calm(g, h) /\ h.joined = g.joined /\ h \in PageRecord
      /\ h.open \subseteq HeldBy(h) \cup T /\ T \subseteq h.tracks
  BY <1>2, <1>6 DEF Opens, PageTrue
<1>8. Current(h, cur)
  BY <1>1, <1>2, <1>7, CurrentStays
<1>9. Running(h, cur)
  BY <1>1, <1>8 DEF Current
<1>10. CASE cur.op = "add"
  <2> DEFINE res == AddLocalMediaOpened(h, cur, T)
  <2>1. Adding(h, cur)
    BY <1>1, <1>9, <1>10 DEF Running, Choosing, SettingUp, AddingMic
  <2>2. KindsIn(T, {"mic", "cam"})
    BY <1>3, <1>6 DEF Opens, KindsIn
  <2>3. OneEach(T \cup cur.keep)
    <3>1. \A t \in cur.keep : Kind(t) = "cam"
      BY <2>1 DEF Adding, Cams, OfKind
    <3>2. cur.keep # {} => \A t \in T : Kind(t) # "cam"
      BY <1>6, <1>10 DEF Opens, KindsIn, kinds, Wants
    <3>3. OneEach(T) /\ OneEach(cur.keep)
      BY <1>6, <2>1 DEF Opens, Adding
    <3> QED
      BY <3>1, <3>2, <3>3 DEF OneEach
  <2> HIDE DEF res
  <2>4. Goes(h, res.g, res.run)
    BY <1>2, <1>7, <2>1, <2>2, <2>3, Gathers DEF res
  <2>5. Goes(g, res.g, res.run)
    BY <1>2, <1>7, <2>4, GoesFrom
  <2>6. Proceed(res)
    BY <1>1, <1>10 DEF res
  <2> QED
    BY <1>1, <1>2, <2>5, <2>6, Proceeds
<1>11. CASE cur.op # "add"
  <2> DEFINE t == CHOOSE u \in T : TRUE
             k == AddMicrophoneOpened(h, cur, t)
             res == Result(k, Idle)
  <2>1. AddingMic(h, cur) /\ cur.op = "mic"
    BY <1>1, <1>9, <1>11 DEF Running, Choosing, SettingUp, AddingMic, Adding
  <2>2. kinds = {"mic"}
    BY <2>1 DEF kinds
  <2>3. PICK u \in T : Kind(u) = "mic"
    BY <1>6, <2>2 DEF Opens
  <2>4. t \in T
    BY <2>3
  <2>5. Kind(t) = "mic" /\ T = {t}
    BY <1>6, <2>2, <2>4 DEF Opens, KindsIn, OneEach
  <2> HIDE DEF t
  <2>6. t \in h.tracks /\ h.open \subseteq HeldBy(h) \cup {t}
    BY <1>7, <2>4, <2>5
  <2>7. Goes(h, k, Idle)
    BY <1>7, <2>1, <2>5, <2>6, MicrophoneAdds
  <2>8. Proceed(res)
    BY <1>1, <1>11 DEF t
  <2> HIDE DEF k
  <2>9. res.g = k /\ res.run = Idle
    BY DEF Result
  <2> HIDE DEF res
  <2>10. Goes(g, res.g, res.run)
    BY <1>2, <1>7, <2>7, <2>9, GoesFrom
  <2> QED
    BY <1>1, <1>2, <2>8, <2>10, Proceeds
<1> QED
  BY <1>10, <1>11

\* ... or does not.
LEMMA UserMediaFailsSound ==
    ASSUME Sound(g, cur, queue, side), UserMediaFails
    PROVE  Sound(g', cur', queue', side')
<1> DEFINE res == Result(g, Idle)
<1>1. cur # Idle /\ cur.pc = "opening" /\ Proceed(res) /\ side' = side
  BY DEF UserMediaFails
<1>2. PageTrue(g) /\ Waiting(queue) /\ Beside(g, cur, side) /\ g.open \subseteq HeldBy(g)
  BY <1>1, RunHolds
<1>3. res.g = g /\ res.run = Idle
  BY DEF Result
<1> HIDE DEF res
<1>4. Goes(g, res.g, res.run)
  BY <1>2, <1>3, EasesSame, GoesIdle
<1> QED
  BY <1>1, <1>2, <1>4, Proceeds

\* A microphone cannot be added: the camera is opened again with it.
LEMMA AddTrackFailsSound ==
    ASSUME Sound(g, cur, queue, side), AddTrackFails
    PROVE  Sound(g', cur', queue', side')
<1> DEFINE r == Request("add", g.st[cur.i].lid, {"mic", "cam"}, TRUE, cur.req.unmute)
           res == AddLocalMediaNow(g, r)
<1>1. cur # Idle /\ cur.pc = "opening" /\ cur.op = "mic" /\ Usable(g, cur.i) /\ Proceed(res) /\ side' = side
  BY DEF AddTrackFails, Republish
<1>2. /\ PageTrue(g) /\ Waiting(queue) /\ Beside(g, cur, side) /\ g.open \subseteq HeldBy(g)
      /\ cur.req \in Asked /\ (Adding(g, cur) \/ AddingMic(g, cur))
  BY <1>1, RunHolds
<1>3. cur.i \in DOMAIN g.st /\ g.st[cur.i].label = "camera" /\ g.st[cur.i].up /\ g.st[cur.i] \in Stream
  BY <1>1, <1>2, Typed DEF Adding, AddingMic, Usable, PageTrue
<1>4. cur.i \in CamUps(g) /\ \A i \in CamUps(g) : i = cur.i
  BY <1>2, <1>3 DEF CamUps, Ups, PageTrue, Lids
<1>5. r \in Asked /\ r.op = "add" /\ r.lid = g.st[cur.i].lid
  BY <1>2, <1>3 DEF Request, Asked, Stream
<1> HIDE DEF r
<1>6. Startable(g, r)
  BY <1>3, <1>4, <1>5 DEF Startable, CameraLid
<1> HIDE DEF res
<1>7. Eases(g, res.g) /\ Running(res.g, res.run)
  BY <1>2, <1>5, <1>6, Releases DEF res
<1>8. Goes(g, res.g, res.run)
  BY <1>2, <1>7 DEF Goes, Eases, Holding, Current
<1> QED
  BY <1>1, <1>2, <1>8, Proceeds

\* The pickers have been filled.
LEMMA ChoicesSetSound ==
    ASSUME Sound(g, cur, queue, side), ChoicesSet
    PROVE  Sound(g', cur', queue', side')
<1> DEFINE res == AddLocalMediaPublish(g, cur)
<1>1. cur # Idle /\ cur.pc = "choices" /\ Proceed(res) /\ side' = side
  BY DEF ChoicesSet, Filling
<1>2. /\ PageTrue(g) /\ Waiting(queue) /\ Beside(g, cur, side) /\ cur.req \in Asked
      /\ Choosing(g, cur) /\ g.open \subseteq HeldBy(g) \cup cur.tracks
  BY <1>1, RunHolds
<1> HIDE DEF res
<1>3. Goes(g, res.g, res.run)
  BY <1>2, Publishes DEF res
<1> QED
  BY <1>1, <1>2, <1>3, Proceeds

\* The filter of what has been published starts, or does not.
LEMMA FilterStartsSound ==
    ASSUME Sound(g, cur, queue, side), FilterStarts
    PROVE  Sound(g', cur', queue', side')
<1>1. PICK ok \in BOOLEAN : cur # Idle /\ cur.pc = "setup" /\ Proceed(Result(Filtered(g, cur.i, ok), Idle)) /\ side' = side
  BY DEF FilterStarts
<1> DEFINE k == Filtered(g, cur.i, ok)
           res == Result(k, Idle)
<1>2. /\ PageTrue(g) /\ Waiting(queue) /\ Beside(g, cur, side)
      /\ g.open \subseteq HeldBy(g) /\ cur.i \in DOMAIN g.st
  BY <1>1, RunHolds
<1>3. Eases(g, k)
  BY <1>2, FilteredEases
<1>4. Proceed(res)
  BY <1>1
<1> HIDE DEF k
<1>5. res.g = k /\ res.run = Idle
  BY DEF Result
<1> HIDE DEF res
<1>6. Goes(g, res.g, res.run)
  BY <1>2, <1>3, <1>5, GoesIdle
<1> QED
  BY <1>1, <1>2, <1>4, <1>6, Proceeds

-----------------------------------------------------------------------------
(* Beside the queue.                                                       *)

\* Streams and devices go, a run beside the queue may end, and no microphone
\* is being exchanged.
LEMMA EasesSound ==
    ASSUME NEW h, NEW c, NEW q, NEW S, Sound(h, c, q, S), \A p \in S : p.pc # "swapping",
           NEW k, Eases(h, k), NEW R, R \subseteq S
    PROVE  Sound(k, c, q, R) /\ Swaps(R) = {}
<1>1. /\ PageTrue(h) /\ PageTrue(k) /\ k \in PageRecord /\ Later(h, k) /\ Calm(h, k) /\ k.joined = h.joined
      /\ Current(h, c) /\ Beside(h, c, S) /\ HeldTrue(h, c, S)
  BY DEF Sound, Eases, PageTrue
<1>2. k.joined \/ c = Idle \/ c.pc # "choices"
  BY <1>1 DEF Current, Running, Adding, Choosing, AddingMic, SettingUp
<1>3. Current(k, c)
  BY <1>1, <1>2, CurrentStays
<1>4. Beside(k, c, R)
  <2>1. \A p \in R : p.op = "share" => k.joined
    BY <1>1 DEF Beside
  <2> QED
    BY <1>1, <2>1, BesideStays
<1>5. Swaps(S) = {} /\ Swaps(R) = {}
  BY DEF Swaps
<1>6. HeldTrue(k, c, R)
  <2>1. h.open \subseteq HeldBy(h) \cup Carried(c)
    BY <1>1, <1>5 DEF HeldTrue
  <2>2. k.open \subseteq HeldBy(k) \cup Carried(c)
    BY <2>1, StaysHeld DEF Eases
  <2> QED
    BY <2>2 DEF HeldTrue
<1> QED
  BY <1>1, <1>3, <1>4, <1>5, <1>6 DEF Sound

\* A run beside the queue ends, or becomes another that is true.
LEMMA SideSound ==
    ASSUME NEW h, NEW c, NEW q, NEW S, Sound(h, c, q, S), NEW r \in S, r.pc # "swapping"
    PROVE  Sound(h, c, q, S \ {r}) /\ Swaps(S \ {r}) = Swaps(S)
<1>1. Swaps(S \ {r}) = Swaps(S)
  BY DEF Swaps
<1>2. Beside(h, c, S \ {r})
  BY DEF Sound, Beside
<1> QED
  BY <1>1, <1>2 DEF Sound, HeldTrue

\* The filter of what has taken another's place starts, or does not.
LEMMA ReplacementStartsSound ==
    ASSUME Sound(g, cur, queue, side), ReplacementStarts
    PROVE  Sound(g', cur', queue', side')
<1>1. PICK r \in side, ok \in BOOLEAN :
         r.pc = "setup" /\ g' = Filtered(g, r.i, ok) /\ side' = side \ {r} /\ UNCHANGED <<cur, queue>>
  BY DEF ReplacementStarts
<1>2. PageTrue(g) /\ Beside(g, cur, side)
  BY DEF Sound
<1>3. Replacing(g, r)
  BY <1>1, <1>2 DEF Beside, Sharing, Recovering, Exchanging
<1>4. Eases(g, g')
  BY <1>1, <1>2, <1>3, FilteredEases DEF Replacing
<1>5. \A q \in side : q.pc # "swapping"
  <2>1. SUFFICES ASSUME NEW q \in side, q.pc = "swapping" PROVE FALSE
    OBVIOUS
  <2>2. Exchanging(g, q)
    BY <1>2, <2>1 DEF Beside, Sharing, Replacing, Recovering
  <2> QED
    BY <1>2, <1>3, <2>2 DEF Beside, Exchanging, Replacing
<1>6. side \ {r} \subseteq side
  OBVIOUS
<1>7. Sound(g', cur, queue, side \ {r})
  BY <1>4, <1>5, <1>6, EasesSound
<1> QED
  BY <1>1, <1>7

\* A screen comes: the camera stays as it is.
LEMMA ScreenComes ==
    ASSUME NEW h, PageTrue(h), h.joined, NEW T, T \subseteq h.tracks, OneEach(T), KindsIn(T, {"screen"}),
           NEW n, n = NewUpStream(h, "screenshare", None, "none", T), NEW k, k = SetUp(n, Newest(n))
    PROVE  TookBeside(h, k, T)
<1>1. Fits(h, "screenshare", None, T)
  BY DEF Fits, None
<1>2. Came(h, n, "screenshare", None, T)
  BY <1>1, Comes DEF Looks
<1>3. PageTrue(n) /\ Newest(n) \in DOMAIN n.st
  BY <1>2 DEF Came, Ups, Newest
<1>4. PageTrue(k) /\ Steady(n, k)
  BY <1>3, SetsUp
<1>5. \A i \in Ups(h) : h.st[i].lid # None /\ i \in DOMAIN h.st
  <2>1. SUFFICES ASSUME NEW i \in Ups(h) PROVE h.st[i].lid # None /\ i \in DOMAIN h.st
    OBVIOUS
  <2>2. i \in DOMAIN h.st /\ h.st[i].lid \in 1..i
    BY DEF PageTrue, Lids, Ups
  <2> QED
    BY <2>2, Typed DEF None, PageTrue
<1>6. Took(h, k, T)
  <2>1. Yields(h, None, T)
    BY <1>5 DEF Yields
  <2> QED
    BY <1>2, <1>4, <2>1, Takes
<1>7. Ups(n) = Ups(h) \cup {Len(n.st)} /\ n.st[Len(n.st)].label = "screenshare"
  BY <1>2, <1>5 DEF Came
<1>8. \A i \in Ups(h) : /\ k.st[i].up /\ k.st[i].raw = h.st[i].raw
                        /\ k.st[i].label = h.st[i].label /\ k.st[i].lid = h.st[i].lid
  <2>1. SUFFICES ASSUME NEW i \in Ups(h)
                 PROVE  /\ k.st[i].up /\ k.st[i].raw = h.st[i].raw
                        /\ k.st[i].label = h.st[i].label /\ k.st[i].lid = h.st[i].lid
    OBVIOUS
  <2>2. Alike(n.st[i], h.st[i]) /\ n.st[i].up /\ i \in DOMAIN n.st
    BY <1>2, <1>5, <1>7 DEF Came, Ups
  <2> QED
    BY <1>4, <2>2 DEF Steady, Alike
<1>9. CamUps(k) \subseteq CamUps(h)
  <2>1. CamUps(k) = CamUps(n)
    BY <1>3, <1>4, SteadyIs
  <2>2. SUFFICES ASSUME NEW i \in CamUps(n) PROVE i \in CamUps(h)
    BY <2>1
  <2>3. i \in Ups(h) /\ n.st[i].label = "camera"
    BY <1>7 DEF CamUps
  <2>4. h.st[i].label = "camera"
    BY <1>2, <1>5, <2>3 DEF Came, Alike
  <2> QED
    BY <2>3, <2>4 DEF CamUps
<1>10. Calm(h, k)
  <2>1. CamUps(h) \subseteq Ups(h)
    BY DEF CamUps
  <2> QED
    BY <1>6, <1>8, <1>9, <2>1 DEF Calm, Took
<1> QED
  BY <1>4, <1>6, <1>8, <1>10 DEF TookBeside

\* getDisplayMedia()
LEMMA ScreenPickedSound ==
    ASSUME Sound(g, cur, queue, side), ScreenPicked
    PROVE  Sound(g', cur', queue', side')
<1>1. PICK r \in side, ok \in BOOLEAN : r.op = "share" /\ ScreenPicked!(r, ok)
  BY DEF ScreenPicked
<1> DEFINE h == Open(g, {"screen"})
           T == Fresh(g, h)
           n == NewUpStream(h, "screenshare", None, "none", T)
           k == SetUp(n, Newest(n))
           R == side \ {r}
<1>2. /\ side' = R /\ cur' = cur /\ queue' = queue
      /\ ok => MayOpen({"screen"})
      /\ g' = IF ok THEN k ELSE g
  BY <1>1
<1>3. /\ PageTrue(g) /\ Current(g, cur) /\ Waiting(queue) /\ Beside(g, cur, side) /\ HeldTrue(g, cur, side)
  BY DEF Sound
<1>4. Sharing(r) /\ g.joined
  BY <1>1, <1>3 DEF Beside, Replacing, Recovering, Exchanging
<1>5. Sound(g, cur, queue, R) /\ Swaps(R) = Swaps(side)
  BY <1>4, SideSound DEF Sharing
<1>6. CASE ~ok
  BY <1>2, <1>5, <1>6
<1>7. CASE ok
  <2>1. Opened(g) + Cardinality({"screen"}) <= MaxOpens
    BY <1>2, <1>7 DEF MayOpen
  <2>2. Opens(g, {"screen"}, T, h)
    BY <1>3, <2>1, OpensAny
  <2> HIDE DEF h, T
  <2>3. /\ PageTrue(h) /\ Later(g, h) /\ Calm(g, h) /\ h.joined = g.joined /\ h.st = g.st /\ h.mute = g.mute
        /\ h.open = g.open \cup T /\ h.enabled = g.enabled \cup T /\ T \cap g.tracks = {} /\ Ups(h) = Ups(g)
        /\ HeldBy(h) = HeldBy(g)
        /\ T \subseteq h.tracks /\ OneEach(T) /\ KindsIn(T, {"screen"})
    BY <2>2 DEF Opens
  <2>11. n = NewUpStream(h, "screenshare", None, "none", T) /\ k = SetUp(n, Newest(n))
    OBVIOUS
  <2> HIDE DEF n, k
  <2>4. /\ PageTrue(k) /\ Later(h, k) /\ Calm(h, k) /\ Holding(h, k) /\ T \subseteq HeldBy(k)
        /\ k.joined = h.joined /\ k.open = h.open /\ k.mute = h.mute
        /\ k.enabled \subseteq h.enabled
        /\ \A i \in Ups(h) : k.st[i].up /\ k.st[i].raw = h.st[i].raw
    <3>1. TookBeside(h, k, T)
      BY <1>4, <2>3, <2>11, ScreenComes
    <3> QED
      BY <3>1 DEF TookBeside, Took
  <2>5. g \in PageRecord /\ h \in PageRecord /\ k \in PageRecord
    BY <1>3, <2>3, <2>4 DEF PageTrue
  <2>6. Later(g, k) /\ Calm(g, k)
    BY <2>3, <2>4, <2>5, LaterTransitive, CalmTransitive
  <2>7. Current(k, cur)
    BY <1>3, <1>4, <2>3, <2>4, <2>5, <2>6, CurrentStays
  <2>8. \A q \in R : q.pc = "swapping" => k.st[q.i].up /\ q.lost \in k.st[q.i].raw /\ (k.mute => q.new \notin k.enabled)
    <3>1. SUFFICES ASSUME NEW q \in R, q.pc = "swapping"
                   PROVE  k.st[q.i].up /\ q.lost \in k.st[q.i].raw /\ (k.mute => q.new \notin k.enabled)
      OBVIOUS
    <3>2. Exchanging(g, q)
      BY <1>3, <3>1 DEF Beside, Sharing, Replacing, Recovering
    <3>3. /\ q.i \in Ups(g) /\ q.lost \in g.st[q.i].raw /\ q.new \in g.tracks /\ (g.mute => q.new \notin g.enabled)
      BY <3>2 DEF Exchanging, Lacking, Ups, Mics, OfKind
    <3> QED
      BY <2>3, <2>4, <3>3
  <2>9. Beside(k, cur, R)
    <3>1. \A q \in R : q.op = "share" => k.joined
      BY <1>4, <2>3, <2>4
    <3>2. R \subseteq side /\ cur \in {cur, Idle}
      OBVIOUS
    <3> HIDE DEF R
    <3> QED
      BY <1>3, <2>5, <2>6, <2>8, <3>1, <3>2, BesideStays
  <2>10. HeldTrue(k, cur, R)
    <3> DEFINE X == Carried(cur) \cup Swaps(R) \cup T
    <3>1. h.open \subseteq HeldBy(h) \cup X
      BY <1>3, <1>5, <2>3 DEF HeldTrue
    <3> HIDE DEF X
    <3>2. k.open \subseteq HeldBy(k) \cup X
      BY <2>4, <3>1, StaysHeld
    <3> QED
      BY <2>4, <3>2 DEF HeldTrue, X
  <2> QED
    BY <1>2, <1>3, <1>7, <2>4, <2>7, <2>9, <2>10 DEF Sound
<1> QED
  BY <1>6, <1>7

-----------------------------------------------------------------------------
(* A microphone is brought back.                                           *)

\* A run that brings one back goes on.
LEMMA Becoming ==
    ASSUME NEW h, NEW c, NEW S, Beside(h, c, S), NEW r \in S, r.op = "recover",
           NEW q, q.op = "recover", q.i = r.i, q.lost = r.lost, Recovering(h, q) \/ Exchanging(h, q)
    PROVE  Beside(h, c, (S \ {r}) \cup {q})
<1> DEFINE R == (S \ {r}) \cup {q}
<1>1. \A p \in R : Sharing(p) \/ Replacing(h, p) \/ Recovering(h, p) \/ Exchanging(h, p)
  BY DEF Beside
<1>2. \A p \in R : p.op = "share" => h.joined
  BY DEF Beside
<1>3. \A p \in R : p.op = "recover" /\ h.st[p.i].up => c = Idle /\ \A o \in R : o.op # "replace"
  BY DEF Beside
<1>4. \A o, p \in R : o.op = "recover" /\ p.op = "recover" /\ o.lost = p.lost => o = p
  BY DEF Beside
<1> QED
  BY <1>1, <1>2, <1>3, <1>4 DEF Beside

\* The run of a microphone that has not come back.
LEMMA IsRecovering ==
    ASSUME NEW h, NEW c, NEW S, Beside(h, c, S), NEW r \in S, r.op = "recover", r.pc # "swapping"
    PROVE  Recovering(h, r)
BY DEF Beside, Sharing, Replacing, Exchanging

\* A pause is over.
LEMMA ReopenSound ==
    ASSUME Sound(g, cur, queue, side), NEW r \in side, Reopen(r), UNCHANGED <<cur, queue>>
    PROVE  Sound(g', cur', queue', side')
<1> DEFINE q == [r EXCEPT !.pc = "opening"]
<1>1. r.op = "recover" /\ r.pc = "waiting" /\ g' = g /\ (side' = side \ {r} \/ side' = (side \ {r}) \cup {q})
  BY DEF Reopen, Becomes
<1>2. Sound(g, cur, queue, side \ {r}) /\ Swaps(side \ {r}) = Swaps(side)
  BY <1>1, SideSound
<1>3. CASE side' = side \ {r}
  BY <1>1, <1>2, <1>3
<1>4. CASE side' = (side \ {r}) \cup {q}
  <2>1. Beside(g, cur, side)
    BY DEF Sound
  <2>2. Recovering(g, r)
    BY <1>1, <2>1, IsRecovering
  <2>3. q.op = "recover" /\ q.i = r.i /\ q.lost = r.lost /\ Recovering(g, q) /\ q.pc = "opening"
    BY <2>2 DEF Recovering, Lacking
  <2> HIDE DEF q
  <2>4. Beside(g, cur, side')
    BY <1>1, <1>4, <2>1, <2>3, Becoming
  <2>5. Swaps(side') = Swaps(side)
    BY <1>1, <1>4, <2>3 DEF Swaps
  <2> QED
    BY <1>1, <2>4, <2>5 DEF Sound, HeldTrue
<1> QED
  BY <1>1, <1>3, <1>4

\* An attempt has failed.
LEMMA ReopenFailsSound ==
    ASSUME Sound(g, cur, queue, side), NEW r \in side, ReopenFails(r), UNCHANGED <<cur, queue>>
    PROVE  Sound(g', cur', queue', side')
<1> DEFINE q == [r EXCEPT !.pc = "waiting", !.tries = @ + 1]
           k == GiveUp(g, r)
           R == side \ {r}
<1>1. /\ r.op = "recover" /\ r.pc = "opening"
      /\ (side' = R \cup {q} /\ g' = g) \/ (side' = R /\ g' = k)
  BY DEF ReopenFails, Becomes
<1>2. Sound(g, cur, queue, R) /\ Swaps(R) = Swaps(side)
  BY <1>1, SideSound
<1>3. Beside(g, cur, side) /\ PageTrue(g) /\ Current(g, cur) /\ HeldTrue(g, cur, side) /\ Waiting(queue)
  BY DEF Sound
<1>4. Recovering(g, r)
  BY <1>1, <1>3, IsRecovering
<1>5. CASE side' = R \cup {q} /\ g' = g
  <2>1. q.op = "recover" /\ q.i = r.i /\ q.lost = r.lost /\ Recovering(g, q) /\ q.pc = "waiting"
    BY <1>4 DEF Recovering, Lacking
  <2> HIDE DEF q
  <2>2. Beside(g, cur, side')
    BY <1>1, <1>3, <1>5, <2>1, Becoming
  <2>3. Swaps(side') = Swaps(side)
    BY <1>1, <1>5, <2>1 DEF Swaps
  <2> QED
    BY <1>3, <1>5, <2>2, <2>3 DEF Sound, HeldTrue
<1>6. CASE side' = R /\ g' = k
  <2> HIDE DEF k, R
  <2>1. /\ PageTrue(k) /\ Later(g, k) /\ Calm(g, k)
        /\ k.enabled = g.enabled /\ k.mute = g.mute /\ k.joined = g.joined
        /\ \A t \in k.open : t \in g.open /\ (t \in HeldBy(g) => t \in HeldBy(k))
        /\ \/ \A i \in DOMAIN g.st : k.st[i].up = g.st[i].up /\ k.st[i].raw \in {g.st[i].raw, g.st[i].raw \ {r.lost}}
           \/ Wanted(g, r) /\ ~VideoLive(g, r.i)
        /\ \A i \in DOMAIN g.st : i # r.i => k.st[i].up = g.st[i].up /\ k.st[i].raw = g.st[i].raw
    BY <1>3, <1>4, GivesUp DEF k
  <2>2. k \in PageRecord
    BY <2>1 DEF PageTrue
  <2>3. Current(k, cur)
    <3>1. k.joined \/ cur = Idle \/ cur.pc # "choices"
      BY <1>3, <2>1 DEF Current, Running, Adding, Choosing, AddingMic, SettingUp
    <3> QED
      BY <1>3, <2>1, <2>2, <3>1, CurrentStays
  <2>4. \A p \in R : p.pc = "swapping" => k.st[p.i].up /\ p.lost \in k.st[p.i].raw /\ (k.mute => p.new \notin k.enabled)
    <3>1. SUFFICES ASSUME NEW p \in side, p # r, p.pc = "swapping"
                   PROVE  k.st[p.i].up /\ p.lost \in k.st[p.i].raw /\ (k.mute => p.new \notin k.enabled)
      BY DEF R
    <3>2. Exchanging(g, p)
      BY <1>3, <3>1 DEF Beside, Sharing, Replacing, Recovering
    <3>3. /\ p.i \in DOMAIN g.st /\ g.st[p.i].up /\ p.lost \in g.st[p.i].raw /\ p.op = "recover"
          /\ Kind(p.lost) = "mic" /\ (g.mute => p.new \notin g.enabled)
      BY <3>2 DEF Exchanging, Lacking, Mics, OfKind
    <3>4. p.lost # r.lost
      BY <1>1, <1>3, <3>1, <3>3 DEF Beside
    <3>5. k.st[p.i].up /\ p.lost \in k.st[p.i].raw
      <4>1. CASE \A i \in DOMAIN g.st : k.st[i].up = g.st[i].up /\ k.st[i].raw \in {g.st[i].raw, g.st[i].raw \ {r.lost}}
        BY <3>3, <3>4, <4>1
      <4>2. CASE Wanted(g, r) /\ ~VideoLive(g, r.i)
        <5>1. r.lost \in g.st[r.i].raw /\ Kind(r.lost) = "mic"
          BY <1>4, <4>2 DEF Wanted, Recovering, Lacking, Mics, OfKind
        <5>2. OneEach(g.st[p.i].raw)
          BY <1>3, <3>3 DEF PageTrue, Streams, StreamTrue
        <5>3. p.i # r.i
          BY <3>3, <3>4, <5>1, <5>2 DEF OneEach
        <5> QED
          BY <2>1, <3>3, <5>3
      <4> QED
        BY <2>1, <4>1, <4>2
    <3> QED
      BY <2>1, <3>3, <3>5
  <2>5. Beside(k, cur, R)
    <3>1. R \subseteq side /\ \A p \in R : p.op = "share" => k.joined
      BY <1>3, <2>1 DEF R, Beside
    <3> QED
      BY <1>3, <2>1, <2>2, <2>4, <3>1, BesideStays
  <2>6. HeldTrue(k, cur, R)
    BY <1>2, <1>3, <2>1 DEF HeldTrue
  <2> QED
    BY <1>3, <1>6, <2>1, <2>3, <2>5, <2>6 DEF Sound
<1> QED
  BY <1>1, <1>5, <1>6

\* The new microphone is muted as the button says.
LEMMA Attends ==
    ASSUME NEW h, PageTrue(h), NEW i \in 0..Len(h.st), NEW t, NEW k, k = Attend(h, i, t)
    PROVE  PageTrue(k) /\ Steady(h, k) /\ k.st = h.st /\ (h.mute => t \notin k.enabled)
<1> DEFINE e == Telling(h, {t}, i)
           on == IF h.mute THEN h.enabled \ {t} ELSE h.enabled
<1>1. h \in PageRecord /\ on \in SUBSET Tracks /\ on \subseteq h.enabled /\ (h.mute => t \notin on)
  BY Typed DEF PageTrue
<1>2. e \in [Tracks -> Nat] /\ \A u \in Tracks : e[u] \in 0..Len(h.st)
  BY Tells
<1>3. k = [h EXCEPT !.enabled = on, !.ended = e]
  BY <1>1 DEF Attend, PageRecord
<1> HIDE DEF e, on
<1>4. /\ k \in PageRecord /\ k.ended = e /\ k.st = h.st /\ k.tiles = h.tiles
      /\ k.open = h.open /\ k.enabled = on /\ k.mute = h.mute /\ k.tracks = h.tracks
      /\ k.conn = h.conn /\ k.joined = h.joined
  BY <1>1, <1>2, <1>3 DEF PageRecord
<1>5. Steady(h, k)
  BY <1>1, <1>4 DEF Steady
<1>6. Tellers(k)
  BY <1>2, <1>4 DEF Tellers
<1>7. \A j \in DOMAIN h.st : k.st[j].conn = h.st[j].conn /\ k.st[j].sent \subseteq k.st[j].raw /\ Mics(k.st[j].sent \ h.st[j].sent) = {}
  BY <1>4 DEF PageTrue, Streams, StreamTrue, Mics, OfKind
<1> QED
  BY <1>1, <1>4, <1>5, <1>6, <1>7, SteadyTrue

\* The page has a track more, and the streams that it had.
LEMMA OneMoreSound ==
    ASSUME NEW h, NEW c, NEW q, NEW S, Sound(h, c, q, S), NEW t, t \notin h.tracks,
           NEW k, PageTrue(k), Later(h, k), Calm(h, k), k.st = h.st, k.joined = h.joined, k.mute = h.mute,
           k.enabled \subseteq h.enabled \cup {t}
    PROVE  PageTrue(k) /\ Current(k, c) /\ Waiting(q) /\ Beside(k, c, S)
<1>1. PageTrue(h) /\ Current(h, c) /\ Beside(h, c, S) /\ Waiting(q) /\ k \in PageRecord
  BY DEF Sound, PageTrue
<1>2. k.joined \/ c = Idle \/ c.pc # "choices"
  BY <1>1 DEF Current, Running, Adding, Choosing, AddingMic, SettingUp
<1>3. Current(k, c)
  BY <1>1, <1>2, CurrentStays
<1>4. \A p \in S : p.pc = "swapping" => k.st[p.i].up /\ p.lost \in k.st[p.i].raw /\ (k.mute => p.new \notin k.enabled)
  <2>1. SUFFICES ASSUME NEW p \in S, p.pc = "swapping"
                 PROVE  k.st[p.i].up /\ p.lost \in k.st[p.i].raw /\ (k.mute => p.new \notin k.enabled)
    OBVIOUS
  <2>2. Exchanging(h, p)
    BY <1>1, <2>1 DEF Beside, Sharing, Replacing, Recovering
  <2> QED
    BY <2>2 DEF Exchanging, Mics, OfKind
<1>5. Beside(k, c, S)
  <2>1. S \subseteq S /\ \A p \in S : p.op = "share" => k.joined
    BY <1>1 DEF Beside
  <2> QED
    BY <1>1, <1>4, <2>1, BesideStays
<1> QED
  BY <1>1, <1>3, <1>5

\* The microphone has been opened again.
LEMMA ReopenedSound ==
    ASSUME Sound(g, cur, queue, side), NEW r \in side, Reopened(r), UNCHANGED <<cur, queue>>
    PROVE  Sound(g', cur', queue', side')
<1> DEFINE h == Open(g, {"mic"})
           T == Fresh(g, h)
           t == CHOOSE u \in T : TRUE
           R == side \ {r}
           q == [op |-> "recover", pc |-> "swapping", i |-> r.i, lost |-> r.lost, new |-> t]
<1>1. /\ r.op = "recover" /\ r.pc = "opening" /\ MayOpen({"mic"})
      /\ IF ~Wanted(g, r) THEN g' = StopStream(h, {t}) /\ side' = R \cup {}
         ELSE g' = Attend(h, r.i, t) /\ side' = R \cup {q}
  BY DEF Reopened, Becomes
<1>2. Beside(g, cur, side) /\ PageTrue(g) /\ HeldTrue(g, cur, side) /\ Waiting(queue)
  BY DEF Sound
<1>3. Recovering(g, r)
  BY <1>1, <1>2, IsRecovering
<1>4. Opened(g) + Cardinality({"mic"}) <= MaxOpens
  BY <1>1 DEF MayOpen
<1> HIDE DEF h
<1>5. Opens(g, {"mic"}, T, h)
  BY <1>2, <1>4, OpensAny DEF h
<1> HIDE DEF T
<1>6. \E u \in T : Kind(u) = "mic"
  BY <1>5 DEF Opens
<1>7. t \in T
  BY <1>6
<1>8. Kind(t) = "mic" /\ T = {t}
  BY <1>5, <1>7 DEF Opens, KindsIn, OneEach
<1> HIDE DEF t
<1>9. /\ PageTrue(h) /\ Later(g, h) /\ Calm(g, h) /\ h.st = g.st /\ h.joined = g.joined /\ h.mute = g.mute
      /\ h.open = g.open \cup {t} /\ h.enabled = g.enabled \cup {t} /\ t \notin g.tracks /\ t \in h.tracks
      /\ HeldBy(h) = HeldBy(g) /\ g \in PageRecord /\ h \in PageRecord
  BY <1>2, <1>5, <1>8 DEF Opens, PageTrue
<1>10. Sound(g, cur, queue, R) /\ Swaps(R) = Swaps(side)
  BY <1>1, SideSound
<1>11. CASE ~Wanted(g, r)
  <2> DEFINE k == StopStream(h, {t})
  <2>1. g' = k /\ side' = R
    BY <1>1, <1>11
  <2>2. /\ PageTrue(k) /\ Later(h, k) /\ Calm(h, k)
        /\ k.st = h.st /\ k.open = h.open \ {t} /\ k.enabled = h.enabled /\ k.mute = h.mute /\ k.joined = h.joined
    BY <1>9, Stops
  <2> HIDE DEF k
  <2>3. Later(g, k) /\ Calm(g, k)
    BY <1>9, <2>2, LaterTransitive, CalmTransitive DEF PageTrue
  <2>4. PageTrue(k) /\ Current(k, cur) /\ Waiting(queue) /\ Beside(k, cur, R)
    <3>1. k.enabled \subseteq g.enabled \cup {t}
      BY <1>9, <2>2
    <3> HIDE DEF R
    <3> QED
      BY <1>9, <1>10, <2>2, <2>3, <3>1, OneMoreSound
  <2>5. k.open \subseteq g.open /\ HeldBy(k) = HeldBy(g)
    BY <1>9, <2>2 DEF HeldBy, Ups
  <2>6. HeldTrue(k, cur, R)
    BY <1>2, <1>10, <2>5 DEF HeldTrue
  <2> QED
    BY <2>1, <2>4, <2>6 DEF Sound
<1>12. CASE Wanted(g, r)
  <2> DEFINE k == Attend(h, r.i, t)
  <2>1. g' = k /\ side' = R \cup {q}
    BY <1>1, <1>12
  <2>2. r.i \in 0..Len(h.st) /\ r.i \in DOMAIN g.st
    BY <1>3, <1>9, Typed DEF Recovering, Lacking
  <2>3. PageTrue(k) /\ Steady(h, k) /\ k.st = h.st /\ (h.mute => t \notin k.enabled)
    BY <1>9, <2>2, Attends
  <2> HIDE DEF k
  <2>4. Later(h, k) /\ Calm(h, k) /\ HeldBy(k) = HeldBy(h)
    BY <1>9, <2>3, SteadyIs
  <2>5. k.open = h.open /\ k.mute = h.mute /\ k.tracks = h.tracks /\ k.joined = h.joined /\ k.enabled \subseteq h.enabled
    BY <2>3 DEF Steady
  <2>6. Later(g, k) /\ Calm(g, k)
    BY <1>9, <2>3, <2>4, LaterTransitive, CalmTransitive DEF PageTrue
  <2>7. PageTrue(k) /\ Current(k, cur) /\ Waiting(queue) /\ Beside(k, cur, side)
    <3>1. k.enabled \subseteq g.enabled \cup {t} /\ k.st = g.st /\ k.joined = g.joined /\ k.mute = g.mute
      BY <1>9, <2>3, <2>5
    <3> QED
      BY <1>9, <2>3, <2>6, <3>1, OneMoreSound
  <2>8. /\ q.op = "recover" /\ q.pc = "swapping" /\ q.i = r.i /\ q.lost = r.lost /\ q.new = t
        /\ DOMAIN q = {"op", "pc", "i", "lost", "new"}
    OBVIOUS
  <2> HIDE DEF q
  <2>9. Lacking(k, r)
    <3>1. Recovering(k, r)
      BY <1>1, <2>7, IsRecovering
    <3> QED
      BY <3>1 DEF Recovering
  <2>10. Exchanging(k, q)
    <3>1. k.st[r.i].up /\ r.lost \in k.st[r.i].raw
      BY <1>9, <1>12, <2>3 DEF Wanted
    <3>2. t \in Mics(k.tracks)
      BY <1>8, <1>9, <2>5 DEF Mics, OfKind
    <3> QED
      BY <2>3, <2>5, <2>8, <2>9, <3>1, <3>2 DEF Exchanging, Lacking
  <2>11. Beside(k, cur, side')
    BY <1>1, <2>1, <2>7, <2>8, <2>10, Becoming
  <2>12. Swaps(side') = Swaps(side) \cup {t}
    BY <1>1, <1>10, <2>1, <2>8 DEF Swaps
  <2>13. HeldTrue(k, cur, side')
    BY <1>2, <1>9, <2>4, <2>5, <2>12 DEF HeldTrue
  <2> QED
    BY <2>1, <2>7, <2>11, <2>13 DEF Sound
<1> QED
  BY <1>11, <1>12

\* ... and has taken the place of the lost one.
LEMMA SwappedSound ==
    ASSUME Sound(g, cur, queue, side), NEW r \in side, Swapped(r), UNCHANGED <<cur, queue>>
    PROVE  Sound(g', cur', queue', side')
<1> DEFINE k == Swap(g, r, r.new)
           R == side \ {r}
<1>1. r.pc = "swapping" /\ g' = k /\ side' = R
  BY DEF Swapped, Becomes
<1>2. Beside(g, cur, side) /\ PageTrue(g) /\ HeldTrue(g, cur, side) /\ Waiting(queue) /\ Current(g, cur)
  BY DEF Sound
<1>3. Exchanging(g, r)
  BY <1>1, <1>2 DEF Beside, Sharing, Replacing, Recovering
<1> HIDE DEF k
<1>4. /\ PageTrue(k) /\ Later(g, k) /\ Ups(k) = Ups(g) /\ CamUps(k) = CamUps(g)
      /\ k.open = g.open /\ k.mute = g.mute /\ k.joined = g.joined
      /\ k.enabled = g.enabled /\ DOMAIN k.st = DOMAIN g.st
      /\ \A j \in DOMAIN g.st : /\ k.st[j].label = g.st[j].label /\ k.st[j].lid = g.st[j].lid
                                /\ k.st[j].up = g.st[j].up
                                /\ k.st[j].raw = IF j = r.i THEN (g.st[j].raw \ {r.lost}) \cup {r.new} ELSE g.st[j].raw
  <2>1. Exchanged(g, k, r)
    BY <1>2, <1>3, Exchanges DEF k
  <2> QED
    BY <2>1 DEF Exchanged
<1>5. /\ r.op = "recover" /\ r.i \in DOMAIN g.st /\ g.st[r.i].up /\ r.lost \in g.st[r.i].raw
      /\ r.lost \notin g.open /\ Kind(r.lost) = "mic"
  BY <1>3 DEF Exchanging, Lacking, Mics, OfKind
<1>6. cur = Idle
  BY <1>2, <1>5 DEF Beside
<1>7. \A p \in R : p.pc = "swapping" => k.st[p.i].up /\ p.lost \in k.st[p.i].raw /\ (k.mute => p.new \notin k.enabled)
  <2>1. SUFFICES ASSUME NEW p \in side, p # r, p.pc = "swapping"
                 PROVE  k.st[p.i].up /\ p.lost \in k.st[p.i].raw /\ (k.mute => p.new \notin k.enabled)
    OBVIOUS
  <2>2. Exchanging(g, p)
    BY <1>2, <2>1 DEF Beside, Sharing, Replacing, Recovering
  <2>3. /\ p.i \in DOMAIN g.st /\ g.st[p.i].up /\ p.lost \in g.st[p.i].raw /\ p.op = "recover"
        /\ Kind(p.lost) = "mic" /\ (g.mute => p.new \notin g.enabled)
    BY <2>2 DEF Exchanging, Lacking, Mics, OfKind
  <2>4. p.lost # r.lost
    BY <1>2, <1>5, <2>1, <2>3 DEF Beside
  <2> QED
    BY <1>4, <2>3, <2>4
<1>8. Beside(k, cur, R)
  <2>1. R \subseteq side /\ \A p \in R : p.op = "share" => k.joined
    BY <1>2, <1>4 DEF Beside
  <2>2. k \in PageRecord
    BY <1>4 DEF PageTrue
  <2> HIDE DEF R
  <2> QED
    BY <1>2, <1>4, <1>7, <2>1, <2>2, BesideStays
<1>9. HeldTrue(k, cur, R)
  <2>1. Swaps(side) \subseteq Swaps(R) \cup {r.new}
    BY DEF Swaps
  <2>2. r.i \in Ups(k) /\ r.new \in k.st[r.i].raw
    BY <1>4, <1>5 DEF Ups
  <2>3. \A i \in Ups(g), t \in g.open : t \in g.st[i].raw => t \in k.st[i].raw
    BY <1>4, <1>5 DEF Ups
  <2>4. \A t \in g.open : t \in HeldBy(g) => t \in HeldBy(k)
    BY <1>4, <2>3 DEF HeldBy
  <2>5. r.new \in HeldBy(k)
    BY <2>2 DEF HeldBy
  <2> QED
    BY <1>2, <1>4, <2>1, <2>4, <2>5 DEF HeldTrue
<1> QED
  BY <1>1, <1>2, <1>4, <1>6, <1>8, <1>9 DEF Sound, Current

\* recoverMicrophone
LEMMA RecoversSound ==
    ASSUME Sound(g, cur, queue, side), Recovers
    PROVE  Sound(g', cur', queue', side')
<1>1. PICK r \in side : (Reopen(r) \/ ReopenFails(r) \/ Reopened(r) \/ Swapped(r)) /\ UNCHANGED <<cur, queue>>
  BY DEF Recovers
<1>2. CASE Reopen(r)
  BY <1>1, <1>2, ReopenSound
<1>3. CASE ReopenFails(r)
  BY <1>1, <1>3, ReopenFailsSound
<1>4. CASE Reopened(r)
  BY <1>1, <1>4, ReopenedSound
<1>5. CASE Swapped(r)
  BY <1>1, <1>5, SwappedSound
<1> QED
  BY <1>1, <1>2, <1>3, <1>4, <1>5

-----------------------------------------------------------------------------
(* The user.                                                               *)

\* The user acts while nothing but a share is under way.
LEMMA Presses ==
    ASSUME Races = {}, Sound(g, cur, queue, side), Press
    PROVE  /\ PageTrue(g) /\ Waiting(queue) /\ Beside(g, cur, side) /\ Current(g, cur)
           /\ cur = Idle /\ \A r \in side : r.op # "recover" /\ r.pc # "swapping"
           /\ g.open \subseteq HeldBy(g)
<1>1. cur = Idle /\ \A r \in side : r.op # "recover"
  BY DEF Press
<1>2. Beside(g, cur, side)
  BY DEF Sound
<1>3. \A r \in side : r.pc # "swapping"
  BY <1>1, <1>2 DEF Beside, Sharing, Replacing, Recovering, Exchanging
<1>4. Swaps(side) = {} /\ Carried(cur) = {}
  BY <1>1, <1>3 DEF Swaps, Carried
<1> QED
  BY <1>1, <1>2, <1>3, <1>4 DEF Sound, HeldTrue

\* What may be asked for the camera there is, or for none.
LEMMA CameraStartable ==
    ASSUME NEW h, PageTrue(h), NEW lid, lid = None \/ \E i \in CamUps(h) : lid = h.st[i].lid,
           NEW kinds, kinds \subseteq {"mic", "cam"}, NEW keep \in BOOLEAN, NEW unmute \in BOOLEAN
    PROVE  Startable(h, Request("add", lid, kinds, keep, unmute))
<1> DEFINE r == Request("add", lid, kinds, keep, unmute)
<1>1. \A i \in CamUps(h) : i \in DOMAIN h.st /\ h.st[i] \in Stream /\ h.st[i].label = "camera"
  BY Typed DEF PageTrue, CamUps, Ups
<1>2. \A i, j \in CamUps(h) : i = j
  BY DEF PageTrue, Lids
<1>3. lid \in Nat
  <2>1. CASE lid = None
    BY <2>1 DEF None
  <2>2. CASE \E i \in CamUps(h) : lid = h.st[i].lid
    BY <1>1, <2>2 DEF Stream
  <2> QED
    BY <2>1, <2>2
<1>4. r \in Asked /\ r.op = "add" /\ r.lid = lid
  BY <1>3 DEF Request, Asked
<1>5. lid # None => CameraLid(h, lid) /\ \A i \in CamUps(h) : h.st[i].lid = lid
  BY <1>1, <1>2 DEF CameraLid
<1> HIDE DEF r
<1>6. Startable(h, r)
  BY <1>4, <1>5 DEF Startable
<1> QED
  BY <1>6 DEF r

\* AskFor() of the camera there is, or of none.
LEMMA AsksFor ==
    ASSUME Races = {}, Sound(g, cur, queue, side), Press,
           NEW lid, lid = None \/ \E i \in CamUps(g) : lid = g.st[i].lid,
           NEW kinds, kinds \subseteq {"mic", "cam"}, NEW keep \in BOOLEAN, AskFor(lid, kinds, keep)
    PROVE  Sound(g', cur', queue', side')
<1>1. /\ PageTrue(g) /\ Waiting(queue) /\ Beside(g, cur, side)
      /\ cur = Idle /\ \A r \in side : r.op # "recover"
      /\ g.open \subseteq HeldBy(g)
  BY Presses
<1>2. Startable(g, Request("add", lid, kinds, keep, FALSE))
  BY <1>1, CameraStartable
<1>3. Enqueue(g, Request("add", lid, kinds, keep, FALSE)) /\ side' = side
  BY DEF AskFor
<1>4. Eases(g, g)
  BY <1>1, EasesSame
<1> QED
  BY <1>1, <1>2, <1>3, <1>4, Asks

\* The page's camera.
LEMMA CameraIs ==
    ASSUME PageTrue(g), Camera # None
    PROVE  Camera \in CamUps(g) /\ Camera \in DOMAIN g.st /\ CamUps(g) = {Camera}
BY FindsCamera DEF Camera

\* What a camera sends.
LEMMA KindsIs == ASSUME NEW h, NEW i PROVE Kinds(h, i) \subseteq {"mic", "cam"}
BY DEF Kinds

\* closeUpMedia()
LEMMA ClosesMedia ==
    ASSUME NEW h, PageTrue(h), NEW label, NEW k, k = CloseUpMedia(h, label)
    PROVE  Eases(h, k)
<1> DEFINE S == {i \in Mine(h) : h.st[i].label = label}
<1>1. S \subseteq DOMAIN h.st
  BY DEF Mine
<1>2. k = CloseStreams(h, S)
  BY DEF CloseUpMedia
<1> HIDE DEF S
<1> QED
  BY <1>1, <1>2, ClosesEases

\* closeExtraUpMedia(), of all but the camera there is.
LEMMA ClosesExtra ==
    ASSUME NEW h, PageTrue(h), NEW i \in CamUps(h), NEW k, k = CloseExtraUpMedia(h, "camera", i)
    PROVE  Eases(h, k) /\ i \in CamUps(k) /\ i \in DOMAIN k.st
<1> DEFINE S == {j \in Mine(h) : h.st[j].label = "camera"} \ {i}
<1>1. S \subseteq DOMAIN h.st /\ i \notin S
  BY DEF Mine
<1>2. k = CloseStreams(h, S)
  BY DEF CloseExtraUpMedia
<1> HIDE DEF S
<1>3. /\ Eases(h, k) /\ Ups(k) = Ups(h) \ S /\ DOMAIN k.st = DOMAIN h.st
      /\ \A j \in DOMAIN h.st : Alike(k.st[j], h.st[j])
  BY <1>1, <1>2, ClosesEases
<1>4. i \in Ups(h) /\ i \in DOMAIN h.st /\ h.st[i].label = "camera"
  BY DEF CamUps, Ups
<1> QED
  BY <1>1, <1>3, <1>4 DEF CamUps, Alike

\* Camera on.
LEMMA PresentSound ==
    ASSUME Races = {}, Sound(g, cur, queue, side), PresentButton
    PROVE  Sound(g', cur', queue', side')
<1> DEFINE lid == IF Camera = None THEN None ELSE g.st[Camera].lid
           kinds == {"cam"} \cup (IF HasAudio(g, Camera) THEN {"mic"} ELSE {})
<1>1. Press /\ AskFor(lid, kinds, FALSE)
  BY DEF PresentButton
<1>2. PageTrue(g)
  BY DEF Sound
<1>3. lid = None \/ \E i \in CamUps(g) : lid = g.st[i].lid
  BY <1>2, CameraIs
<1>4. kinds \subseteq {"mic", "cam"}
  OBVIOUS
<1> HIDE DEF lid, kinds
<1> QED
  BY <1>1, <1>3, <1>4, AsksFor

\* Camera off.
LEMMA UnpresentSound ==
    ASSUME Races = {}, Sound(g, cur, queue, side), UnpresentButton
    PROVE  Sound(g', cur', queue', side')
<1> DEFINE h == CloseExtraUpMedia(g, "camera", Camera)
<1>1. /\ Press /\ HasVideo(g, Camera)
      /\ IF HasAudio(h, Camera)
         THEN Enqueue(h, Request("add", h.st[Camera].lid, {"mic"}, FALSE, FALSE)) /\ side' = side
         ELSE g' = CloseUpMedia(h, "camera") /\ UNCHANGED <<cur, queue, side>>
  BY DEF UnpresentButton
<1>2. /\ PageTrue(g) /\ Waiting(queue) /\ Beside(g, cur, side) /\ Current(g, cur)
      /\ cur = Idle /\ \A r \in side : r.op # "recover" /\ r.pc # "swapping"
      /\ g.open \subseteq HeldBy(g) \cup {}
  BY <1>1, Presses
<1>3. Camera \in CamUps(g)
  BY <1>1, <1>2, CameraIs DEF HasVideo
<1>4. Eases(g, h) /\ Camera \in CamUps(h)
  BY <1>2, <1>3, ClosesExtra
<1> HIDE DEF h
<1>5. PageTrue(h)
  BY <1>4 DEF Eases
<1>6. CASE HasAudio(h, Camera)
  <2> DEFINE r == Request("add", h.st[Camera].lid, {"mic"}, FALSE, FALSE)
  <2>1. \E i \in CamUps(h) : h.st[Camera].lid = h.st[i].lid
    BY <1>4
  <2>2. Startable(h, r)
    BY <1>5, <2>1, CameraStartable
  <2>3. h.open \subseteq HeldBy(h) \cup {}
    BY <1>2, <1>4, StaysHeld DEF Eases
  <2>4. Enqueue(h, r) /\ side' = side
    BY <1>1, <1>6
  <2> HIDE DEF r
  <2> QED
    BY <1>2, <1>4, <2>2, <2>3, <2>4, Asks
<1>7. CASE ~HasAudio(h, Camera)
  <2>1. g' = CloseUpMedia(h, "camera") /\ cur' = cur /\ queue' = queue /\ side' = side
    BY <1>1, <1>7
  <2>2. Eases(h, g')
    BY <1>5, <2>1, ClosesMedia
  <2>3. Eases(g, g')
    BY <1>2, <1>4, <2>2, EasesTransitive
  <2>4. side \subseteq side
    OBVIOUS
  <2> QED
    BY <1>2, <2>1, <2>3, <2>4, EasesSound
<1> QED
  BY <1>6, <1>7

\* The microphone button.
LEMMA MuteSound ==
    ASSUME Races = {}, Sound(g, cur, queue, side), MuteButton
    PROVE  Sound(g', cur', queue', side')
<1>1. /\ Press
      /\ IF HasAudio(g, Camera)
         THEN g' = SetLocalMute(g, ~g.mute) /\ UNCHANGED <<cur, queue, side>>
         ELSE /\ Enqueue(g, IF Camera = None THEN Request("add", None, {"mic"}, FALSE, TRUE)
                            ELSE Request("mic", Camera, {}, FALSE, TRUE))
              /\ side' = side
  BY DEF MuteButton
<1>2. /\ PageTrue(g) /\ Waiting(queue) /\ Beside(g, cur, side) /\ Current(g, cur)
      /\ cur = Idle /\ \A r \in side : r.op # "recover" /\ r.pc # "swapping"
      /\ g.open \subseteq HeldBy(g)
  BY <1>1, Presses
<1>3. CASE HasAudio(g, Camera)
  <2>1. g' = SetLocalMute(g, ~g.mute) /\ cur' = cur /\ queue' = queue /\ side' = side
    BY <1>1, <1>3
  <2>2. (~g.mute) \in BOOLEAN /\ side \subseteq side
    OBVIOUS
  <2>3. Eases(g, g')
    BY <1>2, <2>1, <2>2, MutesEases
  <2> QED
    BY <1>2, <2>1, <2>2, <2>3, EasesSound
<1>4. CASE ~HasAudio(g, Camera) /\ Camera = None
  <2> DEFINE r == Request("add", None, {"mic"}, FALSE, TRUE)
  <2>1. Enqueue(g, r) /\ side' = side
    BY <1>1, <1>4
  <2>2. Startable(g, r)
    BY <1>2, CameraStartable
  <2>3. Eases(g, g)
    BY <1>2, EasesSame
  <2> HIDE DEF r
  <2> QED
    BY <1>2, <2>1, <2>2, <2>3, Asks
<1>5. CASE ~HasAudio(g, Camera) /\ Camera # None
  <2> DEFINE r == Request("mic", Camera, {}, FALSE, TRUE)
  <2>1. Enqueue(g, r) /\ side' = side
    BY <1>1, <1>5
  <2>2. Camera \in CamUps(g) /\ Camera \in Nat
    BY <1>2, <1>5, CameraIs, Typed DEF PageTrue
  <2>3. r \in Asked /\ r.op = "mic" /\ r.lid = Camera
    BY <2>2 DEF Request, Asked
  <2> HIDE DEF r
  <2>4. Startable(g, r)
    BY <2>2, <2>3 DEF Startable
  <2>5. Eases(g, g)
    BY <1>2, EasesSame
  <2> QED
    BY <1>2, <2>1, <2>4, <2>5, Asks
<1> QED
  BY <1>3, <1>4, <1>5

\* Another camera, or another microphone.
LEMMA ReplaceCameraSound ==
    ASSUME Races = {}, Sound(g, cur, queue, side), NEW keep \in BOOLEAN, ReplaceCameraStream(keep)
    PROVE  Sound(g', cur', queue', side')
<1>1. Camera # None /\ Press /\ AskFor(g.st[Camera].lid, Kinds(g, Camera), keep)
  BY DEF ReplaceCameraStream
<1>2. \E i \in CamUps(g) : g.st[Camera].lid = g.st[i].lid
  BY <1>1, CameraIs DEF Sound
<1>3. Kinds(g, Camera) \subseteq {"mic", "cam"}
  BY KindsIs
<1> QED
  BY <1>1, <1>2, <1>3, AsksFor

\* No microphone.
LEMMA MicrophoneOffSound ==
    ASSUME Races = {}, Sound(g, cur, queue, side), MicrophoneOff
    PROVE  Sound(g', cur', queue', side')
<1>1. /\ HasAudio(g, Camera) /\ Press
      /\ IF HasVideo(g, Camera) THEN AskFor(g.st[Camera].lid, {"cam"}, TRUE)
         ELSE g' = CloseUpMedia(g, "camera") /\ UNCHANGED <<cur, queue, side>>
  BY DEF MicrophoneOff
<1>2. /\ PageTrue(g) /\ \A r \in side : r.pc # "swapping"
  BY <1>1, Presses
<1>3. CASE HasVideo(g, Camera)
  <2>1. \E i \in CamUps(g) : g.st[Camera].lid = g.st[i].lid
    BY <1>1, <1>2, CameraIs DEF HasAudio
  <2>2. {"cam"} \subseteq {"mic", "cam"} /\ AskFor(g.st[Camera].lid, {"cam"}, TRUE)
    BY <1>1, <1>3
  <2> QED
    BY <1>1, <2>1, <2>2, AsksFor
<1>4. CASE ~HasVideo(g, Camera)
  <2>1. g' = CloseUpMedia(g, "camera") /\ cur' = cur /\ queue' = queue /\ side' = side
    BY <1>1, <1>4
  <2>2. Eases(g, g')
    BY <1>2, <2>1, ClosesMedia
  <2>3. side \subseteq side
    OBVIOUS
  <2> QED
    BY <1>2, <2>1, <2>2, <2>3, EasesSound
<1> QED
  BY <1>3, <1>4

\* The share button.
LEMMA ShareSound ==
    ASSUME Races = {}, Sound(g, cur, queue, side), ShareButton
    PROVE  Sound(g', cur', queue', side')
<1> DEFINE s == [op |-> "share", pc |-> "opening", i |-> None]
<1>1. /\ Press /\ g.joined /\ cur' = cur /\ queue' = queue
      /\ IF FindUpMedia(g, "screenshare") # None THEN g' = CloseUpMedia(g, "screenshare") /\ side' = side
         ELSE g' = g /\ side' = side \cup {s}
  BY DEF ShareButton
<1>2. /\ PageTrue(g) /\ Waiting(queue) /\ Beside(g, cur, side) /\ Current(g, cur)
      /\ cur = Idle /\ \A r \in side : r.op # "recover" /\ r.pc # "swapping"
      /\ g.open \subseteq HeldBy(g)
  BY <1>1, Presses
<1>3. CASE FindUpMedia(g, "screenshare") # None
  <2>1. g' = CloseUpMedia(g, "screenshare") /\ side' = side
    BY <1>1, <1>3
  <2>2. Eases(g, g')
    BY <1>2, <2>1, ClosesMedia
  <2>3. side \subseteq side
    OBVIOUS
  <2> QED
    BY <1>1, <1>2, <2>1, <2>2, <2>3, EasesSound
<1>4. CASE ~(FindUpMedia(g, "screenshare") # None)
  <2>1. g' = g /\ side' = side \cup {s}
    BY <1>1, <1>4
  <2>2. Sharing(s) /\ s.op = "share"
    BY DEF Sharing
  <2> HIDE DEF s
  <2>3. Beside(g, cur, side')
    BY <1>1, <1>2, <2>1, <2>2 DEF Beside
  <2>4. HeldTrue(g, cur, side')
    BY <1>2 DEF HeldTrue
  <2> QED
    BY <1>1, <1>2, <2>1, <2>3, <2>4 DEF Sound
<1> QED
  BY <1>3, <1>4

\* A camera is to be filtered otherwise.
LEMMA FilterSet ==
    ASSUME NEW h, PageTrue(h), NEW i \in DOMAIN h.st, NEW f \in Looks, NEW k, k = SetFilter(h, i, f)
    PROVE  PageTrue(k) /\ Steady(h, k)
<1> DEFINE c == [h.st[i] EXCEPT !.def = f]
           m == WithStream(h, i, c)
<1>1. h \in PageRecord /\ h.st[i] \in Stream
  BY Typed DEF PageTrue
<1>2. c \in Stream /\ Alike(c, h.st[i]) /\ c.up = h.st[i].up
  BY <1>1 DEF Stream, Alike
<1>3. k = [m EXCEPT !.filter = f]
  BY <1>1 DEF SetFilter, WithStream, PageRecord
<1> HIDE DEF c, m
<1>4. Placed(h, i, c, m)
  BY <1>1, <1>2, OneStream DEF m
<1>5. \A j \in DOMAIN h.st : Alike(m.st[j], h.st[j]) /\ m.st[j].up = h.st[j].up
  BY <1>2, <1>4 DEF Placed, Alike
<1>6. /\ k \in PageRecord /\ k.st = m.st /\ k.ended = m.ended /\ k.tiles = m.tiles
      /\ k.open = m.open /\ k.enabled = m.enabled /\ k.mute = m.mute /\ k.tracks = m.tracks
      /\ k.conn = m.conn /\ k.joined = m.joined
  BY <1>3, <1>4 DEF Placed, PageRecord
<1>7. Steady(h, k)
  <2>1. Len(k.st) = Len(h.st) /\ DOMAIN k.st = DOMAIN h.st
    BY <1>4, <1>6 DEF Placed
  <2>2. \A j \in DOMAIN h.st : /\ k.st[j].label = h.st[j].label /\ k.st[j].lid = h.st[j].lid
                               /\ k.st[j].up = h.st[j].up /\ k.st[j].raw = h.st[j].raw
    BY <1>5, <1>6 DEF Alike
  <2>3. /\ k.open = h.open /\ k.mute = h.mute /\ k.tracks = h.tracks
        /\ k.conn = h.conn /\ k.joined = h.joined /\ k.enabled \subseteq h.enabled
    BY <1>4, <1>6 DEF Placed
  <2> QED
    BY <2>1, <2>2, <2>3 DEF Steady
<1>8. Tellers(k)
  BY <1>4, <1>6 DEF Tellers, Placed, PageTrue
<1>9. \A j \in DOMAIN h.st : k.st[j].conn = h.st[j].conn /\ k.st[j].sent \subseteq k.st[j].raw
                             /\ Mics(k.st[j].sent \ h.st[j].sent) = {}
  BY <1>5, <1>6 DEF PageTrue, Streams, StreamTrue, Mics, OfKind, Alike
<1>10. k.tiles \subseteq h.tiles
  BY <1>4, <1>6 DEF Placed
<1>11. k \in PageRecord
  BY <1>6
<1>12. PageTrue(k)
  BY <1>7, <1>8, <1>9, <1>10, <1>11, SteadyTrue
<1> QED
  BY <1>7, <1>12

\* replaceUpStream(), of a camera.
LEMMA Replaces ==
    ASSUME NEW h, PageTrue(h), h.open \subseteq HeldBy(h), NEW i \in CamUps(h),
           NEW res, res = ReplaceUpStream(h, i)
    PROVE  /\ PageTrue(res.g) /\ Later(h, res.g) /\ res.g.joined = h.joined /\ res.g.open \subseteq HeldBy(res.g)
           /\ \/ res.run = {}
              \/ \E j \in DOMAIN res.g.st : res.run = {[op |-> "replace", pc |-> "setup", i |-> j]}
<1> DEFINE c == h.st[i]
           u == RemoveFilter(h, i)
           n == NewUpStream(u, c.label, c.lid, c.def, c.raw)
           j == Newest(n)
<1>1. /\ i \in DOMAIN h.st /\ i \in Ups(h) /\ c \in Stream /\ c.up /\ c.label = "camera"
      /\ \A m \in CamUps(h) : m = i
  <2>1. i \in DOMAIN h.st /\ i \in Ups(h) /\ c.up /\ c.label = "camera"
    BY DEF CamUps, Ups
  <2>2. \A m \in CamUps(h) : m = i
    BY DEF PageTrue, Lids
  <2> QED
    BY <2>1, <2>2, Typed DEF PageTrue
<1>2. /\ Eases(h, u) /\ u.open = h.open /\ DOMAIN u.st = DOMAIN h.st
      /\ \A m \in DOMAIN h.st : Alike(u.st[m], h.st[m]) /\ u.st[m].up = h.st[m].up
  BY <1>1, UnfiltersEases
<1>3. res = IF Slow(n, j) THEN Result(FilterStart(n, j), {[op |-> "replace", pc |-> "setup", i |-> j]})
            ELSE Result(SetUp(n, j), {})
  BY DEF ReplaceUpStream
<1>4. StreamTrue(h, c) /\ c.lid \in Nat /\ c.def \in Looks
  BY <1>1 DEF PageTrue, Streams, Stream
<1> HIDE DEF u
<1>5. PageTrue(u) /\ Later(h, u) /\ u.tracks = h.tracks /\ u.joined = h.joined /\ Holding(h, u)
      /\ CamUps(u) \subseteq CamUps(h) /\ Ups(u) = Ups(h)
  <2>1. CamUps(u) \subseteq CamUps(h)
    BY <1>2, EasesCameras
  <2>2. Ups(u) = Ups(h)
    BY <1>2 DEF Ups
  <2> QED
    BY <1>2, <2>1, <2>2 DEF Eases
<1>6. Fits(u, "camera", c.lid, c.raw)
  <2>1. u.joined /\ c.raw \subseteq u.tracks /\ OneEach(c.raw) /\ KindsIn(c.raw, {"mic", "cam"})
    BY <1>1, <1>4, <1>5 DEF StreamTrue
  <2>2. u.st[i].lid = c.lid /\ u.st[i].label = "camera"
    BY <1>1, <1>2 DEF Alike
  <2>3. \A m \in CamUps(u) : u.st[m].lid = c.lid
    BY <1>1, <1>5, <2>2
  <2>4. CameraLid(u, c.lid)
    BY <1>1, <1>2, <2>2 DEF CameraLid
  <2> QED
    BY <1>4, <2>1, <2>3, <2>4 DEF Fits
<1>7. n = NewUpStream(u, "camera", c.lid, c.def, c.raw)
  BY <1>1
<1> HIDE DEF n, j
<1>8. Came(u, n, "camera", c.lid, c.raw)
  BY <1>4, <1>5, <1>6, <1>7, Comes
<1>9. PageTrue(n) /\ j \in DOMAIN n.st
  BY <1>8 DEF Came, Ups, j, Newest
<1>10. PageTrue(res.g) /\ Steady(n, res.g)
       /\ (res.run = {} \/ res.run = {[op |-> "replace", pc |-> "setup", i |-> j]})
  BY <1>3, <1>9, FilterStarted, SetsUp DEF Result
<1>11. Yields(u, c.lid, c.raw)
  <2>1. SUFFICES ASSUME NEW m \in Ups(u), u.st[m].lid = c.lid PROVE u.st[m].raw \cap u.open \subseteq c.raw
    BY DEF Yields
  <2>2. m \in Ups(h) /\ m \in DOMAIN h.st /\ h.st[m].lid = c.lid /\ h.st[m].raw = u.st[m].raw
    BY <1>2, <1>5, <2>1 DEF Ups, Alike
  <2>3. m = i
    BY <1>1, <2>2 DEF PageTrue, Lids
  <2> QED
    BY <2>2, <2>3
<1>12. Took(u, res.g, c.raw)
  BY <1>5, <1>8, <1>10, <1>11, Takes
<1>13. res.g.open \subseteq HeldBy(res.g)
  <2>1. u.open \subseteq HeldBy(u) \cup {}
    BY <1>5, StaysHeld
  <2>2. res.g.open \subseteq HeldBy(res.g) \cup {}
    BY <1>12, <2>1, StaysHeld DEF Took
  <2> QED
    BY <2>2
<1>14. Later(h, res.g)
  BY <1>5, <1>10, <1>12, LaterTransitive DEF Took, PageTrue
<1>15. j \in DOMAIN res.g.st
  BY <1>9, <1>10 DEF Steady
<1> QED
  BY <1>5, <1>10, <1>12, <1>13, <1>14, <1>15 DEF Took

\* Another filter.
LEMMA FilterSelectSound ==
    ASSUME Races = {}, Sound(g, cur, queue, side), FilterSelect
    PROVE  Sound(g', cur', queue', side')
<1>1. PICK f \in Filters :
        /\ Camera # None /\ Press /\ ~Busy /\ cur' = cur /\ queue' = queue
        /\ LET r == ReplaceUpStream(SetFilter(g, Camera, f), Camera) IN g' = r.g /\ side' = side \cup r.run
  BY DEF FilterSelect
<1> DEFINE h == SetFilter(g, Camera, f)
           r == ReplaceUpStream(h, Camera)
<1>2. PageTrue(g) /\ Waiting(queue) /\ cur = Idle /\ g.open \subseteq HeldBy(g) \cup {} /\ side = {}
  BY <1>1, Presses DEF Busy
<1>3. f \in Looks
  BY MediaAssumption DEF Looks
<1>4. Camera \in CamUps(g) /\ Camera \in DOMAIN g.st
  BY <1>1, <1>2, CameraIs
<1>5. PageTrue(h) /\ Steady(g, h)
  BY <1>2, <1>3, <1>4, FilterSet
<1>6. g' = r.g /\ side' = r.run
  BY <1>1, <1>2
<1> HIDE DEF h, r
<1>7. Camera \in CamUps(h)
  BY <1>2, <1>4, <1>5, SteadyIs
<1>8. Eases(g, h)
  BY <1>2, <1>5, SteadyEases
<1>9. h.open \subseteq HeldBy(h) \cup {}
  BY <1>2, <1>8, StaysHeld DEF Eases
<1>10. /\ PageTrue(g') /\ g'.open \subseteq HeldBy(g')
       /\ \/ side' = {}
          \/ \E j \in DOMAIN g'.st : side' = {[op |-> "replace", pc |-> "setup", i |-> j]}
  BY <1>5, <1>6, <1>7, <1>9, Replaces DEF r
<1>11. \A q \in side' : Replacing(g', q) /\ q.op = "replace"
  BY <1>10 DEF Replacing
<1>12. Beside(g', cur', side')
  BY <1>11 DEF Beside
<1> QED
  BY <1>1, <1>2, <1>10, <1>12 DEF Sound, HeldTrue, Current

-----------------------------------------------------------------------------
(* The connection.                                                         *)

\* The page's connection is another, or lost, and no stream is up.
LEMMA ApartSound ==
    ASSUME NEW h, NEW c, NEW q, NEW S, Sound(h, c, q, S), NEW k, Apart(h, k),
           Ups(h) = {} \/ (k.conn = h.conn /\ k.joined = h.joined),
           k.joined \/ k.joined = h.joined \/ Alone(c, S)
    PROVE  Sound(k, c, q, S)
<1>1. /\ PageTrue(h) /\ Current(h, c) /\ Waiting(q) /\ Beside(h, c, S) /\ HeldTrue(h, c, S) /\ k \in PageRecord
  BY DEF Sound, Apart
<1>2. PageTrue(k) /\ Later(h, k) /\ Calm(h, k) /\ Ups(k) = Ups(h) /\ HeldBy(k) = HeldBy(h)
  BY <1>1, Quiet DEF Apart
<1>3. Current(k, c)
  <2>1. h.joined \/ c = Idle \/ c.pc # "choices"
    BY <1>1 DEF Current, Running, Adding, Choosing, AddingMic, SettingUp
  <2>2. k.joined \/ c = Idle \/ c.pc # "choices"
    BY <2>1 DEF Alone
  <2> QED
    BY <1>1, <1>2, <2>2, CurrentStays
<1>4. Beside(k, c, S)
  <2>1. \A p \in S : p.op = "share" => k.joined
    BY <1>1 DEF Beside, Alone
  <2>2. ASSUME NEW p \in S, p.pc = "swapping"
        PROVE  k.st[p.i].up /\ p.lost \in k.st[p.i].raw /\ (k.mute => p.new \notin k.enabled)
    <3>1. Exchanging(h, p)
      BY <1>1, <2>2 DEF Beside, Sharing, Replacing, Recovering
    <3> QED
      BY <3>1 DEF Exchanging, Apart
  <2>3. S \subseteq S
    OBVIOUS
  <2> QED
    BY <1>1, <1>2, <2>1, <2>2, <2>3, BesideStays
<1>5. HeldTrue(k, c, S)
  BY <1>1, <1>2 DEF HeldTrue, Apart
<1> QED
  BY <1>1, <1>2, <1>3, <1>4, <1>5 DEF Sound

\* What a connection ends with.
LEMMA MayGoAlone ==
    ASSUME Races = {}, MayGo
    PROVE  Alone(cur, side)
BY DEF MayGo, Swapping, Picking, Filling, Alone

\* The connection is lost, or left: every stream is closed.
LEMMA GoneSound ==
    ASSUME Races = {}, Sound(g, cur, queue, side), MayGo,
           NEW m, m = CloseStreams(g, Mine(g)), NEW k, Apart(m, k), ~k.joined
    PROVE  Sound(k, cur, queue, side)
<1>1. PageTrue(g)
  BY DEF Sound
<1>2. Mine(g) = Ups(g) /\ Mine(g) \subseteq DOMAIN g.st
  BY <1>1, MineUp DEF Ups
<1>3. Eases(g, m) /\ Ups(m) = {}
  BY <1>1, <1>2, ClosesEases
<1>4. Alone(cur, side)
  BY MayGoAlone
<1>5. Sound(m, cur, queue, side)
  <2>1. \A p \in side : p.pc # "swapping"
    BY <1>4 DEF Alone
  <2>2. side \subseteq side
    OBVIOUS
  <2> QED
    BY <1>3, <2>1, <2>2, EasesSound
<1> QED
  BY <1>3, <1>4, <1>5, ApartSound

\* The user hangs up.
LEMMA LeaveSound ==
    ASSUME Races = {}, Sound(g, cur, queue, side), Leave
    PROVE  Sound(g', cur', queue', side')
<1> DEFINE m == CloseStreams(g, Mine(g))
<1>1. /\ MayGo /\ g' = [m EXCEPT !.joined = FALSE, !.card = "shown", !.restore = {}]
      /\ cur' = cur /\ queue' = queue /\ side' = side
  BY DEF Leave
<1>2. m \in PageRecord
  BY MineUp, ClosesEases DEF Sound, Eases, PageTrue, Ups
<1> HIDE DEF m
<1>3. Apart(m, g') /\ ~g'.joined
  BY <1>1, <1>2 DEF Apart, PageRecord, Cards
<1>4. m = CloseStreams(g, Mine(g))
  BY DEF m
<1> QED
  BY <1>1, <1>3, <1>4, GoneSound

\* The connection is lost.
LEMMA DroppedSound ==
    ASSUME Races = {}, Sound(g, cur, queue, side), Dropped
    PROVE  Sound(g', cur', queue', side')
<1> DEFINE m == CloseStreams(g, Mine(g))
           R == NoteSentMedia(g)
<1>1. /\ MayGo /\ g' = [m EXCEPT !.joined = FALSE, !.restore = R]
      /\ cur' = cur /\ queue' = queue /\ side' = side
  BY DEF Dropped
<1>2. m \in PageRecord
  BY MineUp, ClosesEases DEF Sound, Eases, PageTrue, Ups
<1>3. R \subseteq {"mic", "cam"}
  BY KindsIs DEF NoteSentMedia
<1> HIDE DEF m, R
<1>4. Apart(m, g') /\ ~g'.joined
  BY <1>1, <1>2, <1>3 DEF Apart, PageRecord, Cards
<1>5. m = CloseStreams(g, Mine(g))
  BY DEF m
<1> QED
  BY <1>1, <1>4, <1>5, GoneSound

\* Streams are those of the call.
LEMMA NoneUpOutside ==
    ASSUME NEW h, PageTrue(h), ~h.joined
    PROVE  Ups(h) = {}
BY DEF PageTrue, Streams, StreamTrue, Ups

\* The user goes in.
LEMMA EnterSound ==
    ASSUME Sound(g, cur, queue, side), CheckTrue(pre), Enter
    PROVE  Sound(g', cur', queue', side')
<1> DEFINE R == ApplyChoices(pre)
<1>1. g' = [g EXCEPT !.card = "sent", !.restore = R] /\ cur' = cur /\ queue' = queue /\ side' = side
  BY DEF Enter
<1>2. R \subseteq {"mic", "cam"}
  BY DEF ApplyChoices, CheckTrue, Check, Toggles
<1>3. g \in PageRecord
  BY DEF Sound, PageTrue
<1> HIDE DEF R
<1>4. Apart(g, g') /\ g'.conn = g.conn /\ g'.joined = g.joined
  BY <1>1, <1>2, <1>3 DEF Apart, PageRecord, Cards
<1> QED
  BY <1>1, <1>4, ApartSound

\* The server does not let the user in.
LEMMA JoinRefusedSound ==
    ASSUME Sound(g, cur, queue, side), JoinRefused
    PROVE  Sound(g', cur', queue', side')
<1>1. g' = [g EXCEPT !.card = "shown", !.restore = {}] /\ cur' = cur /\ queue' = queue /\ side' = side
  BY DEF JoinRefused
<1>2. g \in PageRecord
  BY DEF Sound, PageTrue
<1>3. Apart(g, g') /\ g'.conn = g.conn /\ g'.joined = g.joined
  BY <1>1, <1>2 DEF Apart, PageRecord, Cards
<1> QED
  BY <1>1, <1>3, ApartSound

\* An operator mutes everybody.
LEMMA MutedByOperatorSound ==
    ASSUME Races = {}, Sound(g, cur, queue, side), MutedByOperator
    PROVE  Sound(g', cur', queue', side')
<1>1. ~Swapping /\ g' = SetLocalMute(g, TRUE) /\ cur' = cur /\ queue' = queue /\ side' = side
  BY DEF MutedByOperator
<1>2. PageTrue(g) /\ TRUE \in BOOLEAN /\ side \subseteq side
  BY DEF Sound
<1>3. Eases(g, g')
  BY <1>1, <1>2, MutesEases
<1>4. \A p \in side : p.pc # "swapping"
  BY <1>1 DEF Swapping
<1> QED
  BY <1>1, <1>2, <1>3, <1>4, EasesSound

\* In the room: what was chosen, or was being sent, is asked for.
LEMMA JoinedSound ==
    ASSUME Sound(g, cur, queue, side), Joined
    PROVE  Sound(g', cur', queue', side')
<1> DEFINE h == [g EXCEPT !.joined = TRUE, !.card = "gone", !.conn = @ + 1, !.restore = {}]
           r == Request("add", None, g.restore, FALSE, FALSE)
<1>1. /\ ~g.joined /\ side' = side
      /\ IF g.restore = {} THEN g' = h /\ UNCHANGED <<cur, queue>> ELSE Enqueue(h, r)
  BY DEF Joined
<1>2. PageTrue(g) /\ g \in PageRecord
  BY DEF Sound, PageTrue
<1>3. Ups(g) = {}
  BY <1>1, <1>2, NoneUpOutside
<1>4. Apart(g, h) /\ h.joined
  <2>1. g.conn \in Nat /\ g.conn + 1 \in Nat
    BY <1>2 DEF PageRecord
  <2>2. h \in PageRecord
    BY <1>2, <2>1 DEF PageRecord, Cards
  <2>3. /\ h.st = g.st /\ h.tiles = g.tiles /\ h.tracks = g.tracks /\ h.open = g.open
        /\ h.enabled = g.enabled /\ h.mute = g.mute /\ h.ended = g.ended /\ h.joined
    BY <1>2 DEF PageRecord
  <2> HIDE DEF h
  <2> QED
    BY <2>2, <2>3 DEF Apart
<1>5. g.restore # {} => r \in Asked /\ r.op = "add" /\ r.lid = None /\ r.kinds # {}
  BY <1>2 DEF Request, Asked, PageRecord, None
<1> HIDE DEF h, r
<1>6. Sound(h, cur, queue, side)
  BY <1>3, <1>4, ApartSound
<1>7. /\ PageTrue(h) /\ h \in PageRecord /\ Beside(h, cur, side) /\ Waiting(queue)
      /\ HeldTrue(h, cur, side) /\ Current(h, cur)
  BY <1>6 DEF Sound, PageTrue
<1>8. Ups(h) = {}
  BY <1>3, <1>4 DEF Apart, Ups
<1>9. Swaps(side) = {} /\ \A q \in side : q.pc # "swapping"
  BY <1>7, <1>8, NoSwaps
<1>10. CASE g.restore = {}
  <2>1. g' = h /\ cur' = cur /\ queue' = queue
    BY <1>1, <1>10
  <2> QED
    BY <1>1, <1>6, <2>1
<1>11. CASE g.restore # {} /\ cur = Idle
  <2> DEFINE b == Begin(h, r)
  <2>1. g' = b.g /\ cur' = b.run /\ queue' = queue
    BY <1>1, <1>11 DEF Enqueue
  <2> HIDE DEF b
  <2>2. Startable(h, r)
    BY <1>5, <1>11 DEF Startable
  <2>3. h.open \subseteq HeldBy(h)
    BY <1>7, <1>9, <1>11 DEF HeldTrue, Carried
  <2>4. Goes(h, b.g, b.run)
    BY <1>7, <2>2, <2>3, Begins DEF b
  <2>5. PageTrue(b.g) /\ b.g \in PageRecord /\ Later(h, b.g) /\ b.g.joined
    BY <1>4, <2>4 DEF Goes, PageTrue
  <2>6. \A q \in side : q.op = "recover" => ~h.st[q.i].up
    <3>1. SUFFICES ASSUME NEW q \in side, q.op = "recover" PROVE ~h.st[q.i].up
      OBVIOUS
    <3>2. q.i \in DOMAIN h.st
      BY <1>7, <3>1 DEF Beside, Sharing, Replacing, Recovering, Exchanging, Lacking
    <3> QED
      BY <1>8, <3>2 DEF Ups
  <2>7. Beside(b.g, b.run, side)
    <3>1. side \subseteq side
      OBVIOUS
    <3> QED
      BY <1>7, <1>9, <2>5, <2>6, <3>1, BesideStays
  <2>8. HeldTrue(b.g, b.run, side)
    BY <2>4 DEF Goes, HeldTrue
  <2> QED
    BY <1>1, <1>7, <2>1, <2>4, <2>7, <2>8 DEF Sound, Goes
<1>12. CASE g.restore # {} /\ cur # Idle
  <2>1. g' = h /\ cur' = cur /\ queue' = Append(queue, r)
    BY <1>1, <1>12 DEF Enqueue
  <2>2. Waiting(queue')
    <3>1. queue \in Seq(Asked) /\ r \in Asked
      BY <1>5, <1>7, <1>12 DEF Waiting
    <3>2. /\ queue' \in Seq(Asked)
          /\ \A k \in DOMAIN queue' : (k \in DOMAIN queue /\ queue'[k] = queue[k]) \/ queue'[k] = r
      BY <2>1, <3>1
    <3> QED
      BY <1>5, <1>7, <1>12, <3>2 DEF Waiting
  <2> QED
    BY <1>1, <1>6, <2>1, <2>2 DEF Sound
<1> QED
  BY <1>10, <1>11, <1>12

-----------------------------------------------------------------------------
(* Tracks that end.                                                        *)

\* Who is told of the end of a track.
LEMMA TellerIs ==
    ASSUME PageTrue(g), NEW t \in g.open
    PROVE  Teller(t) \in 0..Len(g.st)
<1>1. t \in Tracks
  BY Typed DEF PageTrue
<1>2. DOMAIN g.ended = Tracks
  BY DEF PageTrue, PageRecord
<1> QED
  BY <1>1, <1>2 DEF Teller, PageTrue, Tellers

\* A camera or a screen is lost.
LEMMA PictureLostSound ==
    ASSUME Races = {}, Sound(g, cur, queue, side), NEW t \in g.open, PictureLost(t)
    PROVE  Sound(g', cur', queue', side')
<1> DEFINE h == StopStream(g, {t})
<1>1. ~Swapping /\ g' = CloseStream(h, Teller(t), FALSE) /\ cur' = cur /\ queue' = queue /\ side' = side
  BY DEF PictureLost, Lost
<1>2. PageTrue(g) /\ Teller(t) \in 0..Len(g.st) /\ side \subseteq side
  BY TellerIs DEF Sound
<1>3. Eases(g, h) /\ h.st = g.st
  BY <1>2, StopsEases
<1> HIDE DEF h
<1>4. Eases(h, g')
  BY <1>1, <1>2, <1>3, CloseEases DEF Eases
<1>5. Eases(g, g')
  BY <1>2, <1>3, <1>4, EasesTransitive
<1>6. \A p \in side : p.pc # "swapping"
  BY <1>1 DEF Swapping
<1> QED
  BY <1>1, <1>2, <1>5, <1>6, EasesSound

\* A microphone is lost.
LEMMA MicrophoneLostSound ==
    ASSUME Races = {}, Sound(g, cur, queue, side), NEW t \in g.open, MicrophoneLost(t)
    PROVE  Sound(g', cur', queue', side')
<1> DEFINE i == Teller(t)
           r == Recovery(i, t)
<1>1. /\ ~Swapping /\ ~Publishing /\ cur = Idle /\ Kind(t) = "mic"
      /\ g' = StopStream(g, {t}) /\ cur' = cur /\ queue' = queue
      /\ side' = IF i # None /\ g.st[i].up THEN side \cup {r} ELSE side
  BY DEF MicrophoneLost, Lost, MicrophoneEnded
<1>2. PageTrue(g) /\ i \in 0..Len(g.st) /\ side \subseteq side /\ Beside(g, cur, side)
  BY TellerIs DEF Sound
<1>3. Eases(g, g') /\ g'.st = g.st /\ g'.open = g.open \ {t}
  BY <1>1, <1>2, StopsEases
<1>4. \A p \in side : p.pc # "swapping"
  BY <1>1 DEF Swapping
<1>5. Sound(g', cur, queue, side)
  BY <1>2, <1>3, <1>4, EasesSound
<1>6. CASE side' = side
  BY <1>1, <1>5, <1>6
<1>7. CASE i # None /\ g.st[i].up /\ side' = side \cup {r}
  <2>1. i \in DOMAIN g.st
    BY <1>2, <1>7, Typed DEF PageTrue, None
  <2>2. /\ r.op = "recover" /\ r.pc = "waiting" /\ r.tries = 0 /\ r.i = i /\ r.lost = t
        /\ DOMAIN r = {"op", "pc", "i", "lost", "tries"}
    BY DEF Recovery
  <2> HIDE DEF i, r
  <2>3. t \in Mics(g'.tracks) /\ t \notin g'.open
    BY <1>1, <1>2, <1>3 DEF Eases, PageTrue, Numbered, Mics, OfKind
  <2>4. Recovering(g', r)
    BY <1>3, <2>1, <2>2, <2>3 DEF Recovering, Lacking
  <2>5. \A q \in side : q.op # "replace"
    <3>1. SUFFICES ASSUME NEW q \in side, q.op = "replace" PROVE FALSE
      OBVIOUS
    <3>2. q.pc = "setup"
      BY <1>2, <3>1 DEF Beside, Sharing, Replacing, Recovering, Exchanging
    <3>3. q # Idle
      BY <1>2, <3>1 DEF Idle
    <3> QED
      BY <1>1, <3>2, <3>3 DEF Publishing
  <2>6. \A q \in side : q.op = "recover" => q.lost # t
    BY <1>2 DEF Beside, Sharing, Replacing, Recovering, Exchanging, Lacking
  <2>7. Beside(g', cur, side)
    BY <1>5 DEF Sound
  <2>8. Beside(g', cur, side \cup {r})
    BY <1>1, <2>2, <2>4, <2>5, <2>6, <2>7 DEF Beside
  <2>9. Swaps(side \cup {r}) = Swaps(side)
    BY <2>2 DEF Swaps
  <2> QED
    BY <1>1, <1>5, <1>7, <2>8, <2>9 DEF Sound, HeldTrue
<1> QED
  BY <1>1, <1>6, <1>7

-----------------------------------------------------------------------------
(* The device check.                                                       *)

\* hideMediaHelp(), and what else is about the help card.
LEMMA HelpTrue ==
    ASSUME NEW p, CheckTrue(p), NEW a \in Toggles \cup {Anybody}, NEW b \in Toggles \cup {Anybody},
           NEW q, q = [p EXCEPT !.help = a, !.helpSoon = b]
    PROVE  CheckTrue(q)
<1>1. p \in Check
  BY DEF CheckTrue
<1>2. /\ q \in Check /\ q.on = p.on /\ q.opening = p.opening /\ q.gen = p.gen /\ q.held = p.held
      /\ q.live = p.live /\ q.runs = p.runs /\ q.told = p.told /\ q.last = p.last
  BY <1>1 DEF Check
<1> QED
  BY <1>2 DEF CheckTrue, RunTrue, Apiece, HeldAtCheck

\* The device of a toggle stops, and with it that no run is about.
LEMMA PreviewStops ==
    ASSUME NEW p, CheckTrue(p), NEW k \in Toggles, NEW on, Stoppable(p, k, on),
           NEW q, q = PreviewOff(p, k, on)
    PROVE  /\ CheckTrue(q) /\ q.on = on /\ q.opening = p.opening /\ q.gen = p.gen /\ q.runs = p.runs
           /\ q.held[k] = Nothing /\ q.help = p.help /\ q.helpSoon = p.helpSoon
<1>1. p \in Check
  BY DEF CheckTrue
<1>2. /\ q.on = on /\ q.opening = p.opening /\ q.gen = p.gen
      /\ q.held = [p.held EXCEPT ![k] = Nothing]
      /\ q.live = p.live \ {p.held[k]} /\ q.runs = p.runs /\ q.told = p.told /\ q.last = p.last
      /\ q.help = p.help /\ q.helpSoon = p.helpSoon
  BY <1>1 DEF PreviewOff, StopPreview, Check
<1>3. q = [p EXCEPT !.live = p.live \ {p.held[k]}, !.held = [p.held EXCEPT ![k] = Nothing], !.on = on]
  BY <1>1 DEF PreviewOff, StopPreview, Check
<1>4. q \in Check
  <2>1. [p.held EXCEPT ![k] = Nothing] \in [Toggles -> Nat]
    BY <1>1 DEF Check, Nothing
  <2>2. p.live \ {p.held[k]} \in SUBSET Nat /\ on \in SUBSET Toggles
    BY <1>1 DEF Check, Stoppable
  <2> QED
    BY <1>1, <1>3, <2>1, <2>2 DEF Check
<1>5. q.held[k] = Nothing /\ \A j \in Toggles : j # k => q.held[j] = p.held[j]
  BY <1>1, <1>2 DEF Check
<1>6. ASSUME NEW r \in p.runs PROVE RunTrue(q, r)
  <2>1. RunTrue(p, r) /\ r.kind \in Toggles
    BY <1>1 DEF CheckTrue, Check, PreviewRun
  <2>2. r.from = "picker" => r.kind \in q.on
    BY <1>2, <2>1 DEF RunTrue, Stoppable
  <2>3. r.gen = q.gen /\ r.pc = "opening" => q.held[r.kind] = Nothing
    BY <1>2, <1>5, <2>1 DEF RunTrue
  <2>4. r.pc = "listing" /\ r.gen = q.gen => q.held[r.kind] = r.t
    BY <1>2, <1>5, <2>1 DEF RunTrue, Stoppable
  <2> QED
    BY <1>2, <2>1, <2>2, <2>3, <2>4 DEF RunTrue, Stoppable
<1>7. HeldAtCheck(q)
  <2>1. ASSUME NEW x \in q.live PROVE \E j \in q.on \cup q.opening : x = q.held[j]
    <3>1. PICK j \in p.on \cup p.opening : x = p.held[j]
      BY <1>2, <2>1 DEF CheckTrue, HeldAtCheck
    <3>2. j # k /\ j \in Toggles
      BY <1>1, <1>2, <2>1, <3>1 DEF Check
    <3> QED
      BY <1>2, <1>5, <3>1, <3>2 DEF Stoppable
  <2> QED
    BY <1>2, <2>1 DEF HeldAtCheck, CheckTrue
<1> QED
  BY <1>2, <1>4, <1>5, <1>6, <1>7 DEF CheckTrue, Apiece

\* A device that nobody is opening is about to be.
LEMMA PreviewStarts ==
    ASSUME NEW p, CheckTrue(p), NEW k \in Toggles, \A r \in p.runs : r.kind # k, NEW from,
           (from = "toggle" /\ k \notin p.on) \/ (from = "picker" /\ k \in p.on),
           NEW more, more \in SUBSET Toggles, from = "toggle" => k \in more,
           NEW q, q = [StartPreview(p, k, from) EXCEPT !.opening = @ \cup more]
    PROVE  CheckTrue(q)
<1> DEFINE s == PreviewOff(p, k, p.on)
           r == [kind |-> k, gen |-> p.gen, from |-> from, pc |-> "opening", t |-> Nothing]
<1>1. p \in Check
  BY DEF CheckTrue
<1>2. Stoppable(p, k, p.on)
  BY DEF Stoppable
<1>3. /\ CheckTrue(s) /\ s.on = p.on /\ s.opening = p.opening /\ s.gen = p.gen /\ s.runs = p.runs
      /\ s.held[k] = Nothing
  BY <1>2, PreviewStops
<1>4. q = [s EXCEPT !.runs = s.runs \cup {r}, !.opening = s.opening \cup more]
  BY <1>1 DEF StartPreview, PreviewOff, StopPreview, Check
<1>5. /\ r.kind = k /\ r.gen = p.gen /\ r.from = from /\ r.pc = "opening"
      /\ r \in PreviewRun
  BY <1>1 DEF Check, Nothing, PreviewRun
<1> HIDE DEF s, r
<1>6. s \in Check
  BY <1>3 DEF CheckTrue
<1>7. /\ q \in Check /\ q.on = s.on /\ q.opening = s.opening \cup more /\ q.gen = s.gen /\ q.held = s.held
      /\ q.live = s.live /\ q.runs = s.runs \cup {r} /\ q.told = s.told /\ q.last = s.last
  <2>1. s.runs \cup {r} \in SUBSET PreviewRun
    BY <1>5, <1>6 DEF Check
  <2>2. s.opening \cup more \in SUBSET Toggles
    BY <1>6 DEF Check
  <2> QED
    BY <1>4, <1>6, <2>1, <2>2 DEF Check
<1>8. ASSUME NEW m \in s.runs PROVE RunTrue(q, m)
  <2>1. RunTrue(s, m)
    BY <1>3 DEF CheckTrue
  <2> QED
    BY <1>7, <2>1 DEF RunTrue
<1>9. RunTrue(q, r)
  <2>1. p.gen <= p.gen
    BY <1>1 DEF Check
  <2> QED
    BY <1>3, <1>5, <1>7, <2>1 DEF RunTrue
<1>10. Apiece(q)
  BY <1>3, <1>5, <1>7 DEF Apiece, CheckTrue
<1>11. HeldAtCheck(q)
  BY <1>3, <1>7 DEF HeldAtCheck, CheckTrue
<1> QED
  BY <1>3, <1>7, <1>8, <1>9, <1>10, <1>11 DEF CheckTrue

\* A toggle is pressed.
LEMMA ToggledTrue ==
    ASSUME NEW p, CheckTrue(p), NEW k \in Toggles, \A r \in p.runs : r.kind # k,
           NEW q, q = Toggled(p, k)
    PROVE  CheckTrue(q)
<1>1. p \in Check
  BY DEF CheckTrue
<1>2. CASE k \notin p.on
  <2>1. {k} \in SUBSET Toggles /\ k \in {k}
    OBVIOUS
  <2>2. q = [StartPreview(p, k, "toggle") EXCEPT !.opening = @ \cup {k}]
    BY <1>2 DEF Toggled
  <2> QED
    BY <1>2, <2>1, <2>2, PreviewStarts
<1>3. CASE k \in p.on
  <2>1. q = PreviewOff(p, k, p.on \ {k})
    BY <1>1, <1>3 DEF Toggled, PreviewOff, StopPreview, Check
  <2>2. Stoppable(p, k, p.on \ {k})
    BY DEF Stoppable
  <2> QED
    BY <2>1, <2>2, PreviewStops
<1> QED
  BY <1>2, <1>3

\* Another device is chosen.
LEMMA ChosenTrue ==
    ASSUME NEW p, CheckTrue(p), NEW k \in Toggles, k \in p.on, \A r \in p.runs : r.kind # k,
           NEW q, q = Chosen(p, k)
    PROVE  CheckTrue(q)
<1>1. p \in Check
  BY DEF CheckTrue
<1>2. q = [StartPreview(p, k, "picker") EXCEPT !.opening = @ \cup {}]
  BY <1>1 DEF Chosen, StartPreview, StopPreview, Check
<1>3. {} \in SUBSET Toggles
  OBVIOUS
<1> QED
  BY <1>2, <1>3, PreviewStarts

\* stop()
LEMMA StopAllTrue ==
    ASSUME NEW p, CheckTrue(p), \A r \in p.runs : r.from # "picker", NEW q, q = StopAll(p)
    PROVE  CheckTrue(q)
<1> DEFINE a == StopPreview(p, "cam")
           b == StopPreview(a, "mic")
           L == (p.live \ {p.held["cam"]}) \ {p.held["mic"]}
           H == [k \in Toggles |-> Nothing]
<1>1. p \in Check
  BY DEF CheckTrue
<1>2. /\ a \in Check /\ a.live = p.live \ {p.held["cam"]} /\ a.held = [p.held EXCEPT !["cam"] = Nothing]
      /\ a.gen = p.gen /\ a.runs = p.runs /\ a.told = p.told /\ a.last = p.last
  <2>1. [p.held EXCEPT !["cam"] = Nothing] \in [Toggles -> Nat]
    BY <1>1 DEF Check, Nothing, Toggles
  <2>2. p.live \ {p.held["cam"]} \in SUBSET Nat
    BY <1>1 DEF Check
  <2>3. a = [p EXCEPT !.live = p.live \ {p.held["cam"]}, !.held = [p.held EXCEPT !["cam"] = Nothing]]
    BY <1>1 DEF StopPreview, Check
  <2> QED
    BY <1>1, <2>1, <2>2, <2>3 DEF Check
<1>3. q = [b EXCEPT !.gen = b.gen + 1, !.on = {}, !.opening = {}]
  BY DEF StopAll
<1> HIDE DEF a
<1>4. /\ b \in Check /\ b.live = L
      /\ b.gen = p.gen /\ b.runs = p.runs /\ b.told = p.told /\ b.last = p.last
  <2>1. [a.held EXCEPT !["mic"] = Nothing] \in [Toggles -> Nat]
    BY <1>2 DEF Check, Nothing, Toggles
  <2>2. a.live \ {a.held["mic"]} \in SUBSET Nat
    BY <1>2 DEF Check
  <2>3. b = [a EXCEPT !.live = a.live \ {a.held["mic"]}, !.held = [a.held EXCEPT !["mic"] = Nothing]]
    BY <1>2 DEF StopPreview, Check
  <2>4. a.held["mic"] = p.held["mic"]
    BY <1>1, <1>2 DEF Check, Toggles
  <2> QED
    BY <1>2, <2>1, <2>2, <2>3, <2>4 DEF Check
<1>5. L = {}
  <2>1. p.live \subseteq {p.held["cam"], p.held["mic"]}
    BY <1>1 DEF CheckTrue, HeldAtCheck, Check, Toggles
  <2> QED
    BY <2>1
<1> HIDE DEF b, L, H
<1>6. /\ q \in Check /\ q.gen = p.gen + 1 /\ q.live = {} /\ q.runs = p.runs /\ q.told = p.told /\ q.last = p.last
  <2>1. b.gen \in Nat /\ b.gen + 1 \in Nat /\ {} \in SUBSET Toggles
    BY <1>4 DEF Check
  <2> QED
    BY <1>3, <1>4, <1>5, <2>1 DEF Check
<1>7. ASSUME NEW r \in q.runs PROVE RunTrue(q, r)
  <2>1. RunTrue(p, r) /\ r.from # "picker" /\ r.gen \in Nat /\ p.gen \in Nat /\ r.gen <= p.gen
    BY <1>1, <1>6 DEF CheckTrue, Check, RunTrue, PreviewRun
  <2>2. q.on = {}
    BY <1>3, <1>4 DEF Check
  <2>3. r.gen # q.gen /\ r.gen <= q.gen
    BY <1>6, <2>1
  <2> QED
    BY <1>6, <2>1, <2>2, <2>3 DEF RunTrue
<1> QED
  BY <1>6, <1>7 DEF CheckTrue, Apiece, HeldAtCheck

\* A run has ended, and its kind may be off, or on.
LEMMA RunEnds ==
    ASSUME NEW p, CheckTrue(p), NEW r \in p.runs, NEW q,
           q \in Check, q.gen = p.gen, q.held = p.held, q.runs = p.runs \ {r}, p.last <= q.last, q.live \subseteq p.live,
           q.told \in {p.told, p.told \cup {r.t}}, q.told # p.told => r.pc = "listing",
           q.on = p.on \/ q.on = p.on \ {r.kind} \/ q.on = p.on \cup {r.kind},
           q.opening = p.opening \/ q.opening = p.opening \ {r.kind},
           \/ r.kind \in q.on \cup q.opening \/ (q.on = p.on /\ q.opening = p.opening) \/ p.held[r.kind] = Nothing
    PROVE  CheckTrue(q)
<1>1. p \in Check /\ r.kind \in Toggles /\ RunTrue(p, r)
  BY DEF CheckTrue, Check, PreviewRun
<1>2. ASSUME NEW m \in q.runs PROVE RunTrue(q, m)
  <2>1. RunTrue(p, m) /\ m \in p.runs /\ m # r
    BY <1>2 DEF CheckTrue
  <2>2. m.kind # r.kind /\ ~(r.pc = "listing" /\ m.pc = "listing" /\ r.t = m.t)
    BY <2>1 DEF CheckTrue, Apiece
  <2>3. /\ m.kind \in q.on <=> m.kind \in p.on
        /\ m.kind \in q.opening <=> m.kind \in p.opening
    BY <2>2
  <2>4. m.pc = "listing" => m.t \notin q.told
    BY <2>1, <2>2 DEF RunTrue
  <2>5. m.pc = "listing" => m.t <= q.last
    <3>1. m.t \in Nat /\ p.last \in Nat /\ q.last \in Nat
      BY <1>1, <2>1 DEF Check, PreviewRun
    <3> QED
      BY <2>1, <3>1 DEF RunTrue
  <2> QED
    BY <2>1, <2>3, <2>4, <2>5 DEF RunTrue
<1>3. Apiece(q)
  BY DEF Apiece, CheckTrue
<1>4. HeldAtCheck(q)
  <2>1. ASSUME NEW x \in p.live PROVE \E j \in q.on \cup q.opening : x = q.held[j]
    <3>1. PICK j \in p.on \cup p.opening : x = p.held[j]
      BY DEF CheckTrue, HeldAtCheck
    <3>2. j = r.kind => p.held[r.kind] # Nothing
      BY <3>1 DEF CheckTrue, HeldAtCheck
    <3>3. j \in q.on \cup q.opening
      BY <3>1, <3>2
    <3> QED
      BY <3>1, <3>3
  <2> QED
    BY <2>1 DEF HeldAtCheck, CheckTrue
<1>5. \A t \in q.told : t <= q.last
  <2>1. ASSUME NEW t \in q.told PROVE t <= q.last
    <3>1. t <= p.last
      BY <1>1, <2>1 DEF CheckTrue, RunTrue
    <3>2. t \in Nat /\ p.last \in Nat /\ q.last \in Nat
      BY <1>1, <2>1 DEF Check
    <3> QED
      BY <3>1, <3>2
  <2> QED
    BY <2>1
<1> QED
  BY <1>2, <1>3, <1>4, <1>5 DEF CheckTrue

\* mediaHelpResolved(), and what an open has done before it.
LEMMA OpenedIs ==
    ASSUME NEW p \in Check, NEW k, NEW q, q = JustOpened(p, k)
    PROVE  /\ q \in Check /\ q.on = p.on /\ q.opening = p.opening /\ q.gen = p.gen /\ q.held = p.held
           /\ q.told = p.told /\ q.last = p.last + 1 /\ q.live = p.live \cup {p.last + 1} /\ q.runs = p.runs \ {k}
<1> DEFINE m == [p EXCEPT !.last = p.last + 1, !.live = @ \cup {p.last + 1}, !.runs = @ \ {k}]
<1>1. p.last + 1 \in Nat
  BY DEF Check
<1>2. /\ m \in Check /\ m.on = p.on /\ m.opening = p.opening /\ m.gen = p.gen /\ m.held = p.held
      /\ m.told = p.told /\ m.last = p.last + 1 /\ m.live = p.live \cup {p.last + 1} /\ m.runs = p.runs \ {k}
  <2>1. m = [p EXCEPT !.last = p.last + 1, !.live = p.live \cup {p.last + 1}, !.runs = p.runs \ {k}]
    BY DEF Check
  <2> QED
    BY <1>1, <2>1 DEF Check
<1>3. q = MediaHelpResolved(m, k.kind)
  BY DEF JustOpened
<1> HIDE DEF m
<1>4. q = m \/ q = [m EXCEPT !.help = Anybody, !.helpSoon = Anybody]
  BY <1>3 DEF MediaHelpResolved, HideMediaHelp
<1> QED
  BY <1>2, <1>4 DEF Check

\* The device of a preview has opened.
LEMMA PreviewOpensTrue ==
    ASSUME NEW p, CheckTrue(p), NEW r \in p.runs, r.pc = "opening", NEW q, q = PreviewOpens(p, r)
    PROVE  CheckTrue(q)
<1> DEFINE t == p.last + 1
           m == JustOpened(p, r)
           s == [r EXCEPT !.pc = "listing", !.t = t]
<1>1. p \in Check
  BY DEF CheckTrue
<1>2. q = IF r.gen # p.gen THEN [m EXCEPT !.live = @ \ {t}]
          ELSE [m EXCEPT !.held[r.kind] = t, !.runs = @ \cup {s}]
  BY DEF PreviewOpens, JustOpened
<1>3. /\ m \in Check /\ m.on = p.on /\ m.opening = p.opening /\ m.gen = p.gen /\ m.held = p.held
      /\ m.told = p.told /\ m.last = t /\ m.live = p.live \cup {t} /\ m.runs = p.runs \ {r}
  BY <1>1, OpenedIs
<1>4. /\ r \in PreviewRun
      /\ t \in Nat /\ p.last \in Nat /\ t # Nothing /\ ~(t <= p.last) /\ p.last <= t
  BY <1>1 DEF Check, Nothing
<1>5. /\ s \in PreviewRun
      /\ s.kind = r.kind /\ s.gen = r.gen /\ s.from = r.from /\ s.pc = "listing" /\ s.t = t
  BY <1>4 DEF PreviewRun
<1> HIDE DEF m, s, t
<1>6. CASE r.gen # p.gen
  <2>1. q = [m EXCEPT !.live = m.live \ {t}]
    BY <1>2, <1>3, <1>6 DEF Check
  <2>2. /\ q \in Check /\ q.on = p.on /\ q.opening = p.opening /\ q.gen = p.gen /\ q.held = p.held
        /\ q.told = p.told /\ q.last = t /\ q.live \subseteq p.live /\ q.runs = p.runs \ {r}
    BY <1>3, <2>1 DEF Check
  <2> QED
    BY <1>4, <2>2, RunEnds
<1>7. CASE r.gen = p.gen
  <2>1. q = [m EXCEPT !.held = [m.held EXCEPT ![r.kind] = t], !.runs = m.runs \cup {s}]
    BY <1>2, <1>3, <1>7 DEF Check
  <2>2. [m.held EXCEPT ![r.kind] = t] \in [Toggles -> Nat]
    BY <1>3, <1>4 DEF Check
  <2>3. /\ q \in Check /\ q.on = p.on /\ q.opening = p.opening /\ q.gen = p.gen
        /\ q.held = [p.held EXCEPT ![r.kind] = t]
        /\ q.told = p.told /\ q.last = t /\ q.live = p.live \cup {t} /\ q.runs = (p.runs \ {r}) \cup {s}
    <3>1. m.runs \cup {s} \in SUBSET PreviewRun
      BY <1>3, <1>5 DEF Check
    <3> QED
      BY <1>3, <2>1, <2>2, <3>1 DEF Check
  <2>4. q.held[r.kind] = t /\ \A j \in Toggles : j # r.kind => q.held[j] = p.held[j]
    BY <1>1, <1>4, <2>3 DEF Check, PreviewRun
  <2>5. RunTrue(p, r) /\ p.held[r.kind] = Nothing
    BY <1>7 DEF CheckTrue, RunTrue
  <2>6. \A u \in p.told : u <= p.last /\ u \in Nat
    BY <1>1 DEF CheckTrue, Check
  <2>7. \A u \in q.told : u <= q.last
    BY <1>4, <2>3, <2>6 DEF t
  <2>8. RunTrue(q, s)
    <3>1. t \notin q.told /\ t <= q.last
      BY <1>4, <2>3, <2>6
    <3> QED
      BY <1>4, <1>5, <2>3, <2>4, <2>5, <3>1 DEF RunTrue
  <2>9. ASSUME NEW n \in p.runs \ {r} PROVE RunTrue(q, n) /\ n.kind # r.kind /\ (n.pc = "listing" => n.t # t)
    <3>1. RunTrue(p, n) /\ n.kind # r.kind /\ n.kind \in Toggles /\ n.t \in Nat
      BY <1>1, <2>9 DEF CheckTrue, Apiece, Check, PreviewRun
    <3>2. n.pc = "listing" => n.t <= p.last /\ n.t <= q.last /\ n.t # t
      BY <1>4, <2>3, <3>1 DEF RunTrue, t
    <3>3. q.held[n.kind] = p.held[n.kind]
      BY <2>4, <3>1
    <3> QED
      BY <2>3, <3>1, <3>2, <3>3 DEF RunTrue
  <2>10. Apiece(q)
    <3>1. Apiece(p)
      BY DEF CheckTrue
    <3> QED
      BY <1>5, <2>3, <2>9, <3>1 DEF Apiece
  <2>11. HeldAtCheck(q)
    <3>1. ASSUME NEW x \in p.live PROVE \E j \in q.on \cup q.opening : x = q.held[j]
      <4>1. PICK j \in p.on \cup p.opening : x = p.held[j]
        BY <3>1 DEF CheckTrue, HeldAtCheck
      <4>2. j # r.kind /\ j \in Toggles
        BY <1>1, <2>5, <3>1, <4>1 DEF CheckTrue, HeldAtCheck, Check
      <4> QED
        BY <2>3, <2>4, <4>1, <4>2
    <3>2. r.kind \in q.on \cup q.opening
      BY <1>4, <1>7, <2>3, <2>5 DEF RunTrue, PreviewRun
    <3>3. t = q.held[r.kind]
      BY <2>4
    <3> QED
      BY <1>4, <2>3, <3>1, <3>2, <3>3 DEF HeldAtCheck, CheckTrue
  <2> QED
    BY <2>3, <2>7, <2>8, <2>9, <2>10, <2>11 DEF CheckTrue
<1> QED
  BY <1>6, <1>7

\* The pickers have been filled.
LEMMA ListedTrue ==
    ASSUME NEW p, CheckTrue(p), NEW r \in p.runs, r.pc = "listing", NEW q, q = Listed(p, r)
    PROVE  CheckTrue(q)
<1> DEFINE told == IF r.kind = "mic" THEN p.told \cup {r.t} ELSE p.told
<1>1. p \in Check
  BY DEF CheckTrue
<1>2. /\ r \in PreviewRun /\ r.kind \in Toggles /\ r.t \in Nat /\ p.runs \ {r} \in SUBSET PreviewRun
      /\ p.last \in Nat /\ p.last <= p.last
  BY <1>1 DEF Check, PreviewRun
<1>3. told \in {p.told, p.told \cup {r.t}} /\ told \in SUBSET Nat
  BY <1>1, <1>2 DEF Check
<1>4. CASE r.gen # p.gen
  <2>1. q = [p EXCEPT !.runs = p.runs \ {r}]
    BY <1>1, <1>4 DEF Listed, Check
  <2>2. /\ q \in Check /\ q.on = p.on /\ q.opening = p.opening /\ q.gen = p.gen /\ q.held = p.held
        /\ q.told = p.told /\ q.last = p.last /\ q.live = p.live /\ q.runs = p.runs \ {r}
    BY <1>1, <2>1 DEF Check
  <2> QED
    BY <1>2, <2>2, RunEnds
<1>5. CASE r.gen = p.gen /\ r.from # "toggle"
  <2>1. q = [p EXCEPT !.runs = p.runs \ {r}, !.told = told]
    BY <1>1, <1>5 DEF Listed, Confirmed, Check
  <2> HIDE DEF told
  <2>2. /\ q \in Check /\ q.on = p.on /\ q.opening = p.opening /\ q.gen = p.gen /\ q.held = p.held
        /\ q.told = told /\ q.last = p.last /\ q.live = p.live /\ q.runs = p.runs \ {r}
    BY <1>1, <1>3, <2>1 DEF Check
  <2> QED
    BY <1>2, <1>3, <2>2, RunEnds
<1>6. CASE r.gen = p.gen /\ r.from = "toggle"
  <2>1. q = [p EXCEPT !.runs = p.runs \ {r}, !.told = told, !.on = p.on \cup {r.kind}, !.opening = p.opening \ {r.kind}]
    BY <1>1, <1>6 DEF Listed, Confirmed, Check
  <2> HIDE DEF told
  <2>2. p.on \cup {r.kind} \in SUBSET Toggles /\ p.opening \ {r.kind} \in SUBSET Toggles
    BY <1>1, <1>2 DEF Check
  <2>3. /\ q \in Check /\ q.on = p.on \cup {r.kind} /\ q.opening = p.opening \ {r.kind}
        /\ q.gen = p.gen /\ q.held = p.held
        /\ q.told = told /\ q.last = p.last /\ q.live = p.live /\ q.runs = p.runs \ {r}
    <3>1. q \in Check
      BY <1>1, <1>2, <1>3, <2>1, <2>2 DEF Check
    <3> QED
      BY <1>1, <2>1, <3>1 DEF Check
  <2> QED
    BY <1>2, <1>3, <2>3, RunEnds
<1> QED
  BY <1>4, <1>5, <1>6

\* The device does not open.
LEMMA PreviewFailsTrue ==
    ASSUME NEW p, CheckTrue(p), NEW r \in p.runs, r.pc = "opening", NEW refused \in BOOLEAN,
           NEW q, q = PreviewFails(p, r, refused)
    PROVE  CheckTrue(q)
<1>1. p \in Check
  BY DEF CheckTrue
<1>2. /\ r \in PreviewRun /\ r.kind \in Toggles /\ r.t \in Nat /\ p.runs \ {r} \in SUBSET PreviewRun
      /\ p.last \in Nat /\ p.last <= p.last
  BY <1>1 DEF Check, PreviewRun
<1>3. CASE r.from = "toggle" /\ r.gen # p.gen
  <2>1. q = [p EXCEPT !.runs = p.runs \ {r}]
    BY <1>1, <1>3 DEF PreviewFails, Check
  <2>2. /\ q \in Check /\ q.on = p.on /\ q.opening = p.opening /\ q.gen = p.gen /\ q.held = p.held
        /\ q.told = p.told /\ q.last = p.last /\ q.live = p.live /\ q.runs = p.runs \ {r}
    BY <1>1, <2>1 DEF Check
  <2> QED
    BY <1>2, <2>2, RunEnds
<1>4. CASE r.from # "toggle" \/ r.gen = p.gen
  <2> DEFINE opening == IF r.from = "toggle" THEN p.opening \ {r.kind} ELSE p.opening
             soon == IF refused THEN r.kind ELSE p.helpSoon
  <2>1. q = [p EXCEPT !.runs = p.runs \ {r}, !.on = p.on \ {r.kind}, !.opening = opening, !.helpSoon = soon]
    BY <1>1, <1>4 DEF PreviewFails, Explained, Check
  <2>2. /\ opening \in SUBSET Toggles /\ soon \in Toggles \cup {Anybody} /\ p.on \ {r.kind} \in SUBSET Toggles
        /\ opening = p.opening \/ opening = p.opening \ {r.kind}
    BY <1>1, <1>2 DEF Check
  <2> HIDE DEF opening, soon
  <2>3. /\ q \in Check /\ q.on = p.on \ {r.kind} /\ q.opening = opening /\ q.gen = p.gen /\ q.held = p.held
        /\ q.told = p.told /\ q.last = p.last /\ q.live = p.live /\ q.runs = p.runs \ {r}
    <3>1. q \in Check
      BY <1>1, <1>2, <2>1, <2>2 DEF Check
    <3> QED
      BY <1>1, <2>1, <3>1 DEF Check
  <2>4. p.held[r.kind] = Nothing
    BY <1>2, <1>4 DEF CheckTrue, RunTrue, PreviewRun
  <2> QED
    BY <1>2, <2>2, <2>3, <2>4, RunEnds
<1> QED
  BY <1>3, <1>4

\* A device of the check is lost.
LEMMA PreviewEndsTrue ==
    ASSUME NEW p, CheckTrue(p), NEW k \in Toggles, p.held[k] # Nothing, p.held[k] \in p.told,
           NEW q, q = PreviewEnds(p, k)
    PROVE  CheckTrue(q)
<1> DEFINE t == p.held[k]
           m == [p EXCEPT !.live = p.live \ {t}]
<1>1. p \in Check
  BY DEF CheckTrue
<1>2. /\ m \in Check /\ m.on = p.on /\ m.opening = p.opening /\ m.gen = p.gen /\ m.held = p.held
      /\ m.told = p.told /\ m.last = p.last /\ m.live = p.live \ {t} /\ m.runs = p.runs
  BY <1>1 DEF Check
<1>3. CheckTrue(m)
  BY <1>2 DEF CheckTrue, RunTrue, Apiece, HeldAtCheck
<1>4. CASE k \notin p.on
  BY <1>1, <1>3, <1>4 DEF PreviewEnds, Check
<1>5. CASE k \in p.on
  <2>1. q = PreviewOff(m, k, m.on \ {k})
    BY <1>1, <1>5 DEF PreviewEnds, PreviewOff, StopPreview, Check
  <2> HIDE DEF m
  <2>2. \A r \in m.runs : r.kind = k => r.gen # m.gen /\ r.from # "picker"
    <3>1. SUFFICES ASSUME NEW r \in m.runs, r.kind = k, r.gen = m.gen PROVE FALSE
      BY <1>2, <1>3 DEF CheckTrue, RunTrue
    <3>2. RunTrue(p, r) /\ r.gen = p.gen /\ r.pc \in {"opening", "listing"}
      BY <1>1, <1>2, <3>1 DEF CheckTrue, Check, PreviewRun
    <3> QED
      BY <3>1, <3>2 DEF RunTrue
  <2>3. Stoppable(m, k, m.on \ {k})
    BY <2>2 DEF Stoppable
  <2> QED
    BY <1>3, <2>1, <2>3, PreviewStops
<1> QED
  BY <1>4, <1>5

\* Nobody is opening a device whose button and picker are free.
LEMMA Free ==
    ASSUME NEW p, CheckTrue(p), NEW k, Under(p, k, "picker") = {},
           Under(p, k, "toggle") = {} \/ k \in p.on
    PROVE  \A r \in p.runs : r.kind # k
<1>1. SUFFICES ASSUME NEW r \in p.runs, r.kind = k PROVE FALSE
  OBVIOUS
<1>2. r.from \in {"toggle", "picker"} /\ RunTrue(p, r)
  BY DEF CheckTrue, Check, PreviewRun
<1>3. r.from = "toggle"
  BY <1>1, <1>2 DEF Under
<1>4. r \in Under(p, k, "toggle")
  BY <1>1, <1>3 DEF Under
<1> QED
  BY <1>1, <1>2, <1>3, <1>4 DEF RunTrue

\* A toggle is pressed.
LEMMA ToggleTrue == ASSUME Races = {}, CheckTrue(pre), Toggle PROVE CheckTrue(pre')
<1>1. PICK k \in Toggles : Button(pre, k) /\ Unpicked(k) /\ pre' = Toggled(pre, k)
  BY DEF Toggle
<1>2. \A r \in pre.runs : r.kind # k
  BY <1>1, Free DEF Unpicked, Button
<1> QED
  BY <1>1, <1>2, ToggledTrue

\* Another device is chosen.
LEMMA PickTrue == ASSUME Races = {}, CheckTrue(pre), Pick PROVE CheckTrue(pre')
<1>1. PICK k \in pre.on : Unpicked(k) /\ pre' = Chosen(pre, k)
  BY DEF Pick
<1>2. \A r \in pre.runs : r.kind # k
  BY <1>1, Free DEF Unpicked
<1>3. k \in Toggles
  BY <1>1 DEF CheckTrue, Check
<1> QED
  BY <1>1, <1>2, <1>3, ChosenTrue

\* The help card goes.
LEMMA HidesHelp == ASSUME NEW p, CheckTrue(p), NEW q, q = HideMediaHelp(p) PROVE CheckTrue(q) /\ q.runs = p.runs
<1>1. Anybody \in Toggles \cup {Anybody}
  OBVIOUS
<1>2. p \in Check
  BY DEF CheckTrue
<1> QED
  BY <1>1, <1>2, HelpTrue DEF HideMediaHelp, Check

\* The button of the help card.
LEMMA HelpRetryTrue == ASSUME Races = {}, CheckTrue(pre), HelpRetry PROVE CheckTrue(pre')
<1> DEFINE q == HideMediaHelp(pre)
<1>1. pre.help \in Toggles /\ pre.runs = {} /\ (pre' = q \/ pre' = Toggled(q, pre.help))
  BY DEF HelpRetry, HelpRetried
<1>2. CheckTrue(q) /\ q.runs = {}
  BY <1>1, HidesHelp
<1> HIDE DEF q
<1>3. \A r \in q.runs : r.kind # pre.help
  BY <1>2
<1> QED
  BY <1>1, <1>2, <1>3, ToggledTrue

\* The user goes in.
LEMMA EnterTrue == ASSUME Races = {}, CheckTrue(pre), Enter PROVE CheckTrue(pre')
<1>1. pre' = StopAll(pre) /\ \A k \in Toggles : Under(pre, k, "picker") = {}
  BY DEF Enter, Unpicked
<1>2. \A r \in pre.runs : r.from # "picker"
  <2>1. \A r \in pre.runs : r.kind \in Toggles
    BY DEF CheckTrue, Check, PreviewRun
  <2> QED
    BY <1>1, <2>1 DEF Under
<1> QED
  BY <1>1, <1>2, StopAllTrue

\* A preview returns.
LEMMA PreviewReturnsTrue == ASSUME CheckTrue(pre), PreviewReturns PROVE CheckTrue(pre')
<1>1. CASE \E r \in pre.runs : r.pc = "opening" /\ pre' = PreviewOpens(pre, r)
  BY <1>1, PreviewOpensTrue
<1>2. CASE \E r \in pre.runs : r.pc = "listing" /\ pre' = Listed(pre, r)
  BY <1>2, ListedTrue
<1>3. CASE \E r \in pre.runs, refused \in BOOLEAN : r.pc = "opening" /\ pre' = PreviewFails(pre, r, refused)
  BY <1>3, PreviewFailsTrue
<1>4. CASE pre' = HelpShown(pre)
  <2>1. pre.helpSoon \in Toggles \cup {Anybody} /\ Anybody \in Toggles \cup {Anybody}
    BY DEF CheckTrue, Check
  <2> QED
    BY <1>4, <2>1, HelpTrue DEF HelpShown
<1> QED
  BY <1>1, <1>2, <1>3, <1>4 DEF PreviewReturns

\* A device of the check is lost.
LEMMA PreviewEndedTrue == ASSUME Races = {}, CheckTrue(pre), PreviewEnded PROVE CheckTrue(pre')
<1>1. PICK k \in Toggles : pre.held[k] # Nothing /\ pre.held[k] \in pre.told /\ pre' = PreviewEnds(pre, k)
  BY DEF PreviewEnded
<1> QED
  BY <1>1, PreviewEndsTrue

\* No device is being checked.
LEMMA NoPreviewTrue == CheckTrue(NoPreview)
<1>1. /\ NoPreview.on = {} /\ NoPreview.opening = {} /\ NoPreview.gen = 0 /\ NoPreview.runs = {}
      /\ NoPreview.live = {} /\ NoPreview.told = {} /\ NoPreview.last = 0
  BY DEF NoPreview
<1>2. NoPreview \in Check
  BY DEF NoPreview, Check, Nothing
<1> QED
  BY <1>1, <1>2 DEF CheckTrue, Apiece, HeldAtCheck

\* In the room, or not.
LEMMA JoinedTrue == ASSUME CheckTrue(pre), Joined \/ JoinRefused PROVE CheckTrue(pre')
<1>1. pre' = NoPreview \/ pre' = HideMediaHelp(pre)
  BY DEF Joined, JoinRefused
<1> QED
  BY <1>1, NoPreviewTrue, HidesHelp

-----------------------------------------------------------------------------
(* The page and its device check.                                          *)

\* A page that has just been loaded.
LEMMA InitTrue == Init => MediaTrue
<1> SUFFICES ASSUME Init PROVE MediaTrue
  OBVIOUS
<1>1. PICK f \in Filters, m \in BOOLEAN, in \in BOOLEAN :
          g = [conn |-> 1, joined |-> in, restore |-> {}, card |-> IF in THEN "gone" ELSE "shown",
               mute |-> m, filter |-> f, st |-> <<>>, tiles |-> {}, tracks |-> {}, open |-> {}, enabled |-> {},
               ended |-> [t \in Tracks |-> None]]
  BY DEF Init
<1>2. /\ g.st = <<>> /\ g.tiles = {} /\ g.tracks = {} /\ g.open = {} /\ g.enabled = {}
      /\ g.ended = [t \in Tracks |-> None]
  BY <1>1
<1>3. g \in PageRecord
  <2>1. f \in Looks
    BY MediaAssumption DEF Looks
  <2>2. [t \in Tracks |-> None] \in [Tracks -> Nat] /\ <<>> \in Seq(Stream)
    BY DEF None
  <2>3. (IF in THEN "gone" ELSE "shown") \in Cards
    BY DEF Cards
  <2> QED
    BY <1>1, <2>1, <2>2, <2>3 DEF PageRecord
<1>4. DOMAIN g.st = {} /\ Ups(g) = {} /\ CamUps(g) = {} /\ Len(g.st) = 0
  BY <1>2 DEF Ups, CamUps
<1>5. Streams(g) /\ Lids(g) /\ Tiles(g) /\ Numbered(g) /\ Silent(g)
  BY <1>2, <1>4 DEF Streams, Lids, Tiles, Numbered, Silent
<1>6. Tellers(g)
  BY <1>2, <1>4 DEF Tellers, None
<1>7. cur = Idle /\ queue = <<>> /\ side = {} /\ pre = NoPreview
  BY DEF Init
<1>8. Waiting(queue)
  BY <1>7 DEF Waiting
<1>9. Current(g, cur) /\ Beside(g, cur, side) /\ HeldTrue(g, cur, side)
  BY <1>2, <1>7 DEF Current, Beside, HeldTrue
<1> QED
  BY <1>3, <1>5, <1>6, <1>7, <1>8, <1>9, NoPreviewTrue DEF MediaTrue, Sound, PageTrue

\* Every step leaves the page and its runs true.
LEMMA NextSound ==
    ASSUME Races = {}, Sound(g, cur, queue, side), CheckTrue(pre), [Next]_vars
    PROVE  Sound(g', cur', queue', side')
<1>1. CASE UNCHANGED <<g, cur, queue, side>>
  BY <1>1
<1>2. CASE Toggle \/ Pick \/ HelpRetry \/ PreviewReturns \/ PreviewEnded
  <2>1. UNCHANGED <<g, cur, queue, side>>
    BY <1>2 DEF Toggle, Pick, HelpRetry, AtCheck, PreviewReturns, PreviewEnded
  <2> QED
    BY <1>1, <2>1
<1>3. CASE Enter
  BY <1>3, EnterSound
<1>4. CASE PresentButton \/ UnpresentButton \/ MuteButton \/ MicrophoneOff
  BY <1>4, PresentSound, UnpresentSound, MuteSound, MicrophoneOffSound
<1>5. CASE \E keep \in BOOLEAN : ReplaceCameraStream(keep)
  BY <1>5, ReplaceCameraSound
<1>6. CASE FilterSelect \/ ShareButton \/ Leave \/ MutedByOperator
  BY <1>6, FilterSelectSound, ShareSound, LeaveSound, MutedByOperatorSound
<1>7. CASE UserMediaOpens \/ UserMediaFails \/ AddTrackFails \/ ChoicesSet
  BY <1>7, UserMediaOpensSound, UserMediaFailsSound, AddTrackFailsSound, ChoicesSetSound
<1>8. CASE FilterStarts \/ ReplacementStarts \/ ScreenPicked \/ Recovers
  BY <1>8, FilterStartsSound, ReplacementStartsSound, ScreenPickedSound, RecoversSound
<1>9. CASE Dropped \/ Joined \/ JoinRefused
  BY <1>9, DroppedSound, JoinedSound, JoinRefusedSound
<1>10. CASE \E t \in g.open : PictureLost(t) \/ MicrophoneLost(t)
  BY <1>10, PictureLostSound, MicrophoneLostSound
<1>11. CASE UNCHANGED vars
  BY <1>1, <1>11 DEF vars
<1> QED
  BY <1>2, <1>3, <1>4, <1>5, <1>6, <1>7, <1>8, <1>9, <1>10, <1>11 DEF Next, User, Settle

\* ... and the device check.
LEMMA NextCheck ==
    ASSUME Races = {}, CheckTrue(pre), [Next]_vars
    PROVE  CheckTrue(pre')
<1>1. CASE Toggle \/ Pick \/ HelpRetry \/ Enter
  BY <1>1, ToggleTrue, PickTrue, HelpRetryTrue, EnterTrue
<1>2. CASE PreviewReturns \/ PreviewEnded
  BY <1>2, PreviewReturnsTrue, PreviewEndedTrue
<1>3. CASE Joined \/ JoinRefused
  BY <1>3, JoinedTrue
<1>4. CASE pre' = pre
  BY <1>4
<1>5. CASE PresentButton \/ UnpresentButton \/ MuteButton \/ MicrophoneOff
           \/ (\E keep \in BOOLEAN : ReplaceCameraStream(keep)) \/ FilterSelect \/ ShareButton
  BY <1>4, <1>5 DEF PresentButton, UnpresentButton, MuteButton, MicrophoneOff, ReplaceCameraStream,
                    FilterSelect, ShareButton, Press
<1>6. CASE Leave \/ MutedByOperator \/ Dropped
  BY <1>4, <1>6 DEF Leave, MutedByOperator, Dropped
<1>7. CASE UserMediaOpens \/ UserMediaFails \/ AddTrackFails \/ ChoicesSet
  BY <1>4, <1>7 DEF UserMediaOpens, UserMediaFails, AddTrackFails, ChoicesSet
<1>8. CASE FilterStarts \/ ReplacementStarts \/ ScreenPicked \/ Recovers
  BY <1>4, <1>8 DEF FilterStarts, ReplacementStarts, ScreenPicked, Recovers
<1>9. CASE \E t \in g.open : PictureLost(t) \/ MicrophoneLost(t)
  BY <1>4, <1>9 DEF PictureLost, MicrophoneLost, Lost
<1>10. CASE UNCHANGED vars
  BY <1>4, <1>10 DEF vars
<1> QED
  BY <1>1, <1>2, <1>3, <1>5, <1>6, <1>7, <1>8, <1>9, <1>10 DEF Next, User, Settle

\* Together they are inductive.
LEMMA NextTrue == ASSUME Races = {}, MediaTrue, [Next]_vars PROVE MediaTrue'
<1>1. Sound(g', cur', queue', side')
  BY NextSound DEF MediaTrue
<1>2. CheckTrue(pre')
  BY NextCheck DEF MediaTrue
<1>3. MediaTrue' <=> Sound(g', cur', queue', side') /\ CheckTrue(pre')
  BY DEF MediaTrue
<1> QED
  BY <1>1, <1>2, <1>3

\* The invariant.
LEMMA AlwaysTrue == ASSUME Races = {} PROVE Spec => []MediaTrue
<1>1. MediaTrue /\ [Next]_vars => MediaTrue'
  BY NextTrue
<1> QED
  BY <1>1, InitTrue, PTL DEF Spec

\* Of streams that are all the same there is one.
LEMMA OneAtMost ==
    ASSUME NEW S, \A i, j \in S : i = j
    PROVE  Cardinality(S) <= 1
<1>1. CASE S = {}
  BY <1>1, FS_EmptySet
<1>2. CASE S # {}
  <2>1. PICK x : x \in S
    BY <1>2
  <2>2. S = {x}
    BY <2>1
  <2> QED
    BY <2>2, FS_Singleton
<1> QED
  BY <1>1, <1>2

\* What the invariant says of what is sent.
LEMMA TrueSent == MediaTrue => SentAsTold
<1> SUFFICES ASSUME MediaTrue PROVE SentAsTold
  OBVIOUS
<1>1. PageTrue(g) /\ Mine(g) = Ups(g)
  BY MineUp DEF MediaTrue, Sound
<1>2. OneCamera
  <2> DEFINE S == {i \in Mine(g) : g.st[i].label = "camera"}
  <2>1. \A i, j \in S : i = j
    BY <1>1 DEF PageTrue, Lids, CamUps
  <2> HIDE DEF S
  <2>2. Cardinality(S) <= 1
    BY <2>1, OneAtMost
  <2> QED
    BY <2>2 DEF OneCamera, S
<1>3. MutedIsSilent
  BY <1>1 DEF MutedIsSilent, PageTrue, Silent
<1> QED
  BY <1>2, <1>3 DEF SentAsTold

\* ... and of what is open.
LEMMA TrueOpen == MediaTrue => NothingLeftOpen
<1> SUFFICES ASSUME MediaTrue PROVE NothingLeftOpen
  OBVIOUS
<1>1. PageTrue(g) /\ Mine(g) = Ups(g) /\ HeldTrue(g, cur, side)
  BY MineUp DEF MediaTrue, Sound
<1>2. PreviewsHeld
  BY DEF MediaTrue, CheckTrue, HeldAtCheck, PreviewsHeld
<1>3. DevicesHeld
  <2> DEFINE A == UNION {Held(i) : i \in DOMAIN g.st}
  <2>1. HeldBy(g) \subseteq A
    <3>1. ASSUME NEW t \in HeldBy(g) PROVE t \in A
      <4>1. PICK i \in Ups(g) : t \in g.st[i].raw
        BY DEF HeldBy
      <4>2. i \in DOMAIN g.st /\ g.joined
        BY <1>1 DEF Ups, PageTrue, Streams, StreamTrue
      <4>3. t \in Held(i)
        BY <1>1, <4>1, <4>2 DEF Held
      <4> QED
        BY <4>2, <4>3
    <3> QED
      BY <3>1
  <2> HIDE DEF A
  <2>2. g.open \subseteq A \cup Carried(cur) \cup Swaps(side)
    BY <1>1, <2>1 DEF HeldTrue
  <2> QED
    BY <2>2 DEF DevicesHeld, Carried, Swaps, A
<1>4. NoGhostTile
  BY <1>1 DEF NoGhostTile, PageTrue, Tiles, Ups
<1> QED
  BY <1>2, <1>3, <1>4 DEF NothingLeftOpen

\* None of the races is let happen: then a participant sends one camera stream
\* at most, and a microphone that is muted is not heard, whether it was opened,
\* added to a stream or brought back.
THEOREM SentAsToldAlways == ASSUME Races = {} PROVE Spec => []SentAsTold
BY AlwaysTrue, TrueSent, PTL

\* ... and a device that is open belongs to a stream of the present call, to the
\* operation that has just opened it, or to a toggle of the device check; and a
\* tile to a stream that is up.
THEOREM NothingStaysOpen == ASSUME Races = {} PROVE Spec => []NothingLeftOpen
BY AlwaysTrue, TrueOpen, PTL

-----------------------------------------------------------------------------
(* The picture.                                                            *)

\* What is live and still sent is live.
LEMMA SeenLives ==
    ASSUME NEW h, NEW k, PageTrue(h), PageTrue(k), Seen(h, k)
    PROVE  LivePictures(h) \subseteq LivePictures(k)
<1>1. Mine(h) = Ups(h) /\ Mine(k) = Ups(k)
  BY MineUp
<1>2. SUFFICES ASSUME NEW t \in LivePictures(h) PROVE t \in LivePictures(k)
  OBVIOUS
<1>3. PICK i \in Ups(h) : t \in Cams(h.st[i].raw) \cap h.open
  BY <1>1, <1>2 DEF LivePictures
<1>4. t \in k.open /\ i \in Ups(k) /\ t \in Cams(k.st[i].raw)
  BY <1>3 DEF Seen
<1> QED
  BY <1>1, <1>4 DEF LivePictures

\* The same, of a page and the next, and of the one after.
LEMMA SeenTransitive ==
    ASSUME NEW h, NEW k, NEW m, Seen(h, k), Seen(k, m)
    PROVE  Seen(h, m)
<1>1. SUFFICES ASSUME NEW i \in Ups(h), NEW t \in Cams(h.st[i].raw) \cap h.open
               PROVE  t \in m.open /\ i \in Ups(m) /\ t \in Cams(m.st[i].raw)
  BY DEF Seen
<1>2. t \in k.open /\ i \in Ups(k) /\ t \in Cams(k.st[i].raw)
  BY DEF Seen
<1> QED
  BY <1>2 DEF Seen

\* The streams are as they were, and no camera has been stopped.
LEMMA SameSeen ==
    ASSUME NEW h, NEW k, k.st = h.st, \A t \in h.open : Kind(t) = "cam" => t \in k.open
    PROVE  Seen(h, k)
BY DEF Seen, Ups, Cams, OfKind

\* Whoever gives the microphone up keeps the picture that is live, and closes a
\* stream only if it has none.
LEMMA GivesUpSeen ==
    ASSUME NEW h, PageTrue(h), NEW r, Recovering(h, r), NEW k, k = GiveUp(h, r)
    PROVE  Seen(h, k)
<1>1. h \in PageRecord /\ r.i \in DOMAIN h.st /\ Kind(r.lost) = "mic" /\ r.i # None
  BY Typed DEF PageTrue, Recovering, Lacking, Mics, OfKind
<1>2. CASE ~Wanted(h, r)
  <2>1. k = h
    BY <1>2 DEF GiveUp
  <2> QED
    BY <2>1, SameSeen
<1>3. CASE Wanted(h, r) /\ ~VideoLive(h, r.i)
  <2>1. k = CloseStreams(h, {r.i}) /\ r.i \in Ups(h)
    BY <1>1, <1>3 DEF GiveUp, CloseStream, Wanted, Ups
  <2>2. {r.i} \subseteq DOMAIN h.st
    BY <1>1
  <2>3. /\ \A j \in DOMAIN h.st : Alike(k.st[j], h.st[j])
        /\ k.open = h.open \ UNION {h.st[i].raw : i \in {r.i}} /\ Ups(k) = Ups(h) \ {r.i}
    BY <2>1, <2>2, Closes
  <2>4. k.open = h.open \ h.st[r.i].raw
    BY <2>3
  <2>5. OneEach(h.st[r.i].raw)
    BY <2>1 DEF PageTrue, Streams, StreamTrue, Ups
  <2>6. ASSUME NEW t \in Cams(h.st[r.i].raw), t \in h.open PROVE FALSE
    <3>1. PICK u \in Cams(h.st[r.i].raw) : u \notin h.open
      BY <1>1, <1>3, <2>6 DEF VideoLive, HasVideo
    <3> QED
      BY <2>5, <2>6, <3>1 DEF OneEach, Cams, OfKind
  <2>7. SUFFICES ASSUME NEW i \in Ups(h), NEW t \in Cams(h.st[i].raw) \cap h.open
                 PROVE  t \in k.open /\ i \in Ups(k) /\ t \in Cams(k.st[i].raw)
    BY DEF Seen
  <2>8. t \notin Cams(h.st[r.i].raw) /\ Kind(t) = "cam"
    BY <2>6, <2>7 DEF Cams, OfKind
  <2>9. t \notin h.st[r.i].raw /\ i # r.i /\ i \in DOMAIN h.st
    BY <2>7, <2>8 DEF Cams, OfKind, Ups
  <2> QED
    BY <2>3, <2>4, <2>7, <2>9 DEF Alike
<1>4. CASE Wanted(h, r) /\ VideoLive(h, r.i)
  <2>1. k.open = h.open
    BY <1>1, <1>4 DEF GiveUp, PageRecord
  <2>2. /\ DOMAIN k.st = DOMAIN h.st
        /\ \A i \in DOMAIN h.st : k.st[i].up = h.st[i].up /\ k.st[i].raw \in {h.st[i].raw, h.st[i].raw \ {r.lost}}
    BY <1>4, GivesUp
  <2>3. SUFFICES ASSUME NEW i \in Ups(h), NEW t \in Cams(h.st[i].raw) \cap h.open
                 PROVE  t \in k.open /\ i \in Ups(k) /\ t \in Cams(k.st[i].raw)
    BY DEF Seen
  <2> QED
    BY <1>1, <2>1, <2>2, <2>3 DEF Ups, Cams, OfKind
<1> QED
  BY <1>2, <1>3, <1>4

\* A microphone is brought back, or given up.
LEMMA RecoversSeen ==
    ASSUME Sound(g, cur, queue, side), Recovers
    PROVE  Seen(g, g')
<1>1. PICK r \in side : Reopen(r) \/ ReopenFails(r) \/ Reopened(r) \/ Swapped(r)
  BY DEF Recovers
<1>2. PageTrue(g) /\ Beside(g, cur, side) /\ g \in PageRecord
  BY DEF Sound, PageTrue
<1>3. CASE g' = g
  BY <1>3, SameSeen
<1>4. CASE ReopenFails(r)
  <2>1. r.op = "recover" /\ r.pc = "opening" /\ (g' = g \/ g' = GiveUp(g, r))
    BY <1>4 DEF ReopenFails
  <2>2. Recovering(g, r)
    BY <1>2, <2>1, IsRecovering
  <2> QED
    BY <1>2, <1>3, <2>1, <2>2, GivesUpSeen
<1>5. CASE Reopened(r)
  <2> DEFINE h == Open(g, {"mic"})
             t == CHOOSE u \in Fresh(g, h) : TRUE
  <2>1. /\ r.op = "recover" /\ r.pc = "opening" /\ Opened(g) + Cardinality({"mic"}) <= MaxOpens
        /\ g' = StopStream(h, {t}) \/ g' = Attend(h, r.i, t)
    BY <1>5 DEF Reopened, MayOpen
  <2> HIDE DEF h
  <2>2. Opens(g, {"mic"}, Fresh(g, h), h)
    BY <1>2, <2>1, OpensAny DEF h
  <2>3. \E u \in Fresh(g, h) : Kind(u) = "mic"
    BY <2>2 DEF Opens
  <2>4. t \in Fresh(g, h)
    BY <2>3
  <2>5. /\ h.st = g.st /\ g.open \subseteq h.open /\ Kind(t) = "mic" /\ h \in PageRecord
    BY <2>2, <2>4 DEF Opens, KindsIn, PageTrue
  <2> HIDE DEF t
  <2>6. g'.st = h.st /\ h.open \ {t} \subseteq g'.open
    BY <2>1, <2>5 DEF StopStream, Attend, PageRecord
  <2>7. \A u \in g.open : Kind(u) = "cam" => u \in g'.open
    BY <2>5, <2>6
  <2> QED
    BY <2>5, <2>6, <2>7, SameSeen
<1>6. CASE Swapped(r)
  <2>1. r.pc = "swapping" /\ g' = Swap(g, r, r.new)
    BY <1>6 DEF Swapped
  <2>2. Exchanging(g, r)
    BY <1>2, <2>1 DEF Beside, Sharing, Replacing, Recovering
  <2>3. Exchanged(g, g', r)
    BY <1>2, <2>1, <2>2, Exchanges
  <2>4. Kind(r.lost) = "mic"
    BY <2>2 DEF Exchanging, Lacking, Mics, OfKind
  <2>5. SUFFICES ASSUME NEW i \in Ups(g), NEW t \in Cams(g.st[i].raw) \cap g.open
                 PROVE  t \in g'.open /\ i \in Ups(g') /\ t \in Cams(g'.st[i].raw)
    BY DEF Seen
  <2>6. i \in DOMAIN g.st /\ Kind(t) = "cam" /\ t \in g.st[i].raw
    BY <2>5 DEF Ups, Cams, OfKind
  <2>7. /\ g'.open = g.open /\ Ups(g') = Ups(g)
        /\ g'.st[i].raw = IF i = r.i THEN (g.st[i].raw \ {r.lost}) \cup {r.new} ELSE g.st[i].raw
    BY <2>3, <2>6 DEF Exchanged
  <2> QED
    BY <2>4, <2>5, <2>6, <2>7 DEF Cams, OfKind
<1>7. CASE Reopen(r)
  BY <1>3, <1>7 DEF Reopen
<1> QED
  BY <1>1, <1>4, <1>5, <1>6, <1>7

\* A microphone is lost.
LEMMA LostSeen ==
    ASSUME Sound(g, cur, queue, side), NEW t \in g.open, MicrophoneLost(t)
    PROVE  Seen(g, g')
<1>1. Kind(t) = "mic" /\ g' = StopStream(g, {t}) /\ g \in PageRecord
  BY DEF MicrophoneLost, MicrophoneEnded, Sound, PageTrue
<1>2. g'.st = g.st /\ g'.open = g.open \ {t}
  BY <1>1 DEF StopStream, PageRecord
<1>3. \A u \in g.open : Kind(u) = "cam" => u \in g'.open
  BY <1>1, <1>2
<1> QED
  BY <1>2, <1>3, SameSeen

\* What waits is for a camera of its own: no other is stopped for it.
LEMMA BeginsBeside ==
    ASSUME NEW h, PageTrue(h), NEW r \in Asked, r.op = "add", r.lid = None, r.kinds # {}
    PROVE  Begin(h, r).g = h
<1> DEFINE b == AddLocalMediaNow(h, r)
<1>1. FindByLocalId(h, r.lid) = None
  BY FindsLocalId
<1>2. b = Result(h, [op |-> "add", pc |-> "opening", req |-> r, lid |-> r.lid,
                     conn |-> h.conn, keep |-> {}, tracks |-> {}])
  BY <1>1 DEF AddLocalMediaNow
<1>3. b.g = h /\ b.run.req = r /\ b.run.keep = {}
  BY <1>2 DEF Result
<1> HIDE DEF b
<1>4. Wants(b.run) # {}
  BY <1>3 DEF Wants
<1>5. Begin(h, r) = IF b.run.op = "add" /\ Wants(b.run) = {} THEN AddLocalMediaOpened(b.g, b.run, {}) ELSE b
  BY DEF Begin, b
<1> QED
  BY <1>3, <1>4, <1>5

\* The run at the head has ended.
LEMMA ProceedsSeen ==
    ASSUME Waiting(queue), NEW k, PageTrue(k), Proceed(Result(k, Idle))
    PROVE  Seen(k, g')
<1> DEFINE h == Ended(k, cur.req)
<1>1. h = k \/ h = SetLocalMute(k, FALSE)
  BY DEF Ended
<1>2. IF queue = <<>> THEN g' = h ELSE g' = Begin(h, Head(queue)).g
  <2>1. Result(k, Idle).g = k /\ Result(k, Idle).run = Idle
    BY DEF Result
  <2> QED
    BY <2>1 DEF Proceed
<1> HIDE DEF h
<1>3. PageTrue(h) /\ h.st = k.st /\ h.open = k.open
  <2>1. CASE h = k
    BY <2>1
  <2>2. CASE h = SetLocalMute(k, FALSE)
    <3>1. FALSE \in BOOLEAN
      OBVIOUS
    <3> QED
      BY <2>2, <3>1, Mutes
  <2> QED
    BY <1>1, <2>1, <2>2
<1>4. g' = h
  <2>1. CASE queue = <<>>
    BY <1>2, <2>1
  <2>2. CASE queue # <<>>
    <3>1. queue \in Seq(Asked) /\ 1 \in DOMAIN queue /\ Head(queue) = queue[1] /\ Head(queue) \in Asked
      BY <2>2 DEF Waiting
    <3>2. Head(queue).op = "add" /\ Head(queue).lid = None /\ Head(queue).kinds # {}
      BY <3>1 DEF Waiting
    <3>3. Begin(h, Head(queue)).g = h
      BY <1>3, <3>1, <3>2, BeginsBeside
    <3> QED
      BY <1>2, <2>2, <3>3
  <2> QED
    BY <2>1, <2>2
<1> QED
  BY <1>3, <1>4, SameSeen

\* A microphone is added.
LEMMA AddedSeen ==
    ASSUME Sound(g, cur, queue, side), UserMediaOpens, cur.op = "mic"
    PROVE  Seen(g, g')
<1> DEFINE h == Open(g, {"mic"})
           t == CHOOSE u \in Fresh(g, h) : TRUE
           k == AddMicrophoneOpened(h, cur, t)
<1>1. /\ cur # Idle /\ cur.pc = "opening" /\ Opened(g) + Cardinality({"mic"}) <= MaxOpens
      /\ Proceed(Result(k, Idle))
  BY DEF UserMediaOpens, MayOpen
<1>2. PageTrue(g) /\ Waiting(queue) /\ AddingMic(g, cur)
  BY <1>1, RunHolds DEF Adding
<1> HIDE DEF h
<1>3. Opens(g, {"mic"}, Fresh(g, h), h)
  BY <1>1, <1>2, OpensAny DEF h
<1>4. \E u \in Fresh(g, h) : Kind(u) = "mic"
  BY <1>3 DEF Opens
<1>5. t \in Fresh(g, h)
  BY <1>4
<1>6. PageTrue(h) /\ h.st = g.st /\ g.open \subseteq h.open /\ Kind(t) = "mic" /\ t \in h.tracks
  BY <1>3, <1>5 DEF Opens, KindsIn
<1> HIDE DEF t
<1>7. Seen(g, h)
  BY <1>6, SameSeen
<1>8. PageTrue(k) /\ Seen(h, k)
  <2>1. CASE ~Usable(h, cur.i)
    <3>1. k = StopStream(h, {t})
      BY <2>1 DEF AddMicrophoneOpened
    <3>2. PageTrue(k) /\ k.st = h.st /\ k.open = h.open \ {t}
      BY <1>6, <3>1, Stops
    <3>3. \A u \in h.open : Kind(u) = "cam" => u \in k.open
      BY <1>6, <3>2
    <3> QED
      BY <3>2, <3>3, SameSeen
  <2>2. CASE Usable(h, cur.i)
    <3>1. cur.i \in DOMAIN h.st /\ h.st[cur.i].label = "camera" /\ cur.i # None
      BY <1>2, <1>6, Typed DEF AddingMic, PageTrue
    <3>2. PICK i \in Ups(h) : i = cur.i
      BY <2>2, <3>1 DEF Usable, Ups
    <3>3. k = AddMicrophoneTrack(h, i, t)
      BY <2>2, <3>2 DEF AddMicrophoneOpened
    <3>4. h.st[i].label = "camera" /\ Mics(h.st[i].raw) = {}
      BY <2>2, <3>1, <3>2 DEF Usable, HasAudio
    <3> HIDE DEF k
    <3>5. /\ PageTrue(k) /\ Ups(k) = Ups(h) /\ k.open = h.open
          /\ \A j \in DOMAIN h.st : h.st[j].raw \subseteq k.st[j].raw
      BY <1>6, <3>3, <3>4, GetsMicrophone
    <3>6. \A j \in Ups(h) : j \in DOMAIN h.st
      BY DEF Ups
    <3> QED
      BY <3>5, <3>6 DEF Seen, Cams, OfKind
  <2> QED
    BY <2>1, <2>2
<1> HIDE DEF k
<1>9. Seen(k, g')
  BY <1>1, <1>2, <1>8, ProceedsSeen
<1> QED
  BY <1>7, <1>8, <1>9, SeenTransitive

\* None of the races is let happen: then losing the microphone, bringing it back
\* or giving it up, and adding one, leave every picture that is live where it is.
THEOREM PictureStaysAlways == ASSUME Races = {} PROVE Spec => PictureStays
<1> DEFINE Act == (\E t \in g.open : MicrophoneLost(t)) \/ Recovers \/ (UserMediaOpens /\ cur.op = "mic")
<1>1. ASSUME MediaTrue, MediaTrue', Act PROVE LivePictures(g) \subseteq LivePictures(g')
  <2>1. Sound(g, cur, queue, side) /\ PageTrue(g) /\ PageTrue(g')
    BY <1>1 DEF MediaTrue, Sound
  <2>2. Seen(g, g')
    BY <1>1, <2>1, LostSeen, RecoversSeen, AddedSeen
  <2> QED
    BY <2>1, <2>2, SeenLives
<1>2. MediaTrue /\ MediaTrue' /\ [Next]_vars => [Act => LivePictures(g) \subseteq LivePictures(g')]_vars
  BY <1>1
<1>3. Spec => []MediaTrue
  BY AlwaysTrue
<1> HIDE DEF Act
<1>4. Spec => [][Act => LivePictures(g) \subseteq LivePictures(g')]_vars
  BY <1>2, <1>3, PTL DEF Spec
<1> QED
  BY <1>4 DEF PictureStays, Act
=============================================================================
