------------------------------- MODULE Media -------------------------------
(***************************************************************************)
(* The camera, the microphone and the shared screen of one page            *)
(* (static/galene.js, with filter.js, mic-recovery.js and the up streams   *)
(* of protocol.js): opening the devices takes time, and meanwhile the user *)
(* presses buttons, devices go and come back, and the connection is lost.  *)
(*                                                                         *)
(* The page is one record, g.  A handler maps it to the page it leaves; a  *)
(* handler that awaits is a run, in cur while it is at the head of         *)
(* addLocalMediaQueue, in side when nothing serialises it.                 *)
(***************************************************************************)
EXTENDS Naturals, Sequences, FiniteSets, FiniteSetsExt, Precheck

CONSTANTS Filters,      \* what the user may choose in the drawer
          Phone,        \* a device whose camera is turned upright by a canvas
          MaxPresses,   \* how often the user acts
          MaxOpens,     \* how many tracks are ever opened
          MaxLosses,    \* how many devices are unplugged
          MaxConns,     \* how many connections the page makes
          MaxTries,     \* the attempts of mic-recovery.js
          Races         \* the known races left open, see README.md

ASSUME MediaAssumption ==
    /\ Filters \subseteq {"none", "blur"} /\ Phone \in BOOLEAN
    /\ MaxPresses \in Nat /\ MaxOpens \in Nat /\ MaxLosses \in Nat
    /\ MaxConns \in Nat /\ MaxTries \in Nat \ {0}
    /\ Races \subseteq {"buttons", "recover", "refused", "choices", "share",
                        "again", "swap", "mirror", "frozen", "blank",
                        "picker", "help", "listing"}

VARIABLES g,        \* the page: connection, up streams, devices, settings
          cur,      \* what runs at the head of addLocalMediaQueue
          queue,    \* what waits behind it
          side,     \* the runs that nothing serialises
          pre,      \* the device check of the login card
          want,     \* what the user's last presses ask to be sent
          presses, losses

vars == <<g, cur, queue, side, pre, want, presses, losses>>

Idle == [op |-> "idle"]
None == 0
Tracks == {"mic", "cam", "screen"} \X (1..MaxOpens)
Kind(t) == t[1]
OfKind(T, k) == {t \in T : Kind(t) = k}
Mics(T) == OfKind(T, "mic")
Cams(T) == OfKind(T, "cam")

-----------------------------------------------------------------------------
(* Up streams.                                                             *)

\* serverConnection.up, oldest first.
Mine(h) == {i \in DOMAIN h.st : h.st[i].up /\ h.st[i].conn = h.conn}
Oldest(S) == IF S = {} THEN None ELSE Min(S)
FindUpMedia(h, label) == Oldest({i \in Mine(h) : h.st[i].label = label})
FindByLocalId(h, lid) == Oldest({i \in Mine(h) : h.st[i].lid = lid})

\* What c.stream has; a filter's canvas is a video track of its own.
HasAudio(h, i) == i # None /\ Mics(h.st[i].raw) # {}
HasVideo(h, i) == i # None /\ (h.st[i].filtered \/ Cams(h.st[i].raw) # {})

StopStream(h, T) == [h EXCEPT !.open = @ \ T]

RemoveFilter(h, i) == [h EXCEPT !.st[i].filtered = FALSE]

\* The tile of a stream is put there, unless the stream is closed.
SetMedia(h, i) == IF h.st[i].up THEN [h EXCEPT !.tiles = @ \cup {h.st[i].lid}] ELSE h

Closed(c) == [c EXCEPT !.up = FALSE, !.filtered = FALSE]

\* A stream with a microphone more, with another one, and without it.
WithMicrophone(c, t) == [c EXCEPT !.raw = @ \cup {t}, !.idle = FALSE]

OtherMicrophone(c, t, u) ==
    [c EXCEPT !.raw = IF t \in @ THEN (@ \ {t}) \cup {u} ELSE @, !.sent = (@ \ {t}) \cup {u}]

WithoutMicrophone(c, t) == [c EXCEPT !.raw = @ \ {t}, !.sent = @ \ {t}, !.idle = TRUE]

\* Stream.close, of streams that are up, and the onclose that setUpStream gave
\* them.
CloseStreams(h, S) ==
    [h EXCEPT !.st = [i \in DOMAIN h.st |-> IF i \in S THEN Closed(h.st[i]) ELSE h.st[i]],
              !.open = @ \ UNION {h.st[i].raw : i \in S},
              !.tiles = @ \ {h.st[i].lid : i \in S}]

\* A replaced stream leaves its devices, and its tile, to the one that takes over.
CloseStream(h, i, replace) ==
    IF i = None \/ ~h.st[i].up THEN h
    ELSE IF replace THEN [h EXCEPT !.st[i] = Closed(@)]
    ELSE CloseStreams(h, {i})

CloseUpMedia(h, label) == CloseStreams(h, {i \in Mine(h) : h.st[i].label = label})

CloseExtraUpMedia(h, label, keep) ==
    CloseStreams(h, {i \in Mine(h) : h.st[i].label = label} \ {keep})

\* newUpStream: a stream of the same local id is replaced.
NewUpStream(h, label, lid, def, T) ==
    LET n == Len(h.st) + 1
        closed == CloseStream(h, FindByLocalId(h, lid), TRUE)
    IN  [closed EXCEPT !.st = Append(@,
            [label |-> label, lid |-> IF lid = None THEN n ELSE lid,
             conn |-> h.conn, up |-> TRUE, raw |-> T, def |-> def,
             filtered |-> FALSE, ready |-> FALSE, sent |-> {}, idle |-> FALSE])]

Newest(h) == Len(h.st)

\* Who is told that a track has ended.
Telling(h, T, i) == [t \in Tracks |-> IF t \in T THEN i ELSE h.ended[t]]

AddUpTracksLoud(h, i, T) ==
    [h EXCEPT !.ended = Telling(h, T, i), !.st[i].sent = @ \cup T]

\* addUpTrack: the setting mutes a microphone, and whoever is sent is the one
\* to be told that the track has ended.
AddUpTracks(h, i, T) ==
    [h EXCEPT !.ended = Telling(h, T, i),
              !.st[i].sent = @ \cup T,
              !.enabled = IF h.mute THEN @ \ Mics(T) ELSE @]

\* Filter.start is told of every track that ends, and only stops.
FilterStart(h, i) == [h EXCEPT !.ended = Telling(h, h.st[i].raw, None)]

\* The end of setUpStream and setMedia: a filter takes over the camera, and
\* the end of its track with it.
SetUp(h, i) ==
    LET c == h.st[i]
        filtered == c.def # "none"
        told == IF filtered THEN c.raw \ Cams(c.raw) ELSE c.raw
        k == IF filtered THEN FilterStart(h, i) ELSE h
    IN  AddUpTracks(
            SetMedia([k EXCEPT !.st[i] = [@ EXCEPT !.filtered = filtered, !.ready = TRUE]], i), i, told)

\* Starting the filter that blurs waits for its worker.
Slow(h, i) == h.st[i].def = "blur"

\* What a camera of ours is filtered with.
Definition(h, T) ==
    IF h.filter = "none" /\ Phone /\ Cams(T) # {} THEN "orientation" ELSE h.filter

\* The microphone button, and the "mute" of an operator.
SetLocalMute(h, m) ==
    LET mics == UNION {Mics(h.st[i].raw) :
                          i \in {j \in Mine(h) : h.st[j].label = "camera"}}
    IN  [h EXCEPT !.mute = m,
                  !.enabled = IF m THEN @ \ mics ELSE @ \cup mics]

\* What is being sent of the user: the devices open in the camera's stream.
Published(h) ==
    LET i == FindUpMedia(h, "camera")
    IN  IF i = None THEN {} ELSE {Kind(t) : t \in h.st[i].raw \cap h.open}

-----------------------------------------------------------------------------
(* The queue: a run is started as soon as the one before it has ended.     *)

Request(op, lid, kinds, keepVideo, unmute) ==
    [op |-> op, lid |-> lid, kinds |-> kinds, keepVideo |-> keepVideo,
     unmute |-> unmute]

Result(h, run) == [g |-> h, run |-> run]

\* addLocalMediaNow() up to getUserMedia: release what is about to be opened
\* again.  A change to the sound alone keeps the camera that is running.
AddLocalMediaNow(h, r) ==
    LET old == FindByLocalId(h, r.lid)
        keep == IF old = None \/ ~r.keepVideo \/ "cam" \notin r.kinds THEN {}
                ELSE Cams(h.st[old].raw) \cap h.open
        released ==
            IF old = None THEN h
            ELSE IF keep # {} THEN StopStream(h, Mics(h.st[old].raw))
            ELSE StopStream(RemoveFilter(h, old), h.st[old].raw)
    IN  Result(released,
               [op |-> "add", pc |-> "opening", req |-> r, lid |-> r.lid,
                conn |-> h.conn, keep |-> keep, tracks |-> {}])

Wants(run) == run.req.kinds \ (IF run.keep = {} THEN {} ELSE {"cam"})

\* addLocalMediaNow(), once the devices are open.
AddLocalMediaOpened(h, run, T) ==
    LET all == T \cup run.keep
        other == IF run.lid = None THEN FindUpMedia(h, "camera") ELSE None
        released == IF other = None THEN h
                    ELSE StopStream(RemoveFilter(h, other), h.st[other].raw)
        lid == IF other = None THEN run.lid ELSE h.st[other].lid
    IN  IF ~(run.keep \subseteq h.open)
        THEN AddLocalMediaNow(StopStream(h, T), [run.req EXCEPT !.keepVideo = FALSE])
        ELSE IF h.conn # run.conn \/ ~h.joined THEN Result(StopStream(h, all), Idle)
        ELSE Result(released, [run EXCEPT !.pc = "choices", !.lid = lid,
                                          !.tracks = all])

\* ... and the pickers have been filled: publish.
AddLocalMediaPublish(h, run) ==
    LET n == NewUpStream(h, "camera", run.lid, Definition(h, run.tracks), run.tracks)
    IN  IF Slow(n, Newest(n))
        THEN Result(FilterStart(n, Newest(n)), [op |-> "add", pc |-> "setup", req |-> run.req, i |-> Newest(n)])
        ELSE Result(SetUp(n, Newest(n)), Idle)

\* A camera stream that a microphone can still be added to.
Usable(h, i) ==
    /\ h.st[i].up /\ h.st[i].conn = h.conn
    /\ ~HasAudio(h, i) /\ h.st[i].ready

Republish(h, i, kinds, r) ==
    AddLocalMediaNow(h, Request("add", h.st[i].lid, kinds, TRUE, r.unmute))

AddMicrophoneNow(h, r) ==
    LET i == r.lid  \* the stream asked about
    IN  IF ~Usable(h, i) \/ ~HasVideo(h, i)
        THEN Republish(h, i, {"mic"} \cup (IF HasVideo(h, i) THEN {"cam"} ELSE {}), r)
        ELSE Result(h, [op |-> "mic", pc |-> "opening", req |-> r, i |-> i])

\* The microphone goes into the stream, and over a sender left idle.
AddMicrophoneTrack(h, i, t) ==
    AddUpTracks([h EXCEPT !.st[i] = WithMicrophone(@, t)], i, {t})

\* The microphone has opened.
AddMicrophoneOpened(h, run, t) ==
    IF Usable(h, run.i) THEN AddMicrophoneTrack(h, run.i, t) ELSE StopStream(h, {t})

\* A request becomes the run at the head of the queue.  One with nothing to
\* open goes on at once.
Begin(h, r) ==
    LET b == IF r.op = "mic" THEN AddMicrophoneNow(h, r) ELSE AddLocalMediaNow(h, r)
    IN  IF b.run.op = "add" /\ Wants(b.run) = {}
        THEN AddLocalMediaOpened(b.g, b.run, {}) ELSE b

\* The button unmutes, once the microphone it asked for is there.
Ended(h, r) ==
    IF r.unmute /\ FindUpMedia(h, "camera") # None THEN SetLocalMute(h, FALSE) ELSE h

Enqueue(h, r) ==
    /\ "blank" \in Races \/ h.filter = "none" \/ r.op # "add" \/ "cam" \in r.kinds
    /\ IF cur = Idle
       THEN LET b == Begin(h, r) IN g' = b.g /\ cur' = b.run /\ UNCHANGED queue
       ELSE g' = h /\ queue' = Append(queue, r) /\ UNCHANGED cur

\* A step of the run at the head; when it was the last, the next begins.
Proceed(res) ==
    IF res.run # Idle THEN g' = res.g /\ cur' = res.run /\ UNCHANGED queue
    ELSE LET h == Ended(res.g, cur.req)
         IN  IF queue = <<>> THEN g' = h /\ cur' = Idle /\ UNCHANGED queue
             ELSE LET b == Begin(h, Head(queue))
                  IN  g' = b.g /\ cur' = b.run /\ queue' = Tail(queue)

-----------------------------------------------------------------------------
(* The user.                                                               *)

Camera == FindUpMedia(g, "camera")
Busy == cur # Idle \/ side # {}

\* A press; a race that is not left open is one the user does not run.
Press ==
    /\ presses < MaxPresses /\ presses' = presses + 1 /\ UNCHANGED <<pre, losses>>
    /\ "buttons" \in Races \/ cur = Idle
    /\ "recover" \in Races \/ \A r \in side : r.op # "recover"
    /\ "mirror" \in Races \/ \A r \in side : r.pc # "setup"

AskFor(lid, kinds, keepVideo) ==
    /\ Enqueue(g, Request("add", lid, kinds, keepVideo, FALSE))
    /\ UNCHANGED side

\* "Camera on": the button is disabled until it is.
PresentButton ==
    /\ g.joined /\ ~HasVideo(g, Camera) /\ Press
    /\ AskFor(IF Camera = None THEN None ELSE g.st[Camera].lid,
              {"cam"} \cup (IF HasAudio(g, Camera) THEN {"mic"} ELSE {}), FALSE)
    /\ want' = want \cup {"cam"}

\* "Camera off": every camera stream, but not the microphone.
UnpresentButton ==
    /\ g.joined /\ HasVideo(g, Camera) /\ Press
    /\ LET h == CloseExtraUpMedia(g, "camera", Camera)
       IN  IF HasAudio(h, Camera)
           THEN /\ Enqueue(h, Request("add", h.st[Camera].lid, {"mic"}, FALSE, FALSE))
                /\ UNCHANGED side
           ELSE g' = CloseUpMedia(h, "camera") /\ UNCHANGED <<cur, queue, side>>
    /\ want' = want \ {"cam"}

\* The microphone button mutes one that is there, and opens one that is not.
MuteButton ==
    /\ g.joined /\ Press
    /\ IF HasAudio(g, Camera)
       THEN g' = SetLocalMute(g, ~g.mute) /\ UNCHANGED <<cur, queue, side, want>>
       ELSE /\ Enqueue(g, IF Camera = None
                          THEN Request("add", None, {"mic"}, FALSE, TRUE)
                          ELSE Request("mic", Camera, {}, FALSE, TRUE))
            /\ want' = want \cup {"mic"} /\ UNCHANGED side

Kinds(h, i) == (IF HasAudio(h, i) THEN {"mic"} ELSE {}) \cup
               (IF HasVideo(h, i) THEN {"cam"} ELSE {})

\* Another camera, or another microphone (replaceCameraStream).
ReplaceCameraStream(keepVideo) ==
    /\ Camera # None /\ Press
    /\ AskFor(g.st[Camera].lid, Kinds(g, Camera), keepVideo)
    /\ want' = Kinds(g, Camera)

\* "Off" in the picker of microphones.
MicrophoneOff ==
    /\ HasAudio(g, Camera) /\ Press
    /\ IF HasVideo(g, Camera) THEN AskFor(g.st[Camera].lid, {"cam"}, TRUE)
       ELSE g' = CloseUpMedia(g, "camera") /\ UNCHANGED <<cur, queue, side>>
    /\ want' = want \ {"mic"}

\* replaceUpStream(): the same tracks over a new connection.
ReplaceUpStream(h, i) ==
    LET c == h.st[i]
        n == NewUpStream(RemoveFilter(h, i), c.label, c.lid, c.def, c.raw)
    IN  IF Slow(n, Newest(n))
        THEN Result(FilterStart(n, Newest(n)), {[op |-> "replace", pc |-> "setup", i |-> Newest(n)]})
        ELSE Result(SetUp(n, Newest(n)), {})

SetFilter(h, i, f) == [h EXCEPT !.filter = f, !.st[i].def = f]

\* Another filter, or the mirror: not on the queue.
FilterSelect ==
    \E f \in Filters :
        /\ Camera # None /\ Press
        /\ "mirror" \in Races \/ ~Busy
        /\ "blank" \in Races \/ HasVideo(g, Camera)
        /\ LET r == ReplaceUpStream(SetFilter(g, Camera, f), Camera)
           IN  g' = r.g /\ side' = side \cup r.run
        /\ UNCHANGED <<cur, queue, want>>

\* The share button starts to share, or stops.
ShareButton ==
    /\ g.joined /\ Press
    /\ \A r \in side : r.op # "share"
    /\ IF FindUpMedia(g, "screenshare") # None
       THEN g' = CloseUpMedia(g, "screenshare") /\ UNCHANGED side
       ELSE UNCHANGED g /\ side' = side \cup {[op |-> "share", pc |-> "opening", i |-> None]}
    /\ UNCHANGED <<cur, queue, want>>

Picking == \E r \in side : r.op = "share"
Filling == cur # Idle /\ cur.pc = "choices"
Keeping == cur # Idle /\ cur.pc = "opening" /\ cur.op = "add" /\ cur.keep # {}

Swapping == "swap" \notin Races /\ \E r \in side : r.pc = "swapping"

\* The races of the end of a connection that are not left open.
MayGo ==
    /\ ~Swapping
    /\ "share" \in Races \/ ~Picking
    /\ "choices" \in Races \/ ~Filling
    /\ "again" \in Races \/ ~Keeping

\* The user hangs up (and the socket is closed).
Leave ==
    /\ g.joined /\ presses < MaxPresses /\ presses' = presses + 1
    /\ MayGo
    /\ g' = [CloseStreams(g, Mine(g)) EXCEPT !.joined = FALSE, !.card = "shown", !.restore = {}]
    /\ want' = {}
    /\ UNCHANGED <<cur, queue, side, pre, losses>>

\* An operator mutes everybody.
MutedByOperator ==
    /\ g.joined /\ ~g.mute /\ ~Swapping
    /\ g' = SetLocalMute(g, TRUE)
    /\ UNCHANGED <<cur, queue, side, want, pre, presses, losses>>

-----------------------------------------------------------------------------
(* The card: before the room is entered, and after it is left.             *)

\* The user at the device check; only before the first call (a bound).
AtCheck ==
    /\ g.card = "shown" /\ g.st = <<>> /\ ~Busy
    /\ presses < MaxPresses /\ presses' = presses + 1
    /\ UNCHANGED <<g, cur, queue, side, losses>>

Unpicked(k) == "picker" \in Races \/ Under(pre, k, "picker") = {}

Toggle ==
    \E k \in Toggles :
        /\ AtCheck /\ Button(pre, k) /\ Unpicked(k)
        /\ pre' = Toggled(pre, k)
        /\ want' = IF k \in pre.on THEN want \ {k} ELSE want \cup {k}

Pick ==
    \E k \in pre.on :
        AtCheck /\ Unpicked(k) /\ pre' = Chosen(pre, k) /\ UNCHANGED want

\* "Try again", or the site is allowed in its settings meanwhile.
HelpRetry ==
    /\ AtCheck /\ pre.help \in Toggles
    /\ "picker" \in Races \/ pre.runs = {}
    /\ pre' = HelpRetried(pre)
    /\ want' = want \cup pre'.opening

\* loginform.onsubmit, and serverConnect(); the card is hidden (setConnected).
Enter ==
    /\ g.card = "shown" /\ g.conn < MaxConns /\ pre.gen < MaxConns
    /\ "picker" \in Races \/ \A k \in Toggles : Unpicked(k)
    /\ "help" \in Races \/ pre.helpSoon = Anybody
    /\ g' = [g EXCEPT !.card = "sent", !.restore = ApplyChoices(pre)]
    /\ pre' = StopAll(pre)
    /\ UNCHANGED <<cur, queue, side, want, presses, losses>>

\* The server does not let the user in: the card again, its toggles off.
JoinRefused ==
    /\ g.card = "sent"
    /\ g' = [g EXCEPT !.card = "shown", !.restore = {}] /\ want' = {}
    /\ pre' = HideMediaHelp(pre)
    /\ UNCHANGED <<cur, queue, side, presses, losses>>

\* A preview's device opens, its pickers are filled, or it does not open; the
\* help card appears.
PreviewReturns ==
    /\ \/ \E r \in pre.runs :
             /\ r.pc = "opening" /\ ("help" \in Races \/ pre.helpSoon = Anybody)
             /\ pre' = PreviewOpens(pre, r) /\ UNCHANGED want
       \/ \E r \in pre.runs :
             r.pc = "listing" /\ pre' = Listed(pre, r) /\ UNCHANGED want
       \/ \E r \in pre.runs, refused \in BOOLEAN :
             /\ r.pc = "opening"
             /\ pre' = PreviewFails(pre, r, refused)
             /\ want' = IF r.gen = pre.gen THEN want \ {r.kind} ELSE want
       \/ pre.helpSoon # Anybody /\ pre' = HelpShown(pre) /\ UNCHANGED want
    /\ UNCHANGED <<g, cur, queue, side, presses, losses>>

PreviewEnded ==
    \E k \in Toggles :
        /\ losses < MaxLosses /\ losses' = losses + 1
        /\ pre.held[k] # Nothing /\ pre.held[k] \in pre.live
        /\ "listing" \in Races \/ pre.held[k] \in pre.told
        /\ pre' = PreviewEnds(pre, k) /\ want' = want \ {k}
        /\ UNCHANGED <<g, cur, queue, side, presses>>

-----------------------------------------------------------------------------
(* The connection.                                                         *)

\* noteSentMedia(): what to send again.
NoteSentMedia(h) == Kinds(h, FindUpMedia(h, "camera"))

\* The connection is lost: what was being sent is noted, and closed.
Dropped ==
    /\ g.joined /\ g.conn < MaxConns
    /\ MayGo
    /\ g' = [CloseStreams(g, Mine(g)) EXCEPT !.joined = FALSE,
                                             !.restore = NoteSentMedia(g)]
    /\ want' = NoteSentMedia(g)
    /\ UNCHANGED <<cur, queue, side, pre, presses, losses>>

\* In the room, or back in it (gotJoined): send what was chosen, or what was
\* being sent.  Who has used the device check presses nothing more (a bound).
Joined ==
    /\ ~g.joined /\ g.card # "shown" /\ g.conn < MaxConns
    /\ LET h == [g EXCEPT !.joined = TRUE, !.card = "gone", !.conn = @ + 1, !.restore = {}]
       IN  IF g.restore = {} THEN g' = h /\ UNCHANGED <<cur, queue>>
           ELSE Enqueue(h, Request("add", None, g.restore, FALSE, FALSE))
    /\ pre' = IF pre.runs = {} THEN NoPreview ELSE HideMediaHelp(pre)
    /\ presses' = IF pre = NoPreview THEN presses ELSE MaxPresses
    /\ UNCHANGED <<side, want, losses>>

-----------------------------------------------------------------------------
(* The devices.                                                            *)

Opened(h) == Cardinality(h.tracks)
NewTrack(h, kind) == <<kind, Opened(h) + 1>>

\* Tracks of the given kinds are opened.
Open(h, kinds) ==
    LET T == {NewTrack(h, k) : k \in kinds}
    IN  [h EXCEPT !.tracks = @ \cup T, !.open = @ \cup T, !.enabled = @ \cup T]
Fresh(h, k) == k.tracks \ h.tracks
MayOpen(kinds) == Opened(g) + Cardinality(kinds) <= MaxOpens

\* What is lost is no longer asked for; "?", when an operation is under way.
StillWanted(h) ==
    LET lost == IF Camera # None /\ FindUpMedia(h, "camera") = None THEN {"mic", "cam"}
                ELSE Published(g) \ Published(h)
    IN  IF lost = {} THEN want
        ELSE IF cur = Idle THEN want \ lost ELSE want \cup {"?"}

\* The operation under way has failed: what is still sent is all that is asked.
AskedAfter(h) ==
    IF ~g.joined THEN want ELSE IF queue = <<>> THEN Published(h) ELSE want \cup {"?"}

\* getUserMedia gives the devices asked for, at once or after another try.
UserMediaOpens ==
    /\ cur # Idle /\ cur.pc = "opening"
    /\ LET kinds == IF cur.op = "mic" THEN {"mic"} ELSE Wants(cur)
           h == Open(g, kinds)
           T == Fresh(g, h)
       IN  /\ MayOpen(kinds)
           /\ IF cur.op = "add" THEN Proceed(AddLocalMediaOpened(h, cur, T))
              ELSE Proceed(Result(AddMicrophoneOpened(h, cur, CHOOSE t \in T : TRUE), Idle))
    /\ UNCHANGED <<side, want, pre, presses, losses>>

\* ... or does not: refused, busy, gone.
UserMediaFails ==
    /\ cur # Idle /\ cur.pc = "opening"
    /\ \/ "refused" \in Races
       \/ cur.op = "mic"
       \/ FindByLocalId(g, cur.req.lid) = None
    /\ Proceed(Result(g, Idle))
    /\ want' = AskedAfter(g')
    /\ UNCHANGED <<side, pre, presses, losses>>

\* A browser that cannot add a track to a connection that is up.
AddTrackFails ==
    /\ cur # Idle /\ cur.pc = "opening" /\ cur.op = "mic" /\ ~g.st[cur.i].idle
    /\ Usable(g, cur.i)
    /\ LET b == Republish(g, cur.i, {"mic", "cam"}, cur.req) IN Proceed(b)
    /\ UNCHANGED <<side, want, pre, presses, losses>>

\* The pickers have been filled in (setMediaChoices).
ChoicesSet ==
    /\ Filling /\ Proceed(AddLocalMediaPublish(g, cur))
    /\ UNCHANGED <<side, want, pre, presses, losses>>

\* setUpStream after its filter has started: a stream closed meanwhile, or a
\* filter that fails, closes it.
Filtered(h, i, ok) == IF h.st[i].up /\ ok THEN SetUp(h, i) ELSE CloseStream(h, i, FALSE)

FilterStarts ==
    \E ok \in BOOLEAN :
        /\ cur # Idle /\ cur.pc = "setup"
        /\ Proceed(Result(Filtered(g, cur.i, ok), Idle))
        /\ want' = IF ok \/ ~g.st[cur.i].up THEN want ELSE AskedAfter(g')
        /\ UNCHANGED <<side, pre, presses, losses>>

ReplacementStarts ==
    \E r \in side, ok \in BOOLEAN :
        /\ r.pc = "setup"
        /\ g' = Filtered(g, r.i, ok)
        /\ side' = side \ {r}
        /\ want' = StillWanted(g')
        /\ UNCHANGED <<cur, queue, pre, presses, losses>>

\* getDisplayMedia: whatever the connection is by now, publish.
ScreenPicked ==
    \E r \in side, ok \in BOOLEAN :
        /\ r.op = "share" /\ (ok => MayOpen({"screen"}))
        /\ LET h == Open(g, {"screen"})
               n == NewUpStream(h, "screenshare", None, "none", Fresh(g, h))
           IN  g' = IF ok THEN SetUp(n, Newest(n)) ELSE g
        /\ side' = side \ {r}
        /\ UNCHANGED <<cur, queue, want, pre, presses, losses>>

-----------------------------------------------------------------------------
(* Tracks that end on their own.                                           *)

Publishing == \E r \in side \cup {cur} : r # Idle /\ r.pc \in {"choices", "setup"}

Lost(t) ==
    /\ losses < MaxLosses /\ t \in g.open /\ ~Swapping /\ losses' = losses + 1
    /\ UNCHANGED <<cur, queue, pre, presses>>

Teller(t) == IF t \in DOMAIN g.ended THEN g.ended[t] ELSE None

\* A camera or a screen: upTrackEnded closes the stream.  A filter only stops.
PictureLost(t) ==
    /\ Kind(t) # "mic" /\ Lost(t)
    /\ "frozen" \in Races \/ (Teller(t) # None /\ ~Publishing)
    /\ g' = CloseStream(StopStream(g, {t}), Teller(t), FALSE)
    /\ want' = StillWanted(g')
    /\ UNCHANGED side

CloseLosingPicture(h, i, t) == CloseStream(StopStream(h, {t}), i, FALSE)

\* A microphone: the stream stays up, and recoverMicrophone is started.
MicrophoneEnded(h, i, t) == StopStream(h, {t})

Recovery(i, t) == [op |-> "recover", pc |-> "waiting", i |-> i, lost |-> t, tries |-> 0]

MicrophoneLost(t) ==
    /\ Kind(t) = "mic" /\ Lost(t)
    /\ "recover" \in Races \/ (cur = Idle /\ ~Publishing)
    /\ g' = MicrophoneEnded(g, Teller(t), t)
    /\ side' = IF Teller(t) # None /\ g.st[Teller(t)].up
               THEN side \cup {Recovery(Teller(t), t)} ELSE side
    /\ UNCHANGED want

WantedAlways(h, r) == TRUE

\* Still worth bringing back (wanted).
Wanted(h, r) ==
    /\ h.st[r.i].up /\ h.st[r.i].conn = h.conn
    /\ r.lost \in h.st[r.i].sent /\ r.lost \in h.st[r.i].raw

VideoLive(h, i) == HasVideo(h, i) /\ Cams(h.st[i].raw) \subseteq h.open

GiveUpSilently(h, r) == h

\* Every attempt has failed: on with video alone, or not at all.
GiveUp(h, r) ==
    IF ~Wanted(h, r) THEN h
    ELSE IF ~VideoLive(h, r.i) THEN CloseStream(h, r.i, FALSE)
    ELSE [h EXCEPT !.st[r.i] = WithoutMicrophone(@, r.lost)]

Becomes(r, more) == side' = (side \ {r}) \cup more

\* A pause is over: try again, if it is still wanted.
Reopen(r) ==
    /\ r.op = "recover" /\ r.pc = "waiting"
    /\ Becomes(r, IF Wanted(g, r) THEN {[r EXCEPT !.pc = "opening"]} ELSE {})
    /\ UNCHANGED <<g, want>>

ReopenFails(r) ==
    \E again \in BOOLEAN :  \* refused is not asked again
        /\ r.op = "recover" /\ r.pc = "opening"
        /\ IF again /\ r.tries + 1 < MaxTries
           THEN /\ Becomes(r, {[r EXCEPT !.pc = "waiting", !.tries = @ + 1]})
                /\ UNCHANGED <<g, want>>
           ELSE /\ Becomes(r, {}) /\ g' = GiveUp(g, r)
                /\ want' = IF ~Wanted(g, r) THEN want
                           ELSE IF cur = Idle THEN Published(g') ELSE want \cup {"?"}

\* The new track takes the place of the lost one (replaceTrack, swap); over a
\* connection closed meanwhile, replaceTrack never ends.
Swap(h, r, t) ==
    IF ~h.st[r.i].up THEN h
    ELSE [h EXCEPT !.st[r.i] = OtherMicrophone(@, r.lost, t)]

\* The new microphone is muted as the button says, and the stream is told of
\* its end.
Attend(h, i, t) ==
    [h EXCEPT !.enabled = IF h.mute THEN @ \ {t} ELSE @, !.ended = Telling(h, {t}, i)]

Reopened(r) ==
    /\ r.op = "recover" /\ r.pc = "opening" /\ MayOpen({"mic"})
    /\ LET h == Open(g, {"mic"})
           t == CHOOSE u \in Fresh(g, h) : TRUE
       IN  IF ~Wanted(g, r) THEN g' = StopStream(h, {t}) /\ Becomes(r, {})
           ELSE /\ g' = Attend(h, r.i, t)
                /\ Becomes(r, {[op |-> "recover", pc |-> "swapping", i |-> r.i,
                                lost |-> r.lost, new |-> t]})
    /\ UNCHANGED want

Swapped(r) ==
    /\ r.pc = "swapping"
    /\ g' = Swap(g, r, r.new) /\ Becomes(r, {})
    /\ UNCHANGED want

Recovers ==
    \E r \in side :
        /\ Reopen(r) \/ ReopenFails(r) \/ Reopened(r) \/ Swapped(r)
        /\ UNCHANGED <<cur, queue, pre, presses, losses>>

-----------------------------------------------------------------------------

Init ==
    /\ \E f \in Filters, m, in \in BOOLEAN :
          g = [conn |-> 1, joined |-> in, restore |-> {},
               card |-> IF in THEN "gone" ELSE "shown",
               mute |-> m, filter |-> f, st |-> <<>>, tiles |-> {}, tracks |-> {}, open |-> {}, enabled |-> {},
               ended |-> [t \in Tracks |-> None]]
    /\ cur = Idle /\ queue = <<>> /\ side = {} /\ pre = NoPreview /\ want = {}
    /\ presses = 0 /\ losses = 0

User ==
    \/ Toggle \/ Pick \/ HelpRetry \/ Enter
    \/ PresentButton \/ UnpresentButton \/ MuteButton \/ MicrophoneOff
    \/ \E keep \in BOOLEAN : ReplaceCameraStream(keep)
    \/ FilterSelect \/ ShareButton \/ Leave \/ MutedByOperator

\* What ends an await.
Settle ==
    \/ PreviewReturns \/ UserMediaOpens \/ UserMediaFails \/ AddTrackFails \/ ChoicesSet
    \/ FilterStarts \/ ReplacementStarts \/ ScreenPicked \/ Recovers

Next ==
    \/ User \/ Settle \/ Dropped \/ Joined \/ JoinRefused \/ PreviewEnded
    \/ \E t \in g.open : PictureLost(t) \/ MicrophoneLost(t)

Spec == Init /\ [][Next]_vars
FairSpec == Spec /\ WF_vars(Settle)

-----------------------------------------------------------------------------
(* Properties.                                                             *)

\* What is open at the device check belongs to a toggle.
PreviewsHeld ==
    pre.live \subseteq {pre.held[k] : k \in pre.on \cup pre.opening}

Held(i) == IF g.joined /\ i \in Mine(g) THEN g.st[i].raw ELSE {}

\* The types of the page's state.
TypeOK ==
    /\ g.conn \in 1..MaxConns /\ g.open \subseteq g.tracks /\ g.enabled \subseteq g.tracks
    /\ \A i \in DOMAIN g.st : g.st[i].raw \subseteq g.tracks /\ g.st[i].sent \subseteq g.st[i].raw
    /\ Opened(g) <= MaxOpens /\ want \subseteq {"mic", "cam", "?"}

\* A participant sends one camera stream (addLocalMedia: "two cameras and two
\* microphones from a single participant").
OneCamera == Cardinality({i \in Mine(g) : g.st[i].label = "camera"}) <= 1

\* A camera, microphone or screen that is open belongs to a stream of the
\* present call, or to the operation that has just opened it; nothing stays
\* open with nobody holding it (mic-recovery.js, addLocalMediaNow).
DevicesHeld ==
    g.open \subseteq
        (UNION {Held(i) : i \in DOMAIN g.st})
            \cup (IF cur # Idle /\ cur.op = "add" /\ cur.pc = "choices" THEN cur.tracks ELSE {})
            \cup {r.new : r \in {q \in side : q.pc = "swapping"}}

\* A muted microphone is not heard, however it was opened.
MutedIsSilent ==
    g.mute => \A i \in Mine(g) : Mics(g.st[i].sent) \cap g.open \cap g.enabled = {}

\* A tile on the stage is that of a stream that is up (setMedia, delMedia).
NoGhostTile == g.tiles \subseteq {g.st[i].lid : i \in {j \in DOMAIN g.st : g.st[j].up}}

\* Once everything has settled, what is sent is what the buttons last asked
\* for: "each toggles only its own track without disturbing the other".
ButtonsMeanIt ==
    /\ (g.card = "shown" /\ pre.runs = {}) => pre.on = want
    /\ (g.joined /\ cur = Idle /\ side = {} /\ "?" \notin want) => Published(g) = want

\* A microphone or a camera that its button shows as on is open ("keep the mic
\* icon honest").
IconsHonest ==
    /\ pre.runs = {} => \A k \in pre.on : pre.help # k /\ pre.held[k] \in pre.live
    /\ (cur = Idle /\ side = {} /\ Camera # None) =>
        g.st[Camera].raw \cap (g.enabled \cup Cams(g.tracks)) \subseteq g.open

\* Neither a device nor a tile outlives what it was opened for.
NothingLeftOpen == PreviewsHeld /\ DevicesHeld /\ NoGhostTile

\* What is sent is what it should be: one camera stream, silent while muted.
SentAsTold == OneCamera /\ MutedIsSilent

\* The buttons do what they say and show what there is, in the call and at the
\* device check: "the press is the choice, and the open only confirms it".
ButtonsTrue == ButtonsMeanIt /\ IconsHonest

LivePictures(h) == (UNION {Cams(h.st[i].raw) : i \in Mine(h)}) \cap h.open

\* Losing the microphone, bringing it back and adding one leave the picture.
PictureStays ==
    [][((\E t \in g.open : MicrophoneLost(t)) \/ Recovers
          \/ (UserMediaOpens /\ cur.op = "mic"))
       => LivePictures(g) \subseteq LivePictures(g')]_vars

Dead(t) == t \in g.tracks /\ t \notin g.open
Sent(t) == \E i \in Mine(g) : g.st[i].label = "camera" /\ t \in g.st[i].raw

\* A microphone that has ended does not stay in the stream: it is brought
\* back, or the button shows that there is none.
MicSettles ==
    \A n \in 1..MaxOpens :
        []<>(MayOpen({"mic", "cam"}) => ~(Dead(<<"mic", n>>) /\ Sent(<<"mic", n>>)))
=============================================================================
