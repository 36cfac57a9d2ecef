------------------------------ MODULE Precheck ------------------------------
(***************************************************************************)
(* The device check of the login card (makePrecheck() of                   *)
(* static/galene.js): two toggles that open a camera and a microphone for  *)
(* a preview, two pickers, and the help card for a device that is refused. *)
(* Opening takes time, and meanwhile the user presses on.  What is here    *)
(* maps one preview to the next; Media says when.                          *)
(***************************************************************************)
EXTENDS Naturals, FiniteSets

Toggles == {"cam", "mic"}
Nothing == 0
Anybody == "nobody"   \* the help card is about nobody's device

\* state, with the devices the previews have open, the opens under way, the
\* microphones whose end is listened to, and the help card: what it is about,
\* and what it is going to be about.
NoPreview ==
    [on |-> {}, opening |-> {}, gen |-> 0, held |-> [k \in Toggles |-> Nothing],
     live |-> {}, runs |-> {}, told |-> {}, last |-> 0,
     help |-> Anybody, helpSoon |-> Anybody]

Under(p, k, from) == {r \in p.runs : r.kind = k /\ r.from = from}
Button(p, k) == Under(p, k, "toggle") = {}

\* hideMediaHelp()
HideMediaHelp(p) == [p EXCEPT !.help = Anybody, !.helpSoon = Anybody]

\* mediaHelpResolved()
MediaHelpResolved(p, k) == IF p.help = k THEN HideMediaHelp(p) ELSE p

\* stopCam(), stopMic()
StopPreview(p, k) == [p EXCEPT !.live = @ \ {p.held[k]}, !.held[k] = Nothing]

\* startCam(), startMic(), up to the await.
StartPreview(p, k, from) ==
    [StopPreview(p, k) EXCEPT !.runs = @ \cup
        {[kind |-> k, gen |-> p.gen, from |-> from, pc |-> "opening", t |-> Nothing]}]

\* A toggle is pressed: its button is disabled while the device is opening.
Toggled(p, k) ==
    IF k \notin p.on THEN [StartPreview(p, k, "toggle") EXCEPT !.opening = @ \cup {k}]
    ELSE [StopPreview(p, k) EXCEPT !.on = @ \ {k}]

\* Another device is chosen in a picker.
Chosen(p, k) == StartPreview(p, k, "picker")

\* The press is the choice, and the open only confirms it.
Confirmed(p, r) ==
    IF r.from = "toggle" /\ r.gen = p.gen
    THEN [p EXCEPT !.on = @ \cup {r.kind}, !.opening = @ \ {r.kind}] ELSE p

\* ... and the device has opened: kept, unless stop() has been called.
PreviewOpens(p, r) ==
    LET t == p.last + 1
        q == MediaHelpResolved([p EXCEPT !.last = t, !.live = @ \cup {t}, !.runs = @ \ {r}], r.kind)
    IN  IF r.gen # p.gen THEN [q EXCEPT !.live = @ \ {t}]
        ELSE [q EXCEPT !.held[r.kind] = t,
                       !.runs = @ \cup {[r EXCEPT !.pc = "listing", !.t = t]}]

\* enumerate(): the pickers have been filled.
Listed(p, r) ==
    LET q == [p EXCEPT !.runs = @ \ {r}]
    IN  IF r.gen # p.gen THEN q
        ELSE Confirmed([q EXCEPT !.told = IF r.kind = "mic" THEN @ \cup {r.t} ELSE @], r)

\* failed(): a refusal is explained, once the permissions have been looked up.
Explained(p, k, refused) == IF refused THEN [p EXCEPT !.helpSoon = k] ELSE p

\* The device does not open.  The picker does not ask whether stop() has been called.
PreviewFails(p, r, refused) ==
    LET q == [p EXCEPT !.runs = @ \ {r}]
    IN  IF r.from = "toggle" /\ r.gen # p.gen THEN q
        ELSE Explained([q EXCEPT !.on = @ \ {r.kind},
                                 !.opening = IF r.from = "toggle" THEN @ \ {r.kind} ELSE @],
                       r.kind, refused)

\* showMediaHelp(), once it knows.
HelpShown(p) == [p EXCEPT !.help = p.helpSoon, !.helpSoon = Anybody]

\* The button of the help card presses the toggle again.
HelpRetried(p) ==
    LET k == p.help
        q == HideMediaHelp(p)
    IN  IF k \in p.on \cup p.opening \/ ~Button(q, k) THEN q ELSE Toggled(q, k)

\* A microphone is unplugged, or its permission taken back.
PreviewEnds(p, k) ==
    LET t == p.held[k]
        q == [p EXCEPT !.live = @ \ {t}]
    IN  IF t \in p.told /\ k \in p.on THEN StopPreview([q EXCEPT !.on = @ \ {k}], k) ELSE q

\* stop()
StopAll(p) ==
    [StopPreview(StopPreview(p, "cam"), "mic") EXCEPT
        !.gen = @ + 1, !.on = {}, !.opening = {}]

\* applyChoices() for a choice that the open has to confirm.
ApplyChoicesConfirmed(p) == p.on

\* applyChoices(): what to send; then it is stopped.
ApplyChoices(p) == p.on \cup p.opening
=============================================================================
