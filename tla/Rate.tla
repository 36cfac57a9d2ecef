-------------------------------- MODULE Rate --------------------------------
(***************************************************************************)
(* The rate a video is sent at: one receiver, whose Controller             *)
(* (bitrate-control.js) judges what it hears and asks for a cap; another,  *)
(* who asks for caps of his own; the sender's Caps, and galene.js, which   *)
(* carries the requests and applies them.  The path between the two is the *)
(* environment: what it carries, and the delay it has of its own.          *)
(*                                                                         *)
(* Time goes by polls, of two seconds.  Rates and delays are in units.     *)
(* The audio stands for all that is measured: a video that is late or      *)
(* stands still is judged in the same way.                                 *)
(***************************************************************************)
EXTENDS Integers, Sequences, FiniteSets, FiniteSetsExt

CONSTANTS MinCap, StartCap, ReleaseAt,   \* MIN_CAP, START_CAP, RELEASE_AT
          Ceilings,       \* CAMERA_CEILING, by the picture; a set of records
          Sets,           \* what the user may have set; a set of records
          Paths,          \* what the path carries, and its own delay; a set of records
          Source,         \* what the camera makes at most
          MaxLag, Drain,  \* the most a path holds back of what is sent too fast; what it
                          \* lets go in a poll: all of it by the time SETTLE is over
          CongestedDelay, HealthyDelay, ExcessCongested, ExcessHealthy,
          BadToDecrease, GoodToIncrease, MinDecreaseGap, MinIncreaseGap,
          Warmup, Settle, PathMemory, PathLowerAfter, Refresh, Ttl,
          MaxEvents,      \* how often something else happens
          Races           \* the races that are let happen (README)

ASSUME RateAssumption ==
    /\ {MinCap, StartCap, ReleaseAt} \subseteq Nat \ {0} /\ MinCap <= StartCap /\ StartCap < ReleaseAt
    /\ \A top \in Ceilings : top.ceiling >= StartCap
    /\ {MinDecreaseGap, Settle, Warmup, PathMemory, Refresh} \subseteq Nat
    /\ Refresh < Ttl /\ Settle * Drain >= MaxLag

VARIABLES x,        \* the receiver's Controller, and whether its stream is open
          video,    \* the receiver gets the picture
          lines,    \* how large the picture is, one of Ceilings
          path,     \* the path
          lag,      \* what the path holds back
          wire,     \* requests on their way to the sender
          caps,     \* sendCaps, for this stream
          here,     \* the receivers in the room
          set,      \* getMaxVideoThroughput(), getSettings().simulcast, the label, e2ee
          layers,   \* the stream has a low layer as well
          timer,    \* reconsiderParametersTimer
          believed, \* userdata.sentThroughput, Unset or Unknown
          pending,  \* calls of setParameters() that are not done
          actual,   \* what the browser sends at
          worst,    \* the most the path's own delay has been; more (README)
          events

vars == <<x, video, lines, path, lag, wire, caps, here, set, layers, timer,
          believed, pending, actual, worst, events>>
receiver == <<x, video, lines, path, lag, worst>>
sender == <<caps, here, set, layers, timer, believed, pending, actual>>

\* No cap; for a rate, as much as there is.  Nothing has been set yet; what was
\* to be set first has been refused (the property is there, and undefined).
None == 0
Unset == -1
Unknown == -2
Tighter(a, b) == IF a = None THEN b ELSE IF b = None THEN a ELSE IF a < b THEN a ELSE b
Most(a, b) == IF a > b THEN a ELSE b
Least(a, b) == IF a < b THEN a ELSE b
Aged(age, most) == Least(age + 1, most)

\* Longer ago than any bound.
Never == Max({Warmup, MinDecreaseGap, MinIncreaseGap, Settle, Refresh, PathMemory})

-----------------------------------------------------------------------------
(* The receiver's Controller.                                              *)

\* sanitizeCap()
Sane(rate) == Most(MinCap, rate)

Controller ==
    [open |-> TRUE, cap |-> None, started |-> FALSE, prev |-> FALSE, bad |-> 0, good |-> 0,
     changed |-> Never, sent |-> Never, since |-> -1, rates |-> <<>>,
     seen |-> {}, path |-> -1, left |-> 0, recent |-> <<>>, top |-> None]

\* Controller.ceiling()
Ceiling(y) == IF set.label = "camera" THEN y.top ELSE None

\* A poll later.
Older(y) ==
    [y EXCEPT !.changed = Aged(@, Never), !.sent = Aged(@, Never),
              !.since = IF @ = -1 THEN -1 ELSE Aged(@, Never),
              !.left = Most(@ - 1, 0),
              !.seen = {[e EXCEPT !.age = @ + 1] : e \in {e \in @ : e.age < PathMemory}}]

\* pathEvidence()
Evidence(y) ==
    {e.delay : e \in {e \in y.seen : e.cap = MinCap \/ y.cap = None \/ 10 * e.cap <= 7 * y.cap}}

\* pathDelay()
PathDelay(y) ==
    IF Evidence(y) # {} THEN [y EXCEPT !.path = Min(Evidence(y)), !.left = PathMemory]
    ELSE IF y.left = 0 THEN [y EXCEPT !.path = -1] ELSE y

\* assess()
Assess(y, delay) ==
    LET more(excess) == IF y.path = -1 THEN 0 ELSE y.path + excess
    IN  IF ~y.prev THEN "unknown"
        ELSE IF delay > Most(CongestedDelay, more(ExcessCongested)) THEN "bad"
        ELSE IF delay <= Most(HealthyDelay, more(ExcessHealthy)) THEN "good"
        ELSE "hold"

Warming(y) == y.since = -1 \/ y.since < Warmup

\* The last of what was noted, and what is noted now.
Latest(s, e, n) == LET t == Append(s, e) IN IF Len(t) > n THEN Tail(t) ELSE t

\* confirmPath()
ConfirmPath(y, state, delay) ==
    LET recent == Latest(y.recent, delay, PathLowerAfter)
    IN  [y EXCEPT !.recent = recent,
                  !.left = IF y.path # -1 /\ state # "bad" THEN PathMemory ELSE @,
                  !.path = IF @ # -1 /\ Len(recent) = PathLowerAfter
                           THEN Least(@, Max({recent[k] : k \in DOMAIN recent})) ELSE @]

\* The same without SETTLE.
NotedAtOnce(y, state, delay) ==
    IF Warming(y) \/ state = "unknown" THEN y
    ELSE ConfirmPath(IF y.cap = None THEN y
                     ELSE [y EXCEPT !.seen = {e \in @ : e.cap # y.cap \/ e.delay # delay}
                                             \cup {[cap |-> y.cap, delay |-> delay, age |-> 0]}],
                     state, delay)

\* What this interval tells of the path: not while warming up, and not while
\* the buffer may hold what an older cap has left in it.
Noted(y, state, delay) ==
    IF Warming(y) \/ state = "unknown" THEN y
    ELSE ConfirmPath(IF y.cap = None \/ y.changed < Settle THEN y
                     ELSE [y EXCEPT !.seen = {e \in @ : e.cap # y.cap \/ e.delay # delay}
                                             \cup {[cap |-> y.cap, delay |-> delay, age |-> 0]}],
                     state, delay)

\* The intervals that are counted.
Counted(y, state) ==
    [y EXCEPT !.bad = IF state = "bad" /\ ~Warming(y) THEN Least(@ + 1, BadToDecrease)
                      ELSE IF state = "unknown" THEN @ ELSE 0,
              !.good = IF state = "good" THEN Least(@ + 1, GoodToIncrease)
                       ELSE IF state = "unknown" THEN @ ELSE 0]

Arriving(y) == Max({y.rates[k] : k \in DOMAIN y.rates} \cup {0})

MustFall(y) == y.bad = BadToDecrease /\ Arriving(y) > 0 /\ y.changed >= MinDecreaseGap

Fall(y) ==
    LET cap == Sane((6 * (IF y.cap = None THEN Arriving(y) ELSE Least(y.cap, Arriving(y))) + 5) \div 10)
    IN  IF y.cap = None \/ cap < y.cap
        THEN [y EXCEPT !.cap = cap, !.changed = 0, !.bad = 0]
        ELSE [y EXCEPT !.bad = 0]

MayRise(y) == y.cap # None /\ y.good = GoodToIncrease /\ y.changed >= MinIncreaseGap

Rise(y) ==
    LET used == 10 * Arriving(y) >= 7 * y.cap \/ Arriving(y) = 0
        cap == IF used THEN (13 * y.cap + 5) \div 10 ELSE 2 * y.cap
        top == Ceiling(y)
    IN  IF top = None
        THEN [y EXCEPT !.cap = IF cap >= ReleaseAt THEN None ELSE cap, !.changed = 0, !.good = 0]
        ELSE IF y.cap < top
        THEN [y EXCEPT !.cap = Least(cap, top), !.changed = 0, !.good = 0]
        ELSE [y EXCEPT !.good = 0]

\* No picture comes: a cap is not ours to hold any more.
Stopped(y) ==
    [y EXCEPT !.started = FALSE, !.rates = <<>>, !.bad = 0, !.good = 0, !.cap = None,
              !.changed = IF y.cap = None THEN @ ELSE 0, !.sent = IF y.cap = None THEN @ ELSE 0]

\* A picture comes, for the first time or again.
Started(y) ==
    IF ~y.started /\ y.cap = None THEN [y EXCEPT !.started = TRUE, !.cap = StartCap, !.changed = 0]
    ELSE [y EXCEPT !.started = TRUE]

\* What the receiver is sent: of a stream with a low layer, what the path
\* carries, if the server knows.
Sending ==
    LET most == IF actual = None THEN Source ELSE Least(actual, Source)
    IN  IF layers /\ "relay" \notin Races THEN Least(most, path.carries) ELSE most

\* snapshot(): what is read of an interval, and the path and the sender in it.
Snapshot(held) == [delay |-> path.delay + held, rate |-> Sending]

\* Controller.update(), in four steps: the largest picture and what the
\* interval tells of the path, whether a picture comes, what is counted, and
\* what it comes to.  A set of one.
Shown(y, state) ==
    [y EXCEPT !.prev = TRUE, !.since = IF @ = -1 /\ state # "unknown" THEN 0 ELSE @,
              !.top = IF video THEN Most(@, lines.ceiling) ELSE @]
Rated(y, state, rate) ==
    IF ~video THEN Stopped(y)
    ELSE IF state = "unknown" THEN Started(y)
    ELSE [Started(y) EXCEPT !.rates = Latest(@, rate, 3)]
Judged(y) ==
    IF video /\ MustFall(y) THEN Fall(y) ELSE IF video /\ MayRise(y) THEN Rise(y) ELSE y
Update(old, snap) ==
    UNION {UNION {
        {Judged(counted) : counted \in
            {IF video THEN Counted(rated, state) ELSE rated : rated \in
                {Rated(noted, state, snap.rate) : noted \in
                    {Noted(shown, state, snap.delay) : shown \in {Shown(known, state)}}}}}
        : state \in {Assess(known, snap.delay)}} : known \in {PathDelay(old)}}

\* Whether the cap is to be sent.
Send(old, y) == y.cap # old.cap \/ (y.cap # None /\ y.sent >= Refresh)

-----------------------------------------------------------------------------
(* The sender.                                                             *)

\* The same with caps that do not expire.
FreshForEver(m) == m

\* Caps.get(), without what has expired.
Fresh(m) == [r \in {r \in DOMAIN m : m[r].age <= Ttl} |-> m[r]]
Tightest(m) == LET fresh == Fresh(m) IN IF DOMAIN fresh = {} THEN None ELSE Min({fresh[r].cap : r \in DOMAIN fresh})

\* doSimulcast(): as it is set, or with more than two in the room.
DoSimulcast(u, there) == u.simulcast = "on" \/ (u.simulcast = "auto" /\ Cardinality(there) > 1)

\* setUpStream(): whether the stream has a low layer.
Layered(there) == DoSimulcast(set, there) /\ set.label # "screenshare" /\ ~set.e2ee

\* autoThroughput()
AutoThroughput(u, m, there) ==
    IF DoSimulcast(u, there) /\ u.label # "screenshare" THEN u.setting
    ELSE Tighter(u.setting, Tightest(m))

\* setSendParameters(): a call, with what was believed before.
SetSendParameters(u, t, before, there) ==
    [t |-> t, before |-> before, simulcast |-> DoSimulcast(u, there) /\ u.label # "screenshare"]

\* reconsiderSendParameters()
Reconsider(u, m, there) ==
    LET t == AutoThroughput(u, m, there)
        before == IF believed = Unset THEN Unknown ELSE believed
    IN  believed' = t /\ pending' = Append(pending, SetSendParameters(u, t, before, there)) /\ timer' = FALSE

\* applySendCap(), up to its await.
ApplySendCap(m, there) ==
    LET t == AutoThroughput(set, m, there)
        before == IF believed = Unset THEN set.setting ELSE believed
    IN  IF before = t THEN believed' = before /\ UNCHANGED pending
        ELSE believed' = t /\ pending' = Append(pending, SetSendParameters(set, t, before, there))

\* applySendCap(), after it, when the browser refuses.
Refused(p) == believed' = IF believed = p.t THEN p.before ELSE believed

Without(m, r) == [q \in DOMAIN m \ {r} |-> m[q]]
With(m, r, cap) == [q \in DOMAIN m \cup {r} |-> IF q = r THEN [cap |-> cap, age |-> 0] ELSE m[q]]

\* Caps.set()
SetCap(m, r, cap) == IF cap = None THEN Without(m, r) ELSE With(m, r, cap)

\* gotBitrateRequest()
GotBitrateRequest(r, cap) ==
    LET m == SetCap(Fresh(caps), r, cap)
    IN  IF r \notin here THEN UNCHANGED <<caps, believed, pending>>
        ELSE /\ caps' = m
             /\ IF Tightest(m) # Tightest(caps) THEN ApplySendCap(m, here)
                ELSE UNCHANGED <<believed, pending>>

-----------------------------------------------------------------------------
(* Actions.                                                                *)

Event == events < MaxEvents /\ events' = events + 1

\* The path holds back what is sent too fast, and lets it go after.
Held == IF Sending > path.carries THEN Least(lag + 2, MaxLag) ELSE Most(lag - Drain, 0)

\* pollQuality() at both ends, two seconds after the last time.  A request
\* is not sent if the socket is closed just then.
Poll ==
    /\ wire = <<>> /\ pending = <<>>
    /\ lag' = IF video THEN Held ELSE 0
    /\ IF ~x.open THEN UNCHANGED <<x, wire, worst, events>>
       ELSE \E old \in {Older(x)} : \E y \in Update(old, Snapshot(lag')) :
               /\ x' = IF Send(old, y) THEN [y EXCEPT !.sent = 0] ELSE y
               /\ \/ wire' = (IF Send(old, y) THEN <<y.cap>> ELSE <<>>) /\ UNCHANGED <<worst, events>>
                  \/ Send(old, y) /\ wire' = <<>> /\ worst' = worst + MaxLag /\ Event
    /\ \E m \in {Fresh([r \in DOMAIN caps |-> [caps[r] EXCEPT !.age = Aged(@, Ttl + 1)]])} :
          caps' = m /\ ApplySendCap(m, here)
    /\ UNCHANGED <<video, lines, path, here, set, layers, timer, actual>>

Deliver ==
    /\ wire # <<>> /\ wire' = Tail(wire)
    /\ GotBitrateRequest("me", Head(wire))
    /\ UNCHANGED <<receiver, here, set, layers, timer, actual, events>>

\* replaceUpStream(): another stream, with another id, for everyone.
Replaced ==
    /\ x' = (IF ~x.open THEN x ELSE Controller) /\ lag' = 0 /\ wire' = <<>>
    /\ caps' = <<>> /\ believed' = Unset /\ pending' = <<>> /\ actual' = set.setting
    /\ layers' = Layered(here)
    /\ UNCHANGED <<video, lines, path, worst, here, set, timer, events>>

\* The browser has taken it; or the stream has not the layers that are asked for.
Taken ==
    /\ pending # <<>>
    /\ IF Head(pending).simulcast # layers THEN Replaced
       ELSE /\ pending' = Tail(pending) /\ actual' = Head(pending).t
            /\ UNCHANGED <<receiver, wire, caps, here, set, layers, timer, believed, events>>
Refuse ==
    /\ pending # <<>> /\ Head(pending).simulcast = layers
    /\ (Len(pending) = 1 \/ "overlap" \in Races) /\ Event
    /\ pending' = Tail(pending) /\ Refused(Head(pending))
    /\ UNCHANGED <<receiver, wire, caps, here, set, layers, timer, actual>>

\* The other receiver asks for a cap, goes away, or comes.
OtherAsks(cap) ==
    /\ "other" \in here /\ Event
    /\ GotBitrateRequest("other", cap)
    /\ UNCHANGED <<receiver, wire, here, set, layers, timer, actual>>

\* gotUser(), delete: forgetBitrateRequests().
OtherLeaves ==
    /\ "other" \in here /\ Event
    /\ here' = here \ {"other"} /\ timer' = TRUE
    /\ LET m == Without(caps, "other")
       IN  /\ caps' = m
           /\ IF "other" \in DOMAIN caps THEN ApplySendCap(m, here') ELSE UNCHANGED <<believed, pending>>
    /\ UNCHANGED <<receiver, wire, set, layers, actual>>
OtherComes ==
    /\ "other" \notin here /\ Event
    /\ here' = here \cup {"other"} /\ Reconsider(set, caps, here')
    /\ UNCHANGED <<receiver, wire, caps, set, layers, actual>>

\* scheduleReconsiderParameters()
TimerFires ==
    /\ timer /\ Reconsider(set, caps, here)
    /\ UNCHANGED <<receiver, wire, caps, here, set, layers, actual, events>>

\* sendselect, simulcastselect: onchange().
Change(u) ==
    /\ u # set /\ u.label = set.label /\ Event
    /\ set' = u /\ Reconsider(u, caps, here)
    /\ UNCHANGED <<receiver, wire, caps, here, layers, actual>>

\* The sender stops the picture and starts it again; a larger one comes; the
\* path gets another.
Pause ==
    /\ Event /\ video' = ~video
    /\ worst' = (IF "pause" \in Races THEN worst ELSE worst + MaxLag)
    /\ UNCHANGED <<x, lines, path, lag, wire, sender>>
Larger(l) == Event /\ l.ceiling > lines.ceiling /\ lines' = l /\ UNCHANGED <<x, video, path, lag, worst, wire, sender>>
Reroute(p) == Event /\ p # path /\ path' = p /\ worst' = Most(worst, p.delay) /\ UNCHANGED <<x, video, lines, lag, wire, sender>>

\* releaseBitrateCap(): the receiver's stream is closed.
Close ==
    /\ x.open /\ wire = <<>> /\ x' = [Controller EXCEPT !.open = FALSE] /\ lag' = 0
    /\ \/ Event /\ wire' = IF x.cap = None THEN <<>> ELSE <<None>>
       \/ "me" \in DOMAIN caps /\ Event /\ UNCHANGED wire
    /\ UNCHANGED <<video, lines, path, worst, sender>>

-----------------------------------------------------------------------------

Init ==
    /\ video = TRUE /\ lag = 0 /\ wire = <<>> /\ x = Controller
    /\ lines \in {top \in Ceilings : \A other \in Ceilings : top.ceiling <= other.ceiling}
    /\ path \in Paths /\ worst = path.delay
    /\ set \in Sets
    /\ caps = <<>> /\ here = {"me", "other"} /\ layers = Layered(here) /\ timer = FALSE
    /\ believed = Unset /\ pending = <<>> /\ actual = set.setting /\ events = 0

Next ==
    \/ Poll \/ Deliver \/ Taken \/ Refuse \/ OtherLeaves \/ OtherComes \/ TimerFires \/ Pause \/ Close
    \/ \E cap \in {None, MinCap} : OtherAsks(cap)
    \/ \E l \in Ceilings : Larger(l)
    \/ \E p \in Paths : Reroute(p)
    \/ \E u \in Sets : Change(u)

\* Both ends go on polling; a message arrives and the browser answers, before
\* the next poll: each of these is done once for a poll, so that one condition
\* is enough.
Fairness == WF_vars(Poll \/ Deliver \/ Taken \/ TimerFires)

Spec == Init /\ [][Next]_vars
FairSpec == Spec /\ Fairness

-----------------------------------------------------------------------------
(* Properties.                                                             *)

\* What the Controller takes for the path's own delay is never more than that
\* has been: what the sender adds is not laid to the path.
PathIsThePaths == x.open => x.path <= worst

\* What the page believes the browser sends at is what it sends at.
BeliefIsTrue == pending = <<>> => believed \in {actual, Unset, Unknown}

\* Neither end is mistaken about what it acts on: the delay of the path, and
\* the rate the browser sends at.
KnowsWhatIs == PathIsThePaths /\ BeliefIsTrue

\* The sender does not stay above the cap that is asked for, unless a weak
\* receiver has a low layer to fall back on.
Heeded == []<>(~x.open \/ layers \/ Tighter(x.cap, actual) = actual)

\* Nobody is held back by a cap that nobody asks for any more.
Lifted ==
    (~x.open \/ x.cap = None) ~>
        ((x.open /\ x.cap # None) \/ "other" \in DOMAIN caps \/ actual = set.setting)

\* The loop finds the rate: a path that carries all there is gets all there is,
\* however deep its own delay, and one that does not drains.
FindsTheRate ==
    /\ []<>(lag = 0 \/ ~x.open)
    /\ []<>(~x.open \/ ~video \/ path.carries <= 2 * MinCap \/ x.cap # MinCap)

\* The caps do what they are for: they are heeded, lifted, and find the rate.
CapsWork == Heeded /\ Lifted /\ FindsTheRate
=============================================================================
