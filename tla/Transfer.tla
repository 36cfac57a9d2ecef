----------------------------- MODULE Transfer ------------------------------
(***************************************************************************)
(* Files sent from page to page (the TransferredFile of static/protocol.js *)
(* and its box in static/galene.js): the invitation and the answer go      *)
(* through the server, the file over a data channel of its own, and each   *)
(* side must learn, whatever comes first, that the transfer is over.       *)
(***************************************************************************)
EXTENDS Naturals, Sequences, FiniteSets

CONSTANTS Pages, Files,
          From, To,     \* the pages each file goes between
          Size,         \* how many chunks each has
          Leavers,      \* the pages that may leave the group
          MaxCancels,   \* how often a user cancels
          MaxBreaks     \* how many data channels fail

ASSUME TransferAssumption ==
    /\ From \in [Files -> Pages] /\ To \in [Files -> Pages]
    /\ Size \in [Files -> Nat] /\ Leavers \subseteq Pages
    /\ MaxCancels \in Nat /\ MaxBreaks \in Nat

VARIABLES f,        \* f[p][x]: what page p has of the transfer of x
          inbox,    \* what the server has for each page
          link,     \* the data channel of each file: "none", "up" or "cut"
          data,     \* how many chunks are on their way
          ack,      \* whether "done" is on its way back
          known,    \* who each page believes to be in the group
          gone,     \* the pages that have left
          saved,    \* the files that the receiver's browser has saved
          cancels, breaks

vars == <<f, inbox, link, data, ack, known, gone, saved, cancels, breaks>>
net == <<known, gone, cancels, breaks>>

\* The state "unset" is the empty string of the code; run is the asynchronous
\* operation that is under way; end is what the box in the chat says of a
\* transfer that is over.
NoFile == [state |-> "unset", up |-> FALSE, pc |-> "none", run |-> "none", dc |-> "none",
           held |-> 0, heard |-> FALSE, unsent |-> FALSE, datalen |-> 0, end |-> "none"]

Peer(p, x) == IF p = From[x] THEN To[x] ELSE From[x]

\* getTransferredFile(): what is in the dictionary.
Listed(r) == r.state \notin {"unset", "closed"}

Event(r, s) == [r EXCEPT !.state = s]

\* close(): nothing of the transfer is left.
Close(r) == [r EXCEPT !.state = "closed", !.pc = "none", !.dc = "none", !.run = "none",
                      !.held = 0, !.unsent = FALSE, !.datalen = 0]

Ends(r, how) == Close([r EXCEPT !.end = how])

\* The states in which the other side is told that we cancel.
Handshakes(r) == r.state \notin {"unset", "done", "cancelled", "closed"}

\* fail(), and the "cancel" of the other side.
Fail(r) == IF Handshakes(r) THEN Ends(r, "cancelled") ELSE r

-----------------------------------------------------------------------------
(* Messages.                                                               *)

Msg(type, x) == [type |-> type, x |-> x]
Note(p) == [type |-> "delete", x |-> p]

\* userMessage: the server passes it on to whoever is there.
Sent(q, ms) == [inbox EXCEPT ![q] = IF q \in gone THEN @ ELSE @ \o ms]

\* Closing the peer connection cuts the channel.
Cut(x, r) == [link EXCEPT ![x] = IF r.pc = "none" /\ @ = "up" THEN "cut" ELSE @]

\* Page p now has r of x, and has sent ms to the other side.  Sending over a
\* socket that is closed throws, and then nothing has happened.
Becomes(p, x, r, ms) ==
    /\ p \notin gone \/ ms = <<>>
    /\ f' = [f EXCEPT ![p][x] = r]
    /\ inbox' = Sent(Peer(p, x), ms)
    /\ link' = Cut(x, r)

CancelQuietly(p, x) ==
    Becomes(p, x, IF Handshakes(f[p][x]) THEN Ends(f[p][x], "cancelled") ELSE f[p][x], <<>>)

\* cancel(): tells the other side, and closes.
Cancel(p, x) ==
    LET r == f[p][x]
    IN  IF Handshakes(r) THEN Becomes(p, x, Ends(r, "cancelled"), <<Msg("cancel", x)>>)
        ELSE Becomes(p, x, IF r.state = "closed" THEN r ELSE Close(r), <<>>)

-----------------------------------------------------------------------------
(* The users.                                                              *)

\* sendFile().
Offer(x) ==
    LET p == From[x] IN
    /\ p \notin gone /\ To[x] \in known[p] /\ f[p][x] = NoFile
    /\ f' = [f EXCEPT ![p][x] = [NoFile EXCEPT !.up = TRUE, !.state = "inviting"]]
    /\ inbox' = Sent(To[x], <<Msg("invite", x)>>)
    /\ UNCHANGED <<link, data, ack, saved, net>>

\* The "Accept" button: receive().
Accept(x) ==
    LET p == To[x] IN
    /\ f[p][x].state = "inviting" /\ ~f[p][x].up
    /\ Becomes(p, x, [f[p][x] EXCEPT !.state = "connecting", !.pc = "new", !.dc = "new",
                                     !.run = "offer"], <<>>)
    /\ UNCHANGED <<data, ack, saved, net>>

\* The "Cancel" and "Reject" buttons, there until the transfer is over.
PressCancel(p, x) ==
    /\ Handshakes(f[p][x]) /\ cancels < MaxCancels /\ cancels' = cancels + 1
    /\ Cancel(p, x)
    /\ UNCHANGED <<data, ack, saved, known, gone, breaks>>

\* A page leaves the group; it keeps its transfers, the others hear of it.
Leave(p) ==
    /\ p \in Leavers \ gone /\ gone' = gone \cup {p}
    /\ inbox' = [q \in Pages |-> IF q = p \/ q \in gone THEN <<>>
                                 ELSE Append(inbox[q], Note(p))]
    /\ UNCHANGED <<f, link, data, ack, known, saved, cancels, breaks>>

-----------------------------------------------------------------------------
(* What the server brings (fileTransfer).                                  *)

GotInvite(p, x) ==
    IF Listed(f[p][x])  \* a file sent to oneself
    THEN /\ inbox' = [Sent(From[x], <<Msg("cancel", x)>>) EXCEPT ![p] = Tail(@)]
         /\ UNCHANGED <<f, link>>
    ELSE /\ f' = [f EXCEPT ![p][x] = [NoFile EXCEPT !.state = "inviting"]]
         /\ inbox' = [inbox EXCEPT ![p] = Tail(@)]
         /\ UNCHANGED link

\* The rest changes one record: answer(), receiveFile(), a candidate.  There is
\* one offer at most: the button of receive() goes when it is pressed.
AnsweredWith(r) == [r EXCEPT !.state = "connecting", !.pc = "new", !.run = "answer"]

\* A candidate that comes before the answer is held back until then.
Heard(r) ==
    CASE r.pc = "none" -> r
      [] r.pc = "local" -> [r EXCEPT !.held = @ + 1]
      [] OTHER -> [r EXCEPT !.heard = TRUE]

Flushed(r) == [r EXCEPT !.pc = "stable", !.heard = @ \/ r.held > 0, !.held = 0]

GotOther(r, type) ==
    IF ~Listed(r) THEN r
    ELSE CASE type = "offer"  -> AnsweredWith(r)
           [] type = "answer" -> [r EXCEPT !.run = "setting"]
           [] type = "ice"    -> Heard(r)
           [] type = "cancel" -> Ends(r, "cancelled")

\* Somebody has gone: the transfers with them are over.
GotDelete(p, q) ==
    /\ known' = [known EXCEPT ![p] = @ \ {q}]
    /\ f' = [f EXCEPT ![p] = [x \in Files |-> IF q = Peer(p, x) THEN Fail(@[x]) ELSE @[x]]]
    /\ link' = [x \in Files |-> IF f'[p][x] # f[p][x] /\ link[x] = "up" THEN "cut" ELSE link[x]]

Deliver(p) ==
    /\ inbox[p] # <<>> /\ p \notin gone
    /\ LET m == Head(inbox[p])
       IN  IF m.type = "delete"
           THEN GotDelete(p, m.x) /\ inbox' = [inbox EXCEPT ![p] = Tail(@)]
           ELSE /\ UNCHANGED known
                /\ IF m.type = "invite" THEN GotInvite(p, m.x)
                   ELSE LET r == GotOther(f[p][m.x], m.type)
                        IN  /\ f' = [f EXCEPT ![p][m.x] = r]
                            /\ link' = Cut(m.x, r)
                            /\ inbox' = [inbox EXCEPT ![p] = Tail(@)]
    /\ UNCHANGED <<data, ack, saved, gone, cancels, breaks>>

-----------------------------------------------------------------------------
(* What completes after an await.  On a connection that has been closed    *)
(* meanwhile, nothing completes: close() has ended the run.                *)

Runs(p, x, run) == f[p][x].run = run

OfferMade(p, x) ==
    /\ Runs(p, x, "offer")
    /\ Becomes(p, x, [f[p][x] EXCEPT !.pc = "local", !.run = "none", !.unsent = TRUE],
               <<Msg("offer", x)>>)

AnswerMade(p, x) ==
    /\ Runs(p, x, "answer")
    /\ Becomes(p, x, Event([Flushed(f[p][x]) EXCEPT !.run = "none", !.unsent = TRUE],
                           "connected"), <<Msg("answer", x)>>)

AnswerSet(p, x) ==
    /\ Runs(p, x, "setting")
    /\ Becomes(p, x, Event([Flushed(f[p][x]) EXCEPT !.run = "none"], "connected"), <<>>)

\* onicecandidate, once there is a local description.
CandidateFound(p, x) ==
    /\ f[p][x].unsent
    /\ Becomes(p, x, [f[p][x] EXCEPT !.unsent = FALSE], <<Msg("ice", x)>>)

-----------------------------------------------------------------------------
(* The data channel.                                                       *)

\* It opens, and the sender begins to send (ondatachannel).  One side that
\* knows where the other is may be enough, and both are.
Opens(x) ==
    LET s == f[From[x]][x]
        r == f[To[x]][x]
    IN  /\ link[x] = "none" /\ s.pc = "stable" /\ r.pc = "stable" /\ (s.heard \/ r.heard)
        /\ link' = [link EXCEPT ![x] = "up"]
        /\ f' = [f EXCEPT ![From[x]][x].dc = "open", ![To[x]][x].dc = "open"]
        /\ UNCHANGED <<inbox, data, ack, saved>>

BothHeard(x) == f[From[x]][x].heard /\ f[To[x]][x].heard

\* send(): a chunk, once the buffer is low enough.
SendChunk(x) ==
    LET p == From[x]
        r == f[p][x]
    IN  /\ r.dc = "open" /\ link[x] = "up" /\ r.datalen < Size[x] /\ data[x] < 2
        /\ Becomes(p, x, Event([r EXCEPT !.datalen = @ + 1], "connected"), <<>>)
        /\ data' = [data EXCEPT ![x] = @ + 1]
        /\ UNCHANGED <<ack, saved>>

DoneEarly(r, n) == r.datalen + 2 >= n

\* Whether the chunk that has just come is the last.
Complete(r, n) == r.datalen + 1 = n

\* receiveData(): after the last chunk, say "done" and wait for the sender to
\* close, or two seconds.
TakeChunk(x) ==
    LET p == To[x]
        r == f[p][x]
        last == Complete(r, Size[x])
    IN  /\ r.dc = "open" /\ r.run # "waiting" /\ data[x] > 0
        /\ Becomes(p, x, IF last THEN [r EXCEPT !.state = "done", !.end = "done",
                                                !.run = "waiting", !.datalen = 0]
                         ELSE Event([r EXCEPT !.datalen = @ + 1], "connected"), <<>>)
        /\ data' = [data EXCEPT ![x] = @ - 1]
        /\ ack' = [ack EXCEPT ![x] = last /\ link[x] = "up"]
        /\ saved' = IF last THEN saved \cup {<<x, r.datalen + 1>>} ELSE saved

\* The sender hears "done".
TakeAck(x) ==
    LET p == From[x]
        r == f[p][x]
    IN  /\ r.dc = "open" /\ ack[x] /\ ack' = [ack EXCEPT ![x] = FALSE]
        /\ IF r.datalen = Size[x] THEN Becomes(p, x, Ends(r, "done"), <<>>) ELSE Cancel(p, x)
        /\ UNCHANGED <<data, saved>>

WaitedLong(p, x) ==
    /\ Runs(p, x, "waiting")
    /\ Becomes(p, x, Close(f[p][x]), <<>>)
    /\ UNCHANGED <<data, ack, saved>>

\* onclose, onerror.
CloseSeen(p, x) ==
    /\ link[x] = "cut" /\ f[p][x].dc = "open"
    /\ IF Runs(p, x, "waiting") THEN Becomes(p, x, Close(f[p][x]), <<>>) ELSE Cancel(p, x)
    /\ UNCHANGED <<data, ack, saved>>

Breaks(x) ==
    /\ link[x] = "up" /\ breaks < MaxBreaks /\ breaks' = breaks + 1
    /\ link' = [link EXCEPT ![x] = "cut"]
    /\ UNCHANGED <<f, inbox, data, ack, saved, known, gone, cancels>>

-----------------------------------------------------------------------------

Init ==
    /\ f = [p \in Pages |-> [x \in Files |-> NoFile]]
    /\ inbox = [p \in Pages |-> <<>>]
    /\ link = [x \in Files |-> "none"]
    /\ data = [x \in Files |-> 0] /\ ack = [x \in Files |-> FALSE]
    /\ known = [p \in Pages |-> Pages] /\ gone = {} /\ saved = {}
    /\ cancels = 0 /\ breaks = 0

Awaits(p, x) ==
    /\ OfferMade(p, x) \/ AnswerMade(p, x) \/ AnswerSet(p, x) \/ CandidateFound(p, x)
    /\ UNCHANGED <<data, ack, saved>>

Channel(x) == SendChunk(x) \/ TakeChunk(x) \/ TakeAck(x) \/ (BothHeard(x) /\ Opens(x))

\* What happens without anybody's doing.
Progress ==
    \/ \E p \in Pages : Deliver(p)
    \/ \E p \in Pages, x \in Files :
          (Awaits(p, x) \/ WaitedLong(p, x) \/ CloseSeen(p, x)) /\ UNCHANGED net
    \/ \E x \in Files : Channel(x) /\ UNCHANGED net

Next ==
    \/ Progress
    \/ \E x \in Files : Offer(x) \/ Accept(x) \/ Breaks(x) \/ (Opens(x) /\ UNCHANGED net)
    \/ \E p \in Pages, x \in Files : PressCancel(p, x)
    \/ \E p \in Pages : Leave(p)

Spec == Init /\ [][Next]_vars
FairSpec == Spec /\ WF_vars(Progress)

-----------------------------------------------------------------------------
(* Properties.                                                             *)

States == {"unset", "inviting", "connecting", "connected", "done", "closed"}

\* The types of the state: what a page has of a transfer, and how far it is.
TypeOK ==
    /\ \A p \in Pages, x \in Files :
          LET r == f[p][x]
          IN  /\ r.state \in States /\ r.datalen \in 0..Size[x]
              /\ r.pc \in {"none", "new", "local", "stable"}
              /\ r.dc \in {"none", "new", "open"} /\ r.end \in {"none", "done", "cancelled"}
    /\ \A x \in Files : data[x] \in 0..Size[x] /\ link[x] \in {"none", "up", "cut"}

\* The sender says "Done." only of a file that the receiver has saved, whole.
DoneMeansSaved ==
    /\ \A x \in Files : f[From[x]][x].end = "done" => <<x, Size[x]>> \in saved
    /\ \A s \in saved : s[2] = Size[s[1]]

\* A peer connection belongs to a transfer that can still be cancelled or that
\* is about to end: none is left open when the transfer is over.
NothingLeftOpen ==
    \A p \in Pages, x \in Files :
        f[p][x].pc # "none" => f[p][x].state \in {"connecting", "connected", "done"}

\* What is over is over: saved whole, and with nothing left open.
OverIsOver == TypeOK /\ DoneMeansSaved /\ NothingLeftOpen

\* unset -> inviting -> connecting -> connected -> done -> closed, and from any
\* to closed by way of cancelled (the comment of TransferredFile).  A page that
\* takes back a file it sends to itself is invited all the same.
Order == [s \in States |->
    CASE s = "unset" -> {"inviting"}
      [] s = "inviting" -> {"connecting", "closed"}
      [] s = "connecting" -> {"connected", "closed"}
      [] s = "connected" -> {"done", "closed"}
      [] s = "done" -> {"closed"}
      [] OTHER -> {}]

InOrder ==
    [][\A p \in Pages, x \in Files :
          f'[p][x].state # f[p][x].state /\ f'[p][x].up = f[p][x].up
          => f'[p][x].state \in Order[f[p][x].state]]_vars

Over(p, x) == p \in gone \/ f[p][x].state \in {"unset", "closed"}

\* A transfer that is accepted ends on both sides, whatever happens to it.
AcceptedEnds ==
    \A x \in Files : (f[To[x]][x].state = "connecting") ~> (Over(From[x], x) /\ Over(To[x], x))

\* One that ends on one side ends on the other.
BothEnd ==
    \A x \in Files : \A p \in {From[x], To[x]} :
        (f[p][x].state = "closed") ~> Over(Peer(p, x), x)

\* A transfer goes through its states in order, and to the end on both sides.
EndsForEach == InOrder /\ AcceptedEnds /\ BothEnd

\* cancel() "will set the state to cancelled": a transfer whose channel has
\* been cut is over at last, even on a page that has left.
\* The code does not keep to it in every case: see README.md.
CutEnds ==
    \A x \in Files : \A p \in {From[x], To[x]} :
        (link[x] = "cut") ~> (f[p][x].state = "closed")
=============================================================================
