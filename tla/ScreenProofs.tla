---------------------------- MODULE ScreenProofs ----------------------------
(***************************************************************************)
(* What a page shows is so: ScreenTrue, and a notification that was closed *)
(* stays closed: ClosedStaysClosed; for every set of cases and every       *)
(* number of attempts, when none of the races is let happen.  It rests on  *)
(* the invariant of PageProofs, which says where a page is.  The one added *)
(* here, Screen, has three parts: the screens themselves (Stage), the row  *)
(* of whoever knocks (RowOK), and the application on the desk (DeskOK).    *)
(***************************************************************************)
EXTENDS PageProofs

\* The fields of a page that show.
Wide(p) ==
    /\ Whole(p) /\ "call" \in DOMAIN p /\ "waiting" \in DOMAIN p /\ "dash" \in DOMAIN p
    /\ "row" \in DOMAIN p /\ "toasts" \in DOMAIN p /\ "knockers" \in DOMAIN p
    /\ "handlers" \in DOMAIN p /\ "app" \in DOMAIN p /\ "named" \in DOMAIN p

\* Which screen it is.
SameScreen(p, q) == q.call = p.call /\ q.waiting = p.waiting /\ q.dash = p.dash
\* Who it shows to knock, and what the application has been told.
SameDesk(p, q) ==
    /\ q.row = p.row /\ q.toasts = p.toasts /\ q.knockers = p.knockers
    /\ q.handlers = p.handlers /\ q.app = p.app
Shows(p, q) == Wide(q) /\ SameScreen(p, q) /\ SameDesk(p, q)
SameShow(p, q) == Shows(p, q) /\ q.named = p.named

\* The screens, and where a page is: a call is shown as long as one is wanted,
\* and a page that waits at the door has none to come back to.
Stage(p) ==
    /\ p.call \in BOOLEAN /\ p.waiting \in BOOLEAN /\ p.dash \in BOOLEAN
    /\ p.waiting => p.st \in {"lobby", "asked", "away"} /\ ~p.want /\ p.probing # "probing"
    /\ p.st = "lobby" => p.waiting
    /\ p.want \/ p.st \in {"asked", "lobby", "in"} => p.call
    /\ p.call => p.st \notin {"none", "gone", "blank"} \/ p.timer
    /\ p.st \in {"none", "gone"} => p.card \/ p.timer
    /\ p.dash => p.call /\ case.room = "hub"
    /\ p.want /\ p.st \in {"opening", "asked", "lobby", "gone"} => p.rec
    /\ p.st = "asked" /\ case.room = "hub" => p.named
    /\ ~Covered(p.load) => Ready(p.load)

\* The last of some places in a queue is one of these.
Last(about, set) == \E i \in about : i \in set /\ \A j \in about : j <= i

\* The row, once all the mail is read.
RowMail(q) == {i \in DOMAIN q : q[i].re \in {"knock", "knockcancel"}}
RowKnocks(q) == {i \in DOMAIN q : q[i].re = "knock"}
RowNow(row, q) == IF RowMail(q) = {} THEN row ELSE Last(RowMail(q), RowKnocks(q))

\* A row is for somebody who knocks, unless the call is over.
RowOK(p, x) ==
    /\ p.row \in BOOLEAN /\ x.knocker \in BOOLEAN /\ "knocker" \in DOMAIN x
    /\ x.knocker => case.who = "op" /\ case.room \in {"lobby", "child"}
    /\ p.st = "in" => (RowNow(p.row, x.mail) <=> x.knocker)
    /\ p.row /\ p.st \notin {"in", "away"} =>
          x.knocker \/ (p.st = "closing" /\ ~p.want /\ ~p.card)

Keys == Rooms \cup {Row}
Knockings == [Rooms -> SUBSET Names]
Hubs(a) == a.duty \/ \E m \in Items(a.up) : m.msg = "hub"

\* The application and its notifications.
AppOK(a) ==
    /\ "out" \in DOMAIN a /\ "wins" \in DOMAIN a /\ "front" \in DOMAIN a
    /\ "duty" \in DOMAIN a /\ "up" \in DOMAIN a /\ "down" \in DOMAIN a
    /\ a.front \in BOOLEAN /\ a.duty \in BOOLEAN
    /\ Queue(a.up)
    /\ \A m \in Items(a.up) : m.msg \in {"hub", "knock", "gone"} /\ m.key \in Keys
    /\ DOMAIN a.out \subseteq Keys /\ a.wins \subseteq DOMAIN a.out
    /\ a.front => a.wins = {}
    /\ \A k \in DOMAIN a.out : "dismissed" \in DOMAIN a.out[k] /\ (a.out[k].dismissed => k \notin a.wins)

\* What the page stands for, and what it has told the application of it.
DeskOK(p, x) ==
    /\ AppOK(p.app)
    /\ p.handlers \subseteq Keys
    /\ "queue" \in DOMAIN x /\ x.queue \in Knockings /\ p.knockers \in Knockings
    /\ \A m \in Items(x.mail) : m.re = "status" => m.knocking \in Knockings
    /\ p.toasts \subseteq {r \in Rooms : p.knockers[r] # {}}
    /\ p.st # "away" => \A k \in p.handlers : Knows(p.app, k)
    /\ Hubs(p.app) => p.dash /\ p.want /\ case.beside = "desk"

Screen(p, x) == Wide(p) /\ Stage(p) /\ RowOK(p, x) /\ DeskOK(p, x)

\* What is added comes last.
LEMMA LastMore ==
    ASSUME NEW n \in Nat, NEW about, about \subseteq 1..n, NEW more, more = about \cup {n + 1}, NEW is
    PROVE  more # {} /\ (Last(more, is) <=> n + 1 \in is)
<1>1. \A j \in more : j <= n + 1
  OBVIOUS
<1>2. \A i \in about : ~(n + 1 <= i)
  OBVIOUS
<1>3. n + 1 \in more /\ more # {}
  OBVIOUS
<1>4. ASSUME NEW i \in more, \A j \in more : j <= i PROVE i = n + 1
  BY <1>2, <1>3, <1>4
<1> QED
  BY <1>1, <1>3, <1>4 DEF Last

\* Places in a queue, and the same places once the first of the queue is gone.
Shifts(n, about, set, rest, is) ==
    /\ n \in Nat /\ about \subseteq 1..n /\ rest \subseteq 1..n - 1
    /\ \A i \in 1..n - 1 : (i \in rest <=> i + 1 \in about) /\ (i \in is <=> i + 1 \in set)

\* What comes first is last only where there is nothing else.
LEMMA LastLess ==
    ASSUME NEW n, NEW about, NEW set, NEW rest, NEW is, Shifts(n, about, set, rest, is)
    PROVE  /\ about = {} <=> rest = {} /\ 1 \notin about
           /\ rest # {} => (Last(about, set) <=> Last(rest, is))
           /\ rest = {} /\ 1 \in about => (Last(about, set) <=> 1 \in set)
<1> USE DEF Shifts
<1>1. CASE rest = {}
  <2>1. about \subseteq {1}
    <3>1. SUFFICES ASSUME NEW i \in about PROVE i = 1
      OBVIOUS
    <3>2. i # 1 => i - 1 \in rest
      <4>1. i \in 1..n /\ i = (i - 1) + 1
        OBVIOUS
      <4> QED
        BY <4>1
    <3> QED
      BY <1>1, <3>2
  <2> QED
    BY <1>1, <2>1 DEF Last
<1>2. CASE rest # {}
  <2>1. about # {} /\ \A i \in rest : i \in 1..n - 1 /\ i \in Int /\ i + 1 \in about
    <3>1. \A i \in rest : i \in 1..n - 1
      OBVIOUS
    <3>2. \A i \in rest : i + 1 \in about
      BY <3>1
    <3>3. about # {}
      BY <1>2, <3>2
    <3> QED
      BY <3>1, <3>2, <3>3
  <2>2. ASSUME NEW i \in about, i \in set, \A j \in about : j <= i
        PROVE  \E k \in rest : k \in is /\ \A j \in rest : j <= k
    <3>1. i \in 1..n /\ i # 1
      <4>1. PICK k \in rest : k \in 1..n - 1 /\ k + 1 \in about
        BY <1>2, <2>1
      <4> QED
        BY <2>2, <4>1
    <3>2. i - 1 \in rest /\ i - 1 \in is
      BY <2>2, <3>1
    <3>3. \A j \in rest : j <= i - 1
      BY <2>1, <2>2, <3>1
    <3> QED
      BY <3>2, <3>3
  <2>3. ASSUME NEW k \in rest, k \in is, \A j \in rest : j <= k
        PROVE  \E i \in about : i \in set /\ \A j \in about : j <= i
    <3>1. k + 1 \in about /\ k + 1 \in set /\ k \in 1..n - 1
      BY <2>3
    <3>2. ASSUME NEW j \in about PROVE j <= k + 1
      <4>1. j \in 1..n
        OBVIOUS
      <4>2. CASE j = 1
        BY <3>1, <4>2
      <4>3. CASE j # 1
        <5>1. j - 1 \in 1..n - 1 /\ (j - 1) + 1 = j
          BY <4>1, <4>3
        <5>2. j - 1 \in rest
          BY <5>1
        <5> QED
          BY <2>3, <3>1, <4>1, <5>2
      <4> QED
        BY <4>2, <4>3
    <3> QED
      BY <3>1, <3>2
  <2> QED
    BY <1>2, <2>1, <2>2, <2>3 DEF Last
<1> QED
  BY <1>1, <1>2

\* The row after one message more,
LEMMA RowMore ==
    ASSUME NEW q, Queue(q), NEW m, NEW w, Adds(q, m, w), NEW row
    PROVE  RowNow(row, w) <=> IF m.re = "knock" THEN TRUE
                              ELSE IF m.re = "knockcancel" THEN FALSE ELSE RowNow(row, q)
<1>1. /\ Len(q) \in Nat /\ DOMAIN q = 1 .. Len(q) /\ DOMAIN w = 1 .. Len(q) + 1
      /\ w[Len(q) + 1] = m /\ \A i \in DOMAIN q : w[i] = q[i]
  BY OneMore
<1>2. PICK n \in Nat : n = Len(q)
  BY <1>1
<1> DEFINE set == RowKnocks(q)
           is  == RowKnocks(w)
<1>3. RowMail(q) \subseteq 1..n
  BY <1>1, <1>2 DEF RowMail
<1>4. \A i \in DOMAIN w : i = n + 1 \/ i \in 1..n
  BY <1>1, <1>2
<1>5. (\A i \in 1..n : i \in DOMAIN w) /\ n + 1 \in DOMAIN w /\ n + 1 \notin 1..n
  BY <1>1, <1>2
<1>6. \A i \in 1..n : i \in is <=> i \in set
  BY <1>1, <1>2, <1>5 DEF RowKnocks
<1>7. n + 1 \in is <=> m.re = "knock"
  BY <1>1, <1>2, <1>5 DEF RowKnocks
<1>8. CASE m.re \in {"knock", "knockcancel"}
  <2>1. RowMail(w) = RowMail(q) \cup {n + 1}
    BY <1>1, <1>2, <1>3, <1>4, <1>5, <1>8 DEF RowMail
  <2>2. RowMail(w) # {} /\ (Last(RowMail(w), is) <=> n + 1 \in is)
    BY <1>3, <2>1, LastMore
  <2> QED
    BY <1>7, <1>8, <2>2 DEF RowNow
<1>9. CASE m.re \notin {"knock", "knockcancel"}
  <2>1. RowMail(w) = RowMail(q)
    BY <1>1, <1>2, <1>3, <1>4, <1>5, <1>9 DEF RowMail
  <2>2. Last(RowMail(w), is) <=> Last(RowMail(q), set)
    BY <1>3, <1>6, <2>1 DEF Last
  <2> QED
    BY <1>9, <2>1, <2>2 DEF RowNow
<1> QED
  BY <1>8, <1>9

\* and before the first is read.
LEMMA RowLess ==
    ASSUME NEW q, Queue(q), NEW m, NEW w, Takes(q, m, w), NEW row
    PROVE  RowNow(row, q) <=> RowNow(IF m.re = "knock" THEN TRUE
                                     ELSE IF m.re = "knockcancel" THEN FALSE ELSE row, w)
<1>1. /\ Len(q) \in Nat \ {0} /\ DOMAIN q = 1 .. Len(q) /\ DOMAIN w = 1 .. Len(q) - 1
      /\ m = q[1] /\ \A i \in DOMAIN w : w[i] = q[i + 1]
  BY OneLess
<1>2. PICK n \in Nat : n = Len(q) /\ n # 0
  BY <1>1
<1> DEFINE set == RowKnocks(q)
           is  == RowKnocks(w)
<1>3. RowMail(q) \subseteq 1..n
  BY <1>1, <1>2 DEF RowMail
<1>4. \A i \in 1..n - 1 : i + 1 \in DOMAIN q /\ i \in DOMAIN w /\ w[i] = q[i + 1]
  BY <1>1, <1>2
<1>5. RowMail(w) \subseteq 1..n - 1
  BY <1>1, <1>2 DEF RowMail
<1>6. \A i \in 1..n - 1 : /\ i \in RowMail(w) <=> i + 1 \in RowMail(q)
                          /\ i \in is <=> i + 1 \in set
  BY <1>4 DEF RowMail, RowKnocks
<1>7. /\ RowMail(q) = {} <=> RowMail(w) = {} /\ 1 \notin RowMail(q)
      /\ RowMail(w) # {} => (Last(RowMail(q), set) <=> Last(RowMail(w), is))
      /\ RowMail(w) = {} /\ 1 \in RowMail(q) => (Last(RowMail(q), set) <=> 1 \in set)
  <2>1. Shifts(n, RowMail(q), set, RowMail(w), is)
    BY <1>3, <1>5, <1>6 DEF Shifts
  <2> HIDE DEF set, is
  <2> QED
    BY <2>1, LastLess
<1>8. 1 \in DOMAIN q
  BY <1>1
<1>9. /\ 1 \in RowMail(q) <=> m.re \in {"knock", "knockcancel"}
      /\ 1 \in set <=> m.re = "knock"
  BY <1>1, <1>8 DEF RowMail, RowKnocks
<1> HIDE DEF set, is
<1>10. CASE m.re \in {"knock", "knockcancel"}
  BY <1>7, <1>9, <1>10 DEF RowNow, set, is
<1>11. CASE m.re \notin {"knock", "knockcancel"}
  BY <1>7, <1>9, <1>11 DEF RowNow, set, is
<1> QED
  BY <1>10, <1>11

\* What was closed by hand stays so, unless there is more to hear.
StaysDown(a, b) == b.up # a.up \/ \A k \in DOMAIN a.out : a.out[k].dismissed => k \notin b.wins

\* What the messages on their way say of a knock.
About(up, key) == {i \in DOMAIN up : up[i].key = key /\ up[i].msg # "hub"}
Knocked(up) == {i \in DOMAIN up : up[i].msg = "knock"}

\* What the main process is sure to think of a key: what the last message about it says.
LEMMA KnowsIs ==
    ASSUME NEW a, NEW key
    PROVE  Knows(a, key) <=> IF About(a.up, key) = {} THEN key \in DOMAIN a.out
                             ELSE Last(About(a.up, key), Knocked(a.up))
<1>1. \A i \in About(a.up, key) : i \in Knocked(a.up) <=> a.up[i].msg = "knock"
  BY DEF About, Knocked
<1> QED
  BY <1>1 DEF Knows, Last, About

\* The same messages, about the same keys.
LEMMA KnowsSame ==
    ASSUME NEW a, NEW b, b.up = a.up, DOMAIN b.out = DOMAIN a.out
    PROVE  \A k : Knows(b, k) <=> Knows(a, k)
  BY DEF Knows

\* A message of the page, for the application to hear.
LEMMA ToldDoes ==
    ASSUME NEW a, AppOK(a), NEW msg \in {"hub", "knock", "gone"}, NEW key \in Keys, NEW text,
           NEW b, b = Told(a, msg, key, text)
    PROVE  /\ AppOK(b) /\ b.up # a.up
           /\ Hubs(b) <=> Hubs(a) \/ msg = "hub"
           /\ \A k : Knows(b, k) <=> IF msg # "hub" /\ k = key THEN msg = "knock" ELSE Knows(a, k)
<1>1. PICK m : m = [msg |-> msg, key |-> key, text |-> text]
  OBVIOUS
<1>2. m.msg = msg /\ m.key = key
  BY <1>1
<1>3. b = [a EXCEPT !.up = Append(@, m)]
  BY <1>1 DEF Told
<1>4. /\ "out" \in DOMAIN b /\ "wins" \in DOMAIN b /\ "front" \in DOMAIN b
      /\ "duty" \in DOMAIN b /\ "up" \in DOMAIN b /\ "down" \in DOMAIN b
      /\ b.out = a.out /\ b.wins = a.wins /\ b.front = a.front /\ b.duty = a.duty
      /\ Adds(a.up, m, b.up)
  BY <1>3 DEF AppOK, Adds
<1>5. /\ Queue(b.up) /\ Items(b.up) = Items(a.up) \cup {m}
      /\ Len(a.up) \in Nat /\ DOMAIN a.up = 1 .. Len(a.up) /\ DOMAIN b.up = 1 .. Len(a.up) + 1
      /\ b.up[Len(a.up) + 1] = m /\ \A i \in DOMAIN a.up : b.up[i] = a.up[i]
  BY <1>4, OneMore DEF AppOK
<1>6. AppOK(b)
  BY <1>2, <1>4, <1>5 DEF AppOK
<1>7. b.up # a.up
  <2>1. Len(a.up) + 1 \in DOMAIN b.up /\ Len(a.up) + 1 \notin DOMAIN a.up
    BY <1>5
  <2> QED
    BY <2>1
<1>8. Hubs(b) <=> Hubs(a) \/ msg = "hub"
  BY <1>2, <1>4, <1>5 DEF Hubs
<1>9. PICK n \in Nat : n = Len(a.up)
  BY <1>5
<1>10. ASSUME NEW k PROVE Knows(b, k) <=> IF msg # "hub" /\ k = key THEN msg = "knock" ELSE Knows(a, k)
  <2>1. About(a.up, k) \subseteq 1..n
    BY <1>5, <1>9 DEF About
  <2>2. \A i \in DOMAIN b.up : i = n + 1 \/ i \in 1..n
    BY <1>5, <1>9
  <2>3. (\A i \in 1..n : i \in DOMAIN b.up) /\ n + 1 \in DOMAIN b.up /\ n + 1 \notin 1..n
    BY <1>5, <1>9
  <2>4. \A i \in 1..n : i \in Knocked(b.up) <=> i \in Knocked(a.up)
    BY <1>5, <1>9, <2>3 DEF Knocked
  <2>5. n + 1 \in Knocked(b.up) <=> msg = "knock"
    BY <1>2, <1>5, <1>9, <2>3 DEF Knocked
  <2>6. CASE msg # "hub" /\ k = key
    <3>1. About(b.up, k) = About(a.up, k) \cup {n + 1}
      BY <1>2, <1>5, <1>9, <2>1, <2>2, <2>3, <2>6 DEF About
    <3>2. About(b.up, k) # {} /\ (Last(About(b.up, k), Knocked(b.up)) <=> n + 1 \in Knocked(b.up))
      BY <2>1, <3>1, LastMore
    <3> QED
      BY <2>5, <2>6, <3>2, KnowsIs
  <2>7. CASE ~(msg # "hub" /\ k = key)
    <3>1. About(b.up, k) = About(a.up, k)
      BY <1>2, <1>5, <1>9, <2>1, <2>2, <2>3, <2>7 DEF About
    <3>2. Last(About(b.up, k), Knocked(b.up)) <=> Last(About(a.up, k), Knocked(a.up))
      BY <2>1, <2>4, <3>1 DEF Last
    <3> QED
      BY <1>4, <2>7, <3>1, <3>2, KnowsIs
  <2> QED
    BY <2>6, <2>7
<1> QED
  BY <1>6, <1>7, <1>8, <1>10

\* The notifications follow the window that is in front.
LEMMA SyncDoes ==
    ASSUME NEW a, AppOK([a EXCEPT !.wins = {}]), "wins" \in DOMAIN a, a.wins \subseteq DOMAIN a.out,
           \A k \in DOMAIN a.out : a.out[k].dismissed => k \notin a.wins,
           NEW b, b = Sync(a)
    PROVE  /\ AppOK(b) /\ b.up = a.up /\ b.out = a.out /\ b.duty = a.duty
           /\ \A k \in DOMAIN a.out : a.out[k].dismissed => k \notin b.wins
<1>1. PICK W : W = IF a.front THEN a.wins \ a.wins
                   ELSE a.wins \cup {k \in DOMAIN a.out : ~a.out[k].dismissed}
  OBVIOUS
<1>2. b = [a EXCEPT !.wins = W]
  BY <1>1 DEF Sync, Raised, Dismissed
<1>3. PICK c : c = [a EXCEPT !.wins = {}]
  OBVIOUS
<1>4. AppOK(c)
  BY <1>3
<1>5. /\ DOMAIN c = DOMAIN a /\ c.out = a.out /\ c.front = a.front /\ c.duty = a.duty /\ c.up = a.up
  BY <1>3, <1>4 DEF AppOK
<1>6. /\ DOMAIN b = DOMAIN a /\ b.out = a.out /\ b.front = a.front /\ b.duty = a.duty /\ b.up = a.up
      /\ b.wins = W
  BY <1>2, <1>4, <1>5 DEF AppOK
<1>7. W \subseteq DOMAIN a.out /\ (a.front => W = {})
      /\ \A k \in DOMAIN a.out : a.out[k].dismissed => k \notin W
  BY <1>1
<1> QED
  BY <1>4, <1>5, <1>6, <1>7 DEF AppOK

\* A window comes to the front, or goes behind.
LEMMA LookedDoes ==
    ASSUME NEW a, AppOK(a), NEW front \in BOOLEAN, NEW b, b = Looked(a, front)
    PROVE  /\ AppOK(b) /\ b.up = a.up /\ b.out = a.out /\ b.duty = a.duty
           /\ \A k \in DOMAIN a.out : a.out[k].dismissed => k \notin b.wins
<1>1. PICK c : c = [a EXCEPT !.front = front]
  OBVIOUS
<1>2. /\ DOMAIN c = DOMAIN a /\ c.out = a.out /\ c.duty = a.duty /\ c.up = a.up /\ c.wins = a.wins
      /\ c.front = front
  BY <1>1 DEF AppOK
<1>3. PICK d : d = [c EXCEPT !.wins = {}]
  OBVIOUS
<1>4. /\ DOMAIN d = DOMAIN a /\ d.out = a.out /\ d.duty = a.duty /\ d.up = a.up /\ d.wins = {}
      /\ d.front = front
  BY <1>2, <1>3 DEF AppOK
<1>5. AppOK(d)
  BY <1>4 DEF AppOK
<1>6. AppOK([c EXCEPT !.wins = {}]) /\ b = Sync(c)
  BY <1>1, <1>3, <1>5 DEF Looked
<1>7. /\ "wins" \in DOMAIN c /\ c.wins \subseteq DOMAIN c.out
      /\ \A k \in DOMAIN c.out : c.out[k].dismissed => k \notin c.wins
  BY <1>2 DEF AppOK
<1>8. /\ AppOK(b) /\ b.up = c.up /\ b.out = c.out /\ b.duty = c.duty
      /\ \A k \in DOMAIN c.out : c.out[k].dismissed => k \notin b.wins
  BY <1>6, <1>7, SyncDoes
<1> QED
  BY <1>2, <1>8

\* The application hears of one thing more: it knows what it was to know.
LEMMA HeardDoes ==
    ASSUME NEW a, AppOK(a), a.up # <<>>, NEW b, b = Heard(a)
    PROVE  /\ AppOK(b) /\ b.up # a.up
           /\ Hubs(b) <=> Hubs(a)
           /\ \A k : Knows(b, k) <=> Knows(a, k)
<1>1. PICK m : m = Head(a.up)
  OBVIOUS
<1>2. PICK c : c = [a EXCEPT !.up = Tail(@)]
  OBVIOUS
<1>3. /\ DOMAIN c = DOMAIN a /\ c.out = a.out /\ c.wins = a.wins /\ c.front = a.front
      /\ c.duty = a.duty /\ c.up = Tail(a.up)
  BY <1>2 DEF AppOK
<1>4. Takes(a.up, m, c.up)
  BY <1>1, <1>3 DEF Takes
<1>5. /\ Queue(c.up) /\ Items(a.up) = Items(c.up) \cup {m} /\ m = a.up[1]
      /\ Len(a.up) \in Nat \ {0} /\ DOMAIN a.up = 1 .. Len(a.up) /\ DOMAIN c.up = 1 .. Len(a.up) - 1
      /\ \A i \in DOMAIN c.up : c.up[i] = a.up[i + 1]
  BY <1>4, OneLess DEF AppOK
<1>6. m.msg \in {"hub", "knock", "gone"} /\ m.key \in Keys
  BY <1>5 DEF AppOK
<1>7. AppOK(c)
  BY <1>3, <1>5 DEF AppOK
<1>8. c.up # a.up
  <2>1. Len(a.up) \in DOMAIN a.up /\ Len(a.up) \notin DOMAIN c.up
    BY <1>5
  <2> QED
    BY <2>1
<1>9. PICK n \in Nat : n = Len(a.up) /\ n # 0
  BY <1>5
<1>10. ASSUME NEW k
       PROVE  Knows(a, k) <=> IF About(c.up, k) = {}
                              THEN IF m.msg # "hub" /\ m.key = k THEN m.msg = "knock" ELSE k \in DOMAIN a.out
                              ELSE Last(About(c.up, k), Knocked(c.up))
  <2>1. About(a.up, k) \subseteq 1..n
    BY <1>5, <1>9 DEF About
  <2>2. \A i \in 1..n - 1 : i + 1 \in DOMAIN a.up /\ i \in DOMAIN c.up /\ c.up[i] = a.up[i + 1]
    BY <1>5, <1>9
  <2>3. About(c.up, k) \subseteq 1..n - 1
    BY <1>5, <1>9 DEF About
  <2>4. \A i \in 1..n - 1 : /\ i \in About(c.up, k) <=> i + 1 \in About(a.up, k)
                            /\ i \in Knocked(c.up) <=> i + 1 \in Knocked(a.up)
    BY <2>2 DEF About, Knocked
  <2>5. /\ About(a.up, k) = {} <=> About(c.up, k) = {} /\ 1 \notin About(a.up, k)
        /\ About(c.up, k) # {} => (Last(About(a.up, k), Knocked(a.up)) <=> Last(About(c.up, k), Knocked(c.up)))
        /\ About(c.up, k) = {} /\ 1 \in About(a.up, k) =>
              (Last(About(a.up, k), Knocked(a.up)) <=> 1 \in Knocked(a.up))
    <3>1. Shifts(n, About(a.up, k), Knocked(a.up), About(c.up, k), Knocked(c.up))
      BY <2>1, <2>3, <2>4 DEF Shifts
    <3> QED
      BY <3>1, LastLess
  <2>6. 1 \in DOMAIN a.up
    BY <1>5
  <2>7. /\ 1 \in About(a.up, k) <=> m.msg # "hub" /\ m.key = k
        /\ 1 \in Knocked(a.up) <=> m.msg = "knock"
    BY <1>5, <2>6 DEF About, Knocked
  <2> QED
    BY <2>5, <2>7, KnowsIs
<1>11. CASE m.msg = "hub"
  <2>1. b = [c EXCEPT !.duty = TRUE]
    BY <1>1, <1>2, <1>11 DEF Heard, SetHub
  <2>2. /\ DOMAIN b = DOMAIN c /\ b.out = c.out /\ b.wins = c.wins /\ b.front = c.front
        /\ b.duty = TRUE /\ b.up = c.up
    BY <1>7, <2>1 DEF AppOK
  <2>3. AppOK(b) /\ Hubs(b)
    BY <1>7, <2>2 DEF AppOK, Hubs
  <2>4. Hubs(a)
    BY <1>5, <1>11 DEF Hubs
  <2>5. \A k : Knows(b, k) <=> IF About(c.up, k) = {} THEN k \in DOMAIN a.out
                                 ELSE Last(About(c.up, k), Knocked(c.up))
    BY <1>3, <2>2, KnowsIs
  <2> QED
    BY <1>8, <1>10, <1>11, <2>2, <2>3, <2>4, <2>5
<1>12. CASE m.msg = "knock"
  <2>1. b = KnockArrived(c, m.key, m.text)
    BY <1>1, <1>2, <1>12 DEF Heard
  <2>2. PICK entry : /\ entry = [text |-> m.text,
                                 dismissed |-> /\ m.key \in DOMAIN c.out
                                               /\ c.out[m.key].dismissed /\ c.out[m.key].text = m.text]
    OBVIOUS
  <2>3. PICK d : d = [c EXCEPT !.out = [k \in DOMAIN c.out \cup {m.key} |-> IF k = m.key THEN entry ELSE c.out[k]]]
    OBVIOUS
  <2>4. b = Sync(d)
    BY <1>7, <2>1, <2>2, <2>3 DEF KnockArrived, AppOK
  <2>5. /\ DOMAIN d = DOMAIN c /\ d.wins = c.wins /\ d.front = c.front /\ d.duty = c.duty /\ d.up = c.up
        /\ d.out = [k \in DOMAIN c.out \cup {m.key} |-> IF k = m.key THEN entry ELSE c.out[k]]
    BY <1>7, <2>3 DEF AppOK
  <2>6. PICK e : e = [d EXCEPT !.wins = {}]
    OBVIOUS
  <2>7. /\ DOMAIN e = DOMAIN c /\ e.wins = {} /\ e.front = c.front /\ e.duty = c.duty /\ e.up = c.up
        /\ e.out = d.out
    BY <1>7, <2>5, <2>6 DEF AppOK
  <2>8. "dismissed" \in DOMAIN entry
    BY <2>2
  <2>9. /\ DOMAIN d.out = DOMAIN c.out \cup {m.key}
        /\ \A k \in DOMAIN d.out : "dismissed" \in DOMAIN d.out[k]
    BY <1>7, <2>5, <2>8 DEF AppOK
  <2>10. AppOK(e)
    BY <1>6, <1>7, <2>7, <2>9 DEF AppOK
  <2>11. \A k \in DOMAIN d.out : d.out[k].dismissed => k \notin d.wins
    <3>1. SUFFICES ASSUME NEW k \in DOMAIN d.out, d.out[k].dismissed PROVE k \notin d.wins
      OBVIOUS
    <3>2. k \in DOMAIN c.out /\ c.out[k].dismissed
      <4>1. CASE k = m.key
        <5>1. d.out[k] = entry
          BY <2>5, <4>1
        <5> QED
          BY <2>2, <3>1, <4>1, <5>1
      <4>2. CASE k # m.key
        <5>1. d.out[k] = c.out[k] /\ k \in DOMAIN c.out
          BY <2>5, <2>9, <4>2
        <5> QED
          BY <3>1, <5>1
      <4> QED
        BY <4>1, <4>2
    <3> QED
      BY <1>7, <2>5, <3>2 DEF AppOK
  <2>12. "wins" \in DOMAIN d /\ d.wins \subseteq DOMAIN d.out
    BY <1>7, <2>5, <2>9 DEF AppOK
  <2>13. AppOK(b) /\ b.up = d.up /\ b.out = d.out /\ b.duty = d.duty
    BY <2>4, <2>6, <2>10, <2>11, <2>12, SyncDoes
  <2>14. Hubs(b) <=> Hubs(a)
    BY <1>3, <1>5, <1>12, <2>5, <2>13 DEF Hubs
  <2>15. \A k : k \in DOMAIN b.out <=> k \in DOMAIN a.out \/ k = m.key
    BY <1>3, <2>9, <2>13
  <2>16. \A k : Knows(b, k) <=> IF About(c.up, k) = {} THEN k \in DOMAIN b.out
                                 ELSE Last(About(c.up, k), Knocked(c.up))
    BY <2>5, <2>13, KnowsIs
  <2>17. \A k : (k \in DOMAIN b.out) = IF m.msg # "hub" /\ m.key = k THEN m.msg = "knock" ELSE k \in DOMAIN a.out
    BY <1>12, <2>15
  <2> QED
    BY <1>8, <1>10, <2>5, <2>13, <2>14, <2>16, <2>17
<1>13. CASE m.msg = "gone"
  <2>1. b = KnockGone(c, m.key)
    BY <1>1, <1>2, <1>13 DEF Heard
  <2>2. PICK f : f = Without(c.out, m.key)
    OBVIOUS
  <2>3. PICK d : d = [c EXCEPT !.out = f]
    OBVIOUS
  <2>4. b = [d EXCEPT !.wins = @ \ {m.key}]
    BY <1>7, <2>1, <2>2, <2>3 DEF KnockGone, Dismissed, AppOK
  <2>5. /\ DOMAIN f = DOMAIN c.out \ {m.key} /\ \A k \in DOMAIN f : f[k] = c.out[k]
    BY <2>2 DEF Without
  <2>6. /\ DOMAIN b = DOMAIN c /\ b.wins = c.wins \ {m.key} /\ b.front = c.front /\ b.duty = c.duty
        /\ b.up = c.up /\ b.out = f
    BY <1>7, <2>3, <2>4 DEF AppOK
  <2>7. AppOK(b)
    BY <1>7, <2>5, <2>6 DEF AppOK
  <2>8. Hubs(b) <=> Hubs(a)
    BY <1>3, <1>5, <1>13, <2>6 DEF Hubs
  <2>9. \A k : (k \in DOMAIN b.out) = IF m.msg # "hub" /\ m.key = k THEN m.msg = "knock" ELSE k \in DOMAIN a.out
    BY <1>3, <1>13, <2>5, <2>6
  <2>10. \A k : Knows(b, k) <=> IF About(c.up, k) = {} THEN k \in DOMAIN b.out
                                 ELSE Last(About(c.up, k), Knocked(c.up))
    BY <2>6, KnowsIs
  <2> QED
    BY <1>8, <1>10, <2>6, <2>7, <2>8, <2>9, <2>10
<1> QED
  BY <1>6, <1>11, <1>12, <1>13

\* A notification is answered.
LEMMA PressedDoes ==
    ASSUME NEW a, AppOK(a), NEW key, NEW b, b = Pressed(a, key)
    PROVE  /\ AppOK(b) /\ StaysDown(a, b) /\ (Hubs(b) <=> Hubs(a))
           /\ \A k : Knows(b, k) <=> Knows(a, k)
<1>1. PICK c : c = [a EXCEPT !.down = Append(@, key)]
  OBVIOUS
<1>2. /\ DOMAIN c = DOMAIN a /\ c.out = a.out /\ c.duty = a.duty /\ c.up = a.up /\ c.wins = a.wins
      /\ c.front = a.front
  BY <1>1 DEF AppOK
<1>3. AppOK(c)
  BY <1>2 DEF AppOK
<1>4. PICK d : d = Looked(c, TRUE)
  OBVIOUS
<1>5. /\ AppOK(d) /\ d.up = c.up /\ d.out = c.out /\ d.duty = c.duty
      /\ \A k \in DOMAIN c.out : c.out[k].dismissed => k \notin d.wins
  BY <1>3, <1>4, LookedDoes
<1>6. b = [d EXCEPT !.wins = @ \ {key}]
  BY <1>1, <1>4 DEF Pressed, Dismissed
<1>7. /\ DOMAIN b = DOMAIN d /\ b.out = d.out /\ b.duty = d.duty /\ b.up = d.up
      /\ b.wins = d.wins \ {key} /\ b.front = d.front
  BY <1>5, <1>6 DEF AppOK
<1>8. AppOK(b)
  BY <1>5, <1>7 DEF AppOK
<1> QED
  BY <1>2, <1>5, <1>7, <1>8, KnowsSame DEF StaysDown, Hubs

\* ... or closed by hand.
LEMMA ClosedByHandDoes ==
    ASSUME NEW a, AppOK(a), NEW key \in a.wins, NEW b, b = ClosedByHand(a, key)
    PROVE  /\ AppOK(b) /\ StaysDown(a, b) /\ (Hubs(b) <=> Hubs(a))
           /\ \A k : Knows(b, k) <=> Knows(a, k)
<1>1. key \in DOMAIN a.out
  BY DEF AppOK
<1>2. PICK e : e = [a.out[key] EXCEPT !.dismissed = TRUE]
  OBVIOUS
<1>3. PICK o : o = [a.out EXCEPT ![key] = e]
  OBVIOUS
<1>4. PICK W : W = a.wins \ {key}
  OBVIOUS
<1>5. PICK c : c = [a EXCEPT !.out = o]
  OBVIOUS
<1>6. DOMAIN c = DOMAIN a /\ c.wins = a.wins
  BY <1>5 DEF AppOK
<1>7. b = [c EXCEPT !.wins = W]
  BY <1>2, <1>3, <1>4, <1>5, <1>6 DEF ClosedByHand, Dismissed
<1>8. /\ DOMAIN b = DOMAIN a /\ b.out = o /\ b.duty = a.duty /\ b.up = a.up
      /\ b.wins = W /\ b.front = a.front
  BY <1>5, <1>7 DEF AppOK
<1>9. /\ DOMAIN o = DOMAIN a.out /\ \A k \in DOMAIN a.out : k # key => o[k] = a.out[k]
      /\ "dismissed" \in DOMAIN o[key]
  BY <1>1, <1>2, <1>3 DEF AppOK
<1>10. AppOK(b)
  BY <1>1, <1>4, <1>8, <1>9 DEF AppOK
<1>11. StaysDown(a, b)
  BY <1>4, <1>8 DEF StaysDown, AppOK
<1> QED
  BY <1>8, <1>9, <1>10, <1>11, KnowsSame DEF Hubs

\* A page that goes says nothing more.
LEMMA NavigatedDoes ==
    ASSUME NEW a, a.front \in BOOLEAN, NEW b, b = Navigated(a)
    PROVE  AppOK(b) /\ ~Hubs(b) /\ b.wins = {}
<1>1. PICK f \in BOOLEAN : f = a.front
  OBVIOUS
<1>2. b = [out |-> << >>, wins |-> {}, front |-> f, duty |-> FALSE, up |-> << >>, down |-> << >>]
  BY <1>1 DEF Navigated, NoApp
<1>3. /\ DOMAIN b = {"out", "wins", "front", "duty", "up", "down"}
      /\ b.out = <<>> /\ b.wins = {} /\ b.front = f /\ b.duty = FALSE /\ b.up = <<>>
  BY <1>2
<1>4. Queue(b.up) /\ Items(b.up) = {}
  BY <1>3, Silence
<1>5. DOMAIN b.out = {}
  BY <1>3
<1> QED
  BY <1>3, <1>4, <1>5 DEF AppOK, Hubs

\* A knock is withdrawn, if the application is to know of it.
OneGone(b, k) == IF Knows(b, k) THEN Told(b, "gone", k, {}) ELSE b

\* What a page that withdraws knocks leaves of an application.
Quieter(a, b) == AppOK(b) /\ (Hubs(b) <=> Hubs(a)) /\ (b = a \/ b.up # a.up) /\ b.out = a.out /\ b.wins = a.wins

\* gone for one key: the application drops it, and keeps the others.
LEMMA OneGoneDoes ==
    ASSUME NEW a, AppOK(a), NEW key \in Keys, NEW b, b = OneGone(a, key)
    PROVE  Quieter(a, b) /\ \A k : k # key => (Knows(b, k) <=> Knows(a, k))
<1>1. CASE Knows(a, key)
  <2>1. b = Told(a, "gone", key, {})
    BY <1>1 DEF OneGone
  <2>2. b.out = a.out /\ b.wins = a.wins
    BY <2>1 DEF Told, AppOK
  <2> QED
    BY <2>1, <2>2, ToldDoes DEF Quieter
<1>2. CASE ~Knows(a, key)
  BY <1>2 DEF OneGone, Quieter
<1> QED
  BY <1>1, <1>2

\* All of them are withdrawn, in some order.
LEMMA AllGoneIs ==
    ASSUME NEW a, NEW keys, keys \subseteq Keys
    PROVE  \/ AllGone(a, keys) = a
           \/ \E x \in Keys : AllGone(a, keys) = OneGone(a, x)
           \/ \E x, y \in Keys : AllGone(a, keys) = OneGone(OneGone(a, y), x)
<1> DEFINE pick(S) == CHOOSE x \in S : TRUE
           iter == CHOOSE f : f = [S \in SUBSET keys |->
                      IF S = {} THEN a ELSE OneGone(f[S \ {pick(S)}], pick(S))]
<1>1. AllGone(a, keys) = iter[keys]
  BY DEF AllGone, FoldSet, MapThenFoldSet, OneGone
<1>2. ASSUME NEW S \in SUBSET keys, S # {} PROVE pick(S) \in S
  BY <1>2
<1>3. \A S \in SUBSET keys : S # {} /\ S \ {pick(S)} # {} =>
         (S \ {pick(S)}) \ {pick(S \ {pick(S)})} = {}
  <2>1. SUFFICES ASSUME NEW S \in SUBSET keys, S # {}, NEW T, T = S \ {pick(S)}, T # {}
                 PROVE  T \ {pick(T)} = {}
    OBVIOUS
  <2>2. pick(S) \in S /\ pick(T) \in T
    BY <1>2, <2>1
  <2>3. S \subseteq {0, 1}
    BY DEF Keys, Rooms, Row
  <2> HIDE DEF pick
  <2> QED
    BY <2>1, <2>2, <2>3
<1>4. \E f : f = [S \in SUBSET keys |-> IF S = {} THEN a ELSE OneGone(f[S \ {pick(S)}], pick(S))]
  <2> DEFINE one(S) == IF S = {} THEN a ELSE OneGone(a, pick(S))
             b == [S \in SUBSET keys |-> IF S = {} THEN a ELSE OneGone(one(S \ {pick(S)}), pick(S))]
  <2>1. ASSUME NEW S \in SUBSET keys, S # {}
        PROVE  b[S \ {pick(S)}] = one(S \ {pick(S)})
    <3>1. PICK T \in SUBSET keys : T = S \ {pick(S)}
      OBVIOUS
    <3>2. CASE T = {}
      BY <3>1, <3>2
    <3>3. CASE T # {}
      <4>1. T \ {pick(T)} = {}
        BY <1>3, <2>1, <3>1, <3>3
      <4>2. b[T] = OneGone(one(T \ {pick(T)}), pick(T))
        BY <3>3
      <4>3. one(T \ {pick(T)}) = a
        BY <4>1
      <4>4. one(T) = OneGone(a, pick(T))
        BY <3>3
      <4> HIDE DEF b, one, pick
      <4> QED
        BY <3>1, <4>2, <4>3, <4>4
    <3> QED
      BY <3>2, <3>3
  <2>2. \A S \in SUBSET keys : b[S] = IF S = {} THEN a ELSE OneGone(b[S \ {pick(S)}], pick(S))
    <3>1. SUFFICES ASSUME NEW S \in SUBSET keys
                   PROVE  b[S] = IF S = {} THEN a ELSE OneGone(b[S \ {pick(S)}], pick(S))
      OBVIOUS
    <3>2. CASE S = {}
      BY <3>2
    <3>3. CASE S # {}
      <4>1. b[S \ {pick(S)}] = one(S \ {pick(S)})
        BY <2>1, <3>3
      <4>2. b[S] = OneGone(one(S \ {pick(S)}), pick(S))
        BY <3>3
      <4> HIDE DEF b, one, pick
      <4> QED
        BY <3>3, <4>1, <4>2
    <3> QED
      BY <3>2, <3>3
  <2>3. b = [S \in SUBSET keys |-> IF S = {} THEN a ELSE OneGone(b[S \ {pick(S)}], pick(S))]
    <3>1. b = [S \in SUBSET keys |-> b[S]]
      OBVIOUS
    <3> HIDE DEF b
    <3> QED
      BY <2>2, <3>1
  <2> QED
    BY <2>3
<1>5. iter = [S \in SUBSET keys |-> IF S = {} THEN a ELSE OneGone(iter[S \ {pick(S)}], pick(S))]
  BY <1>4
<1> HIDE DEF iter
<1>6. \A S \in SUBSET keys : iter[S] = IF S = {} THEN a ELSE OneGone(iter[S \ {pick(S)}], pick(S))
  BY <1>5
<1> HIDE DEF pick
<1>7. CASE keys = {}
  BY <1>1, <1>6, <1>7
<1>8. CASE keys # {}
  <2>1. PICK x \in Keys : x = pick(keys)
    BY <1>2, <1>8
  <2>2. PICK T \in SUBSET keys : T = keys \ {x}
    OBVIOUS
  <2>3. AllGone(a, keys) = OneGone(iter[T], x)
    BY <1>1, <1>6, <1>8, <2>1, <2>2
  <2>4. CASE T = {}
    <3>1. iter[T] = a
      BY <1>6, <2>4
    <3> QED
      BY <2>3, <3>1
  <2>5. CASE T # {}
    <3>1. PICK y \in Keys : y = pick(T)
      BY <1>2, <2>5
    <3>2. T \ {y} = {}
      BY <1>3, <1>8, <2>1, <2>2, <2>5, <3>1
    <3>3. iter[T] = OneGone(iter[T \ {y}], y)
      BY <1>6, <2>5, <3>1
    <3>4. iter[T \ {y}] = a
      BY <1>6, <3>2
    <3> QED
      BY <2>3, <3>3, <3>4
  <2> QED
    BY <2>4, <2>5
<1> QED
  BY <1>7, <1>8

\* gone for several keys: none of them is a notification any more.
LEMMA AllGoneDoes ==
    ASSUME NEW a, AppOK(a), NEW keys, keys \subseteq Keys, NEW b, b = AllGone(a, keys)
    PROVE  AppOK(b) /\ (Hubs(b) <=> Hubs(a)) /\ b.out = a.out /\ b.wins = a.wins
<1>1. CASE b = a
  BY <1>1
<1>2. CASE \E x \in Keys : b = OneGone(a, x)
  BY <1>2, OneGoneDoes DEF Quieter
<1>3. CASE \E x, y \in Keys : b = OneGone(OneGone(a, y), x)
  <2>1. PICK x \in Keys, y \in Keys : b = OneGone(OneGone(a, y), x)
    BY <1>3
  <2>2. PICK c : c = OneGone(a, y)
    OBVIOUS
  <2>3. Quieter(a, c)
    BY <2>2, OneGoneDoes
  <2>4. Quieter(c, b)
    BY <2>1, <2>2, <2>3, OneGoneDoes DEF Quieter
  <2> QED
    BY <2>3, <2>4 DEF Quieter
<1> QED
  BY <1>1, <1>2, <1>3, AllGoneIs

\* None of this changes when a reconnection is no longer due,
LEMMA StopReconnectShow ==
    ASSUME NEW p, Wide(p), NEW q, q = StopReconnect(p)
    PROVE  SameShow(p, q)
  BY DEF StopReconnect, Wide, Whole, Shows, SameShow, SameScreen, SameDesk

\* or is,
LEMMA ScheduleReconnectShow ==
    ASSUME NEW p, Wide(p), NEW q, q = ScheduleReconnect(p)
    PROVE  SameShow(p, q)
  BY DEF ScheduleReconnect, Wide, Whole, Shows, SameShow, SameScreen, SameDesk

\* when what was sent is noted,
LEMMA NoteSentMediaShow ==
    ASSUME NEW p, Wide(p), NEW q, q = NoteSentMedia(p)
    PROVE  SameShow(p, q)
<1>1. q = p \/ q = [p EXCEPT !.noted = IF ~p.want THEN "null" ELSE IF p.sent THEN "yes" ELSE "no"]
  BY DEF NoteSentMedia
<1>2. CASE q = p
  BY <1>2 DEF Shows, SameShow, SameScreen, SameDesk
<1>3. CASE q = [p EXCEPT !.noted = IF ~p.want THEN "null" ELSE IF p.sent THEN "yes" ELSE "no"]
  BY <1>3 DEF Wide, Whole, Shows, SameShow, SameScreen, SameDesk
<1> QED
  BY <1>1, <1>2, <1>3

\* when a connection is closed,
LEMMA CloseShow ==
    ASSUME NEW p, Wide(p), NEW q, q = Close(p)
    PROVE  SameShow(p, q)
<1>1. CASE q = p
  BY <1>1 DEF Shows, SameShow, SameScreen, SameDesk
<1>2. CASE q = [p EXCEPT !.st = "closing"]
  BY <1>2 DEF Wide, Whole, Shows, SameShow, SameScreen, SameDesk
<1> QED
  BY <1>1, <1>2 DEF Close

\* or opened,
LEMMA ConnectShow ==
    ASSUME NEW p, Wide(p), NEW q, q = Connect(p)
    PROVE  SameShow(p, q)
  BY DEF Connect, Wide, Whole, Shows, SameShow, SameScreen, SameDesk

\* and when the call is not wanted any longer.
LEMMA OverShow ==
    ASSUME NEW p, Wide(p), NEW q, q = Over(p)
    PROVE  SameShow(p, q)
<1>1. PICK h : h = [p EXCEPT !.want = FALSE]
  OBVIOUS
<1>2. SameShow(p, h)
  BY <1>1 DEF Wide, Whole, Shows, SameShow, SameScreen, SameDesk
<1>3. SameShow(h, q)
  BY <1>1, <1>2, StopReconnectShow DEF Over, SameShow, Shows
<1> QED
  BY <1>2, <1>3 DEF Wide, Whole, Shows, SameShow, SameScreen, SameDesk

\* A join says who it is for, in the hub; otherwise none of this changes.
LEMMA SendJoinShow ==
    ASSUME NEW p, Wide(p), NEW c, NEW named, NEW q, q = SendJoin(p, c, named)
    PROVE  Shows(p, q) /\ q.named = named
  BY DEF SendJoin, Wide, Whole, Shows, SameScreen, SameDesk

\* Joining from the card changes no screen, and names the operator of the panel.
LEMMA JoinWithShow ==
    ASSUME NEW p, Wide(p), NEW tick \in BOOLEAN, NEW q, q = JoinWith(p, tick)
    PROVE  Shows(p, q) /\ (case.room = "hub" => q.named)
<1>1. CASE p.token # None /\ p.probing = "null" /\ case.room # "hub"
  <2>1. PICK h : h = [p EXCEPT !.probing = "probing"]
    OBVIOUS
  <2>2. SameShow(p, h)
    BY <2>1 DEF Wide, Whole, Shows, SameShow, SameScreen, SameDesk
  <2>3. q = SendJoin(h, p.token, FALSE)
    BY <1>1, <2>1 DEF JoinWith
  <2>4. Shows(h, q)
    BY <2>2, <2>3, SendJoinShow DEF SameShow, Shows
  <2> QED
    BY <1>1, <2>2, <2>4 DEF Shows, SameShow, SameScreen, SameDesk
<1>2. CASE p.token # None /\ ~(p.probing = "null" /\ case.room # "hub")
  <2>1. PICK h : h = [p EXCEPT !.probing = "null"]
    OBVIOUS
  <2>2. SameShow(p, h)
    BY <2>1 DEF Wide, Whole, Shows, SameShow, SameScreen, SameDesk
  <2>3. q = SendJoin(h, p.token, TRUE)
    BY <1>2, <2>1 DEF JoinWith
  <2>4. Shows(h, q) /\ q.named = TRUE
    BY <2>2, <2>3, SendJoinShow DEF SameShow, Shows
  <2> QED
    BY <2>2, <2>4 DEF Shows, SameShow, SameScreen, SameDesk
<1>3. CASE p.token = None
  <2>1. PICK h : h = [p EXCEPT !.probing = "null", !.pend = IF tick THEN "tick" ELSE "no"]
    OBVIOUS
  <2>2. SameShow(p, h)
    BY <2>1 DEF Wide, Whole, Shows, SameShow, SameScreen, SameDesk
  <2>3. q = SendJoin(h, Pw, TRUE)
    BY <1>3, <2>1 DEF JoinWith
  <2>4. Shows(h, q) /\ q.named = TRUE
    BY <2>2, <2>3, SendJoinShow DEF SameShow, Shows
  <2> QED
    BY <2>2, <2>4 DEF Shows, SameShow, SameScreen, SameDesk
<1> QED
  BY <1>1, <1>2, <1>3

\* Nor does joining again after a loss.
LEMMA RejoinShow ==
    ASSUME NEW p, Wide(p), NEW q, q = RejoinAfterReconnect(p)
    PROVE  Shows(p, q) /\ q.named = TRUE
<1>1. PICK c : c = FreshRejoin(p)
  OBVIOUS
<1>2. PICK h : h = [p EXCEPT !.last = c]
  OBVIOUS
<1>3. SameShow(p, h)
  BY <1>2 DEF Wide, Whole, Shows, SameShow, SameScreen, SameDesk
<1>4. q = SendJoin(h, c, TRUE)
  BY <1>1, <1>2 DEF RejoinAfterReconnect
<1>5. Shows(h, q) /\ q.named = TRUE
  BY <1>3, <1>4, SendJoinShow DEF SameShow, Shows
<1> QED
  BY <1>3, <1>5 DEF Shows, SameShow, SameScreen, SameDesk

\* What a page is after its turn.
LEMMA TurnShow ==
    ASSUME NEW q, Wide(q), Turn(q)
    PROVE  Alike(q, s') /\ s'.out = <<>> /\ SameShow(q, s')
<1>1. PICK h : h = Had(q)
  OBVIOUS
<1>2. PICK b : b = Background(q)
  OBVIOUS
<1>3. s' = [q EXCEPT !.out = <<>>, !.had = h, !.bg = b]
  BY <1>1, <1>2 DEF Turn
<1>4. SameShow(q, s')
  BY <1>3 DEF Wide, Whole, Shows, SameShow, SameScreen, SameDesk
<1> QED
  BY <1>4, Turned DEF Wide

\* setConnected(false): the card is there, and nothing else; no knock is stood for.
LEMMA SetConnectedOffShow ==
    ASSUME NEW p, Wide(p), AppOK(p.app), p.handlers \subseteq Keys, NEW q, q = SetConnectedOff(p)
    PROVE  /\ Wide(q) /\ q.call = FALSE /\ q.dash = FALSE /\ q.waiting = p.waiting /\ q.named = p.named
           /\ q.row = FALSE /\ q.toasts = {} /\ q.handlers = {} /\ q.knockers = p.knockers
           /\ AppOK(q.app) /\ (Hubs(q.app) <=> Hubs(p.app)) /\ q.app.out = p.app.out /\ q.app.wins = p.app.wins
<1>1. PICK a : a = AllGone(p.app, p.handlers)
  OBVIOUS
<1>2. PICK c : c = [p EXCEPT !.row = FALSE, !.handlers = {}, !.app = a]
  OBVIOUS
<1>3. PICK b \in BOOLEAN : b = (p.last # None /\ ~p.usingR /\ p.probing = "null")
  OBVIOUS
<1>4. c = ClearKnocks(p)
  BY <1>1, <1>2 DEF ClearKnocks
<1>5. q = [c EXCEPT !.call = FALSE, !.card = TRUE, !.dash = FALSE, !.toasts = {}, !.silent = 0,
        !.cl = ResetCallTimer(@), !.rejoin = b]
  BY <1>3, <1>4 DEF SetConnectedOff
<1>6. /\ Wide(c) /\ SameScreen(p, c) /\ c.named = p.named /\ c.row = FALSE /\ c.handlers = {}
      /\ c.app = a /\ c.knockers = p.knockers
  BY <1>2 DEF Wide, Whole, SameScreen
<1>7. /\ Wide(q) /\ q.call = FALSE /\ q.dash = FALSE /\ q.waiting = c.waiting /\ q.named = c.named
      /\ q.row = FALSE /\ q.toasts = {} /\ q.handlers = {} /\ q.knockers = c.knockers /\ q.app = a
  BY <1>5, <1>6 DEF Wide, Whole
<1>8. AppOK(a) /\ (Hubs(a) <=> Hubs(p.app)) /\ a.out = p.app.out /\ a.wins = p.app.wins
  BY <1>1, AllGoneDoes
<1> QED
  BY <1>6, <1>7, <1>8 DEF SameScreen

\* setConnected(true): the call is there.
LEMMA SetConnectedOnShow ==
    ASSUME NEW p, Wide(p), NEW q, q = SetConnectedOn(p)
    PROVE  /\ Wide(q) /\ q.call = TRUE /\ q.dash = p.dash /\ q.waiting = p.waiting
           /\ q.named = p.named /\ SameDesk(p, q)
  BY DEF SetConnectedOn, Wide, Whole, SameDesk

\* A server that says who knocks.
Speaks(x) ==
    /\ Record(x) /\ "knocker" \in DOMAIN x /\ "queue" \in DOMAIN x /\ Queue(x.mail)
    /\ x.knocker \in BOOLEAN /\ (x.knocker => case.who = "op" /\ case.room \in {"lobby", "child"})
    /\ x.queue \in Knockings
    /\ \A m \in Items(x.mail) : m.re = "status" => m.knocking \in Knockings
\* The row is what it says.
RowTrue(row, x) == RowNow(row, x.mail) <=> x.knocker

\* It says one thing more, or nothing.
LEMMA SpeaksMore ==
    ASSUME NEW x, Speaks(x), NEW m, m.re = "status" => m.knocking \in Knockings,
           NEW y, Record(y), "knocker" \in DOMAIN y, "queue" \in DOMAIN y, y.queue = x.queue,
           y.knocker = IF m.re = "knockcancel" THEN FALSE ELSE x.knocker,
           m.re = "knock" => x.knocker,
           Adds(x.mail, m, y.mail)
    PROVE  Speaks(y) /\ \A row : RowTrue(row, x) => RowTrue(row, y)
<1>1. PICK q : q = x.mail
  OBVIOUS
<1>2. PICK w : w = y.mail
  OBVIOUS
<1>3. Queue(q) /\ Adds(q, m, w)
  BY <1>1, <1>2 DEF Speaks
<1>4. Queue(w) /\ Items(w) = Items(q) \cup {m}
  BY <1>3, OneMore
<1>5. Speaks(y)
  BY <1>1, <1>2, <1>4 DEF Speaks
<1>6. \A row : RowNow(row, w) <=> IF m.re = "knock" THEN TRUE
                                  ELSE IF m.re = "knockcancel" THEN FALSE ELSE RowNow(row, q)
  BY <1>3, RowMore
<1> QED
  BY <1>1, <1>2, <1>5, <1>6 DEF RowTrue, Speaks

\* Whatever it is asked, a row that was right when all the mail is read still is;
\* and whoever comes in is told of who knocks.
LEMMA ServeSpeaks ==
    ASSUME NEW x, Speaks(x), NEW r, r.req \in Plain \cup Minted \cup {"revoke"}, NEW y, y = Serve(x, r)
    PROVE  /\ Speaks(y) /\ y.queue = x.queue /\ (r.req # "admit" => y.knocker = x.knocker)
           /\ \A row : RowTrue(row, x) => RowTrue(row, y)
           /\ r.req = "roster" /\ x.mail = <<>> => \A row : (row => x.knocker) /\ row \in BOOLEAN => RowTrue(row, y)
<1> DEFINE Like(m) == /\ Record(y) /\ "knocker" \in DOMAIN y /\ "queue" \in DOMAIN y /\ y.queue = x.queue
                      /\ y.knocker = IF m.re = "knockcancel" THEN FALSE ELSE x.knocker
                      /\ Adds(x.mail, m, y.mail)
<1>1. Record(x) /\ "knocker" \in DOMAIN x /\ "queue" \in DOMAIN x
  BY DEF Speaks
<1>2. CASE r.req = "revoke"
  <2>1. PICK m : m = [re |-> "list", t |-> None]
    OBVIOUS
  <2>2. y = [x EXCEPT !.valid = @ \ {r.t}, !.mail = Append(@, m)]
    BY <1>2, <2>1 DEF Serve
  <2>3. m.re = "list" /\ Like(m)
    BY <1>1, <2>1, <2>2 DEF Record, Adds
  <2> QED
    BY <1>2, <2>3, SpeaksMore
<1>3. CASE r.req = "admit"
  <2>1. PICK m : m = [re |-> "knockcancel", t |-> None]
    OBVIOUS
  <2>2. y = [x EXCEPT !.knocker = FALSE, !.mail = Append(@, m)]
    BY <1>3, <2>1 DEF Serve
  <2>3. m.re = "knockcancel" /\ Like(m)
    BY <1>1, <2>1, <2>2 DEF Record, Adds
  <2> QED
    BY <1>3, <2>3, SpeaksMore
<1>4. CASE r.req = "roster"
  <2>1. PICK m : m = [re |-> "knock", t |-> None]
    OBVIOUS
  <2>2. PICK n : n = [re |-> "data", t |-> 0]
    OBVIOUS
  <2>3. m.re = "knock" /\ n.re = "data"
    BY <2>1, <2>2
  <2>4. \/ x.knocker /\ y = [x EXCEPT !.mail = Append(@, m)]
        \/ ~x.knocker /\ y = [x EXCEPT !.away = 0, !.mail = Append(@, n)]
        \/ ~x.knocker /\ y = x
    BY <1>4, <2>1, <2>2 DEF Serve, Speaks
  <2>5. x.mail = <<>> => \A row : RowNow(row, x.mail) <=> row
    <3>1. SUFFICES ASSUME x.mail = <<>> PROVE \A row : RowNow(row, x.mail) <=> row
      OBVIOUS
    <3>2. RowMail(x.mail) = {}
      BY <3>1 DEF RowMail
    <3> QED
      BY <3>2 DEF RowNow
  <2>6. ~x.knocker /\ x.mail = <<>> => \A row : (row => x.knocker) /\ row \in BOOLEAN => RowTrue(row, x)
    BY <2>5 DEF RowTrue, Speaks
  <2>7. CASE x.knocker /\ y = [x EXCEPT !.mail = Append(@, m)]
    <3>1. Like(m)
      BY <1>1, <2>3, <2>7 DEF Record, Adds
    <3>2. Speaks(y) /\ \A row : RowTrue(row, x) => RowTrue(row, y)
      BY <2>3, <2>7, <3>1, SpeaksMore
    <3>3. PICK q : q = x.mail
      OBVIOUS
    <3>4. PICK w : w = y.mail
      OBVIOUS
    <3>5. Queue(q) /\ Adds(q, m, w)
      BY <3>1, <3>3, <3>4 DEF Speaks
    <3>6. \A row : RowNow(row, w)
      BY <2>3, <3>5, RowMore
    <3>7. \A row : RowTrue(row, y)
      BY <2>3, <2>7, <3>1, <3>4, <3>6 DEF RowTrue
    <3> QED
      BY <1>4, <2>3, <3>1, <3>2, <3>7
  <2>8. CASE ~x.knocker /\ y = [x EXCEPT !.away = 0, !.mail = Append(@, n)]
    <3>1. Like(n)
      BY <1>1, <2>3, <2>8 DEF Record, Adds
    <3>2. Speaks(y) /\ \A row : RowTrue(row, x) => RowTrue(row, y)
      BY <2>3, <3>1, SpeaksMore
    <3> QED
      BY <1>4, <2>3, <2>6, <2>8, <3>1, <3>2
  <2>9. CASE ~x.knocker /\ y = x
    BY <2>6, <2>9
  <2> QED
    BY <2>4, <2>7, <2>8, <2>9
<1>5. CASE r.req = "data"
  <2>1. PICK m : m = [re |-> "data", t |-> r.t]
    OBVIOUS
  <2>2. y = [x EXCEPT !.away = r.t, !.mail = Append(@, m)]
    BY <1>5, <2>1 DEF Serve
  <2>3. m.re = "data" /\ Like(m)
    BY <1>1, <2>1, <2>2 DEF Record, Adds
  <2> QED
    BY <1>5, <2>3, SpeaksMore
<1>6. CASE r.req = "status"
  <2>1. PICK m : m = [re |-> "status", t |-> None, knocking |-> x.queue]
    OBVIOUS
  <2>2. y = [x EXCEPT !.mail = Append(@, m)]
    BY <1>6, <2>1 DEF Serve
  <2>3. m.re = "status" /\ m.knocking \in Knockings /\ Like(m)
    BY <1>1, <2>1, <2>2 DEF Record, Adds, Speaks
  <2> QED
    BY <1>6, <2>3, SpeaksMore
<1>7. CASE r.req = "clearchat"
  <2>1. PICK m : m = [re |-> "clearchat", t |-> None]
    OBVIOUS
  <2>2. y = [x EXCEPT !.hist = 0, !.mail = Append(@, m)]
    BY <1>7, <2>1 DEF Serve
  <2>3. m.re = "clearchat" /\ Like(m)
    BY <1>1, <2>1, <2>2 DEF Record, Adds
  <2> QED
    BY <1>7, <2>3, SpeaksMore
<1>8. CASE r.req \in Minted
  <2> DEFINE free == {t \in Tok : x.kind[t] = ""}
             n == CHOOSE t \in free : \A u \in free : t <= u
  <2>1. \E v, m : /\ m.re = r.req
                  /\ \/ y = [x EXCEPT !.mail = Append(@, m)]
                     \/ y = [x EXCEPT !.valid = @ \cup {v}, !.kind[v] = r.req, !.mail = Append(@, m)]
    <3>1. CASE free = {}
      <4>1. PICK m : m = [re |-> r.req, t |-> None]
        OBVIOUS
      <4>2. y = [x EXCEPT !.mail = Append(@, m)]
        BY <1>8, <3>1, <4>1 DEF Serve, Minted
      <4> QED
        BY <4>1, <4>2
    <3>2. CASE free # {}
      <4>1. PICK m : m = [re |-> r.req, t |-> n]
        OBVIOUS
      <4>2. y = [x EXCEPT !.valid = @ \cup {n}, !.kind[n] = r.req, !.mail = Append(@, m)]
        BY <1>8, <3>2, <4>1 DEF Serve, Minted
      <4> HIDE DEF free, n
      <4> QED
        BY <4>1, <4>2
    <3> QED
      BY <3>1, <3>2
  <2> HIDE DEF free, n
  <2>2. PICK v, m : /\ m.re = r.req
                    /\ \/ y = [x EXCEPT !.mail = Append(@, m)]
                       \/ y = [x EXCEPT !.valid = @ \cup {v}, !.kind[v] = r.req, !.mail = Append(@, m)]
    BY <2>1
  <2>5. m.re \in Minted
    BY <1>8, <2>2
  <2>6. m.re \notin {"knock", "knockcancel", "status"}
    BY <2>5 DEF Minted
  <2>7. Like(m)
    <3>1. CASE y = [x EXCEPT !.mail = Append(@, m)]
      BY <1>1, <2>6, <3>1 DEF Record, Adds
    <3>2. CASE y = [x EXCEPT !.valid = @ \cup {v}, !.kind[v] = r.req, !.mail = Append(@, m)]
      <4>1. PICK k : k = [x.kind EXCEPT ![v] = r.req]
        OBVIOUS
      <4>2. y = [x EXCEPT !.valid = @ \cup {v}, !.kind = k, !.mail = Append(@, m)]
        BY <3>2, <4>1
      <4> QED
        BY <1>1, <2>6, <4>2 DEF Record, Adds
    <3> QED
      BY <2>2, <3>1, <3>2
  <2> QED
    BY <1>8, <2>6, <2>7, SpeaksMore DEF Minted
<1> QED
  BY <1>2, <1>3, <1>4, <1>5, <1>6, <1>7, <1>8 DEF Plain

\* A step after which the screen is as it should be, and what was closed stays closed.
ScreenStep == Screen(s, srv)' /\ StaysDown(s.app, s'.app)

\* The server of a page that is as it should be.
LEMMA ScreenSpeaks ==
    ASSUME Inv, Screen(s, srv) PROVE Speaks(srv)
<1>1. Record(srv) /\ Queue(srv.mail)
  BY DEF Inv, Room, Server, MailOK
<1> QED
  BY <1>1 DEF Screen, RowOK, DeskOK, Speaks

\* What holds of the next page and server holds in the next state.
LEMMA ScreenNext ==
    ASSUME UNCHANGED case, Screen(s', srv') PROVE Screen(s, srv)'
<1>1. Stage(s)'
  BY DEF Screen, Stage
<1>2. RowOK(s, srv)'
  BY DEF Screen, RowOK
<1>3. DeskOK(s, srv)'
  BY DEF Screen, DeskOK
<1> QED
  BY <1>1, <1>2, <1>3 DEF Screen

\* What was closed is not shown by whoever shows the same.
LEMMA StaysSame ==
    ASSUME NEW a, AppOK(a), NEW b, b.wins = a.wins PROVE StaysDown(a, b)
  BY DEF AppOK, StaysDown

\* A page that tells the application nothing new.
LEMMA DeskKeeps ==
    ASSUME NEW p, NEW x, DeskOK(p, x), NEW q, SameDesk(p, q), NEW y, Speaks(y),
           p.st = "away" => q.st = "away", Hubs(p.app) => q.dash /\ q.want
    PROVE  DeskOK(q, y) /\ StaysDown(p.app, q.app)
<1>1. StaysDown(p.app, q.app)
  BY StaysSame DEF DeskOK, SameDesk
<1> QED
  BY <1>1 DEF DeskOK, SameDesk, Speaks

\* A page that shows the same as another, which is where it is.
LEMMA ScreenAlike ==
    ASSUME NEW p, NEW x, Screen(p, x), NEW q, Alike(p, q), SameShow(p, q)
    PROVE  Screen(q, x)
<1>1. Stage(q)
  BY DEF Screen, Stage, Alike, SameShow, Shows, SameScreen, SameLogin, SamePlace, SameCall, SameCard
<1>2. RowOK(q, x)
  BY DEF Screen, RowOK, Alike, SameShow, Shows, SameDesk, SamePlace, SameCall, SameCard
<1>3. DeskOK(q, x)
  BY DEF Screen, DeskOK, Alike, SameShow, Shows, SameDesk, SameScreen, SamePlace, SameCall
<1> QED
  BY <1>1, <1>2, <1>3 DEF Screen, SameShow, Shows

\* What the server has to say matters to a page that is in.
LEMMA ScreenMail ==
    ASSUME NEW p, NEW x, Screen(p, x), NEW y, Speaks(y), y.knocker = x.knocker, p.st # "in"
    PROVE  Screen(p, y)
<1>1. RowOK(p, y)
  BY DEF Screen, RowOK, Speaks
<1>2. DeskOK(p, y)
  BY DEF Screen, DeskOK, Speaks
<1> QED
  BY <1>1, <1>2 DEF Screen

\* A page has its turn.
LEMMA TurnScreen ==
    ASSUME UNCHANGED case, NEW q, Turn(q), NEW x, x = Served(srv, q.out), Speaks(x), Screen(q, x),
           StaysDown(s.app, q.app)
    PROVE  ScreenStep
<1>1. Wide(q) /\ Whole(q)
  BY DEF Screen, Wide
<1>2. Alike(q, s') /\ SameShow(q, s')
  BY <1>1, TurnShow
<1>3. Screen(q, srv')
  <2>1. CASE q.st \in {"in", "closing"}
    <3>1. srv' = x
      BY <1>1, <2>1, Turned
    <3> QED
      BY <3>1
  <2>2. CASE q.st \notin {"in", "closing"}
    <3>1. srv' = [x EXCEPT !.mail = <<>>]
      BY <1>1, <2>2, Turned
    <3>2. /\ Record(srv') /\ "knocker" \in DOMAIN srv' /\ "queue" \in DOMAIN srv'
          /\ srv'.knocker = x.knocker /\ srv'.queue = x.queue /\ srv'.mail = <<>>
      BY <3>1 DEF Speaks, Record
    <3>3. Speaks(srv')
      BY <3>2, Silence DEF Speaks
    <3> QED
      BY <2>2, <3>2, <3>3, ScreenMail
  <2> QED
    BY <2>1, <2>2
<1>4. Screen(s', srv')
  BY <1>2, <1>3, ScreenAlike
<1>5. s'.app = q.app
  BY <1>2 DEF SameShow, Shows, SameDesk
<1> QED
  BY <1>4, <1>5, ScreenNext DEF ScreenStep

\* ... with nothing to send,
LEMMA TurnScreenNone ==
    ASSUME Inv, Screen(s, srv), UNCHANGED case, NEW q, Turn(q), q.out = <<>>, Screen(q, srv),
           StaysDown(s.app, q.app)
    PROVE  ScreenStep
<1>1. Served(srv, q.out) = srv
  BY ServedNone
<1> QED
  BY <1>1, ScreenSpeaks, TurnScreen

\* or one thing, in the room or as it leaves.
LEMMA TurnScreenOne ==
    ASSUME Inv, Screen(s, srv), UNCHANGED case, NEW q, Turn(q), Screen(q, srv), q.st # "away",
           NEW r, q.out = <<r>>, r.req \in Plain \cup Minted \cup {"revoke"},
           r.req = "admit" => q.st = "in", StaysDown(s.app, q.app)
    PROVE  ScreenStep
<1>1. PICK x : x = Serve(srv, r)
  OBVIOUS
<1>2. Served(srv, q.out) = x
  BY <1>1, ServedOne
<1>3. /\ Speaks(x) /\ (r.req # "admit" => x.knocker = srv.knocker)
      /\ \A row : RowTrue(row, srv) => RowTrue(row, x)
  BY <1>1, ScreenSpeaks, ServeSpeaks
<1>4. Screen(q, x)
  <2>1. RowOK(q, x)
    BY <1>3 DEF Screen, RowOK, Speaks, RowTrue
  <2>2. DeskOK(q, x)
    BY <1>3 DEF Screen, DeskOK, Speaks
  <2> QED
    BY <2>1, <2>2 DEF Screen
<1> QED
  BY <1>2, <1>3, <1>4, TurnScreen

\* Only the server has changed, and says no less of who knocks.
LEMMA ServerScreen ==
    ASSUME Inv, Screen(s, srv), UNCHANGED <<case, s>>, Speaks(srv'),
           RowOK(s, srv')
    PROVE  ScreenStep
<1>1. Screen(s, srv')
  BY DEF Screen, DeskOK, Speaks
<1>2. StaysDown(s.app, s'.app)
  BY StaysSame DEF Screen, DeskOK
<1> QED
  BY <1>1, <1>2, ScreenNext DEF ScreenStep

\* Only the page has, with something that this is not about.
LEMMA PageScreen ==
    ASSUME Inv, Screen(s, srv), UNCHANGED <<case, srv>>, Alike(s, s'), SameShow(s, s')
    PROVE  ScreenStep
<1>1. Screen(s', srv)
  BY ScreenAlike
<1>2. StaysDown(s.app, s'.app)
  BY StaysSame DEF Screen, DeskOK, SameShow, Shows, SameDesk
<1> QED
  BY <1>1, <1>2, ScreenNext DEF ScreenStep

\* A page where it was, which shows the same, with other credentials to log in.
LEMMA ScreenSame ==
    ASSUME NEW p, NEW x, Screen(p, x), NEW q, SameShow(p, q), SamePlace(p, q), SameCall(p, q),
           q.card = p.card, p.waiting => q.probing # "probing"
    PROVE  Screen(q, x)
<1>1. Stage(q)
  BY DEF Screen, Stage, SameShow, Shows, SameScreen, SamePlace, SameCall
<1>2. RowOK(q, x)
  BY DEF Screen, RowOK, SameShow, Shows, SameDesk, SamePlace, SameCall
<1>3. DeskOK(q, x)
  BY DEF Screen, DeskOK, SameShow, Shows, SameDesk, SameScreen, SamePlace, SameCall
<1> QED
  BY <1>1, <1>2, <1>3 DEF Screen, SameShow, Shows

\* ... has its turn.
LEMMA TurnSame ==
    ASSUME Inv, Screen(s, srv), UNCHANGED case, NEW q, Turn(q), q.out = <<>>, SameShow(s, q),
           SamePlace(s, q), SameCall(s, q), q.card = s.card, s.waiting => q.probing # "probing"
    PROVE  ScreenStep
<1>1. Screen(q, srv)
  BY ScreenSame
<1>2. StaysDown(s.app, q.app)
  BY StaysSame DEF Screen, DeskOK, SameShow, Shows, SameDesk
<1> QED
  BY <1>1, <1>2, TurnScreenNone

\* A request shows nothing.
LEMMA AskShow ==
    ASSUME NEW p, Wide(p), NEW what, NEW t, NEW q, q = Ask(p, what, t)
    PROVE  SameShow(p, q)
<1>1. PICK r : r = [req |-> what, t |-> t]
  OBVIOUS
<1>2. q = [p EXCEPT !.out = Append(@, r)]
  BY <1>1 DEF Ask
<1> QED
  BY <1>2 DEF Wide, Whole, Shows, SameShow, SameScreen, SameDesk

\* A page that is in asks for something.
LEMMA AskScreen ==
    ASSUME Inv, UNCHANGED case, Screen(s, srv), NEW p, Alike(s, p), p.out = <<>>, Screen(p, srv),
           StaysDown(s.app, p.app), s.st = "in",
           NEW what \in Plain \cup Minted \cup {"revoke"}, NEW t, NEW q, q = Ask(p, what, t), Turn(q)
    PROVE  ScreenStep
<1>1. Wide(p) /\ Whole(p)
  BY DEF Screen, Wide
<1>2. Alike(p, q) /\ SameShow(p, q) /\ \E r : r.req = what /\ r.t = t /\ Adds(p.out, r, q.out)
  BY <1>1, AskDoes, AskShow
<1>3. PICK r : r.req = what /\ Adds(p.out, r, q.out)
  BY <1>2
<1>4. q.out = <<r>>
  BY <1>3 DEF Adds
<1>5. Screen(q, srv)
  BY <1>2, ScreenAlike
<1>6. StaysDown(s.app, q.app) /\ q.st = "in"
  BY <1>2 DEF SameShow, Shows, SameDesk, Alike, SamePlace
<1> QED
  BY <1>3, <1>4, <1>5, <1>6, TurnScreenOne

\* What was closed by hand stays closed while nothing happens to it.
LEMMA ScreenStays ==
    ASSUME Inv, Screen(s, srv)
    PROVE  StaysDown(s.app, s.app) /\ Alike(s, s) /\ SameShow(s, s) /\ s.out = <<>> /\ Whole(s) /\ Wide(s)
<1>1. Whole(s) /\ Wide(s) /\ AppOK(s.app) /\ s.out = <<>>
  BY DEF Inv, Screen, DeskOK, Wide
<1> QED
  BY <1>1, StaysSame DEF Alike, SameTokens, SameLogin, SamePlace, SameCall, SameCard, Wide, SameShow,
     Shows, SameScreen, SameDesk

\* "Log in as somebody else": it shows the card that was there.
LEMMA RejoinOtherScreen ==
    ASSUME Inv, Screen(s, srv), RejoinOther PROVE ScreenStep
<1>1. PICK q : q = [s EXCEPT !.rejoin = FALSE]
  OBVIOUS
<1>2. Turn(q) /\ UNCHANGED case
  BY <1>1 DEF RejoinOther
<1>3. Wide(s) /\ s.out = <<>>
  BY ScreenStays
<1>4. SameShow(s, q) /\ SamePlace(s, q) /\ SameCall(s, q) /\ q.card = s.card /\ q.out = <<>> /\ q.probing = s.probing
  BY <1>1, <1>3 DEF Wide, Whole, Shows, SameShow, SameScreen, SameDesk, SamePlace, SameCall
<1> QED
  BY <1>2, <1>4, TurnSame DEF Screen, Stage

\* The link for operators.
LEMMA OperatorLoginScreen ==
    ASSUME Inv, Screen(s, srv), OperatorLogin PROVE ScreenStep
<1>1. PICK q : q = [s EXCEPT !.token = None, !.usingR = FALSE, !.probing = "null"]
  OBVIOUS
<1>2. Turn(q) /\ UNCHANGED case
  BY <1>1 DEF OperatorLogin
<1>3. Wide(s) /\ s.out = <<>>
  BY ScreenStays
<1>4. SameShow(s, q) /\ SamePlace(s, q) /\ SameCall(s, q) /\ q.card = s.card /\ q.out = <<>> /\ q.probing = "null"
  BY <1>1, <1>3 DEF Wide, Whole, Shows, SameShow, SameScreen, SameDesk, SamePlace, SameCall
<1> QED
  BY <1>2, <1>4, TurnSame

\* The camera is turned on or off.
LEMMA CameraScreen ==
    ASSUME Inv, Screen(s, srv), Camera PROVE ScreenStep
<1>1. PICK b : b = ~s.sent
  OBVIOUS
<1>2. PICK q : q = [s EXCEPT !.sent = b]
  OBVIOUS
<1>3. Turn(q) /\ UNCHANGED case
  BY <1>1, <1>2 DEF Camera
<1>4. Wide(s) /\ s.out = <<>>
  BY ScreenStays
<1>5. SameShow(s, q) /\ SamePlace(s, q) /\ SameCall(s, q) /\ q.card = s.card /\ q.out = <<>> /\ q.probing = s.probing
  BY <1>2, <1>4 DEF Wide, Whole, Shows, SameShow, SameScreen, SameDesk, SamePlace, SameCall
<1> QED
  BY <1>3, <1>5, TurnSame DEF Screen, Stage

\* A link is made, somebody is let in, the panel asks who knocks.
LEMMA AsksScreen ==
    ASSUME Inv, Screen(s, srv), CreateLink \/ AdmitKnocker \/ PollOperatorRoom PROVE ScreenStep
<1>1. PICK what \in Plain \cup Minted \cup {"revoke"} : Turn(Ask(s, what, None))
  BY DEF CreateLink, AdmitKnocker, PollOperatorRoom, Plain, Minted
<1>2. s.st = "in" /\ UNCHANGED case
  BY DEF CreateLink, AdmitKnocker, PollOperatorRoom
<1>3. PICK q : q = Ask(s, what, None)
  OBVIOUS
<1> QED
  BY <1>1, <1>2, <1>3, ScreenStays, AskScreen

\* The application, its notifications and its window.
LEMMA AppScreen ==
    ASSUME Inv, Screen(s, srv), UNCHANGED <<case, srv>>, NEW a, AppOK(a), Hubs(a) <=> Hubs(s.app),
           \A k : Knows(a, k) <=> Knows(s.app, k), StaysDown(s.app, a), s' = [s EXCEPT !.app = a]
    PROVE  ScreenStep
<1>1. Whole(s) /\ Wide(s)
  BY ScreenStays
<1>2. PICK q : q = s'
  OBVIOUS
<1>3. /\ Alike(s, q) /\ Wide(q) /\ SameScreen(s, q) /\ q.named = s.named /\ q.app = a
      /\ q.row = s.row /\ q.toasts = s.toasts /\ q.knockers = s.knockers /\ q.handlers = s.handlers
  BY <1>1, <1>2 DEF Alike, SameTokens, SameLogin, SamePlace, SameCall, SameCard, Wide, Whole, SameScreen
<1>4. Stage(q)
  BY <1>3 DEF Screen, Stage, Alike, SameScreen, SameLogin, SamePlace, SameCall, SameCard
<1>5. RowOK(q, srv)
  BY <1>3 DEF Screen, RowOK, Alike, SamePlace, SameCall, SameCard
<1>6. DeskOK(q, srv)
  BY <1>3 DEF Screen, DeskOK, Alike, SameScreen, SamePlace, SameCall
<1>7. Screen(s', srv')
  BY <1>2, <1>3, <1>4, <1>5, <1>6 DEF Screen
<1> QED
  BY <1>2, <1>3, <1>7, ScreenNext DEF ScreenStep

\* The application's own steps, and what is done on the desk, leave the screens as they are.
LEMMA AppActs ==
    ASSUME Inv, Screen(s, srv), AppHears \/ Look \/ \E key : Answers(key) \/ Closes(key)
    PROVE  ScreenStep
<1>1. PICK a : a = s.app
  OBVIOUS
<1>2. AppOK(a)
  BY <1>1 DEF Screen, DeskOK
<1>3. CASE AppHears
  <2>1. PICK b : b = Heard(a)
    OBVIOUS
  <2>2. s' = [s EXCEPT !.app = b] /\ UNCHANGED <<case, srv>> /\ a.up # <<>>
    BY <1>1, <1>3, <2>1 DEF AppHears
  <2>3. AppOK(b) /\ b.up # a.up /\ (Hubs(b) <=> Hubs(a)) /\ \A k : Knows(b, k) <=> Knows(a, k)
    BY <1>2, <2>1, <2>2, HeardDoes
  <2> QED
    BY <1>1, <2>2, <2>3, AppScreen DEF StaysDown
<1>4. CASE Look
  <2>1. PICK f \in BOOLEAN : f = ~a.front
    OBVIOUS
  <2>2. PICK b : b = Looked(a, f)
    OBVIOUS
  <2>3. s' = [s EXCEPT !.app = b] /\ UNCHANGED <<case, srv>>
    BY <1>1, <1>4, <2>1, <2>2 DEF Look
  <2>4. /\ AppOK(b) /\ b.up = a.up /\ b.out = a.out /\ b.duty = a.duty
        /\ \A k \in DOMAIN a.out : a.out[k].dismissed => k \notin b.wins
    BY <1>2, <2>2, LookedDoes
  <2>5. (Hubs(b) <=> Hubs(a)) /\ \A k : Knows(b, k) <=> Knows(a, k)
    BY <2>4, KnowsSame DEF Hubs
  <2> QED
    BY <1>1, <2>3, <2>4, <2>5, AppScreen DEF StaysDown
<1>5. ASSUME NEW key, Answers(key) PROVE ScreenStep
  <2>1. PICK b : b = Pressed(a, key)
    OBVIOUS
  <2>2. s' = [s EXCEPT !.app = b] /\ UNCHANGED <<case, srv>>
    BY <1>1, <1>5, <2>1 DEF Answers
  <2> QED
    BY <1>1, <1>2, <2>1, <2>2, PressedDoes, AppScreen
<1>6. ASSUME NEW key, Closes(key) PROVE ScreenStep
  <2>1. PICK b : b = ClosedByHand(a, key)
    OBVIOUS
  <2>2. s' = [s EXCEPT !.app = b] /\ UNCHANGED <<case, srv>> /\ key \in a.wins
    BY <1>1, <1>6, <2>1 DEF Closes
  <2> QED
    BY <1>1, <1>2, <2>1, <2>2, ClosedByHandDoes, AppScreen
<1> QED
  BY <1>3, <1>4, <1>5, <1>6

\* A page that shows the same, of a server that says no less of who knocks.
LEMMA BesideScreen ==
    ASSUME Inv, Screen(s, srv), UNCHANGED case, Alike(s, s'), SameShow(s, s'), Speaks(srv'),
           srv'.knocker = srv.knocker, \A row : RowTrue(row, srv) => RowTrue(row, srv')
    PROVE  ScreenStep
<1>1. Screen(s, srv')
  <2>1. RowOK(s, srv')
    BY DEF Screen, RowOK, Speaks, RowTrue
  <2>2. DeskOK(s, srv')
    BY DEF Screen, DeskOK, Speaks
  <2> QED
    BY <2>1, <2>2 DEF Screen
<1>2. Screen(s', srv')
  BY <1>1, ScreenAlike
<1>3. StaysDown(s.app, s'.app)
  BY StaysSame DEF Screen, DeskOK, SameShow, Shows, SameDesk
<1> QED
  BY <1>2, <1>3, ScreenNext DEF ScreenStep

\* A server that has changed in nothing of this.
LEMMA SpeaksBeside ==
    ASSUME NEW x, Speaks(x), NEW y, Record(y), "knocker" \in DOMAIN y, "queue" \in DOMAIN y,
           y.mail = x.mail, y.knocker = x.knocker, y.queue \in Knockings
    PROVE  Speaks(y) /\ \A row : RowTrue(row, x) => RowTrue(row, y)
  BY DEF Speaks, RowTrue

\* A token expires, or is revoked by somebody else.
LEMMA ExpireScreen ==
    ASSUME Inv, Screen(s, srv), NEW t, Expire(t) \/ RevokeElsewhere(t) PROVE ScreenStep
<1>1. Speaks(srv)
  BY ScreenSpeaks
<1>2. /\ UNCHANGED <<case, s>>
      /\ \/ srv' = [srv EXCEPT !.valid = @ \ {t}, !.lapsed = @ \cup {t}]
         \/ srv' = [srv EXCEPT !.valid = @ \ {t}]
  BY DEF Expire, RevokeElsewhere
<1>3. /\ Record(srv') /\ "knocker" \in DOMAIN srv' /\ "queue" \in DOMAIN srv'
      /\ srv'.mail = srv.mail /\ srv'.knocker = srv.knocker /\ srv'.queue = srv.queue
  <2>1. CASE srv' = [srv EXCEPT !.valid = @ \ {t}, !.lapsed = @ \cup {t}]
    BY <1>1, <2>1 DEF Speaks, Record
  <2>2. CASE srv' = [srv EXCEPT !.valid = @ \ {t}]
    BY <1>1, <2>2 DEF Speaks, Record
  <2> QED
    BY <1>2, <2>1, <2>2
<1>4. Speaks(srv') /\ \A row : RowTrue(row, srv) => RowTrue(row, srv')
  BY <1>1, <1>3, SpeaksBeside DEF Speaks
<1>5. Alike(s, s') /\ SameShow(s, s')
  BY <1>2, ScreenStays
<1> QED
  BY <1>2, <1>3, <1>4, <1>5, BesideScreen

\* Somebody knocks at a room of the hub.
LEMMA QueuesScreen ==
    ASSUME Inv, Screen(s, srv), NEW r, NEW n \in Names, Queues(r, n) PROVE ScreenStep
<1>1. Speaks(srv)
  BY ScreenSpeaks
<1>2. PICK k : k = [srv.queue EXCEPT ![r] = IF n \in @ THEN @ \ {n} ELSE @ \cup {n}]
  OBVIOUS
<1>3. srv' = [srv EXCEPT !.queue = k] /\ UNCHANGED <<case, s>>
  BY <1>2 DEF Queues
<1>4. k \in Knockings
  BY <1>1, <1>2 DEF Speaks, Knockings
<1>5. /\ Record(srv') /\ "knocker" \in DOMAIN srv' /\ "queue" \in DOMAIN srv'
      /\ srv'.mail = srv.mail /\ srv'.knocker = srv.knocker /\ srv'.queue = k
  BY <1>1, <1>3 DEF Speaks, Record
<1>6. Speaks(srv') /\ \A row : RowTrue(row, srv) => RowTrue(row, srv')
  BY <1>1, <1>4, <1>5, SpeaksBeside
<1>7. Alike(s, s') /\ SameShow(s, s')
  BY <1>3, ScreenStays
<1> QED
  BY <1>3, <1>5, <1>6, <1>7, BesideScreen

\* Somebody knocks, or gives up: a page that is in is told of it, and one that is
\* not shows no row.
LEMMA KnocksScreen ==
    ASSUME Inv, Screen(s, srv), Races = {}, Knocks PROVE ScreenStep
<1>1. Speaks(srv) /\ UNCHANGED <<case, s>>
  BY ScreenSpeaks DEF Knocks
<1>2. PICK k \in BOOLEAN : k = ~srv.knocker
  OBVIOUS
<1>3. PICK m : m = [re |-> IF srv.knocker THEN "knockcancel" ELSE "knock", t |-> None]
  OBVIOUS
<1>4. case.who = "op" /\ case.room \in {"lobby", "child"} /\ (s.st # "in" => ~s.row)
  BY DEF Knocks, Screen, RowOK
<1>5. CASE s.st = "in"
  <2>1. srv' = [srv EXCEPT !.knocker = k, !.mail = Append(srv.mail, m)]
    BY <1>2, <1>3, <1>5 DEF Knocks
  <2>2. /\ Record(srv') /\ "knocker" \in DOMAIN srv' /\ "queue" \in DOMAIN srv'
        /\ srv'.knocker = k /\ srv'.queue = srv.queue /\ Adds(srv.mail, m, srv'.mail)
    BY <1>1, <2>1 DEF Speaks, Record, Adds
  <2>3. PICK q : q = srv.mail
    OBVIOUS
  <2>4. PICK w : w = srv'.mail
    OBVIOUS
  <2>5. Queue(q) /\ Adds(q, m, w)
    BY <1>1, <2>2, <2>3, <2>4 DEF Speaks
  <2>6. Queue(w) /\ Items(w) = Items(q) \cup {m}
    BY <2>5, OneMore
  <2>7. m.re = (IF srv.knocker THEN "knockcancel" ELSE "knock")
    BY <1>3
  <2>8. Speaks(srv')
    BY <1>1, <1>4, <2>2, <2>3, <2>4, <2>6, <2>7 DEF Speaks
  <2>9. \A row : RowNow(row, w) <=> IF m.re = "knock" THEN TRUE
                                    ELSE IF m.re = "knockcancel" THEN FALSE ELSE RowNow(row, q)
    BY <2>5, RowMore
  <2>10. RowNow(s.row, w) <=> k
    BY <1>2, <2>7, <2>9
  <2>11. RowOK(s, srv')
    BY <1>4, <1>5, <2>2, <2>4, <2>10 DEF Screen, RowOK
  <2> QED
    BY <1>1, <2>8, <2>11, ServerScreen
<1>6. CASE s.st # "in"
  <2>1. srv' = [srv EXCEPT !.knocker = k, !.mail = srv.mail]
    BY <1>2, <1>6 DEF Knocks
  <2>2. /\ Record(srv') /\ "knocker" \in DOMAIN srv' /\ "queue" \in DOMAIN srv'
        /\ srv'.knocker = k /\ srv'.queue = srv.queue /\ srv'.mail = srv.mail
    BY <1>1, <2>1 DEF Speaks, Record
  <2>3. Speaks(srv')
    BY <1>1, <1>4, <2>2 DEF Speaks
  <2>4. RowOK(s, srv')
    BY <1>4, <1>6, <2>2 DEF Screen, RowOK
  <2> QED
    BY <1>1, <2>3, <2>4, ServerScreen
<1> QED
  BY <1>5, <1>6

\* What has only to do with the call or with the background.
LEMMA CallShow ==
    ASSUME NEW p, Wide(p), NEW c, NEW q,
           q = p \/ q = [p EXCEPT !.cl = c] \/ q = [p EXCEPT !.tr = c]
    PROVE  Alike(p, q) /\ SameShow(p, q) /\ q.out = p.out
<1>1. CASE q = p
  BY <1>1 DEF Wide, Whole, Alike, SameTokens, SameLogin, SamePlace, SameCall, SameCard, Shows,
     SameShow, SameScreen, SameDesk
<1>2. CASE q = [p EXCEPT !.cl = c]
  BY <1>2 DEF Wide, Whole, Alike, SameTokens, SameLogin, SamePlace, SameCall, SameCard, Shows,
     SameShow, SameScreen, SameDesk
<1>3. CASE q = [p EXCEPT !.tr = c]
  BY <1>3 DEF Wide, Whole, Alike, SameTokens, SameLogin, SamePlace, SameCall, SameCard, Shows,
     SameShow, SameScreen, SameDesk
<1> QED
  BY <1>1, <1>2, <1>3

\* Somebody comes, or says something.
LEMMA ComesScreen ==
    ASSUME Inv, Screen(s, srv), Says \/ \E u : SomebodyComes(u) PROVE ScreenStep
<1>1. Speaks(srv) /\ Wide(s)
  BY ScreenSpeaks, ScreenStays
<1>2. \E k, c : /\ srv' = [srv EXCEPT !.others = k] \/ srv' = [srv EXCEPT !.hist = k]
                /\ s' = s \/ s' = [s EXCEPT !.cl = c]
  <2>1. CASE Says
    <3>1. PICK c : c = [s.cl EXCEPT !.box = 1]
      OBVIOUS
    <3>2. srv' = [srv EXCEPT !.hist = 1] /\ s' = [s EXCEPT !.cl = c]
      BY <2>1, <3>1 DEF Says
    <3> QED
      BY <3>2
  <2>2. ASSUME NEW u, SomebodyComes(u)
        PROVE  \E k, c : srv' = [srv EXCEPT !.others = k] /\ (s' = s \/ s' = [s EXCEPT !.cl = c])
    <3>1. PICK k : k = srv.others \cup {u}
      OBVIOUS
    <3>2. PICK c : c = Added(s.cl, {u})
      OBVIOUS
    <3>3. srv' = [srv EXCEPT !.others = k] /\ (s' = s \/ s' = [s EXCEPT !.cl = c])
      BY <2>2, <3>1, <3>2 DEF SomebodyComes
    <3> QED
      BY <3>3
  <2> QED
    BY <2>1, <2>2
<1>3. PICK k, c : /\ srv' = [srv EXCEPT !.others = k] \/ srv' = [srv EXCEPT !.hist = k]
                  /\ s' = s \/ s' = [s EXCEPT !.cl = c]
  BY <1>2
<1>4. UNCHANGED case
  BY DEF Says, SomebodyComes
<1>5. Alike(s, s') /\ SameShow(s, s')
  BY <1>1, <1>3, CallShow
<1>6. /\ Record(srv') /\ "knocker" \in DOMAIN srv' /\ "queue" \in DOMAIN srv'
      /\ srv'.mail = srv.mail /\ srv'.knocker = srv.knocker /\ srv'.queue = srv.queue
  <2>1. CASE srv' = [srv EXCEPT !.others = k]
    BY <1>1, <2>1 DEF Speaks, Record
  <2>2. CASE srv' = [srv EXCEPT !.hist = k]
    BY <1>1, <2>2 DEF Speaks, Record
  <2> QED
    BY <1>3, <2>1, <2>2
<1>7. Speaks(srv') /\ \A row : RowTrue(row, srv) => RowTrue(row, srv')
  BY <1>1, <1>6, SpeaksBeside DEF Speaks
<1> QED
  BY <1>4, <1>5, <1>6, <1>7, BesideScreen

\* Somebody leaves; who is left clears the chat, perhaps.
LEMMA LeavesScreen ==
    ASSUME Inv, Screen(s, srv), NEW u, SomebodyLeaves(u) PROVE ScreenStep
<1>1. Speaks(srv) /\ Wide(s)
  BY ScreenSpeaks, ScreenStays
<1>2. PICK k : k = srv.others \ {u}
  OBVIOUS
<1>3. PICK c : c = Deleted(s.cl, u, OpHere(s))
  OBVIOUS
<1>4. PICK x : x = [srv EXCEPT !.others = k]
  OBVIOUS
<1>5. PICK r : r = [req |-> "clearchat", t |-> None]
  OBVIOUS
<1>6. /\ s' = s \/ s' = [s EXCEPT !.cl = c]
      /\ srv' = x \/ srv' = Serve(x, r)
      /\ UNCHANGED case
  BY <1>2, <1>3, <1>4, <1>5 DEF SomebodyLeaves
<1>7. Alike(s, s') /\ SameShow(s, s')
  BY <1>1, <1>6, CallShow
<1>8. /\ Record(x) /\ "knocker" \in DOMAIN x /\ "queue" \in DOMAIN x
      /\ x.mail = srv.mail /\ x.knocker = srv.knocker /\ x.queue = srv.queue
  BY <1>1, <1>4 DEF Speaks, Record
<1>9. Speaks(x) /\ \A row : RowTrue(row, srv) => RowTrue(row, x)
  BY <1>1, <1>8, SpeaksBeside DEF Speaks
<1>10. r.req = "clearchat" /\ r.req \in Plain \cup Minted \cup {"revoke"} /\ r.req # "admit"
  BY <1>5 DEF Plain
<1>11. Speaks(srv') /\ srv'.knocker = srv.knocker /\ \A row : RowTrue(row, srv) => RowTrue(row, srv')
  BY <1>6, <1>8, <1>9, <1>10, ServeSpeaks
<1> QED
  BY <1>6, <1>7, <1>11, BesideScreen

\* The clocks.
LEMMA ClocksScreen ==
    ASSUME Inv, Screen(s, srv), GraceOver \/ AloneExpires PROVE ScreenStep
<1>1. Wide(s)
  BY ScreenStays
<1>2. PICK t : t = [s.tr EXCEPT !.recent = FALSE]
  OBVIOUS
<1>3. PICK c : c = AloneTooLong(s.cl)
  OBVIOUS
<1>4. (s' = [s EXCEPT !.tr = t] \/ s' = [s EXCEPT !.cl = c]) /\ UNCHANGED <<case, srv>>
  BY <1>2, <1>3 DEF GraceOver, AloneExpires
<1>5. Alike(s, s') /\ SameShow(s, s')
  BY <1>1, <1>4, CallShow
<1> QED
  BY <1>4, <1>5, PageScreen

\* The browser goes to a client's room: the panel says and hears nothing more.
LEMMA GoesAwayScreen ==
    ASSUME Inv, Screen(s, srv), UNCHANGED case, NEW p, Alike(s, p), p.out = <<>>, Screen(p, srv),
           s.st = "in", NEW q, q = OperatorJoin(p), Turn(q)
    PROVE  ScreenStep
<1>1. PICK a : a = Navigated(p.app)
  OBVIOUS
<1>2. q = [p EXCEPT !.st = "away", !.app = a]
  BY <1>1 DEF OperatorJoin
<1>3. AppOK(a) /\ ~Hubs(a) /\ a.wins = {}
  BY <1>1, NavigatedDoes DEF Screen, DeskOK, AppOK
<1>4. /\ Wide(q) /\ SameScreen(p, q) /\ q.row = p.row /\ q.toasts = p.toasts
      /\ q.knockers = p.knockers /\ q.handlers = p.handlers /\ q.app = a /\ q.named = p.named
      /\ q.st = "away" /\ SameCall(p, q) /\ q.card = p.card /\ q.out = <<>>
      /\ q.load = p.load /\ q.probing = p.probing
  BY <1>2 DEF Screen, Wide, Whole, SameScreen, SameCall
<1>5. p.st = "in"
  BY DEF Alike, SamePlace
<1>6. Stage(q)
  BY <1>4, <1>5 DEF Screen, Stage, SameScreen, SameCall
<1>7. RowOK(q, srv)
  BY <1>4 DEF Screen, RowOK
<1>8. DeskOK(q, srv)
  BY <1>3, <1>4 DEF Screen, DeskOK
<1>9. StaysDown(s.app, q.app)
  BY <1>3, <1>4 DEF StaysDown
<1> QED
  BY <1>4, <1>6, <1>7, <1>8, <1>9, TurnScreenNone DEF Screen

\* A client's row or toast on the panel.
LEMMA JoinRoomScreen ==
    ASSUME Inv, Screen(s, srv), JoinRoom PROVE ScreenStep
<1>1. s.st = "in" /\ UNCHANGED case
  BY DEF JoinRoom
<1>2. CASE Turn(OperatorJoin(s))
  BY <1>1, <1>2, ScreenStays, GoesAwayScreen
<1>3. ASSUME NEW r \in s.toasts, Turn([s EXCEPT !.toasts = @ \ {r}])
      PROVE  ScreenStep
  <2>1. PICK w : w = s.toasts \ {r}
    OBVIOUS
  <2>2. PICK q : q = [s EXCEPT !.toasts = w]
    OBVIOUS
  <2>3. Turn(q)
    BY <1>3, <2>1, <2>2
  <2>4. Wide(s) /\ s.out = <<>> /\ StaysDown(s.app, s.app)
    BY ScreenStays
  <2>5. /\ Wide(q) /\ SameScreen(s, q) /\ SamePlace(s, q) /\ SameCall(s, q) /\ q.card = s.card
        /\ q.row = s.row /\ q.toasts = w /\ q.knockers = s.knockers /\ q.handlers = s.handlers
        /\ q.app = s.app /\ q.named = s.named /\ q.out = <<>> /\ q.probing = s.probing
    BY <2>2, <2>4 DEF Wide, Whole, SameScreen, SamePlace, SameCall
  <2>6. Stage(q)
    BY <2>5 DEF Screen, Stage, SameScreen, SamePlace, SameCall
  <2>7. RowOK(q, srv)
    BY <2>5 DEF Screen, RowOK, SamePlace, SameCall
  <2>8. DeskOK(q, srv)
    BY <2>1, <2>5 DEF Screen, DeskOK, SameScreen, SamePlace, SameCall
  <2> QED
    BY <1>1, <2>3, <2>4, <2>5, <2>6, <2>7, <2>8, TurnScreenNone DEF Screen
<1> QED
  BY <1>2, <1>3 DEF JoinRoom

\* A notification has been answered.
LEMMA PageHearsScreen ==
    ASSUME Inv, Screen(s, srv), PageHears PROVE ScreenStep
<1>1. PICK key : key = Head(s.app.down)
  OBVIOUS
<1>2. PICK a : a = s.app
  OBVIOUS
<1>3. PICK b : b = [a EXCEPT !.down = Tail(a.down)]
  OBVIOUS
<1>4. PICK k : k = s.handlers \ {key}
  OBVIOUS
<1>5. PICK p : p = [s EXCEPT !.app = b, !.handlers = k]
  OBVIOUS
<1>6. PICK q : q = IF key \in s.handlers /\ s.st = "in" THEN Handle(p, key) ELSE p
  OBVIOUS
<1>7. Turn(q) /\ UNCHANGED case
  <2>1. p = [s EXCEPT !.app.down = Tail(s.app.down), !.handlers = k]
    BY <1>2, <1>3, <1>5
  <2> QED
    BY <1>1, <1>4, <1>6, <2>1 DEF PageHears
<1>8. Wide(s) /\ s.out = <<>> /\ AppOK(a)
  BY <1>2, ScreenStays DEF Screen, DeskOK
<1>9. /\ DOMAIN b = DOMAIN a /\ b.out = a.out /\ b.duty = a.duty /\ b.up = a.up /\ b.wins = a.wins
      /\ b.front = a.front
  BY <1>3, <1>8 DEF AppOK
<1>10. AppOK(b) /\ (Hubs(b) <=> Hubs(a)) /\ \A r : Knows(b, r) <=> Knows(a, r)
  BY <1>8, <1>9, KnowsSame DEF AppOK, Hubs
<1>11. /\ Alike(s, p) /\ p.out = <<>> /\ Wide(p) /\ SameScreen(s, p) /\ p.named = s.named
       /\ p.row = s.row /\ p.toasts = s.toasts /\ p.knockers = s.knockers /\ p.handlers = k /\ p.app = b
  BY <1>5, <1>8 DEF Wide, Whole, SameScreen, Alike, SameTokens, SameLogin, SamePlace, SameCall, SameCard
<1>12. Stage(p)
  BY <1>11 DEF Screen, Stage, Alike, SameScreen, SameLogin, SamePlace, SameCall, SameCard
<1>13. RowOK(p, srv)
  BY <1>11 DEF Screen, RowOK, Alike, SamePlace, SameCall, SameCard
<1>14. DeskOK(p, srv)
  BY <1>2, <1>4, <1>10, <1>11 DEF Screen, DeskOK, Alike, SameScreen, SamePlace, SameCall
<1>15. Screen(p, srv) /\ StaysDown(s.app, p.app)
  BY <1>2, <1>8, <1>9, <1>11, <1>12, <1>13, <1>14, StaysSame DEF Screen
<1>16. \/ q = p
       \/ s.st = "in" /\ q = Ask(p, "admit", None)
       \/ s.st = "in" /\ q = OperatorJoin(p)
  BY <1>6 DEF Handle
<1>17. "admit" \in Plain \cup Minted \cup {"revoke"}
  BY DEF Plain
<1> QED
  BY <1>7, <1>11, <1>15, <1>16, <1>17, TurnScreenNone, AskScreen, GoesAwayScreen

\* The page is put in the background, and says so.
LEMMA HideScreen ==
    ASSUME Inv, Screen(s, srv), Hide PROVE ScreenStep
<1>1. PICK h : h = Hidden(s.tr)
  OBVIOUS
<1>2. PICK p : p = [s EXCEPT !.tr = h]
  OBVIOUS
<1>3. PICK q : q = PublishAwayState(p, TRUE)
  OBVIOUS
<1>4. Turn(q) /\ UNCHANGED case
  BY <1>1, <1>2, <1>3 DEF Hide
<1>5. Alike(s, p) /\ SameShow(s, p) /\ p.out = <<>>
  BY <1>2, ScreenStays, CallShow
<1>6. Screen(p, srv) /\ StaysDown(s.app, p.app)
  BY <1>5, ScreenStays, ScreenAlike DEF SameShow, Shows, SameDesk
<1>7. q = p \/ (p.st = "in" /\ q = Ask(p, "data", 1))
  BY <1>3 DEF PublishAwayState
<1>8. "data" \in Plain \cup Minted \cup {"revoke"} /\ p.st = s.st
  BY <1>5 DEF Plain, Alike, SamePlace
<1> QED
  BY <1>4, <1>5, <1>6, <1>7, <1>8, TurnScreenNone, AskScreen

\* A page that begins shows nothing yet, and nobody that knocks.
Bare(p) ==
    /\ Wide(p) /\ p.call = FALSE /\ p.waiting = FALSE /\ p.dash = FALSE /\ p.row = FALSE
    /\ p.toasts = {} /\ p.handlers = {} /\ p.knockers \in Knockings
    /\ AppOK(p.app) /\ ~Hubs(p.app)

\* start() shows nothing but the card.
LEMMA StartedShow ==
    ASSUME NEW p, Wide(p), NEW link, NEW q, q = Started(p, link)
    PROVE  SameShow(p, q)
<1>1. PICK mine \in BOOLEAN : mine <=> Session(p) # None \/ Remember(p) # None
  OBVIOUS
<1>2. PICK mine2 : mine2 = IF Session(p) # None THEN Session(p) ELSE Remember(p)
  OBVIOUS
<1>3. PICK stash : stash = IF link # None THEN link ELSE p.stash
  OBVIOUS
<1>4. PICK fallback : fallback = IF mine THEN link ELSE None
  OBVIOUS
<1>5. PICK h : h = [p EXCEPT !.stash = stash, !.fallback = fallback]
  OBVIOUS
<1>6. PICK t : t = IF mine THEN mine2 ELSE h.stash
  OBVIOUS
<1>7. PICK u \in BOOLEAN : u <=> mine /\ Session(p) = None
  OBVIOUS
<1>8. PICK g : g = [h EXCEPT !.token = t, !.usingR = u]
  OBVIOUS
<1>9. q = IF t # None THEN Connect(g) ELSE [g EXCEPT !.card = TRUE]
  BY <1>1, <1>2, <1>3, <1>4, <1>5, <1>6, <1>7, <1>8 DEF Started, Wide, Whole
<1>10. SameShow(p, g)
  BY <1>5, <1>8 DEF Wide, Whole, Shows, SameShow, SameScreen, SameDesk
<1>11. CASE t # None
  <2>1. SameShow(g, q)
    BY <1>9, <1>10, <1>11, ConnectShow DEF SameShow, Shows
  <2> QED
    BY <1>10, <2>1 DEF Shows, SameShow, SameScreen, SameDesk
<1>12. CASE t = None
  <2>1. q = [g EXCEPT !.card = TRUE]
    BY <1>9, <1>12
  <2>2. SameShow(g, q)
    BY <1>10, <2>1 DEF Wide, Whole, Shows, SameShow, SameScreen, SameDesk
  <2> QED
    BY <1>10, <2>2 DEF Shows, SameShow, SameScreen, SameDesk
<1> QED
  BY <1>11, <1>12

\* A bare page, before anything is wanted of it.
LEMMA BareScreen ==
    ASSUME NEW p, Bare(p), ~p.want, p.st \in {"none", "opening", "blank"}, p.st = "none" => p.card,
           ~Covered(p.load) => Ready(p.load), NEW x, Speaks(x)
    PROVE  Screen(p, x)
<1>1. Stage(p)
  BY DEF Bare, Stage
<1>2. RowOK(p, x)
  BY DEF Bare, RowOK, Speaks
<1>3. DeskOK(p, x)
  BY DEF Bare, DeskOK, Speaks
<1> QED
  BY <1>1, <1>2, <1>3 DEF Screen, Bare

\* A page that starts.
LEMMA StartedScreen ==
    ASSUME NEW p, SetUp(p), Bare(p), ~Covered(p.load) => Ready(p.load), NEW x, Speaks(x),
           NEW link, NEW q, q = Started(p, link)
    PROVE  Screen(q, x)
<1>1. Starts(p, q) /\ SameCall(p, q) /\ q.load = p.load
  BY StartedDoes DEF SetUp
<1>2. SameShow(p, q)
  BY StartedShow DEF Bare
<1>3. Bare(q)
  BY <1>2 DEF Bare, SameShow, Shows, SameScreen, SameDesk
<1>4. /\ ~q.want /\ q.st \in {"none", "opening", "blank"} /\ (q.st = "none" => q.card)
      /\ (~Covered(q.load) => Ready(q.load))
  BY <1>1 DEF SetUp, Starts, SameCall, Blank
<1> QED
  BY <1>3, <1>4, BareScreen

\* A page that is opened.
LEMMA BeginScreen ==
    ASSUME NEW p, SetUp(p), Bare(p), p.load = Uncovered, NEW x, Speaks(x),
           NEW link, NEW q, q = Begin(p, link)
    PROVE  Screen(q, x)
<1>1. CASE case.beside # "load"
  <2>1. q = Started(p, link)
    BY <1>1 DEF Begin
  <2>2. Ready(p.load)
    <3>1. "css" \in Files /\ "app" \in Files
      BY DEF Files
    <3>2. PICK g : g = [f \in Files |-> "ok"]
      OBVIOUS
    <3>3. PICK l : l = Uncovered
      OBVIOUS
    <3>4. l = [file |-> g, loaded |-> TRUE, time |-> 0, phase |-> "shown", note |-> ""]
      BY <3>2, <3>3 DEF Uncovered
    <3>5. l.file = g
      BY <3>4
    <3>6. p.load.file = g
      BY <3>3, <3>5
    <3>7. g["css"] = "ok" /\ g["app"] = "ok"
      BY <3>1, <3>2
    <3> QED
      BY <3>6, <3>7 DEF Ready
  <2> QED
    BY <2>1, <2>2, StartedScreen
<1>2. CASE case.beside = "load"
  <2>1. PICK l : l = Loading
    OBVIOUS
  <2>2. q = [p EXCEPT !.st = "blank", !.load = l]
    BY <1>2, <2>1 DEF Begin
  <2>3. q.st = "blank" /\ q.load = l /\ q.want = p.want /\ SameShow(p, q)
    BY <2>2 DEF Bare, Wide, Whole, Shows, SameShow, SameScreen, SameDesk
  <2>4. Bare(q)
    BY <2>3 DEF Bare, SameShow, Shows, SameScreen, SameDesk
  <2>5. Covered(l)
    BY <2>1 DEF Covered, Loading
  <2>6. ~q.want
    BY <2>3 DEF SetUp, Blank
  <2> QED
    BY <2>3, <2>4, <2>5, <2>6, BareScreen
<1> QED
  BY <1>1, <1>2

\* The page before anything was stored.
LEMMA FreshIsBare == Bare(Fresh) /\ ~Fresh.named
<1>1. PICK k : k = [r \in Rooms |-> {}]
  OBVIOUS
<1>2. PICK n : n = NoApp
  OBVIOUS
<1>3. PICK c : c = NoCall
  OBVIOUS
<1>4. PICK l : l = Uncovered
  OBVIOUS
<1>5. PICK t : t = InFront
  OBVIOUS
<1>6. PICK f : f = Fresh
  OBVIOUS
<1>7. f = [st |-> "none", cred |-> None, named |-> FALSE, adm |-> FALSE,
          want |-> FALSE, rec |-> FALSE, timer |-> FALSE, tries |-> 0, last |-> None,
          token |-> None, probing |-> "null", usingR |-> FALSE, fallback |-> None,
          pend |-> "none", present |-> FALSE,
          card |-> FALSE, waiting |-> FALSE, call |-> FALSE, dash |-> FALSE, rejoin |-> FALSE,
          sr |-> FALSE, prev |-> None, ss |-> FALSE, silent |-> 0,
          sent |-> FALSE, had |-> FALSE, noted |-> "null", row |-> FALSE, out |-> <<>>,
          remember |-> None, session |-> None, stash |-> None,
          load |-> l, reloads |-> 0, tr |-> t, told |-> "?", msg |-> "",
          bg |-> FALSE, cl |-> c,
          app |-> n, handlers |-> {}, knockers |-> k, toasts |-> {}]
  BY <1>1, <1>2, <1>3, <1>4, <1>5, <1>6 DEF Fresh
<1>8. Wide(f)
  BY <1>7 DEF Wide, Whole
<1>9. k \in Knockings
  BY <1>1 DEF Knockings
<1>10. AppOK(n) /\ ~Hubs(n)
  <2>1. n = [out |-> << >>, wins |-> {}, front |-> TRUE, duty |-> FALSE, up |-> <<>>, down |-> <<>>]
    BY <1>2 DEF NoApp
  <2>2. n.front = TRUE /\ n.front \in BOOLEAN
    BY <2>1
  <2>3. n = Navigated(n)
    BY <1>2, <2>1, <2>2 DEF Navigated
  <2> QED
    BY <2>2, <2>3, NavigatedDoes
<1>11. Bare(f) /\ ~f.named
  BY <1>7, <1>8, <1>9, <1>10 DEF Bare
<1> QED
  BY <1>6, <1>11

\* The page is loaded again, with the window around it as it was.
LEMMA LoadAgainScreen ==
    ASSUME Inv, Screen(s, srv), NEW p, p = s \/ p = [s EXCEPT !.reloads = 0], LoadAgain(p),
           srv' = [srv EXCEPT !.mail = <<>>], UNCHANGED case
    PROVE  ScreenStep
<1>1. Types(s) /\ Wide(s) /\ AppOK(s.app) /\ Speaks(srv)
  BY ScreenStays, ScreenSpeaks DEF Inv, Fine, Screen, DeskOK
<1>2. Types(p) /\ p.app = s.app
  BY <1>1 DEF Types, Whole, Flags, Wide
<1>3. PICK f : f = Fresh
  OBVIOUS
<1>4. PICK a : a = Navigated(p.app)
  OBVIOUS
<1>5. AppOK(a) /\ ~Hubs(a) /\ a.wins = {}
  BY <1>1, <1>2, <1>4, NavigatedDoes DEF AppOK
<1>6. PICK h : h = Stored(p)
  OBVIOUS
<1>7. h = [f EXCEPT !.remember = p.remember, !.session = p.session, !.stash = p.stash,
                    !.reloads = p.reloads, !.bg = FALSE, !.app = a]
  BY <1>3, <1>4, <1>6 DEF Stored
<1>8. Bare(f) /\ f.load = Uncovered
  BY <1>3, FreshIsBare, FreshBegins DEF Begins
<1>9. Bare(h) /\ h.load = Uncovered /\ h.app = a
  BY <1>5, <1>7, <1>8 DEF Bare, Wide, Whole
<1>10. SetUp(h)
  BY <1>2, <1>6, StoredIsSetUp
<1>11. PICK q : q = Begin(h, None)
  OBVIOUS
<1>12. s' = q
  BY <1>6, <1>11 DEF LoadAgain
<1>13. /\ Record(srv') /\ "knocker" \in DOMAIN srv' /\ "queue" \in DOMAIN srv'
       /\ srv'.knocker = srv.knocker /\ srv'.queue = srv.queue /\ srv'.mail = <<>>
  BY <1>1 DEF Speaks, Record
<1>14. Speaks(srv')
  BY <1>1, <1>13, Silence DEF Speaks
<1>15. Screen(s', srv')
  BY <1>9, <1>10, <1>11, <1>12, <1>14, BeginScreen
<1>16. s'.app = a
  <2>1. q = Started(h, None) \/ q = [h EXCEPT !.st = "blank", !.load = Loading]
    BY <1>11 DEF Begin
  <2>2. CASE q = Started(h, None)
    BY <1>9, <1>12, <2>2, StartedShow DEF Bare, SameShow, Shows, SameDesk
  <2>3. CASE q = [h EXCEPT !.st = "blank", !.load = Loading]
    <3>1. PICK l : l = Loading
      OBVIOUS
    <3>2. q = [h EXCEPT !.st = "blank", !.load = l]
      BY <2>3, <3>1
    <3> QED
      BY <1>9, <1>12, <3>2 DEF Bare, Wide
  <2> QED
    BY <2>1, <2>2, <2>3
<1>17. StaysDown(s.app, s'.app)
  BY <1>5, <1>16 DEF StaysDown
<1> QED
  BY <1>15, <1>17, ScreenNext DEF ScreenStep

\* The user does it, the guard, or the button of the guard.
LEMMA ReloadScreen ==
    ASSUME Inv, Screen(s, srv),
           \/ Reload \/ ReloadButton
           \/ Reloads /\ srv' = [srv EXCEPT !.mail = <<>>] /\ UNCHANGED case
    PROVE  ScreenStep
<1>1. PICK p : p = [s EXCEPT !.reloads = 0]
  OBVIOUS
<1>2. /\ LoadAgain(s) \/ LoadAgain(p)
      /\ srv' = [srv EXCEPT !.mail = <<>>] /\ UNCHANGED case
  BY <1>1 DEF Reload, ReloadButton, Reloads, LoadAgain
<1> QED
  BY <1>1, <1>2, LoadAgainScreen

\* The guard goes on, and shows no page that is not ready.
LEMMA LoadScreen ==
    ASSUME Inv, Screen(s, srv), UNCHANGED <<srv, case>>, NEW l, ~Covered(l) => Ready(l),
           NEW n, s' = [s EXCEPT !.load = l] \/ s' = [s EXCEPT !.load = l, !.reloads = n]
    PROVE  ScreenStep
<1>1. Wide(s) /\ AppOK(s.app)
  BY ScreenStays DEF Screen, DeskOK
<1>2. PICK q : q = s'
  OBVIOUS
<1>3. /\ SameShow(s, q) /\ SameCall(s, q) /\ q.card = s.card /\ q.st = s.st /\ q.load = l
      /\ q.probing = s.probing
  BY <1>1, <1>2 DEF Wide, Whole, Shows, SameShow, SameScreen, SameDesk, SameCall
<1>4. Stage(q)
  BY <1>3 DEF Screen, Stage, SameShow, Shows, SameScreen, SameCall
<1>5. RowOK(q, srv)
  BY <1>3 DEF Screen, RowOK, SameShow, Shows, SameDesk, SameCall
<1>6. DeskOK(q, srv)
  BY <1>3 DEF Screen, DeskOK, SameShow, Shows, SameDesk, SameScreen, SameCall
<1>7. Screen(s', srv')
  BY <1>2, <1>3, <1>4, <1>5, <1>6 DEF Screen, SameShow, Shows
<1>8. StaysDown(s.app, s'.app)
  BY <1>1, <1>2, <1>3, StaysSame DEF SameShow, Shows, SameDesk
<1> QED
  BY <1>7, <1>8, ScreenNext DEF ScreenStep

\* step() shows a page that is ready.
LEMMA StepShows ==
    ASSUME NEW l, LoadOK(l), ~Covered(l) => Ready(l), NEW n, NEW storage, NEW a, a = Step(l, n, storage)
    PROVE  ~Covered(a.load) => Ready(a.load)
<1>1. PICK r : r = GetReloads(n, storage)
  OBVIOUS
<1>2. PICK d : d = Decide(l, r)
  OBVIOUS
<1>3. d = "show" => Ready(l)
  BY <1>2 DEF Decide
<1>4. CASE l.phase # "loading"
  BY <1>4 DEF Step
<1>5. CASE l.phase = "loading"
  <2>2. CASE d = "show"
    <3>1. a.load = [l EXCEPT !.phase = "shown"]
      BY <1>1, <1>2, <1>5, <2>2 DEF Step
    <3> QED
      BY <1>3, <2>2, <3>1 DEF LoadOK, Ready
  <2>3. ASSUME NEW k, NEW note, a.load = [l EXCEPT !.phase = k, !.note = note], k # "shown"
        PROVE  Covered(a.load)
    BY <2>3 DEF LoadOK, Covered
  <2>4. CASE d = "reload"
    <3>1. a.load = [l EXCEPT !.phase = "reloading", !.note = "retrying"]
      BY <1>1, <1>2, <1>5, <2>4 DEF Step
    <3> QED
      BY <2>3, <3>1
  <2>5. CASE d = "fail"
    <3>1. a.load = [l EXCEPT !.phase = "failed", !.note = "button"]
      BY <1>1, <1>2, <1>5, <2>5 DEF Step
    <3> QED
      BY <2>3, <3>1
  <2>6. CASE d \notin {"show", "reload", "fail"}
    <3>1. PICK note : note = CASE l.time = 2 -> "button" [] l.time = 1 -> "slow" [] OTHER -> l.note
      OBVIOUS
    <3>2. a.load = [l EXCEPT !.note = note]
      BY <1>1, <1>2, <1>5, <2>6, <3>1 DEF Step
    <3> QED
      BY <1>5, <3>2 DEF LoadOK, Covered
  <2> QED
    BY <2>2, <2>4, <2>5, <2>6
<1> QED
  BY <1>4, <1>5

\* Nor does a step of the guard of the load, as long as a page uncovered is ready.
LEMMA GuardedScreen ==
    ASSUME Inv, Screen(s, srv), UNCHANGED <<srv, case>>, NEW l, LoadOK(l), ~Covered(l) => Ready(l), Guarded(l)
    PROVE  ScreenStep
<1>1. PICK a : a = Step(l, s.reloads, case.storage)
  OBVIOUS
<1>2. PICK k : k = a.load
  OBVIOUS
<1>3. PICK n : n = a.reloads
  OBVIOUS
<1>4. s' = [s EXCEPT !.load = k, !.reloads = n]
  BY <1>1, <1>2, <1>3 DEF Guarded
<1>5. ~Covered(k) => Ready(k)
  BY <1>1, <1>2, StepShows
<1> QED
  BY <1>4, <1>5, LoadScreen

\* The window's "load" event, the timer of the guard, and its reload.
LEMMA GuardScreen ==
    ASSUME Inv, Screen(s, srv), Guard PROVE ScreenStep
<1>1. LoadOK(s.load) /\ (~Covered(s.load) => Ready(s.load))
  BY DEF Inv, Fine, Cover, Screen, Stage
<1>2. CASE WindowLoads /\ UNCHANGED <<srv, case, old, used>>
  <2>1. PICK l : l = [s.load EXCEPT !.loaded = TRUE]
    OBVIOUS
  <2>2. Guarded(l)
    BY <1>2, <2>1 DEF WindowLoads
  <2>3. LoadOK(l) /\ (~Covered(l) => Ready(l))
    BY <1>1, <2>1 DEF LoadOK, ScriptRan, Covered, Ready
  <2> QED
    BY <1>2, <2>2, <2>3, GuardedScreen
<1>3. CASE GuardStep /\ UNCHANGED <<srv, case, old, used>>
  <2>1. PICK t : Guarded([s.load EXCEPT !.time = t])
    BY <1>3 DEF GuardStep
  <2>2. PICK l : l = [s.load EXCEPT !.time = t]
    OBVIOUS
  <2>3. Guarded(l)
    BY <2>1, <2>2
  <2>4. LoadOK(l) /\ (~Covered(l) => Ready(l))
    BY <1>1, <2>2 DEF LoadOK, ScriptRan, Covered, Ready
  <2> QED
    BY <1>3, <2>3, <2>4, GuardedScreen
<1>4. CASE Reloads /\ srv' = [srv EXCEPT !.mail = <<>>] /\ UNCHANGED <<case, old, used>>
  BY <1>4, ReloadScreen
<1> QED
  BY <1>2, <1>3, <1>4 DEF Guard

\* A file of the page has arrived, or has not: with its script, the page begins.
LEMMA FileArrivesScreen ==
    ASSUME Inv, Screen(s, srv), NEW f \in Files, NEW ok \in BOOLEAN, FileArrives(f, ok) PROVE ScreenStep
<1>1. /\ Fine(s, srv, old) /\ Types(s) /\ Wide(s) /\ Whole(s) /\ Room(s, srv) /\ LoadOK(s.load)
      /\ s.out = <<>> /\ AppOK(s.app) /\ (~Covered(s.load) => Ready(s.load))
  BY ScreenStays DEF Inv, Fine, Types, Cover, Screen, DeskOK, Stage
<1>2. PICK how \in {"ok", "bad"} : how = IF ok THEN "ok" ELSE "bad"
  OBVIOUS
<1>3. PICK l : l = [s.load EXCEPT !.file[f] = how]
  OBVIOUS
<1>4. PICK p : p = [s EXCEPT !.load = l]
  OBVIOUS
<1>5. /\ s.load.file[f] = "" /\ UNCHANGED <<srv, case>>
      /\ s' = IF f = "app" /\ ok THEN Started([p EXCEPT !.st = "none"], None) ELSE p
  BY <1>2, <1>3, <1>4 DEF FileArrives
<1>6. /\ "file" \in DOMAIN l /\ "phase" \in DOMAIN l /\ DOMAIN l.file = Files
      /\ l.phase = s.load.phase /\ l.file[f] = how
      /\ \A e \in Files : e # f => l.file[e] = s.load.file[e]
  BY <1>1, <1>3 DEF LoadOK
<1>7. "app" \in Files /\ "css" \in Files
  BY DEF Files
<1>8. ~Covered(l) => Ready(l)
  BY <1>1, <1>5, <1>6, <1>7 DEF Covered, Ready
<1>9. CASE ~(f = "app" /\ ok)
  <2>1. s' = [s EXCEPT !.load = l]
    BY <1>4, <1>5, <1>9
  <2> QED
    BY <1>5, <1>8, <2>1, LoadScreen
<1>10. CASE f = "app" /\ ok
  <2>1. PICK h : h = [p EXCEPT !.st = "none"]
    OBVIOUS
  <2>2. PICK q : q = Started(h, None)
    OBVIOUS
  <2>3. s' = q
    BY <1>5, <1>10, <2>1, <2>2
  <2>4. ScriptRan(l) /\ LoadOK(l)
    BY <1>2, <1>6, <1>10 DEF ScriptRan, LoadOK
  <2>5. ~ScriptRan(s.load) /\ s.st = "blank" /\ Blank(s) /\ Covered(s.load)
    BY <1>1, <1>5, <1>10 DEF ScriptRan, Fine, Cover, LoadOK
  <2>6. ~s.ss /\ ~s.sr /\ ~s.timer
    BY <1>1, <2>5 DEF Fine, Course
  <2>7. /\ Whole(h) /\ SameTokens(s, h) /\ SameLogin(s, h) /\ SameCall(s, h) /\ SameCard(s, h)
        /\ h.st = "none" /\ h.cred = s.cred /\ h.load = l /\ h.out = <<>> /\ SameShow(s, h)
    BY <1>1, <1>4, <2>1 DEF Wide, Whole, SameTokens, SameLogin, SameCall, SameCard, Shows, SameShow,
       SameScreen, SameDesk
  <2>8. Flags(h)
    BY <1>1, <2>7 DEF Types, Flags, SameTokens, SameLogin, SameCall, SameCard
  <2>9. Blank(h)
    BY <2>5, <2>7 DEF Blank, SameTokens, SameLogin, SameCall, SameCard
  <2>10. SetUp(h) /\ h.remember = s.remember /\ h.session = s.session
    BY <1>1, <2>4, <2>5, <2>6, <2>7, <2>8, <2>9 DEF SetUp, Types, SameTokens, SameCall
  <2>11. Starts(h, q) /\ SameCall(h, q) /\ q.load = l
    BY <2>2, <2>7, StartedDoes
  <2>12. SameShow(h, q)
    BY <2>2, <2>7, StartedShow DEF SameShow, Shows
  <2>13. Stage(q)
    BY <1>8, <2>5, <2>6, <2>7, <2>11, <2>12 DEF Screen, Stage, SameShow, Shows, SameScreen, SameCall,
       Starts, Blank
  <2>14. RowOK(q, srv)
    BY <2>5, <2>7, <2>11, <2>12 DEF Screen, RowOK, SameShow, Shows, SameDesk, SameCall, Starts, Blank
  <2>15. DeskOK(q, srv)
    BY <2>5, <2>7, <2>11, <2>12 DEF Screen, DeskOK, SameShow, Shows, SameDesk, SameScreen, SameCall,
       Starts, Blank
  <2>16. Screen(s', srv')
    BY <1>5, <2>3, <2>12, <2>13, <2>14, <2>15 DEF Screen, SameShow, Shows
  <2>17. StaysDown(s.app, s'.app)
    BY <1>1, <2>3, <2>7, <2>12, StaysSame DEF SameShow, Shows, SameDesk
  <2> QED
    BY <1>5, <2>16, <2>17, ScreenNext DEF ScreenStep
<1> QED
  BY <1>9, <1>10

\* As the page is opened.
LEMMA InitScreen ==
    ASSUME Init PROVE Screen(s, srv)
<1>1. case \in Cases /\ CaseOK(case) /\ Inv
  BY PageAssumption, InitInv DEF Init
<1>2. PICK V : V = {t \in Tok : case.kinds[t] # ""}
  OBVIOUS
<1>3. PICK k : k = [r \in Rooms |-> {}]
  OBVIOUS
<1>4. srv = [valid |-> V, lapsed |-> {}, kind |-> case.kinds,
             knocker |-> FALSE, mail |-> <<>>, away |-> 0, others |-> {}, hist |-> 0, queue |-> k]
  BY <1>2, <1>3 DEF Init
<1>5. /\ Record(srv) /\ "knocker" \in DOMAIN srv /\ "queue" \in DOMAIN srv
      /\ srv.mail = <<>> /\ srv.knocker = FALSE /\ srv.queue = k
  BY <1>4 DEF Record
<1>6. Speaks(srv)
  BY <1>3, <1>5, Silence DEF Speaks, Knockings
<1>7. PICK remember \in Someone : remember = case.remember
  BY <1>1 DEF CaseOK, Someone
<1>8. PICK session \in Someone : session = case.session
  BY <1>1 DEF CaseOK, Someone
<1>9. PICK f : f = Fresh
  OBVIOUS
<1>10. PICK p : p = [f EXCEPT !.remember = remember, !.session = session]
  OBVIOUS
<1>11. s = Begin(p, case.link)
  BY <1>7, <1>8, <1>9, <1>10 DEF Init
<1>12. Begins(f) /\ f.stash = None /\ Bare(f)
  BY <1>9, FreshBegins, FreshIsBare
<1>13. Bare(p)
  BY <1>10, <1>12 DEF Bare, Wide, Whole
<1>14. Begins(p) /\ p.remember = remember /\ p.session = session /\ p.stash = None
  BY <1>10, <1>12 DEF Begins, Whole
<1>15. SetUp(p) /\ p.load = Uncovered
  BY <1>14, BeginsIsSetUp DEF Someone, Begins
<1> QED
  BY <1>6, <1>11, <1>13, <1>15, BeginScreen

\* A page that shows the same, and is somewhere else.
LEMMA MovedScreen ==
    ASSUME NEW p, NEW x, Screen(p, x), p.st # "away", NEW q, Shows(p, q), Stage(q), q.st # "in",
           p.want => q.want \/ ~p.dash,
           q.row /\ q.st # "away" => x.knocker \/ (q.st = "closing" /\ ~q.want /\ ~q.card)
    PROVE  Screen(q, x) /\ StaysDown(p.app, q.app)
<1>1. RowOK(q, x)
  BY DEF Screen, RowOK, Shows, SameDesk
<1>2. DeskOK(q, x)
  BY DEF Screen, DeskOK, Shows, SameDesk, SameScreen
<1>3. StaysDown(p.app, q.app)
  BY StaysSame DEF Screen, DeskOK, Shows, SameDesk
<1> QED
  BY <1>1, <1>2, <1>3 DEF Screen, Shows

\* The card is back: nothing else is shown, and nobody is told of.
LEMMA OffScreen ==
    ASSUME NEW p, NEW x, Wide(p), AppOK(p.app), p.handlers \subseteq Keys, p.knockers \in Knockings,
           Speaks(x), ~Hubs(p.app), ~p.want, p.waiting = FALSE,
           p.st \notin {"asked", "lobby", "in"}, ~Covered(p.load) => Ready(p.load),
           NEW q, q = SetConnectedOff(p)
    PROVE  Screen(q, x) /\ StaysDown(p.app, q.app)
<1>1. /\ Wide(q) /\ q.call = FALSE /\ q.dash = FALSE /\ q.waiting = p.waiting
      /\ q.row = FALSE /\ q.toasts = {} /\ q.handlers = {} /\ q.knockers = p.knockers
      /\ AppOK(q.app) /\ (Hubs(q.app) <=> Hubs(p.app)) /\ q.app.out = p.app.out /\ q.app.wins = p.app.wins
  BY SetConnectedOffShow
<1>2. SamePlace(p, q) /\ SameCall(p, q) /\ q.card = TRUE
  BY SetConnectedOffDoes DEF Wide
<1>3. Stage(q)
  BY <1>1, <1>2 DEF Stage, SamePlace, SameCall
<1>4. RowOK(q, x)
  BY <1>1, <1>2 DEF RowOK, Speaks, SamePlace
<1>5. DeskOK(q, x)
  BY <1>1 DEF DeskOK, Speaks
<1>6. StaysDown(p.app, q.app)
  BY <1>1, StaysSame
<1> QED
  BY <1>1, <1>3, <1>4, <1>5, <1>6 DEF Screen

\* A connection is gone: it is tried again, or the card is back.
LEMMA GotCloseScreen ==
    ASSUME Inv, Screen(s, srv), UNCHANGED case, NEW p, SameShow(s, p), SameCall(s, p),
           p.load = s.load, p.probing = s.probing, p.card = s.card, p.out = <<>>,
           p.st = "gone" \/ (~s.want /\ p.st \in {"opening", "closing"}),
           s.st # "away", s.waiting => s.want /\ s.last # None, s.row /\ s.want => srv.knocker,
           NEW q, q = GotClose(p), Turn(q)
    PROVE  ScreenStep
<1>1. /\ Wide(p) /\ Whole(p) /\ AppOK(p.app) /\ p.app = s.app /\ p.handlers \subseteq Keys
      /\ p.knockers \in Knockings /\ Speaks(srv)
  BY ScreenSpeaks DEF SameShow, Shows, SameDesk, Wide, Screen, DeskOK
<1>2. (s.want => s.last # None) /\ s.waiting = FALSE
  BY DEF Inv, Fine, Course, Screen, Stage
<1>3. CASE p.want /\ p.last # None
  <2>1. q = ScheduleReconnect(p)
    BY <1>3 DEF GotClose
  <2>2. /\ Whole(q) /\ SameLogin(p, q) /\ SamePlace(p, q) /\ SameCard(p, q) /\ q.out = p.out
        /\ q.want = p.want /\ q.last = p.last /\ q.rec = TRUE /\ q.timer = TRUE
    BY <1>1, <2>1, ScheduleReconnectDoes
  <2>3. SameShow(p, q)
    BY <1>1, <2>1, ScheduleReconnectShow
  <2>4. Shows(s, q) /\ q.named = s.named
    BY <2>3 DEF SameShow, Shows, SameScreen, SameDesk
  <2>5. Stage(q)
    BY <1>2, <1>3, <2>2, <2>4 DEF Screen, Stage, Shows, SameScreen, SamePlace, SameCall, SameCard, SameLogin
  <2>6. q.st = "gone" /\ q.want = s.want /\ s.want /\ q.row = s.row
    BY <1>3, <2>2, <2>4 DEF SamePlace, SameCall, Shows, SameDesk
  <2>7. Screen(q, srv) /\ StaysDown(s.app, q.app)
    BY <2>4, <2>5, <2>6, MovedScreen
  <2> QED
    BY <2>2, <2>7, TurnScreenNone
<1>4. CASE ~(p.want /\ p.last # None)
  <2>1. PICK h : h = StopReconnect(p)
    OBVIOUS
  <2>2. q = SetConnectedOff(h)
    BY <1>4, <2>1 DEF GotClose
  <2>3. SamePlace(p, h) /\ h.want = p.want /\ h.out = p.out /\ SameShow(p, h)
    BY <1>1, <2>1, StopReconnectDoes, StopReconnectShow
  <2>4. ~s.want
    BY <1>2, <1>4 DEF SameCall
  <2>5. ~Hubs(h.app) /\ h.app = s.app
    BY <1>1, <2>3, <2>4 DEF Screen, DeskOK, SameShow, Shows, SameDesk
  <2>6. /\ Wide(h) /\ AppOK(h.app) /\ h.handlers \subseteq Keys /\ h.knockers \in Knockings
        /\ h.waiting = FALSE /\ ~h.want
    BY <1>1, <1>2, <2>3, <2>4 DEF SameShow, Shows, SameScreen, SameDesk, SameCall
  <2>7. h.st \notin {"asked", "lobby", "in"} /\ (~Covered(h.load) => Ready(h.load))
    BY <2>3 DEF SamePlace, Screen, Stage
  <2>8. Screen(q, srv) /\ StaysDown(s.app, q.app)
    BY <1>1, <2>2, <2>5, <2>6, <2>7, OffScreen
  <2>9. q.out = <<>>
    BY <2>2, <2>3, <2>6, SetConnectedOffDoes DEF Wide
  <2> QED
    BY <2>8, <2>9, TurnScreenNone
<1> QED
  BY <1>3, <1>4

\* The connection that there was is no more.
LEMMA GoneScreen ==
    ASSUME Inv, Screen(s, srv), UNCHANGED case,
           s.st # "away", s.waiting => s.want /\ s.last # None, s.row /\ s.want => srv.knocker,
           Turn(Gone(s))
    PROVE  ScreenStep
<1>1. PICK n : n = NoteSentMedia(s)
  OBVIOUS
<1>2. Wide(s) /\ Whole(s) /\ s.out = <<>>
  BY ScreenStays
<1>3. Same(s, n) /\ SameShow(s, n)
  BY <1>1, <1>2, NoteSentMediaDoes, NoteSentMediaShow
<1>4. PICK c : c = EverybodyDeleted(n.cl)
  OBVIOUS
<1>5. PICK h : h = [n EXCEPT !.st = "gone", !.sent = FALSE, !.told = "?", !.cl = c]
  OBVIOUS
<1>6. /\ SameShow(n, h) /\ SameCall(n, h) /\ h.load = n.load /\ h.probing = n.probing /\ h.card = n.card
      /\ h.out = n.out /\ h.st = "gone"
  BY <1>3, <1>5 DEF SameShow, Shows, SameScreen, SameDesk, SameCall, Wide, Whole
<1>7. /\ SameShow(s, h) /\ SameCall(s, h) /\ h.load = s.load /\ h.probing = s.probing /\ h.card = s.card
      /\ h.out = <<>>
  BY <1>2, <1>3, <1>6 DEF SameShow, Shows, SameScreen, SameDesk, SameCall, Same, Alike, SamePlace,
     SameLogin, SameCard
<1>8. PICK q : q = GotClose(h)
  OBVIOUS
<1>9. Turn(q)
  BY <1>1, <1>4, <1>5, <1>8 DEF Gone
<1> QED
  BY <1>6, <1>7, <1>8, <1>9, GotCloseScreen

\* It has been closed,
LEMMA ClosedScreen ==
    ASSUME Inv, Screen(s, srv), Closed PROVE ScreenStep
<1>1. s.st = "closing" /\ Turn(Gone(s)) /\ UNCHANGED case
  BY DEF Closed
<1>2. ~s.waiting /\ (s.row /\ s.want => srv.knocker)
  BY <1>1 DEF Screen, Stage, RowOK
<1> QED
  BY <1>1, <1>2, GoneScreen

\* or lost.
LEMMA LoseScreen ==
    ASSUME Inv, Screen(s, srv), Races = {}, Lose PROVE ScreenStep
<1>1. /\ s.st # "away" /\ Turn(Gone(s)) /\ UNCHANGED case
      /\ s.row => srv.knocker
      /\ s.waiting => s.want /\ s.last # None
  BY DEF Lose, Screen, RowOK
<1> QED
  BY <1>1, GoneScreen

\* The event of an earlier one.
LEMMA OldClosedScreen ==
    ASSUME Inv, Screen(s, srv), OldClosed PROVE ScreenStep
<1>1. PICK q : q = GotClose(s)
  OBVIOUS
<1>2. Turn(q) /\ UNCHANGED case /\ s.st \in {"opening", "closing", "gone"} /\ ~s.want
  BY <1>1 DEF OldClosed, Inv, Fine, Course
<1>3. SameShow(s, s) /\ SameCall(s, s) /\ s.out = <<>>
  BY ScreenStays DEF SameCall
<1>4. ~s.waiting
  BY <1>2 DEF Screen, Stage
<1> QED
  BY <1>1, <1>2, <1>3, <1>4, GotCloseScreen

\* The page tries again, or gives up; the panel does not.
LEMMA ReconnectScreen ==
    ASSUME Inv, Screen(s, srv), UNCHANGED case, NEW p, Same(s, p), SameShow(s, p), p.timer,
           NEW q, q = ReconnectNow(p), Turn(q)
    PROVE  ScreenStep
<1>1. /\ Wide(p) /\ Whole(p) /\ Screen(p, srv) /\ p.out = <<>> /\ Speaks(srv)
      /\ p.app = s.app
  BY ScreenAlike, ScreenStays, ScreenSpeaks DEF SameShow, Shows, SameDesk, Wide, Same, Alike
<1>2. p.st = "gone" /\ p.rec /\ p.want /\ p.last # None
  BY DEF Inv, Fine, Course, Same, Alike, SamePlace, SameCall
<1>3. PICK h : h = [p EXCEPT !.timer = FALSE]
  OBVIOUS
<1>4. /\ SameShow(p, h) /\ Wide(h) /\ Whole(h) /\ SameLogin(p, h) /\ SamePlace(p, h) /\ SameCard(p, h)
      /\ h.want = p.want /\ h.rec = p.rec /\ h.last = p.last /\ h.out = <<>>
  BY <1>1, <1>3 DEF SameShow, Shows, SameScreen, SameDesk, Wide, Whole, SameLogin, SamePlace, SameCard
<1>5. CASE p.tries > MaxTries /\ case.room # "hub"
  <2>1. PICK g : g = [h EXCEPT !.want = FALSE]
    OBVIOUS
  <2>2. PICK f : f = StopReconnect(g)
    OBVIOUS
  <2>3. q = SetConnectedOff(f)
    BY <1>2, <1>3, <1>5, <2>1, <2>2 DEF ReconnectNow
  <2>4. SameShow(h, g) /\ Wide(g) /\ Whole(g) /\ SamePlace(h, g) /\ g.out = h.out /\ g.want = FALSE
    BY <1>4, <2>1 DEF SameShow, Shows, SameScreen, SameDesk, Wide, Whole, SamePlace
  <2>5. SameShow(g, f) /\ SamePlace(g, f) /\ f.out = g.out /\ f.want = g.want
    BY <2>2, <2>4, StopReconnectDoes, StopReconnectShow
  <2>6. SameShow(p, f) /\ SamePlace(p, f) /\ f.out = <<>> /\ f.want = FALSE
    BY <1>4, <2>4, <2>5 DEF SameShow, Shows, SameScreen, SameDesk, SamePlace
  <2>7. ~Hubs(f.app) /\ f.app = s.app
    BY <1>1, <1>5, <2>6 DEF Screen, DeskOK, Stage, SameShow, Shows, SameDesk
  <2>8. /\ Wide(f) /\ AppOK(f.app) /\ f.handlers \subseteq Keys /\ f.knockers \in Knockings
        /\ f.waiting = FALSE /\ f.st = "gone" /\ (~Covered(f.load) => Ready(f.load))
    BY <1>1, <1>2, <2>6 DEF Screen, DeskOK, Stage, SameShow, Shows, SameScreen, SameDesk, SamePlace
  <2>9. Screen(q, srv) /\ StaysDown(s.app, q.app)
    BY <1>1, <2>3, <2>6, <2>7, <2>8, OffScreen
  <2>10. q.out = <<>>
    BY <2>3, <2>6, <2>8, SetConnectedOffDoes DEF Wide
  <2> QED
    BY <2>9, <2>10, TurnScreenNone
<1>6. CASE ~(p.tries > MaxTries /\ case.room # "hub")
  <2>1. q = Connect(h)
    BY <1>2, <1>3, <1>6 DEF ReconnectNow
  <2>2. /\ SameShow(h, q) /\ SameLogin(h, q) /\ SameCall(h, q) /\ SameCard(h, q)
        /\ q.load = h.load /\ q.out = h.out /\ q.st = "opening"
    BY <1>4, <2>1, ConnectDoes, ConnectShow
  <2>3. Shows(p, q) /\ q.named = p.named
    BY <1>4, <2>2 DEF SameShow, Shows, SameScreen, SameDesk
  <2>4. Stage(q)
    BY <1>1, <1>2, <1>4, <2>2, <2>3 DEF Screen, Stage, Shows, SameScreen, SamePlace, SameCall, SameCard, SameLogin
  <2>5. q.want = p.want /\ q.row = p.row
    BY <1>4, <2>2, <2>3 DEF SameCall, Shows, SameDesk
  <2>6. q.row => srv.knocker
    BY <1>1, <1>2, <2>5 DEF Screen, RowOK
  <2>7. Screen(q, srv) /\ StaysDown(p.app, q.app)
    BY <1>1, <1>2, <2>2, <2>3, <2>4, <2>5, <2>6, MovedScreen
  <2> QED
    BY <1>1, <1>4, <2>2, <2>7, TurnScreenNone
<1> QED
  BY <1>5, <1>6

\* When its timer fires,
LEMMA TimerFiresScreen ==
    ASSUME Inv, Screen(s, srv), TimerFires PROVE ScreenStep
<1>1. PICK q : q = ReconnectNow(s)
  OBVIOUS
<1>2. Turn(q) /\ UNCHANGED case /\ s.timer
  BY <1>1 DEF TimerFires
<1>3. Same(s, s) /\ SameShow(s, s)
  BY ScreenStays DEF Same
<1> QED
  BY <1>1, <1>2, <1>3, ReconnectScreen

\* when the network is back,
LEMMA SoonScreen ==
    ASSUME Inv, Screen(s, srv), Soon PROVE ScreenStep
<1>1. PICK p : p = [s EXCEPT !.tries = 0]
  OBVIOUS
<1>2. PICK q : q = ReconnectNow(p)
  OBVIOUS
<1>3. Turn(q) /\ UNCHANGED case /\ s.timer
  BY <1>1, <1>2 DEF Soon
<1>4. Wide(s)
  BY ScreenStays
<1>5. Same(s, p) /\ SameShow(s, p)
  BY <1>1, <1>4 DEF Same, Alike, SameTokens, SameLogin, SamePlace, SameCall, SameCard, SameShow,
     Shows, SameScreen, SameDesk, Wide, Whole
<1>6. p.timer
  BY <1>3, <1>5 DEF Same, Alike, SameCall
<1> QED
  BY <1>2, <1>3, <1>5, <1>6, ReconnectScreen

\* and when it is looked at.
LEMMA ShowScreen ==
    ASSUME Inv, Screen(s, srv), Show PROVE ScreenStep
<1>1. PICK h : h = Shown(s.tr)
  OBVIOUS
<1>2. PICK p : p = [s EXCEPT !.tr = h]
  OBVIOUS
<1>3. PICK q : q = PublishAwayState(p, FALSE)
  OBVIOUS
<1>4. /\ Turn(IF q.rec /\ q.timer THEN ReconnectNow([q EXCEPT !.tries = 0]) ELSE q)
      /\ UNCHANGED case
  BY <1>1, <1>2, <1>3 DEF Show
<1>5. Alike(s, p) /\ SameShow(s, p) /\ p.out = <<>>
  BY <1>2, ScreenStays, CallShow
<1>6. Screen(p, srv) /\ StaysDown(s.app, p.app)
  BY <1>5, ScreenStays, ScreenAlike DEF SameShow, Shows, SameDesk
<1>7. q = p \/ (p.st = "in" /\ q = Ask(p, "data", 0))
  BY <1>3 DEF PublishAwayState
<1>8. "data" \in Plain \cup Minted \cup {"revoke"} /\ p.st = s.st
  BY <1>5 DEF Plain, Alike, SamePlace
<1>9. CASE q.rec /\ q.timer
  <2>1. q.rec = s.rec /\ q.timer = s.timer
    <3>1. CASE q = Ask(p, "data", 0)
      <4>1. Alike(p, q)
        BY <1>5, <3>1, AskDoes DEF Alike
      <4> QED
        BY <1>5, <4>1 DEF Alike, SameCall
    <3> QED
      BY <1>5, <1>7, <3>1 DEF Alike, SameCall
  <2>2. q = p
    BY <1>7, <1>8, <1>9, <2>1 DEF Inv, Fine, Course
  <2>3. PICK g : g = [p EXCEPT !.tries = 0]
    OBVIOUS
  <2>4. Same(p, g) /\ SameShow(p, g)
    BY <1>5, <2>3 DEF Same, Alike, SameTokens, SameLogin, SamePlace, SameCall, SameCard, SameShow,
       Shows, SameScreen, SameDesk, Wide, Whole
  <2>5. Same(s, g) /\ SameShow(s, g)
    BY <1>5, <2>4, ScreenStays, AlikeTwice DEF Same, SameShow, Shows, SameScreen, SameDesk
  <2>6. g.timer
    BY <1>9, <2>1, <2>5 DEF Same, Alike, SameCall
  <2>7. PICK f : f = ReconnectNow(g)
    OBVIOUS
  <2>8. Turn(f)
    BY <1>4, <1>9, <2>2, <2>3, <2>7
  <2> QED
    BY <1>4, <2>5, <2>6, <2>7, <2>8, ReconnectScreen
<1>10. CASE ~(q.rec /\ q.timer)
  BY <1>4, <1>5, <1>6, <1>7, <1>8, <1>10, TurnScreenNone, AskScreen
<1> QED
  BY <1>9, <1>10

\* A page that is somewhere else, and asks for nothing, has its turn.
LEMMA MovedTurn ==
    ASSUME Inv, Screen(s, srv), UNCHANGED case, s.st # "away", NEW q, Turn(q), q.out = <<>>,
           Shows(s, q), Stage(q), q.st # "in", s.want => q.want \/ ~s.dash,
           q.row /\ q.st # "away" => srv.knocker \/ (q.st = "closing" /\ ~q.want /\ ~q.card)
    PROVE  ScreenStep
<1>1. Screen(q, srv) /\ StaysDown(s.app, q.app)
  BY MovedScreen
<1> QED
  BY <1>1, TurnScreenNone

\* The login form.
LEMMA SubmitScreen ==
    ASSUME Inv, Screen(s, srv), NEW present, Submit(present) PROVE ScreenStep
<1>1. PICK p : p = [s EXCEPT !.present = present]
  OBVIOUS
<1>2. PICK q : q = Connect(p)
  OBVIOUS
<1>3. /\ Turn(q) /\ UNCHANGED case /\ s.card /\ s.st \in {"none", "gone", "opening", "closing"}
  BY <1>1, <1>2 DEF Submit
<1>4. Wide(s) /\ Whole(s) /\ s.out = <<>>
  BY ScreenStays
<1>5. Same(s, p) /\ SameShow(s, p) /\ Wide(p) /\ Whole(p)
  BY <1>1, <1>4 DEF Same, Alike, SameTokens, SameLogin, SamePlace, SameCall, SameCard, SameShow,
     Shows, SameScreen, SameDesk, Wide, Whole
<1>6. /\ SameShow(p, q) /\ SameLogin(p, q) /\ SameCall(p, q) /\ SameCard(p, q)
      /\ q.load = p.load /\ q.out = p.out /\ q.st = "opening"
  BY <1>2, <1>5, ConnectDoes, ConnectShow
<1>7. Shows(s, q) /\ q.named = s.named
  BY <1>5, <1>6 DEF SameShow, Shows, SameScreen, SameDesk
<1>8. ~s.want /\ ~s.rec /\ ~s.waiting
  BY <1>3 DEF Inv, Fine, Course, Screen, Stage
<1>9. Stage(q)
  BY <1>3, <1>5, <1>6, <1>7, <1>8 DEF Screen, Stage, Shows, SameScreen, Same, Alike, SamePlace, SameCall,
     SameCard, SameLogin
<1>10. q.row => srv.knocker
  BY <1>3, <1>7 DEF Screen, RowOK, Shows, SameDesk
<1>11. q.out = <<>>
  BY <1>4, <1>5, <1>6 DEF Same
<1> QED
  BY <1>3, <1>6, <1>7, <1>8, <1>9, <1>10, <1>11, MovedTurn

\* The "Rejoin" button.
LEMMA RejoinScreen ==
    ASSUME Inv, Screen(s, srv), NEW present, Rejoin(present) PROVE ScreenStep
<1>1. PICK p : p = [s EXCEPT !.present = present, !.want = TRUE, !.rec = TRUE]
  OBVIOUS
<1>2. PICK g : g = SetConnectedOn(p)
  OBVIOUS
<1>3. PICK q : q = Connect(g)
  OBVIOUS
<1>4. Turn(q) /\ UNCHANGED case /\ s.card /\ s.st = "gone"
  BY <1>1, <1>2, <1>3 DEF Rejoin
<1>5. Wide(s) /\ Whole(s) /\ s.out = <<>>
  BY ScreenStays
<1>6. /\ SameShow(s, p) /\ Wide(p) /\ Whole(p) /\ SameLogin(s, p) /\ SamePlace(s, p)
      /\ p.want = TRUE /\ p.rec = TRUE /\ p.out = <<>>
  BY <1>1, <1>5 DEF SameLogin, SamePlace, SameShow, Shows, SameScreen, SameDesk, Wide, Whole
<1>7. /\ Wide(g) /\ Whole(g) /\ g.call = TRUE /\ g.dash = p.dash /\ g.waiting = p.waiting
      /\ g.named = p.named /\ SameDesk(p, g) /\ SameLogin(p, g) /\ SamePlace(p, g) /\ SameCall(p, g)
      /\ g.out = p.out
  BY <1>2, <1>6, SetConnectedOnShow, SetConnectedOnDoes
<1>8. /\ SameShow(g, q) /\ SameLogin(g, q) /\ SameCall(g, q)
      /\ q.load = g.load /\ q.out = g.out /\ q.st = "opening"
  BY <1>3, <1>7, ConnectDoes, ConnectShow
<1>9. ~s.want /\ s.waiting = FALSE
  BY <1>4 DEF Inv, Fine, Course, Screen, Stage
<1>10. /\ Wide(q) /\ SameDesk(s, q) /\ q.call = TRUE /\ q.waiting = FALSE /\ q.dash = s.dash
       /\ q.want = TRUE /\ q.rec = TRUE /\ q.load = s.load /\ q.out = <<>>
  BY <1>6, <1>7, <1>8, <1>9 DEF SameShow, Shows, SameScreen, SameDesk, SamePlace, SameCall
<1>11. Stage(q)
  BY <1>8, <1>10 DEF Screen, Stage
<1>12. RowOK(q, srv)
  BY <1>4, <1>8, <1>10 DEF Screen, RowOK, SameDesk
<1>13. DeskOK(q, srv)
  BY <1>4, <1>9, <1>10 DEF Screen, DeskOK, SameDesk
<1>14. StaysDown(s.app, q.app)
  BY <1>10, StaysSame DEF Screen, DeskOK, SameDesk
<1> QED
  BY <1>4, <1>10, <1>11, <1>12, <1>13, <1>14, TurnScreenNone DEF Screen

\* The red button.
LEMMA HangUpScreen ==
    ASSUME Inv, Screen(s, srv), Races = {}, HangUp PROVE ScreenStep
<1>1. PICK p : p = Over(s)
  OBVIOUS
<1>2. PICK q : q = Close(p)
  OBVIOUS
<1>3. /\ Turn(q) /\ UNCHANGED case /\ s.call /\ ~s.waiting /\ s.st # "gone" /\ case.room # "hub"
  BY <1>1, <1>2 DEF HangUp
<1>4. Wide(s) /\ Whole(s) /\ s.out = <<>>
  BY ScreenStays
<1>5. /\ SameShow(s, p) /\ SamePlace(s, p) /\ SameCard(s, p) /\ p.out = <<>> /\ Whole(p) /\ Wide(p)
      /\ p.want = FALSE /\ p.rec = FALSE /\ p.timer = FALSE
  BY <1>1, <1>4, OverDoes, OverShow DEF SameShow, Shows
<1>6. /\ SameShow(p, q) /\ SameCall(p, q) /\ SameCard(p, q) /\ q.load = p.load /\ q.out = p.out
      /\ q.st = IF p.st \in {"none", "gone", "away"} THEN p.st ELSE "closing"
  BY <1>2, <1>5, CloseDoes, CloseShow
<1>7. s.st \notin {"none", "gone", "blank"}
  BY <1>3 DEF Inv, Fine, Course, Screen, Stage
<1>8. q.st = IF s.st = "away" THEN "away" ELSE "closing"
  BY <1>5, <1>6, <1>7 DEF SamePlace
<1>9. /\ Shows(s, q) /\ q.want = FALSE /\ q.rec = FALSE /\ q.card = s.card /\ q.load = s.load /\ q.out = <<>>
      /\ q.named = s.named
  BY <1>5, <1>6 DEF SameShow, Shows, SameScreen, SameDesk, SamePlace, SameCall, SameCard
<1>10. ~s.dash
  BY <1>3 DEF Screen, Stage
<1>11. Stage(q)
  BY <1>3, <1>8, <1>9 DEF Screen, Stage, Shows, SameScreen
<1>12. RowOK(q, srv)
  BY <1>8, <1>9 DEF Screen, RowOK, Shows, SameDesk, Inv, Fine, Course
<1>13. DeskOK(q, srv)
  BY <1>8, <1>9, <1>10 DEF Screen, DeskOK, Shows, SameDesk
<1>14. StaysDown(s.app, q.app)
  BY <1>9, StaysSame DEF Screen, DeskOK, Shows, SameDesk
<1> QED
  BY <1>3, <1>9, <1>11, <1>12, <1>13, <1>14, TurnScreenNone DEF Screen, Shows

\* A token is revoked, or is not: nothing is shown of it.
LEMMA RevokeShow ==
    ASSUME NEW p, Wide(p), NEW t, NEW q, q = Revoke(p, t)
    PROVE  SameShow(p, q) /\ (q.out = p.out \/ \E r : r.req = "revoke" /\ Adds(p.out, r, q.out))
<1>1. CASE q = p
  BY <1>1 DEF SameShow, Shows, SameScreen, SameDesk
<1>2. CASE q # p
  <2>1. PICK h : h = Ask(p, "revoke", t)
    OBVIOUS
  <2>2. q = [h EXCEPT !.silent = @ + 1]
    BY <1>2, <2>1 DEF Revoke
  <2>3. SameShow(p, h) /\ \E r : r.req = "revoke" /\ Adds(p.out, r, h.out)
    BY <2>1, AskShow, AskDoes DEF Wide
  <2>4. SameShow(h, q) /\ q.out = h.out
    BY <2>2, <2>3 DEF SameShow, Shows, SameScreen, SameDesk, Wide, Whole
  <2> QED
    BY <2>3, <2>4 DEF SameShow, Shows, SameScreen, SameDesk
<1> QED
  BY <1>1, <1>2

\* operatorLogout().
LEMMA LogoutScreen ==
    ASSUME Inv, Screen(s, srv), Races = {}, Logout PROVE ScreenStep
<1>1. PICK g : g = Revoke(s, Remember(s))
  OBVIOUS
<1>2. PICK h : h = [g EXCEPT !.session = None, !.remember = None, !.last = None, !.usingR = FALSE, !.token = None]
  OBVIOUS
<1>3. PICK p : p = Over(h)
  OBVIOUS
<1>4. PICK q : q = Close(p)
  OBVIOUS
<1>5. Turn(q) /\ UNCHANGED case /\ s.st = "in" /\ case.beside # "desk"
  BY <1>1, <1>2, <1>3, <1>4 DEF Logout
<1>6. Wide(s) /\ Whole(s) /\ s.out = <<>> /\ Types(s)
  BY ScreenStays DEF Inv, Fine
<1>7. SameShow(s, g) /\ (g.out = <<>> \/ \E r : r.req = "revoke" /\ g.out = <<r>>)
  BY <1>1, <1>6, RevokeShow DEF Adds
<1>8. Whole(g) /\ SamePlace(s, g) /\ g.card = s.card
  BY <1>1, <1>6, RevokeDoes DEF Types, SamePlace
<1>9. /\ SameShow(g, h) /\ SamePlace(g, h) /\ h.card = g.card /\ h.out = g.out /\ Whole(h) /\ Wide(h)
  BY <1>2, <1>7, <1>8 DEF SameShow, Shows, SameScreen, SameDesk, SamePlace, Wide, Whole
<1>10. /\ SameShow(h, p) /\ SamePlace(h, p) /\ SameCard(h, p) /\ p.out = h.out /\ Whole(p) /\ Wide(p)
       /\ p.want = FALSE /\ p.rec = FALSE /\ p.timer = FALSE
  BY <1>3, <1>9, OverDoes, OverShow DEF SameShow, Shows
<1>11. /\ SameShow(p, q) /\ SameCall(p, q) /\ SameCard(p, q) /\ q.load = p.load /\ q.out = p.out
       /\ q.st = IF p.st \in {"none", "gone", "away"} THEN p.st ELSE "closing"
  BY <1>4, <1>10, CloseDoes, CloseShow
<1>12. /\ Shows(s, q) /\ q.named = s.named /\ q.st = "closing" /\ q.want = FALSE /\ q.rec = FALSE
       /\ q.card = s.card /\ q.load = s.load /\ q.out = g.out
  BY <1>5, <1>7, <1>8, <1>9, <1>10, <1>11 DEF SameShow, Shows, SameScreen, SameDesk, SamePlace, SameCall, SameCard
<1>13. ~s.waiting /\ ~s.card /\ ~Hubs(s.app)
  BY <1>5 DEF Screen, Stage, DeskOK, Inv, Fine, Course
<1>14. Stage(q)
  BY <1>12, <1>13 DEF Screen, Stage, Shows, SameScreen
<1>15. RowOK(q, srv)
  BY <1>12, <1>13 DEF Screen, RowOK, Shows, SameDesk
<1>16. DeskOK(q, srv)
  BY <1>5, <1>12, <1>13 DEF Screen, DeskOK, Shows, SameDesk
<1>17. StaysDown(s.app, q.app)
  BY <1>12, StaysSame DEF Screen, DeskOK, Shows, SameDesk
<1>18. Screen(q, srv)
  BY <1>12, <1>14, <1>15, <1>16 DEF Screen, Shows
<1>19. CASE g.out = <<>>
  BY <1>5, <1>12, <1>17, <1>18, <1>19, TurnScreenNone
<1>20. CASE \E r : r.req = "revoke" /\ g.out = <<r>>
  BY <1>5, <1>12, <1>17, <1>18, <1>20, TurnScreenOne
<1> QED
  BY <1>7, <1>19, <1>20

\* The name on the card is not that of the token.
LEMMA DropTokenShow ==
    ASSUME NEW p, Wide(p), NEW edited, NEW q, q = DropToken(p, edited)
    PROVE  SameShow(p, q)
<1>1. CASE q = p
  BY <1>1 DEF SameShow, Shows, SameScreen, SameDesk
<1>2. CASE q = [p EXCEPT !.token = None, !.usingR = FALSE, !.probing = "null"]
  BY <1>2 DEF SameShow, Shows, SameScreen, SameDesk, Wide, Whole
<1> QED
  BY <1>1, <1>2 DEF DropToken

\* gotConnected(): the call is shown while the page asks to be let in.
LEMMA OpenedScreen ==
    ASSUME Inv, Screen(s, srv), NEW edited \in BOOLEAN, NEW tick \in BOOLEAN, Opened(edited, tick)
    PROVE  ScreenStep
<1>1. s.st = "opening" /\ UNCHANGED case /\ s.waiting = FALSE
  BY DEF Opened, Screen, Stage
<1>2. Wide(s) /\ Whole(s) /\ s.out = <<>>
  BY ScreenStays
<1>3. s.row => srv.knocker
  BY <1>1 DEF Screen, RowOK
<1>4. CASE s.rec /\ s.last # None
  <2>1. PICK q : q = RejoinAfterReconnect(s)
    OBVIOUS
  <2>2. Turn(q)
    BY <1>4, <2>1 DEF Opened
  <2>3. /\ SameCard(s, q) /\ q.load = s.load /\ q.out = s.out /\ q.st = "asked"
        /\ q.want = s.want /\ q.rec = s.rec /\ q.timer = s.timer /\ Shows(s, q) /\ q.named = TRUE
    BY <1>2, <2>1, RejoinDoes, RejoinShow
  <2>4. s.want
    BY <1>4 DEF Inv, Fine, Course
  <2>5. Stage(q)
    BY <1>1, <1>4, <2>3, <2>4 DEF Screen, Stage, Shows, SameScreen
  <2>6. q.row => srv.knocker
    BY <1>3, <2>3 DEF Shows, SameDesk
  <2> QED
    BY <1>1, <1>2, <2>2, <2>3, <2>5, <2>6, MovedTurn
<1>5. CASE ~(s.rec /\ s.last # None)
  <2>1. PICK g : g = SetConnectedOn(s)
    OBVIOUS
  <2>2. PICK d : d = DropToken(g, edited)
    OBVIOUS
  <2>3. PICK q : q = JoinWith(d, tick)
    OBVIOUS
  <2>4. Turn(q)
    BY <1>5, <2>1, <2>2, <2>3 DEF Opened, Join
  <2>5. /\ Wide(g) /\ Whole(g) /\ g.call = TRUE /\ g.dash = s.dash /\ g.waiting = s.waiting
        /\ SameDesk(s, g) /\ SamePlace(s, g) /\ SameCall(s, g) /\ g.out = s.out
    BY <1>2, <2>1, SetConnectedOnShow, SetConnectedOnDoes
  <2>6. SameShow(g, d)
    BY <2>2, <2>5, DropTokenShow
  <2>7. d = g \/ d = [g EXCEPT !.token = None, !.usingR = FALSE, !.probing = "null"]
    BY <2>2 DEF DropToken
  <2>8. /\ Whole(d) /\ SamePlace(g, d) /\ SameCall(g, d) /\ d.out = g.out
    BY <2>5, <2>7, DropTokenDoes
  <2>9. Shows(d, q) /\ (case.room = "hub" => q.named)
    BY <2>3, <2>6, JoinWithShow DEF SameShow, Shows
  <2>10. SameCall(d, q) /\ q.load = d.load /\ q.out = d.out /\ q.st = "asked"
    BY <2>3, <2>8, JoinWithDoes
  <2>11. /\ Wide(q) /\ SameDesk(s, q) /\ q.call = TRUE /\ q.waiting = FALSE /\ q.dash = s.dash
         /\ q.want = s.want /\ q.load = s.load /\ q.out = <<>>
    BY <1>1, <1>2, <2>5, <2>6, <2>8, <2>9, <2>10 DEF SameShow, Shows, SameScreen, SameDesk, SamePlace, SameCall
  <2>12. ~s.want
    BY <1>1, <1>5 DEF Inv, Fine, Course, Screen, Stage
  <2>13. Stage(q)
    BY <2>9, <2>10, <2>11, <2>12 DEF Screen, Stage
  <2>14. RowOK(q, srv)
    BY <1>3, <2>10, <2>11 DEF Screen, RowOK, SameDesk
  <2>15. DeskOK(q, srv)
    BY <1>1, <2>11, <2>12 DEF Screen, DeskOK, SameDesk
  <2>16. StaysDown(s.app, q.app)
    BY <2>11, StaysSame DEF Screen, DeskOK, SameDesk
  <2> QED
    BY <1>1, <2>4, <2>11, <2>13, <2>14, <2>15, <2>16, TurnScreenNone DEF Screen
<1> QED
  BY <1>4, <1>5

\* A page that shows something else of itself, and nothing else of the others.
LEMMA ChangedTurn ==
    ASSUME Inv, Screen(s, srv), UNCHANGED case, s.st # "away", NEW q, Turn(q), q.out = <<>>,
           Wide(q), Stage(q), SameDesk(s, q), q.st # "in", Hubs(s.app) => q.dash /\ q.want,
           q.row /\ q.st # "away" => srv.knocker \/ (q.st = "closing" /\ ~q.want /\ ~q.card)
    PROVE  ScreenStep
<1>1. RowOK(q, srv)
  BY DEF Screen, RowOK, SameDesk
<1>2. DeskOK(q, srv)
  BY DEF Screen, DeskOK, SameDesk
<1>3. StaysDown(s.app, q.app)
  BY StaysSame DEF Screen, DeskOK, SameDesk
<1> QED
  BY <1>1, <1>2, <1>3, TurnScreenNone DEF Screen

\* The panel of an application is let in, or refused: then the application would
\* still stand for it (the race "duty").
LEMMA OffDuty ==
    ASSUME Inv, Screen(s, srv), Races = {}, s.st = "asked", NEW v, v \in Verdicts, v # "join",
           v = "refused" => ~(s.dash /\ case.beside = "desk")
    PROVE  ~Hubs(s.app)
<1>1. SUFFICES ASSUME Hubs(s.app) PROVE FALSE
  OBVIOUS
<1>2. s.dash /\ case.beside = "desk" /\ case.room = "hub"
  BY <1>1 DEF Screen, Stage, DeskOK
<1>3. ~s.adm /\ s.named
  BY <1>2 DEF Inv, Fine, Hub, Screen, Stage
<1> QED
  BY <1>2, <1>3 DEF Verdicts

\* The guest waits at the door,
LEMMA KnockingScreen ==
    ASSUME Inv, Screen(s, srv), UNCHANGED case, s.st = "asked", ~s.rec, s.probing # "probing",
           Turn(GotKnocking(s))
    PROVE  ScreenStep
<1>1. PICK h : h = StopReconnect(s)
  OBVIOUS
<1>2. PICK q : q = [h EXCEPT !.st = "lobby", !.card = FALSE, !.waiting = TRUE]
  OBVIOUS
<1>3. Turn(q)
  BY <1>1, <1>2 DEF GotKnocking
<1>4. Wide(s) /\ Whole(s) /\ s.out = <<>>
  BY ScreenStays
<1>5. /\ Whole(h) /\ SameLogin(s, h) /\ SamePlace(s, h) /\ h.out = s.out /\ h.want = s.want
      /\ h.rec = FALSE /\ h.timer = FALSE /\ SameShow(s, h)
  BY <1>1, <1>4, StopReconnectDoes, StopReconnectShow
<1>6. /\ Wide(q) /\ SameDesk(s, q) /\ q.waiting = TRUE /\ q.call = s.call /\ q.dash = s.dash
      /\ q.st = "lobby" /\ q.want = s.want /\ q.rec = FALSE /\ q.timer = FALSE /\ q.card = FALSE
      /\ q.probing = s.probing /\ q.load = s.load /\ q.out = <<>>
  BY <1>2, <1>4, <1>5 DEF Wide, Whole, SameShow, Shows, SameScreen, SameDesk, SameLogin, SamePlace
<1>7. ~s.want
  BY DEF Screen, Stage
<1>8. Stage(q)
  BY <1>6, <1>7 DEF Screen, Stage
<1>9. ~Hubs(s.app) /\ (q.row => srv.knocker)
  BY <1>6, <1>7 DEF Screen, DeskOK, RowOK, SameDesk
<1> QED
  BY <1>3, <1>6, <1>8, <1>9, ChangedTurn

\* is let in,
LEMMA AdmitScreen ==
    ASSUME Inv, Screen(s, srv), Admit PROVE ScreenStep
<1>1. PICK h : h = StopReconnect(s)
  OBVIOUS
<1>2. PICK q : q = [h EXCEPT !.st = "asked", !.adm = TRUE]
  OBVIOUS
<1>3. Turn(q) /\ s.st = "lobby" /\ UNCHANGED case
  BY <1>1, <1>2 DEF Admit, GotAdmitted
<1>4. Wide(s) /\ Whole(s) /\ s.out = <<>>
  BY ScreenStays
<1>5. /\ Whole(h) /\ SameLogin(s, h) /\ SamePlace(s, h) /\ h.out = s.out /\ h.want = s.want
      /\ h.rec = FALSE /\ h.timer = FALSE /\ SameShow(s, h)
  BY <1>1, <1>4, StopReconnectDoes, StopReconnectShow
<1>6. /\ Shows(s, q) /\ q.st = "asked" /\ q.want = s.want /\ q.rec = FALSE /\ q.timer = FALSE
      /\ q.probing = s.probing /\ q.load = s.load /\ q.out = <<>>
  BY <1>2, <1>4, <1>5 DEF Wide, Whole, SameShow, Shows, SameScreen, SameDesk, SameLogin, SamePlace
<1>7. ~s.want /\ case.room # "hub"
  BY <1>3 DEF Screen, Stage, Inv, Fine, Hub
<1>8. Stage(q)
  BY <1>3, <1>6, <1>7 DEF Screen, Stage, Shows, SameScreen
<1>9. q.row => srv.knocker
  BY <1>3, <1>6 DEF Screen, RowOK, Shows, SameDesk
<1> QED
  BY <1>3, <1>6, <1>7, <1>8, <1>9, MovedTurn

\* or turned away.
LEMMA DenyScreen ==
    ASSUME Inv, Screen(s, srv), Deny PROVE ScreenStep
<1>1. PICK h : h = Over(s)
  OBVIOUS
<1>2. PICK p : p = [h EXCEPT !.token = None, !.stash = None, !.waiting = FALSE]
  OBVIOUS
<1>3. PICK q : q = Close(p)
  OBVIOUS
<1>4. Turn(q) /\ s.st = "lobby" /\ UNCHANGED case
  BY <1>1, <1>2, <1>3 DEF Deny, GotDeny
<1>5. Wide(s) /\ Whole(s) /\ s.out = <<>>
  BY ScreenStays
<1>6. /\ SameShow(s, h) /\ SamePlace(s, h) /\ h.out = <<>> /\ Whole(h) /\ Wide(h) /\ h.want = FALSE
  BY <1>1, <1>5, OverDoes, OverShow DEF SameShow, Shows
<1>7. /\ Wide(p) /\ Whole(p) /\ p.waiting = FALSE /\ p.call = h.call /\ p.dash = h.dash /\ SameDesk(h, p)
      /\ SamePlace(h, p) /\ p.want = FALSE /\ p.out = <<>>
  BY <1>2, <1>6 DEF Wide, Whole, SameDesk, SamePlace
<1>8. /\ SameShow(p, q) /\ SameCall(p, q) /\ q.load = p.load /\ q.out = p.out
      /\ q.st = IF p.st \in {"none", "gone", "away"} THEN p.st ELSE "closing"
  BY <1>3, <1>7, CloseDoes, CloseShow
<1>9. /\ Wide(q) /\ SameDesk(s, q) /\ q.st = "closing" /\ q.waiting = FALSE /\ q.call = s.call
      /\ q.dash = s.dash /\ q.want = FALSE /\ q.load = s.load /\ q.out = <<>>
  BY <1>4, <1>6, <1>7, <1>8 DEF SameShow, Shows, SameScreen, SameDesk, SamePlace, SameCall
<1>10. ~Hubs(s.app) /\ (q.row => srv.knocker)
  BY <1>4, <1>9 DEF Screen, Stage, DeskOK, RowOK, SameDesk
<1>11. Stage(q)
  BY <1>9 DEF Screen, Stage
<1> QED
  BY <1>4, <1>9, <1>10, <1>11, ChangedTurn

\* The browser goes to another page.
LEMMA RedirectScreen ==
    ASSUME Inv, Screen(s, srv), UNCHANGED case, s.st = "asked", ~Hubs(s.app), Turn(GotRedirect(s))
    PROVE  ScreenStep
<1>1. PICK h : h = Over(s)
  OBVIOUS
<1>2. PICK q : q = [h EXCEPT !.token = None, !.st = "away"]
  OBVIOUS
<1>3. Turn(q)
  BY <1>1, <1>2 DEF GotRedirect
<1>4. Wide(s) /\ Whole(s) /\ s.out = <<>>
  BY ScreenStays
<1>5. /\ SameShow(s, h) /\ SameLogin(s, h) /\ SamePlace(s, h) /\ h.out = <<>> /\ Whole(h) /\ Wide(h)
      /\ h.want = FALSE
  BY <1>1, <1>4, OverDoes, OverShow DEF SameShow, Shows
<1>6. /\ Shows(s, q) /\ q.st = "away" /\ q.want = FALSE /\ q.load = s.load /\ q.out = <<>>
      /\ q.probing = s.probing
  BY <1>2, <1>5 DEF Wide, Whole, SameShow, Shows, SameScreen, SameDesk, SameLogin, SamePlace
<1>7. Stage(q)
  BY <1>6 DEF Screen, Stage, Shows, SameScreen
<1> QED
  BY <1>3, <1>6, <1>7, ChangedTurn DEF Shows

\* A try that fails, of a page that comes back: it tries again,
LEMMA FailedTryScreen ==
    ASSUME Inv, Screen(s, srv), UNCHANGED case, s.st = "asked", s.rec, Turn(Close(s))
    PROVE  ScreenStep
<1>1. PICK q : q = Close(s)
  OBVIOUS
<1>2. Wide(s) /\ Whole(s) /\ s.out = <<>>
  BY ScreenStays
<1>3. /\ SameShow(s, q) /\ SameCall(s, q) /\ q.load = s.load /\ q.out = <<>> /\ q.st = "closing"
  BY <1>1, <1>2, CloseDoes, CloseShow
<1>4. s.want /\ s.waiting = FALSE
  BY DEF Inv, Fine, Course, Screen, Stage
<1>5. Stage(q) /\ (q.row => srv.knocker)
  BY <1>3, <1>4 DEF Screen, Stage, RowOK, SameShow, Shows, SameScreen, SameDesk, SameCall
<1> QED
  BY <1>1, <1>3, <1>5, MovedTurn DEF SameShow, SameCall

\* with what the device has been remembered by,
LEMMA RetryScreen ==
    ASSUME Inv, Screen(s, srv), UNCHANGED case, s.st = "asked", s.rec, Turn(RetryRemembered(s))
    PROVE  ScreenStep
<1>1. PICK a : a = Alternative(s)
  OBVIOUS
<1>2. PICK k : k = IF s.session = s.last THEN None ELSE s.session
  OBVIOUS
<1>3. PICK p : p = [s EXCEPT !.session = k, !.last = a]
  OBVIOUS
<1>4. PICK q : q = RejoinAfterReconnect(p)
  OBVIOUS
<1>5. Turn(q)
  BY <1>1, <1>2, <1>3, <1>4 DEF RetryRemembered
<1>6. Wide(s) /\ Whole(s) /\ s.out = <<>>
  BY ScreenStays
<1>7. /\ Wide(p) /\ Whole(p) /\ SameShow(s, p) /\ SameLogin(s, p) /\ SamePlace(s, p) /\ SameCard(s, p)
      /\ p.out = <<>> /\ p.want = s.want /\ p.rec = s.rec /\ p.timer = s.timer
  BY <1>3, <1>6 DEF Wide, Whole, SameShow, Shows, SameScreen, SameDesk, SameLogin, SamePlace, SameCard
<1>8. /\ q.load = p.load /\ q.out = p.out /\ q.st = "asked" /\ q.want = p.want /\ q.rec = p.rec
      /\ Shows(p, q) /\ q.named = TRUE
  BY <1>4, <1>7, RejoinDoes, RejoinShow
<1>9. /\ Shows(s, q) /\ q.load = s.load /\ q.out = <<>> /\ q.want = s.want /\ q.rec = s.rec
  BY <1>7, <1>8 DEF SameShow, Shows, SameScreen, SameDesk, SamePlace
<1>10. s.want /\ s.waiting = FALSE
  BY DEF Inv, Fine, Course, Screen, Stage
<1>11. Stage(q) /\ (q.row => srv.knocker)
  BY <1>8, <1>9, <1>10 DEF Screen, Stage, RowOK, Shows, SameScreen, SameDesk
<1> QED
  BY <1>5, <1>8, <1>9, <1>11, MovedTurn

\* or one that is told no, and does not come back.
LEMMA RefusedScreen ==
    ASSUME Inv, Screen(s, srv), UNCHANGED case, s.st = "asked", ~Hubs(s.app), NEW why,
           Turn(Refused(s, why))
    PROVE  ScreenStep
<1>1. PICK h : h = Over(s)
  OBVIOUS
<1>2. PICK p : p = [h EXCEPT !.pend = "none", !.waiting = FALSE]
  OBVIOUS
<1>3. Wide(s) /\ Whole(s) /\ s.out = <<>>
  BY ScreenStays
<1>4. /\ SameShow(s, h) /\ SamePlace(s, h) /\ h.out = <<>> /\ Whole(h) /\ Wide(h) /\ h.want = FALSE
  BY <1>1, <1>3, OverDoes, OverShow DEF SameShow, Shows
<1> DEFINE At(q) == /\ Wide(q) /\ Whole(q) /\ SameDesk(s, q) /\ q.waiting = FALSE /\ q.call = s.call
                    /\ q.dash = s.dash /\ q.want = FALSE /\ q.load = s.load /\ q.out = <<>>
<1>5. At(p) /\ p.st = "asked"
  BY <1>2, <1>4 DEF Wide, Whole, SameShow, Shows, SameScreen, SameDesk, SamePlace
<1>6. s.call = TRUE /\ (s.row => srv.knocker)
  BY DEF Screen, Stage, RowOK
<1>7. CASE p.fallback # None /\ why # "full"
  <2>1. PICK g : g = [p EXCEPT !.token = p.fallback, !.fallback = None, !.usingR = FALSE,
                               !.probing = "null"]
    OBVIOUS
  <2> PICK tick \in BOOLEAN : tick = FALSE
    OBVIOUS
  <2>2. PICK q : q = JoinWith(g, tick)
    OBVIOUS
  <2>3. Turn(q)
    BY <1>1, <1>2, <1>7, <2>1, <2>2, NotEdited DEF Refused, Join
  <2>4. At(g)
    BY <1>5, <2>1 DEF Wide, Whole, SameDesk
  <2>5. /\ Shows(g, q) /\ (case.room = "hub" => q.named) /\ q.st = "asked" /\ SameCall(g, q)
        /\ q.load = g.load /\ q.out = g.out
    <3>1. Shows(g, q) /\ (case.room = "hub" => q.named)
      BY <2>2, <2>4, JoinWithShow
    <3>2. Whole(g)
      BY <2>4
    <3>3. SameCall(g, q) /\ q.load = g.load /\ q.out = g.out /\ q.st = "asked"
      BY <2>2, <3>2, JoinWithDoes
    <3> QED
      BY <3>1, <3>3
  <2>6. /\ Wide(q) /\ SameDesk(s, q) /\ q.waiting = FALSE /\ q.call = s.call
        /\ q.dash = s.dash /\ q.want = FALSE /\ q.load = s.load /\ q.out = <<>>
    BY <2>4, <2>5 DEF Shows, SameScreen, SameDesk, SameCall
  <2>7. Stage(q)
    BY <1>6, <2>5, <2>6 DEF Screen, Stage
  <2> QED
    BY <1>6, <2>3, <2>5, <2>6, <2>7, ChangedTurn DEF SameDesk
<1>8. CASE ~(p.fallback # None /\ why # "full")
  <2>1. PICK r : r = IF case.room = "child" THEN p.remember ELSE None
    OBVIOUS
  <2>2. PICK g : g = IF p.probing = "probing" /\ why = "need-username"
                     THEN [p EXCEPT !.probing = "need-username"]
                     ELSE IF p.usingR
                     THEN [p EXCEPT !.usingR = FALSE, !.token = None, !.probing = "null",
                                    !.remember = r, !.card = TRUE]
                     ELSE [p EXCEPT !.token = None]
    OBVIOUS
  <2>3. PICK q : q = Close(g)
    OBVIOUS
  <2>4. Turn(q)
    <3>1. Refused(s, why) = q
      BY <1>1, <1>2, <1>8, <2>1, <2>2, <2>3 DEF Refused
    <3> QED
      BY <3>1
  <2>5. At(g) /\ g.st = "asked"
    <3>1. CASE g = [p EXCEPT !.probing = "need-username"]
      BY <1>5, <3>1 DEF Wide, Whole, SameDesk
    <3>2. CASE g = [p EXCEPT !.usingR = FALSE, !.token = None, !.probing = "null",
                             !.remember = r, !.card = TRUE]
      BY <1>5, <3>2 DEF Wide, Whole, SameDesk
    <3>3. CASE g = [p EXCEPT !.token = None]
      BY <1>5, <3>3 DEF Wide, Whole, SameDesk
    <3> QED
      BY <2>2, <3>1, <3>2, <3>3
  <2>6. /\ SameShow(g, q) /\ SameCall(g, q) /\ q.load = g.load /\ q.out = g.out /\ q.st = "closing"
    BY <2>3, <2>5, CloseDoes, CloseShow
  <2>7. /\ Wide(q) /\ SameDesk(s, q) /\ q.waiting = FALSE /\ q.call = s.call
        /\ q.dash = s.dash /\ q.want = FALSE /\ q.load = s.load /\ q.out = <<>>
    BY <2>5, <2>6 DEF SameShow, Shows, SameScreen, SameDesk, SameCall
  <2>8. Stage(q)
    BY <1>6, <2>6, <2>7 DEF Screen, Stage
  <2> QED
    BY <1>6, <2>4, <2>6, <2>7, <2>8, ChangedTurn DEF SameDesk
<1> QED
  BY <1>7, <1>8

\* A token that was tried is good.
LEMMA ProbedScreen ==
    ASSUME Inv, Screen(s, srv), UNCHANGED case, s.st = "asked", s.probing = "probing",
           Turn(Close([s EXCEPT !.probing = "success", !.waiting = FALSE]))
    PROVE  ScreenStep
<1>1. PICK p : p = [s EXCEPT !.probing = "success", !.waiting = FALSE]
  OBVIOUS
<1>2. PICK q : q = Close(p)
  OBVIOUS
<1>3. Wide(s) /\ Whole(s) /\ s.out = <<>> /\ Turn(q)
  BY <1>1, <1>2, ScreenStays
<1>4. s.waiting = FALSE
  BY DEF Screen, Stage
<1>5. SameShow(s, p) /\ Wide(p) /\ Whole(p) /\ SamePlace(s, p) /\ SameCall(s, p) /\ p.out = <<>>
  BY <1>1, <1>3, <1>4 DEF SameShow, Shows, SameScreen, SameDesk, Wide, Whole, SamePlace, SameCall
<1>6. /\ SameShow(p, q) /\ SameCall(p, q) /\ q.load = p.load /\ q.out = p.out
      /\ q.st = IF p.st \in {"none", "gone", "away"} THEN p.st ELSE "closing"
  BY <1>2, <1>5, CloseDoes, CloseShow
<1>7. /\ Shows(s, q) /\ q.st = "closing" /\ q.want = s.want /\ q.load = s.load /\ q.out = <<>>
  BY <1>5, <1>6 DEF SameShow, Shows, SameScreen, SameDesk, SamePlace, SameCall
<1>8. Stage(q) /\ (q.row => srv.knocker)
  BY <1>4, <1>7 DEF Screen, Stage, RowOK, Shows, SameScreen, SameDesk
<1> QED
  BY <1>3, <1>7, <1>8, MovedTurn

\* What a page that is let in says, and what the server makes of it: it tells
\* of whoever knocks.
Greets(out) ==
    /\ Queue(out) /\ Len(out) \in 1..3
    /\ Speaks(Served(srv, out)) /\ Served(srv, out).knocker = srv.knocker
    /\ \A row \in BOOLEAN : (row => srv.knocker) => RowTrue(row, Served(srv, out))

\* It asks who is there first.
LEMMA GreetsFirst ==
    ASSUME Inv, Screen(s, srv), srv.mail = <<>>, NEW r, r.req = "roster", NEW w, w = <<r>>
    PROVE  Greets(w) /\ Len(w) = 1
<1>1. PICK e : e = <<>>
  OBVIOUS
<1>2. Queue(e) /\ Len(e) = 0 /\ Adds(e, r, w)
  BY <1>1, Silence DEF Adds
<1>3. Served(srv, w) = Serve(Served(srv, e), r) /\ Queue(w) /\ Len(w) = Len(e) + 1
  BY <1>2, ServedMore
<1>4. Served(srv, e) = srv
  BY <1>1, ServedNone
<1>5. PICK y : y = Serve(srv, r)
  OBVIOUS
<1>6. r.req \in Plain \cup Minted \cup {"revoke"} /\ Speaks(srv)
  BY ScreenSpeaks DEF Plain
<1>7. /\ Speaks(y) /\ (r.req # "admit" => y.knocker = srv.knocker)
      /\ r.req = "roster" /\ srv.mail = <<>> =>
            \A row : (row => srv.knocker) /\ row \in BOOLEAN => RowTrue(row, y)
  BY <1>5, <1>6, ServeSpeaks
<1> QED
  BY <1>2, <1>3, <1>4, <1>5, <1>7 DEF Greets

\* Whatever it says then, it is told the same.
LEMMA GreetsMore ==
    ASSUME NEW out, Greets(out), Len(out) \in 1..2, NEW r, r.req \in {"data"} \cup Minted,
           NEW w, Adds(out, r, w)
    PROVE  Greets(w) /\ Len(w) = Len(out) + 1
<1>1. PICK x : x = Served(srv, out)
  OBVIOUS
<1>2. PICK y : y = Serve(x, r)
  OBVIOUS
<1>3. Served(srv, w) = y /\ Queue(w) /\ Len(w) = Len(out) + 1
  BY <1>1, <1>2, ServedMore DEF Greets
<1>4. r.req \in Plain \cup Minted \cup {"revoke"} /\ r.req # "admit" /\ Speaks(x)
  BY <1>1 DEF Greets, Plain, Minted
<1>5. /\ Speaks(y) /\ y.knocker = x.knocker /\ \A row : RowTrue(row, x) => RowTrue(row, y)
  BY <1>2, <1>4, ServeSpeaks
<1>6. Len(w) \in 1..3
  <2>1. \A n \in 1..2 : n + 1 \in 1..3
    OBVIOUS
  <2>2. Len(out) + 1 \in 1..3
    BY <2>1
  <2> QED
    BY <1>3, <2>2
<1>7. \A row \in BOOLEAN : (row => srv.knocker) => RowTrue(row, y)
  BY <1>1, <1>5 DEF Greets
<1>8. x.knocker = srv.knocker
  BY <1>1 DEF Greets
<1> QED
  BY <1>3, <1>5, <1>6, <1>7, <1>8 DEF Greets

\* What it says of the device shows nothing.
LEMMA MintShow ==
    ASSUME NEW p, Wide(p), NEW q, q = MintRemember(p)
    PROVE  SameShow(p, q) /\ (q.out = p.out \/ Sends(p.out, q.out, "remember"))
<1>1. PICK a : a = Ask(p, "remember", None)
  OBVIOUS
<1>2. PICK v : v = Remember(p)
  OBVIOUS
<1>3. PICK w : w = IF case.room = "child" THEN p.remember ELSE None
  OBVIOUS
<1>4. \/ q = p
      \/ q = [a EXCEPT !.pend = "none", !.sr = TRUE, !.prev = v]
      \/ q = [p EXCEPT !.pend = "none", !.remember = w]
  BY <1>1, <1>2, <1>3 DEF MintRemember
<1>5. SameShow(p, a) /\ Sends(p.out, a.out, "remember")
  BY <1>1, AskShow, AskDoes DEF Wide, Sends
<1>6. CASE q = p
  BY <1>6 DEF SameShow, Shows, SameScreen, SameDesk
<1>7. CASE q = [a EXCEPT !.pend = "none", !.sr = TRUE, !.prev = v]
  <2>1. SameShow(a, q) /\ q.out = a.out
    BY <1>5, <1>7 DEF SameShow, Shows, SameScreen, SameDesk, Wide, Whole
  <2> QED
    BY <1>5, <2>1 DEF SameShow, Shows, SameScreen, SameDesk
<1>8. CASE q = [p EXCEPT !.pend = "none", !.remember = w]
  BY <1>8 DEF SameShow, Shows, SameScreen, SameDesk, Wide, Whole
<1> QED
  BY <1>4, <1>6, <1>7, <1>8

\* A page that has come to its panel.
Entered(p, q) ==
    /\ Wide(q) /\ q.dash = TRUE /\ q.call = p.call /\ q.waiting = p.waiting /\ q.named = p.named
    /\ q.row = p.row /\ q.handlers = p.handlers /\ q.knockers \in Knockings
    /\ q.toasts \subseteq {r \in Rooms : q.knockers[r] # {}}
    /\ AppOK(q.app) /\ (Hubs(q.app) => Hubs(p.app) \/ case.beside = "desk")
    /\ (\A k : Knows(q.app, k) <=> Knows(p.app, k)) /\ StaysDown(p.app, q.app)
    /\ (q.out = p.out \/ Sends(p.out, q.out, "session"))

\* The panel is up, with nobody in it yet; the application is to stand for it.
LEMMA EnterShow ==
    ASSUME NEW p, Wide(p), AppOK(p.app), p.knockers \in Knockings, p.dash \in BOOLEAN,
           p.toasts \subseteq {r \in Rooms : p.knockers[r] # {}},
           NEW q, q = EnterOperatorRoom(HostHub(p))
    PROVE  Entered(p, q)
<1>1. PICK h : h = HostHub(p)
  OBVIOUS
<1>2. PICK b : b = Told(p.app, "hub", Row, {})
  OBVIOUS
<1>3. h = p \/ (case.beside = "desk" /\ h = [p EXCEPT !.app = b])
  BY <1>1, <1>2 DEF HostHub
<1>4. /\ AppOK(b) /\ b.up # p.app.up /\ Hubs(b)
      /\ \A k : Knows(b, k) <=> Knows(p.app, k)
  <2>1. "hub" \in {"hub", "knock", "gone"} /\ Row \in Keys
    BY DEF Keys
  <2> QED
    BY <1>2, <2>1, ToldDoes
<1>5. StaysDown(p.app, p.app) /\ StaysDown(p.app, b)
  BY <1>4, StaysSame DEF StaysDown
<1>6. /\ Wide(h) /\ SameScreen(p, h) /\ h.named = p.named /\ h.row = p.row /\ h.handlers = p.handlers
      /\ h.knockers = p.knockers /\ h.toasts = p.toasts /\ h.out = p.out
      /\ AppOK(h.app) /\ (Hubs(h.app) => Hubs(p.app) \/ case.beside = "desk")
      /\ (\A k : Knows(h.app, k) <=> Knows(p.app, k)) /\ StaysDown(p.app, h.app)
  <2>1. CASE h = p
    BY <1>5, <2>1 DEF SameScreen
  <2>2. CASE case.beside = "desk" /\ h = [p EXCEPT !.app = b]
    <3>1. /\ Wide(h) /\ SameScreen(p, h) /\ h.named = p.named /\ h.row = p.row /\ h.handlers = p.handlers
          /\ h.knockers = p.knockers /\ h.toasts = p.toasts /\ h.out = p.out /\ h.app = b
      BY <2>2 DEF Wide, Whole, SameScreen
    <3> QED
      BY <1>4, <1>5, <2>2, <3>1
  <2> QED
    BY <1>3, <2>1, <2>2
<1>7. PICK e : e = [r \in Rooms |-> {}]
  OBVIOUS
<1>8. e \in Knockings
  BY <1>7 DEF Knockings
<1>9. PICK g : g = [h EXCEPT !.dash = TRUE, !.knockers = e, !.toasts = {}]
  OBVIOUS
<1>10. /\ Wide(g) /\ g.dash = TRUE /\ g.call = h.call /\ g.waiting = h.waiting /\ g.named = h.named
       /\ g.row = h.row /\ g.handlers = h.handlers /\ g.knockers = e /\ g.toasts = {} /\ g.app = h.app
       /\ g.out = h.out
  BY <1>6, <1>9 DEF Wide, Whole
<1>11. PICK a : a = Ask(g, "session", None)
  OBVIOUS
<1>12. SameShow(g, a) /\ Sends(g.out, a.out, "session")
  BY <1>10, <1>11, AskShow, AskDoes DEF Wide, Sends
<1>13. PICK c : c = [a EXCEPT !.ss = TRUE]
  OBVIOUS
<1>14. SameShow(g, c) /\ Sends(g.out, c.out, "session")
  BY <1>12, <1>13 DEF SameShow, Shows, SameScreen, SameDesk, Wide, Whole
<1>15. (h.dash /\ q = h) \/ q = g \/ q = c
  BY <1>1, <1>7, <1>9, <1>11, <1>13 DEF EnterOperatorRoom
<1>16. CASE h.dash /\ q = h
  BY <1>6, <1>16 DEF SameScreen, Entered
<1>17. CASE q = g
  BY <1>6, <1>8, <1>10, <1>17 DEF SameScreen, Entered
<1>18. CASE q = c
  <2>1. /\ Wide(q) /\ q.dash = TRUE /\ q.call = g.call /\ q.waiting = g.waiting /\ q.named = g.named
        /\ q.row = g.row /\ q.handlers = g.handlers /\ q.knockers = e /\ q.toasts = {} /\ q.app = g.app
        /\ Sends(p.out, q.out, "session")
    BY <1>6, <1>10, <1>14, <1>18 DEF SameShow, Shows, SameScreen, SameDesk
  <2> QED
    BY <1>6, <1>8, <1>10, <2>1 DEF SameScreen, Entered
<1> QED
  BY <1>15, <1>16, <1>17, <1>18

\* The room is told whether the page is looked at.
LEMMA PublishShow ==
    ASSUME NEW p, Wide(p), NEW b, NEW q, q = PublishAwayState(p, b)
    PROVE  SameShow(p, q) /\ (q.out = p.out \/ Sends(p.out, q.out, "data"))
<1>1. PICK t : t = IF b THEN 1 ELSE 0
  OBVIOUS
<1>2. q = p \/ q = Ask(p, "data", t)
  BY <1>1 DEF PublishAwayState
<1>3. CASE q = p
  BY <1>3 DEF SameShow, Shows, SameScreen, SameDesk
<1>4. CASE q = Ask(p, "data", t)
  BY <1>4, AskShow, AskDoes DEF Wide, Sends
<1> QED
  BY <1>2, <1>3, <1>4

\* A page that is let in, and has said all it has to, has its turn.
LEMMA InTurn ==
    ASSUME Inv, Screen(s, srv), UNCHANGED case, s.st = "asked", NEW q, Turn(q), Greets(q.out),
           Wide(q), q.st = "in", q.want = TRUE, q.load = s.load, q.call = TRUE, q.waiting = FALSE,
           q.dash \in BOOLEAN, q.dash => case.room = "hub", q.row = s.row, q.handlers = s.handlers,
           q.knockers \in Knockings, q.toasts \subseteq {r \in Rooms : q.knockers[r] # {}},
           AppOK(q.app), \A k : Knows(q.app, k) <=> Knows(s.app, k), StaysDown(s.app, q.app),
           Hubs(q.app) => q.dash /\ case.beside = "desk"
    PROVE  ScreenStep
<1>1. PICK x : x = Served(srv, q.out)
  OBVIOUS
<1>2. Speaks(x) /\ x.knocker = srv.knocker
      /\ \A row \in BOOLEAN : (row => srv.knocker) => RowTrue(row, x)
  BY <1>1 DEF Greets
<1>3. Stage(q)
  BY DEF Screen, Stage
<1>4. s.row \in BOOLEAN /\ (s.row => srv.knocker)
  BY DEF Screen, RowOK
<1>5. RowOK(q, x)
  BY <1>2, <1>4 DEF RowOK, RowTrue, Speaks
<1>6. DeskOK(q, x)
  BY <1>2 DEF Screen, DeskOK, Speaks
<1> QED
  BY <1>1, <1>2, <1>3, <1>5, <1>6, TurnScreen DEF Screen

\* The page is let in: the call or the panel is there.
LEMMA LetInScreen ==
    ASSUME Inv, Screen(s, srv), UNCHANGED case, Races = {}, s.st = "asked", s.probing # "probing",
           Turn(GotJoin(s))
    PROVE  ScreenStep
<1>1. Wide(s) /\ Whole(s) /\ AppOK(s.app)
  BY ScreenStays DEF Screen, DeskOK
<1>2. PICK h : h = StopReconnect(s)
  OBVIOUS
<1>3. PICK no : no = [req |-> "roster", t |-> None]
  OBVIOUS
<1>4. PICK a : a = [h EXCEPT
                      !.st = "in", !.waiting = FALSE, !.token = None, !.usingR = FALSE,
                      !.fallback = None, !.want = TRUE, !.last = s.cred, !.noted = "null",
                      !.present = FALSE, !.out = <<no>>]
  OBVIOUS
<1>5. PICK m : m = MintRemember(a)
  OBVIOUS
<1>6. PICK se : se = ((IF s.rec THEN s.noted ELSE "null") = "yes" \/ s.present)
  OBVIOUS
<1>7. PICK cl : cl = JoinedCall(m.cl, s.rec, srv.others, srv.hist)
  OBVIOUS
<1>8. PICK ms : ms = IF ~s.rec \/ case.beside # "away" THEN ""
                     ELSE IF WasAway(s.tr) THEN "afterAway" ELSE "again"
  OBVIOUS
<1>9. PICK g : g = [m EXCEPT !.sent = se, !.cl = cl, !.msg = ms]
  OBVIOUS
<1>10. PICK b : b = s.tr.hidden
  OBVIOUS
<1>11. GotJoin(s) = IF case.room = "hub" /\ OpHere(m) THEN EnterOperatorRoom(HostHub(m))
                    ELSE PublishAwayState(g, b)
  BY <1>2, <1>3, <1>4, <1>5, <1>6, <1>7, <1>8, <1>9, <1>10 DEF GotJoin
<1>12. SameShow(s, h) /\ SamePlace(s, h) /\ Whole(h)
  BY <1>1, <1>2, StopReconnectDoes, StopReconnectShow
<1>13. /\ Wide(a) /\ Whole(a) /\ a.call = s.call /\ a.dash = s.dash /\ a.waiting = FALSE /\ SameDesk(s, a)
       /\ a.st = "in" /\ a.want = TRUE /\ a.load = s.load /\ a.out = <<no>>
  BY <1>4, <1>12 DEF SameShow, Shows, SameScreen, SameDesk, Wide, Whole, SamePlace
<1>14. /\ SameShow(a, m) /\ SamePlace(a, m) /\ SameCall(a, m) /\ Whole(m)
       /\ (m.out = a.out \/ Sends(a.out, m.out, "remember"))
  BY <1>5, <1>13, MintDoes, MintShow
<1>15. /\ Wide(m) /\ Whole(m) /\ m.call = s.call /\ m.dash = s.dash /\ m.waiting = FALSE /\ SameDesk(s, m)
       /\ m.st = "in" /\ m.want = TRUE /\ m.load = s.load
  BY <1>13, <1>14 DEF SameShow, Shows, SameScreen, SameDesk, SamePlace, SameCall
<1>16. srv.mail = <<>>
  BY DEF Inv, Room, Expects
<1>17. Greets(a.out) /\ Len(a.out) = 1
  BY <1>3, <1>13, <1>16, GreetsFirst
<1>18. Greets(m.out) /\ Len(m.out) \in 1..2
  <2>1. CASE m.out = a.out
    BY <1>17, <2>1
  <2>2. CASE Sends(a.out, m.out, "remember")
    <3>1. PICK r : r.req = "remember" /\ Adds(a.out, r, m.out)
      BY <2>2 DEF Sends
    <3>2. r.req \in {"data"} \cup Minted /\ Len(a.out) \in 1..2
      BY <1>17, <3>1 DEF Minted
    <3>3. Greets(m.out) /\ Len(m.out) = Len(a.out) + 1
      BY <1>17, <3>1, <3>2, GreetsMore
    <3> QED
      BY <1>17, <3>3
  <2> QED
    BY <1>14, <2>1, <2>2
<1>19. s.call = TRUE /\ s.dash \in BOOLEAN /\ (s.dash => case.room = "hub")
  BY DEF Screen, Stage
<1>20. /\ AppOK(m.app) /\ m.knockers \in Knockings /\ m.app = s.app
       /\ m.toasts \subseteq {r \in Rooms : m.knockers[r] # {}}
       /\ (Hubs(m.app) => m.dash /\ case.beside = "desk")
  BY <1>15 DEF Screen, DeskOK, SameDesk
<1>21. CASE case.room = "hub" /\ OpHere(m)
  <2>1. PICK q : q = EnterOperatorRoom(HostHub(m))
    OBVIOUS
  <2>2. Turn(q)
    BY <1>11, <1>21, <2>1
  <2>3. m.dash \in BOOLEAN
    BY <1>15, <1>19
  <2>4. /\ Wide(q) /\ q.dash = TRUE /\ q.call = m.call /\ q.waiting = m.waiting
        /\ q.row = m.row /\ q.handlers = m.handlers /\ q.knockers \in Knockings
        /\ q.toasts \subseteq {r \in Rooms : q.knockers[r] # {}}
        /\ AppOK(q.app) /\ (Hubs(q.app) => Hubs(m.app) \/ case.beside = "desk")
        /\ (\A k : Knows(q.app, k) <=> Knows(m.app, k)) /\ StaysDown(m.app, q.app)
        /\ (q.out = m.out \/ Sends(m.out, q.out, "session"))
    <3>1. Entered(m, q)
      BY <1>15, <1>20, <2>1, <2>3, EnterShow
    <3> QED
      BY <3>1 DEF Entered
  <2>5. SamePlace(m, q) /\ SameCall(m, q)
    BY <1>15, <2>1, EnterDoes DEF Same, Alike
  <2>6. Greets(q.out)
    <3>1. CASE Sends(m.out, q.out, "session")
      <4>1. PICK r : r.req = "session" /\ Adds(m.out, r, q.out)
        BY <3>1 DEF Sends
      <4>2. r.req \in {"data"} \cup Minted
        BY <4>1 DEF Minted
      <4> QED
        BY <1>18, <4>1, <4>2, GreetsMore
    <3> QED
      BY <1>18, <2>4, <3>1
  <2>7. /\ q.st = "in" /\ q.want = TRUE /\ q.load = s.load /\ q.call = TRUE /\ q.waiting = FALSE
        /\ q.row = s.row /\ q.handlers = s.handlers /\ StaysDown(s.app, q.app)
        /\ \A k : Knows(q.app, k) <=> Knows(s.app, k)
    BY <1>15, <1>19, <1>20, <2>4, <2>5 DEF SamePlace, SameCall, SameDesk
  <2>8. Hubs(q.app) => q.dash /\ case.beside = "desk"
    BY <1>20, <2>4
  <2> QED
    BY <1>21, <2>2, <2>4, <2>6, <2>7, <2>8, InTurn
<1>22. CASE ~(case.room = "hub" /\ OpHere(m))
  <2>1. PICK q : q = PublishAwayState(g, b)
    OBVIOUS
  <2>2. Turn(q)
    BY <1>11, <1>22, <2>1
  <2>3. /\ SameShow(m, g) /\ Wide(g) /\ Whole(g) /\ SamePlace(m, g) /\ SameCall(m, g) /\ g.out = m.out
    BY <1>9, <1>15 DEF SameShow, Shows, SameScreen, SameDesk, Wide, Whole, SamePlace, SameCall
  <2>4. SameShow(g, q) /\ (q.out = g.out \/ Sends(g.out, q.out, "data"))
    BY <2>1, <2>3, PublishShow
  <2>5. SamePlace(g, q) /\ SameCall(g, q)
    BY <2>1, <2>3, PublishDoes DEF Alike, SamePlace, SameCall
  <2>6. Greets(q.out)
    <3>1. CASE Sends(m.out, q.out, "data")
      <4>1. PICK r : r.req = "data" /\ Adds(m.out, r, q.out)
        BY <3>1 DEF Sends
      <4> QED
        BY <1>18, <4>1, GreetsMore
    <3> QED
      BY <1>18, <2>3, <2>4, <3>1
  <2>7. /\ Wide(q) /\ q.call = s.call /\ q.dash = s.dash /\ q.waiting = FALSE /\ SameDesk(s, q)
        /\ q.st = "in" /\ q.want = TRUE /\ q.load = s.load
    BY <1>15, <2>3, <2>4, <2>5 DEF SameShow, Shows, SameScreen, SameDesk, SamePlace, SameCall
  <2>8. StaysDown(s.app, q.app)
    BY <1>1, <2>7, StaysSame DEF SameDesk
  <2>9. /\ q.row = s.row /\ q.handlers = s.handlers /\ q.app = s.app /\ q.knockers \in Knockings
        /\ q.toasts \subseteq {r \in Rooms : q.knockers[r] # {}}
        /\ (Hubs(q.app) => q.dash /\ case.beside = "desk")
    BY <1>15, <1>20, <2>7 DEF SameDesk
  <2> QED
    BY <1>1, <1>19, <2>2, <2>6, <2>7, <2>8, <2>9, InTurn
<1> QED
  BY <1>21, <1>22

\* The answer to a join, whatever it is.
LEMMA AnswerScreen ==
    ASSUME Inv, Screen(s, srv), Races = {}, NEW v, Answer(v) PROVE ScreenStep
<1>1. s.st = "asked" /\ v \in Verdicts /\ UNCHANGED case
      /\ v \in {"join", "knock", "full", "refused", "need-username", "redirect"}
  BY DEF Answer, Verdicts
<1>2. CASE v = "join"
  <2>1. Turn(GotJoin(s))
    BY <1>2 DEF Answer
  <2>2. CASE s.probing = "probing"
    BY <1>1, <2>1, <2>2, ProbedScreen DEF GotJoin
  <2> QED
    BY <1>1, <2>1, <2>2, LetInScreen
<1>3. CASE v = "knock"
  BY <1>1, <1>3, KnockingScreen DEF Answer
<1>4. ASSUME v # "join" PROVE ~Hubs(s.app)
  BY <1>1, <1>4, OffDuty DEF Answer
<1>5. CASE v = "redirect"
  BY <1>1, <1>4, <1>5, RedirectScreen DEF Answer
<1>6. CASE v \in {"full", "refused", "need-username"}
  <2>1. Turn(GotFail(s, v))
    BY <1>6 DEF Answer
  <2>2. CASE s.rec /\ v = "full"
    BY <1>1, <2>1, <2>2, FailedTryScreen DEF GotFail
  <2>3. CASE s.rec /\ v # "full" /\ Alternative(s) # None
    BY <1>1, <2>1, <2>3, RetryScreen DEF GotFail
  <2>4. CASE ~(s.rec /\ v = "full") /\ ~(s.rec /\ v # "full" /\ Alternative(s) # None)
    BY <1>1, <1>4, <1>6, <2>1, <2>4, RefusedScreen DEF GotFail
  <2> QED
    BY <2>2, <2>3, <2>4
<1> QED
  BY <1>1, <1>2, <1>3, <1>5, <1>6

\* What the application is told of, it is to know; and it is to be asked nothing else.
Stands(p) == AppOK(p.app) /\ p.handlers \subseteq Keys /\ \A k \in p.handlers : Knows(p.app, k)
\* A page that has told it something, and is where it was.
Tells(p, q) ==
    /\ Wide(q) /\ SameScreen(p, q) /\ q.named = p.named /\ SameLogin(p, q) /\ SamePlace(p, q)
    /\ SameCall(p, q) /\ q.card = p.card /\ q.out = p.out
    /\ Stands(q) /\ (Hubs(q.app) <=> Hubs(p.app)) /\ q.app.wins = p.app.wins
\* ... and shows the same of who knocks.
SameList(p, q) == q.row = p.row /\ q.toasts = p.toasts /\ q.knockers = p.knockers

\* Telling it again.
LEMMA TellsTwice ==
    ASSUME NEW p, NEW q, Tells(p, q), NEW r, Tells(q, r)
    PROVE  Tells(p, r)
  BY DEF Tells, SameScreen, SameLogin, SamePlace, SameCall

\* hostKnock().
LEMMA HostKnockTells ==
    ASSUME NEW p, Wide(p), Stands(p), NEW key \in Keys, NEW text, NEW q, q = HostKnock(p, key, text)
    PROVE  Tells(p, q) /\ SameList(p, q)
<1>1. PICK b : b = Told(p.app, "knock", key, text)
  OBVIOUS
<1>2. PICK h : h = p.handlers \cup {key}
  OBVIOUS
<1>3. q = p \/ q = [p EXCEPT !.handlers = h, !.app = b]
  BY <1>1, <1>2 DEF HostKnock
<1>4. CASE q = p
  BY <1>4 DEF Tells, SameList, SameScreen, SameLogin, SamePlace, SameCall
<1>5. CASE q = [p EXCEPT !.handlers = h, !.app = b]
  <2>1. /\ AppOK(b) /\ (Hubs(b) <=> Hubs(p.app))
        /\ \A k : Knows(b, k) <=> IF k = key THEN TRUE ELSE Knows(p.app, k)
    BY <1>1, ToldDoes DEF Stands
  <2>2. b.wins = p.app.wins
    BY <1>1 DEF Told, Stands, AppOK
  <2>3. /\ Wide(q) /\ SameScreen(p, q) /\ q.named = p.named /\ SameLogin(p, q) /\ SamePlace(p, q)
        /\ SameCall(p, q) /\ q.card = p.card /\ q.out = p.out /\ SameList(p, q)
        /\ q.handlers = h /\ q.app = b
    BY <1>5 DEF Wide, Whole, SameScreen, SameLogin, SamePlace, SameCall, SameList
  <2>4. Stands(q)
    BY <1>2, <2>1, <2>3 DEF Stands
  <2> QED
    BY <2>1, <2>2, <2>3, <2>4 DEF Tells
<1> QED
  BY <1>3, <1>4, <1>5

\* hostKnockGone().
LEMMA HostKnockGoneTells ==
    ASSUME NEW p, Wide(p), Stands(p), NEW key \in Keys, NEW q, q = HostKnockGone(p, key)
    PROVE  Tells(p, q) /\ SameList(p, q)
<1>1. PICK b : b = OneGone(p.app, key)
  OBVIOUS
<1>2. PICK h : h = p.handlers \ {key}
  OBVIOUS
<1>3. q = [p EXCEPT !.handlers = h, !.app = b]
  BY <1>1, <1>2 DEF HostKnockGone, OneGone
<1>4. /\ AppOK(b) /\ (Hubs(b) <=> Hubs(p.app)) /\ b.wins = p.app.wins
      /\ \A k : k # key => (Knows(b, k) <=> Knows(p.app, k))
  BY <1>1, OneGoneDoes DEF Stands, Quieter
<1>5. /\ Wide(q) /\ SameScreen(p, q) /\ q.named = p.named /\ SameLogin(p, q) /\ SamePlace(p, q)
      /\ SameCall(p, q) /\ q.card = p.card /\ q.out = p.out /\ SameList(p, q)
      /\ q.handlers = h /\ q.app = b
  BY <1>3 DEF Wide, Whole, SameScreen, SameLogin, SamePlace, SameCall, SameList
<1>6. Stands(q)
  BY <1>2, <1>4, <1>5 DEF Stands
<1> QED
  BY <1>4, <1>5, <1>6 DEF Tells

\* The row of a page is another, and nobody is told,
LEMMA RowTells ==
    ASSUME NEW p, Wide(p), Stands(p), NEW v \in BOOLEAN, NEW q, q = [p EXCEPT !.row = v]
    PROVE  Tells(p, q) /\ q.row = v /\ q.toasts = p.toasts /\ q.knockers = p.knockers
  BY DEF Tells, Stands, Wide, Whole, SameScreen, SameLogin, SamePlace, SameCall

\* or who knocks at a room,
LEMMA KnockersTells ==
    ASSUME NEW p, Wide(p), Stands(p), NEW v, NEW q, q = [p EXCEPT !.knockers = v]
    PROVE  Tells(p, q) /\ q.knockers = v /\ q.row = p.row /\ q.toasts = p.toasts
  BY DEF Tells, Stands, Wide, Whole, SameScreen, SameLogin, SamePlace, SameCall

\* or what the panel says of it.
LEMMA ToastsTells ==
    ASSUME NEW p, Wide(p), Stands(p), NEW v, NEW q, q = [p EXCEPT !.toasts = v]
    PROVE  Tells(p, q) /\ q.toasts = v /\ q.row = p.row /\ q.knockers = p.knockers
  BY DEF Tells, Stands, Wide, Whole, SameScreen, SameLogin, SamePlace, SameCall

\* The rooms of the panel, of which there is one.
OneRendered(p, r, knocking) == RenderRoom(p, r, knocking[r])
\* The panel is rendered room by room, and there is one.
LEMMA RenderedIs ==
    ASSUME NEW p, NEW knocking
    PROVE  Rendered(p, knocking) = OneRendered(p, 1, knocking)
<1> DEFINE pick(S) == CHOOSE x \in S : TRUE
           one == OneRendered(p, 1, knocking)
           iter == CHOOSE f : f = [S \in SUBSET Rooms |->
                      IF S = {} THEN p ELSE OneRendered(f[S \ {pick(S)}], pick(S), knocking)]
<1>1. Rendered(p, knocking) = iter[Rooms]
  BY DEF Rendered, FoldSet, MapThenFoldSet, OneRendered
<1>2. ASSUME NEW S \in SUBSET Rooms, S # {} PROVE pick(S) = 1 /\ S \ {pick(S)} = {}
  <2>1. pick(S) \in S
    BY <1>2
  <2> HIDE DEF pick
  <2> QED
    BY <2>1 DEF Rooms
<1>3. \E f : f = [S \in SUBSET Rooms |->
                     IF S = {} THEN p ELSE OneRendered(f[S \ {pick(S)}], pick(S), knocking)]
  <2>1. PICK b : b = [S \in SUBSET Rooms |-> IF S = {} THEN p ELSE one]
    OBVIOUS
  <2>2. \A S \in SUBSET Rooms : b[S] = IF S = {} THEN p ELSE OneRendered(b[S \ {pick(S)}], pick(S), knocking)
    <3>1. SUFFICES ASSUME NEW S \in SUBSET Rooms, S # {}
                   PROVE  b[S] = OneRendered(b[S \ {pick(S)}], pick(S), knocking)
      BY <2>1
    <3>2. pick(S) = 1 /\ S \ {pick(S)} = {}
      BY <1>2, <3>1
    <3>3. b[{}] = p /\ b[S] = one
      BY <2>1, <3>1
    <3> HIDE DEF pick
    <3> QED
      BY <3>2, <3>3
  <2>3. b = [S \in SUBSET Rooms |-> b[S]]
    BY <2>1
  <2> HIDE DEF pick
  <2> QED
    BY <2>2, <2>3
<1> HIDE DEF pick
<1>4. iter = [S \in SUBSET Rooms |->
                 IF S = {} THEN p ELSE OneRendered(iter[S \ {pick(S)}], pick(S), knocking)]
  BY <1>3
<1> HIDE DEF iter, one
<1>5. Rooms # {} /\ Rooms \in SUBSET Rooms /\ {} \in SUBSET Rooms
  BY DEF Rooms
<1>6. pick(Rooms) = 1 /\ Rooms \ {pick(Rooms)} = {}
  BY <1>2, <1>5
<1>7. iter[{}] = p /\ iter[Rooms] = OneRendered(iter[Rooms \ {pick(Rooms)}], pick(Rooms), knocking)
  BY <1>4, <1>5
<1> QED
  BY <1>1, <1>6, <1>7

\* The panel speaks of the rooms that somebody knocks at.
Toasted(p) == p.toasts \subseteq {r \in Rooms : p.knockers[r] # {}}

\* What is shown of a room of the panel.
LEMMA RenderTells ==
    ASSUME NEW p, Wide(p), Stands(p), p.knockers \in Knockings, p.toasts \subseteq Rooms,
           Toasted(p), NEW cur \in SUBSET Names, NEW q, q = RenderRoom(p, 1, cur)
    PROVE  Tells(p, q) /\ q.row = p.row /\ q.knockers \in Knockings /\ Toasted(q)
<1>1. PICK k : k = [p.knockers EXCEPT ![1] = cur]
  OBVIOUS
<1>2. k \in Knockings /\ k[1] = cur
  BY <1>1 DEF Knockings, Rooms
<1>3. PICK h : h = [p EXCEPT !.knockers = k]
  OBVIOUS
<1>4. Tells(p, h) /\ h.row = p.row /\ h.toasts = p.toasts /\ h.knockers = k
  BY <1>3, KnockersTells
<1>5. PICK g : g = [h EXCEPT !.toasts = @ \ {1}]
  OBVIOUS
<1>6. Tells(h, g) /\ g.row = h.row /\ g.toasts = h.toasts \ {1} /\ g.knockers = h.knockers
  <2>1. PICK ts : ts = h.toasts \ {1}
    OBVIOUS
  <2>2. g = [h EXCEPT !.toasts = ts]
    BY <1>5, <2>1
  <2> QED
    BY <1>4, <2>1, <2>2, ToastsTells DEF Tells
<1>7. PICK d : d = HostKnockGone(g, 1)
  OBVIOUS
<1>8. 1 \in Keys
  BY DEF Keys, Rooms
<1>9. Tells(g, d) /\ SameList(g, d)
  BY <1>6, <1>7, <1>8, HostKnockGoneTells DEF Tells
<1>10. Tells(p, d) /\ d.row = p.row /\ d.knockers = k /\ d.toasts = {}
  <2>1. Tells(p, d)
    BY <1>4, <1>6, <1>9, TellsTwice
  <2>2. d.toasts = p.toasts \ {1}
    BY <1>4, <1>6, <1>9 DEF SameList
  <2> QED
    BY <1>4, <1>6, <1>9, <2>1, <2>2 DEF SameList, Rooms
<1>11. CASE Arrivals(p.knockers[1], cur) # {}
  <2>1. PICK e : e = HostKnock(d, 1, cur)
    OBVIOUS
  <2>2. Tells(d, e) /\ SameList(d, e)
    BY <1>8, <1>10, <2>1, HostKnockTells DEF Tells
  <2>3. PICK ts : ts = e.toasts \cup {1}
    OBVIOUS
  <2>4. q = [e EXCEPT !.toasts = ts]
    BY <1>1, <1>3, <1>5, <1>7, <1>11, <2>1, <2>3
       DEF RenderRoom, OperatorKnockToast, DismissOperatorKnockToast
  <2>5. Tells(e, q) /\ q.row = e.row /\ q.toasts = ts /\ q.knockers = e.knockers
    BY <2>2, <2>4, ToastsTells DEF Tells
  <2>6. Tells(p, q)
    BY <1>10, <2>2, <2>5, TellsTwice
  <2>7. q.toasts = {1} /\ q.knockers = k /\ q.row = p.row
    BY <1>10, <2>2, <2>3, <2>5 DEF SameList
  <2>8. cur # {}
    BY <1>11 DEF Arrivals
  <2> QED
    BY <1>2, <2>6, <2>7, <2>8 DEF Rooms, Toasted
<1>12. CASE Arrivals(p.knockers[1], cur) = {} /\ cur = {}
  <2>1. q = d
    BY <1>1, <1>3, <1>5, <1>7, <1>12 DEF RenderRoom, DismissOperatorKnockToast
  <2> QED
    BY <1>2, <1>10, <2>1 DEF Toasted
<1>13. CASE Arrivals(p.knockers[1], cur) = {} /\ cur # {}
  <2>1. q = h
    BY <1>1, <1>3, <1>13 DEF RenderRoom
  <2>2. Toasted(q)
    BY <1>2, <1>4, <1>13, <2>1 DEF Rooms, Toasted
  <2> QED
    BY <1>2, <1>4, <2>1, <2>2
<1> QED
  BY <1>11, <1>12, <1>13

\* A page that shows the same, where it was, and asks for nothing but that a token be revoked.
Hushed(p, q) ==
    /\ SameShow(p, q) /\ SamePlace(p, q) /\ SameCall(p, q) /\ q.card = p.card /\ q.probing = p.probing
    /\ q.out = p.out \/ \E r : r.req = "revoke" /\ Adds(p.out, r, q.out)

\* What it is told of tokens, of the room and of the chat.
LEMMA TokenErrorHushed ==
    ASSUME NEW p, Wide(p), NEW q, q = GotTokenError(p) PROVE Hushed(p, q)
<1>1. q = p \/ q = [p EXCEPT !.sr = FALSE] \/ q = [p EXCEPT !.ss = FALSE]
  BY DEF GotTokenError
<1> QED
  BY <1>1 DEF Hushed, SameShow, Shows, SameScreen, SameDesk, SamePlace, SameCall, Wide, Whole

\* The token it has waited for; what it replaces is revoked.
LEMMA TokenHushed ==
    ASSUME NEW p, Wide(p), p.silent \in Nat, NEW t, NEW q, q = GotToken(p, t) PROVE Hushed(p, q)
<1>1. PICK h : h = [p EXCEPT !.remember = t]
  OBVIOUS
<1>2. PICK v : v = p.prev
  OBVIOUS
<1>3. PICK g : g = Revoke(h, v)
  OBVIOUS
<1>4. \/ q = p
      \/ q = [p EXCEPT !.session = t, !.ss = FALSE]
      \/ q = [g EXCEPT !.sr = FALSE, !.prev = None]
  BY <1>1, <1>2, <1>3 DEF GotToken
<1>5. CASE q = p \/ q = [p EXCEPT !.session = t, !.ss = FALSE]
  BY <1>5 DEF Hushed, SameShow, Shows, SameScreen, SameDesk, SamePlace, SameCall, Wide, Whole
<1>6. CASE q = [g EXCEPT !.sr = FALSE, !.prev = None]
  <2>1. Hushed(p, h) /\ Wide(h) /\ h.out = p.out /\ h.silent = p.silent
    BY <1>1 DEF Hushed, SameShow, Shows, SameScreen, SameDesk, SamePlace, SameCall, Wide, Whole
  <2>2. SameShow(h, g) /\ (g.out = h.out \/ \E r : r.req = "revoke" /\ Adds(h.out, r, g.out))
    BY <1>3, <2>1, RevokeShow
  <2>3. g = h \/ (SameLogin(h, g) /\ SamePlace(h, g) /\ SameCall(h, g) /\ g.card = h.card)
    BY <1>3, <2>1, RevokeDoes DEF Wide
  <2>4. Hushed(h, g)
    BY <2>2, <2>3 DEF Hushed, SamePlace, SameCall, SameLogin
  <2>5. Hushed(g, q) /\ q.out = g.out
    BY <1>6, <2>2 DEF Hushed, SameShow, Shows, SameScreen, SameDesk, SamePlace, SameCall, Wide, Whole
  <2> QED
    BY <2>1, <2>2, <2>4, <2>5 DEF Hushed, SameShow, Shows, SameScreen, SameDesk, SamePlace, SameCall
<1> QED
  BY <1>4, <1>5, <1>6

\* A message of the server, but of who knocks.
LEMMA GotHushed ==
    ASSUME NEW p, Wide(p), p.silent \in Nat, NEW m, m.re \notin {"knock", "knockcancel", "status"},
           NEW q, q = Got(p, m)
    PROVE  Hushed(p, q)
<1>1. PICK told : told = IF m.t = 1 THEN "yes" ELSE "no"
  OBVIOUS
<1>2. PICK cl : cl = [p.cl EXCEPT !.box = 0]
  OBVIOUS
<1>3. PICK n : n = IF p.silent > 0 THEN p.silent - 1 ELSE 0
  OBVIOUS
<1>4. \/ q = [p EXCEPT !.told = told] \/ q = [p EXCEPT !.cl = cl] \/ q = [p EXCEPT !.silent = n]
      \/ q = GotTokenError(p) \/ q = GotToken(p, m.t)
  BY <1>1, <1>2, <1>3 DEF Got
<1>5. CASE q = [p EXCEPT !.told = told] \/ q = [p EXCEPT !.cl = cl] \/ q = [p EXCEPT !.silent = n]
  BY <1>5 DEF Hushed, SameShow, Shows, SameScreen, SameDesk, SamePlace, SameCall, Wide, Whole
<1> QED
  BY <1>4, <1>5, TokenErrorHushed, TokenHushed

\* A page that is told something, and what it says to that.
LEMMA ToldTurn ==
    ASSUME UNCHANGED case, NEW q, Wide(q), s' = [q EXCEPT !.out = <<>>], Speaks(srv'), Screen(q, srv'),
           StaysDown(s.app, q.app)
    PROVE  ScreenStep
<1>1. Alike(q, s') /\ SameShow(q, s')
  BY DEF Alike, SameTokens, SameLogin, SamePlace, SameCall, SameCard, SameShow, Shows, SameScreen,
     SameDesk, Wide, Whole
<1>2. Screen(s', srv')
  BY <1>1, ScreenAlike
<1>3. s'.app = q.app
  BY <1>1 DEF SameShow, Shows, SameDesk
<1> QED
  BY <1>2, <1>3, ScreenNext DEF ScreenStep

\* A page that has told the application of somebody, or of nobody any more.
LEMMA TellsScreen ==
    ASSUME NEW p, NEW x, Screen(p, x), p.st = "in", NEW q, Tells(p, q), NEW y, Speaks(y),
           q.row \in BOOLEAN, RowTrue(q.row, y), q.knockers \in Knockings, Toasted(q)
    PROVE  Screen(q, y) /\ StaysDown(p.app, q.app)
<1>1. Stage(q)
  BY DEF Screen, Stage, Tells, SameScreen, SameLogin, SamePlace, SameCall
<1>2. RowOK(q, y)
  BY DEF RowOK, RowTrue, Speaks, Tells, SamePlace
<1>3. DeskOK(q, y)
  BY DEF Screen, DeskOK, Speaks, Tells, Stands, SameScreen, SameCall, Toasted
<1>4. StaysDown(p.app, q.app)
  BY StaysSame DEF Screen, DeskOK, Tells
<1> QED
  BY <1>1, <1>2, <1>3, <1>4 DEF Screen, Tells

\* What the server says, and the row once that is read.
LEMMA HeadScreen ==
    ASSUME Inv, Screen(s, srv), srv.mail # <<>>, NEW m, m = Head(srv.mail),
           NEW x, x = [srv EXCEPT !.mail = Tail(@)], s.st = "in"
    PROVE  /\ Speaks(x) /\ (m.re = "status" => m.knocking \in Knockings)
           /\ RowTrue(IF m.re = "knock" THEN TRUE ELSE IF m.re = "knockcancel" THEN FALSE ELSE s.row, x)
<1>1. PICK q : q = srv.mail
  OBVIOUS
<1>2. PICK w : w = Tail(q)
  OBVIOUS
<1>3. Speaks(srv) /\ Queue(q)
  BY <1>1, ScreenSpeaks DEF Speaks
<1>4. Takes(q, m, w)
  BY <1>1, <1>2 DEF Takes
<1>5. Queue(w) /\ Items(q) = Items(w) \cup {m}
  BY <1>3, <1>4, OneLess
<1>6. /\ Record(x) /\ "knocker" \in DOMAIN x /\ "queue" \in DOMAIN x /\ x.mail = w
      /\ x.knocker = srv.knocker /\ x.queue = srv.queue
  BY <1>1, <1>2, <1>3 DEF Record, Speaks
<1>7. Speaks(x) /\ (m.re = "status" => m.knocking \in Knockings)
  BY <1>1, <1>3, <1>5, <1>6 DEF Speaks
<1>8. RowNow(s.row, q) <=> srv.knocker
  BY <1>1 DEF Screen, RowOK
<1>9. RowNow(s.row, q) <=> RowNow(IF m.re = "knock" THEN TRUE
                                  ELSE IF m.re = "knockcancel" THEN FALSE ELSE s.row, w)
  BY <1>3, <1>4, RowLess
<1> QED
  BY <1>6, <1>7, <1>8, <1>9 DEF RowTrue

\* The mail is read, one at a time.
LEMMA GotMailScreen ==
    ASSUME Inv, Screen(s, srv), GotMail PROVE ScreenStep
<1>1. PICK m : m = Head(srv.mail)
  OBVIOUS
<1>2. PICK x : x = [srv EXCEPT !.mail = Tail(@)]
  OBVIOUS
<1>3. PICK q : q = Got(s, m)
  OBVIOUS
<1>4. /\ s.st = "in" /\ srv.mail # <<>> /\ s' = [q EXCEPT !.out = <<>>]
      /\ srv' = Served(x, q.out) /\ UNCHANGED case
  BY <1>1, <1>2, <1>3 DEF GotMail
<1>5. Wide(s) /\ s.out = <<>> /\ s.silent \in Nat
  BY ScreenStays DEF Inv, Fine, Types
<1>6. PICK row \in BOOLEAN : row = IF m.re = "knock" THEN TRUE
                                   ELSE IF m.re = "knockcancel" THEN FALSE ELSE s.row
  BY DEF Screen, RowOK
<1>7. /\ Speaks(x) /\ (m.re = "status" => m.knocking \in Knockings) /\ RowTrue(row, x)
  BY <1>1, <1>2, <1>4, <1>6, HeadScreen
<1>8. Stands(s) /\ s.knockers \in Knockings /\ Toasted(s)
  BY <1>4 DEF Screen, DeskOK, Stands, Toasted
<1>9. ASSUME Tells(s, q), q.row = row, q.knockers \in Knockings, Toasted(q)
      PROVE  ScreenStep
  <2>1. srv' = x
    BY <1>4, <1>5, <1>9, ServedNone DEF Tells
  <2>2. Screen(q, x) /\ StaysDown(s.app, q.app)
    BY <1>4, <1>7, <1>9, TellsScreen
  <2> QED
    BY <1>4, <1>7, <1>9, <2>1, <2>2, ToldTurn DEF Tells
<1>10. CASE m.re = "knock"
  <2>1. CASE s.row
    <3>1. q = s /\ s.row = row
      BY <1>3, <1>6, <1>10, <2>1 DEF Got, Screen, RowOK
    <3>2. Tells(s, q)
      BY <1>5, <1>8, <3>1 DEF Tells, SameScreen, SameLogin, SamePlace, SameCall
    <3> QED
      BY <1>8, <1>9, <3>1, <3>2
  <2>2. CASE ~s.row
    <3>1. PICK h : h = [s EXCEPT !.row = TRUE]
      OBVIOUS
    <3>2. q = HostKnock(h, Row, {1})
      BY <1>3, <1>10, <2>2, <3>1 DEF Got
    <3>3. Tells(s, h) /\ h.row = TRUE /\ h.toasts = s.toasts /\ h.knockers = s.knockers
      BY <1>5, <1>8, <3>1, RowTells
    <3>4. Row \in Keys
      BY DEF Keys
    <3>5. Tells(h, q) /\ SameList(h, q)
      BY <3>2, <3>3, <3>4, HostKnockTells DEF Tells
    <3>6. Tells(s, q)
      BY <3>3, <3>5, TellsTwice
    <3> QED
      BY <1>6, <1>8, <1>9, <1>10, <3>3, <3>5, <3>6 DEF SameList, Toasted
  <2> QED
    BY <2>1, <2>2
<1>11. CASE m.re = "knockcancel"
  <2>1. PICK h : h = [s EXCEPT !.row = FALSE]
    OBVIOUS
  <2>2. q = HostKnockGone(h, Row)
    BY <1>3, <1>11, <2>1 DEF Got
  <2>3. Tells(s, h) /\ h.row = FALSE /\ h.toasts = s.toasts /\ h.knockers = s.knockers
    BY <1>5, <1>8, <2>1, RowTells
  <2>4. Row \in Keys
    BY DEF Keys
  <2>5. Tells(h, q) /\ SameList(h, q)
    BY <2>2, <2>3, <2>4, HostKnockGoneTells DEF Tells
  <2>6. Tells(s, q)
    BY <2>3, <2>5, TellsTwice
  <2> QED
    BY <1>6, <1>8, <1>9, <1>11, <2>3, <2>5, <2>6 DEF SameList, Toasted
<1>12. CASE m.re = "status"
  <2>1. PICK k : k = m.knocking
    OBVIOUS
  <2>2. PICK cur \in SUBSET Names : cur = k[1]
    BY <1>7, <1>12, <2>1 DEF Knockings, Rooms
  <2>3. PICK g : g = RenderRoom(s, 1, cur)
    OBVIOUS
  <2>4. Rendered(s, k) = g
    BY <2>2, <2>3, RenderedIs DEF OneRendered
  <2>5. s.toasts \subseteq Rooms
    BY <1>8 DEF Toasted
  <2>6. /\ Tells(s, g) /\ g.row = s.row /\ g.knockers \in Knockings
        /\ Toasted(g)
    BY <1>5, <1>8, <2>3, <2>5, RenderTells
  <2>7. q = [s EXCEPT !.knockers = g.knockers, !.toasts = g.toasts, !.handlers = g.handlers, !.app = g.app]
    BY <1>3, <1>12, <2>1, <2>4 DEF Got, RenderRooms
  <2>8. /\ Wide(q) /\ SameScreen(s, q) /\ q.named = s.named /\ SameLogin(s, q) /\ SamePlace(s, q)
        /\ SameCall(s, q) /\ q.card = s.card /\ q.out = s.out /\ q.row = s.row
        /\ q.knockers = g.knockers /\ q.toasts = g.toasts /\ q.handlers = g.handlers /\ q.app = g.app
    BY <1>5, <2>7 DEF Wide, Whole, SameScreen, SameLogin, SamePlace, SameCall
  <2>9. Tells(s, q)
    BY <2>6, <2>8 DEF Tells, Stands
  <2>10. q.row = row
    BY <1>6, <1>12, <2>8
  <2> QED
    BY <1>9, <2>6, <2>8, <2>9, <2>10 DEF Toasted
<1>13. CASE m.re \notin {"knock", "knockcancel", "status"}
  <2>1. Hushed(s, q)
    BY <1>3, <1>5, <1>13, GotHushed
  <2>2. PICK y : y = Served(x, q.out)
    OBVIOUS
  <2>3. Speaks(y) /\ y.queue = x.queue /\ RowTrue(row, y)
    <3>1. CASE q.out = <<>>
      BY <1>7, <2>2, <3>1, ServedNone
    <3>2. CASE \E r : r.req = "revoke" /\ Adds(s.out, r, q.out)
      <4>1. PICK r : r.req = "revoke" /\ Adds(s.out, r, q.out)
        BY <3>2
      <4>2. q.out = <<r>>
        BY <1>5, <4>1 DEF Adds
      <4>3. y = Serve(x, r)
        BY <2>2, <4>2, ServedOne
      <4> QED
        BY <1>7, <4>1, <4>3, ServeSpeaks
    <3> QED
      BY <1>5, <2>1, <3>1, <3>2 DEF Hushed
  <2>4. Wide(q) /\ q.row = row /\ q.app = s.app /\ q.st = "in"
    BY <1>4, <1>6, <1>13, <2>1 DEF Hushed, SameShow, Shows, SameDesk, SamePlace
  <2>5. Stage(q)
    BY <2>1 DEF Hushed, Screen, Stage, SameShow, Shows, SameScreen, SamePlace, SameCall
  <2>6. RowOK(q, y)
    BY <2>3, <2>4 DEF RowOK, RowTrue, Speaks
  <2>7. DeskOK(q, y)
    BY <2>1, <2>3 DEF Screen, DeskOK, Speaks, Hushed, SameShow, Shows, SameDesk, SameScreen, SamePlace, SameCall
  <2>8. StaysDown(s.app, q.app)
    BY <2>4, ScreenStays
  <2>9. Screen(q, y)
    BY <2>4, <2>5, <2>6, <2>7 DEF Screen
  <2> QED
    BY <1>4, <2>2, <2>3, <2>4, <2>8, <2>9, ToldTurn
<1> QED
  BY <1>10, <1>11, <1>12, <1>13

\* Whatever happens, the screen is as it should be.
LEMMA NextScreen ==
    ASSUME Inv, Screen(s, srv), Races = {}, Next PROVE ScreenStep
<1>1. CASE Progress
  <2>1. CASE \E v \in {"join", "knock", "full", "refused", "need-username", "redirect"} : Answer(v)
    BY <2>1, AnswerScreen
  <2>2. CASE \E edited, tick \in BOOLEAN : Opened(edited, tick)
    BY <2>2, OpenedScreen
  <2>3. CASE Closed \/ OldClosed \/ TimerFires
    BY <2>3, ClosedScreen, OldClosedScreen, TimerFiresScreen
  <2>4. CASE GotMail \/ Guard
    BY <2>4, GotMailScreen, GuardScreen
  <2>5. CASE AppHears \/ PageHears
    BY <2>5, AppActs, PageHearsScreen
  <2> QED
    BY <1>1, <2>1, <2>2, <2>3, <2>4, <2>5 DEF Progress
<1>2. CASE Lose \/ Admit \/ Deny
  BY <1>2, LoseScreen, AdmitScreen, DenyScreen
<1>3. CASE \E present \in BOOLEAN : Submit(present) \/ Rejoin(present)
  BY <1>3, SubmitScreen, RejoinScreen
<1>4. CASE RejoinOther \/ OperatorLogin \/ HangUp \/ Logout
  BY <1>4, RejoinOtherScreen, OperatorLoginScreen, HangUpScreen, LogoutScreen
<1>5. CASE Camera \/ CreateLink \/ AdmitKnocker \/ PollOperatorRoom
  BY <1>5, CameraScreen, AsksScreen
<1>6. CASE Reload \/ ReloadButton
  BY <1>6, ReloadScreen
<1>7. CASE Knocks \/ Soon
  BY <1>7, KnocksScreen, SoonScreen
<1>8. CASE \E t \in Tok : Expire(t) \/ RevokeElsewhere(t)
  BY <1>8, ExpireScreen
<1>9. CASE \E f \in Files, ok \in BOOLEAN : FileArrives(f, ok)
  BY <1>9, FileArrivesScreen
<1>10. CASE Hide \/ Show \/ JoinRoom
  BY <1>10, HideScreen, ShowScreen, JoinRoomScreen
<1>11. CASE GraceOver \/ AloneExpires
  BY <1>11, ClocksScreen
<1>12. CASE Look \/ \E key \in Rooms \cup {Row} : Answers(key) \/ Closes(key)
  BY <1>12, AppActs
<1>13. CASE \E r \in Rooms, n \in Names : Queues(r, n)
  BY <1>13, QueuesScreen
<1>14. CASE Says \/ \E u \in Others : SomebodyComes(u)
  BY <1>14, ComesScreen
<1>15. CASE \E u \in Others : SomebodyLeaves(u)
  BY <1>15, LeavesScreen
<1> QED
  BY <1>1, <1>2, <1>3, <1>4, <1>5, <1>6, <1>7, <1>8, <1>9, <1>10, <1>11, <1>12, <1>13,
     <1>14, <1>15 DEF Next

\* When nothing happens, nothing is shown.
LEMMA StillScreen ==
    ASSUME Inv, Screen(s, srv), UNCHANGED vars PROVE ScreenStep
<1>1. UNCHANGED <<case, s, srv>>
  BY DEF vars
<1>2. Screen(s', srv') /\ StaysDown(s.app, s'.app)
  BY <1>1, ScreenStays
<1> QED
  BY <1>1, <1>2, ScreenNext DEF ScreenStep

\* What it says of what is on screen.
LEMMA ScreenShows ==
    ASSUME Inv, Screen(s, srv) PROVE ScreenTrue
<1>1. ShowsWhatIs
  BY DEF Inv, Fine, Course, Screen, Stage, Covered, ShowsWhatIs
<1>2. KnocksTrue
  <2>1. SUFFICES ASSUME s.st = "in", srv.mail = <<>> PROVE s.row = srv.knocker
    BY DEF KnocksTrue
  <2>2. RowMail(srv.mail) = {}
    BY <2>1 DEF RowMail
  <2> QED
    BY <2>1, <2>2 DEF Screen, RowOK, RowNow
<1>3. AppTrue
  <2>1. s.app.duty => s.dash
    BY DEF Screen, DeskOK, Hubs
  <2>2. /\ s.app.front => s.app.wins = {}
        /\ s.app.wins \subseteq DOMAIN s.app.out
        /\ s.toasts \subseteq {r \in Rooms : s.knockers[r] # {}}
    BY DEF Screen, DeskOK, AppOK
  <2>3. ASSUME s.app.up = <<>>, s.st # "away" PROVE s.handlers \subseteq DOMAIN s.app.out
    <3>1. \A k : About(s.app.up, k) = {}
      BY <2>3 DEF About
    <3>2. \A k \in s.handlers : Knows(s.app, k)
      BY <2>3 DEF Screen, DeskOK
    <3> QED
      BY <3>1, <3>2, KnowsIs
  <2> QED
    BY <2>1, <2>2, <2>3 DEF AppTrue
<1> QED
  BY <1>1, <1>2, <1>3 DEF ScreenTrue

\* None of the races is let happen: then what is on screen is what goes on; who
\* is shown to knock knocks, and whoever knocks is shown; and the application
\* stands for the panel, and shows notifications, only while there is cause to.
THEOREM ScreenKept == ASSUME Races = {} PROVE Spec => []ScreenTrue
<1>1. Init => Inv /\ Screen(s, srv)
  BY InitInv, InitScreen
<1>2. Inv /\ Screen(s, srv) /\ [Next]_vars => Inv' /\ Screen(s, srv)'
  BY NextInv, StillInv, NextScreen, StillScreen DEF ScreenStep
<1>3. Inv /\ Screen(s, srv) => ScreenTrue
  BY ScreenShows
<1> QED
  BY <1>1, <1>2, <1>3, PTL DEF Spec

\* A notification that the operator has closed comes back only with something
\* more to say.
THEOREM StaysClosed == ASSUME Races = {} PROVE Spec => ClosedStaysClosed
<1> DEFINE NoneBack == \A k \in DOMAIN s.app.out :
                           s.app.out[k].dismissed /\ k \in s'.app.wins => s'.app.up # s.app.up
<1>1. Init => Inv /\ Screen(s, srv)
  BY InitInv, InitScreen
<1>2. Inv /\ Screen(s, srv) /\ [Next]_vars => Inv' /\ Screen(s, srv)'
  BY NextInv, StillInv, NextScreen, StillScreen DEF ScreenStep
<1>3. Inv /\ Screen(s, srv) /\ [Next]_vars => NoneBack
  <2>1. SUFFICES ASSUME Inv, Screen(s, srv), [Next]_vars PROVE NoneBack
    OBVIOUS
  <2>2. StaysDown(s.app, s'.app)
    BY <2>1, NextScreen, StillScreen DEF ScreenStep
  <2> QED
    BY <2>2 DEF StaysDown
<1> HIDE DEF NoneBack
<1>4. Spec => [][NoneBack]_vars
  BY <1>1, <1>2, <1>3, PTL DEF Spec
<1> QED
  BY <1>4 DEF ClosedStaysClosed, NoneBack
=============================================================================
