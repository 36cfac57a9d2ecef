----------------------------- MODULE PageProofs -----------------------------
(***************************************************************************)
(* What a page keeps and what the server has minted agree: TokensTrue, for *)
(* every set of cases, every number of tokens and of attempts, when none   *)
(* of the races is let happen.  The invariant, Inv, says where a page is   *)
(* and what that excludes (Fine), and what is on its way to it (Room).     *)
(* Whole and the Same... operators give the fields it speaks of, so that   *)
(* what a handler leaves alone is said once for all of them.               *)
(***************************************************************************)
EXTENDS Page, FiniteSetTheorems, FunctionTheorems, NaturalsInduction, TLAPS

\* The fields of a page that matter to its tokens.
Whole(p) ==
    /\ "st" \in DOMAIN p /\ "want" \in DOMAIN p /\ "last" \in DOMAIN p /\ "load" \in DOMAIN p
    /\ "rec" \in DOMAIN p /\ "timer" \in DOMAIN p /\ "card" \in DOMAIN p
    /\ "rejoin" \in DOMAIN p /\ "silent" \in DOMAIN p /\ "out" \in DOMAIN p
    /\ "cred" \in DOMAIN p /\ "token" \in DOMAIN p /\ "probing" \in DOMAIN p
    /\ "usingR" \in DOMAIN p /\ "fallback" \in DOMAIN p /\ "pend" \in DOMAIN p
    /\ "remember" \in DOMAIN p /\ "session" \in DOMAIN p /\ "stash" \in DOMAIN p
    /\ "prev" \in DOMAIN p /\ "sr" \in DOMAIN p /\ "ss" \in DOMAIN p /\ "adm" \in DOMAIN p

\* What it has stored and is waiting for.
SameTokens(p, q) ==
    /\ q.remember = p.remember /\ q.session = p.session /\ q.stash = p.stash
    /\ q.prev = p.prev /\ q.sr = p.sr /\ q.ss = p.ss
\* What it logs in with.
SameLogin(p, q) ==
    /\ q.token = p.token /\ q.probing = p.probing /\ q.usingR = p.usingR
    /\ q.fallback = p.fallback /\ q.pend = p.pend
\* Where it is.
SamePlace(p, q) == q.st = p.st /\ q.cred = p.cred /\ q.adm = p.adm /\ q.load = p.load
\* What it does about a call that is lost.
SameCall(p, q) == q.want = p.want /\ q.last = p.last /\ q.rec = p.rec /\ q.timer = p.timer
\* Its card.
SameCard(p, q) == q.card = p.card /\ q.rejoin = p.rejoin /\ q.silent = p.silent

\* The same page, as far as this goes.
Alike(p, q) ==
    /\ Whole(q) /\ SameTokens(p, q) /\ SameLogin(p, q) /\ SamePlace(p, q)
    /\ SameCall(p, q) /\ SameCard(p, q)
\* ... with the same requests to send.
Same(p, q) == Alike(p, q) /\ q.out = p.out

\* The fields of a server that matter to its tokens.
Record(x) == "valid" \in DOMAIN x /\ "lapsed" \in DOMAIN x /\ "kind" \in DOMAIN x /\ "mail" \in DOMAIN x
\* A server: none of its tokens is good and expired, and each has a kind.
Server(x) ==
    /\ Record(x)
    /\ x.kind \in [Tok -> TokenKinds] /\ x.valid \subseteq Tok /\ x.lapsed \subseteq Tok
    /\ x.valid \cap x.lapsed = {} /\ \A t \in x.valid \cup x.lapsed : x.kind[t] # ""
\* The same tokens.
SameServer(x, y) == Server(y) /\ y.kind = x.kind /\ y.valid = x.valid /\ y.lapsed = x.lapsed

\* Requests and answers that are about a token, and what is said aside.
Minted  == {"remember", "session", "invite"}
Said    == {"knock", "knockcancel", "status", "data", "clearchat"}
\* A token or none.
Someone == Tok \cup {None}

\* What a token is for.
KindIn(x, t) == IF t \in Tok THEN x.kind[t] ELSE ""
\* Whether the credentials are those of an operator.
Op(x, t) == KindIn(x, t) \in {"session", "remember"} \/ (t = Pw /\ case.who = "op")

\* What there is in a queue.
Items(q) == {q[i] : i \in DOMAIN q}
\* A queue is one.
Queue(q) == q \in Seq(Items(q))
\* The lists of tokens in it.
Lists(q) == {i \in DOMAIN q : q[i].re = "list"}
\* Whether an answer of a kind is in it.
Has(q, re) == \E m \in Items(q) : m.re = re
\* An answer, with a token of its kind or none.
Answered(x, m) ==
    /\ m.re \in Minted \cup Said \cup {"list"}
    /\ m.re \in Minted => m.t \in Someone /\ (m.t # None => KindIn(x, m.t) = m.re)
\* Answers come in the order of the requests, and some requests are not made
\* before others are answered.
InOrder(q) ==
    \A i, j \in DOMAIN q : i < j =>
        /\ q[j].re = "remember" => q[i].re \notin Minted
        /\ q[j].re = "session" => q[i].re \notin {"session", "invite"}
\* The mail of the server is such a queue.
MailOK(x) == Queue(x.mail) /\ InOrder(x.mail) /\ \A m \in Items(x.mail) : Answered(x, m)

\* What a page waits for is on its way.
Expects(p, x) ==
    /\ p.sr <=> Has(x.mail, "remember")
    /\ p.ss <=> Has(x.mail, "session")
    /\ p.st \notin {"in", "closing"} => x.mail = <<>>
    /\ p.st = "in" => p.silent = Cardinality(Lists(x.mail))

\* The flags, and
Flags(p) ==
    /\ p.want \in BOOLEAN /\ p.rec \in BOOLEAN /\ p.timer \in BOOLEAN /\ p.card \in BOOLEAN
    /\ p.rejoin \in BOOLEAN /\ p.usingR \in BOOLEAN /\ p.sr \in BOOLEAN /\ p.ss \in BOOLEAN
\* the types of all these fields.
Types(p) ==
    /\ Whole(p) /\ Flags(p)
    /\ p.st \in {"none", "blank", "opening", "asked", "lobby", "in", "closing", "gone", "away"}
    /\ p.remember \in Someone /\ p.session \in Someone /\ p.prev \in Someone
    /\ p.token \in Someone /\ p.fallback \in Someone /\ p.stash \in Someone
    /\ p.cred \in Someone \cup {Pw} /\ p.last \in Someone \cup {Pw}
    /\ p.silent \in Nat /\ p.pend \in {"none", "tick", "no"}

\* Where a page is, and what that excludes.
Course(p, o) ==
    /\ o => p.st \in {"opening", "closing", "gone"} /\ ~p.want /\ ~p.rec
    /\ p.timer => p.rec /\ p.st = "gone"
    /\ p.rec => p.want
    /\ p.want => p.last # None
    /\ p.rejoin /\ p.card => p.last # None
    /\ p.rec \/ p.want \/ p.st \in {"asked", "lobby", "in"} => ~p.card
    /\ p.st = "in" => ~p.rec /\ p.pend = "none" /\ ~p.usingR
    /\ p.st \in {"asked", "lobby", "in"} => p.cred # None
    /\ p.sr \/ p.ss => p.st = "in"
    /\ p.silent # 0 => \/ p.st = "in"
                       \/ /\ p.st \in {"closing", "away"} /\ ~p.rec /\ ~p.card /\ ~o
                          /\ p.st = "closing" => ~p.want

\* The page is covered.
Covered(l) == l.phase # "shown"
\* Its script has run.
ScriptRan(l) == l.file["app"] = "ok"
\* A page that is loading or loaded.
LoadOK(l) ==
    /\ "file" \in DOMAIN l /\ "phase" \in DOMAIN l
    /\ DOMAIN l.file = Files /\ (~ScriptRan(l) => Covered(l))
\* A page on which nothing has happened.
Blank(p) ==
    /\ ~p.rec /\ ~p.want /\ ~p.card /\ p.silent = 0 /\ ~p.usingR /\ ~p.rejoin
    /\ p.token = None /\ p.probing = "null" /\ p.pend = "none"
    /\ p.last = None /\ p.fallback = None
\* While it is covered nothing is under way but a first connection.
Cover(p, o) ==
    /\ LoadOK(p.load) /\ (~ScriptRan(p.load) => p.st = "blank")
    /\ Covered(p.load) => /\ ~o /\ p.pend = "none" /\ ~p.sr
                          /\ p.st = "opening" => \/ p.rec /\ p.last # None
                                                 \/ p.token # None /\ p.probing = "null"
    /\ p.st = "blank" => Blank(p)

\* Logging in with the token this device has been remembered by.
Using(p) ==
    p.usingR => /\ p.last = None /\ ~p.rejoin
                /\ p.st # "away" => /\ p.token # None /\ p.token = p.remember /\ p.st # "lobby"
                                    /\ p.st = "asked" => p.cred = p.token

\* What is remembered, and what will be.
Kinds(p, x) ==
    /\ p.remember # None => KindIn(x, p.remember) = "remember"
    /\ p.session # None => KindIn(x, p.session) = "session"
\* A token that is good for remembering a device is the one stored, or about to be.
Known(p, x) ==
    \A t \in x.valid : KindIn(x, t) = "remember" =>
        t = p.remember \/ \E m \in Items(x.mail) : m.re = "remember" /\ m.t = t
\* While one is being asked for, the one it replaces is the one stored, or no longer good.
Replaces(p, x) ==
    p.sr => Op(x, p.cred) /\ (p.remember = p.prev \/ p.remember \notin x.valid)
\* The choice on the card, until it is made good: who is not to be remembered has no
\* token left that would be.
Ticked(p, x) ==
    p.pend # "none" =>
        /\ p.token = None
        /\ \/ p.remember = None \/ p.remember \notin x.valid
           \/ p.pend = "tick" /\ case.who = "op" /\ (p.st \in {"asked", "lobby"} => Op(x, p.cred))

\* Nobody but an operator is let into the hub, which has no waiting room.
Hub(p, x) ==
    case.room = "hub" => /\ p.st # "lobby" /\ (p.st = "asked" => ~p.adm)
                         /\ p.st = "in" => Op(x, p.cred)

\* A page and what it can do next, but for the server's mail.
Fine(p, x, o) ==
    /\ Types(p) /\ Course(p, o) /\ Cover(p, o) /\ Using(p)
    /\ Kinds(p, x) /\ Replaces(p, x) /\ Ticked(p, x) /\ Hub(p, x)

\* What the server has to say, and what the page makes of it.
Room(p, x) == Server(x) /\ MailOK(x) /\ Expects(p, x) /\ Known(p, x)

\* The inductive invariant.
Inv == case \in Cases /\ s.out = <<>> /\ old \in BOOLEAN /\ Fine(s, srv, old) /\ Room(s, srv)

\* A server that has forgotten nothing, and lets nobody in again.
Grown(x, y) ==
    /\ Server(y)
    /\ \A t \in Tok : x.kind[t] # "" => y.kind[t] = x.kind[t] /\ (t \in y.valid => t \in x.valid)

\* A queue and one more.
Adds(q, m, w) == w = Append(q, m)
\* A queue without its first.
Takes(q, m, w) == q # <<>> /\ w = Tail(q) /\ m = Head(q)

\* A server that has said one thing more, about no token.
Aside(x, y) ==
    /\ SameServer(x, y)
    /\ \/ y.mail = x.mail
       \/ \E m : Adds(x.mail, m, y.mail) /\ m.re \in Said
\* Requests that are answered aside.
Plain == {"admit", "roster", "data", "status", "clearchat"}

\* The page waits for a token more than it did.
AlsoWaits(p, q, re) ==
    /\ q.st = "in" /\ q.silent = p.silent /\ q.remember = p.remember
    /\ q.sr <=> p.sr \/ re = "remember"
    /\ q.ss <=> p.ss \/ re = "session"
\* The answer may come after all that is on its way.
MayAsk(mail, re) ==
    /\ re = "remember" => \A a \in Items(mail) : a.re \notin Minted
    /\ re = "session" => \A a \in Items(mail) : a.re \notin {"session", "invite"}

\* What is new is one thing.
New(mail, w, re) == \A a \in Items(w) : a \in Items(mail) \/ a.re = re

\* The page waits for the same.
SameWaits(p, q) == q.st = p.st /\ q.sr = p.sr /\ q.ss = p.ss
\* The page remembers the same, or had nothing that counts.
Keeps(p, q, x) == q.remember = p.remember \/ p.remember \notin x.valid

\* A sequence is one of its own elements.
LEMMA ItsOwnItems ==
    ASSUME NEW S, NEW q \in Seq(S) PROVE Queue(q)
<1>1. DOMAIN q = 1 .. Len(q) /\ Len(q) \in Nat
  OBVIOUS
<1>2. \A i \in 1 .. Len(q) : q[i] \in Items(q)
  BY <1>1 DEF Items
<1>3. q = [i \in 1 .. Len(q) |-> q[i]]
  OBVIOUS
<1>4. q \in [1 .. Len(q) -> Items(q)]
  BY <1>2, <1>3
<1> QED
  BY <1>1, <1>4 DEF Queue

\* A queue and one more.
LEMMA OneMore ==
    ASSUME NEW q, Queue(q), NEW m, NEW w, Adds(q, m, w)
    PROVE  /\ Queue(w) /\ Items(w) = Items(q) \cup {m}
           /\ Len(q) \in Nat /\ DOMAIN q = 1 .. Len(q) /\ DOMAIN w = 1 .. Len(q) + 1
           /\ w[Len(q) + 1] = m /\ \A i \in DOMAIN q : w[i] = q[i]
<1> USE DEF Adds
<1>1. q \in Seq(Items(q) \cup {m})
  BY DEF Queue
<1>2. /\ w \in Seq(Items(q) \cup {m}) /\ Len(w) = Len(q) + 1 /\ Len(q) \in Nat
      /\ DOMAIN q = 1 .. Len(q) /\ DOMAIN w = 1 .. Len(q) + 1
      /\ w[Len(q) + 1] = m /\ \A i \in 1 .. Len(q) : w[i] = q[i]
  BY <1>1
<1>3. Items(w) \subseteq Items(q) \cup {m}
  <2>1. \A i \in DOMAIN w : i \in DOMAIN q \/ i = Len(q) + 1
    BY <1>2
  <2> QED
    BY <1>2, <2>1 DEF Items
<1>4. Items(q) \cup {m} \subseteq Items(w)
  <2>1. Len(q) + 1 \in DOMAIN w /\ \A i \in DOMAIN q : i \in DOMAIN w
    BY <1>2
  <2> QED
    BY <1>2, <2>1 DEF Items
<1>5. Items(w) = Items(q) \cup {m}
  BY <1>3, <1>4
<1> QED
  BY <1>2, <1>5 DEF Queue

\* A queue without its first element.
LEMMA OneLess ==
    ASSUME NEW q, Queue(q), NEW m, NEW w, Takes(q, m, w)
    PROVE  /\ Queue(w) /\ Items(q) = Items(w) \cup {m} /\ m = q[1]
           /\ Len(q) \in Nat \ {0} /\ DOMAIN q = 1 .. Len(q) /\ DOMAIN w = 1 .. Len(q) - 1
           /\ \A i \in DOMAIN w : w[i] = q[i + 1]
<1> USE DEF Takes
<1>1. /\ w \in Seq(Items(q)) /\ Len(w) = Len(q) - 1 /\ Len(q) \in Nat \ {0}
      /\ DOMAIN q = 1 .. Len(q) /\ DOMAIN w = 1 .. Len(q) - 1
      /\ m = q[1] /\ \A i \in 1 .. Len(q) - 1 : w[i] = q[i + 1]
  BY DEF Queue
<1>2. Items(w) \cup {q[1]} \subseteq Items(q)
  <2>1. 1 \in DOMAIN q /\ \A i \in DOMAIN w : i + 1 \in DOMAIN q
    BY <1>1
  <2> QED
    BY <1>1, <2>1 DEF Items
<1>3. Items(q) \subseteq Items(w) \cup {q[1]}
  <2>1. \A i \in DOMAIN q : i = 1 \/ (i - 1 \in DOMAIN w /\ w[i - 1] = q[i])
    BY <1>1
  <2> QED
    BY <2>1 DEF Items
<1>4. Queue(w)
  BY <1>1, ItsOwnItems
<1>5. Items(q) = Items(w) \cup {q[1]}
  BY <1>2, <1>3
<1> QED
  BY <1>1, <1>4, <1>5

\* There are finitely many lists in it.
LEMMA ListsFinite ==
    ASSUME NEW q, Queue(q)
    PROVE  IsFiniteSet(Lists(q)) /\ Cardinality(Lists(q)) \in Nat
<1>1. Len(q) \in Nat /\ DOMAIN q = 1 .. Len(q)
  BY DEF Queue
<1>2. IsFiniteSet(1 .. Len(q))
  BY <1>1, FS_Interval
<1>3. Lists(q) \subseteq 1 .. Len(q)
  BY <1>1 DEF Lists
<1>4. IsFiniteSet(Lists(q))
  BY <1>2, <1>3, FS_Subset
<1> QED
  BY <1>4, FS_CardinalityType

\* One more of them, or not.
LEMMA ListsOneMore ==
    ASSUME NEW q, Queue(q), NEW m, NEW w, Adds(q, m, w)
    PROVE  Cardinality(Lists(w)) = Cardinality(Lists(q)) + IF m.re = "list" THEN 1 ELSE 0
<1>1. /\ Len(q) \in Nat /\ DOMAIN q = 1 .. Len(q) /\ DOMAIN w = 1 .. Len(q) + 1
      /\ w[Len(q) + 1] = m /\ \A i \in DOMAIN q : w[i] = q[i]
  BY OneMore
<1>2. IsFiniteSet(Lists(q)) /\ Cardinality(Lists(q)) \in Nat
  BY ListsFinite
<1>3. Len(q) + 1 \notin Lists(q)
  BY <1>1 DEF Lists
<1>4. CASE m.re = "list"
  <2>1. Lists(w) = Lists(q) \cup {Len(q) + 1}
    <3>1. \A i \in DOMAIN w : i \in DOMAIN q \/ i = Len(q) + 1
      BY <1>1
    <3>2. Len(q) + 1 \in DOMAIN w /\ \A i \in DOMAIN q : i \in DOMAIN w
      BY <1>1
    <3> QED
      BY <1>1, <1>4, <3>1, <3>2 DEF Lists
  <2> QED
    BY <1>2, <1>3, <1>4, <2>1, FS_AddElement
<1>5. CASE m.re # "list"
  <2>1. Lists(w) = Lists(q)
    <3>1. \A i \in DOMAIN w : i \in DOMAIN q \/ i = Len(q) + 1
      BY <1>1
    <3>2. \A i \in DOMAIN q : i \in DOMAIN w
      BY <1>1
    <3> QED
      BY <1>1, <1>5, <3>1, <3>2 DEF Lists
  <2> QED
    BY <1>2, <1>5, <2>1
<1> QED
  BY <1>4, <1>5

\* One fewer of them, or not.
LEMMA ListsOneLess ==
    ASSUME NEW q, Queue(q), NEW m, NEW w, Takes(q, m, w)
    PROVE  Cardinality(Lists(q)) = Cardinality(Lists(w)) + IF m.re = "list" THEN 1 ELSE 0
<1>1. /\ Queue(w) /\ Len(q) \in Nat \ {0} /\ m = q[1]
      /\ DOMAIN q = 1 .. Len(q) /\ DOMAIN w = 1 .. Len(q) - 1
      /\ \A i \in DOMAIN w : w[i] = q[i + 1]
  BY OneLess
<1>2. IsFiniteSet(Lists(q)) /\ Cardinality(Lists(q)) \in Nat
  BY ListsFinite
<1>3. IsFiniteSet(Lists(w)) /\ Cardinality(Lists(w)) \in Nat
  BY <1>1, ListsFinite
<1> DEFINE rest == Lists(q) \ {1}
<1>4. Cardinality(Lists(w)) = Cardinality(rest)
  <2> DEFINE f == [i \in Lists(w) |-> i + 1]
  <2>1. \A i \in Lists(w) : i + 1 \in rest
    BY <1>1 DEF Lists
  <2>2. \A j \in rest : j - 1 \in Lists(w) /\ j = (j - 1) + 1
    BY <1>1 DEF Lists
  <2>3. \A i \in Lists(w) : i \in Int
    BY <1>1 DEF Lists
  <2>4. f \in Bijection(Lists(w), rest)
    <3>1. f \in [Lists(w) -> rest]
      BY <2>1
    <3>2. \A i, j \in Lists(w) : f[i] = f[j] => i = j
      BY <2>3
    <3>3. \A j \in rest : \E i \in Lists(w) : f[i] = j
      BY <2>2
    <3> QED
      BY <3>1, <3>2, <3>3, Fun_IsBij
  <2>5. ExistsBijection(Lists(w), rest)
    BY <2>4 DEF ExistsBijection
  <2> QED
    BY <1>3, <2>5, FS_Bijection
<1>5. Cardinality(rest) = IF 1 \in Lists(q) THEN Cardinality(Lists(q)) - 1 ELSE Cardinality(Lists(q))
  BY <1>2, FS_RemoveElement
<1>6. 1 \in Lists(q) <=> m.re = "list"
  BY <1>1 DEF Lists
<1> QED
  BY <1>2, <1>4, <1>5, <1>6

\* Nothing said at all.
LEMMA Silence ==
    /\ Queue(<<>>) /\ Items(<<>>) = {} /\ InOrder(<<>>) /\ Cardinality(Lists(<<>>)) = 0
<1>1. Items(<<>>) = {} /\ Lists(<<>>) = {} /\ InOrder(<<>>)
  BY DEF Items, Lists, InOrder
<1>2. Queue(<<>>)
  BY DEF Queue
<1> QED
  BY <1>1, <1>2, FS_EmptySet

\* The order stays one when what is added may come after all that is there,
\* and when what is first is taken.
LEMMA OrderOneMore ==
    ASSUME NEW q, Queue(q), InOrder(q), NEW m, NEW w, Adds(q, m, w),
           m.re = "remember" => \A a \in Items(q) : a.re \notin Minted,
           m.re = "session" => \A a \in Items(q) : a.re \notin {"session", "invite"}
    PROVE  InOrder(w)
<1>1. /\ Len(q) \in Nat /\ DOMAIN q = 1 .. Len(q) /\ DOMAIN w = 1 .. Len(q) + 1
      /\ w[Len(q) + 1] = m /\ \A i \in DOMAIN q : w[i] = q[i]
  BY OneMore
<1>2. SUFFICES ASSUME NEW i \in DOMAIN w, NEW j \in DOMAIN w, i < j
               PROVE  /\ w[j].re = "remember" => w[i].re \notin Minted
                      /\ w[j].re = "session" => w[i].re \notin {"session", "invite"}
  BY DEF InOrder
<1>3. i \in DOMAIN q /\ w[i] = q[i] /\ w[i] \in Items(q)
  BY <1>1, <1>2 DEF Items
<1>4. CASE j = Len(q) + 1
  BY <1>1, <1>3, <1>4
<1>5. CASE j \in DOMAIN q
  BY <1>1, <1>2, <1>3, <1>5 DEF InOrder
<1> QED
  BY <1>1, <1>4, <1>5

\* What is left when the first is taken is still in order, and nothing comes
\* after an answer that should have come before it.
LEMMA OrderOneLess ==
    ASSUME NEW q, Queue(q), InOrder(q), NEW m, NEW w, Takes(q, m, w)
    PROVE  /\ InOrder(w)
           /\ \A a \in Items(w) : /\ a.re = "remember" => m.re \notin Minted
                                  /\ a.re = "session" => m.re \notin {"session", "invite"}
<1>1. /\ Len(q) \in Nat \ {0} /\ m = q[1]
      /\ DOMAIN q = 1 .. Len(q) /\ DOMAIN w = 1 .. Len(q) - 1
      /\ \A i \in DOMAIN w : w[i] = q[i + 1]
  BY OneLess
<1>2. InOrder(w)
  <2>1. SUFFICES ASSUME NEW i \in DOMAIN w, NEW j \in DOMAIN w, i < j
                 PROVE  /\ w[j].re = "remember" => w[i].re \notin Minted
                        /\ w[j].re = "session" => w[i].re \notin {"session", "invite"}
    BY DEF InOrder
  <2>2. /\ i + 1 \in DOMAIN q /\ j + 1 \in DOMAIN q /\ i + 1 < j + 1
        /\ w[i] = q[i + 1] /\ w[j] = q[j + 1]
    BY <1>1, <2>1
  <2> QED
    BY <2>2 DEF InOrder
<1>3. SUFFICES ASSUME NEW a \in Items(w)
               PROVE  /\ a.re = "remember" => m.re \notin Minted
                      /\ a.re = "session" => m.re \notin {"session", "invite"}
  BY <1>2
<1>4. PICK i \in DOMAIN w : a = w[i]
  BY DEF Items
<1>5. 1 \in DOMAIN q /\ i + 1 \in DOMAIN q /\ 1 < i + 1 /\ a = q[i + 1]
  BY <1>1, <1>4
<1> QED
  BY <1>1, <1>5 DEF InOrder

\* What is no token.
LEMMA NoToken == None \notin Tok /\ Pw \notin Tok /\ Pw # None /\ Tok \subseteq Nat
  BY PageAssumption DEF None, Pw, Tok

\* A server that is the same as far as its tokens go has grown.
LEMMA SameIsGrown ==
    ASSUME NEW x, Server(x), NEW y, SameServer(x, y) PROVE Grown(x, y)
  BY DEF SameServer, Grown, Server

\* The kind of a token that has one stays what it is.
LEMMA KindStays ==
    ASSUME NEW x, Server(x), NEW y, Grown(x, y), NEW t, KindIn(x, t) # ""
    PROVE  KindIn(y, t) = KindIn(x, t) /\ (t \in y.valid => t \in x.valid)
  BY DEF Grown, KindIn, Server

\* Whoever is an operator to a server stays one.
LEMMA OpStays ==
    ASSUME NEW x, Server(x), NEW y, Grown(x, y), NEW t, Op(x, t) PROVE Op(y, t)
<1>1. CASE KindIn(x, t) \in {"session", "remember"}
  <2>1. KindIn(x, t) # ""
    BY <1>1
  <2> QED
    BY <1>1, <2>1, KindStays DEF Op
<1>2. CASE t = Pw /\ case.who = "op"
  BY <1>2 DEF Op
<1> QED
  BY <1>1, <1>2 DEF Op

\* A page is as fine with such a server as it was.
LEMMA FineStays ==
    ASSUME NEW p, NEW x, NEW o, Fine(p, x, o), Server(x), NEW y, Grown(x, y)
    PROVE  Fine(p, y, o)
<1>1. Kinds(p, y)
  <2>1. p.remember # None => KindIn(y, p.remember) = "remember"
    BY KindStays DEF Fine, Kinds
  <2>2. p.session # None => KindIn(y, p.session) = "session"
    BY KindStays DEF Fine, Kinds
  <2> QED
    BY <2>1, <2>2 DEF Kinds
<1>2. p.remember = None \/ p.remember \notin x.valid => p.remember = None \/ p.remember \notin y.valid
  <2>1. p.remember # None => KindIn(x, p.remember) # ""
    BY DEF Fine, Kinds
  <2> QED
    BY <2>1, KindStays
<1>3. None \notin y.valid
  BY NoToken DEF Grown, Server
<1>4. Replaces(p, y)
  BY <1>2, <1>3, OpStays DEF Fine, Replaces
<1>5. Ticked(p, y)
  BY <1>2, OpStays DEF Fine, Ticked
<1>6. Hub(p, y)
  BY OpStays DEF Fine, Hub
<1> QED
  BY <1>1, <1>4, <1>5, <1>6 DEF Fine

\* What is said aside: only its mail, and what is none of its tokens', change.
LEMMA AsideBy ==
    ASSUME NEW x, Server(x), NEW y, Record(y), y.valid = x.valid, y.lapsed = x.lapsed, y.kind = x.kind,
           NEW m, Adds(x.mail, m, y.mail), m.re \in Said
    PROVE  Aside(x, y)
<1>1. SameServer(x, y)
  BY DEF SameServer, Server
<1> QED
  BY <1>1 DEF Aside

\* These requests do no more than that.
LEMMA PlainIsAside ==
    ASSUME NEW x, Server(x), NEW r, r.req \in Plain, NEW y, y = Serve(x, r)
    PROVE  Aside(x, y)
<1> DEFINE Like(m) == /\ Record(y) /\ y.valid = x.valid /\ y.lapsed = x.lapsed /\ y.kind = x.kind
                      /\ Adds(x.mail, m, y.mail)
<1>1. Record(x)
  BY DEF Server
<1>2. CASE r.req = "admit"
  <2>1. PICK m : m = [re |-> "knockcancel", t |-> None]
    OBVIOUS
  <2>2. m.re \in Said
    BY <2>1 DEF Said
  <2>3. y = [x EXCEPT !.knocker = FALSE, !.mail = Append(@, m)]
    BY <1>2, <2>1 DEF Serve
  <2>4. Like(m)
    BY <1>1, <2>3 DEF Record, Adds
  <2> QED
    BY <2>2, <2>4, AsideBy
<1>3. CASE r.req = "roster"
  <2>1. PICK m : m = [re |-> "knock", t |-> None]
    OBVIOUS
  <2>2. PICK n : n = [re |-> "data", t |-> 0]
    OBVIOUS
  <2>3. m.re \in Said /\ n.re \in Said
    BY <2>1, <2>2 DEF Said
  <2>4. \/ y = [x EXCEPT !.mail = Append(@, m)]
        \/ y = [x EXCEPT !.away = 0, !.mail = Append(@, n)]
        \/ y = x
    BY <1>3, <2>1, <2>2 DEF Serve
  <2>5. CASE y = [x EXCEPT !.mail = Append(@, m)]
    <3>1. Like(m)
      BY <1>1, <2>5 DEF Record, Adds
    <3> QED
      BY <2>3, <3>1, AsideBy
  <2>6. CASE y = [x EXCEPT !.away = 0, !.mail = Append(@, n)]
    <3>1. Like(n)
      BY <1>1, <2>6 DEF Record, Adds
    <3> QED
      BY <2>3, <3>1, AsideBy
  <2>7. CASE y = x
    BY <2>7 DEF Aside, SameServer
  <2> QED
    BY <2>4, <2>5, <2>6, <2>7
<1>4. CASE r.req = "data"
  <2>1. PICK m : m = [re |-> "data", t |-> r.t]
    OBVIOUS
  <2>2. m.re \in Said
    BY <2>1 DEF Said
  <2>3. y = [x EXCEPT !.away = r.t, !.mail = Append(@, m)]
    BY <1>4, <2>1 DEF Serve
  <2>4. Like(m)
    BY <1>1, <2>3 DEF Record, Adds
  <2> QED
    BY <2>2, <2>4, AsideBy
<1>5. CASE r.req = "status"
  <2>1. PICK m : m = [re |-> "status", t |-> None, knocking |-> x.queue]
    OBVIOUS
  <2>2. m.re \in Said
    BY <2>1 DEF Said
  <2>3. y = [x EXCEPT !.mail = Append(@, m)]
    BY <1>5, <2>1 DEF Serve
  <2>4. Like(m)
    BY <1>1, <2>3 DEF Record, Adds
  <2> QED
    BY <2>2, <2>4, AsideBy
<1>6. CASE r.req = "clearchat"
  <2>1. PICK m : m = [re |-> "clearchat", t |-> None]
    OBVIOUS
  <2>2. m.re \in Said
    BY <2>1 DEF Said
  <2>3. y = [x EXCEPT !.hist = 0, !.mail = Append(@, m)]
    BY <1>6, <2>1 DEF Serve
  <2>4. Like(m)
    BY <1>1, <2>3 DEF Record, Adds
  <2> QED
    BY <2>2, <2>4, AsideBy
<1> QED
  BY <1>2, <1>3, <1>4, <1>5, <1>6 DEF Plain

\* One thing more in the mail.
LEMMA MailOneMore ==
    ASSUME NEW x, MailOK(x), NEW y, Server(x), Grown(x, y),
           NEW m, Adds(x.mail, m, y.mail), Answered(y, m),
           m.re = "remember" => \A a \in Items(x.mail) : a.re \notin Minted,
           m.re = "session" => \A a \in Items(x.mail) : a.re \notin {"session", "invite"}
    PROVE  /\ MailOK(y) /\ Items(y.mail) = Items(x.mail) \cup {m}
           /\ Cardinality(Lists(x.mail)) \in Nat
           /\ Cardinality(Lists(y.mail)) =
                  Cardinality(Lists(x.mail)) + IF m.re = "list" THEN 1 ELSE 0
<1>1. PICK q : q = x.mail
  OBVIOUS
<1>2. PICK w : w = y.mail
  OBVIOUS
<1>3. Queue(q) /\ InOrder(q) /\ Adds(q, m, w)
  BY <1>1, <1>2 DEF MailOK
<1>4. Queue(w) /\ Items(w) = Items(q) \cup {m}
  BY <1>3, OneMore
<1>5. InOrder(w)
  BY <1>1, <1>3, OrderOneMore
<1>6. Cardinality(Lists(q)) \in Nat
  BY <1>3, ListsFinite
<1>7. Cardinality(Lists(w)) = Cardinality(Lists(q)) + IF m.re = "list" THEN 1 ELSE 0
  BY <1>3, ListsOneMore
<1>8. ASSUME NEW a \in Items(w) PROVE Answered(y, a)
  <2>1. CASE a = m
    BY <2>1
  <2>2. CASE a \in Items(q)
    <3>1. Answered(x, a)
      BY <1>1, <2>2 DEF MailOK
    <3>2. a.re \in Minted /\ a.t # None => KindIn(x, a.t) # ""
      BY <3>1 DEF Answered, Minted
    <3>3. a.re \in Minted /\ a.t # None => KindIn(y, a.t) = KindIn(x, a.t)
      BY <3>2, KindStays
    <3> QED
      BY <3>1, <3>3 DEF Answered
  <2> QED
    BY <1>4, <1>8, <2>1, <2>2
<1> QED
  BY <1>1, <1>2, <1>4, <1>5, <1>6, <1>7, <1>8 DEF MailOK

\* What comes after it has the same mail, where the page waits for nothing else.
LEMMA RoomKeeps ==
    ASSUME NEW p, NEW x, Room(p, x), NEW q, SameWaits(p, q), Keeps(p, q, x),
           q.st = "in" => q.silent = p.silent
    PROVE  Room(q, x)
<1>1. Expects(q, x)
  BY DEF Room, Expects, SameWaits
<1>2. Known(q, x)
  BY DEF Room, Known, Keeps
<1> QED
  BY <1>1, <1>2 DEF Room

\* The page is in, and the server says something that is about no token.
LEMMA RoomAside ==
    ASSUME NEW p, NEW x, Room(p, x), p.st \in {"in", "closing"}, NEW y, Aside(x, y)
    PROVE  Room(p, y) /\ Grown(x, y)
<1>1. Grown(x, y)
  BY SameIsGrown DEF Room, Aside
<1>2. CASE y.mail = x.mail
  <2>1. MailOK(y)
    BY <1>2 DEF Room, MailOK, Aside, SameServer, Answered, KindIn
  <2>2. Expects(p, y)
    BY <1>2 DEF Room, Expects
  <2>3. Known(p, y)
    BY <1>2 DEF Room, Known, Aside, SameServer, KindIn
  <2> QED
    BY <1>1, <2>1, <2>2, <2>3 DEF Room, Grown
<1>3. ASSUME NEW m, Adds(x.mail, m, y.mail), m.re \in Said
      PROVE  Room(p, y)
  <2>1. Answered(y, m) /\ m.re # "remember" /\ m.re # "session" /\ m.re # "list"
    BY <1>3 DEF Answered, Minted, Said
  <2>2. /\ MailOK(y) /\ Items(y.mail) = Items(x.mail) \cup {m}
        /\ Cardinality(Lists(x.mail)) \in Nat
        /\ Cardinality(Lists(y.mail)) = Cardinality(Lists(x.mail))
    BY <1>1, <1>3, <2>1, MailOneMore DEF Room
  <2>3. Expects(p, y)
    BY <2>1, <2>2 DEF Room, Expects, Has
  <2>4. Known(p, y)
    <3>1. y.valid = x.valid /\ \A t : KindIn(y, t) = KindIn(x, t)
      BY DEF Aside, SameServer, KindIn
    <3> QED
      BY <2>2, <3>1 DEF Room, Known
  <2> QED
    BY <1>1, <2>2, <2>3, <2>4 DEF Room, Grown
<1> QED
  BY <1>1, <1>2, <1>3 DEF Aside

\* The page asks for a token to be revoked: what the server makes of that,
LEMMA MailRevoke ==
    ASSUME NEW p, NEW x, Server(x), MailOK(x), Expects(p, x), p.st = "in", p.silent \in Nat,
           NEW r, r.req = "revoke", NEW y, y = Serve(x, r),
           NEW q, SameWaits(p, q), q.silent = p.silent + 1
    PROVE  /\ MailOK(y) /\ Expects(q, y) /\ Grown(x, y) /\ Items(x.mail) \subseteq Items(y.mail)
           /\ y.valid = x.valid \ {r.t} /\ y.kind = x.kind
<1>1. PICK m : m = [re |-> "list", t |-> None]
  OBVIOUS
<1>2. y = [x EXCEPT !.valid = @ \ {r.t}, !.mail = Append(@, m)]
  BY <1>1 DEF Serve
<1>3. Server(y) /\ y.valid = x.valid \ {r.t} /\ y.kind = x.kind /\ Adds(x.mail, m, y.mail)
  <2>1. Record(x)
    BY DEF Server
  <2>2. /\ Record(y) /\ y.valid = x.valid \ {r.t} /\ y.lapsed = x.lapsed /\ y.kind = x.kind
        /\ Adds(x.mail, m, y.mail)
    BY <1>2, <2>1 DEF Record, Adds
  <2> QED
    BY <2>2 DEF Server
<1>4. Grown(x, y)
  BY <1>3 DEF Grown
<1>5. Answered(y, m) /\ m.re = "list" /\ m.re # "remember" /\ m.re # "session"
  BY <1>1 DEF Answered, Minted
<1>6. /\ MailOK(y) /\ Items(y.mail) = Items(x.mail) \cup {m}
      /\ Cardinality(Lists(x.mail)) \in Nat
      /\ Cardinality(Lists(y.mail)) = Cardinality(Lists(x.mail)) + 1
  BY <1>3, <1>4, <1>5, MailOneMore
<1>7. Expects(q, y)
  BY <1>5, <1>6 DEF Expects, Has, SameWaits
<1> QED
  BY <1>3, <1>4, <1>6, <1>7

\* and that what the page has to know of it is known.
LEMMA RoomRevoke ==
    ASSUME NEW p, NEW x, Room(p, x), p.st = "in", p.silent \in Nat, NEW r, r.req = "revoke",
           NEW y, y = Serve(x, r), NEW q, SameWaits(p, q), q.silent = p.silent + 1,
           q.remember = p.remember \/ p.remember = r.t \/ p.remember \notin x.valid
    PROVE  Room(q, y) /\ Grown(x, y)
<1>1. /\ MailOK(y) /\ Expects(q, y) /\ Grown(x, y) /\ Items(x.mail) \subseteq Items(y.mail)
      /\ y.valid = x.valid \ {r.t} /\ y.kind = x.kind
  BY MailRevoke DEF Room
<1>2. Known(q, y)
  BY <1>1 DEF Room, Known, KindIn
<1> QED
  BY <1>1, <1>2 DEF Room, Grown

\* Some numbers have a smallest.
LEMMA SmallestIsThere ==
    ASSUME NEW S, S # {}, S \subseteq Nat
    PROVE  \E t \in S : \A u \in S : t <= u
<1>1. PICK t \in S : \A u \in S : <<u, t>> \notin OpToRel(<, Nat)
  BY NatLessThanWellFounded, WFMin, Zenon
<1>2. \A u \in S : ~(u < t)
  BY <1>1, Zenon DEF OpToRel
<1> QED
  BY <1>2

\* The page asks for a token.
LEMMA RoomMint ==
    ASSUME NEW p, NEW x, Room(p, x), p.st = "in", NEW r, r.req \in Minted,
           NEW y, y = Serve(x, r), NEW q, AlsoWaits(p, q, r.req), MayAsk(x.mail, r.req)
    PROVE  Room(q, y) /\ Grown(x, y) /\ New(x.mail, y.mail, r.req)
<1> DEFINE free == {t \in Tok : x.kind[t] = ""}
           n == CHOOSE t \in free : \A u \in free : t <= u
<1>1. \E m : /\ Grown(x, y) /\ Adds(x.mail, m, y.mail) /\ Answered(y, m) /\ m.re = r.req
             /\ \A t \in y.valid : \/ t \in x.valid /\ KindIn(y, t) = KindIn(x, t)
                                   \/ t = m.t /\ KindIn(y, t) = m.re
  <2>1. CASE free = {}
    <3>1. PICK m : m = [re |-> r.req, t |-> None]
      OBVIOUS
    <3>2. y = [x EXCEPT !.mail = Append(@, m)]
      BY <2>1, <3>1 DEF Serve, Minted
    <3>3. SameServer(x, y) /\ Adds(x.mail, m, y.mail)
      <4>1. Record(x)
        BY DEF Room, Server
      <4>2. /\ Record(y) /\ y.valid = x.valid /\ y.lapsed = x.lapsed /\ y.kind = x.kind
            /\ Adds(x.mail, m, y.mail)
        BY <3>2, <4>1 DEF Record, Adds
      <4> QED
        BY <4>2 DEF Room, Server, SameServer
    <3>4. Answered(y, m) /\ m.re = r.req
      BY <3>1 DEF Answered, Someone
    <3>5. Grown(x, y)
      BY <3>3, SameIsGrown DEF Room
    <3>6. \A t \in y.valid : t \in x.valid /\ KindIn(y, t) = KindIn(x, t)
      BY <3>3 DEF SameServer, KindIn
    <3> QED
      BY <3>3, <3>4, <3>5, <3>6
  <2>2. CASE free # {}
    <3>1. PICK m : m = [re |-> r.req, t |-> n]
      OBVIOUS
    <3>2. y = [x EXCEPT !.valid = @ \cup {n}, !.kind[n] = r.req, !.mail = Append(@, m)]
      BY <2>2, <3>1 DEF Serve, Minted
    <3>3. n \in free
      <4>1. free \subseteq Nat
        BY NoToken
      <4>2. \E t \in free : \A u \in free : t <= u
        BY <2>2, <4>1, SmallestIsThere
      <4> QED
        BY <4>2
    <3> HIDE DEF n
    <3>4. n \in Tok /\ x.kind[n] = "" /\ n \notin x.valid /\ n \notin x.lapsed
      BY <3>3 DEF Room, Server
    <3>5. r.req \in TokenKinds /\ r.req # ""
      BY DEF Minted, TokenKinds
    <3>6. /\ Record(y)
          /\ y.valid = x.valid \cup {n} /\ y.lapsed = x.lapsed /\ y.kind = [x.kind EXCEPT ![n] = r.req]
          /\ Adds(x.mail, m, y.mail)
      <4>1. Record(x)
        BY DEF Room, Server
      <4> QED
        BY <3>2, <4>1 DEF Record, Adds
    <3>7. /\ y.kind \in [Tok -> TokenKinds] /\ y.kind[n] = r.req
          /\ \A t \in Tok : t # n => y.kind[t] = x.kind[t]
      BY <3>4, <3>5, <3>6 DEF Room, Server
    <3>8. Server(y)
      <4>1. y.valid \subseteq Tok /\ y.lapsed \subseteq Tok /\ y.valid \cap y.lapsed = {}
        BY <3>4, <3>6 DEF Room, Server
      <4>2. \A t \in y.valid \cup y.lapsed : y.kind[t] # ""
        <5>1. SUFFICES ASSUME NEW t \in y.valid \cup y.lapsed PROVE y.kind[t] # ""
          OBVIOUS
        <5>2. CASE t = n
          BY <3>5, <3>7, <5>2
        <5>3. CASE t # n
          <6>1. t \in x.valid \cup x.lapsed /\ t \in Tok /\ x.kind[t] # ""
            BY <3>6, <5>3 DEF Room, Server
          <6> QED
            BY <3>7, <5>3, <6>1
        <5> QED
          BY <5>2, <5>3
      <4> QED
        BY <3>6, <3>7, <4>1, <4>2 DEF Server
    <3>9. Grown(x, y)
      BY <3>4, <3>6, <3>7, <3>8 DEF Grown
    <3>10. Answered(y, m) /\ m.re = r.req /\ m.t = n
      BY <3>1, <3>4, <3>7 DEF Answered, Someone, KindIn
    <3>11. \A t \in y.valid : \/ t \in x.valid /\ KindIn(y, t) = KindIn(x, t)
                              \/ t = m.t /\ KindIn(y, t) = m.re
      <4>1. y.valid = x.valid \cup {n} /\ x.valid \subseteq Tok
        BY <3>6 DEF Room, Server
      <4>2. KindIn(y, n) = r.req
        BY <3>4, <3>7 DEF KindIn
      <4>3. \A t \in x.valid : KindIn(y, t) = KindIn(x, t)
        BY <3>4, <3>7, <4>1 DEF KindIn
      <4> QED
        BY <3>10, <4>1, <4>2, <4>3
    <3> QED
      BY <3>6, <3>9, <3>10, <3>11
  <2> QED
    BY <2>1, <2>2
<1> HIDE DEF n, free
<1>2. PICK m : /\ Grown(x, y) /\ Adds(x.mail, m, y.mail) /\ Answered(y, m) /\ m.re = r.req
               /\ \A t \in y.valid : \/ t \in x.valid /\ KindIn(y, t) = KindIn(x, t)
                                     \/ t = m.t /\ KindIn(y, t) = m.re
  BY <1>1
<1>3. /\ MailOK(y) /\ Items(y.mail) = Items(x.mail) \cup {m}
      /\ Cardinality(Lists(x.mail)) \in Nat
      /\ Cardinality(Lists(y.mail)) = Cardinality(Lists(x.mail)) + IF m.re = "list" THEN 1 ELSE 0
  <2>1. /\ m.re = "remember" => \A a \in Items(x.mail) : a.re \notin Minted
        /\ m.re = "session" => \A a \in Items(x.mail) : a.re \notin {"session", "invite"}
    BY <1>2 DEF MayAsk
  <2> QED
    BY <1>2, <2>1, MailOneMore DEF Room
<1>4. m.re # "list"
  BY <1>2 DEF Minted
<1>5. Expects(q, y)
  BY <1>2, <1>3, <1>4 DEF Room, Expects, Has, AlsoWaits
<1>6. Known(q, y)
  <2>1. SUFFICES ASSUME NEW t \in y.valid, KindIn(y, t) = "remember", t # q.remember
                 PROVE  \E a \in Items(y.mail) : a.re = "remember" /\ a.t = t
    BY DEF Known
  <2>2. CASE t \in x.valid /\ KindIn(y, t) = KindIn(x, t)
    BY <1>3, <2>1, <2>2 DEF Room, Known, AlsoWaits
  <2>3. CASE t = m.t /\ KindIn(y, t) = m.re
    BY <1>3, <2>1, <2>3
  <2> QED
    BY <1>2, <2>2, <2>3
<1>7. New(x.mail, y.mail, r.req)
  BY <1>2, <1>3 DEF New
<1> QED
  BY <1>2, <1>3, <1>5, <1>6, <1>7 DEF Room, Grown

\* What the server makes of at most three requests.
LEMMA ServedIs ==
    ASSUME NEW x, NEW out, NEW l \in 0..3, Len(out) = l
    PROVE  LET one == Serve(x, out[1])
               two == Serve(one, out[2])
           IN  /\ l = 0 => Served(x, out) = x
               /\ l = 1 => Served(x, out) = one
               /\ l = 2 => Served(x, out) = two
               /\ l = 3 => Served(x, out) = Serve(two, out[3])
<1> DEFINE after == CHOOSE a : a = [n \in 0..l |-> IF n = 0 THEN x ELSE Serve(a[n - 1], out[n])]
           one == Serve(x, out[1])
           two == Serve(one, out[2])
<1>1. Served(x, out) = after[l]
  BY DEF Served
<1>2. \E a : a = [n \in 0..l |-> IF n = 0 THEN x ELSE Serve(a[n - 1], out[n])]
  <2> DEFINE b == [n \in 0..l |-> IF n = 0 THEN x ELSE IF n = 1 THEN one
                                         ELSE IF n = 2 THEN two ELSE Serve(two, out[3])]
  <2>1. \A n \in 0..l : b[n] = IF n = 0 THEN x ELSE Serve(b[n - 1], out[n])
    <3> SUFFICES ASSUME NEW n \in 0..l
                 PROVE  b[n] = IF n = 0 THEN x ELSE Serve(b[n - 1], out[n])
      OBVIOUS
    <3>1. n \in {0, 1, 2, 3}
      <4> HIDE DEF b, one, two
      <4> QED
        OBVIOUS
    <3>2. CASE n = 0
      BY <3>2
    <3>3. CASE n = 1
      BY <3>3
    <3>4. CASE n = 2
      BY <3>4
    <3>5. CASE n = 3
      BY <3>5
    <3> QED
      BY <3>1, <3>2, <3>3, <3>4, <3>5
  <2>2. b = [n \in 0..l |-> IF n = 0 THEN x ELSE Serve(b[n - 1], out[n])]
    BY <2>1
  <2> QED
    BY <2>2
<1>3. after = [n \in 0..l |-> IF n = 0 THEN x ELSE Serve(after[n - 1], out[n])]
  BY <1>2
<1> HIDE DEF after
<1>4. \A n \in 0..l : after[n] = IF n = 0 THEN x ELSE Serve(after[n - 1], out[n])
  BY <1>3
<1>5. after[0] = x
  BY <1>4
<1>6. l >= 1 => after[1] = one
  BY <1>4, <1>5
<1>7. l >= 2 => after[2] = two
  BY <1>4, <1>6
<1>8. l = 3 => after[3] = Serve(two, out[3])
  BY <1>4, <1>7
<1> QED
  BY <1>1, <1>5, <1>6, <1>7, <1>8

\* ... of none, and of one.
LEMMA ServedNone ==
    ASSUME NEW x PROVE Served(x, <<>>) = x
<1>1. PICK out : out = <<>>
  OBVIOUS
<1>2. Len(out) = 0
  BY <1>1
<1>3. Served(x, out) = x
  <2>1. 0 \in 0..3
    OBVIOUS
  <2> QED
    BY <1>2, <2>1, ServedIs
<1> QED
  BY <1>1, <1>3

\* ... and of a single one.
LEMMA ServedOne ==
    ASSUME NEW x, NEW r PROVE Served(x, <<r>>) = Serve(x, r)
<1>1. PICK out : out = <<r>>
  OBVIOUS
<1>2. Len(out) = 1 /\ out[1] = r
  BY <1>1
<1>3. Served(x, out) = Serve(x, out[1])
  <2>1. 1 \in 0..3
    OBVIOUS
  <2> QED
    BY <1>2, <2>1, ServedIs
<1> QED
  BY <1>1, <1>2, <1>3

\* A page that differs in nothing of this is as fine.
LEMMA FineAlike ==
    ASSUME NEW p, NEW x, NEW o, Fine(p, x, o), NEW q, Alike(p, q)
    PROVE  Fine(q, x, o)
<1> USE DEF Alike, SameTokens, SameLogin, SamePlace, SameCall, SameCard
<1>1. Types(q)
  BY DEF Fine, Types, Flags
<1>2. Course(q, o)
  BY DEF Fine, Course
<1>3. Cover(q, o)
  BY DEF Fine, Cover, Blank
<1>4. Using(q)
  BY DEF Fine, Using
<1>5. Kinds(q, x)
  BY DEF Fine, Kinds
<1>6. Replaces(q, x)
  BY DEF Fine, Replaces
<1>7. Ticked(q, x)
  BY DEF Fine, Ticked
<1>8. Hub(q, x)
  BY DEF Fine, Hub
<1> QED
  BY <1>1, <1>2, <1>3, <1>4, <1>5, <1>6, <1>7, <1>8 DEF Fine

\* Such a page has as much to expect of the server.
LEMMA RoomAlike ==
    ASSUME NEW p, NEW x, Room(p, x), NEW q, Alike(p, q)
    PROVE  Room(q, x)
  BY DEF Room, Expects, Known, Alike, SameTokens, SamePlace, SameCard

\* And so has a page that is like that one.
LEMMA AlikeTwice ==
    ASSUME NEW p, NEW q, NEW r, Alike(p, q), Alike(q, r)
    PROVE  Alike(p, r)
  BY DEF Alike, SameTokens, SameLogin, SamePlace, SameCall, SameCard

\* What the page is after its turn.
LEMMA Turned ==
    ASSUME NEW q, Whole(q), Turn(q)
    PROVE  /\ Alike(q, s') /\ s'.out = <<>>
           /\ q.st \in {"in", "closing"} => srv' = Served(srv, q.out)
           /\ q.st \notin {"in", "closing"} => srv' = [Served(srv, q.out) EXCEPT !.mail = <<>>]
<1>1. s' = [q EXCEPT !.out = <<>>, !.had = Had(q), !.bg = Background(q)]
  BY DEF Turn
<1>2. PICK h : h = Had(q)
  OBVIOUS
<1>3. PICK b : b = Background(q)
  OBVIOUS
<1>4. s' = [q EXCEPT !.out = <<>>, !.had = h, !.bg = b]
  BY <1>1, <1>2, <1>3
<1>5. Alike(q, s') /\ s'.out = <<>>
  BY <1>4 DEF Whole, Alike, SameTokens, SameLogin, SamePlace, SameCall, SameCard
<1>6. /\ q.st \in {"in", "closing"} => srv' = Served(srv, q.out)
      /\ q.st \notin {"in", "closing"} => srv' = [Served(srv, q.out) EXCEPT !.mail = <<>>]
  <2>1. PICK x : x = Served(srv, q.out)
    OBVIOUS
  <2>2. srv' = IF q.st \in {"in", "closing"} THEN x ELSE [x EXCEPT !.mail = <<>>]
    BY <2>1 DEF Turn
  <2> QED
    BY <2>1, <2>2
<1> QED
  BY <1>5, <1>6

\* The parts of the invariant after a step.
LEMMA InvNext ==
    ASSUME case \in Cases, case' = case, old' \in BOOLEAN, s'.out = <<>>,
           Fine(s', srv', old'), Room(s', srv')
    PROVE  Inv'
<1>1. Fine(s, srv, old)'
  <2>1. Replaces(s, srv)'
    BY DEF Fine, Replaces, Op
  <2>2. Ticked(s, srv)'
    BY DEF Fine, Ticked, Op
  <2>3. Hub(s, srv)'
    BY DEF Fine, Hub, Op
  <2> QED
    BY <2>1, <2>2, <2>3 DEF Fine
<1> QED
  BY <1>1 DEF Inv

\* A server with the same tokens and the same mail.
LEMMA RoomSameMail ==
    ASSUME NEW p, NEW x, Room(p, x), NEW y, SameServer(x, y), y.mail = x.mail
    PROVE  Room(p, y)
<1>1. MailOK(y)
  BY DEF Room, MailOK, SameServer, Answered, KindIn
<1>2. Expects(p, y)
  BY DEF Room, Expects
<1>3. Known(p, y)
  BY DEF Room, Known, SameServer, KindIn
<1> QED
  BY <1>1, <1>2, <1>3 DEF Room, SameServer

\* The page has nothing of this changed, and nothing to send.
LEMMA StepAlike ==
    ASSUME Inv, Alike(s, s'), s'.out = <<>>, UNCHANGED <<case, old>>,
           Aside(srv, srv'), s.st \in {"in", "closing"} \/ srv'.mail = srv.mail
    PROVE  Inv'
<1>1. Fine(s, srv, old) /\ Room(s, srv)
  BY DEF Inv
<1>2. Grown(srv, srv')
  BY <1>1, SameIsGrown DEF Room, Aside
<1>3. Fine(s', srv', old')
  <2>1. Fine(s, srv', old)
    BY <1>1, <1>2, FineStays DEF Room
  <2> QED
    BY <2>1, FineAlike
<1>4. Room(s, srv')
  <2>1. CASE s.st \in {"in", "closing"}
    BY <1>1, <2>1, RoomAside
  <2>2. CASE srv'.mail = srv.mail
    BY <1>1, <1>2, <2>2, RoomSameMail DEF Aside
  <2> QED
    BY <2>1, <2>2
<1>5. Room(s', srv')
  BY <1>4, RoomAlike
<1> QED
  BY <1>3, <1>5, InvNext DEF Inv

\* The connection ends, and what was to be said with it.
LEMMA RoomEnds ==
    ASSUME NEW p, NEW x, Room(p, x), NEW q, q.st \notin {"in", "closing"},
           ~q.sr, ~q.ss, ~p.sr, Keeps(p, q, x), NEW y, y = [x EXCEPT !.mail = <<>>]
    PROVE  Room(q, y) /\ Grown(x, y)
<1>1. SameServer(x, y) /\ y.mail = <<>>
  <2>1. Record(x)
    BY DEF Room, Server
  <2>2. Record(y) /\ y.mail = <<>> /\ y.valid = x.valid /\ y.lapsed = x.lapsed /\ y.kind = x.kind
    BY <2>1 DEF Record
  <2> QED
    BY <2>2 DEF Room, Server, SameServer
<1>2. MailOK(y)
  BY <1>1, Silence DEF MailOK
<1>3. Expects(q, y)
  BY <1>1, Silence DEF Expects, Has
<1>4. Known(q, y)
  <2>1. ~Has(x.mail, "remember")
    BY DEF Room, Expects
  <2>2. \A t : KindIn(y, t) = KindIn(x, t)
    BY <1>1 DEF SameServer, KindIn
  <2> QED
    BY <1>1, <2>1, <2>2 DEF Room, Known, Keeps, Has, SameServer
<1>5. Grown(x, y)
  BY <1>1, SameIsGrown DEF Room
<1> QED
  BY <1>2, <1>3, <1>4, <1>5 DEF Room, Grown

\* A page that has nothing to send has its turn.
LEMMA TurnNone ==
    ASSUME Inv, UNCHANGED case, NEW q, Turn(q), q.out = <<>>,
           old' \in BOOLEAN, Fine(q, srv, old'),
           q.sr = s.sr, q.ss = s.ss, Keeps(s, q, srv),
           q.st = "in" => s.st = "in" /\ q.silent = s.silent
    PROVE  Inv'
<1>1. Fine(s, srv, old) /\ Room(s, srv) /\ Whole(q)
  BY DEF Inv, Fine, Types
<1>2. Served(srv, q.out) = srv
  BY ServedNone
<1>3. /\ Alike(q, s') /\ s'.out = <<>>
      /\ q.st \in {"in", "closing"} => srv' = srv
      /\ q.st \notin {"in", "closing"} => srv' = [srv EXCEPT !.mail = <<>>]
  BY <1>1, <1>2, Turned
<1>4. Room(q, srv') /\ Grown(srv, srv')
  <2>1. q.sr \/ q.ss => q.st = "in"
    BY DEF Fine, Course
  <2>2. CASE q.st \in {"in", "closing"}
    <3>1. Expects(q, srv)
      BY <1>1, <2>1, <2>2 DEF Room, Expects
    <3>2. Known(q, srv)
      BY <1>1 DEF Room, Known, Keeps
    <3>3. Room(q, srv)
      BY <1>1, <3>1, <3>2 DEF Room
    <3>4. SameServer(srv, srv)
      BY <1>1 DEF Room, SameServer
    <3> QED
      BY <1>1, <1>3, <2>2, <3>3, <3>4, SameIsGrown DEF Room
  <2>3. CASE q.st \notin {"in", "closing"}
    <3>1. ~q.sr /\ ~q.ss /\ ~s.sr
      BY <2>1, <2>3
    <3> QED
      BY <1>1, <1>3, <2>3, <3>1, RoomEnds
  <2> QED
    BY <2>2, <2>3
<1>5. Fine(s', srv', old')
  <2>1. Fine(q, srv', old')
    BY <1>1, <1>4, FineStays DEF Room
  <2> QED
    BY <1>3, <2>1, FineAlike
<1>6. Room(s', srv')
  BY <1>3, <1>4, RoomAlike
<1> QED
  BY <1>3, <1>5, <1>6, InvNext DEF Inv

\* A page that has one thing to send, which the server answers aside.
LEMMA TurnPlain ==
    ASSUME Inv, UNCHANGED <<case, old>>, NEW q, Turn(q), Alike(s, q), s.st = "in",
           NEW r, r.req \in Plain, q.out = <<r>>
    PROVE  Inv'
<1>1. Room(s, srv) /\ Whole(q) /\ q.st = "in"
  BY DEF Inv, Alike, SamePlace
<1>2. Served(srv, q.out) = Serve(srv, r)
  BY ServedOne
<1>3. Alike(q, s') /\ s'.out = <<>> /\ srv' = Serve(srv, r)
  BY <1>1, <1>2, Turned
<1>4. Aside(srv, srv')
  BY <1>1, <1>3, PlainIsAside DEF Room
<1>5. Alike(s, s')
  BY <1>3, AlikeTwice
<1> QED
  BY <1>3, <1>4, <1>5, StepAlike

\* stopReconnect(): no reconnection is due any more; nothing else of this changes.
LEMMA StopReconnectDoes ==
    ASSUME NEW p, Whole(p), NEW q, q = StopReconnect(p)
    PROVE  /\ Whole(q) /\ SameTokens(p, q) /\ SameLogin(p, q) /\ SamePlace(p, q)
           /\ SameCard(p, q) /\ q.out = p.out /\ q.want = p.want /\ q.last = p.last
           /\ q.rec = FALSE /\ q.timer = FALSE
  BY DEF StopReconnect, Whole, SameTokens, SameLogin, SamePlace, SameCard

\* The knocks that are shown have nothing to do with all this.
LEMMA ClearKnocksDoes ==
    ASSUME NEW p, Whole(p), NEW q, q = ClearKnocks(p)
    PROVE  Same(p, q)
  BY DEF ClearKnocks, Whole, Same, Alike, SameTokens, SameLogin, SamePlace, SameCall, SameCard

\* setConnected(false): the card is up, and no answer is kept silent any more.
LEMMA SetConnectedOffDoes ==
    ASSUME NEW p, Whole(p), NEW q, q = SetConnectedOff(p)
    PROVE  /\ Whole(q) /\ SameTokens(p, q) /\ SameLogin(p, q) /\ SamePlace(p, q)
           /\ SameCall(p, q) /\ q.out = p.out
           /\ q.card = TRUE /\ q.silent = 0
           /\ q.rejoin \in BOOLEAN /\ (q.rejoin => p.last # None /\ ~p.usingR)
<1>1. PICK c : c = ClearKnocks(p)
  OBVIOUS
<1>2. Same(p, c)
  BY <1>1, ClearKnocksDoes
<1>3. PICK b \in BOOLEAN : b = (p.last # None /\ ~p.usingR /\ p.probing = "null")
  OBVIOUS
<1>4. q = [c EXCEPT !.call = FALSE, !.card = TRUE, !.dash = FALSE, !.toasts = {}, !.silent = 0,
        !.cl = ResetCallTimer(@), !.rejoin = b]
  BY <1>1, <1>3 DEF SetConnectedOff
<1>5. b => p.last # None /\ ~p.usingR
  BY <1>3
<1> QED
  BY <1>2, <1>4, <1>5 DEF Whole, Same, Alike, SameTokens, SameLogin, SamePlace, SameCall, SameCard

\* setConnected(true): the card is gone.
LEMMA SetConnectedOnDoes ==
    ASSUME NEW p, Whole(p), NEW q, q = SetConnectedOn(p)
    PROVE  /\ Whole(q) /\ SameTokens(p, q) /\ SameLogin(p, q) /\ SamePlace(p, q)
           /\ SameCall(p, q) /\ q.out = p.out
           /\ ~q.card /\ q.rejoin = p.rejoin /\ q.silent = p.silent
  BY DEF SetConnectedOn, Whole, SameTokens, SameLogin, SamePlace, SameCall

\* scheduleReconnect(): a reconnection is due.
LEMMA ScheduleReconnectDoes ==
    ASSUME NEW p, Whole(p), NEW q, q = ScheduleReconnect(p)
    PROVE  /\ Whole(q) /\ SameTokens(p, q) /\ SameLogin(p, q) /\ SamePlace(p, q)
           /\ SameCard(p, q) /\ q.out = p.out /\ q.want = p.want /\ q.last = p.last
           /\ q.rec = TRUE /\ q.timer = TRUE
  BY DEF ScheduleReconnect, Whole, SameTokens, SameLogin, SamePlace, SameCard

\* What was sent is noted; nothing of this changes.
LEMMA NoteSentMediaDoes ==
    ASSUME NEW p, Whole(p), NEW q, q = NoteSentMedia(p)
    PROVE  Same(p, q)
<1>1. q = p \/ q = [p EXCEPT !.noted = IF ~p.want THEN "null" ELSE IF p.sent THEN "yes" ELSE "no"]
  BY DEF NoteSentMedia
<1>2. CASE q = p
  BY <1>2 DEF Same, Alike, SameTokens, SameLogin, SamePlace, SameCall, SameCard
<1>3. CASE q = [p EXCEPT !.noted = IF ~p.want THEN "null" ELSE IF p.sent THEN "yes" ELSE "no"]
  BY <1>3 DEF Whole, Same, Alike, SameTokens, SameLogin, SamePlace, SameCall, SameCard
<1> QED
  BY <1>1, <1>2, <1>3

\* A page that tries again, and one that has given up.
Retries(q) == q.rec = TRUE /\ q.timer = TRUE
\* It has given up: the card is up, with "Rejoin" only for a call to come back to.
GivesUp(q) ==
    /\ q.rec = FALSE /\ q.timer = FALSE /\ q.card = TRUE /\ q.silent = 0
    /\ q.rejoin \in BOOLEAN /\ (q.rejoin => q.last # None /\ ~q.usingR)

\* gotClose(): the page tries again when it wants the call back and has what it
\* logs in with, and gives up otherwise.
LEMMA GotCloseDoes ==
    ASSUME NEW p, Whole(p), NEW q, q = GotClose(p)
    PROVE  /\ Whole(q) /\ SameTokens(p, q) /\ SameLogin(p, q) /\ SamePlace(p, q)
           /\ q.out = p.out /\ q.want = p.want /\ q.last = p.last
           /\ \/ p.want /\ p.last # None /\ SameCard(p, q) /\ Retries(q)
              \/ ~(p.want /\ p.last # None) /\ GivesUp(q)
<1>1. CASE p.want /\ p.last # None
  BY <1>1, ScheduleReconnectDoes DEF GotClose, Retries
<1>2. CASE ~(p.want /\ p.last # None)
  <2>1. PICK h : h = StopReconnect(p)
    OBVIOUS
  <2>2. /\ Whole(h) /\ SameTokens(p, h) /\ SameLogin(p, h) /\ SamePlace(p, h)
        /\ h.out = p.out /\ h.want = p.want /\ h.last = p.last /\ ~h.rec /\ ~h.timer
        /\ h.rec = FALSE /\ h.timer = FALSE
    BY <2>1, StopReconnectDoes
  <2>3. q = SetConnectedOff(h)
    BY <1>2, <2>1 DEF GotClose
  <2>4. /\ Whole(q) /\ SameTokens(h, q) /\ SameLogin(h, q) /\ SamePlace(h, q)
        /\ SameCall(h, q) /\ q.out = h.out
        /\ q.card = TRUE /\ q.silent = 0
        /\ q.rejoin \in BOOLEAN /\ (q.rejoin => h.last # None /\ ~h.usingR)
    BY <2>2, <2>3, SetConnectedOffDoes
  <2> QED
    BY <1>2, <2>2, <2>4 DEF GivesUp, SameTokens, SameLogin, SamePlace, SameCall
<1> QED
  BY <1>1, <1>2

\* The connection is no more, and the page does as gotClose() says.
LEMMA GoneDoes ==
    ASSUME NEW p, Whole(p), NEW q, q = Gone(p)
    PROVE  /\ Whole(q) /\ SameTokens(p, q) /\ SameLogin(p, q)
           /\ q.st = "gone" /\ q.cred = p.cred /\ q.load = p.load
           /\ q.out = p.out /\ q.want = p.want /\ q.last = p.last
           /\ \/ p.want /\ p.last # None /\ SameCard(p, q) /\ Retries(q)
              \/ ~(p.want /\ p.last # None) /\ GivesUp(q)
<1>1. PICK n : n = NoteSentMedia(p)
  OBVIOUS
<1>2. Same(p, n)
  BY <1>1, NoteSentMediaDoes
<1>3. PICK h : h = [n EXCEPT !.st = "gone", !.sent = FALSE, !.told = "?", !.cl = EverybodyDeleted(@)]
  OBVIOUS
<1>4. /\ Whole(h) /\ SameTokens(p, h) /\ SameLogin(p, h) /\ SameCall(p, h) /\ SameCard(p, h)
      /\ h.st = "gone" /\ h.cred = p.cred /\ h.load = p.load /\ h.out = p.out
  BY <1>2, <1>3 DEF Whole, Same, Alike, SameTokens, SameLogin, SamePlace, SameCall, SameCard
<1>5. q = GotClose(h)
  BY <1>1, <1>3 DEF Gone
<1>6. /\ Whole(q) /\ SameTokens(h, q) /\ SameLogin(h, q) /\ SamePlace(h, q)
      /\ q.out = h.out /\ q.want = h.want /\ q.last = h.last
      /\ \/ h.want /\ h.last # None /\ SameCard(h, q) /\ Retries(q)
         \/ ~(h.want /\ h.last # None) /\ GivesUp(q)
  BY <1>4, <1>5, GotCloseDoes
<1> QED
  BY <1>4, <1>6 DEF SameTokens, SameLogin, SamePlace, SameCall, SameCard

\* The connection, if there is one, is being closed.
LEMMA CloseDoes ==
    ASSUME NEW p, Whole(p), NEW q, q = Close(p)
    PROVE  /\ Whole(q) /\ SameTokens(p, q) /\ SameLogin(p, q) /\ SameCall(p, q) /\ SameCard(p, q)
           /\ q.cred = p.cred /\ q.load = p.load /\ q.out = p.out
           /\ q.st = IF p.st \in {"none", "gone", "away"} THEN p.st ELSE "closing"
<1>1. CASE p.st \in {"none", "gone", "away"}
  BY <1>1 DEF Close, SameTokens, SameLogin, SameCall, SameCard
<1>2. CASE p.st \notin {"none", "gone", "away"}
  <2>1. q = [p EXCEPT !.st = "closing"]
    BY <1>2 DEF Close
  <2> QED
    BY <1>2, <2>1 DEF Whole, SameTokens, SameLogin, SameCall, SameCard
<1> QED
  BY <1>1, <1>2

\* serverConnect(): a connection is being opened, with no credentials yet.
LEMMA ConnectDoes ==
    ASSUME NEW p, Whole(p), NEW q, q = Connect(p)
    PROVE  /\ Whole(q) /\ SameTokens(p, q) /\ SameLogin(p, q) /\ SameCall(p, q) /\ SameCard(p, q)
           /\ q.cred = None /\ q.load = p.load /\ q.out = p.out /\ q.st = "opening"
  BY DEF Connect, Whole, SameTokens, SameLogin, SameCall, SameCard

\* A join with a token, or with a name and a password.
LogsIn(p, q, tick) ==
    \/ p.token # None /\ q.cred = p.token /\ q.pend = p.pend
    \/ p.token = None /\ q.cred = Pw /\ q.pend = IF tick THEN "tick" ELSE "no"

\* join(): the page asks to be let in, with the token it has or with a password.
LEMMA JoinWithDoes ==
    ASSUME NEW p, Whole(p), NEW tick \in BOOLEAN, NEW q, q = JoinWith(p, tick)
    PROVE  /\ Whole(q) /\ SameTokens(p, q) /\ SameCall(p, q) /\ SameCard(p, q)
           /\ q.load = p.load /\ q.out = p.out /\ q.st = "asked" /\ q.adm = FALSE
           /\ q.token = p.token /\ q.usingR = p.usingR /\ q.fallback = p.fallback
           /\ LogsIn(p, q, tick)
<1>1. CASE p.token # None /\ p.probing = "null" /\ case.room # "hub"
  <2>1. PICK h : h = [p EXCEPT !.probing = "probing"]
    OBVIOUS
  <2>2. q = SendJoin(h, p.token, FALSE)
    BY <1>1, <2>1 DEF JoinWith
  <2>3. /\ Whole(h) /\ SameTokens(p, h) /\ SameCall(p, h) /\ SameCard(p, h)
        /\ h.load = p.load /\ h.out = p.out /\ h.token = p.token /\ h.usingR = p.usingR
        /\ h.fallback = p.fallback /\ h.pend = p.pend
    BY <2>1 DEF Whole, SameTokens, SameCall, SameCard
  <2>4. /\ Whole(q) /\ SameTokens(h, q) /\ SameLogin(h, q) /\ SameCall(h, q) /\ SameCard(h, q)
        /\ q.cred = p.token /\ q.load = h.load /\ q.out = h.out /\ q.st = "asked" /\ q.adm = FALSE
    BY <2>2, <2>3 DEF SendJoin, Whole, SameTokens, SameLogin, SameCall, SameCard
  <2> QED
    BY <1>1, <2>3, <2>4 DEF LogsIn, SameTokens, SameLogin, SameCall, SameCard
<1>2. CASE p.token # None /\ ~(p.probing = "null" /\ case.room # "hub")
  <2>1. PICK h : h = [p EXCEPT !.probing = "null"]
    OBVIOUS
  <2>2. q = SendJoin(h, p.token, TRUE)
    BY <1>2, <2>1 DEF JoinWith
  <2>3. /\ Whole(h) /\ SameTokens(p, h) /\ SameCall(p, h) /\ SameCard(p, h)
        /\ h.load = p.load /\ h.out = p.out /\ h.token = p.token /\ h.usingR = p.usingR
        /\ h.fallback = p.fallback /\ h.pend = p.pend
    BY <2>1 DEF Whole, SameTokens, SameCall, SameCard
  <2>4. /\ Whole(q) /\ SameTokens(h, q) /\ SameLogin(h, q) /\ SameCall(h, q) /\ SameCard(h, q)
        /\ q.cred = p.token /\ q.load = h.load /\ q.out = h.out /\ q.st = "asked" /\ q.adm = FALSE
    BY <2>2, <2>3 DEF SendJoin, Whole, SameTokens, SameLogin, SameCall, SameCard
  <2> QED
    BY <1>2, <2>3, <2>4 DEF LogsIn, SameTokens, SameLogin, SameCall, SameCard
<1>3. CASE p.token = None
  <2>1. PICK h : h = [p EXCEPT !.probing = "null", !.pend = IF tick THEN "tick" ELSE "no"]
    OBVIOUS
  <2>2. q = SendJoin(h, Pw, TRUE)
    BY <1>3, <2>1 DEF JoinWith
  <2>3. /\ Whole(h) /\ SameTokens(p, h) /\ SameCall(p, h) /\ SameCard(p, h)
        /\ h.load = p.load /\ h.out = p.out /\ h.token = p.token /\ h.usingR = p.usingR
        /\ h.fallback = p.fallback /\ h.pend = IF tick THEN "tick" ELSE "no"
    BY <2>1 DEF Whole, SameTokens, SameCall, SameCard
  <2>4. /\ Whole(q) /\ SameTokens(h, q) /\ SameLogin(h, q) /\ SameCall(h, q) /\ SameCard(h, q)
        /\ q.cred = Pw /\ q.load = h.load /\ q.out = h.out /\ q.st = "asked" /\ q.adm = FALSE
    BY <2>2, <2>3 DEF SendJoin, Whole, SameTokens, SameLogin, SameCall, SameCard
  <2> QED
    BY <1>3, <2>3, <2>4 DEF LogsIn, SameTokens, SameLogin, SameCall, SameCard
<1> QED
  BY <1>1, <1>2, <1>3

\* A name that was edited: the token is dropped, or all stays as it is.
LEMMA DropTokenDoes ==
    ASSUME NEW p, Whole(p), NEW q,
           q = p \/ q = [p EXCEPT !.token = None, !.usingR = FALSE, !.probing = "null"]
    PROVE  /\ Whole(q) /\ SameTokens(p, q) /\ SamePlace(p, q) /\ SameCall(p, q) /\ SameCard(p, q)
           /\ q.out = p.out /\ q.fallback = p.fallback /\ q.pend = p.pend
           /\ \/ q.token = None /\ q.usingR = FALSE
              \/ q.token = p.token /\ q.usingR = p.usingR
<1>1. CASE q = p
  BY <1>1 DEF SameTokens, SamePlace, SameCall, SameCard
<1>2. CASE q = [p EXCEPT !.token = None, !.usingR = FALSE, !.probing = "null"]
  BY <1>2 DEF Whole, SameTokens, SamePlace, SameCall, SameCard
<1> QED
  BY <1>1, <1>2

\* The call is not wanted any longer.
LEMMA OverDoes ==
    ASSUME NEW p, Whole(p), NEW q, q = Over(p)
    PROVE  /\ Whole(q) /\ SameTokens(p, q) /\ SameLogin(p, q) /\ SamePlace(p, q) /\ SameCard(p, q)
           /\ q.out = p.out /\ q.last = p.last
           /\ q.want = FALSE /\ q.rec = FALSE /\ q.timer = FALSE
<1>1. PICK h : h = [p EXCEPT !.want = FALSE]
  OBVIOUS
<1>2. /\ Whole(h) /\ SameTokens(p, h) /\ SameLogin(p, h) /\ SamePlace(p, h) /\ SameCard(p, h)
      /\ h.out = p.out /\ h.last = p.last /\ h.want = FALSE
  BY <1>1 DEF Whole, SameTokens, SameLogin, SamePlace, SameCard
<1>3. q = StopReconnect(h)
  BY <1>1 DEF Over
<1>4. /\ Whole(q) /\ SameTokens(h, q) /\ SameLogin(h, q) /\ SamePlace(h, q)
      /\ SameCard(h, q) /\ q.out = h.out /\ q.want = h.want /\ q.last = h.last
      /\ q.rec = FALSE /\ q.timer = FALSE
  BY <1>2, <1>3, StopReconnectDoes
<1> QED
  BY <1>2, <1>4 DEF SameTokens, SameLogin, SamePlace, SameCard

\* rejoinAfterReconnect(): the page asks to be let in again, with what it had
\* or what it has stored.
LEMMA RejoinDoes ==
    ASSUME NEW p, Whole(p), NEW q, q = RejoinAfterReconnect(p)
    PROVE  /\ Whole(q) /\ SameTokens(p, q) /\ SameLogin(p, q) /\ SameCard(p, q)
           /\ q.load = p.load /\ q.out = p.out /\ q.st = "asked" /\ q.adm = FALSE
           /\ q.want = p.want /\ q.rec = p.rec /\ q.timer = p.timer
           /\ q.cred = q.last /\ (p.last # None => q.last # None)
           /\ q.last \in {p.last, p.session, p.remember} /\ q.last = FreshRejoin(p)
<1>1. PICK c : c = FreshRejoin(p)
  OBVIOUS
<1>2. PICK h : h = [p EXCEPT !.last = c]
  OBVIOUS
<1>3. q = SendJoin(h, c, TRUE)
  BY <1>1, <1>2 DEF RejoinAfterReconnect
<1>4. /\ Whole(h) /\ SameTokens(p, h) /\ SameLogin(p, h) /\ SameCard(p, h)
      /\ h.load = p.load /\ h.out = p.out
      /\ h.want = p.want /\ h.rec = p.rec /\ h.timer = p.timer /\ h.last = c
  BY <1>2 DEF Whole, SameTokens, SameLogin, SameCard
<1>5. /\ Whole(q) /\ SameTokens(h, q) /\ SameLogin(h, q) /\ SameCall(h, q) /\ SameCard(h, q)
      /\ q.cred = c /\ q.load = h.load /\ q.out = h.out /\ q.st = "asked" /\ q.adm = FALSE
  BY <1>3, <1>4 DEF SendJoin, Whole, SameTokens, SameLogin, SameCall, SameCard
<1>6. (p.last # None => c # None) /\ c \in {p.last, p.session, p.remember}
  BY <1>1 DEF FreshRejoin, Session, Remember
<1> QED
  BY <1>1, <1>4, <1>5, <1>6 DEF SameTokens, SameLogin, SameCall, SameCard

\* What comes of a reconnection that is due.
LEMMA ReconnectNowDoes ==
    ASSUME NEW p, Whole(p), NEW q, q = ReconnectNow(p)
    PROVE  /\ Whole(q) /\ SameTokens(p, q) /\ SameLogin(p, q)
           /\ q.load = p.load /\ q.out = p.out /\ q.last = p.last /\ q.timer = FALSE
           /\ \/ /\ ~p.want \/ p.last = None
                 /\ SamePlace(p, q) /\ SameCard(p, q) /\ q.want = p.want /\ q.rec = FALSE
              \/ /\ SamePlace(p, q) /\ q.want = FALSE /\ GivesUp(q)
              \/ /\ p.want /\ p.last # None
                 /\ SameCard(p, q) /\ q.want = p.want /\ q.rec = p.rec
                 /\ q.st = "opening" /\ q.cred = None
<1>1. PICK h : h = [p EXCEPT !.timer = FALSE]
  OBVIOUS
<1>2. /\ Whole(h) /\ SameTokens(p, h) /\ SameLogin(p, h) /\ SamePlace(p, h) /\ SameCard(p, h)
      /\ h.load = p.load /\ h.out = p.out /\ h.last = p.last /\ h.timer = FALSE
      /\ h.want = p.want /\ h.rec = p.rec
  BY <1>1 DEF Whole, SameTokens, SameLogin, SamePlace, SameCard
<1>3. CASE ~p.want \/ p.last = None
  <2>1. q = StopReconnect(h)
    BY <1>1, <1>3 DEF ReconnectNow
  <2>2. /\ Whole(q) /\ SameTokens(h, q) /\ SameLogin(h, q) /\ SamePlace(h, q)
        /\ SameCard(h, q) /\ q.out = h.out /\ q.want = h.want /\ q.last = h.last
        /\ q.rec = FALSE /\ q.timer = FALSE
    BY <1>2, <2>1, StopReconnectDoes
  <2> QED
    BY <1>2, <1>3, <2>2 DEF SameTokens, SameLogin, SamePlace, SameCard
<1>4. CASE ~(~p.want \/ p.last = None) /\ p.tries > MaxTries /\ case.room # "hub"
  <2>1. PICK g : g = [h EXCEPT !.want = FALSE]
    OBVIOUS
  <2>2. PICK f : f = StopReconnect(g)
    OBVIOUS
  <2>3. q = SetConnectedOff(f)
    BY <1>1, <1>4, <2>1, <2>2 DEF ReconnectNow
  <2>4. /\ Whole(g) /\ SameTokens(h, g) /\ SameLogin(h, g) /\ SamePlace(h, g)
        /\ g.out = h.out /\ g.last = h.last /\ g.want = FALSE
    BY <1>2, <2>1 DEF Whole, SameTokens, SameLogin, SamePlace
  <2>5. /\ Whole(f) /\ SameTokens(g, f) /\ SameLogin(g, f) /\ SamePlace(g, f)
        /\ f.out = g.out /\ f.want = g.want /\ f.last = g.last /\ f.rec = FALSE /\ f.timer = FALSE
    BY <2>2, <2>4, StopReconnectDoes
  <2>6. /\ Whole(q) /\ SameTokens(f, q) /\ SameLogin(f, q) /\ SamePlace(f, q)
        /\ SameCall(f, q) /\ q.out = f.out
        /\ q.card = TRUE /\ q.silent = 0
        /\ q.rejoin \in BOOLEAN /\ (q.rejoin => f.last # None /\ ~f.usingR)
    BY <2>3, <2>5, SetConnectedOffDoes
  <2> QED
    BY <1>2, <2>4, <2>5, <2>6 DEF SameTokens, SameLogin, SamePlace, SameCall, GivesUp
<1>5. CASE ~(~p.want \/ p.last = None) /\ ~(p.tries > MaxTries /\ case.room # "hub")
  <2>1. q = Connect(h)
    BY <1>1, <1>5 DEF ReconnectNow
  <2>2. /\ Whole(q) /\ SameTokens(h, q) /\ SameLogin(h, q) /\ SameCall(h, q) /\ SameCard(h, q)
        /\ q.cred = None /\ q.load = h.load /\ q.out = h.out /\ q.st = "opening"
    BY <1>2, <2>1, ConnectDoes
  <2> QED
    BY <1>2, <1>5, <2>2 DEF SameTokens, SameLogin, SamePlace, SameCall, SameCard
<1> QED
  BY <1>3, <1>4, <1>5

\* The connection is lost, or closed.
LEMMA GoneIsFine ==
    ASSUME NEW p, NEW x, NEW o, Fine(p, x, o), ~p.sr, ~p.ss,
           p.st \in {"opening", "asked", "lobby", "in", "closing"},
           p.silent # 0 => p.st = "closing", NEW q, q = Gone(p)
    PROVE  Fine(q, x, o)
<1>1. Whole(p)
  BY DEF Fine, Types
<1>2. /\ Whole(q) /\ SameTokens(p, q) /\ SameLogin(p, q)
      /\ q.st = "gone" /\ q.cred = p.cred /\ q.load = p.load
      /\ q.out = p.out /\ q.want = p.want /\ q.last = p.last
      /\ \/ p.want /\ p.last # None /\ SameCard(p, q) /\ Retries(q)
         \/ ~(p.want /\ p.last # None) /\ GivesUp(q)
  BY <1>1, GoneDoes
<1> USE DEF SameTokens, SameLogin, SamePlace, SameCall, SameCard, Retries, GivesUp
<1>3. Fine(q, x, o)
  <2>1. Types(q)
    <3>1. q.want \in BOOLEAN /\ q.rec \in BOOLEAN /\ q.timer \in BOOLEAN
      BY <1>2 DEF Fine, Types, Flags, Someone
    <3>2. q.card \in BOOLEAN /\ q.rejoin \in BOOLEAN
      BY <1>2 DEF Fine, Types, Flags, Someone
    <3>3. q.usingR \in BOOLEAN /\ q.sr \in BOOLEAN /\ q.ss \in BOOLEAN
      BY <1>2 DEF Fine, Types, Flags, Someone
    <3>4. Flags(q)
      BY <3>1, <3>2, <3>3 DEF Flags
    <3> QED
      BY <3>4, <1>2 DEF Fine, Types, Someone
  <2>2. Course(q, o)
    BY <1>2 DEF Fine, Course, Types, Flags
  <2>3. Cover(q, o)
    BY <1>2 DEF Fine, Cover, Blank, LoadOK, Covered, ScriptRan, Course
  <2>4. Using(q)
    BY <1>2 DEF Fine, Using, Course, Cover, Blank
  <2>5. Kinds(q, x)
    BY <1>2 DEF Fine, Kinds
  <2>6. Replaces(q, x)
    BY <1>2 DEF Fine, Replaces, Course
  <2>7. Ticked(q, x)
    BY <1>2 DEF Fine, Ticked, Course
  <2>8. Hub(q, x)
    BY <1>2 DEF Fine, Hub
  <2> QED
    BY <2>1, <2>2, <2>3, <2>4, <2>5, <2>6, <2>7, <2>8 DEF Fine
<1> QED
  BY <1>3

\* The connection is lost, with nothing waited for that would be lost with it.
LEMMA LoseStep ==
    ASSUME Inv, Races = {}, Lose PROVE Inv'
<1>1. PICK q : q = Gone(s)
  OBVIOUS
<1>2. /\ Fine(s, srv, old) /\ Whole(s) /\ s.out = <<>> /\ s.silent \in Nat /\ old \in BOOLEAN
  BY DEF Inv, Fine, Types
<1>3. /\ ~s.sr /\ ~s.ss /\ s.silent = 0 /\ s.st \in {"opening", "asked", "lobby", "in"}
      /\ Turn(q) /\ UNCHANGED <<case, old>>
  BY <1>1, <1>2 DEF Lose, Unanswered
<1>4. Fine(q, srv, old)
  BY <1>1, <1>2, <1>3, GoneIsFine
<1>5. /\ q.out = <<>> /\ q.sr = s.sr /\ q.ss = s.ss /\ q.remember = s.remember /\ q.st = "gone"
  BY <1>1, <1>2, GoneDoes DEF SameTokens
<1> QED
  BY <1>2, <1>3, <1>4, <1>5, TurnNone DEF Keeps

\* The connection that was being closed is closed.
LEMMA ClosedStep ==
    ASSUME Inv, Closed PROVE Inv'
<1>1. PICK q : q = Gone(s)
  OBVIOUS
<1>2. /\ Fine(s, srv, old) /\ Whole(s) /\ s.out = <<>> /\ old \in BOOLEAN
  BY DEF Inv, Fine, Types
<1>3. s.st = "closing" /\ Turn(q) /\ UNCHANGED <<case, old>>
  BY <1>1 DEF Closed
<1>4. ~s.sr /\ ~s.ss
  BY <1>2, <1>3 DEF Fine, Course
<1>5. Fine(q, srv, old)
  BY <1>1, <1>2, <1>3, <1>4, GoneIsFine
<1>6. /\ q.out = <<>> /\ q.sr = s.sr /\ q.ss = s.ss /\ q.remember = s.remember /\ q.st = "gone"
  BY <1>1, <1>2, GoneDoes DEF SameTokens
<1> QED
  BY <1>2, <1>3, <1>5, <1>6, TurnNone DEF Keeps

\* The event of a connection that was closed for another is here.
LEMMA OldClosedStep ==
    ASSUME Inv, OldClosed PROVE Inv'
<1>1. PICK q : q = GotClose(s)
  OBVIOUS
<1>2. /\ Fine(s, srv, old) /\ Whole(s) /\ s.out = <<>>
  BY DEF Inv, Fine, Types
<1>3. old /\ old' = FALSE /\ Turn(q) /\ UNCHANGED case
  BY <1>1 DEF OldClosed
<1>4. s.st \in {"opening", "closing", "gone"} /\ ~s.want /\ ~s.sr /\ ~s.ss
  BY <1>2, <1>3 DEF Fine, Course
<1>5. /\ Whole(q) /\ SameTokens(s, q) /\ SameLogin(s, q) /\ SamePlace(s, q)
      /\ q.out = <<>> /\ q.want = s.want /\ q.last = s.last /\ GivesUp(q)
  BY <1>1, <1>2, <1>4, GotCloseDoes
<1> USE DEF SameTokens, SameLogin, SamePlace, SameCall, SameCard, GivesUp
<1>6. Fine(q, srv, FALSE)
  <2>1. Types(q)
    <3>1. q.want \in BOOLEAN /\ q.rec \in BOOLEAN /\ q.timer \in BOOLEAN
      BY <1>2, <1>3, <1>4, <1>5 DEF Fine, Types, Flags, Someone
    <3>2. q.card \in BOOLEAN /\ q.rejoin \in BOOLEAN
      BY <1>2, <1>3, <1>4, <1>5 DEF Fine, Types, Flags, Someone
    <3>3. q.usingR \in BOOLEAN /\ q.sr \in BOOLEAN /\ q.ss \in BOOLEAN
      BY <1>2, <1>3, <1>4, <1>5 DEF Fine, Types, Flags, Someone
    <3>4. Flags(q)
      BY <3>1, <3>2, <3>3 DEF Flags
    <3> QED
      BY <3>4, <1>2, <1>3, <1>4, <1>5 DEF Fine, Types, Someone
  <2>2. Course(q, FALSE)
    BY <1>2, <1>3, <1>4, <1>5 DEF Fine, Course, Types, Flags
  <2>3. Cover(q, FALSE)
    BY <1>2, <1>3, <1>4, <1>5 DEF Fine, Cover, Blank, LoadOK, Covered, ScriptRan, Course
  <2>4. Using(q)
    BY <1>2, <1>3, <1>4, <1>5 DEF Fine, Using, Course, Cover, Blank
  <2>5. Kinds(q, srv)
    BY <1>2, <1>3, <1>4, <1>5 DEF Fine, Kinds
  <2>6. Replaces(q, srv)
    BY <1>2, <1>3, <1>4, <1>5 DEF Fine, Replaces, Course
  <2>7. Ticked(q, srv)
    BY <1>2, <1>3, <1>4, <1>5 DEF Fine, Ticked, Course
  <2>8. Hub(q, srv)
    BY <1>2, <1>3, <1>4, <1>5 DEF Fine, Hub
  <2> QED
    BY <2>1, <2>2, <2>3, <2>4, <2>5, <2>6, <2>7, <2>8 DEF Fine
<1> QED
  BY <1>3, <1>4, <1>5, <1>6, TurnNone DEF Keeps

\* A reconnection that is due.
LEMMA ReconnectIsFine ==
    ASSUME NEW p, NEW x, NEW o, Fine(p, x, o), p.timer, NEW q, q = ReconnectNow(p)
    PROVE  Fine(q, x, o)
<1>1. Whole(p) /\ p.st = "gone" /\ p.want /\ p.last # None
  BY DEF Fine, Types, Course
<1>2. /\ Whole(q) /\ SameTokens(p, q) /\ SameLogin(p, q)
      /\ q.load = p.load /\ q.out = p.out /\ q.last = p.last /\ q.timer = FALSE
      /\ \/ SamePlace(p, q) /\ q.want = FALSE /\ GivesUp(q)
         \/ /\ SameCard(p, q) /\ q.want = p.want /\ q.rec = p.rec
            /\ q.st = "opening" /\ q.cred = None
  BY <1>1, ReconnectNowDoes
<1> USE DEF SameTokens, SameLogin, SamePlace, SameCall, SameCard, GivesUp
<1>3. q.cred \in {p.cred, None} /\ q.st \in {"gone", "opening"} /\ q.silent \in {p.silent, 0}
  BY <1>1, <1>2
<1>4. Fine(q, x, o)
  <2>1. Types(q)
    <3>1. q.want \in BOOLEAN /\ q.rec \in BOOLEAN /\ q.timer \in BOOLEAN
      BY <1>1, <1>2, <1>3 DEF Fine, Types, Flags, Someone
    <3>2. q.card \in BOOLEAN /\ q.rejoin \in BOOLEAN
      BY <1>1, <1>2, <1>3 DEF Fine, Types, Flags, Someone
    <3>3. q.usingR \in BOOLEAN /\ q.sr \in BOOLEAN /\ q.ss \in BOOLEAN
      BY <1>1, <1>2, <1>3 DEF Fine, Types, Flags, Someone
    <3>4. Flags(q)
      BY <3>1, <3>2, <3>3 DEF Flags
    <3> QED
      BY <3>4, <1>1, <1>2, <1>3 DEF Fine, Types, Someone
  <2>2. Course(q, o)
    BY <1>1, <1>2 DEF Fine, Course, Types, Flags
  <2>3. Cover(q, o)
    BY <1>1, <1>2 DEF Fine, Cover, Blank, LoadOK, Covered, ScriptRan, Course
  <2>4. Using(q)
    BY <1>1, <1>2 DEF Fine, Using, Course, Cover, Blank
  <2>5. Kinds(q, x)
    BY <1>1, <1>2 DEF Fine, Kinds
  <2>6. Replaces(q, x)
    BY <1>1, <1>2 DEF Fine, Replaces, Course
  <2>7. Ticked(q, x)
    BY <1>1, <1>2 DEF Fine, Ticked, Course
  <2>8. Hub(q, x)
    BY <1>1, <1>2 DEF Fine, Hub
  <2> QED
    BY <2>1, <2>2, <2>3, <2>4, <2>5, <2>6, <2>7, <2>8 DEF Fine
<1> QED
  BY <1>4

\* The page, nothing of this changed, does a reconnection that is due: the
\* invariant holds.
LEMMA ReconnectStep ==
    ASSUME Inv, NEW p, Same(s, p), p.timer, Turn(ReconnectNow(p)), UNCHANGED <<case, old>>
    PROVE  Inv'
<1>1. PICK q : q = ReconnectNow(p)
  OBVIOUS
<1>2. /\ Fine(s, srv, old) /\ Whole(s) /\ s.out = <<>> /\ old \in BOOLEAN
  BY DEF Inv, Fine, Types
<1>3. Fine(p, srv, old) /\ Whole(p)
  BY <1>2, FineAlike DEF Same, Alike
<1>4. Fine(q, srv, old)
  BY <1>1, <1>3, ReconnectIsFine
<1>5. p.st = "gone"
  BY <1>3 DEF Fine, Course
<1>6. /\ q.out = p.out /\ q.sr = p.sr /\ q.ss = p.ss /\ q.remember = p.remember
      /\ q.st \in {"gone", "opening"}
  <2>1. /\ Whole(q) /\ SameTokens(p, q) /\ q.out = p.out
        /\ SamePlace(p, q) \/ q.st = "opening"
    BY <1>1, <1>3, ReconnectNowDoes
  <2> QED
    BY <1>5, <2>1 DEF SameTokens, SamePlace
<1>7. p.out = <<>> /\ p.sr = s.sr /\ p.ss = s.ss /\ p.remember = s.remember
  BY <1>2 DEF Same, Alike, SameTokens
<1> QED
  BY <1>1, <1>2, <1>4, <1>6, <1>7, TurnNone DEF Keeps

\* ... because its time has come,
LEMMA TimerFiresStep ==
    ASSUME Inv, TimerFires PROVE Inv'
<1>1. Same(s, s)
  BY DEF Inv, Fine, Types, Same, Alike, SameTokens, SameLogin, SamePlace, SameCall, SameCard
<1> QED
  BY <1>1, ReconnectStep DEF TimerFires

\* or because the network is back.
LEMMA SoonStep ==
    ASSUME Inv, Soon PROVE Inv'
<1>1. PICK p : p = [s EXCEPT !.tries = 0]
  OBVIOUS
<1>2. Whole(s)
  BY DEF Inv, Fine, Types
<1>3. Same(s, p)
  BY <1>1, <1>2 DEF Whole, Same, Alike, SameTokens, SameLogin, SamePlace, SameCall, SameCard
<1>4. p.timer
  BY <1>3 DEF Soon, Same, Alike, SameCall
<1> QED
  BY <1>1, <1>3, <1>4, ReconnectStep DEF Soon

\* The login form is submitted.
LEMMA SubmitStep ==
    ASSUME Inv, NEW present, Submit(present) PROVE Inv'
<1> USE DEF SameTokens, SameLogin, SamePlace, SameCall, SameCard
<1>1. PICK q : q = Connect([s EXCEPT !.present = present])
  OBVIOUS
<1>2. /\ Fine(s, srv, old) /\ Whole(s) /\ s.out = <<>>
  BY DEF Inv, Fine, Types
<1>3. /\ s.card /\ ~s.rejoin /\ ~old /\ s.st \in {"none", "gone", "opening", "closing"}
      /\ s.load.phase = "shown" /\ Turn(q) /\ UNCHANGED case
      /\ old' = (s.st \in {"opening", "closing"})
  BY <1>1 DEF Submit, Press
<1>4. /\ Whole(q) /\ SameTokens(s, q) /\ SameLogin(s, q) /\ SameCall(s, q) /\ SameCard(s, q)
      /\ q.load = s.load /\ q.cred = None /\ q.st = "opening" /\ q.out = <<>>
  BY <1>1, <1>2 DEF Connect, Whole
<1>5. ~s.sr /\ ~s.ss /\ ~s.want /\ ~s.rec /\ s.silent = 0 /\ old' \in BOOLEAN
  BY <1>2, <1>3 DEF Fine, Types, Course
<1>6. Fine(q, srv, old')
  <2>1. Types(q)
    <3>1. q.want \in BOOLEAN /\ q.rec \in BOOLEAN /\ q.timer \in BOOLEAN
      BY <1>2, <1>3, <1>4, <1>5 DEF Fine, Types, Flags, Someone
    <3>2. q.card \in BOOLEAN /\ q.rejoin \in BOOLEAN
      BY <1>2, <1>3, <1>4, <1>5 DEF Fine, Types, Flags, Someone
    <3>3. q.usingR \in BOOLEAN /\ q.sr \in BOOLEAN /\ q.ss \in BOOLEAN
      BY <1>2, <1>3, <1>4, <1>5 DEF Fine, Types, Flags, Someone
    <3>4. Flags(q)
      BY <3>1, <3>2, <3>3 DEF Flags
    <3> QED
      BY <3>4, <1>2, <1>3, <1>4, <1>5 DEF Fine, Types, Someone
  <2>2. Course(q, old')
    BY <1>2, <1>3, <1>4, <1>5 DEF Fine, Course, Types, Flags
  <2>3. Cover(q, old')
    BY <1>2, <1>3, <1>4, <1>5 DEF Fine, Cover, Blank, LoadOK, Covered, ScriptRan, Course
  <2>4. Using(q)
    BY <1>2, <1>3, <1>4, <1>5 DEF Fine, Using, Course, Cover, Blank
  <2>5. Kinds(q, srv)
    BY <1>2, <1>3, <1>4, <1>5 DEF Fine, Kinds
  <2>6. Replaces(q, srv)
    BY <1>2, <1>3, <1>4, <1>5 DEF Fine, Replaces, Course
  <2>7. Ticked(q, srv)
    BY <1>2, <1>3, <1>4, <1>5 DEF Fine, Ticked, Course
  <2>8. Hub(q, srv)
    BY <1>2, <1>3, <1>4, <1>5 DEF Fine, Hub
  <2> QED
    BY <2>1, <2>2, <2>3, <2>4, <2>5, <2>6, <2>7, <2>8 DEF Fine
<1> QED
  BY <1>2, <1>3, <1>4, <1>5, <1>6, TurnNone DEF Keeps

\* The "Rejoin" button is pressed.
LEMMA RejoinStep ==
    ASSUME Inv, Races = {}, NEW present, Rejoin(present) PROVE Inv'
<1> USE DEF SameTokens, SameLogin, SamePlace, SameCall, SameCard
<1>1. PICK h : h = [s EXCEPT !.present = present, !.want = TRUE, !.rec = TRUE]
  OBVIOUS
<1>2. PICK g : g = SetConnectedOn(h)
  OBVIOUS
<1>3. PICK q : q = Connect(g)
  OBVIOUS
<1>4. /\ Fine(s, srv, old) /\ Whole(s) /\ s.out = <<>> /\ old \in BOOLEAN
  BY DEF Inv, Fine, Types
<1>5. /\ s.card /\ s.rejoin /\ ~old /\ s.st = "gone"
      /\ s.load.phase = "shown" /\ Turn(q) /\ UNCHANGED <<case, old>>
  BY <1>1, <1>2, <1>3 DEF Rejoin, Press
<1>6. /\ Whole(h) /\ SameTokens(s, h) /\ SameLogin(s, h) /\ SamePlace(s, h) /\ SameCard(s, h)
      /\ h.out = <<>> /\ h.want = TRUE /\ h.rec = TRUE /\ h.timer = s.timer /\ h.last = s.last
  BY <1>1, <1>4 DEF Whole
<1>7. /\ Whole(g) /\ SameTokens(h, g) /\ SameLogin(h, g) /\ SamePlace(h, g)
      /\ SameCall(h, g) /\ g.out = h.out
      /\ ~g.card /\ g.rejoin = h.rejoin /\ g.silent = h.silent /\ g.card = FALSE
  BY <1>2, <1>6, SetConnectedOnDoes DEF SetConnectedOn, Whole
<1>8. /\ Whole(q) /\ SameTokens(g, q) /\ SameLogin(g, q) /\ SameCall(g, q) /\ SameCard(g, q)
      /\ q.cred = None /\ q.load = g.load /\ q.out = g.out /\ q.st = "opening"
  BY <1>3, <1>7, ConnectDoes
<1>9. /\ Whole(q) /\ SameTokens(s, q) /\ SameLogin(s, q)
      /\ q.cred = None /\ q.load = s.load /\ q.out = <<>> /\ q.st = "opening"
      /\ q.want = TRUE /\ q.rec = TRUE /\ q.timer = s.timer /\ q.last = s.last
      /\ q.card = FALSE /\ q.rejoin = s.rejoin /\ q.silent = s.silent
  BY <1>6, <1>7, <1>8
<1>10. /\ ~s.sr /\ ~s.ss /\ s.last # None /\ ~s.want /\ ~s.rec /\ s.timer = FALSE /\ s.silent = 0
       /\ ~s.usingR
  BY <1>4, <1>5 DEF Fine, Types, Flags, Course, Using
<1>11. Fine(q, srv, old)
  <2>1. Types(q)
    <3>1. q.want \in BOOLEAN /\ q.rec \in BOOLEAN /\ q.timer \in BOOLEAN
      BY <1>4, <1>5, <1>9, <1>10 DEF Fine, Types, Flags, Someone
    <3>2. q.card \in BOOLEAN /\ q.rejoin \in BOOLEAN
      BY <1>4, <1>5, <1>9, <1>10 DEF Fine, Types, Flags, Someone
    <3>3. q.usingR \in BOOLEAN /\ q.sr \in BOOLEAN /\ q.ss \in BOOLEAN
      BY <1>4, <1>5, <1>9, <1>10 DEF Fine, Types, Flags, Someone
    <3>4. Flags(q)
      BY <3>1, <3>2, <3>3 DEF Flags
    <3> QED
      BY <3>4, <1>4, <1>5, <1>9, <1>10 DEF Fine, Types, Someone
  <2>2. Course(q, old)
    BY <1>4, <1>5, <1>9, <1>10 DEF Fine, Course, Types, Flags
  <2>3. Cover(q, old)
    BY <1>4, <1>5, <1>9, <1>10 DEF Fine, Cover, Blank, LoadOK, Covered, ScriptRan, Course
  <2>4. Using(q)
    BY <1>4, <1>5, <1>9, <1>10 DEF Fine, Using, Course, Cover, Blank
  <2>5. Kinds(q, srv)
    BY <1>4, <1>5, <1>9, <1>10 DEF Fine, Kinds
  <2>6. Replaces(q, srv)
    BY <1>4, <1>5, <1>9, <1>10 DEF Fine, Replaces, Course
  <2>7. Ticked(q, srv)
    BY <1>4, <1>5, <1>9, <1>10 DEF Fine, Ticked, Course
  <2>8. Hub(q, srv)
    BY <1>4, <1>5, <1>9, <1>10 DEF Fine, Hub
  <2> QED
    BY <2>1, <2>2, <2>3, <2>4, <2>5, <2>6, <2>7, <2>8 DEF Fine
<1> QED
  BY <1>4, <1>5, <1>9, <1>10, <1>11, TurnNone DEF Keeps

\* The other buttons of the card.
LEMMA RejoinOtherStep ==
    ASSUME Inv, RejoinOther PROVE Inv'
<1> USE DEF SameTokens, SameLogin, SamePlace, SameCall, SameCard
<1>1. PICK q : q = [s EXCEPT !.rejoin = FALSE]
  OBVIOUS
<1>2. /\ Fine(s, srv, old) /\ Whole(s) /\ s.out = <<>> /\ old \in BOOLEAN
  BY DEF Inv, Fine, Types
<1>3. s.card /\ Turn(q) /\ UNCHANGED <<case, old>>
  BY <1>1 DEF RejoinOther
<1>4. /\ Whole(q) /\ SameTokens(s, q) /\ SameLogin(s, q) /\ SamePlace(s, q) /\ SameCall(s, q)
      /\ q.card = s.card /\ q.rejoin = FALSE /\ q.silent = s.silent /\ q.out = <<>>
  BY <1>1, <1>2 DEF Whole
<1>5. Fine(q, srv, old)
  <2>1. Types(q)
    <3>1. q.want \in BOOLEAN /\ q.rec \in BOOLEAN /\ q.timer \in BOOLEAN
      BY <1>2, <1>3, <1>4 DEF Fine, Types, Flags, Someone
    <3>2. q.card \in BOOLEAN /\ q.rejoin \in BOOLEAN
      BY <1>2, <1>3, <1>4 DEF Fine, Types, Flags, Someone
    <3>3. q.usingR \in BOOLEAN /\ q.sr \in BOOLEAN /\ q.ss \in BOOLEAN
      BY <1>2, <1>3, <1>4 DEF Fine, Types, Flags, Someone
    <3>4. Flags(q)
      BY <3>1, <3>2, <3>3 DEF Flags
    <3> QED
      BY <3>4, <1>2, <1>3, <1>4 DEF Fine, Types, Someone
  <2>2. Course(q, old)
    BY <1>2, <1>3, <1>4 DEF Fine, Course, Types, Flags
  <2>3. Cover(q, old)
    BY <1>2, <1>3, <1>4 DEF Fine, Cover, Blank, LoadOK, Covered, ScriptRan, Course
  <2>4. Using(q)
    BY <1>2, <1>3, <1>4 DEF Fine, Using, Course, Cover, Blank
  <2>5. Kinds(q, srv)
    BY <1>2, <1>3, <1>4 DEF Fine, Kinds
  <2>6. Replaces(q, srv)
    BY <1>2, <1>3, <1>4 DEF Fine, Replaces, Course
  <2>7. Ticked(q, srv)
    BY <1>2, <1>3, <1>4 DEF Fine, Ticked, Course
  <2>8. Hub(q, srv)
    BY <1>2, <1>3, <1>4 DEF Fine, Hub
  <2> QED
    BY <2>1, <2>2, <2>3, <2>4, <2>5, <2>6, <2>7, <2>8 DEF Fine
<1>6. q.st # "in"
  BY <1>2, <1>3, <1>4 DEF Fine, Course
<1> QED
  BY <1>2, <1>3, <1>4, <1>5, <1>6, TurnNone DEF Keeps

\* The link for operators on the card: the token at hand is put aside.
LEMMA OperatorLoginStep ==
    ASSUME Inv, OperatorLogin PROVE Inv'
<1> USE DEF SameTokens, SameLogin, SamePlace, SameCall, SameCard
<1>1. PICK q : q = [s EXCEPT !.token = None, !.usingR = FALSE, !.probing = "null"]
  OBVIOUS
<1>2. /\ Fine(s, srv, old) /\ Whole(s) /\ s.out = <<>> /\ old \in BOOLEAN
  BY DEF Inv, Fine, Types
<1>3. s.card /\ s.load.phase = "shown" /\ Turn(q) /\ UNCHANGED <<case, old>>
  BY <1>1 DEF OperatorLogin, Press
<1>4. /\ Whole(q) /\ SameTokens(s, q) /\ SamePlace(s, q) /\ SameCall(s, q) /\ SameCard(s, q)
      /\ q.token = None /\ q.usingR = FALSE /\ q.probing = "null" /\ q.pend = s.pend
      /\ q.fallback = s.fallback /\ q.out = <<>>
  BY <1>1, <1>2 DEF Whole
<1>5. Fine(q, srv, old)
  <2>1. Types(q)
    <3>1. q.want \in BOOLEAN /\ q.rec \in BOOLEAN /\ q.timer \in BOOLEAN
      BY <1>2, <1>3, <1>4 DEF Fine, Types, Flags, Someone
    <3>2. q.card \in BOOLEAN /\ q.rejoin \in BOOLEAN
      BY <1>2, <1>3, <1>4 DEF Fine, Types, Flags, Someone
    <3>3. q.usingR \in BOOLEAN /\ q.sr \in BOOLEAN /\ q.ss \in BOOLEAN
      BY <1>2, <1>3, <1>4 DEF Fine, Types, Flags, Someone
    <3>4. Flags(q)
      BY <3>1, <3>2, <3>3 DEF Flags
    <3> QED
      BY <3>4, <1>2, <1>3, <1>4 DEF Fine, Types, Someone
  <2>2. Course(q, old)
    BY <1>2, <1>3, <1>4 DEF Fine, Course, Types, Flags
  <2>3. Cover(q, old)
    BY <1>2, <1>3, <1>4 DEF Fine, Cover, Blank, LoadOK, Covered, ScriptRan, Course
  <2>4. Using(q)
    BY <1>2, <1>3, <1>4 DEF Fine, Using, Course, Cover, Blank
  <2>5. Kinds(q, srv)
    BY <1>2, <1>3, <1>4 DEF Fine, Kinds
  <2>6. Replaces(q, srv)
    BY <1>2, <1>3, <1>4 DEF Fine, Replaces, Course
  <2>7. Ticked(q, srv)
    BY <1>2, <1>3, <1>4 DEF Fine, Ticked, Course
  <2>8. Hub(q, srv)
    BY <1>2, <1>3, <1>4 DEF Fine, Hub
  <2> QED
    BY <2>1, <2>2, <2>3, <2>4, <2>5, <2>6, <2>7, <2>8 DEF Fine
<1>6. q.st # "in"
  BY <1>2, <1>3, <1>4 DEF Fine, Course
<1> QED
  BY <1>2, <1>3, <1>4, <1>5, <1>6, TurnNone DEF Keeps

\* The red button.
LEMMA HangUpStep ==
    ASSUME Inv, Races = {}, HangUp PROVE Inv'
<1>1. PICK h : h = Over(s)
  OBVIOUS
<1>2. PICK q : q = Close(h)
  OBVIOUS
<1>3. /\ Fine(s, srv, old) /\ Whole(s) /\ s.out = <<>> /\ old \in BOOLEAN
  BY DEF Inv, Fine, Types
<1>4. s.load.phase = "shown" /\ ~s.sr /\ ~s.ss /\ Turn(q) /\ UNCHANGED <<case, old>>
  BY <1>1, <1>2 DEF HangUp, Press, Unanswered
<1>5. /\ Whole(h) /\ SameTokens(s, h) /\ SameLogin(s, h) /\ SamePlace(s, h) /\ SameCard(s, h)
      /\ h.out = s.out /\ h.last = s.last
      /\ h.want = FALSE /\ h.rec = FALSE /\ h.timer = FALSE
  BY <1>1, <1>3, OverDoes
<1>6. /\ Whole(q) /\ SameTokens(h, q) /\ SameLogin(h, q) /\ SameCall(h, q) /\ SameCard(h, q)
      /\ q.cred = h.cred /\ q.load = h.load /\ q.out = h.out
      /\ q.st = IF h.st \in {"none", "gone", "away"} THEN h.st ELSE "closing"
  BY <1>2, <1>5, CloseDoes
<1>7. /\ Whole(q) /\ SameTokens(s, q) /\ SameLogin(s, q) /\ SameCard(s, q)
      /\ q.cred = s.cred /\ q.load = s.load /\ q.out = <<>> /\ q.last = s.last
      /\ q.want = FALSE /\ q.rec = FALSE /\ q.timer = FALSE
      /\ q.st \in {s.st, "closing"} /\ (s.st = "away" => q.st = "away")
      /\ q.st \in {"none", "gone", "away", "closing"}
  BY <1>3, <1>5, <1>6 DEF SameTokens, SameLogin, SamePlace, SameCall, SameCard
<1> USE DEF SameTokens, SameLogin, SamePlace, SameCall, SameCard
<1>8. Fine(q, srv, old)
  <2>1. Types(q)
    <3>1. q.want \in BOOLEAN /\ q.rec \in BOOLEAN /\ q.timer \in BOOLEAN
      BY <1>3, <1>4, <1>7 DEF Fine, Types, Flags, Someone
    <3>2. q.card \in BOOLEAN /\ q.rejoin \in BOOLEAN
      BY <1>3, <1>4, <1>7 DEF Fine, Types, Flags, Someone
    <3>3. q.usingR \in BOOLEAN /\ q.sr \in BOOLEAN /\ q.ss \in BOOLEAN
      BY <1>3, <1>4, <1>7 DEF Fine, Types, Flags, Someone
    <3>4. Flags(q)
      BY <3>1, <3>2, <3>3 DEF Flags
    <3> QED
      BY <3>4, <1>3, <1>4, <1>7 DEF Fine, Types, Someone
  <2>2. Course(q, old)
    BY <1>3, <1>4, <1>7 DEF Fine, Course, Types, Flags
  <2>3. Cover(q, old)
    BY <1>3, <1>4, <1>7 DEF Fine, Cover, Blank, LoadOK, Covered, ScriptRan, Course
  <2>4. Using(q)
    BY <1>3, <1>4, <1>7 DEF Fine, Using, Course, Cover, Blank
  <2>5. Kinds(q, srv)
    BY <1>3, <1>4, <1>7 DEF Fine, Kinds
  <2>6. Replaces(q, srv)
    BY <1>3, <1>4, <1>7 DEF Fine, Replaces, Course
  <2>7. Ticked(q, srv)
    BY <1>3, <1>4, <1>7 DEF Fine, Ticked, Course
  <2>8. Hub(q, srv)
    BY <1>3, <1>4, <1>7 DEF Fine, Hub
  <2> QED
    BY <2>1, <2>2, <2>3, <2>4, <2>5, <2>6, <2>7, <2>8 DEF Fine
<1> QED
  BY <1>3, <1>4, <1>7, <1>8, TurnNone DEF Keeps

\* Who comes back with what an operator's device has stored comes back as one.
LEMMA FreshIsOp ==
    ASSUME NEW p, Kinds(p, srv), Server(srv), p.remember \in srv.valid,
           p.last # None, case.who = "op"
    PROVE  Op(srv, FreshRejoin(p))
<1>1. p.remember \notin srv.lapsed /\ p.remember # None
  BY NoToken DEF Server
<1>2. Op(srv, p.remember)
  BY <1>1 DEF Kinds, Op
<1>3. Session(p) # None => Op(srv, Session(p))
  BY DEF Kinds, Op, Session
<1>4. Remember(p) = p.remember
  BY <1>1 DEF Remember
<1>5. CASE p.last = Pw
  BY <1>5 DEF FreshRejoin, Op
<1>6. CASE p.last # Pw
  BY <1>1, <1>2, <1>3, <1>4, <1>6 DEF FreshRejoin
<1> QED
  BY <1>5, <1>6

\* A reconnection asks to be let in again.
LEMMA ComesBackIsFine ==
    ASSUME NEW p, Fine(p, srv, FALSE), Server(srv), p.last # None, ~p.usingR, ~p.card, ~p.timer,
           p.silent = 0, ~p.sr, ~p.ss, p.st \in {"opening", "asked"}, NEW q, q = RejoinAfterReconnect(p)
    PROVE  Fine(q, srv, FALSE)
<1>1. Whole(p) /\ Kinds(p, srv)
  BY DEF Fine, Types
<1>2. /\ Whole(q) /\ SameTokens(p, q) /\ SameLogin(p, q) /\ SameCard(p, q)
      /\ q.load = p.load /\ q.out = p.out /\ q.st = "asked" /\ q.adm = FALSE
      /\ q.want = p.want /\ q.rec = p.rec /\ q.timer = p.timer
      /\ q.cred = q.last /\ q.last # None
      /\ q.last \in {p.last, p.session, p.remember} /\ q.last = FreshRejoin(p)
  BY <1>1, RejoinDoes
<1>3. p.remember \in srv.valid /\ case.who = "op" => Op(srv, q.cred)
  BY <1>1, <1>2, FreshIsOp
<1> USE DEF SameTokens, SameLogin, SamePlace, SameCall, SameCard
<1>4. Fine(q, srv, FALSE)
  <2>1. Types(q)
    <3>1. q.want \in BOOLEAN /\ q.rec \in BOOLEAN /\ q.timer \in BOOLEAN
      BY <1>2 DEF Fine, Types, Flags, Someone
    <3>2. q.card \in BOOLEAN /\ q.rejoin \in BOOLEAN
      BY <1>2 DEF Fine, Types, Flags, Someone
    <3>3. q.usingR \in BOOLEAN /\ q.sr \in BOOLEAN /\ q.ss \in BOOLEAN
      BY <1>2 DEF Fine, Types, Flags, Someone
    <3>4. Flags(q)
      BY <3>1, <3>2, <3>3 DEF Flags
    <3> QED
      BY <3>4, <1>2 DEF Fine, Types, Someone
  <2>2. Course(q, FALSE)
    BY <1>2 DEF Fine, Course, Types, Flags
  <2>3. Cover(q, FALSE)
    BY <1>2 DEF Fine, Cover, Blank, LoadOK, Covered, ScriptRan, Course
  <2>4. Using(q)
    BY <1>2 DEF Fine, Using, Course, Cover, Blank
  <2>5. Kinds(q, srv)
    BY <1>2 DEF Fine, Kinds
  <2>6. Replaces(q, srv)
    BY <1>2 DEF Fine, Replaces, Course
  <2>7. Ticked(q, srv)
    BY <1>2, <1>3 DEF Fine, Ticked, Course
  <2>8. Hub(q, srv)
    BY <1>2 DEF Fine, Hub
  <2> QED
    BY <2>1, <2>2, <2>3, <2>4, <2>5, <2>6, <2>7, <2>8 DEF Fine
<1> QED
  BY <1>4

\* The first join of a connection.
LEMMA JoinIsFine ==
    ASSUME NEW p, NEW x, Fine(p, x, FALSE), NEW tick \in BOOLEAN,
           ~p.rec, ~p.timer, ~p.card, p.silent = 0, ~p.sr, ~p.ss,
           p.st \in {"opening", "asked"},
           p.token = None => /\ ~Covered(p.load)
                             /\ p.remember # None => tick /\ case.who = "op",
           NEW q, q = JoinWith(p, tick)
    PROVE  Fine(q, x, FALSE)
<1>1. Whole(p)
  BY DEF Fine, Types
<1>2. /\ Whole(q) /\ SameTokens(p, q) /\ SameCall(p, q) /\ SameCard(p, q)
      /\ q.load = p.load /\ q.out = p.out /\ q.st = "asked" /\ q.adm = FALSE
      /\ q.token = p.token /\ q.usingR = p.usingR /\ q.fallback = p.fallback
      /\ LogsIn(p, q, tick)
  BY <1>1, JoinWithDoes
<1>3. /\ q.cred # None
      /\ \/ p.token # None /\ q.cred = p.token /\ q.pend = p.pend
         \/ p.token = None /\ q.cred = Pw /\ q.pend = IF tick THEN "tick" ELSE "no"
  BY <1>2, NoToken DEF LogsIn
<1>4. p.token = None /\ p.remember # None => q.pend = "tick" /\ case.who = "op" /\ Op(x, q.cred)
  BY <1>2, <1>3 DEF Op
<1> USE DEF SameTokens, SameLogin, SamePlace, SameCall, SameCard
<1>5. Fine(q, x, FALSE)
  <2>1. Types(q)
    <3>1. q.want \in BOOLEAN /\ q.rec \in BOOLEAN /\ q.timer \in BOOLEAN
      BY <1>2, <1>3 DEF Fine, Types, Flags, Someone
    <3>2. q.card \in BOOLEAN /\ q.rejoin \in BOOLEAN
      BY <1>2, <1>3 DEF Fine, Types, Flags, Someone
    <3>3. q.usingR \in BOOLEAN /\ q.sr \in BOOLEAN /\ q.ss \in BOOLEAN
      BY <1>2, <1>3 DEF Fine, Types, Flags, Someone
    <3>4. Flags(q)
      BY <3>1, <3>2, <3>3 DEF Flags
    <3> QED
      BY <3>4, <1>2, <1>3 DEF Fine, Types, Someone
  <2>2. Course(q, FALSE)
    BY <1>2, <1>3 DEF Fine, Course, Types, Flags
  <2>3. Cover(q, FALSE)
    BY <1>2, <1>3 DEF Fine, Cover, Blank, LoadOK, Covered, ScriptRan, Course
  <2>4. Using(q)
    BY <1>2, <1>3 DEF Fine, Using, Course, Cover, Blank
  <2>5. Kinds(q, x)
    BY <1>2, <1>3 DEF Fine, Kinds
  <2>6. Replaces(q, x)
    BY <1>2, <1>3 DEF Fine, Replaces, Course
  <2>7. Ticked(q, x)
    BY <1>2, <1>3, <1>4 DEF Fine, Ticked, Course
  <2>8. Hub(q, x)
    BY <1>2, <1>3 DEF Fine, Hub
  <2> QED
    BY <2>1, <2>2, <2>3, <2>4, <2>5, <2>6, <2>7, <2>8 DEF Fine
<1> QED
  BY <1>5


\* What of a name that was edited.
LEMMA DropsOrNot ==
    ASSUME NEW p, NEW g, g.token = p.token, g.usingR = p.usingR, NEW edited,
           Whole(p), Whole(g)
    PROVE  DropToken(g, edited).token = DropToken(p, edited).token
  BY DEF DropToken, Whole

\* A name that is not edited drops nothing.
LEMMA NotEdited ==
    ASSUME NEW p PROVE DropToken(p, FALSE) = p
  BY DEF DropToken

\* The connection is up, and the page joins, or joins again.
LEMMA OpenedStep ==
    ASSUME Inv, Races = {}, NEW edited \in BOOLEAN, NEW tick \in BOOLEAN, Opened(edited, tick)
    PROVE  Inv'
<1>1. /\ Fine(s, srv, old) /\ Whole(s) /\ s.out = <<>> /\ Server(srv)
  BY DEF Inv, Fine, Types, Room
<1>2. /\ s.st = "opening" /\ old = FALSE /\ UNCHANGED <<case, old>>
      /\ DropToken(s, edited).token = None /\ s.remember # None => tick /\ case.who = "op"
      /\ edited => s.probing # "null"
  BY DEF Opened, Inv
<1>3. ~s.sr /\ ~s.ss /\ s.silent = 0 /\ ~s.timer /\ Fine(s, srv, FALSE) /\ (s.rec => s.last # None)
  BY <1>1, <1>2 DEF Fine, Course
<1>4. CASE s.rec /\ s.last # None
  <2>1. PICK q : q = RejoinAfterReconnect(s)
    OBVIOUS
  <2>2. Turn(q)
    BY <1>4, <2>1 DEF Opened
  <2>3. ~s.usingR /\ ~s.card
    BY <1>3, <1>4 DEF Fine, Using, Course
  <2>4. Fine(q, srv, FALSE)
    BY <1>1, <1>2, <1>3, <1>4, <2>1, <2>3, ComesBackIsFine
  <2>5. q.out = <<>> /\ q.sr = s.sr /\ q.ss = s.ss /\ q.remember = s.remember /\ q.st = "asked"
    BY <1>1, <2>1, RejoinDoes DEF SameTokens
  <2> QED
    BY <1>2, <2>2, <2>4, <2>5, TurnNone DEF Keeps
<1>5. CASE ~(s.rec /\ s.last # None)
  <2>1. PICK g : g = SetConnectedOn(s)
    OBVIOUS
  <2>2. PICK d : d = DropToken(g, edited)
    OBVIOUS
  <2>3. PICK q : q = JoinWith(d, tick)
    OBVIOUS
  <2>4. Turn(q)
    BY <1>5, <2>1, <2>2, <2>3 DEF Opened, Join
  <2>5. /\ Whole(g) /\ SameTokens(s, g) /\ SameLogin(s, g) /\ SamePlace(s, g)
        /\ SameCall(s, g) /\ g.out = s.out
        /\ ~g.card /\ g.rejoin = s.rejoin /\ g.silent = s.silent /\ g.card = FALSE
    BY <1>1, <2>1, SetConnectedOnDoes DEF SetConnectedOn, Whole
  <2>6. d.token = DropToken(s, edited).token /\ (~edited => d = g)
    BY <1>1, <2>2, <2>5, DropsOrNot, NotEdited DEF SameLogin
  <2>7. /\ Whole(d) /\ SameTokens(g, d) /\ SamePlace(g, d) /\ SameCall(g, d) /\ SameCard(g, d)
        /\ d.out = g.out /\ d.fallback = g.fallback /\ d.pend = g.pend
        /\ \/ d.token = None /\ d.usingR = FALSE
           \/ d.token = g.token /\ d.usingR = g.usingR
    <3>1. d = g \/ d = [g EXCEPT !.token = None, !.usingR = FALSE, !.probing = "null"]
      BY <2>2 DEF DropToken
    <3> QED
      BY <2>5, <3>1, DropTokenDoes
  <2>8. /\ Whole(d) /\ SameTokens(s, d) /\ SamePlace(s, d) /\ SameCall(s, d)
        /\ d.out = <<>> /\ d.fallback = s.fallback /\ d.pend = s.pend
        /\ d.card = FALSE /\ d.rejoin = s.rejoin /\ d.silent = s.silent
        /\ \/ d.token = None /\ d.usingR = FALSE
           \/ d.token = s.token /\ d.usingR = s.usingR
    BY <1>1, <2>5, <2>7 DEF SameTokens, SameLogin, SamePlace, SameCall, SameCard
  <2>9. Covered(d.load) => d = g /\ d.token # None /\ d.probing = "null"
    <3>1. Covered(s.load) => s.token # None /\ s.probing = "null"
      BY <1>2, <1>3, <1>5 DEF Fine, Cover
    <3>2. d.load = s.load /\ g.token = s.token /\ g.probing = s.probing
      BY <2>5, <2>8 DEF SamePlace, SameLogin
    <3>3. Covered(d.load) => ~edited
      BY <1>2, <3>1, <3>2
    <3> QED
      BY <2>6, <3>1, <3>2, <3>3
  <2>10. q.out = d.out /\ SameTokens(d, q) /\ q.st = "asked"
    BY <2>3, <2>8, JoinWithDoes
  <2> USE DEF SameTokens, SameLogin, SamePlace, SameCall, SameCard
  <2>11. Fine(d, srv, FALSE)
    <3>1. Types(d)
      <4>1. d.want \in BOOLEAN /\ d.rec \in BOOLEAN /\ d.timer \in BOOLEAN
        BY <1>2, <1>3, <2>8 DEF Fine, Types, Flags, Someone
      <4>2. d.card \in BOOLEAN /\ d.rejoin \in BOOLEAN
        BY <1>2, <1>3, <2>8 DEF Fine, Types, Flags, Someone
      <4>3. d.usingR \in BOOLEAN /\ d.sr \in BOOLEAN /\ d.ss \in BOOLEAN
        BY <1>2, <1>3, <2>8 DEF Fine, Types, Flags, Someone
      <4>4. Flags(d)
        BY <4>1, <4>2, <4>3 DEF Flags
      <4> QED
        BY <4>4, <1>2, <1>3, <2>8 DEF Fine, Types, Someone
    <3>2. Course(d, FALSE)
      BY <1>2, <1>3, <2>8 DEF Fine, Course, Types, Flags
    <3>3. Cover(d, FALSE)
      BY <1>2, <1>3, <2>8, <2>9 DEF Fine, Cover, Blank, LoadOK, Covered, ScriptRan, Course
    <3>4. Using(d)
      BY <1>2, <1>3, <2>8 DEF Fine, Using, Course, Cover, Blank
    <3>5. Kinds(d, srv)
      BY <1>2, <1>3, <2>8 DEF Fine, Kinds
    <3>6. Replaces(d, srv)
      BY <1>2, <1>3, <2>8 DEF Fine, Replaces, Course
    <3>7. Ticked(d, srv)
      BY <1>2, <1>3, <2>8 DEF Fine, Ticked, Course
    <3>8. Hub(d, srv)
      BY <1>2, <1>3, <2>8 DEF Fine, Hub
    <3> QED
      BY <3>1, <3>2, <3>3, <3>4, <3>5, <3>6, <3>7, <3>8 DEF Fine
  <2>12. /\ ~d.rec /\ ~d.timer /\ ~d.card /\ d.silent = 0 /\ ~d.sr /\ ~d.ss /\ d.st = "opening"
         /\ d.token = None => /\ ~Covered(d.load)
                              /\ d.remember # None => tick /\ case.who = "op"
    BY <1>2, <1>3, <1>5, <2>6, <2>8, <2>9
  <2>13. Fine(q, srv, FALSE)
    BY <2>3, <2>8, <2>11, <2>12, JoinIsFine
  <2>14. q.out = <<>> /\ q.sr = s.sr /\ q.ss = s.ss /\ q.remember = s.remember /\ q.st = "asked"
    BY <2>8, <2>10
  <2> QED
    BY <1>2, <2>4, <2>13, <2>14, TurnNone DEF Keeps
<1> QED
  BY <1>4, <1>5

\* An operator, to the page, is who is one to the server.
LEMMA OpIsHere ==
    ASSUME NEW p PROVE OpHere(p) <=> Op(srv, p.cred)
  BY DEF OpHere, Op, Kind, KindIn

\* A device that is remembered is an operator's: it does not knock, and is
\* refused only when its token is no longer good.
LEMMA RememberedIsLetIn ==
    ASSUME Fine(s, srv, old), s.st = "asked", s.usingR, Races = {},
           NEW v, v \in Verdicts, v \in {"knock", "full", "refused", "need-username"}
    PROVE  v = "refused" /\ s.remember \notin srv.valid
<1>1. s.cred = s.remember /\ s.remember # None
  BY DEF Fine, Using
<1>2. KindIn(srv, s.cred) = "remember" /\ s.cred \in Tok
  BY <1>1 DEF Fine, Kinds, KindIn
<1>3. OpHere(s) /\ Kind(s.cred) = "remember" /\ s.cred # Pw
  BY <1>2, OpIsHere, NoToken DEF Op, Kind, KindIn
<1>4. s.cred \in srv.valid => Verdicts = {"join"} \cup {} \cup {}
  BY <1>3 DEF Verdicts
<1>5. s.cred \notin srv.valid => Verdicts = {"refused"}
  BY <1>3 DEF Verdicts
<1> QED
  BY <1>1, <1>4, <1>5

\* Somebody has to knock.
LEMMA KnockingStep ==
    ASSUME Inv, Races = {}, s.st = "asked", "knock" \in Verdicts, Turn(GotKnocking(s)),
           UNCHANGED <<case, old>>
    PROVE  Inv'
<1>1. PICK h : h = StopReconnect(s)
  OBVIOUS
<1>2. PICK q : q = GotKnocking(s)
  OBVIOUS
<1>3. /\ Fine(s, srv, old) /\ Whole(s) /\ s.out = <<>> /\ old \in BOOLEAN
  BY DEF Inv, Fine, Types
<1>4. /\ Whole(h) /\ SameTokens(s, h) /\ SameLogin(s, h) /\ SamePlace(s, h)
      /\ SameCard(s, h) /\ h.out = s.out /\ h.want = s.want /\ h.last = s.last
      /\ h.rec = FALSE /\ h.timer = FALSE
  BY <1>1, <1>3, StopReconnectDoes
<1>5. ~s.usingR /\ case.room # "hub"
  <2>1. ~s.usingR
    BY <1>3, RememberedIsLetIn
  <2>2. "lobby" \notin Races /\ "fullop" \notin Races
    OBVIOUS
  <2>3. case.room # "hub"
    BY <2>2 DEF Verdicts
  <2> QED
    BY <2>1, <2>3
<1> USE DEF SameTokens, SameLogin, SamePlace, SameCall, SameCard
<1>6. /\ Whole(q) /\ SameTokens(s, q) /\ SameLogin(s, q) /\ q.st = "lobby" /\ q.cred = s.cred
      /\ q.load = s.load /\ q.card = FALSE /\ q.rejoin = s.rejoin /\ q.silent = s.silent
      /\ q.out = <<>> /\ q.want = s.want /\ q.last = s.last /\ q.rec = FALSE /\ q.timer = FALSE
  BY <1>1, <1>2, <1>3, <1>4 DEF GotKnocking, Whole
<1>7. Fine(q, srv, old)
  <2>1. Types(q)
    <3>1. q.want \in BOOLEAN /\ q.rec \in BOOLEAN /\ q.timer \in BOOLEAN
      BY <1>3, <1>5, <1>6 DEF Fine, Types, Flags, Someone
    <3>2. q.card \in BOOLEAN /\ q.rejoin \in BOOLEAN
      BY <1>3, <1>5, <1>6 DEF Fine, Types, Flags, Someone
    <3>3. q.usingR \in BOOLEAN /\ q.sr \in BOOLEAN /\ q.ss \in BOOLEAN
      BY <1>3, <1>5, <1>6 DEF Fine, Types, Flags, Someone
    <3>4. Flags(q)
      BY <3>1, <3>2, <3>3 DEF Flags
    <3> QED
      BY <3>4, <1>3, <1>5, <1>6 DEF Fine, Types, Someone
  <2>2. Course(q, old)
    BY <1>3, <1>5, <1>6 DEF Fine, Course, Types, Flags
  <2>3. Cover(q, old)
    BY <1>3, <1>5, <1>6 DEF Fine, Cover, Blank, LoadOK, Covered, ScriptRan, Course
  <2>4. Using(q)
    BY <1>3, <1>5, <1>6 DEF Fine, Using, Course, Cover, Blank
  <2>5. Kinds(q, srv)
    BY <1>3, <1>5, <1>6 DEF Fine, Kinds
  <2>6. Replaces(q, srv)
    BY <1>3, <1>5, <1>6 DEF Fine, Replaces, Course
  <2>7. Ticked(q, srv)
    BY <1>3, <1>5, <1>6 DEF Fine, Ticked, Course
  <2>8. Hub(q, srv)
    BY <1>3, <1>5, <1>6 DEF Fine, Hub
  <2> QED
    BY <2>1, <2>2, <2>3, <2>4, <2>5, <2>6, <2>7, <2>8 DEF Fine
<1> QED
  BY <1>2, <1>3, <1>6, <1>7, TurnNone DEF Keeps

\* The door is opened, or not.
LEMMA AdmitStep ==
    ASSUME Inv, Admit PROVE Inv'
<1>1. PICK h : h = StopReconnect(s)
  OBVIOUS
<1>2. PICK q : q = GotAdmitted(s)
  OBVIOUS
<1>3. /\ Fine(s, srv, old) /\ Whole(s) /\ s.out = <<>> /\ old \in BOOLEAN
      /\ s.st = "lobby" /\ Turn(q) /\ UNCHANGED <<case, old>>
  BY <1>2 DEF Inv, Fine, Types, Admit
<1>4. /\ Whole(h) /\ SameTokens(s, h) /\ SameLogin(s, h) /\ SamePlace(s, h)
      /\ SameCard(s, h) /\ h.out = s.out /\ h.want = s.want /\ h.last = s.last
      /\ h.rec = FALSE /\ h.timer = FALSE
  BY <1>1, <1>3, StopReconnectDoes
<1>5. ~s.usingR
  BY <1>3 DEF Fine, Using
<1> USE DEF SameTokens, SameLogin, SamePlace, SameCall, SameCard
<1>6. /\ Whole(q) /\ SameTokens(s, q) /\ SameLogin(s, q) /\ q.st = "asked" /\ q.cred = s.cred
      /\ q.load = s.load /\ SameCard(s, q)
      /\ q.out = <<>> /\ q.want = s.want /\ q.last = s.last /\ q.rec = FALSE /\ q.timer = FALSE
  BY <1>1, <1>2, <1>3, <1>4 DEF GotAdmitted, Whole
<1>7. Fine(q, srv, old)
  <2>1. Types(q)
    <3>1. q.want \in BOOLEAN /\ q.rec \in BOOLEAN /\ q.timer \in BOOLEAN
      BY <1>3, <1>5, <1>6 DEF Fine, Types, Flags, Someone
    <3>2. q.card \in BOOLEAN /\ q.rejoin \in BOOLEAN
      BY <1>3, <1>5, <1>6 DEF Fine, Types, Flags, Someone
    <3>3. q.usingR \in BOOLEAN /\ q.sr \in BOOLEAN /\ q.ss \in BOOLEAN
      BY <1>3, <1>5, <1>6 DEF Fine, Types, Flags, Someone
    <3>4. Flags(q)
      BY <3>1, <3>2, <3>3 DEF Flags
    <3> QED
      BY <3>4, <1>3, <1>5, <1>6 DEF Fine, Types, Someone
  <2>2. Course(q, old)
    BY <1>3, <1>5, <1>6 DEF Fine, Course, Types, Flags
  <2>3. Cover(q, old)
    BY <1>3, <1>5, <1>6 DEF Fine, Cover, Blank, LoadOK, Covered, ScriptRan, Course
  <2>4. Using(q)
    BY <1>3, <1>5, <1>6 DEF Fine, Using, Course, Cover, Blank
  <2>5. Kinds(q, srv)
    BY <1>3, <1>5, <1>6 DEF Fine, Kinds
  <2>6. Replaces(q, srv)
    BY <1>3, <1>5, <1>6 DEF Fine, Replaces, Course
  <2>7. Ticked(q, srv)
    BY <1>3, <1>5, <1>6 DEF Fine, Ticked, Course
  <2>8. Hub(q, srv)
    BY <1>3, <1>5, <1>6 DEF Fine, Hub
  <2> QED
    BY <2>1, <2>2, <2>3, <2>4, <2>5, <2>6, <2>7, <2>8 DEF Fine
<1> QED
  BY <1>3, <1>6, <1>7, TurnNone DEF Keeps

\* The host denies the one who knocks.
LEMMA DenyStep ==
    ASSUME Inv, Deny PROVE Inv'
<1>1. PICK h : h = Over(s)
  OBVIOUS
<1>2. PICK g : g = [h EXCEPT !.token = None, !.stash = None, !.waiting = FALSE]
  OBVIOUS
<1>3. PICK q : q = Close(g)
  OBVIOUS
<1>4. /\ Fine(s, srv, old) /\ Whole(s) /\ s.out = <<>> /\ old \in BOOLEAN
      /\ s.st = "lobby" /\ Turn(q) /\ UNCHANGED <<case, old>>
  BY <1>1, <1>2, <1>3 DEF Inv, Fine, Types, Deny, GotDeny
<1>5. /\ Whole(h) /\ SameTokens(s, h) /\ SameLogin(s, h) /\ SamePlace(s, h) /\ SameCard(s, h)
      /\ h.out = s.out /\ h.last = s.last
      /\ h.want = FALSE /\ h.rec = FALSE /\ h.timer = FALSE
  BY <1>1, <1>4, OverDoes
<1>6. /\ Whole(g) /\ g.remember = h.remember /\ g.session = h.session /\ g.prev = h.prev
      /\ g.sr = h.sr /\ g.ss = h.ss /\ g.stash = None /\ g.token = None /\ g.usingR = h.usingR
      /\ g.fallback = h.fallback /\ g.pend = h.pend
      /\ SamePlace(h, g) /\ SameCall(h, g) /\ SameCard(h, g) /\ g.out = h.out
  BY <1>2, <1>5 DEF Whole, SamePlace, SameCall, SameCard
<1>7. /\ Whole(q) /\ SameTokens(g, q) /\ SameLogin(g, q) /\ SameCall(g, q) /\ SameCard(g, q)
      /\ q.cred = g.cred /\ q.load = g.load /\ q.out = g.out
      /\ q.st = IF g.st \in {"none", "gone", "away"} THEN g.st ELSE "closing"
  BY <1>3, <1>6, CloseDoes
<1>8. ~s.usingR /\ s.silent = 0
  BY <1>4 DEF Fine, Using, Course
<1> USE DEF SameTokens, SameLogin, SamePlace, SameCall, SameCard
<1>9. /\ Whole(q) /\ q.remember = s.remember /\ q.session = s.session /\ q.prev = s.prev
      /\ q.sr = s.sr /\ q.ss = s.ss /\ q.stash = None /\ q.token = None /\ q.usingR = s.usingR
      /\ q.fallback = s.fallback /\ q.pend = s.pend /\ q.st = "closing" /\ q.cred = s.cred
      /\ q.load = s.load /\ SameCard(s, q) /\ q.out = <<>> /\ q.last = s.last
      /\ q.want = FALSE /\ q.rec = FALSE /\ q.timer = FALSE
  BY <1>4, <1>5, <1>6, <1>7
<1>10. Fine(q, srv, old)
  <2>1. Types(q)
    <3>1. q.want \in BOOLEAN /\ q.rec \in BOOLEAN /\ q.timer \in BOOLEAN
      BY <1>4, <1>8, <1>9 DEF Fine, Types, Flags, Someone
    <3>2. q.card \in BOOLEAN /\ q.rejoin \in BOOLEAN
      BY <1>4, <1>8, <1>9 DEF Fine, Types, Flags, Someone
    <3>3. q.usingR \in BOOLEAN /\ q.sr \in BOOLEAN /\ q.ss \in BOOLEAN
      BY <1>4, <1>8, <1>9 DEF Fine, Types, Flags, Someone
    <3>4. Flags(q)
      BY <3>1, <3>2, <3>3 DEF Flags
    <3> QED
      BY <3>4, <1>4, <1>8, <1>9 DEF Fine, Types, Someone
  <2>2. Course(q, old)
    BY <1>4, <1>8, <1>9 DEF Fine, Course, Types, Flags
  <2>3. Cover(q, old)
    BY <1>4, <1>8, <1>9 DEF Fine, Cover, Blank, LoadOK, Covered, ScriptRan, Course
  <2>4. Using(q)
    BY <1>4, <1>8, <1>9 DEF Fine, Using, Course, Cover, Blank
  <2>5. Kinds(q, srv)
    BY <1>4, <1>8, <1>9 DEF Fine, Kinds
  <2>6. Replaces(q, srv)
    BY <1>4, <1>8, <1>9 DEF Fine, Replaces, Course
  <2>7. Ticked(q, srv)
    BY <1>4, <1>8, <1>9 DEF Fine, Ticked, Course
  <2>8. Hub(q, srv)
    BY <1>4, <1>8, <1>9 DEF Fine, Hub
  <2> QED
    BY <2>1, <2>2, <2>3, <2>4, <2>5, <2>6, <2>7, <2>8 DEF Fine
<1> QED
  BY <1>4, <1>9, <1>10, TurnNone DEF Keeps

\* The browser is sent to another page.
LEMMA RedirectStep ==
    ASSUME Inv, s.st = "asked", Turn(GotRedirect(s)), UNCHANGED <<case, old>>
    PROVE  Inv'
<1>1. PICK h : h = Over(s)
  OBVIOUS
<1>2. PICK q : q = [h EXCEPT !.token = None, !.st = "away"]
  OBVIOUS
<1>3. /\ Fine(s, srv, old) /\ Whole(s) /\ s.out = <<>> /\ old \in BOOLEAN /\ Turn(q)
  BY <1>1, <1>2 DEF Inv, Fine, Types, GotRedirect
<1>4. /\ Whole(h) /\ SameTokens(s, h) /\ SameLogin(s, h) /\ SamePlace(s, h) /\ SameCard(s, h)
      /\ h.out = s.out /\ h.last = s.last
      /\ h.want = FALSE /\ h.rec = FALSE /\ h.timer = FALSE
  BY <1>1, <1>3, OverDoes
<1> USE DEF SameTokens, SameLogin, SamePlace, SameCall, SameCard
<1>5. /\ Whole(q) /\ SameTokens(s, q) /\ q.token = None /\ q.usingR = s.usingR
      /\ q.fallback = s.fallback /\ q.pend = s.pend /\ q.st = "away" /\ q.cred = s.cred
      /\ q.load = s.load /\ SameCard(s, q) /\ q.out = <<>> /\ q.last = s.last
      /\ q.want = FALSE /\ q.rec = FALSE /\ q.timer = FALSE
  BY <1>2, <1>3, <1>4 DEF Whole
<1>6. Fine(q, srv, old)
  <2>1. Types(q)
    <3>1. q.want \in BOOLEAN /\ q.rec \in BOOLEAN /\ q.timer \in BOOLEAN
      BY <1>3, <1>5 DEF Fine, Types, Flags, Someone
    <3>2. q.card \in BOOLEAN /\ q.rejoin \in BOOLEAN
      BY <1>3, <1>5 DEF Fine, Types, Flags, Someone
    <3>3. q.usingR \in BOOLEAN /\ q.sr \in BOOLEAN /\ q.ss \in BOOLEAN
      BY <1>3, <1>5 DEF Fine, Types, Flags, Someone
    <3>4. Flags(q)
      BY <3>1, <3>2, <3>3 DEF Flags
    <3> QED
      BY <3>4, <1>3, <1>5 DEF Fine, Types, Someone
  <2>2. Course(q, old)
    BY <1>3, <1>5 DEF Fine, Course, Types, Flags
  <2>3. Cover(q, old)
    BY <1>3, <1>5 DEF Fine, Cover, Blank, LoadOK, Covered, ScriptRan, Course
  <2>4. Using(q)
    BY <1>3, <1>5 DEF Fine, Using, Course, Cover, Blank
  <2>5. Kinds(q, srv)
    BY <1>3, <1>5 DEF Fine, Kinds
  <2>6. Replaces(q, srv)
    BY <1>3, <1>5 DEF Fine, Replaces, Course
  <2>7. Ticked(q, srv)
    BY <1>3, <1>5 DEF Fine, Ticked, Course
  <2>8. Hub(q, srv)
    BY <1>3, <1>5 DEF Fine, Hub
  <2> QED
    BY <2>1, <2>2, <2>3, <2>4, <2>5, <2>6, <2>7, <2>8 DEF Fine
<1> QED
  BY <1>3, <1>5, <1>6, TurnNone DEF Keeps

\* Nobody is let in, and the page hangs up; or asks with what else it has.
LEMMA FailedTryCloses ==
    ASSUME Inv, s.st = "asked", Turn(Close(s)), UNCHANGED <<case, old>>
    PROVE  Inv'
<1>1. PICK q : q = Close(s)
  OBVIOUS
<1>2. /\ Fine(s, srv, old) /\ Whole(s) /\ s.out = <<>> /\ old \in BOOLEAN /\ Turn(q)
  BY <1>1 DEF Inv, Fine, Types
<1>3. /\ Whole(q) /\ SameTokens(s, q) /\ SameLogin(s, q) /\ SameCall(s, q) /\ SameCard(s, q)
      /\ q.cred = s.cred /\ q.load = s.load /\ q.out = s.out
      /\ q.st = IF s.st \in {"none", "gone", "away"} THEN s.st ELSE "closing"
  BY <1>1, <1>2, CloseDoes
<1>4. q.st = "closing" /\ s.silent = 0
  BY <1>2, <1>3 DEF Fine, Course
<1> USE DEF SameTokens, SameLogin, SamePlace, SameCall, SameCard
<1>5. Fine(q, srv, old)
  <2>1. Types(q)
    <3>1. q.want \in BOOLEAN /\ q.rec \in BOOLEAN /\ q.timer \in BOOLEAN
      BY <1>2, <1>3, <1>4 DEF Fine, Types, Flags, Someone
    <3>2. q.card \in BOOLEAN /\ q.rejoin \in BOOLEAN
      BY <1>2, <1>3, <1>4 DEF Fine, Types, Flags, Someone
    <3>3. q.usingR \in BOOLEAN /\ q.sr \in BOOLEAN /\ q.ss \in BOOLEAN
      BY <1>2, <1>3, <1>4 DEF Fine, Types, Flags, Someone
    <3>4. Flags(q)
      BY <3>1, <3>2, <3>3 DEF Flags
    <3> QED
      BY <3>4, <1>2, <1>3, <1>4 DEF Fine, Types, Someone
  <2>2. Course(q, old)
    BY <1>2, <1>3, <1>4 DEF Fine, Course, Types, Flags
  <2>3. Cover(q, old)
    BY <1>2, <1>3, <1>4 DEF Fine, Cover, Blank, LoadOK, Covered, ScriptRan, Course
  <2>4. Using(q)
    BY <1>2, <1>3, <1>4 DEF Fine, Using, Course, Cover, Blank
  <2>5. Kinds(q, srv)
    BY <1>2, <1>3, <1>4 DEF Fine, Kinds
  <2>6. Replaces(q, srv)
    BY <1>2, <1>3, <1>4 DEF Fine, Replaces, Course
  <2>7. Ticked(q, srv)
    BY <1>2, <1>3, <1>4 DEF Fine, Ticked, Course
  <2>8. Hub(q, srv)
    BY <1>2, <1>3, <1>4 DEF Fine, Hub
  <2> QED
    BY <2>1, <2>2, <2>3, <2>4, <2>5, <2>6, <2>7, <2>8 DEF Fine
<1> QED
  BY <1>2, <1>3, <1>4, <1>5, TurnNone DEF Keeps

\* A reconnection that was refused is tried with the token of this device.
LEMMA RetryRememberedStep ==
    ASSUME Inv, s.st = "asked", s.rec, Alternative(s) # None, Turn(RetryRemembered(s)),
           UNCHANGED <<case, old>>
    PROVE  Inv'
<1>1. PICK a : a = Alternative(s)
  OBVIOUS
<1>2. PICK k : k = IF s.session = s.last THEN None ELSE s.session
  OBVIOUS
<1>3. PICK p : p = [s EXCEPT !.session = k, !.last = a]
  OBVIOUS
<1>4. PICK q : q = RejoinAfterReconnect(p)
  OBVIOUS
<1>5. /\ Fine(s, srv, old) /\ Whole(s) /\ s.out = <<>> /\ old \in BOOLEAN /\ Server(srv)
  BY DEF Inv, Fine, Types, Room
<1>6. Turn(q)
  BY <1>1, <1>2, <1>3, <1>4 DEF RetryRemembered
<1>7. /\ a = s.remember /\ a # None /\ s.last # None /\ ~s.usingR /\ k \in {None, s.session}
      /\ old = FALSE /\ ~s.card /\ ~s.timer /\ s.silent = 0 /\ ~s.sr /\ ~s.ss
  <2>1. a = s.remember /\ a # None /\ s.last # None
    BY <1>1 DEF Alternative, Remember
  <2> QED
    BY <1>2, <1>5, <2>1 DEF Fine, Using, Course
<1>8. /\ Whole(p) /\ p.session = k /\ p.last = a
      /\ p.remember = s.remember /\ p.stash = s.stash /\ p.prev = s.prev /\ p.sr = s.sr /\ p.ss = s.ss
      /\ SameLogin(s, p) /\ SamePlace(s, p) /\ SameCard(s, p) /\ p.out = s.out
      /\ p.want = s.want /\ p.rec = s.rec /\ p.timer = s.timer
  BY <1>3, <1>5 DEF Whole, SameLogin, SamePlace, SameCard
<1>9. Fine(p, srv, FALSE)
  <2> USE DEF SameLogin, SamePlace, SameCard
  <2>1. Fine(p, srv, FALSE)
    <3>1. Types(p)
      <4>1. p.want \in BOOLEAN /\ p.rec \in BOOLEAN /\ p.timer \in BOOLEAN
        BY <1>5, <1>7, <1>8 DEF Fine, Types, Flags, Someone
      <4>2. p.card \in BOOLEAN /\ p.rejoin \in BOOLEAN
        BY <1>5, <1>7, <1>8 DEF Fine, Types, Flags, Someone
      <4>3. p.usingR \in BOOLEAN /\ p.sr \in BOOLEAN /\ p.ss \in BOOLEAN
        BY <1>5, <1>7, <1>8 DEF Fine, Types, Flags, Someone
      <4>4. Flags(p)
        BY <4>1, <4>2, <4>3 DEF Flags
      <4> QED
        BY <4>4, <1>5, <1>7, <1>8 DEF Fine, Types, Someone
    <3>2. Course(p, FALSE)
      BY <1>5, <1>7, <1>8 DEF Fine, Course, Types, Flags
    <3>3. Cover(p, FALSE)
      BY <1>5, <1>7, <1>8 DEF Fine, Cover, Blank, LoadOK, Covered, ScriptRan, Course
    <3>4. Using(p)
      BY <1>5, <1>7, <1>8 DEF Fine, Using, Course, Cover, Blank
    <3>5. Kinds(p, srv)
      BY <1>5, <1>7, <1>8 DEF Fine, Kinds
    <3>6. Replaces(p, srv)
      BY <1>5, <1>7, <1>8 DEF Fine, Replaces, Course
    <3>7. Ticked(p, srv)
      BY <1>5, <1>7, <1>8 DEF Fine, Ticked, Course
    <3>8. Hub(p, srv)
      BY <1>5, <1>7, <1>8 DEF Fine, Hub
    <3> QED
      BY <3>1, <3>2, <3>3, <3>4, <3>5, <3>6, <3>7, <3>8 DEF Fine
  <2> QED
    BY <2>1
<1>10. Fine(q, srv, FALSE)
  BY <1>4, <1>5, <1>7, <1>8, <1>9, ComesBackIsFine DEF SameLogin, SamePlace, SameCard
<1>11. q.out = <<>> /\ q.sr = s.sr /\ q.ss = s.ss /\ q.remember = s.remember /\ q.st = "asked"
  BY <1>4, <1>5, <1>8, RejoinDoes DEF SameTokens
<1> QED
  BY <1>5, <1>6, <1>7, <1>10, <1>11, TurnNone DEF Keeps


\* The page is told no, and does not come back.
LEMMA RefusedStep ==
    ASSUME Inv, Races = {}, s.st = "asked", NEW why, why \in Verdicts,
           why \in {"full", "refused", "need-username"}, Turn(Refused(s, why)),
           UNCHANGED <<case, old>>
    PROVE  Inv'
<1>1. PICK h : h = Over(s)
  OBVIOUS
<1>2. PICK p : p = [h EXCEPT !.pend = "none", !.waiting = FALSE]
  OBVIOUS
<1>3. /\ Fine(s, srv, old) /\ Whole(s) /\ s.out = <<>> /\ old \in BOOLEAN /\ Server(srv)
  BY DEF Inv, Fine, Types, Room
<1>4. /\ Whole(h) /\ SameTokens(s, h) /\ SameLogin(s, h) /\ SamePlace(s, h) /\ SameCard(s, h)
      /\ h.out = s.out /\ h.last = s.last
      /\ h.want = FALSE /\ h.rec = FALSE /\ h.timer = FALSE
  BY <1>1, <1>3, OverDoes
<1>5. /\ Whole(p) /\ SameTokens(s, p) /\ SamePlace(s, p) /\ SameCard(s, p)
      /\ p.token = s.token /\ p.probing = s.probing /\ p.usingR = s.usingR
      /\ p.fallback = s.fallback /\ p.pend = "none" /\ p.out = <<>> /\ p.last = s.last
      /\ p.want = FALSE /\ p.rec = FALSE /\ p.timer = FALSE
  BY <1>2, <1>3, <1>4 DEF Whole, SameTokens, SameLogin, SamePlace, SameCard
<1>6. old = FALSE /\ ~s.card /\ s.silent = 0 /\ ~s.sr /\ ~s.ss /\ ~s.timer
  BY <1>3 DEF Fine, Course
<1>7. CASE p.fallback # None /\ why # "full"
  <2>1. PICK g : g = [p EXCEPT !.token = p.fallback, !.fallback = None, !.usingR = FALSE,
                               !.probing = "null"]
    OBVIOUS
  <2> PICK tick \in BOOLEAN : tick = FALSE
    OBVIOUS
  <2>2. PICK q : q = JoinWith(g, tick)
    OBVIOUS
  <2>3. Turn(q)
    BY <1>1, <1>2, <1>7, <2>1, <2>2, NotEdited DEF Refused, Join
  <2>4. /\ Whole(g) /\ SameTokens(p, g) /\ SamePlace(p, g) /\ SameCall(p, g) /\ SameCard(p, g)
        /\ g.out = p.out /\ g.token = p.fallback /\ g.fallback = None /\ g.usingR = FALSE
        /\ g.pend = p.pend
    BY <1>5, <2>1 DEF Whole, SameTokens, SamePlace, SameCall, SameCard

  <2>5. q.out = g.out /\ SameTokens(g, q) /\ q.st = "asked"
    BY <2>2, <2>4, JoinWithDoes
  <2> USE DEF SameTokens, SameLogin, SamePlace, SameCall, SameCard
  <2>6. Fine(g, srv, FALSE)
    <3>1. Types(g)
      <4>1. g.want \in BOOLEAN /\ g.rec \in BOOLEAN /\ g.timer \in BOOLEAN
        BY <1>3, <1>5, <1>6, <1>7, <2>4 DEF Fine, Types, Flags, Someone
      <4>2. g.card \in BOOLEAN /\ g.rejoin \in BOOLEAN
        BY <1>3, <1>5, <1>6, <1>7, <2>4 DEF Fine, Types, Flags, Someone
      <4>3. g.usingR \in BOOLEAN /\ g.sr \in BOOLEAN /\ g.ss \in BOOLEAN
        BY <1>3, <1>5, <1>6, <1>7, <2>4 DEF Fine, Types, Flags, Someone
      <4>4. Flags(g)
        BY <4>1, <4>2, <4>3 DEF Flags
      <4> QED
        BY <4>4, <1>3, <1>5, <1>6, <1>7, <2>4 DEF Fine, Types, Someone
    <3>2. Course(g, FALSE)
      BY <1>3, <1>5, <1>6, <1>7, <2>4 DEF Fine, Course, Types, Flags
    <3>3. Cover(g, FALSE)
      BY <1>3, <1>5, <1>6, <1>7, <2>4 DEF Fine, Cover, Blank, LoadOK, Covered, ScriptRan, Course
    <3>4. Using(g)
      BY <1>3, <1>5, <1>6, <1>7, <2>4 DEF Fine, Using, Course, Cover, Blank
    <3>5. Kinds(g, srv)
      BY <1>3, <1>5, <1>6, <1>7, <2>4 DEF Fine, Kinds
    <3>6. Replaces(g, srv)
      BY <1>3, <1>5, <1>6, <1>7, <2>4 DEF Fine, Replaces, Course
    <3>7. Ticked(g, srv)
      BY <1>3, <1>5, <1>6, <1>7, <2>4 DEF Fine, Ticked, Course
    <3>8. Hub(g, srv)
      BY <1>3, <1>5, <1>6, <1>7, <2>4 DEF Fine, Hub
    <3> QED
      BY <3>1, <3>2, <3>3, <3>4, <3>5, <3>6, <3>7, <3>8 DEF Fine
  <2>7. Fine(q, srv, FALSE)
    <3>1. /\ ~g.rec /\ ~g.timer /\ ~g.card /\ g.silent = 0 /\ ~g.sr /\ ~g.ss /\ g.st = "asked"
          /\ g.token # None
      BY <1>5, <1>6, <1>7, <2>4
    <3> QED
      BY <2>2, <2>6, <3>1, JoinIsFine
  <2>8. q.out = <<>> /\ q.sr = s.sr /\ q.ss = s.ss /\ q.remember = s.remember /\ q.st = "asked"
    BY <1>5, <2>4, <2>5
  <2> QED
    BY <1>6, <2>3, <2>7, <2>8, TurnNone DEF Keeps
<1>8. CASE ~(p.fallback # None /\ why # "full")
  <2>1. PICK r : r = IF case.room = "child" THEN p.remember ELSE None
    OBVIOUS
  <2>2. PICK g : g = IF p.probing = "probing" /\ why = "need-username"
                     THEN [p EXCEPT !.probing = "need-username"]
                     ELSE IF p.usingR
                     THEN [p EXCEPT !.usingR = FALSE, !.token = None, !.probing = "null",
                                    !.remember = r, !.card = TRUE]
                     ELSE [p EXCEPT !.token = None]
    OBVIOUS
  <2>3. PICK q : q = Close(g)
    OBVIOUS
  <2>4. Turn(q)
    <3>1. Refused(s, why) = q
      BY <1>1, <1>2, <1>8, <2>1, <2>2, <2>3 DEF Refused
    <3> QED
      BY <3>1
  <2>5. s.usingR => why = "refused" /\ s.remember \notin srv.valid
    BY <1>3, RememberedIsLetIn
  <2>6. /\ Whole(g) /\ SamePlace(p, g) /\ SameCall(p, g)
        /\ g.session = p.session /\ g.stash = p.stash /\ g.prev = p.prev /\ g.sr = p.sr /\ g.ss = p.ss
        /\ g.rejoin = p.rejoin /\ g.silent = p.silent
        /\ g.fallback = p.fallback /\ g.pend = p.pend /\ g.out = p.out /\ g.usingR = FALSE
        /\ g.token \in {p.token, None}
        /\ \/ g.remember = p.remember /\ g.card = p.card
           \/ p.usingR /\ g.remember \in {p.remember, None} /\ g.card = TRUE
    <3>1. CASE p.probing = "probing" /\ why = "need-username"
      <4>1. ~p.usingR
        BY <1>5, <2>5, <3>1
      <4>2. g = [p EXCEPT !.probing = "need-username"]
        BY <2>2, <3>1
      <4>3. p.usingR = FALSE
        BY <1>3, <1>5, <4>1 DEF Fine, Types, Flags
      <4> QED
        BY <1>5, <4>2, <4>3 DEF Whole, SamePlace, SameCall
    <3>2. CASE ~(p.probing = "probing" /\ why = "need-username") /\ p.usingR
      <4>1. g = [p EXCEPT !.usingR = FALSE, !.token = None, !.probing = "null",
                          !.remember = r, !.card = TRUE]
        BY <2>2, <3>2
      <4>2. r \in {p.remember, None}
        BY <2>1
      <4> QED
        BY <1>5, <3>2, <4>1, <4>2 DEF Whole, SamePlace, SameCall
    <3>3. CASE ~(p.probing = "probing" /\ why = "need-username") /\ ~p.usingR
      <4>1. g = [p EXCEPT !.token = None]
        BY <2>2, <3>3
      <4>2. p.usingR = FALSE
        BY <1>3, <1>5, <3>3 DEF Fine, Types, Flags
      <4> QED
        BY <1>5, <4>1, <4>2 DEF Whole, SamePlace, SameCall
    <3> QED
      BY <3>1, <3>2, <3>3
  <2>7. /\ Whole(q) /\ SameTokens(g, q) /\ SameLogin(g, q) /\ SameCall(g, q) /\ SameCard(g, q)
        /\ q.cred = g.cred /\ q.load = g.load /\ q.out = g.out
        /\ q.st = IF g.st \in {"none", "gone", "away"} THEN g.st ELSE "closing"
    BY <2>3, <2>6, CloseDoes

  <2> USE DEF SameTokens, SameLogin, SamePlace, SameCall, SameCard
  <2>8. /\ Whole(q) /\ q.st = "closing" /\ q.cred = s.cred /\ q.load = s.load
        /\ q.want = FALSE /\ q.rec = FALSE /\ q.timer = FALSE /\ q.last = s.last
        /\ q.session = s.session /\ q.stash = s.stash /\ q.prev = s.prev /\ q.sr = s.sr /\ q.ss = s.ss
        /\ q.rejoin = s.rejoin /\ q.silent = s.silent
        /\ q.fallback = s.fallback /\ q.pend = "none" /\ q.out = <<>> /\ q.usingR = FALSE
        /\ q.token \in {s.token, None}
        /\ \/ q.remember = s.remember /\ q.card = s.card
           \/ s.usingR /\ q.remember \in {s.remember, None} /\ q.card = TRUE
    BY <1>5, <2>6, <2>7
  <2>9. q.rejoin /\ q.card => q.last # None
    BY <1>3, <1>6, <2>8 DEF Fine, Using

  <2>10. Fine(q, srv, FALSE)
    <3>1. Types(q)
      <4>1. q.want \in BOOLEAN /\ q.rec \in BOOLEAN /\ q.timer \in BOOLEAN
        BY <1>3, <1>6, <2>8 DEF Fine, Types, Flags, Someone
      <4>2. q.card \in BOOLEAN /\ q.rejoin \in BOOLEAN
        BY <1>3, <1>6, <2>8 DEF Fine, Types, Flags, Someone
      <4>3. q.usingR \in BOOLEAN /\ q.sr \in BOOLEAN /\ q.ss \in BOOLEAN
        BY <1>3, <1>6, <2>8 DEF Fine, Types, Flags, Someone
      <4>4. Flags(q)
        BY <4>1, <4>2, <4>3 DEF Flags
      <4> QED
        BY <4>4, <1>3, <1>6, <2>8 DEF Fine, Types, Someone
    <3>2. Course(q, FALSE)
      BY <1>3, <1>6, <2>8, <2>9 DEF Fine, Course, Types, Flags
    <3>3. Cover(q, FALSE)
      BY <1>3, <1>6, <2>8 DEF Fine, Cover, Blank, LoadOK, Covered, ScriptRan, Course
    <3>4. Using(q)
      BY <1>3, <1>6, <2>8 DEF Fine, Using, Course, Cover, Blank
    <3>5. Kinds(q, srv)
      BY <1>3, <1>6, <2>8 DEF Fine, Kinds
    <3>6. Replaces(q, srv)
      BY <1>3, <1>6, <2>8 DEF Fine, Replaces, Course
    <3>7. Ticked(q, srv)
      BY <1>3, <1>6, <2>8 DEF Fine, Ticked, Course
    <3>8. Hub(q, srv)
      BY <1>3, <1>6, <2>8 DEF Fine, Hub
    <3> QED
      BY <3>1, <3>2, <3>3, <3>4, <3>5, <3>6, <3>7, <3>8 DEF Fine
  <2>11. Keeps(s, q, srv)
    BY <2>5, <2>8 DEF Keeps
  <2> QED
    BY <1>6, <2>4, <2>8, <2>10, <2>11, TurnNone
<1> QED
  BY <1>7, <1>8

\* Whatever the server says but yes.
LEMMA FailStep ==
    ASSUME Inv, Races = {}, s.st = "asked", NEW why, why \in Verdicts,
           why \in {"full", "refused", "need-username"}, Turn(GotFail(s, why)),
           UNCHANGED <<case, old>>
    PROVE  Inv'
<1>1. CASE s.rec /\ why = "full"
  BY <1>1, FailedTryCloses DEF GotFail
<1>2. CASE s.rec /\ why # "full" /\ Alternative(s) # None
  BY <1>2, RetryRememberedStep DEF GotFail
<1>3. CASE ~(s.rec /\ why = "full") /\ ~(s.rec /\ why # "full" /\ Alternative(s) # None)
  BY <1>3, RefusedStep DEF GotFail
<1> QED
  BY <1>1, <1>2, <1>3

\* What the page has asked for is what it waits for, once that is served.
Asked(p, x) ==
    /\ Whole(p) /\ Queue(p.out) /\ Server(x)
    /\ Room(p, Served(x, p.out)) /\ Grown(x, Served(x, p.out))

\* A server that has grown twice has grown.
LEMMA GrownTwice ==
    ASSUME NEW x, Server(x), NEW y, Grown(x, y), NEW z, Grown(y, z)
    PROVE  Grown(x, z)
  BY DEF Grown, Server

\* One request more, and what the server makes of them all.
LEMMA ServedMore ==
    ASSUME NEW x, NEW out, Queue(out), Len(out) \in 0..2, NEW r, NEW w, Adds(out, r, w)
    PROVE  Served(x, w) = Serve(Served(x, out), r) /\ Queue(w) /\ Len(w) = Len(out) + 1
<1>1. /\ Queue(w) /\ DOMAIN out = 1 .. Len(out) /\ DOMAIN w = 1 .. Len(out) + 1
      /\ w[Len(out) + 1] = r /\ \A i \in DOMAIN out : w[i] = out[i]
  BY OneMore
<1>2. Len(w) = Len(out) + 1
  BY <1>1 DEF Queue
<1>3. PICK l \in {0, 1, 2} : Len(out) = l
  OBVIOUS
<1>4. l \in 0..3 /\ l + 1 \in 0..3 /\ Len(w) = l + 1
  BY <1>2, <1>3
<1>5. LET one == Serve(x, out[1])
          two == Serve(one, out[2])
      IN  /\ l = 0 => Served(x, out) = x
          /\ l = 1 => Served(x, out) = one
          /\ l = 2 => Served(x, out) = two
  BY <1>3, <1>4, ServedIs
<1>6. LET one == Serve(x, w[1])
          two == Serve(one, w[2])
      IN  /\ l + 1 = 1 => Served(x, w) = one
          /\ l + 1 = 2 => Served(x, w) = two
          /\ l + 1 = 3 => Served(x, w) = Serve(two, w[3])
  BY <1>4, ServedIs
<1>7. CASE l = 0
  BY <1>1, <1>2, <1>3, <1>5, <1>6, <1>7
<1>8. CASE l = 1
  <2>1. w[1] = out[1] /\ w[2] = r
    BY <1>1, <1>3, <1>8
  <2> QED
    BY <1>1, <1>2, <1>5, <1>6, <1>8, <2>1
<1>9. CASE l = 2
  <2>1. w[1] = out[1] /\ w[2] = out[2] /\ w[3] = r
    BY <1>1, <1>3, <1>9
  <2> QED
    BY <1>1, <1>2, <1>5, <1>6, <1>9, <2>1
<1> QED
  BY <1>7, <1>8, <1>9

\* The page asks for one thing more: what is answered aside,
LEMMA AsksAside ==
    ASSUME NEW p, NEW x, Asked(p, x), p.st = "in", Len(p.out) \in 0..2,
           NEW r, r.req \in Plain, NEW q, Alike(p, q), Adds(p.out, r, q.out)
    PROVE  Asked(q, x) /\ Len(q.out) = Len(p.out) + 1
           /\ Aside(Served(x, p.out), Served(x, q.out))
<1>1. PICK y : y = Served(x, p.out)
  OBVIOUS
<1>2. PICK z : z = Served(x, q.out)
  OBVIOUS
<1>3. z = Serve(y, r) /\ Queue(q.out) /\ Len(q.out) = Len(p.out) + 1
  BY <1>1, <1>2, ServedMore DEF Asked
<1>4. Room(p, y) /\ Grown(x, y) /\ Server(x) /\ Server(y)
  BY <1>1 DEF Asked, Room
<1>5. Aside(y, z)
  BY <1>3, <1>4, PlainIsAside
<1>6. Room(p, z) /\ Grown(y, z)
  BY <1>4, <1>5, RoomAside
<1>7. Room(q, z)
  BY <1>6, RoomAlike
<1>8. Grown(x, z)
  BY <1>4, <1>6, GrownTwice
<1> QED
  BY <1>1, <1>2, <1>3, <1>4, <1>5, <1>7, <1>8 DEF Asked, Alike

\* or a token.
LEMMA AsksMint ==
    ASSUME NEW p, NEW x, Asked(p, x), p.st = "in", Len(p.out) \in 0..2,
           NEW r, r.req \in Minted, NEW q, Whole(q), Adds(p.out, r, q.out),
           AlsoWaits(p, q, r.req), MayAsk(Served(x, p.out).mail, r.req)
    PROVE  /\ Asked(q, x) /\ Len(q.out) = Len(p.out) + 1
           /\ New(Served(x, p.out).mail, Served(x, q.out).mail, r.req)
<1>1. PICK y : y = Served(x, p.out)
  OBVIOUS
<1>2. PICK z : z = Served(x, q.out)
  OBVIOUS
<1>3. z = Serve(y, r) /\ Queue(q.out) /\ Len(q.out) = Len(p.out) + 1
  BY <1>1, <1>2, ServedMore DEF Asked
<1>4. Room(p, y) /\ Grown(x, y) /\ Server(x) /\ Server(y)
  BY <1>1 DEF Asked, Room
<1>5. Room(q, z) /\ Grown(y, z) /\ New(y.mail, z.mail, r.req)
  <2>1. MayAsk(y.mail, r.req)
    BY <1>1
  <2> QED
    BY <1>3, <1>4, <2>1, RoomMint
<1>6. Grown(x, z)
  BY <1>4, <1>5, GrownTwice
<1> QED
  BY <1>1, <1>2, <1>3, <1>4, <1>5, <1>6 DEF Asked

\* or a token to be revoked.
LEMMA AsksRevoke ==
    ASSUME NEW p, NEW x, Asked(p, x), p.st = "in", p.silent \in Nat, Len(p.out) \in 0..2,
           NEW r, r.req = "revoke", NEW q, Whole(q), Adds(p.out, r, q.out),
           SameWaits(p, q), q.silent = p.silent + 1,
           q.remember = p.remember \/ p.remember = r.t \/ p.remember \notin Served(x, p.out).valid
    PROVE  Asked(q, x)
<1>1. PICK y : y = Served(x, p.out)
  OBVIOUS
<1>2. PICK z : z = Served(x, q.out)
  OBVIOUS
<1>3. z = Serve(y, r) /\ Queue(q.out) /\ Len(q.out) = Len(p.out) + 1
  BY <1>1, <1>2, ServedMore DEF Asked
<1>4. Room(p, y) /\ Grown(x, y) /\ Server(x) /\ Server(y)
  BY <1>1 DEF Asked, Room
<1>5. Room(q, z) /\ Grown(y, z)
  <2>1. q.remember = p.remember \/ p.remember = r.t \/ p.remember \notin y.valid
    BY <1>1
  <2> QED
    BY <1>3, <1>4, <2>1, RoomRevoke
<1>6. Grown(x, z)
  BY <1>4, <1>5, GrownTwice
<1> QED
  BY <1>1, <1>2, <1>3, <1>4, <1>5, <1>6 DEF Asked

\* Nothing asked for yet.
LEMMA AsksNothing ==
    ASSUME NEW p, Whole(p), NEW x, Room(p, x), p.out = <<>>
    PROVE  Asked(p, x) /\ Len(p.out) = 0
<1>1. Served(x, p.out) = x
  BY ServedNone
<1>2. Server(x) /\ SameServer(x, x)
  BY DEF Room, SameServer
<1>3. Grown(x, x)
  BY <1>2, SameIsGrown
<1>4. Queue(p.out)
  BY Silence
<1> QED
  BY <1>1, <1>2, <1>3, <1>4 DEF Asked

\* A page that has asked for what it waits for has its turn.
LEMMA TurnAsked ==
    ASSUME case \in Cases, UNCHANGED case, NEW q, Turn(q), q.st \in {"in", "closing"},
           old' \in BOOLEAN, Asked(q, srv), Fine(q, srv, old')
    PROVE  Inv'
<1>1. Alike(q, s') /\ s'.out = <<>> /\ srv' = Served(srv, q.out)
  BY Turned DEF Asked
<1>2. Room(q, srv') /\ Grown(srv, srv') /\ Server(srv)
  BY <1>1 DEF Asked
<1>3. Fine(q, srv', old')
  BY <1>2, FineStays
<1>4. Fine(s', srv', old')
  BY <1>1, <1>3, FineAlike
<1>5. Room(s', srv')
  BY <1>1, <1>2, RoomAlike
<1> QED
  BY <1>1, <1>4, <1>5, InvNext

\* One request more, for what it says.
Sends(out, w, what) == \E r : r.req = what /\ Adds(out, r, w)

\* The device is remembered as it was, or no longer, or is going to be.
Remembers(p, q) ==
    \/ /\ q.out = p.out /\ q.sr = p.sr /\ q.prev = p.prev
       /\ \/ q.remember = p.remember
          \/ p.pend # "none" /\ ~(p.pend = "tick" /\ OpHere(p)) /\ q.remember = None
    \/ /\ p.pend = "tick" /\ OpHere(p) /\ q.remember = p.remember
       /\ q.sr = TRUE /\ q.prev = Remember(p)
       /\ Sends(p.out, q.out, "remember")

\* A request.
LEMMA AskDoes ==
    ASSUME NEW p, Whole(p), NEW what, NEW t, NEW q, q = Ask(p, what, t)
    PROVE  Alike(p, q) /\ \E r : r.req = what /\ r.t = t /\ Adds(p.out, r, q.out)
<1>1. PICK r : r = [req |-> what, t |-> t]
  OBVIOUS
<1>2. q = [p EXCEPT !.out = Append(@, r)]
  BY <1>1 DEF Ask
<1>3. Alike(p, q) /\ q.out = Append(p.out, r)
  BY <1>2 DEF Whole, Same, Alike, SameTokens, SameLogin, SamePlace, SameCall, SameCard
<1> QED
  BY <1>1, <1>3 DEF Adds

\* The device is to be remembered, or not.
LEMMA MintDoes ==
    ASSUME NEW p, Whole(p), NEW q, q = MintRemember(p)
    PROVE  /\ Whole(q) /\ SamePlace(p, q) /\ SameCall(p, q) /\ SameCard(p, q)
           /\ q.session = p.session /\ q.stash = p.stash /\ q.ss = p.ss
           /\ q.token = p.token /\ q.probing = p.probing /\ q.usingR = p.usingR
           /\ q.fallback = p.fallback /\ q.pend = "none"
           /\ Remembers(p, q)
<1>1. CASE p.pend = "none"
  <2>1. q = p
    BY <1>1 DEF MintRemember
  <2> QED
    BY <1>1, <2>1 DEF Remembers, Whole, Same, Alike, SameTokens, SameLogin, SamePlace, SameCall,
       SameCard
<1>2. CASE p.pend = "tick" /\ OpHere(p) /\ case.room # "child"
  <2>1. PICK a : a = Ask(p, "remember", None)
    OBVIOUS
  <2>2. PICK v : v = Remember(p)
    OBVIOUS
  <2>3. q = [a EXCEPT !.pend = "none", !.sr = TRUE, !.prev = v]
    BY <1>2, <2>1, <2>2 DEF MintRemember
  <2>4. Alike(p, a) /\ Sends(p.out, a.out, "remember")
    BY <2>1, AskDoes DEF Sends
  <2>5. /\ Whole(q) /\ SamePlace(a, q) /\ SameCall(a, q) /\ SameCard(a, q)
        /\ q.session = a.session /\ q.stash = a.stash /\ q.ss = a.ss /\ q.remember = a.remember
        /\ q.token = a.token /\ q.probing = a.probing /\ q.usingR = a.usingR
        /\ q.fallback = a.fallback /\ q.pend = "none" /\ q.sr = TRUE /\ q.prev = v /\ q.out = a.out
    BY <2>3, <2>4 DEF Alike, Whole, SamePlace, SameCall, SameCard
  <2> QED
    BY <1>2, <2>2, <2>4, <2>5 DEF Remembers, Whole, Same, Alike, SameTokens, SameLogin,
       SamePlace, SameCall, SameCard
<1>3. CASE p.pend # "none" /\ ~(p.pend = "tick" /\ OpHere(p) /\ case.room # "child")
  <2>1. PICK v : v = IF case.room = "child" THEN p.remember ELSE None
    OBVIOUS
  <2>2. q = [p EXCEPT !.pend = "none", !.remember = v]
    BY <1>3, <2>1 DEF MintRemember
  <2>3. v = p.remember \/ (v = None /\ ~(p.pend = "tick" /\ OpHere(p)))
    BY <1>3, <2>1
  <2> QED
    BY <1>3, <2>2, <2>3 DEF Remembers, Whole, Same, Alike, SameTokens, SameLogin, SamePlace,
       SameCall, SameCard
<1> QED
  BY <1>1, <1>2, <1>3

\* The panel is entered, with a token for the next time.
LEMMA EnterDoes ==
    ASSUME NEW p, Whole(p), NEW q, q = EnterOperatorRoom(HostHub(p))
    PROVE  \/ Same(p, q)
           \/ /\ Whole(q) /\ SameLogin(p, q) /\ SamePlace(p, q) /\ SameCall(p, q) /\ SameCard(p, q)
              /\ q.remember = p.remember /\ q.session = p.session /\ q.stash = p.stash
              /\ q.prev = p.prev /\ q.sr = p.sr /\ q.ss = TRUE
              /\ Sends(p.out, q.out, "session")
<1>1. PICK h : h = HostHub(p)
  OBVIOUS
<1>2. Same(p, h) /\ Whole(h)
  <2>1. PICK a : a = Told(p.app, "hub", Row, {})
    OBVIOUS
  <2>2. h = p \/ h = [p EXCEPT !.app = a]
    BY <1>1, <2>1 DEF HostHub
  <2>3. CASE h = p
    BY <2>3 DEF Whole, Same, Alike, SameTokens, SameLogin, SamePlace, SameCall, SameCard
  <2>4. CASE h = [p EXCEPT !.app = a]
    BY <2>4 DEF Whole, Same, Alike, SameTokens, SameLogin, SamePlace, SameCall, SameCard
  <2> QED
    BY <2>2, <2>3, <2>4
<1>3. PICK e : e = [r \in Rooms |-> {}]
  OBVIOUS
<1>4. PICK g : g = [h EXCEPT !.dash = TRUE, !.knockers = e, !.toasts = {}]
  OBVIOUS
<1>5. Same(p, g) /\ Whole(g)
  BY <1>2, <1>4 DEF Whole, Same, Alike, SameTokens, SameLogin, SamePlace, SameCall, SameCard
<1>6. PICK a : a = Ask(g, "session", None)
  OBVIOUS
<1>7. q = h \/ q = g \/ q = [a EXCEPT !.ss = TRUE]
  BY <1>1, <1>3, <1>4, <1>6 DEF EnterOperatorRoom
<1>8. Alike(g, a) /\ Sends(g.out, a.out, "session")
  BY <1>5, <1>6, AskDoes DEF Sends
<1>9. CASE q = [a EXCEPT !.ss = TRUE]
  <2>1. /\ Whole(q) /\ SameLogin(a, q) /\ SamePlace(a, q) /\ SameCall(a, q) /\ SameCard(a, q)
        /\ q.remember = a.remember /\ q.session = a.session /\ q.stash = a.stash
        /\ q.prev = a.prev /\ q.sr = a.sr /\ q.ss = TRUE /\ q.out = a.out
    BY <1>8, <1>9 DEF Alike, Whole, SameLogin, SamePlace, SameCall, SameCard
  <2>2. g.out = p.out /\ Alike(p, g)
    BY <1>5 DEF Same
  <2>3. Sends(p.out, q.out, "session")
    BY <1>8, <2>1, <2>2
  <2> QED
    BY <1>8, <2>1, <2>2, <2>3 DEF Alike, SameTokens, SameLogin, SamePlace, SameCall, SameCard
<1> QED
  BY <1>2, <1>5, <1>7, <1>9

\* The room is told whether the page is looked at.
LEMMA PublishDoes ==
    ASSUME NEW p, Whole(p), NEW b, NEW q, q = PublishAwayState(p, b)
    PROVE  \/ q = p
           \/ p.st = "in" /\ Alike(p, q) /\ Sends(p.out, q.out, "data")
<1>1. PICK t : t = IF b THEN 1 ELSE 0
  OBVIOUS
<1>2. q = p \/ (p.st = "in" /\ q = Ask(p, "data", t))
  BY <1>1 DEF PublishAwayState
<1> QED
  BY <1>2, AskDoes DEF Sends

\* A page that asks for the same and waits for the same.
LEMMA AskedAlike ==
    ASSUME NEW p, NEW x, Asked(p, x), NEW q, Same(p, q)
    PROVE  Asked(q, x)
  BY RoomAlike DEF Asked, Same, Alike

\* A token that was tried is good, and the page goes on to ask for a name.
LEMMA ProbedStep ==
    ASSUME Inv, s.st = "asked", UNCHANGED <<case, old>>,
           Turn(Close([s EXCEPT !.probing = "success", !.waiting = FALSE]))
    PROVE  Inv'
<1>1. PICK p : p = [s EXCEPT !.probing = "success", !.waiting = FALSE]
  OBVIOUS
<1>2. PICK q : q = Close(p)
  OBVIOUS
<1>3. /\ Fine(s, srv, old) /\ Whole(s) /\ s.out = <<>> /\ old \in BOOLEAN /\ Turn(q)
  BY <1>1, <1>2 DEF Inv, Fine, Types
<1>4. /\ Whole(p) /\ SameTokens(s, p) /\ SamePlace(s, p) /\ SameCall(s, p) /\ SameCard(s, p)
      /\ p.out = s.out /\ p.token = s.token /\ p.usingR = s.usingR /\ p.fallback = s.fallback
      /\ p.pend = s.pend
  BY <1>1, <1>3 DEF Whole, SameTokens, SamePlace, SameCall, SameCard
<1>5. /\ Whole(q) /\ SameTokens(p, q) /\ SameLogin(p, q) /\ SameCall(p, q) /\ SameCard(p, q)
      /\ q.cred = p.cred /\ q.load = p.load /\ q.out = p.out
      /\ q.st = IF p.st \in {"none", "gone", "away"} THEN p.st ELSE "closing"
  BY <1>2, <1>4, CloseDoes
<1>6. q.st = "closing" /\ s.silent = 0
  BY <1>3, <1>4, <1>5 DEF Fine, Course, SamePlace
<1> USE DEF SameTokens, SameLogin, SamePlace, SameCall, SameCard
<1>7. Fine(q, srv, old)
  <2>1. Types(q)
    <3>1. q.want \in BOOLEAN /\ q.rec \in BOOLEAN /\ q.timer \in BOOLEAN
      BY <1>3, <1>4, <1>5, <1>6 DEF Fine, Types, Flags, Someone
    <3>2. q.card \in BOOLEAN /\ q.rejoin \in BOOLEAN
      BY <1>3, <1>4, <1>5, <1>6 DEF Fine, Types, Flags, Someone
    <3>3. q.usingR \in BOOLEAN /\ q.sr \in BOOLEAN /\ q.ss \in BOOLEAN
      BY <1>3, <1>4, <1>5, <1>6 DEF Fine, Types, Flags, Someone
    <3>4. Flags(q)
      BY <3>1, <3>2, <3>3 DEF Flags
    <3> QED
      BY <3>4, <1>3, <1>4, <1>5, <1>6 DEF Fine, Types, Someone
  <2>2. Course(q, old)
    BY <1>3, <1>4, <1>5, <1>6 DEF Fine, Course, Types, Flags
  <2>3. Cover(q, old)
    BY <1>3, <1>4, <1>5, <1>6 DEF Fine, Cover, Blank, LoadOK, Covered, ScriptRan, Course
  <2>4. Using(q)
    BY <1>3, <1>4, <1>5, <1>6 DEF Fine, Using, Course, Cover, Blank
  <2>5. Kinds(q, srv)
    BY <1>3, <1>4, <1>5, <1>6 DEF Fine, Kinds
  <2>6. Replaces(q, srv)
    BY <1>3, <1>4, <1>5, <1>6 DEF Fine, Replaces, Course
  <2>7. Ticked(q, srv)
    BY <1>3, <1>4, <1>5, <1>6 DEF Fine, Ticked, Course
  <2>8. Hub(q, srv)
    BY <1>3, <1>4, <1>5, <1>6 DEF Fine, Hub
  <2> QED
    BY <2>1, <2>2, <2>3, <2>4, <2>5, <2>6, <2>7, <2>8 DEF Fine
<1> QED
  BY <1>3, <1>4, <1>5, <1>6, <1>7, TurnNone DEF Keeps

\* The page is let in: it remembers what it has to, asks for what it wants,
\* and tells the room what it must.
LEMMA LetInStep ==
    ASSUME Inv, Races = {}, s.st = "asked", "join" \in Verdicts, s.probing # "probing",
           Turn(GotJoin(s)), UNCHANGED <<case, old>>
    PROVE  Inv'
<1>1. /\ Fine(s, srv, old) /\ Whole(s) /\ old \in BOOLEAN /\ case \in Cases
      /\ Room(s, srv) /\ Server(srv)
  BY DEF Inv, Fine, Types, Room
<1>2. old = FALSE /\ ~s.card /\ s.silent = 0 /\ ~s.sr /\ ~s.ss /\ ~s.timer /\ s.cred # None
  BY <1>1 DEF Fine, Course
<1>3. case.room = "hub" => Op(srv, s.cred)
  <2>1. SUFFICES ASSUME case.room = "hub" PROVE OpHere(s)
    BY OpIsHere
  <2>2. ~s.adm
    BY <1>1, <2>1 DEF Fine, Hub
  <2>3. "fullop" \notin Races
    OBVIOUS
  <2> QED
    BY <2>1, <2>2, <2>3 DEF Verdicts
<1>4. PICK h : h = StopReconnect(s)
  OBVIOUS
<1>5. PICK no : no = [req |-> "roster", t |-> None]
  OBVIOUS
<1>6. PICK p : p = [h EXCEPT
                      !.st = "in", !.waiting = FALSE, !.token = None, !.usingR = FALSE,
                      !.fallback = None, !.want = TRUE, !.last = s.cred, !.noted = "null",
                      !.present = FALSE, !.out = <<>>]
  OBVIOUS
<1>7. PICK a : a = [h EXCEPT
                      !.st = "in", !.waiting = FALSE, !.token = None, !.usingR = FALSE,
                      !.fallback = None, !.want = TRUE, !.last = s.cred, !.noted = "null",
                      !.present = FALSE, !.out = <<no>>]
  OBVIOUS
<1>8. PICK m : m = MintRemember(a)
  OBVIOUS
<1>9. \E f : /\ Turn(f)
             /\ \/ f = EnterOperatorRoom(HostHub(m))
                \/ \E g, b : Same(m, g) /\ f = PublishAwayState(g, b)
  <2>1. PICK se : se = ((IF s.rec THEN s.noted ELSE "null") = "yes" \/ s.present)
    OBVIOUS
  <2>2. PICK cl : cl = JoinedCall(m.cl, s.rec, srv.others, srv.hist)
    OBVIOUS
  <2>3. PICK ms : ms = IF ~s.rec \/ case.beside # "away" THEN ""
                       ELSE IF WasAway(s.tr) THEN "afterAway" ELSE "again"
    OBVIOUS
  <2>4. PICK g : g = [m EXCEPT !.sent = se, !.cl = cl, !.msg = ms]
    OBVIOUS
  <2>5. PICK b : b = s.tr.hidden
    OBVIOUS
  <2>6. GotJoin(s) = IF case.room = "hub" /\ OpHere(m) THEN EnterOperatorRoom(HostHub(m))
                     ELSE PublishAwayState(g, b)
    BY <1>4, <1>5, <1>7, <1>8, <2>1, <2>2, <2>3, <2>4, <2>5 DEF GotJoin
  <2>7. Whole(m)
    <3>1. Whole(h)
      BY <1>1, <1>4, StopReconnectDoes
    <3>2. Whole(a)
      BY <1>7, <3>1 DEF Whole
    <3> QED
      BY <1>8, <3>2, MintDoes
  <2>8. Same(m, g)
    BY <2>4, <2>7 DEF Whole, Same, Alike, SameTokens, SameLogin, SamePlace, SameCall, SameCard
  <2> QED
    BY <2>6, <2>8
<1>10. /\ Whole(h) /\ SameTokens(s, h) /\ SameLogin(s, h) /\ SamePlace(s, h)
      /\ SameCard(s, h)
  BY <1>1, <1>4, StopReconnectDoes
<1>11. /\ Whole(a) /\ SameTokens(s, a) /\ a.st = "in" /\ a.cred = s.cred /\ a.load = s.load
       /\ a.token = None /\ a.usingR = FALSE /\ a.fallback = None /\ a.pend = s.pend
       /\ a.want = TRUE /\ a.last = s.cred /\ SameCard(s, a)
       /\ a.out = <<no>> /\ a.rec = FALSE /\ a.timer = FALSE
  <2>1. h.rec = FALSE /\ h.timer = FALSE
    BY <1>1, <1>4, StopReconnectDoes
  <2> QED
    BY <1>7, <1>10, <2>1 DEF Whole, SameTokens, SameLogin, SamePlace, SameCard
<1>12. Whole(p) /\ Alike(p, a) /\ p.out = <<>> /\ SameTokens(s, p) /\ p.st = "in" /\ p.silent = s.silent
  BY <1>6, <1>7, <1>10 DEF Whole, Alike, SameTokens, SameLogin, SamePlace, SameCall, SameCard
<1>13. srv.mail = <<>>
  BY <1>1 DEF Room, Expects
<1>14. Room(p, srv)
  <2>1. Expects(p, srv)
    BY <1>1, <1>2, <1>12, <1>13, Silence DEF Room, Expects, SameTokens
  <2> QED
    BY <1>1, <1>12, <2>1 DEF Room, Known, SameTokens
<1>15. Asked(p, srv) /\ Len(p.out) = 0
  BY <1>12, <1>14, AsksNothing
<1>16. Adds(p.out, no, a.out) /\ no.req \in Plain
  BY <1>5, <1>11, <1>12 DEF Adds, Plain
<1>17. /\ Asked(a, srv) /\ Len(a.out) = 1
       /\ Aside(Served(srv, p.out), Served(srv, a.out))
  <2>1. p.st = "in" /\ Len(p.out) \in 0..2
    BY <1>12, <1>15
  <2>2. Alike(p, a)
    BY <1>12
  <2>3. Asked(a, srv) /\ Len(a.out) = Len(p.out) + 1 /\ Aside(Served(srv, p.out), Served(srv, a.out))
    BY <1>15, <1>16, <2>1, <2>2, AsksAside
  <2> QED
    BY <1>15, <2>3
<1>18. PICK y : y = Served(srv, a.out)
  OBVIOUS
<1>19. \A i \in Items(y.mail) : i.re \notin Minted
  <2>1. Said \cap Minted = {}
    BY DEF Said, Minted
  <2>2. Served(srv, p.out) = srv
    BY <1>12, ServedNone
  <2>3. Aside(srv, y)
    BY <1>17, <1>18, <2>2
  <2>4. Queue(srv.mail) /\ Items(srv.mail) = {}
    BY <1>13, Silence
  <2>5. CASE y.mail = srv.mail
    BY <2>4, <2>5
  <2>6. CASE \E n : Adds(srv.mail, n, y.mail) /\ n.re \in Said
    <3>1. PICK n : Adds(srv.mail, n, y.mail) /\ n.re \in Said
      BY <2>6
    <3>2. Items(y.mail) = {n}
      BY <2>4, <3>1, OneMore
    <3> QED
      BY <2>1, <3>1, <3>2
  <2> QED
    BY <2>3, <2>5, <2>6 DEF Aside
<1>20. /\ Whole(m) /\ SamePlace(a, m) /\ SameCall(a, m) /\ SameCard(a, m)
       /\ m.session = a.session /\ m.stash = a.stash /\ m.ss = a.ss
       /\ m.token = a.token /\ m.probing = a.probing /\ m.usingR = a.usingR
       /\ m.fallback = a.fallback /\ m.pend = "none"
       /\ Remembers(a, m)
  <2>1. Whole(a)
    BY <1>11
  <2> QED
    BY <1>8, <2>1, MintDoes
<1>21. OpHere(a) <=> Op(srv, s.cred)
  BY <1>11, OpIsHere
<1>22. m.remember = s.remember \/ s.remember \notin srv.valid
  BY <1>1, <1>11, <1>20, <1>21 DEF Fine, Ticked, SameTokens, Remembers
<1>23. /\ Asked(m, srv) /\ Len(m.out) \in {1, 2}
       /\ \A i \in Items(Served(srv, m.out).mail) : i.re \notin {"session", "invite"}
  <2>1. CASE m.out = a.out /\ m.sr = a.sr
    <3>1. Room(a, y) /\ Grown(srv, y) /\ Served(srv, m.out) = y
      BY <1>17, <1>18, <2>1 DEF Asked
    <3>2. m.remember = a.remember \/ a.remember \notin y.valid
      <4>1. CASE s.remember = None
        BY <1>20, <4>1, <1>11 DEF SameTokens, Remembers
      <4>2. CASE s.remember # None /\ m.remember # a.remember
        <5>1. s.remember \notin srv.valid /\ KindIn(srv, s.remember) = "remember"
          BY <1>1, <1>11, <1>22, <4>2 DEF SameTokens, Fine, Kinds
        <5>2. s.remember \notin y.valid
          BY <1>1, <3>1, <5>1, KindStays
        <5> QED
          BY <1>11, <5>2 DEF SameTokens
      <4> QED
        BY <4>1, <4>2
    <3>3. Room(m, y)
      BY <1>20, <2>1, <3>1, <3>2, RoomKeeps DEF SameWaits, Keeps, SamePlace, SameCard
    <3>4. Queue(m.out) /\ Len(m.out) = 1
      BY <1>17, <2>1 DEF Asked
    <3>5. \A i \in Items(y.mail) : i.re \notin {"session", "invite"}
      BY <1>19 DEF Minted
    <3> QED
      BY <1>1, <1>20, <3>1, <3>3, <3>4, <3>5 DEF Asked
  <2>2. CASE Sends(a.out, m.out, "remember") /\ m.sr = TRUE /\ m.remember = a.remember
    <3>1. PICK r : r.req = "remember" /\ Adds(a.out, r, m.out)
      BY <2>2 DEF Sends
    <3>2. AlsoWaits(a, m, r.req)
      BY <1>11, <1>20, <2>2, <3>1 DEF AlsoWaits, SamePlace, SameCard
    <3>3. MayAsk(Served(srv, a.out).mail, r.req)
      BY <1>18, <1>19, <3>1 DEF MayAsk
    <3>4. r.req \in Minted /\ Len(a.out) \in 0..2
      BY <1>17, <3>1 DEF Minted
    <3>5. /\ Asked(m, srv) /\ Len(m.out) = Len(a.out) + 1
          /\ New(Served(srv, a.out).mail, Served(srv, m.out).mail, r.req)
      BY <1>11, <1>17, <1>20, <3>1, <3>2, <3>3, <3>4, AsksMint
    <3>6. \A i \in Items(Served(srv, m.out).mail) : i.re \notin {"session", "invite"}
      BY <1>18, <1>19, <3>1, <3>5 DEF New, Minted
    <3> QED
      BY <1>17, <3>5, <3>6
  <2> QED
    BY <1>20, <2>1, <2>2 DEF Remembers
<1>24. PICK f : /\ Turn(f)
                /\ \/ f = EnterOperatorRoom(HostHub(m))
                   \/ \E g, b : Same(m, g) /\ f = PublishAwayState(g, b)
  BY <1>9
<1>25. /\ Asked(f, srv) /\ Whole(f) /\ SameLogin(m, f) /\ SamePlace(m, f) /\ SameCall(m, f)
       /\ SameCard(m, f) /\ f.remember = m.remember /\ f.session = m.session /\ f.stash = m.stash
       /\ f.prev = m.prev /\ f.sr = m.sr /\ f.ss \in {m.ss, TRUE}
  <2>1. CASE Same(m, f)
    BY <1>23, <2>1, AskedAlike DEF Same, Alike, SameTokens
  <2>2. CASE /\ Whole(f) /\ SameLogin(m, f) /\ SamePlace(m, f) /\ SameCall(m, f) /\ SameCard(m, f)
             /\ f.remember = m.remember /\ f.session = m.session /\ f.stash = m.stash
             /\ f.prev = m.prev /\ f.sr = m.sr /\ f.ss = TRUE
             /\ Sends(m.out, f.out, "session")
    <3>1. PICK r : r.req = "session" /\ Adds(m.out, r, f.out)
      BY <2>2 DEF Sends
    <3>2. AlsoWaits(m, f, r.req)
      BY <1>11, <1>20, <2>2, <3>1 DEF AlsoWaits, SamePlace, SameCard
    <3>3. MayAsk(Served(srv, m.out).mail, r.req)
      BY <1>23, <3>1 DEF MayAsk
    <3>4. r.req \in Minted /\ Len(m.out) \in 0..2 /\ m.st = "in"
      BY <1>11, <1>20, <1>23, <3>1 DEF Minted, SamePlace
    <3>5. Asked(f, srv)
      BY <1>23, <2>2, <3>1, <3>2, <3>3, <3>4, AsksMint
    <3> QED
      BY <2>2, <3>5
  <2>3. CASE \E g, b : Same(m, g) /\ f = PublishAwayState(g, b)
    <3>1. PICK g, b : Same(m, g) /\ f = PublishAwayState(g, b)
      BY <2>3
    <3>2. Asked(g, srv) /\ Whole(g) /\ g.out = m.out
      BY <1>23, <3>1, AskedAlike DEF Same, Alike
    <3>3. \/ f = g
          \/ g.st = "in" /\ Alike(g, f) /\ Sends(g.out, f.out, "data")
      BY <3>1, <3>2, PublishDoes
    <3>4. CASE f = g
      BY <2>1, <3>1, <3>4
    <3>5. CASE g.st = "in" /\ Alike(g, f) /\ Sends(g.out, f.out, "data")
      <4>1. PICK r : r.req = "data" /\ Adds(g.out, r, f.out)
        BY <3>5 DEF Sends
      <4>2. r.req \in Plain /\ Len(g.out) \in 0..2
        BY <1>23, <3>2, <4>1 DEF Plain
      <4>3. Asked(f, srv)
        BY <3>2, <3>5, <4>1, <4>2, AsksAside
      <4>4. Alike(m, f)
        BY <3>1, <3>5, AlikeTwice DEF Same
      <4> QED
        BY <4>3, <4>4 DEF Alike, SameTokens
    <3> QED
      BY <3>3, <3>4, <3>5
  <2> QED
    BY <1>20, <1>24, <2>1, <2>2, <2>3, EnterDoes
<1>26. Remember(a) = s.remember \/ (Remember(a) = None /\ s.remember \notin srv.valid)
  BY <1>1, <1>11 DEF Remember, SameTokens, Server
<1> USE DEF SameTokens, SameLogin, SamePlace, SameCall, SameCard
<1>27. /\ Whole(f) /\ f.st = "in" /\ f.cred = s.cred /\ f.load = s.load /\ f.token = None
       /\ f.usingR = FALSE /\ f.fallback = None /\ f.pend = "none" /\ f.want = TRUE
       /\ f.last = s.cred /\ f.rec = FALSE /\ f.timer = FALSE
       /\ f.card = s.card /\ f.rejoin = s.rejoin /\ f.silent = s.silent
       /\ f.session = s.session /\ f.stash = s.stash /\ f.ss \in {s.ss, TRUE}
       /\ f.remember \in {s.remember, None} /\ f.prev \in {s.prev, s.remember, None}
       /\ \/ f.sr = s.sr
          \/ /\ f.sr = TRUE /\ Op(srv, s.cred) /\ s.pend = "tick"
             /\ f.remember = f.prev \/ f.remember \notin srv.valid
  <2>1. /\ Whole(f) /\ f.st = "in" /\ f.cred = s.cred /\ f.load = s.load /\ f.token = None
        /\ f.usingR = FALSE /\ f.fallback = None /\ f.pend = "none" /\ f.want = TRUE
        /\ f.last = s.cred /\ f.rec = FALSE /\ f.timer = FALSE
    BY <1>11, <1>20, <1>25
  <2>2. /\ f.card = s.card /\ f.rejoin = s.rejoin /\ f.silent = s.silent
        /\ f.session = s.session /\ f.stash = s.stash /\ f.ss \in {s.ss, TRUE}
    BY <1>11, <1>20, <1>25
  <2>3. f.remember = m.remember /\ f.prev = m.prev /\ f.sr = m.sr
    BY <1>25
  <2>4. a.remember = s.remember /\ a.sr = s.sr /\ a.prev = s.prev /\ a.pend = s.pend
    BY <1>11
  <2>5. CASE m.sr = a.sr /\ m.prev = a.prev /\ m.remember \in {a.remember, None}
    BY <2>1, <2>2, <2>3, <2>4, <2>5
  <2>6. CASE a.pend = "tick" /\ OpHere(a) /\ m.remember = a.remember /\ m.sr = TRUE /\ m.prev = Remember(a)
    <3>1. f.remember = f.prev \/ f.remember \notin srv.valid
      BY <1>26, <2>3, <2>4, <2>6
    <3>2. f.prev \in {s.prev, s.remember, None}
      BY <1>26, <2>3, <2>6
    <3> QED
      BY <1>21, <2>1, <2>2, <2>3, <2>4, <2>6, <3>1, <3>2
  <2> QED
    BY <1>20, <2>5, <2>6 DEF Remembers

<1>28. Fine(f, srv, FALSE)
  <2>1. Types(f)
    <3>1. f.want \in BOOLEAN /\ f.rec \in BOOLEAN /\ f.timer \in BOOLEAN
      BY <1>1, <1>2, <1>27 DEF Fine, Types, Flags, Someone
    <3>2. f.card \in BOOLEAN /\ f.rejoin \in BOOLEAN
      BY <1>1, <1>2, <1>27 DEF Fine, Types, Flags, Someone
    <3>3. f.usingR \in BOOLEAN /\ f.sr \in BOOLEAN /\ f.ss \in BOOLEAN
      BY <1>1, <1>2, <1>27 DEF Fine, Types, Flags, Someone
    <3>4. Flags(f)
      BY <3>1, <3>2, <3>3 DEF Flags
    <3> QED
      BY <3>4, <1>1, <1>2, <1>27 DEF Fine, Types, Someone
  <2>2. Course(f, FALSE)
    BY <1>1, <1>2, <1>27 DEF Fine, Course, Types, Flags
  <2>3. Cover(f, FALSE)
    BY <1>1, <1>2, <1>27 DEF Fine, Cover, Blank, LoadOK, Covered, ScriptRan, Course
  <2>4. Using(f)
    BY <1>1, <1>2, <1>27 DEF Fine, Using, Course, Cover, Blank
  <2>5. Kinds(f, srv)
    BY <1>1, <1>2, <1>27 DEF Fine, Kinds
  <2>6. Replaces(f, srv)
    BY <1>1, <1>2, <1>27 DEF Fine, Replaces, Course
  <2>7. Ticked(f, srv)
    BY <1>1, <1>2, <1>27 DEF Fine, Ticked, Course
  <2>8. Hub(f, srv)
    BY <1>1, <1>2, <1>27, <1>3 DEF Fine, Hub
  <2> QED
    BY <2>1, <2>2, <2>3, <2>4, <2>5, <2>6, <2>7, <2>8 DEF Fine
<1> QED
  BY <1>1, <1>2, <1>24, <1>25, <1>27, <1>28, TurnAsked

\* Somebody is let in.
LEMMA JoinedStep ==
    ASSUME Inv, Races = {}, s.st = "asked", "join" \in Verdicts, Turn(GotJoin(s)),
           UNCHANGED <<case, old>>
    PROVE  Inv'
<1>1. CASE s.probing = "probing"
  BY <1>1, ProbedStep DEF GotJoin
<1>2. CASE s.probing # "probing"
  BY <1>2, LetInStep
<1> QED
  BY <1>1, <1>2

\* The answer to a join, whatever it is.
LEMMA AnswerStep ==
    ASSUME Inv, Races = {}, NEW v, Answer(v),
           v \in {"join", "knock", "full", "refused", "need-username", "redirect"}
    PROVE  Inv'
<1>1. s.st = "asked" /\ v \in Verdicts /\ UNCHANGED <<case, old>>
  BY DEF Answer
<1>2. CASE v = "join"
  BY <1>1, <1>2, JoinedStep DEF Answer
<1>3. CASE v = "knock"
  BY <1>1, <1>3, KnockingStep DEF Answer
<1>4. CASE v = "redirect"
  BY <1>1, <1>4, RedirectStep DEF Answer
<1>5. CASE v \in {"full", "refused", "need-username"}
  <2>1. Turn(GotFail(s, v))
    BY <1>5 DEF Answer
  <2> QED
    BY <1>1, <1>5, <2>1, FailStep
<1> QED
  BY <1>2, <1>3, <1>4, <1>5

\* The first thing the server has to say, and the rest.
LEMMA HeadOfMail ==
    ASSUME Room(s, srv), srv.mail # <<>>, NEW m, m = Head(srv.mail),
           NEW x, x = [srv EXCEPT !.mail = Tail(@)]
    PROVE  /\ Server(x) /\ SameServer(srv, x) /\ MailOK(x) /\ Answered(x, m)
           /\ Items(srv.mail) = Items(x.mail) \cup {m}
           /\ \A a \in Items(x.mail) : /\ a.re = "remember" => m.re \notin Minted
                                       /\ a.re = "session" => m.re \notin {"session", "invite"}
           /\ Cardinality(Lists(x.mail)) \in Nat
           /\ Cardinality(Lists(srv.mail)) =
                  Cardinality(Lists(x.mail)) + IF m.re = "list" THEN 1 ELSE 0
<1>1. PICK q : q = srv.mail
  OBVIOUS
<1>2. PICK w : w = Tail(q)
  OBVIOUS
<1>3. Server(srv) /\ Record(srv) /\ MailOK(srv)
  BY DEF Room, Server
<1>4. Record(x) /\ x.valid = srv.valid /\ x.lapsed = srv.lapsed /\ x.kind = srv.kind /\ x.mail = w
  BY <1>1, <1>2, <1>3 DEF Record
<1>5. Server(x) /\ SameServer(srv, x)
  BY <1>3, <1>4 DEF Server, SameServer
<1>6. Queue(q) /\ InOrder(q) /\ Takes(q, m, w)
  BY <1>1, <1>2, <1>3 DEF MailOK, Takes
<1>7. Queue(w) /\ Items(q) = Items(w) \cup {m}
  BY <1>6, OneLess
<1>8. /\ InOrder(w)
      /\ \A a \in Items(w) : /\ a.re = "remember" => m.re \notin Minted
                             /\ a.re = "session" => m.re \notin {"session", "invite"}
  BY <1>6, OrderOneLess
<1>9. Cardinality(Lists(q)) = Cardinality(Lists(w)) + IF m.re = "list" THEN 1 ELSE 0
  BY <1>6, ListsOneLess
<1>10. Cardinality(Lists(w)) \in Nat
  BY <1>7, ListsFinite
<1>11. \A a : Answered(srv, a) => Answered(x, a)
  BY <1>4 DEF Answered, KindIn
<1>12. \A a \in Items(q) : Answered(x, a)
  BY <1>1, <1>3, <1>11 DEF MailOK
<1>13. MailOK(x) /\ Answered(x, m)
  BY <1>4, <1>7, <1>8, <1>12 DEF MailOK
<1> QED
  BY <1>1, <1>4, <1>5, <1>7, <1>8, <1>9, <1>10, <1>13

\* The page has heard one thing, with nothing to say to that.
LEMMA HeardStep ==
    ASSUME Inv, s.st = "in", NEW q, Whole(q), q.out = <<>>, s' = [q EXCEPT !.out = <<>>],
           NEW x, srv' = Served(x, q.out), Server(x), SameServer(srv, x), MailOK(x),
           Fine(q, srv, old), Expects(q, x), Known(q, x), UNCHANGED <<case, old>>
    PROVE  Inv'
<1>1. srv' = x
  BY ServedNone
<1>2. Alike(q, s') /\ s'.out = <<>>
  BY DEF Whole, Same, Alike, SameTokens, SameLogin, SamePlace, SameCall, SameCard
<1>3. Grown(srv, x)
  BY SameIsGrown DEF Inv, Room
<1>4. Fine(q, x, old)
  BY <1>3, FineStays DEF Inv, Room
<1>5. Fine(s', srv', old')
  BY <1>1, <1>2, <1>4, FineAlike
<1>6. Room(q, x)
  BY DEF Room
<1>7. Room(s', srv')
  BY <1>1, <1>2, <1>6, RoomAlike
<1> QED
  BY <1>2, <1>5, <1>7, InvNext DEF Inv

\* Knocks, and what the room and the panel are told, have nothing to do with tokens.
LEMMA SaidDoes ==
    ASSUME NEW p, Whole(p), NEW m, m.re \in Said, NEW q, q = Got(p, m)
    PROVE  Same(p, q)
<1> USE DEF Whole, Same, Alike, SameTokens, SameLogin, SamePlace, SameCall, SameCard
<1>1. CASE m.re = "knock"
  <2>1. PICK h : h = [p EXCEPT !.row = TRUE]
    OBVIOUS
  <2>2. PICK k : k = h.handlers \cup {Row}
    OBVIOUS
  <2>3. PICK a : a = Told(h.app, "knock", Row, {1})
    OBVIOUS
  <2>4. q = p \/ q = h \/ q = [h EXCEPT !.handlers = k, !.app = a]
    BY <1>1, <2>1, <2>2, <2>3 DEF Got, HostKnock
  <2> QED
    BY <2>1, <2>4
<1>2. CASE m.re = "knockcancel"
  <2>1. PICK h : h = [p EXCEPT !.row = FALSE]
    OBVIOUS
  <2>2. PICK k : k = h.handlers \ {Row}
    OBVIOUS
  <2>3. PICK a : a = IF Knows(h.app, Row) THEN Told(h.app, "gone", Row, {}) ELSE h.app
    OBVIOUS
  <2>4. q = [h EXCEPT !.handlers = k, !.app = a]
    BY <1>2, <2>1, <2>2, <2>3 DEF Got, HostKnockGone
  <2> QED
    BY <2>1, <2>4
<1>3. CASE m.re = "status"
  <2>1. PICK f : f = Rendered(p, m.knocking)
    OBVIOUS
  <2>2. q = [p EXCEPT !.knockers = f.knockers, !.toasts = f.toasts,
                      !.handlers = f.handlers, !.app = f.app]
    BY <1>3, <2>1 DEF Got, RenderRooms
  <2> QED
    BY <2>2
<1>4. CASE m.re = "data"
  <2>1. PICK t : t = IF m.t = 1 THEN "yes" ELSE "no"
    OBVIOUS
  <2>2. q = [p EXCEPT !.told = t]
    BY <1>4, <2>1 DEF Got
  <2> QED
    BY <2>2
<1>5. CASE m.re = "clearchat"
  <2>1. PICK c : c = [p.cl EXCEPT !.box = 0]
    OBVIOUS
  <2>2. q = [p EXCEPT !.cl = c]
    BY <1>5, <2>1 DEF Got
  <2> QED
    BY <2>2
<1> QED
  BY <1>1, <1>2, <1>3, <1>4, <1>5 DEF Said

\* What has not come yet of what was to come.
StillToCome(p, x, m) ==
    /\ p.sr <=> m.re = "remember" \/ Has(x.mail, "remember")
    /\ p.ss <=> m.re = "session" \/ Has(x.mail, "session")
    /\ \A t \in x.valid : KindIn(x, t) = "remember" =>
          \/ t = p.remember \/ \E a \in Items(x.mail) : a.re = "remember" /\ a.t = t
          \/ m.re = "remember" /\ m.t = t

\* The first thing in the mail is one the page waits for, or hears of aside; the
\* rest is still to come.
LEMMA HeadIsWaitedFor ==
    ASSUME Room(s, srv), NEW m, NEW x, SameServer(srv, x), Items(srv.mail) = Items(x.mail) \cup {m}
    PROVE  StillToCome(s, x, m)
<1>1. \A re : Has(srv.mail, re) <=> m.re = re \/ Has(x.mail, re)
  BY DEF Has
<1>2. \A t : KindIn(x, t) = KindIn(srv, t)
  BY DEF SameServer, KindIn
<1>3. x.valid = srv.valid
  BY DEF SameServer
<1>4. ASSUME NEW t \in x.valid, KindIn(x, t) = "remember"
      PROVE  \/ t = s.remember \/ \E a \in Items(x.mail) : a.re = "remember" /\ a.t = t
             \/ m.re = "remember" /\ m.t = t
  BY <1>2, <1>3, <1>4 DEF Room, Known
<1>5. s.sr <=> m.re = "remember" \/ Has(x.mail, "remember")
  BY <1>1 DEF Room, Expects
<1>6. s.ss <=> m.re = "session" \/ Has(x.mail, "session")
  BY <1>1 DEF Room, Expects
<1> QED
  BY <1>4, <1>5, <1>6 DEF StillToCome

\* A token is revoked that is no longer needed.
LEMMA RevokeDoes ==
    ASSUME NEW p, Whole(p), p.silent \in Nat, NEW t, NEW q, q = Revoke(p, t)
    PROVE  \/ q = p /\ ~(t # None /\ p.st = "in" /\ Op(srv, p.cred))
           \/ /\ t # None /\ p.st = "in" /\ Whole(q)
              /\ SameTokens(p, q) /\ SameLogin(p, q) /\ SamePlace(p, q) /\ SameCall(p, q)
              /\ q.card = p.card /\ q.rejoin = p.rejoin /\ q.silent = p.silent + 1
              /\ \E r : r.req = "revoke" /\ r.t = t /\ Adds(p.out, r, q.out)
<1>1. CASE t # None /\ p.st = "in" /\ OpHere(p)
  <2>1. PICK a : a = Ask(p, "revoke", t)
    OBVIOUS
  <2>2. q = [a EXCEPT !.silent = @ + 1]
    BY <1>1, <2>1 DEF Revoke
  <2>3. Alike(p, a) /\ \E r : r.req = "revoke" /\ r.t = t /\ Adds(p.out, r, a.out)
    BY <2>1, AskDoes
  <2>4. /\ Whole(q) /\ SameTokens(a, q) /\ SameLogin(a, q) /\ SamePlace(a, q) /\ SameCall(a, q)
        /\ q.card = a.card /\ q.rejoin = a.rejoin /\ q.silent = a.silent + 1 /\ q.out = a.out
    BY <2>2, <2>3 DEF Alike, Whole, SameTokens, SameLogin, SamePlace, SameCall
  <2>5. \E r : r.req = "revoke" /\ r.t = t /\ Adds(p.out, r, q.out)
    BY <2>3, <2>4
  <2>6. /\ SameTokens(p, q) /\ SameLogin(p, q) /\ SamePlace(p, q) /\ SameCall(p, q)
        /\ q.card = p.card /\ q.rejoin = p.rejoin /\ q.silent = p.silent + 1
    BY <2>3, <2>4 DEF Alike, SameTokens, SameLogin, SamePlace, SameCall, SameCard
  <2> QED
    BY <1>1, <2>4, <2>5, <2>6
<1>2. CASE ~(t # None /\ p.st = "in" /\ OpHere(p))
  <2>1. q = p
    BY <1>2 DEF Revoke
  <2> QED
    BY <1>2, <2>1, OpIsHere
<1> QED
  BY <1>1, <1>2

\* The token that this device is to be remembered by has come: it is stored,
\* and the one it takes the place of is revoked.
LEMMA RememberComes ==
    ASSUME Inv, s.st = "in", s.sr, NEW m, m.re = "remember", m.t \in Tok,
           NEW x, Server(x), SameServer(srv, x), MailOK(x), Answered(x, m), StillToCome(s, x, m),
           ~Has(x.mail, "remember"), s.silent = Cardinality(Lists(x.mail)),
           NEW p, p = GotToken(s, m.t), s' = [p EXCEPT !.out = <<>>], srv' = Served(x, p.out),
           UNCHANGED <<case, old>>
    PROVE  Inv'
<1>1. /\ Fine(s, srv, old) /\ Whole(s) /\ s.out = <<>> /\ s.silent \in Nat /\ old \in BOOLEAN
      /\ Server(srv) /\ case \in Cases
  BY DEF Inv, Fine, Types, Room
<1>2. PICK g : g = [s EXCEPT !.remember = m.t]
  OBVIOUS
<1>3. PICK h : h = Revoke(g, s.prev)
  OBVIOUS
<1>4. p = [h EXCEPT !.sr = FALSE, !.prev = None]
  BY <1>2, <1>3 DEF GotToken
<1>5. /\ Whole(g) /\ g.remember = m.t /\ g.session = s.session /\ g.stash = s.stash
      /\ g.prev = s.prev /\ g.sr = s.sr /\ g.ss = s.ss
      /\ SameLogin(s, g) /\ SamePlace(s, g) /\ SameCall(s, g) /\ SameCard(s, g) /\ g.out = <<>>
  BY <1>1, <1>2 DEF Whole, SameLogin, SamePlace, SameCall, SameCard
<1>6. \/ h = g /\ ~(s.prev # None /\ g.st = "in" /\ Op(srv, g.cred))
      \/ /\ s.prev # None /\ g.st = "in" /\ Whole(h)
         /\ SameTokens(g, h) /\ SameLogin(g, h) /\ SamePlace(g, h) /\ SameCall(g, h)
         /\ h.card = g.card /\ h.rejoin = g.rejoin /\ h.silent = g.silent + 1
         /\ \E r : r.req = "revoke" /\ r.t = s.prev /\ Adds(g.out, r, h.out)
  <2>1. g.silent \in Nat
    BY <1>1, <1>5 DEF SameCard
  <2> QED
    BY <1>3, <1>5, <2>1, RevokeDoes
<1>7. /\ Whole(h) /\ SameTokens(g, h) /\ SameLogin(g, h) /\ SamePlace(g, h) /\ SameCall(g, h)
      /\ h.card = g.card /\ h.rejoin = g.rejoin /\ h.silent \in {g.silent, g.silent + 1}
  BY <1>5, <1>6 DEF SameTokens, SameLogin, SamePlace, SameCall
<1>8. /\ Whole(p) /\ p.remember = h.remember /\ p.session = h.session /\ p.stash = h.stash
      /\ p.prev = None /\ p.sr = FALSE /\ p.ss = h.ss /\ p.silent = h.silent
      /\ SameLogin(h, p) /\ SamePlace(h, p) /\ SameCall(h, p) /\ SameCard(h, p) /\ p.out = h.out
  BY <1>4, <1>7 DEF Whole, SameLogin, SamePlace, SameCall, SameCard
<1>9. /\ Whole(p) /\ p.remember = m.t /\ p.session = s.session /\ p.stash = s.stash
      /\ p.prev = None /\ p.sr = FALSE /\ p.ss = s.ss
      /\ SameLogin(s, p) /\ SamePlace(s, p) /\ SameCall(s, p) /\ p.card = s.card
      /\ p.rejoin = s.rejoin /\ p.silent \in Nat /\ p.silent = h.silent /\ p.out = h.out
  BY <1>1, <1>5, <1>7, <1>8 DEF SameTokens, SameLogin, SamePlace, SameCall, SameCard
<1>10. KindIn(x, m.t) = "remember" /\ m.t \in Someone
  BY NoToken DEF Answered, Minted, Someone
<1>11. KindIn(srv, m.t) = "remember"
  BY <1>10 DEF SameServer, KindIn
<1>12. Fine(p, srv, old)
  <2> USE DEF SameTokens, SameLogin, SamePlace, SameCall, SameCard
  <2>1. Fine(p, srv, old)
    <3>1. Types(p)
      <4>1. p.want \in BOOLEAN /\ p.rec \in BOOLEAN /\ p.timer \in BOOLEAN
        BY <1>1, <1>9, <1>10, <1>11 DEF Fine, Types, Flags, Someone
      <4>2. p.card \in BOOLEAN /\ p.rejoin \in BOOLEAN
        BY <1>1, <1>9, <1>10, <1>11 DEF Fine, Types, Flags, Someone
      <4>3. p.usingR \in BOOLEAN /\ p.sr \in BOOLEAN /\ p.ss \in BOOLEAN
        BY <1>1, <1>9, <1>10, <1>11 DEF Fine, Types, Flags, Someone
      <4>4. Flags(p)
        BY <4>1, <4>2, <4>3 DEF Flags
      <4> QED
        BY <4>4, <1>1, <1>9, <1>10, <1>11 DEF Fine, Types, Someone
    <3>2. Course(p, old)
      BY <1>1, <1>9, <1>10, <1>11 DEF Fine, Course, Types, Flags
    <3>3. Cover(p, old)
      BY <1>1, <1>9, <1>10, <1>11 DEF Fine, Cover, Blank, LoadOK, Covered, ScriptRan, Course
    <3>4. Using(p)
      BY <1>1, <1>9, <1>10, <1>11 DEF Fine, Using, Course, Cover, Blank
    <3>5. Kinds(p, srv)
      BY <1>1, <1>9, <1>10, <1>11 DEF Fine, Kinds
    <3>6. Replaces(p, srv)
      BY <1>1, <1>9, <1>10, <1>11 DEF Fine, Replaces, Course
    <3>7. Ticked(p, srv)
      BY <1>1, <1>9, <1>10, <1>11 DEF Fine, Ticked, Course
    <3>8. Hub(p, srv)
      BY <1>1, <1>9, <1>10, <1>11 DEF Fine, Hub
    <3> QED
      BY <3>1, <3>2, <3>3, <3>4, <3>5, <3>6, <3>7, <3>8 DEF Fine
  <2> QED
    BY <2>1
<1>13. s.remember = s.prev \/ s.remember \notin x.valid
  BY <1>1 DEF Fine, Replaces, SameServer
<1>14. \A t \in x.valid : KindIn(x, t) = "remember" => t = m.t \/ t = s.prev
  <2>1. ASSUME NEW a \in Items(x.mail) PROVE a.re # "remember"
    BY <2>1 DEF Has
  <2> QED
    BY <1>13, <2>1 DEF StillToCome
<1>15. PICK b : b = [p EXCEPT !.silent = s.silent]
  OBVIOUS
<1>16. b.st = p.st /\ b.sr = p.sr /\ b.ss = p.ss /\ b.silent = s.silent
  BY <1>9, <1>15 DEF Whole
<1>17. Expects(b, x)
  BY <1>1, <1>9, <1>16 DEF Expects, StillToCome, SamePlace
<1>18. MailOK(srv') /\ Expects(p, srv') /\ Grown(x, srv') /\ Known(p, srv')
  <2>1. CASE h = g /\ ~(s.prev # None /\ g.st = "in" /\ Op(srv, g.cred))
    <3>1. s.prev = None
      BY <1>1, <1>5, <2>1 DEF Fine, Replaces, SamePlace
    <3>2. srv' = x
      BY <1>5, <1>9, <2>1, ServedNone
    <3>3. p.silent = s.silent
      BY <1>5, <1>9, <2>1 DEF SameCard
    <3>4. Expects(p, x)
      BY <1>16, <1>17, <3>3 DEF Expects
    <3>5. None \notin x.valid
      BY NoToken DEF Server
    <3>6. Known(p, x)
      BY <1>9, <1>14, <3>1, <3>5 DEF Known
    <3>7. Grown(x, x)
      BY SameIsGrown DEF SameServer
    <3> QED
      BY <3>2, <3>4, <3>6, <3>7
  <2>2. CASE \E r : r.req = "revoke" /\ r.t = s.prev /\ Adds(g.out, r, h.out) /\ h.silent = g.silent + 1
    <3>1. PICK r : r.req = "revoke" /\ r.t = s.prev /\ Adds(g.out, r, h.out)
      BY <2>2
    <3>2. h.out = <<r>>
      BY <1>5, <3>1 DEF Adds
    <3>3. srv' = Serve(x, r)
      BY <1>9, <3>2, ServedOne
    <3>4. b.st = "in" /\ b.silent \in Nat /\ SameWaits(b, p) /\ p.silent = b.silent + 1
      BY <1>1, <1>5, <1>9, <1>16, <2>2 DEF SameWaits, SamePlace, SameCard
    <3>5. /\ MailOK(srv') /\ Expects(p, srv') /\ Grown(x, srv')
          /\ srv'.valid = x.valid \ {r.t} /\ srv'.kind = x.kind
      BY <1>17, <3>1, <3>3, <3>4, MailRevoke
    <3>6. Known(p, srv')
      BY <1>9, <1>14, <3>1, <3>5 DEF Known, KindIn
    <3> QED
      BY <3>5, <3>6
  <2> QED
    BY <1>6, <2>1, <2>2
<1>19. Grown(srv, srv')
  <2>1. Grown(srv, x)
    BY <1>1, SameIsGrown
  <2> QED
    BY <1>1, <1>18, <2>1, GrownTwice
<1>20. Fine(p, srv', old')
  BY <1>1, <1>12, <1>19, FineStays
<1>21. Room(p, srv')
  BY <1>18 DEF Room, Grown
<1>22. Alike(p, s') /\ s'.out = <<>>
  BY <1>9 DEF Whole, Same, Alike, SameTokens, SameLogin, SamePlace, SameCall, SameCard
<1>23. Fine(s', srv', old') /\ Room(s', srv')
  BY <1>20, <1>21, <1>22, FineAlike, RoomAlike
<1> QED
  BY <1>1, <1>22, <1>23, InvNext

\* One more list of the tokens there are, and that one was not waited for; the page
\* has one list less to come.
LEMMA ListComes ==
    ASSUME Inv, s.st = "in", NEW m, m.re = "list",
           NEW x, Server(x), SameServer(srv, x), MailOK(x), StillToCome(s, x, m),
           Cardinality(Lists(x.mail)) \in Nat, s.silent = Cardinality(Lists(x.mail)) + 1,
           NEW q, q = Got(s, m), s' = [q EXCEPT !.out = <<>>], srv' = Served(x, q.out),
           UNCHANGED <<case, old>>
    PROVE  Inv'
<1>1. Fine(s, srv, old) /\ Whole(s) /\ s.out = <<>> /\ s.silent \in Nat
  BY DEF Inv, Fine, Types
<1>2. PICK k : k = IF s.silent > 0 THEN s.silent - 1 ELSE 0
  OBVIOUS
<1>3. q = [s EXCEPT !.silent = k]
  BY <1>2 DEF Got
<1>4. k \in Nat /\ k = Cardinality(Lists(x.mail))
  BY <1>2
<1>5. /\ Whole(q) /\ SameTokens(s, q) /\ SameLogin(s, q) /\ SamePlace(s, q) /\ SameCall(s, q)
      /\ q.card = s.card /\ q.rejoin = s.rejoin /\ q.silent = k /\ q.out = <<>>
  BY <1>1, <1>3 DEF Whole, SameTokens, SameLogin, SamePlace, SameCall
<1> USE DEF SameTokens, SameLogin, SamePlace, SameCall, SameCard
<1>6. Fine(q, srv, old)
  <2>1. Types(q)
    <3>1. q.want \in BOOLEAN /\ q.rec \in BOOLEAN /\ q.timer \in BOOLEAN
      BY <1>1, <1>4, <1>5 DEF Fine, Types, Flags, Someone
    <3>2. q.card \in BOOLEAN /\ q.rejoin \in BOOLEAN
      BY <1>1, <1>4, <1>5 DEF Fine, Types, Flags, Someone
    <3>3. q.usingR \in BOOLEAN /\ q.sr \in BOOLEAN /\ q.ss \in BOOLEAN
      BY <1>1, <1>4, <1>5 DEF Fine, Types, Flags, Someone
    <3>4. Flags(q)
      BY <3>1, <3>2, <3>3 DEF Flags
    <3> QED
      BY <3>4, <1>1, <1>4, <1>5 DEF Fine, Types, Someone
  <2>2. Course(q, old)
    BY <1>1, <1>4, <1>5 DEF Fine, Course, Types, Flags
  <2>3. Cover(q, old)
    BY <1>1, <1>4, <1>5 DEF Fine, Cover, Blank, LoadOK, Covered, ScriptRan, Course
  <2>4. Using(q)
    BY <1>1, <1>4, <1>5 DEF Fine, Using, Course, Cover, Blank
  <2>5. Kinds(q, srv)
    BY <1>1, <1>4, <1>5 DEF Fine, Kinds
  <2>6. Replaces(q, srv)
    BY <1>1, <1>4, <1>5 DEF Fine, Replaces, Course
  <2>7. Ticked(q, srv)
    BY <1>1, <1>4, <1>5 DEF Fine, Ticked, Course
  <2>8. Hub(q, srv)
    BY <1>1, <1>4, <1>5 DEF Fine, Hub
  <2> QED
    BY <2>1, <2>2, <2>3, <2>4, <2>5, <2>6, <2>7, <2>8 DEF Fine
<1>7. Expects(q, x)
  BY <1>4, <1>5 DEF Expects, StillToCome
<1>8. Known(q, x)
  BY <1>5 DEF Known, StillToCome
<1> QED
  BY <1>5, <1>6, <1>7, <1>8, HeardStep

\* What the server says otherwise.
LEMMA SaidComes ==
    ASSUME Inv, s.st = "in", NEW m, m.re \in Said,
           NEW x, Server(x), SameServer(srv, x), MailOK(x), StillToCome(s, x, m),
           s.silent = Cardinality(Lists(x.mail)),
           NEW q, q = Got(s, m), s' = [q EXCEPT !.out = <<>>], srv' = Served(x, q.out),
           UNCHANGED <<case, old>>
    PROVE  Inv'
<1>1. Fine(s, srv, old) /\ Whole(s) /\ s.out = <<>>
  BY DEF Inv, Fine, Types
<1>2. Alike(s, q) /\ q.out = <<>> /\ Whole(q)
  BY <1>1, SaidDoes DEF Same, Alike
<1>3. Fine(q, srv, old)
  BY <1>1, <1>2, FineAlike
<1>4. m.re # "remember" /\ m.re # "session"
  BY DEF Said
<1>5. Expects(q, x)
  BY <1>2, <1>4 DEF Expects, StillToCome, Alike, SameTokens, SamePlace, SameCard
<1>6. Known(q, x)
  BY <1>2, <1>4 DEF Known, StillToCome, Alike, SameTokens
<1> QED
  BY <1>2, <1>3, <1>5, <1>6, HeardStep

\* A link, which the page waits for nothing by.
LEMMA InviteComes ==
    ASSUME Inv, s.st = "in", NEW m, m.re = "invite",
           NEW x, Server(x), SameServer(srv, x), MailOK(x), StillToCome(s, x, m),
           ~Has(x.mail, "remember"), ~Has(x.mail, "session"), s.silent = Cardinality(Lists(x.mail)),
           NEW q, q = Got(s, m), s' = [q EXCEPT !.out = <<>>], srv' = Served(x, q.out),
           UNCHANGED <<case, old>>
    PROVE  Inv'
<1>1. Fine(s, srv, old) /\ Whole(s) /\ s.out = <<>>
  BY DEF Inv, Fine, Types
<1>2. ~s.sr /\ ~s.ss
  BY DEF StillToCome
<1>3. q = s
  BY <1>2 DEF Got, GotToken, GotTokenError
<1>4. Expects(q, x)
  BY <1>3 DEF Expects, StillToCome
<1>5. Known(q, x)
  BY <1>3 DEF Known, StillToCome
<1> QED
  BY <1>1, <1>3, <1>4, <1>5, HeardStep

\* A token for the panel, or none.
LEMMA SessionComes ==
    ASSUME Inv, s.st = "in", NEW m, m.re = "session",
           NEW x, Server(x), SameServer(srv, x), MailOK(x), Answered(x, m), StillToCome(s, x, m),
           ~Has(x.mail, "remember"), ~Has(x.mail, "session"), s.silent = Cardinality(Lists(x.mail)),
           NEW q, q = Got(s, m), s' = [q EXCEPT !.out = <<>>], srv' = Served(x, q.out),
           UNCHANGED <<case, old>>
    PROVE  Inv'
<1>1. Fine(s, srv, old) /\ Whole(s) /\ s.out = <<>>
  BY DEF Inv, Fine, Types
<1>2. ~s.sr /\ s.ss
  BY DEF StillToCome
<1>3. PICK t : t = IF m.t = None THEN s.session ELSE m.t
  OBVIOUS
<1>4. q = [s EXCEPT !.session = t, !.ss = FALSE]
  <2>1. CASE m.t = None
    <3>1. q = [s EXCEPT !.ss = FALSE]
      BY <1>2, <2>1 DEF Got, GotTokenError
    <3>2. s.session = t
      BY <1>3, <2>1
    <3>3. [s EXCEPT !.ss = FALSE] = [s EXCEPT !.session = s.session, !.ss = FALSE]
      BY <1>1 DEF Whole
    <3> QED
      BY <3>1, <3>2, <3>3
  <2>2. CASE m.t # None
    <3>1. t = m.t
      BY <1>3, <2>2
    <3> QED
      BY <1>2, <2>2, <3>1 DEF Got, GotToken
  <2> QED
    BY <2>1, <2>2
<1>5. /\ Whole(q) /\ q.remember = s.remember /\ q.session = t /\ q.stash = s.stash
      /\ q.prev = s.prev /\ q.sr = s.sr /\ q.ss = FALSE
      /\ SameLogin(s, q) /\ SamePlace(s, q) /\ SameCall(s, q) /\ SameCard(s, q) /\ q.out = <<>>
  BY <1>1, <1>4 DEF Whole, SameLogin, SamePlace, SameCall, SameCard
<1>6. t \in Someone /\ (t # None => KindIn(srv, t) = "session")
  <2>1. m.t \in Someone /\ (m.t # None => KindIn(x, m.t) = "session")
    BY DEF Answered, Minted
  <2>2. s.session \in Someone /\ (s.session # None => KindIn(srv, s.session) = "session")
    BY <1>1 DEF Fine, Types, Kinds
  <2>3. \A u : KindIn(x, u) = KindIn(srv, u)
    BY DEF SameServer, KindIn
  <2> QED
    BY <1>3, <2>1, <2>2, <2>3
<1> USE DEF SameTokens, SameLogin, SamePlace, SameCall, SameCard
<1>7. Fine(q, srv, old)
  <2>1. Types(q)
    <3>1. q.want \in BOOLEAN /\ q.rec \in BOOLEAN /\ q.timer \in BOOLEAN
      BY <1>1, <1>5, <1>6 DEF Fine, Types, Flags, Someone
    <3>2. q.card \in BOOLEAN /\ q.rejoin \in BOOLEAN
      BY <1>1, <1>5, <1>6 DEF Fine, Types, Flags, Someone
    <3>3. q.usingR \in BOOLEAN /\ q.sr \in BOOLEAN /\ q.ss \in BOOLEAN
      BY <1>1, <1>5, <1>6 DEF Fine, Types, Flags, Someone
    <3>4. Flags(q)
      BY <3>1, <3>2, <3>3 DEF Flags
    <3> QED
      BY <3>4, <1>1, <1>5, <1>6 DEF Fine, Types, Someone
  <2>2. Course(q, old)
    BY <1>1, <1>5, <1>6 DEF Fine, Course, Types, Flags
  <2>3. Cover(q, old)
    BY <1>1, <1>5, <1>6 DEF Fine, Cover, Blank, LoadOK, Covered, ScriptRan, Course
  <2>4. Using(q)
    BY <1>1, <1>5, <1>6 DEF Fine, Using, Course, Cover, Blank
  <2>5. Kinds(q, srv)
    BY <1>1, <1>5, <1>6 DEF Fine, Kinds
  <2>6. Replaces(q, srv)
    BY <1>1, <1>5, <1>6 DEF Fine, Replaces, Course
  <2>7. Ticked(q, srv)
    BY <1>1, <1>5, <1>6 DEF Fine, Ticked, Course
  <2>8. Hub(q, srv)
    BY <1>1, <1>5, <1>6 DEF Fine, Hub
  <2> QED
    BY <2>1, <2>2, <2>3, <2>4, <2>5, <2>6, <2>7, <2>8 DEF Fine
<1>8. Expects(q, x)
  BY <1>2, <1>5 DEF Expects, StillToCome
<1>9. Known(q, x)
  BY <1>5 DEF Known, StillToCome
<1> QED
  BY <1>5, <1>7, <1>8, <1>9, HeardStep

\* The device is not remembered after all.
LEMMA RememberFails ==
    ASSUME Inv, s.st = "in", NEW m, m.re = "remember", m.t = None,
           NEW x, Server(x), SameServer(srv, x), MailOK(x), StillToCome(s, x, m),
           ~Has(x.mail, "remember"), s.silent = Cardinality(Lists(x.mail)),
           NEW q, q = Got(s, m), s' = [q EXCEPT !.out = <<>>], srv' = Served(x, q.out),
           UNCHANGED <<case, old>>
    PROVE  Inv'
<1>1. Fine(s, srv, old) /\ Whole(s) /\ s.out = <<>>
  BY DEF Inv, Fine, Types
<1>2. s.sr
  BY DEF StillToCome
<1>3. q = [s EXCEPT !.sr = FALSE]
  BY <1>2 DEF Got, GotTokenError
<1>4. /\ Whole(q) /\ q.remember = s.remember /\ q.session = s.session /\ q.stash = s.stash
      /\ q.prev = s.prev /\ q.sr = FALSE /\ q.ss = s.ss
      /\ SameLogin(s, q) /\ SamePlace(s, q) /\ SameCall(s, q) /\ SameCard(s, q) /\ q.out = <<>>
  BY <1>1, <1>3 DEF Whole, SameLogin, SamePlace, SameCall, SameCard
<1> USE DEF SameTokens, SameLogin, SamePlace, SameCall, SameCard
<1>5. Fine(q, srv, old)
  <2>1. Types(q)
    <3>1. q.want \in BOOLEAN /\ q.rec \in BOOLEAN /\ q.timer \in BOOLEAN
      BY <1>1, <1>4 DEF Fine, Types, Flags, Someone
    <3>2. q.card \in BOOLEAN /\ q.rejoin \in BOOLEAN
      BY <1>1, <1>4 DEF Fine, Types, Flags, Someone
    <3>3. q.usingR \in BOOLEAN /\ q.sr \in BOOLEAN /\ q.ss \in BOOLEAN
      BY <1>1, <1>4 DEF Fine, Types, Flags, Someone
    <3>4. Flags(q)
      BY <3>1, <3>2, <3>3 DEF Flags
    <3> QED
      BY <3>4, <1>1, <1>4 DEF Fine, Types, Someone
  <2>2. Course(q, old)
    BY <1>1, <1>4 DEF Fine, Course, Types, Flags
  <2>3. Cover(q, old)
    BY <1>1, <1>4 DEF Fine, Cover, Blank, LoadOK, Covered, ScriptRan, Course
  <2>4. Using(q)
    BY <1>1, <1>4 DEF Fine, Using, Course, Cover, Blank
  <2>5. Kinds(q, srv)
    BY <1>1, <1>4 DEF Fine, Kinds
  <2>6. Replaces(q, srv)
    BY <1>1, <1>4 DEF Fine, Replaces, Course
  <2>7. Ticked(q, srv)
    BY <1>1, <1>4 DEF Fine, Ticked, Course
  <2>8. Hub(q, srv)
    BY <1>1, <1>4 DEF Fine, Hub
  <2> QED
    BY <2>1, <2>2, <2>3, <2>4, <2>5, <2>6, <2>7, <2>8 DEF Fine
<1>6. Expects(q, x)
  BY <1>2, <1>4 DEF Expects, StillToCome
<1>7. None \notin x.valid
  BY NoToken DEF Server
<1>8. Known(q, x)
  BY <1>4, <1>7 DEF Known, StillToCome
<1> QED
  BY <1>4, <1>5, <1>6, <1>8, HeardStep

\* The page hears what the server has to say.
LEMMA MailStep ==
    ASSUME Inv, GotMail PROVE Inv'
<1>1. PICK m : m = Head(srv.mail)
  OBVIOUS
<1>2. PICK x : x = [srv EXCEPT !.mail = Tail(@)]
  OBVIOUS
<1>3. PICK q : q = Got(s, m)
  OBVIOUS
<1>4. /\ s.st = "in" /\ srv.mail # <<>> /\ s' = [q EXCEPT !.out = <<>>]
      /\ srv' = Served(x, q.out) /\ UNCHANGED <<case, old>>
  BY <1>1, <1>2, <1>3 DEF GotMail
<1>5. Room(s, srv)
  BY DEF Inv
<1>6. /\ Server(x) /\ SameServer(srv, x) /\ MailOK(x) /\ Answered(x, m)
      /\ Items(srv.mail) = Items(x.mail) \cup {m}
      /\ \A a \in Items(x.mail) : /\ a.re = "remember" => m.re \notin Minted
                                  /\ a.re = "session" => m.re \notin {"session", "invite"}
      /\ Cardinality(Lists(x.mail)) \in Nat
      /\ Cardinality(Lists(srv.mail)) =
             Cardinality(Lists(x.mail)) + IF m.re = "list" THEN 1 ELSE 0
  BY <1>1, <1>2, <1>4, <1>5, HeadOfMail
<1>7. StillToCome(s, x, m)
  BY <1>5, <1>6, HeadIsWaitedFor
<1>8. s.silent = Cardinality(Lists(x.mail)) + IF m.re = "list" THEN 1 ELSE 0
  BY <1>4, <1>5, <1>6 DEF Room, Expects
<1>9. m.re # "list" => s.silent = Cardinality(Lists(x.mail))
  BY <1>6, <1>8
<1>10. m.re \in Minted => ~Has(x.mail, "remember")
  BY <1>6 DEF Has
<1>11. m.re \in {"session", "invite"} => ~Has(x.mail, "session")
  BY <1>6 DEF Has
<1>12. CASE m.re \in Said
  <2>1. m.re # "list"
    BY <1>12 DEF Said
  <2> QED
    BY <1>3, <1>4, <1>6, <1>7, <1>9, <1>12, <2>1, SaidComes
<1>13. CASE m.re = "list"
  <2>1. s.silent = Cardinality(Lists(x.mail)) + 1
    BY <1>8, <1>13
  <2> QED
    BY <1>3, <1>4, <1>6, <1>7, <1>13, <2>1, ListComes
<1>14. CASE m.re = "invite"
  <2>1. ~Has(x.mail, "remember") /\ ~Has(x.mail, "session") /\ s.silent = Cardinality(Lists(x.mail))
    BY <1>9, <1>10, <1>11, <1>14 DEF Minted
  <2> QED
    BY <1>3, <1>4, <1>6, <1>7, <1>14, <2>1, InviteComes
<1>15. CASE m.re = "session"
  <2>1. ~Has(x.mail, "remember") /\ ~Has(x.mail, "session") /\ s.silent = Cardinality(Lists(x.mail))
    BY <1>9, <1>10, <1>11, <1>15 DEF Minted
  <2> QED
    BY <1>3, <1>4, <1>6, <1>7, <1>15, <2>1, SessionComes
<1>16. CASE m.re = "remember" /\ m.t = None
  <2>1. ~Has(x.mail, "remember") /\ s.silent = Cardinality(Lists(x.mail))
    BY <1>9, <1>10, <1>16 DEF Minted
  <2> QED
    BY <1>3, <1>4, <1>6, <1>7, <1>16, <2>1, RememberFails
<1>17. CASE m.re = "remember" /\ m.t # None
  <2>1. ~Has(x.mail, "remember") /\ s.silent = Cardinality(Lists(x.mail))
    BY <1>9, <1>10, <1>17 DEF Minted
  <2>2. m.t \in Tok
    BY <1>6, <1>17 DEF Answered, Minted, Someone
  <2>3. q = GotToken(s, m.t)
    BY <1>3, <1>17 DEF Got
  <2>4. s.sr
    BY <1>7, <1>17 DEF StillToCome
  <2> QED
    BY <1>4, <1>6, <1>7, <1>17, <2>1, <2>2, <2>3, <2>4, RememberComes
<1> QED
  BY <1>6, <1>12, <1>13, <1>14, <1>15, <1>16, <1>17 DEF Answered, Minted

\* The page has a turn in which nothing of this changes.
LEMMA TurnAlike ==
    ASSUME Inv, UNCHANGED <<case, old>>, NEW q, Turn(q), Same(s, q) PROVE Inv'
<1>1. Fine(s, srv, old) /\ s.out = <<>> /\ old' \in BOOLEAN /\ Alike(s, q) /\ q.out = <<>>
  BY DEF Inv, Same
<1>2. Fine(q, srv, old')
  BY <1>1, FineAlike
<1>3. /\ q.sr = s.sr /\ q.ss = s.ss /\ Keeps(s, q, srv)
      /\ q.st = "in" => s.st = "in" /\ q.silent = s.silent
  BY <1>1 DEF Alike, SameTokens, SamePlace, SameCard, Keeps
<1> QED
  BY <1>1, <1>2, <1>3, TurnNone

\* It says something that is answered aside.
LEMMA AskPlainStep ==
    ASSUME Inv, UNCHANGED <<case, old>>, NEW p, Same(s, p), s.st = "in",
           NEW what \in Plain, NEW t, NEW q, q = Ask(p, what, t), Turn(q)
    PROVE  Inv'
<1>1. s.out = <<>> /\ Alike(s, p) /\ p.out = <<>> /\ Whole(p)
  BY DEF Inv, Same, Alike
<1>2. Alike(p, q) /\ \E r : r.req = what /\ r.t = t /\ Adds(p.out, r, q.out)
  BY <1>1, AskDoes
<1>3. PICK r : r.req = what /\ Adds(p.out, r, q.out)
  BY <1>2
<1>4. q.out = <<r>>
  BY <1>1, <1>3 DEF Adds
<1>5. Alike(s, q)
  BY <1>1, <1>2, AlikeTwice
<1> QED
  BY <1>3, <1>4, <1>5, TurnPlain

\* The browser goes to another room.
LEMMA GoesAway ==
    ASSUME Inv, UNCHANGED <<case, old>>, NEW p, Same(s, p), s.st = "in", ~s.sr, ~s.ss,
           NEW q, q = OperatorJoin(p), Turn(q)
    PROVE  Inv'
<1>1. Fine(s, srv, old) /\ s.out = <<>> /\ old' \in BOOLEAN /\ Alike(s, p) /\ p.out = <<>> /\ Whole(p)
  BY DEF Inv, Same, Alike
<1>2. PICK a : a = Navigated(p.app)
  OBVIOUS
<1>3. q = [p EXCEPT !.st = "away", !.app = a]
  BY <1>2 DEF OperatorJoin
<1>4. /\ Whole(q) /\ SameTokens(s, q) /\ SameLogin(s, q) /\ SameCall(s, q) /\ SameCard(s, q)
      /\ q.st = "away" /\ q.cred = s.cred /\ q.adm = s.adm /\ q.load = s.load /\ q.out = <<>>
  BY <1>1, <1>3 DEF Whole, Alike, SameTokens, SameLogin, SamePlace, SameCall, SameCard
<1> USE DEF SameTokens, SameLogin, SameCall, SameCard
<1>5. Fine(q, srv, old)
  <2>1. Types(q)
    <3>1. q.want \in BOOLEAN /\ q.rec \in BOOLEAN /\ q.timer \in BOOLEAN
      BY <1>1, <1>4 DEF Fine, Types, Flags, Someone
    <3>2. q.card \in BOOLEAN /\ q.rejoin \in BOOLEAN
      BY <1>1, <1>4 DEF Fine, Types, Flags, Someone
    <3>3. q.usingR \in BOOLEAN /\ q.sr \in BOOLEAN /\ q.ss \in BOOLEAN
      BY <1>1, <1>4 DEF Fine, Types, Flags, Someone
    <3>4. Flags(q)
      BY <3>1, <3>2, <3>3 DEF Flags
    <3> QED
      BY <3>4, <1>1, <1>4 DEF Fine, Types, Someone
  <2>2. Course(q, old)
    BY <1>1, <1>4 DEF Fine, Course, Types, Flags
  <2>3. Cover(q, old)
    BY <1>1, <1>4 DEF Fine, Cover, Blank, LoadOK, Covered, ScriptRan, Course
  <2>4. Using(q)
    BY <1>1, <1>4 DEF Fine, Using, Course, Cover, Blank
  <2>5. Kinds(q, srv)
    BY <1>1, <1>4 DEF Fine, Kinds
  <2>6. Replaces(q, srv)
    BY <1>1, <1>4 DEF Fine, Replaces, Course
  <2>7. Ticked(q, srv)
    BY <1>1, <1>4 DEF Fine, Ticked, Course
  <2>8. Hub(q, srv)
    BY <1>1, <1>4 DEF Fine, Hub
  <2> QED
    BY <2>1, <2>2, <2>3, <2>4, <2>5, <2>6, <2>7, <2>8 DEF Fine
<1> QED
  BY <1>1, <1>4, <1>5, TurnNone DEF Keeps

\* The camera is turned on or off.
LEMMA CameraStep ==
    ASSUME Inv, Camera PROVE Inv'
<1>1. PICK b : b = ~s.sent
  OBVIOUS
<1>2. PICK q : q = [s EXCEPT !.sent = b]
  OBVIOUS
<1>3. Whole(s)
  BY DEF Inv, Fine, Types
<1>4. Same(s, q)
  BY <1>2, <1>3 DEF Whole, Same, Alike, SameTokens, SameLogin, SamePlace, SameCall, SameCard
<1>5. Turn(q) /\ UNCHANGED <<case, old>>
  BY <1>1, <1>2 DEF Camera
<1> QED
  BY <1>4, <1>5, TurnAlike

\* Somebody is let in from the room.
LEMMA AdmitKnockerStep ==
    ASSUME Inv, AdmitKnocker PROVE Inv'
<1>1. Same(s, s)
  BY DEF Inv, Fine, Types, Same, Alike, SameTokens, SameLogin, SamePlace, SameCall, SameCard
<1>2. s.st = "in" /\ Turn(Ask(s, "admit", None)) /\ UNCHANGED <<case, old>>
  BY DEF AdmitKnocker
<1>3. "admit" \in Plain
  BY DEF Plain
<1> QED
  BY <1>1, <1>2, <1>3, AskPlainStep

\* The panel asks who knocks.
LEMMA PollStep ==
    ASSUME Inv, PollOperatorRoom PROVE Inv'
<1>1. Same(s, s)
  BY DEF Inv, Fine, Types, Same, Alike, SameTokens, SameLogin, SamePlace, SameCall, SameCard
<1>2. s.st = "in" /\ Turn(Ask(s, "status", None)) /\ UNCHANGED <<case, old>>
  BY DEF PollOperatorRoom
<1>3. "status" \in Plain
  BY DEF Plain
<1> QED
  BY <1>1, <1>2, <1>3, AskPlainStep

\* A link is made.
LEMMA CreateLinkStep ==
    ASSUME Inv, CreateLink PROVE Inv'
<1>1. PICK q : q = Ask(s, "invite", None)
  OBVIOUS
<1>2. s.st = "in" /\ Turn(q) /\ UNCHANGED <<case, old>>
  BY <1>1 DEF CreateLink
<1>3. /\ Fine(s, srv, old) /\ Whole(s) /\ Room(s, srv) /\ s.out = <<>> /\ old' \in BOOLEAN
      /\ case \in Cases
  BY <1>2 DEF Inv, Fine, Types
<1>4. Alike(s, q) /\ \E r : r.req = "invite" /\ r.t = None /\ Adds(s.out, r, q.out)
  BY <1>1, <1>3, AskDoes
<1>5. PICK r : r.req = "invite" /\ Adds(s.out, r, q.out)
  BY <1>4
<1>6. Asked(s, srv) /\ Len(s.out) = 0
  BY <1>3, AsksNothing
<1>7. Len(s.out) \in 0..2
  BY <1>6
<1>8. r.req \in Minted /\ Whole(q)
  BY <1>4, <1>5 DEF Minted, Alike
<1>9. AlsoWaits(s, q, r.req)
  BY <1>2, <1>4, <1>5 DEF AlsoWaits, Alike, SameTokens, SamePlace, SameCard
<1>10. MayAsk(Served(srv, s.out).mail, r.req)
  BY <1>5 DEF MayAsk
<1>11. Asked(q, srv)
  BY <1>2, <1>5, <1>6, <1>7, <1>8, <1>9, <1>10, AsksMint
<1>12. Fine(q, srv, old')
  BY <1>2, <1>3, <1>4, FineAlike
<1>13. q.st \in {"in", "closing"}
  BY <1>2, <1>4 DEF Alike, SamePlace
<1> QED
  BY <1>2, <1>3, <1>11, <1>12, <1>13, TurnAsked

\* The operator goes to a room, or looks at who knocks there no longer.
LEMMA JoinRoomStep ==
    ASSUME Inv, Races = {}, JoinRoom PROVE Inv'
<1>1. s.st = "in" /\ UNCHANGED <<case, old>>
  BY DEF JoinRoom
<1>2. Same(s, s) /\ Whole(s)
  BY DEF Inv, Fine, Types, Same, Alike, SameTokens, SameLogin, SamePlace, SameCall, SameCard
<1>3. CASE Turn(OperatorJoin(s)) /\ (Unanswered => "flags" \in Races)
  <2>1. ~s.sr /\ ~s.ss
    BY <1>3 DEF Unanswered
  <2> QED
    BY <1>1, <1>2, <1>3, <2>1, GoesAway
<1>4. ASSUME NEW r \in s.toasts, Turn([s EXCEPT !.toasts = @ \ {r}])
      PROVE  Inv'
  <2>1. PICK w : w = s.toasts \ {r}
    OBVIOUS
  <2>2. PICK q : q = [s EXCEPT !.toasts = w]
    OBVIOUS
  <2>3. Turn(q)
    BY <1>4, <2>1, <2>2
  <2>4. Same(s, q)
    BY <1>2, <2>2 DEF Whole, Same, Alike, SameTokens, SameLogin, SamePlace, SameCall, SameCard
  <2> QED
    BY <1>1, <2>3, <2>4, TurnAlike
<1> QED
  BY <1>3, <1>4 DEF JoinRoom

\* A notification has been answered.
LEMMA PageHearsStep ==
    ASSUME Inv, Races = {}, PageHears PROVE Inv'
<1>1. PICK key : key = Head(s.app.down)
  OBVIOUS
<1>2. PICK a : a = [s.app EXCEPT !.down = Tail(s.app.down)]
  OBVIOUS
<1>3. PICK k : k = s.handlers \ {key}
  OBVIOUS
<1>4. PICK p : p = [s EXCEPT !.app.down = Tail(s.app.down), !.handlers = k]
  OBVIOUS
<1>5. PICK q : q = IF key \in s.handlers /\ s.st = "in" THEN Handle(p, key) ELSE p
  OBVIOUS
<1>6. Whole(s)
  BY DEF Inv, Fine, Types
<1>7. Same(s, p)
  <2>1. p = [s EXCEPT !.app = a, !.handlers = k]
    BY <1>2, <1>4
  <2> QED
    BY <1>6, <2>1 DEF Whole, Same, Alike, SameTokens, SameLogin, SamePlace, SameCall, SameCard
<1>8. Turn(q) /\ UNCHANGED <<case, old>> /\ ~s.sr /\ ~s.ss
  BY <1>1, <1>3, <1>4, <1>5 DEF PageHears, Unanswered
<1>9. \/ q = p
      \/ s.st = "in" /\ q = Ask(p, "admit", None)
      \/ s.st = "in" /\ q = OperatorJoin(p)
  BY <1>5 DEF Handle
<1>10. "admit" \in Plain
  BY DEF Plain
<1> QED
  BY <1>7, <1>8, <1>9, <1>10, TurnAlike, AskPlainStep, GoesAway

\* The page is put in the background.
LEMMA HideStep ==
    ASSUME Inv, Hide PROVE Inv'
<1>1. PICK h : h = Hidden(s.tr)
  OBVIOUS
<1>2. PICK p : p = [s EXCEPT !.tr = h]
  OBVIOUS
<1>3. PICK q : q = PublishAwayState(p, TRUE)
  OBVIOUS
<1>4. Turn(q) /\ UNCHANGED <<case, old>>
  BY <1>1, <1>2, <1>3 DEF Hide
<1>5. Whole(s)
  BY DEF Inv, Fine, Types
<1>6. Same(s, p)
  BY <1>2, <1>5 DEF Whole, Same, Alike, SameTokens, SameLogin, SamePlace, SameCall, SameCard
<1>7. q = p \/ (p.st = "in" /\ q = Ask(p, "data", 1))
  BY <1>3 DEF PublishAwayState
<1>8. "data" \in Plain /\ p.st = s.st
  BY <1>6 DEF Plain, Same, Alike, SamePlace
<1> QED
  BY <1>4, <1>6, <1>7, <1>8, TurnAlike, AskPlainStep

\* The page is looked at again, and does not wait any longer to reconnect.
LEMMA ShowStep ==
    ASSUME Inv, Show PROVE Inv'
<1>1. PICK h : h = Shown(s.tr)
  OBVIOUS
<1>2. PICK p : p = [s EXCEPT !.tr = h]
  OBVIOUS
<1>3. PICK q : q = PublishAwayState(p, FALSE)
  OBVIOUS
<1>4. /\ Turn(IF q.rec /\ q.timer THEN ReconnectNow([q EXCEPT !.tries = 0]) ELSE q)
      /\ UNCHANGED <<case, old>>
  BY <1>1, <1>2, <1>3 DEF Show
<1>5. Fine(s, srv, old) /\ Whole(s)
  BY DEF Inv, Fine, Types
<1>6. Same(s, p)
  BY <1>2, <1>5 DEF Whole, Same, Alike, SameTokens, SameLogin, SamePlace, SameCall, SameCard
<1>7. q = p \/ (p.st = "in" /\ q = Ask(p, "data", 0))
  BY <1>3 DEF PublishAwayState
<1>8. "data" \in Plain /\ p.st = s.st /\ p.rec = s.rec
  BY <1>6 DEF Plain, Same, Alike, SamePlace, SameCall
<1>9. CASE q.rec /\ q.timer
  <2>1. q.rec = s.rec
    <3>1. CASE q = Ask(p, "data", 0)
      <4>1. Whole(p)
        BY <1>6 DEF Same, Alike
      <4>2. Alike(p, q)
        BY <3>1, <4>1, AskDoes
      <4> QED
        BY <1>8, <4>2 DEF Alike, SameCall
    <3> QED
      BY <1>7, <1>8, <3>1
  <2>2. q = p
    BY <1>5, <1>7, <1>8, <1>9, <2>1 DEF Fine, Course
  <2>3. PICK r : r = [q EXCEPT !.tries = 0]
    OBVIOUS
  <2>4. Same(s, r) /\ r.timer
    BY <1>6, <1>9, <2>2, <2>3 DEF Whole, Same, Alike, SameTokens, SameLogin, SamePlace, SameCall,
       SameCard
  <2>5. Turn(ReconnectNow(r))
    BY <1>4, <1>9, <2>3
  <2> QED
    BY <1>4, <2>4, <2>5, ReconnectStep
<1>10. CASE ~(q.rec /\ q.timer)
  <2>1. Turn(q)
    BY <1>4, <1>10
  <2> QED
    BY <1>4, <1>6, <1>7, <1>8, <2>1, TurnAlike, AskPlainStep
<1> QED
  BY <1>9, <1>10

\* What is remembered is good, unless the page knows it has expired.
LEMMA RememberIs ==
    ASSUME Server(srv), NEW p, NEW r, r = Remember(p)
    PROVE  r = p.remember \/ (r = None /\ p.remember \notin srv.valid)
  BY DEF Remember, Server

\* The operator logs out of this device.
LEMMA LogoutStep ==
    ASSUME Inv, Races = {}, Logout PROVE Inv'
<1>1. PICK r : r = Remember(s)
  OBVIOUS
<1>2. PICK h : h = Revoke(s, r)
  OBVIOUS
<1>3. PICK g : g = [h EXCEPT !.session = None, !.remember = None, !.last = None, !.usingR = FALSE,
                             !.token = None]
  OBVIOUS
<1>4. PICK v : v = Over(g)
  OBVIOUS
<1>5. PICK q : q = Close(v)
  OBVIOUS
<1>6. /\ s.load.phase = "shown" /\ ~s.sr /\ ~s.ss /\ s.st = "in" /\ case.room = "hub"
      /\ Turn(q) /\ UNCHANGED <<case, old>>
  BY <1>1, <1>2, <1>3, <1>4, <1>5 DEF Logout, Press, Unanswered
<1>7. /\ Fine(s, srv, old) /\ Whole(s) /\ s.out = <<>> /\ old \in BOOLEAN /\ old' \in BOOLEAN
      /\ s.silent \in Nat /\ Room(s, srv) /\ Server(srv) /\ case \in Cases
  BY <1>6 DEF Inv, Fine, Types, Room
<1>8. \/ h = s /\ ~(r # None /\ s.st = "in" /\ Op(srv, s.cred))
      \/ /\ r # None /\ s.st = "in" /\ Whole(h)
         /\ SameTokens(s, h) /\ SameLogin(s, h) /\ SamePlace(s, h) /\ SameCall(s, h)
         /\ h.card = s.card /\ h.rejoin = s.rejoin /\ h.silent = s.silent + 1
         /\ \E a : a.req = "revoke" /\ a.t = r /\ Adds(s.out, a, h.out)
  BY <1>2, <1>7, RevokeDoes
<1>9. /\ Whole(h) /\ SameTokens(s, h) /\ SameLogin(s, h) /\ SamePlace(s, h) /\ SameCall(s, h)
      /\ h.card = s.card /\ h.rejoin = s.rejoin /\ h.silent \in {s.silent, s.silent + 1}
  BY <1>7, <1>8 DEF SameTokens, SameLogin, SamePlace, SameCall
<1>10. /\ Whole(g) /\ g.remember = None /\ g.session = None /\ g.stash = h.stash
       /\ g.prev = h.prev /\ g.sr = h.sr /\ g.ss = h.ss /\ SamePlace(h, g) /\ SameCard(h, g)
       /\ g.token = None /\ g.probing = h.probing /\ g.usingR = FALSE /\ g.fallback = h.fallback
       /\ g.pend = h.pend /\ g.out = h.out /\ g.last = None
  BY <1>3, <1>9 DEF Whole, SamePlace, SameCard
<1>11. /\ Whole(v) /\ SameTokens(g, v) /\ SameLogin(g, v) /\ SamePlace(g, v) /\ SameCard(g, v)
       /\ v.out = g.out /\ v.last = g.last
       /\ v.want = FALSE /\ v.rec = FALSE /\ v.timer = FALSE
  BY <1>4, <1>10, OverDoes
<1>12. /\ Whole(q) /\ SameTokens(v, q) /\ SameLogin(v, q) /\ SameCall(v, q) /\ SameCard(v, q)
       /\ q.cred = v.cred /\ q.load = v.load /\ q.out = v.out
       /\ q.st = IF v.st \in {"none", "gone", "away"} THEN v.st ELSE "closing"
  BY <1>5, <1>11, CloseDoes
<1>13. /\ Whole(q) /\ q.remember = None /\ q.session = None /\ q.stash = s.stash
       /\ q.prev = s.prev /\ q.sr = s.sr /\ q.ss = s.ss
       /\ q.token = None /\ q.probing = s.probing /\ q.usingR = FALSE /\ q.fallback = s.fallback
       /\ q.pend = s.pend
  BY <1>9, <1>10, <1>11, <1>12 DEF SameTokens, SameLogin
<1>14. /\ q.last = None /\ q.want = FALSE /\ q.rec = FALSE /\ q.timer = FALSE
       /\ q.card = s.card /\ q.rejoin = s.rejoin /\ q.silent \in Nat /\ q.silent = h.silent
       /\ q.cred = s.cred /\ q.load = s.load /\ q.st = "closing" /\ q.out = h.out
  BY <1>6, <1>7, <1>9, <1>10, <1>11, <1>12 DEF SamePlace, SameCall, SameCard
<1>15. Op(srv, s.cred)
  BY <1>6, <1>7 DEF Fine, Hub
<1>16. PICK b : b = [h EXCEPT !.remember = None]
  OBVIOUS
<1>17. /\ Whole(b) /\ b.remember = None /\ b.st = "in" /\ ~b.sr /\ ~b.ss /\ b.silent = h.silent
       /\ b.out = h.out /\ SameWaits(s, b)
  BY <1>6, <1>9, <1>16 DEF Whole, SameTokens, SamePlace, SameWaits
<1>18. Asked(s, srv) /\ Len(s.out) = 0 /\ Served(srv, s.out) = srv
  BY <1>7, AsksNothing, ServedNone
<1>19. r = s.remember \/ s.remember \notin srv.valid
  BY <1>1, <1>7, RememberIs
<1>20. Asked(b, srv)
  <2>1. CASE h = s /\ ~(r # None /\ s.st = "in" /\ Op(srv, s.cred))
    <3>1. r = None
      BY <1>6, <1>15, <2>1
    <3>2. None \notin srv.valid
      BY <1>7, NoToken DEF Server
    <3>3. Keeps(s, b, srv)
      BY <1>17, <1>19, <3>1 DEF Keeps
    <3>4. SameWaits(s, b) /\ b.silent = s.silent /\ b.out = <<>>
      BY <1>7, <1>17, <2>1
    <3>5. Room(b, srv)
      BY <1>7, <3>3, <3>4, RoomKeeps
    <3> QED
      BY <1>17, <3>4, <3>5, AsksNothing
  <2>2. CASE h.silent = s.silent + 1 /\ \E a : a.req = "revoke" /\ a.t = r /\ Adds(s.out, a, h.out)
    <3>1. PICK a : a.req = "revoke" /\ a.t = r /\ Adds(s.out, a, h.out)
      BY <2>2
    <3>2. Adds(s.out, a, b.out)
      BY <1>17, <3>1
    <3>3. SameWaits(s, b) /\ b.silent = s.silent + 1
      BY <1>17, <2>2
    <3>4. s.remember = a.t \/ s.remember \notin Served(srv, s.out).valid
      BY <1>18, <1>19, <3>1
    <3>5. Len(s.out) \in 0..2
      BY <1>18
    <3> QED
      BY <1>6, <1>7, <1>17, <1>18, <3>1, <3>2, <3>3, <3>4, <3>5, AsksRevoke
  <2> QED
    BY <1>8, <2>1, <2>2
<1>21. PICK y : y = Served(srv, q.out)
  OBVIOUS
<1>22. y = Served(srv, b.out) /\ q.out = b.out
  BY <1>14, <1>17, <1>21
<1>23. Room(b, y) /\ Grown(srv, y) /\ Queue(b.out)
  BY <1>20, <1>22 DEF Asked
<1>24. Expects(q, y) /\ Known(q, y)
  BY <1>6, <1>13, <1>14, <1>17, <1>23 DEF Room, Expects, Known
<1>25. Asked(q, srv)
  BY <1>7, <1>13, <1>21, <1>22, <1>23, <1>24 DEF Asked, Room
<1>26. Fine(q, srv, old)
  <2>1. Types(q)
    <3>1. q.want \in BOOLEAN /\ q.rec \in BOOLEAN /\ q.timer \in BOOLEAN
      BY <1>6, <1>7, <1>13, <1>14 DEF Fine, Types, Flags, Someone
    <3>2. q.card \in BOOLEAN /\ q.rejoin \in BOOLEAN
      BY <1>6, <1>7, <1>13, <1>14 DEF Fine, Types, Flags, Someone
    <3>3. q.usingR \in BOOLEAN /\ q.sr \in BOOLEAN /\ q.ss \in BOOLEAN
      BY <1>6, <1>7, <1>13, <1>14 DEF Fine, Types, Flags, Someone
    <3>4. Flags(q)
      BY <3>1, <3>2, <3>3 DEF Flags
    <3> QED
      BY <3>4, <1>6, <1>7, <1>13, <1>14 DEF Fine, Types, Someone
  <2>2. Course(q, old)
    BY <1>6, <1>7, <1>13, <1>14 DEF Fine, Course, Types, Flags
  <2>3. Cover(q, old)
    BY <1>6, <1>7, <1>13, <1>14 DEF Fine, Cover, Blank, LoadOK, Covered, ScriptRan, Course
  <2>4. Using(q)
    BY <1>6, <1>7, <1>13, <1>14 DEF Fine, Using, Course, Cover, Blank
  <2>5. Kinds(q, srv)
    BY <1>6, <1>7, <1>13, <1>14 DEF Fine, Kinds
  <2>6. Replaces(q, srv)
    BY <1>6, <1>7, <1>13, <1>14 DEF Fine, Replaces, Course
  <2>7. Ticked(q, srv)
    BY <1>6, <1>7, <1>13, <1>14 DEF Fine, Ticked, Course
  <2>8. Hub(q, srv)
    BY <1>6, <1>7, <1>13, <1>14 DEF Fine, Hub
  <2> QED
    BY <2>1, <2>2, <2>3, <2>4, <2>5, <2>6, <2>7, <2>8 DEF Fine
<1>27. q.st \in {"in", "closing"}
  BY <1>14
<1> QED
  BY <1>6, <1>7, <1>25, <1>26, <1>27, TurnAsked

\* There are fewer tokens.
LEMMA FewerTokens ==
    ASSUME Inv, UNCHANGED <<case, s, old>>, Server(srv'), srv'.kind = srv.kind, srv'.mail = srv.mail,
           srv'.valid \subseteq srv.valid
    PROVE  Inv'
<1>1. Fine(s, srv, old) /\ Room(s, srv) /\ Server(srv) /\ s.out = <<>>
  BY DEF Inv, Room
<1>2. Grown(srv, srv')
  BY DEF Grown
<1>3. Fine(s, srv', old)
  BY <1>1, <1>2, FineStays
<1>4. MailOK(srv')
  BY <1>1 DEF Room, MailOK, Answered, KindIn
<1>5. Expects(s, srv')
  BY <1>1 DEF Room, Expects
<1>6. Known(s, srv')
  BY <1>1 DEF Room, Known, KindIn
<1>7. Room(s, srv')
  BY <1>4, <1>5, <1>6 DEF Room
<1> QED
  BY <1>1, <1>3, <1>7, InvNext DEF Inv

\* A token expires, or is revoked by somebody else: the invariant holds.
LEMMA ExpireStep ==
    ASSUME Inv, NEW t \in Tok, Expire(t) \/ RevokeElsewhere(t) PROVE Inv'
<1>1. Server(srv) /\ Record(srv)
  BY DEF Inv, Room, Server
<1>2. t \in srv.valid /\ UNCHANGED <<case, s, old>>
  BY DEF Expire, RevokeElsewhere
<1>3. CASE Expire(t)
  <2>1. srv' = [srv EXCEPT !.valid = @ \ {t}, !.lapsed = @ \cup {t}]
    BY <1>3 DEF Expire
  <2>2. /\ Record(srv') /\ srv'.valid = srv.valid \ {t} /\ srv'.lapsed = srv.lapsed \cup {t}
        /\ srv'.kind = srv.kind /\ srv'.mail = srv.mail
    BY <1>1, <2>1 DEF Record
  <2>3. Server(srv')
    BY <1>1, <1>2, <2>2 DEF Server
  <2> QED
    BY <1>2, <2>2, <2>3, FewerTokens
<1>4. CASE RevokeElsewhere(t)
  <2>1. srv' = [srv EXCEPT !.valid = @ \ {t}]
    BY <1>4 DEF RevokeElsewhere
  <2>2. /\ Record(srv') /\ srv'.valid = srv.valid \ {t} /\ srv'.lapsed = srv.lapsed
        /\ srv'.kind = srv.kind /\ srv'.mail = srv.mail
    BY <1>1, <2>1 DEF Record
  <2>3. Server(srv')
    BY <1>1, <1>2, <2>2 DEF Server
  <2> QED
    BY <1>2, <2>2, <2>3, FewerTokens
<1> QED
  BY <1>3, <1>4

\* Somebody knocks, or gives up.
LEMMA KnocksStep ==
    ASSUME Inv, Knocks PROVE Inv'
<1>1. Server(srv) /\ Record(srv) /\ s.out = <<>>
  BY DEF Inv, Room, Server
<1>2. Alike(s, s)
  BY DEF Inv, Fine, Types, Alike, SameTokens, SameLogin, SamePlace, SameCall, SameCard
<1>3. UNCHANGED <<case, s, old>>
  BY DEF Knocks
<1>4. PICK m : m = [re |-> IF srv.knocker THEN "knockcancel" ELSE "knock", t |-> None]
  OBVIOUS
<1>5. m.re \in Said
  BY <1>4 DEF Said
<1>6. CASE s.st = "in"
  <2>1. PICK k : k = ~srv.knocker
    OBVIOUS
  <2>2. srv' = [srv EXCEPT !.knocker = k, !.mail = Append(srv.mail, m)]
    BY <1>4, <1>6, <2>1 DEF Knocks
  <2>3. /\ Record(srv') /\ srv'.valid = srv.valid /\ srv'.lapsed = srv.lapsed
        /\ srv'.kind = srv.kind /\ Adds(srv.mail, m, srv'.mail)
    BY <1>1, <2>2 DEF Record, Adds
  <2>4. Aside(srv, srv')
    BY <1>1, <1>5, <2>3, AsideBy
  <2> QED
    BY <1>1, <1>2, <1>3, <1>6, <2>4, StepAlike
<1>7. CASE s.st # "in"
  <2>1. PICK k : k = ~srv.knocker
    OBVIOUS
  <2>2. srv' = [srv EXCEPT !.knocker = k, !.mail = srv.mail]
    BY <1>7, <2>1 DEF Knocks
  <2>3. /\ Record(srv') /\ srv'.valid = srv.valid /\ srv'.lapsed = srv.lapsed
        /\ srv'.kind = srv.kind /\ srv'.mail = srv.mail
    BY <1>1, <2>2 DEF Record
  <2>4. Aside(srv, srv')
    BY <1>1, <2>3 DEF Aside, SameServer, Server
  <2> QED
    BY <1>1, <1>2, <1>3, <2>3, <2>4, StepAlike
<1> QED
  BY <1>6, <1>7

\* A server that differs in what has nothing to do with its tokens.
LEMMA StepBeside ==
    ASSUME Inv, Same(s, s'), UNCHANGED <<case, old>>, Record(srv'), srv'.valid = srv.valid,
           srv'.lapsed = srv.lapsed, srv'.kind = srv.kind, srv'.mail = srv.mail
    PROVE  Inv'
<1>1. Aside(srv, srv')
  BY DEF Inv, Room, Aside, SameServer, Server
<1> QED
  BY <1>1, StepAlike DEF Same, Inv

\* Somebody knocks at a room of the hub.
LEMMA QueuesStep ==
    ASSUME Inv, NEW r, NEW n, Queues(r, n) PROVE Inv'
<1>1. Record(srv) /\ UNCHANGED <<case, s, old>>
  BY DEF Inv, Room, Server, Queues
<1>2. PICK k : k = [srv.queue EXCEPT ![r] = IF n \in @ THEN @ \ {n} ELSE @ \cup {n}]
  OBVIOUS
<1>3. srv' = [srv EXCEPT !.queue = k]
  BY <1>2 DEF Queues
<1>4. /\ Record(srv') /\ srv'.valid = srv.valid /\ srv'.lapsed = srv.lapsed
      /\ srv'.kind = srv.kind /\ srv'.mail = srv.mail
  BY <1>1, <1>3 DEF Record
<1>5. Same(s, s')
  BY <1>1 DEF Inv, Fine, Types, Same, Alike, SameTokens, SameLogin, SamePlace, SameCall, SameCard
<1> QED
  BY <1>1, <1>4, <1>5, StepBeside

\* What has only to do with the call.
LEMMA SameButCall ==
    ASSUME NEW p, Whole(p), NEW c, NEW q, q = p \/ q = [p EXCEPT !.cl = c] PROVE Same(p, q)
  BY DEF Whole, Same, Alike, SameTokens, SameLogin, SamePlace, SameCall, SameCard

\* Somebody comes, or says something, or leaves.
LEMMA SomebodyComesStep ==
    ASSUME Inv, NEW u, SomebodyComes(u) PROVE Inv'
<1>1. Record(srv) /\ Whole(s) /\ UNCHANGED <<case, old>>
  BY DEF Inv, Room, Server, Fine, Types, SomebodyComes
<1>2. PICK k : k = srv.others \cup {u}
  OBVIOUS
<1>3. PICK c : c = Added(s.cl, {u})
  OBVIOUS
<1>4. srv' = [srv EXCEPT !.others = k] /\ (s' = s \/ s' = [s EXCEPT !.cl = c])
  BY <1>2, <1>3 DEF SomebodyComes
<1>5. /\ Record(srv') /\ srv'.valid = srv.valid /\ srv'.lapsed = srv.lapsed
      /\ srv'.kind = srv.kind /\ srv'.mail = srv.mail
  BY <1>1, <1>4 DEF Record
<1>6. Same(s, s')
  BY <1>1, <1>4, SameButCall
<1> QED
  BY <1>1, <1>5, <1>6, StepBeside

\* Something is said in the room.
LEMMA SaysStep ==
    ASSUME Inv, Says PROVE Inv'
<1>1. Record(srv) /\ Whole(s) /\ UNCHANGED <<case, old>>
  BY DEF Inv, Room, Server, Fine, Types, Says
<1>2. PICK c : c = [s.cl EXCEPT !.box = 1]
  OBVIOUS
<1>3. srv' = [srv EXCEPT !.hist = 1] /\ s' = [s EXCEPT !.cl = c]
  BY <1>2 DEF Says
<1>4. /\ Record(srv') /\ srv'.valid = srv.valid /\ srv'.lapsed = srv.lapsed
      /\ srv'.kind = srv.kind /\ srv'.mail = srv.mail
  BY <1>1, <1>3 DEF Record
<1>5. Same(s, s')
  BY <1>1, <1>3, SameButCall
<1> QED
  BY <1>1, <1>4, <1>5, StepBeside

\* Somebody leaves, and an operator who is alone then clears the chat.
LEMMA SomebodyLeavesStep ==
    ASSUME Inv, NEW u, SomebodyLeaves(u) PROVE Inv'
<1>1. Server(srv) /\ Record(srv) /\ Whole(s) /\ s.out = <<>> /\ UNCHANGED <<case, old>>
  BY DEF Inv, Room, Server, Fine, Types, SomebodyLeaves
<1>2. PICK k : k = srv.others \ {u}
  OBVIOUS
<1>3. PICK c : c = Deleted(s.cl, u, OpHere(s))
  OBVIOUS
<1>4. PICK x : x = [srv EXCEPT !.others = k]
  OBVIOUS
<1>5. PICK r : r = [req |-> "clearchat", t |-> None]
  OBVIOUS
<1>6. /\ s' = s \/ s' = [s EXCEPT !.cl = c]
      /\ srv' = x \/ (s.st = "in" /\ srv' = Serve(x, r))
  BY <1>2, <1>3, <1>4, <1>5 DEF SomebodyLeaves
<1>7. /\ Record(x) /\ x.valid = srv.valid /\ x.lapsed = srv.lapsed
      /\ x.kind = srv.kind /\ x.mail = srv.mail
  BY <1>1, <1>4 DEF Record
<1>8. Same(s, s')
  BY <1>1, <1>6, SameButCall
<1>9. CASE srv' = x
  BY <1>1, <1>7, <1>8, <1>9, StepBeside
<1>10. CASE s.st = "in" /\ srv' = Serve(x, r)
  <2>1. r.req \in Plain
    BY <1>5 DEF Plain
  <2>2. Server(x)
    BY <1>1, <1>7 DEF Server
  <2>3. Aside(x, srv')
    BY <1>10, <2>1, <2>2, PlainIsAside
  <2>4. Aside(srv, srv')
    BY <1>7, <2>3 DEF Aside, SameServer
  <2> QED
    BY <1>1, <1>8, <1>10, <2>4, StepAlike DEF Same
<1> QED
  BY <1>6, <1>9, <1>10

\* What only has to do with the call, the background or the application.
LEMMA StepAround ==
    ASSUME Inv, UNCHANGED <<srv, case, old>>, NEW c, NEW t, NEW a,
           \/ s' = [s EXCEPT !.cl = c] \/ s' = [s EXCEPT !.tr = t] \/ s' = [s EXCEPT !.app = a]
    PROVE  Inv'
<1>1. Record(srv) /\ Whole(s)
  BY DEF Inv, Room, Server, Fine, Types
<1>2. Same(s, s')
  BY <1>1 DEF Whole, Same, Alike, SameTokens, SameLogin, SamePlace, SameCall, SameCard
<1> QED
  BY <1>1, <1>2, StepBeside

\* The application, the clocks and the notifications.
LEMMA AroundStep ==
    ASSUME Inv, \/ AppHears \/ Look \/ GraceOver \/ AloneExpires
                \/ \E key \in Rooms \cup {Row} : Answers(key) \/ Closes(key)
    PROVE  Inv'
<1>1. CASE AppHears
  <2>1. PICK a : a = Heard(s.app)
    OBVIOUS
  <2>2. s' = [s EXCEPT !.app = a] /\ UNCHANGED <<srv, case, old>>
    BY <1>1, <2>1 DEF AppHears
  <2> QED
    BY <2>2, StepAround
<1>2. CASE Look
  <2>1. PICK a : a = Looked(s.app, ~s.app.front)
    OBVIOUS
  <2>2. s' = [s EXCEPT !.app = a] /\ UNCHANGED <<srv, case, old>>
    BY <1>2, <2>1 DEF Look
  <2> QED
    BY <2>2, StepAround
<1>3. CASE GraceOver
  <2>1. PICK t : t = [s.tr EXCEPT !.recent = FALSE]
    OBVIOUS
  <2>2. s' = [s EXCEPT !.tr = t] /\ UNCHANGED <<srv, case, old>>
    BY <1>3, <2>1 DEF GraceOver
  <2> QED
    BY <2>2, StepAround
<1>4. CASE AloneExpires
  <2>1. PICK c : c = AloneTooLong(s.cl)
    OBVIOUS
  <2>2. s' = [s EXCEPT !.cl = c] /\ UNCHANGED <<srv, case, old>>
    BY <1>4, <2>1 DEF AloneExpires
  <2> QED
    BY <2>2, StepAround
<1>5. ASSUME NEW key, Answers(key) \/ Closes(key)
      PROVE  Inv'
  <2>1. PICK a : a = Pressed(s.app, key)
    OBVIOUS
  <2>2. PICK b : b = ClosedByHand(s.app, key)
    OBVIOUS
  <2>3. /\ s' = [s EXCEPT !.app = a] \/ s' = [s EXCEPT !.app = b]
        /\ UNCHANGED <<srv, case, old>>
    BY <1>5, <2>1, <2>2 DEF Answers, Closes
  <2> QED
    BY <2>3, StepAround
<1> QED
  BY <1>1, <1>2, <1>3, <1>4, <1>5

\* A page that begins: what it has stored, and nothing else.
SetUp(p) ==
    /\ Whole(p) /\ Flags(p) /\ Blank(p) /\ p.st = "none" /\ ~p.timer /\ ~p.sr /\ ~p.ss
    /\ p.remember \in Someone /\ p.session \in Someone /\ p.stash \in Someone /\ p.prev \in Someone
    /\ p.cred \in Someone \cup {Pw} /\ p.out = <<>> /\ LoadOK(p.load) /\ ScriptRan(p.load)

\* It logs in with what it has, or shows its card.
Starts(p, q) ==
    \/ q.token # None /\ q.st = "opening" /\ q.cred = None /\ q.card = p.card
    \/ q.token = None /\ q.st = p.st /\ q.cred = p.cred /\ q.adm = p.adm /\ q.card = TRUE

\* start(): what the page begins to log in with is a token it has stored or was
\* opened with, and only its own token is one it is remembered by.
LEMMA StartedDoes ==
    ASSUME NEW p, Whole(p), NEW link, NEW q, q = Started(p, link)
    PROVE  /\ Whole(q) /\ SameCall(p, q) /\ q.rejoin = p.rejoin /\ q.silent = p.silent
           /\ q.remember = p.remember /\ q.session = p.session /\ q.prev = p.prev
           /\ q.sr = p.sr /\ q.ss = p.ss /\ q.load = p.load /\ q.out = p.out
           /\ q.probing = p.probing /\ q.pend = p.pend
           /\ q.stash \in {p.stash, link} /\ q.fallback \in {link, None}
           /\ q.token \in {p.session, p.remember, p.stash, link}
           /\ q.usingR \in BOOLEAN /\ (q.usingR => q.token # None /\ q.token = p.remember)
           /\ Starts(p, q)
<1> USE DEF Whole, SameCall
<1>1. PICK mine \in BOOLEAN : mine <=> Session(p) # None \/ Remember(p) # None
  OBVIOUS
<1>2. PICK mine2 : mine2 = IF Session(p) # None THEN Session(p) ELSE Remember(p)
  OBVIOUS
<1>3. PICK stash : stash = IF link # None THEN link ELSE p.stash
  OBVIOUS
<1>4. PICK fallback : fallback = IF mine THEN link ELSE None
  OBVIOUS
<1>5. PICK h : h = [p EXCEPT !.stash = stash, !.fallback = fallback]
  OBVIOUS
<1>6. PICK t : t = IF mine THEN mine2 ELSE h.stash
  OBVIOUS
<1>7. PICK u \in BOOLEAN : u <=> mine /\ Session(p) = None
  OBVIOUS
<1>8. PICK g : g = [h EXCEPT !.token = t, !.usingR = u]
  OBVIOUS
<1>9. q = IF t # None THEN Connect(g) ELSE [g EXCEPT !.card = TRUE]
  BY <1>1, <1>2, <1>3, <1>4, <1>5, <1>6, <1>7, <1>8 DEF Started
<1>10. stash \in {p.stash, link} /\ fallback \in {link, None}
  BY <1>3, <1>4
<1>11. /\ Session(p) = p.session \/ Session(p) = None
       /\ Remember(p) = p.remember \/ Remember(p) = None
  BY DEF Session, Remember
<1>12. h.stash = stash
  BY <1>5
<1>13. t \in {p.session, p.remember, p.stash, link} /\ (u => t # None /\ t = p.remember)
  BY <1>1, <1>2, <1>3, <1>6, <1>7, <1>11, <1>12
<1>14. /\ Whole(g) /\ SameCall(p, g) /\ SameCard(p, g) /\ SamePlace(p, g)
       /\ g.remember = p.remember /\ g.session = p.session /\ g.prev = p.prev
       /\ g.sr = p.sr /\ g.ss = p.ss /\ g.out = p.out /\ g.probing = p.probing /\ g.pend = p.pend
       /\ g.stash = stash /\ g.fallback = fallback /\ g.token = t /\ g.usingR = u
  BY <1>5, <1>8 DEF SameCard, SamePlace
<1>15. CASE t # None
  <2>1. q = Connect(g)
    BY <1>9, <1>15
  <2>2. /\ Whole(q) /\ SameTokens(g, q) /\ SameLogin(g, q) /\ SameCall(g, q) /\ SameCard(g, q)
        /\ q.cred = None /\ q.load = g.load /\ q.out = g.out /\ q.st = "opening"
    BY <1>14, <2>1, ConnectDoes
  <2> QED
    BY <1>10, <1>13, <1>14, <1>15, <2>2 DEF SameTokens, SameLogin, SameCard, SamePlace, Starts
<1>16. CASE t = None
  <2>1. q = [g EXCEPT !.card = TRUE]
    BY <1>9, <1>16
  <2> QED
    BY <1>10, <1>13, <1>14, <1>16, <2>1 DEF SameCard, SamePlace, Starts
<1> QED
  BY <1>15, <1>16

\* A page that starts is fine.
LEMMA StartedIsFine ==
    ASSUME NEW p, SetUp(p), NEW x, Kinds(p, x), NEW link \in Someone, NEW q, q = Started(p, link)
    PROVE  /\ Fine(q, x, FALSE) /\ q.st \in {"opening", "none"} /\ ~q.sr /\ ~q.ss
           /\ q.remember = p.remember /\ q.out = <<>>
<1>1. /\ Whole(q) /\ SameCall(p, q) /\ q.rejoin = p.rejoin /\ q.silent = p.silent
      /\ q.remember = p.remember /\ q.session = p.session /\ q.prev = p.prev
      /\ q.sr = p.sr /\ q.ss = p.ss /\ q.load = p.load /\ q.out = p.out
      /\ q.probing = p.probing /\ q.pend = p.pend
      /\ q.stash \in {p.stash, link} /\ q.fallback \in {link, None}
      /\ q.token \in {p.session, p.remember, p.stash, link}
      /\ q.usingR \in BOOLEAN /\ (q.usingR => q.token # None /\ q.token = p.remember)
      /\ Starts(p, q)
  BY StartedDoes DEF SetUp
<1>2. q.stash \in Someone /\ q.fallback \in Someone /\ q.token \in Someone /\ None \in Someone
  BY <1>1 DEF SetUp, Someone
<1>3. PICK o \in BOOLEAN : o = FALSE
  OBVIOUS
<1> USE DEF SetUp, Starts, SameCall
<1>4. Fine(q, x, o)
  <2>1. Types(q)
    <3>1. q.want \in BOOLEAN /\ q.rec \in BOOLEAN /\ q.timer \in BOOLEAN
      BY <1>1, <1>2, <1>3, NoToken DEF Fine, Flags, Blank, Types, Flags, Someone
    <3>2. q.card \in BOOLEAN /\ q.rejoin \in BOOLEAN
      BY <1>1, <1>2, <1>3, NoToken DEF Fine, Flags, Blank, Types, Flags, Someone
    <3>3. q.usingR \in BOOLEAN /\ q.sr \in BOOLEAN /\ q.ss \in BOOLEAN
      BY <1>1, <1>2, <1>3, NoToken DEF Fine, Flags, Blank, Types, Flags, Someone
    <3>4. Flags(q)
      BY <3>1, <3>2, <3>3 DEF Flags
    <3> QED
      BY <3>4, <1>1, <1>2, <1>3, NoToken DEF Fine, Flags, Blank, Types, Someone
  <2>2. Course(q, o)
    BY <1>1, <1>2, <1>3 DEF Fine, Flags, Blank, Course, Types, Flags
  <2>3. Cover(q, o)
    BY <1>1, <1>2, <1>3 DEF Fine, Flags, Blank, Cover, Blank, LoadOK, Covered, ScriptRan, Course
  <2>4. Using(q)
    BY <1>1, <1>2, <1>3 DEF Fine, Flags, Blank, Using, Course, Cover, Blank
  <2>5. Kinds(q, x)
    BY <1>1, <1>2, <1>3 DEF Fine, Flags, Blank, Kinds
  <2>6. Replaces(q, x)
    BY <1>1, <1>2, <1>3 DEF Fine, Flags, Blank, Replaces, Course
  <2>7. Ticked(q, x)
    BY <1>1, <1>2, <1>3 DEF Fine, Flags, Blank, Ticked, Course
  <2>8. Hub(q, x)
    BY <1>1, <1>2, <1>3 DEF Fine, Flags, Blank, Hub
  <2> QED
    BY <2>1, <2>2, <2>3, <2>4, <2>5, <2>6, <2>7, <2>8 DEF Fine
<1> QED
  BY <1>1, <1>3, <1>4

\* So is one that is only being loaded yet.
LEMMA BeginIsFine ==
    ASSUME NEW p, SetUp(p), NEW x, Kinds(p, x), NEW link \in Someone, NEW q, q = Begin(p, link)
    PROVE  /\ Fine(q, x, FALSE) /\ q.st \notin {"in", "closing"} /\ ~q.sr /\ ~q.ss
           /\ q.remember = p.remember /\ q.out = <<>>
<1>1. CASE case.beside # "load"
  <2>1. q = Started(p, link)
    BY <1>1 DEF Begin
  <2> QED
    BY <2>1, StartedIsFine
<1>2. CASE case.beside = "load"
  <2>1. q = [p EXCEPT !.st = "blank", !.load = Loading]
    BY <1>2 DEF Begin
  <2>2. /\ Whole(q) /\ SameTokens(p, q) /\ SameLogin(p, q) /\ SameCall(p, q) /\ SameCard(p, q)
        /\ q.st = "blank" /\ q.cred = p.cred /\ q.load = Loading /\ q.out = <<>>
    BY <2>1 DEF SetUp, Whole, SameTokens, SameLogin, SameCall, SameCard
  <2>3. LoadOK(Loading) /\ Covered(Loading) /\ ~ScriptRan(Loading)
    BY DEF LoadOK, Covered, ScriptRan, Loading, Files
  <2>4. PICK o \in BOOLEAN : o = FALSE
    OBVIOUS
  <2> USE DEF SetUp, SameTokens, SameLogin, SameCall, SameCard
  <2>5. Fine(q, x, o)
    <3>1. Types(q)
      <4>1. q.want \in BOOLEAN /\ q.rec \in BOOLEAN /\ q.timer \in BOOLEAN
        BY <2>2, <2>3, <2>4 DEF Fine, Flags, Blank, Types, Flags, Someone
      <4>2. q.card \in BOOLEAN /\ q.rejoin \in BOOLEAN
        BY <2>2, <2>3, <2>4 DEF Fine, Flags, Blank, Types, Flags, Someone
      <4>3. q.usingR \in BOOLEAN /\ q.sr \in BOOLEAN /\ q.ss \in BOOLEAN
        BY <2>2, <2>3, <2>4 DEF Fine, Flags, Blank, Types, Flags, Someone
      <4>4. Flags(q)
        BY <4>1, <4>2, <4>3 DEF Flags
      <4> QED
        BY <4>4, <2>2, <2>3, <2>4 DEF Fine, Flags, Blank, Types, Someone
    <3>2. Course(q, o)
      BY <2>2, <2>3, <2>4 DEF Fine, Flags, Blank, Course, Types, Flags
    <3>3. Cover(q, o)
      BY <2>2, <2>3, <2>4 DEF Fine, Flags, Blank, Cover, LoadOK, Covered, ScriptRan, Course
    <3>4. Using(q)
      BY <2>2, <2>3, <2>4 DEF Fine, Flags, Blank, Using, Course, Cover, Blank
    <3>5. Kinds(q, x)
      BY <2>2, <2>3, <2>4 DEF Fine, Flags, Blank, Kinds
    <3>6. Replaces(q, x)
      BY <2>2, <2>3, <2>4 DEF Fine, Flags, Blank, Replaces, Course
    <3>7. Ticked(q, x)
      BY <2>2, <2>3, <2>4 DEF Fine, Flags, Blank, Ticked, Course
    <3>8. Hub(q, x)
      BY <2>2, <2>3, <2>4 DEF Fine, Flags, Blank, Hub
    <3> QED
      BY <3>1, <3>2, <3>3, <3>4, <3>5, <3>6, <3>7, <3>8 DEF Fine
  <2> QED
    BY <2>2, <2>4, <2>5
<1> QED
  BY <1>1, <1>2

\* What a page begins with.
Begins(p) ==
    /\ Whole(p) /\ p.st = "none" /\ p.cred = None /\ p.load = Uncovered /\ p.out = <<>>
    /\ p.prev = None /\ p.last = None /\ p.token = None /\ p.probing = "null" /\ p.fallback = None
    /\ p.pend = "none" /\ p.silent = 0
    /\ p.want = FALSE /\ p.rec = FALSE /\ p.timer = FALSE /\ p.usingR = FALSE
    /\ p.card = FALSE /\ p.rejoin = FALSE /\ p.sr = FALSE /\ p.ss = FALSE

\* The page before anything was stored begins like that,
LEMMA FreshBegins == Begins(Fresh) /\ Fresh.stash = None
<1>1. PICK k : k = [r \in Rooms |-> {}]
  OBVIOUS
<1>2. PICK n : n = NoApp
  OBVIOUS
<1>3. PICK c : c = NoCall
  OBVIOUS
<1>4. PICK l : l = Uncovered
  OBVIOUS
<1>5. PICK t : t = InFront
  OBVIOUS
<1>6. PICK f : f = Fresh
  OBVIOUS
<1>7. f = [st |-> "none", cred |-> None, named |-> FALSE, adm |-> FALSE,
          want |-> FALSE, rec |-> FALSE, timer |-> FALSE, tries |-> 0, last |-> None,
          token |-> None, probing |-> "null", usingR |-> FALSE, fallback |-> None,
          pend |-> "none", present |-> FALSE,
          card |-> FALSE, waiting |-> FALSE, call |-> FALSE, dash |-> FALSE, rejoin |-> FALSE,
          sr |-> FALSE, prev |-> None, ss |-> FALSE, silent |-> 0,
          sent |-> FALSE, had |-> FALSE, noted |-> "null", row |-> FALSE, out |-> <<>>,
          remember |-> None, session |-> None, stash |-> None,
          load |-> l, reloads |-> 0, tr |-> t, told |-> "?", msg |-> "",
          bg |-> FALSE, cl |-> c,
          app |-> n, handlers |-> {}, knockers |-> k, toasts |-> {}]
  BY <1>1, <1>2, <1>3, <1>4, <1>5, <1>6 DEF Fresh
<1>8. Whole(f)
  BY <1>7 DEF Whole
<1>9. Begins(f) /\ f.stash = None
  BY <1>4, <1>7, <1>8 DEF Begins
<1> QED
  BY <1>6, <1>9

\* and has, with whatever tokens are stored, what SetUp asks for:
LEMMA BeginsIsSetUp ==
    ASSUME NEW p, Begins(p), p.remember \in Someone, p.session \in Someone, p.stash \in Someone
    PROVE  SetUp(p)
<1>1. LoadOK(Uncovered) /\ ScriptRan(Uncovered)
  BY DEF LoadOK, ScriptRan, Uncovered, Files
<1>2. Flags(p) /\ Blank(p)
  BY DEF Begins, Flags, Blank
<1> QED
  BY <1>1, <1>2 DEF Begins, SetUp, Someone

\* so does the page that is loaded again, with what the browser has kept.
LEMMA StoredIsSetUp ==
    ASSUME NEW p, Types(p), NEW q, q = Stored(p)
    PROVE  SetUp(q) /\ q.remember = p.remember /\ q.session = p.session
<1>1. PICK a : a = Navigated(p.app)
  OBVIOUS
<1>2. PICK f : f = Fresh
  OBVIOUS
<1>3. q = [f EXCEPT !.remember = p.remember, !.session = p.session, !.stash = p.stash,
                    !.reloads = p.reloads, !.bg = FALSE, !.app = a]
  BY <1>1, <1>2 DEF Stored
<1>4. Begins(f)
  BY <1>2, FreshBegins
<1>5. Begins(q) /\ q.remember = p.remember /\ q.session = p.session /\ q.stash = p.stash
  BY <1>3, <1>4 DEF Begins, Whole
<1> QED
  BY <1>5, BeginsIsSetUp DEF Types

\* The page is loaded again.
LEMMA LoadAgainStep ==
    ASSUME Inv, ~old, ~s.sr, NEW p, p = s \/ p = [s EXCEPT !.reloads = 0], LoadAgain(p),
           srv' = [srv EXCEPT !.mail = <<>>], UNCHANGED <<case, old>>
    PROVE  Inv'
<1>1. Fine(s, srv, old) /\ Types(s) /\ Room(s, srv) /\ case \in Cases
  BY DEF Inv, Fine
<1>2. Types(p) /\ p.remember = s.remember /\ p.session = s.session
  BY <1>1 DEF Types, Whole, Flags
<1>3. PICK h : h = Stored(p)
  OBVIOUS
<1>4. SetUp(h) /\ h.remember = s.remember /\ h.session = s.session
  BY <1>2, <1>3, StoredIsSetUp
<1>5. Kinds(h, srv)
  BY <1>1, <1>4 DEF Fine, Kinds
<1>6. PICK q : q = Begin(h, None)
  OBVIOUS
<1>7. s' = q
  BY <1>3, <1>6 DEF LoadAgain
<1>8. None \in Someone
  BY DEF Someone
<1>9. /\ Fine(q, srv, FALSE) /\ q.st \notin {"in", "closing"} /\ ~q.sr /\ ~q.ss
      /\ q.remember = h.remember /\ q.out = <<>>
  BY <1>4, <1>5, <1>6, <1>8, BeginIsFine
<1>10. Room(q, srv') /\ Grown(srv, srv')
  BY <1>1, <1>4, <1>9, RoomEnds DEF Keeps
<1>11. Fine(q, srv, old')
  <2>1. old' = FALSE
    BY DEF Inv
  <2> QED
    BY <1>9, <2>1
<1>12. Fine(q, srv', old')
  BY <1>1, <1>10, <1>11, FineStays DEF Room
<1>13. old' \in BOOLEAN
  BY DEF Inv
<1> QED
  BY <1>1, <1>7, <1>9, <1>10, <1>12, <1>13, InvNext

\* The user loads the page again,
LEMMA ReloadStep ==
    ASSUME Inv, Reload PROVE Inv'
<1>1. /\ ~old /\ ~s.sr /\ s' = Begin(Stored(s), None) /\ srv' = [srv EXCEPT !.mail = <<>>]
      /\ UNCHANGED <<case, old>>
  BY DEF Reload, Unanswered
<1> QED
  BY <1>1, LoadAgainStep DEF LoadAgain

\* While it is covered, nothing is open and nothing waited for.
LEMMA CoveredIsQuiet ==
    ASSUME Inv, s.load.phase # "shown" PROVE ~old /\ ~s.sr
  BY DEF Inv, Fine, Cover, Covered

\* or the guard does, by itself
LEMMA ReloadsStep ==
    ASSUME Inv, Reloads, srv' = [srv EXCEPT !.mail = <<>>], UNCHANGED <<case, old>> PROVE Inv'
<1>1. s.load.phase # "shown" /\ LoadAgain(s)
  BY DEF Reloads
<1> QED
  BY <1>1, CoveredIsQuiet, LoadAgainStep

\* or on its button.
LEMMA ReloadButtonStep ==
    ASSUME Inv, ReloadButton PROVE Inv'
<1>1. PICK p : p = [s EXCEPT !.reloads = 0]
  OBVIOUS
<1>2. /\ s.load.phase # "shown" /\ LoadAgain(p) /\ srv' = [srv EXCEPT !.mail = <<>>]
      /\ UNCHANGED <<case, old>>
  BY <1>1 DEF ReloadButton
<1> QED
  BY <1>1, <1>2, CoveredIsQuiet, LoadAgainStep

\* The guard goes on, with the script run or not as before.
LEMMA LoadChanges ==
    ASSUME Inv, UNCHANGED <<srv, case, old>>, NEW l, LoadOK(l), ScriptRan(l) <=> ScriptRan(s.load),
           Covered(l) => Covered(s.load),
           NEW n, s' = [s EXCEPT !.load = l] \/ s' = [s EXCEPT !.load = l, !.reloads = n]
    PROVE  Inv'
<1>1. Fine(s, srv, old) /\ Room(s, srv) /\ Whole(s) /\ s.out = <<>> /\ old \in BOOLEAN /\ case \in Cases
  BY DEF Inv, Fine, Types
<1>2. PICK q : q = s'
  OBVIOUS
<1>3. /\ Whole(q) /\ SameTokens(s, q) /\ SameLogin(s, q) /\ SameCall(s, q) /\ SameCard(s, q)
      /\ q.st = s.st /\ q.cred = s.cred /\ q.adm = s.adm /\ q.load = l /\ q.out = <<>>
  BY <1>1, <1>2 DEF Whole, SameTokens, SameLogin, SameCall, SameCard
<1> USE DEF SameTokens, SameLogin, SameCall, SameCard
<1>4. Fine(q, srv, old)
  <2>1. Types(q)
    <3>1. q.want \in BOOLEAN /\ q.rec \in BOOLEAN /\ q.timer \in BOOLEAN
      BY <1>1, <1>3 DEF Fine, Types, Flags, Someone
    <3>2. q.card \in BOOLEAN /\ q.rejoin \in BOOLEAN
      BY <1>1, <1>3 DEF Fine, Types, Flags, Someone
    <3>3. q.usingR \in BOOLEAN /\ q.sr \in BOOLEAN /\ q.ss \in BOOLEAN
      BY <1>1, <1>3 DEF Fine, Types, Flags, Someone
    <3>4. Flags(q)
      BY <3>1, <3>2, <3>3 DEF Flags
    <3> QED
      BY <3>4, <1>1, <1>3 DEF Fine, Types, Someone
  <2>2. Course(q, old)
    BY <1>1, <1>3 DEF Fine, Course, Types, Flags
  <2>3. Cover(q, old)
    BY <1>1, <1>3 DEF Fine, Cover, Blank, LoadOK, Covered, ScriptRan, Course
  <2>4. Using(q)
    BY <1>1, <1>3 DEF Fine, Using, Course, Cover, Blank
  <2>5. Kinds(q, srv)
    BY <1>1, <1>3 DEF Fine, Kinds
  <2>6. Replaces(q, srv)
    BY <1>1, <1>3 DEF Fine, Replaces, Course
  <2>7. Ticked(q, srv)
    BY <1>1, <1>3 DEF Fine, Ticked, Course
  <2>8. Hub(q, srv)
    BY <1>1, <1>3 DEF Fine, Hub
  <2> QED
    BY <2>1, <2>2, <2>3, <2>4, <2>5, <2>6, <2>7, <2>8 DEF Fine
<1>5. Room(q, srv)
  BY <1>1, <1>3, RoomKeeps DEF SameWaits, Keeps
<1> QED
  BY <1>1, <1>2, <1>3, <1>4, <1>5, InvNext

\* step() shows a page only when its script has run.
LEMMA StepDoes ==
    ASSUME NEW l, LoadOK(l), NEW n, NEW storage, NEW a, a = Step(l, n, storage)
    PROVE  LoadOK(a.load) /\ (ScriptRan(a.load) <=> ScriptRan(l)) /\ (Covered(a.load) => Covered(l))
<1>1. PICK r : r = GetReloads(n, storage)
  OBVIOUS
<1>2. PICK d : d = Decide(l, r)
  OBVIOUS
<1>3. d = "show" => Ready(l)
  BY <1>2 DEF Decide
<1>4. CASE l.phase # "loading"
  BY <1>4 DEF Step
<1>5. CASE l.phase = "loading"
  <2>1. Covered(l)
    BY <1>5 DEF Covered
  <2>2. CASE d = "show"
    <3>1. a.load = [l EXCEPT !.phase = "shown"]
      BY <1>1, <1>2, <1>5, <2>2 DEF Step
    <3>2. ScriptRan(l)
      BY <1>3, <2>2 DEF Ready, ScriptRan
    <3> QED
      BY <2>1, <3>1, <3>2 DEF LoadOK, ScriptRan, Covered
  <2>3. ASSUME NEW k, NEW note, a.load = [l EXCEPT !.phase = k, !.note = note], k # "shown"
        PROVE  LoadOK(a.load) /\ (ScriptRan(a.load) <=> ScriptRan(l)) /\ (Covered(a.load) => Covered(l))
    BY <2>1, <2>3 DEF LoadOK, ScriptRan, Covered
  <2>4. CASE d = "reload"
    <3>1. a.load = [l EXCEPT !.phase = "reloading", !.note = "retrying"]
      BY <1>1, <1>2, <1>5, <2>4 DEF Step
    <3> QED
      BY <2>3, <3>1
  <2>5. CASE d = "fail"
    <3>1. a.load = [l EXCEPT !.phase = "failed", !.note = "button"]
      BY <1>1, <1>2, <1>5, <2>5 DEF Step
    <3> QED
      BY <2>3, <3>1
  <2>6. CASE d \notin {"show", "reload", "fail"}
    <3>1. PICK note : note = CASE l.time = 2 -> "button" [] l.time = 1 -> "slow" [] OTHER -> l.note
      OBVIOUS
    <3>2. a.load = [l EXCEPT !.note = note]
      BY <1>1, <1>2, <1>5, <2>6, <3>1 DEF Step
    <3> QED
      BY <2>1, <3>2 DEF LoadOK, ScriptRan, Covered
  <2> QED
    BY <2>2, <2>4, <2>5, <2>6
<1> QED
  BY <1>4, <1>5

\* The guard takes one of its steps.
LEMMA GuardedStep ==
    ASSUME Inv, UNCHANGED <<srv, case, old>>, NEW l, LoadOK(l), ScriptRan(l) <=> ScriptRan(s.load),
           Covered(l) => Covered(s.load), Guarded(l)
    PROVE  Inv'
<1>1. PICK a : a = Step(l, s.reloads, case.storage)
  OBVIOUS
<1>2. PICK k : k = a.load
  OBVIOUS
<1>3. PICK n : n = a.reloads
  OBVIOUS
<1>4. s' = [s EXCEPT !.load = k, !.reloads = n]
  BY <1>1, <1>2, <1>3 DEF Guarded
<1>5. LoadOK(k) /\ (ScriptRan(k) <=> ScriptRan(l)) /\ (Covered(k) => Covered(l))
  BY <1>1, <1>2, StepDoes
<1> QED
  BY <1>4, <1>5, LoadChanges

\* The window's "load" event, the timer of the guard, and its reload.
LEMMA GuardActs ==
    ASSUME Inv, Guard PROVE Inv'
<1>1. LoadOK(s.load)
  BY DEF Inv, Fine, Cover
<1>2. CASE WindowLoads /\ UNCHANGED <<srv, case, old, used>>
  <2>1. PICK l : l = [s.load EXCEPT !.loaded = TRUE]
    OBVIOUS
  <2>2. Guarded(l)
    BY <1>2, <2>1 DEF WindowLoads
  <2>3. LoadOK(l) /\ (ScriptRan(l) <=> ScriptRan(s.load)) /\ (Covered(l) => Covered(s.load))
    BY <1>1, <2>1 DEF LoadOK, ScriptRan, Covered
  <2> QED
    BY <1>2, <2>2, <2>3, GuardedStep
<1>3. CASE GuardStep /\ UNCHANGED <<srv, case, old, used>>
  <2>1. PICK t : Guarded([s.load EXCEPT !.time = t])
    BY <1>3 DEF GuardStep
  <2>2. PICK l : l = [s.load EXCEPT !.time = t]
    OBVIOUS
  <2>3. Guarded(l)
    BY <2>1, <2>2
  <2>4. LoadOK(l) /\ (ScriptRan(l) <=> ScriptRan(s.load)) /\ (Covered(l) => Covered(s.load))
    BY <1>1, <2>2 DEF LoadOK, ScriptRan, Covered
  <2> QED
    BY <1>3, <2>3, <2>4, GuardedStep
<1>4. CASE Reloads /\ srv' = [srv EXCEPT !.mail = <<>>] /\ UNCHANGED <<case, old, used>>
  BY <1>4, ReloadsStep
<1> QED
  BY <1>2, <1>3, <1>4 DEF Guard

\* A file of the page has arrived, or has not: with its script, the page begins.
LEMMA FileArrivesStep ==
    ASSUME Inv, NEW f \in Files, NEW ok \in BOOLEAN, FileArrives(f, ok) PROVE Inv'
<1>1. /\ Fine(s, srv, old) /\ Types(s) /\ Whole(s) /\ Room(s, srv) /\ LoadOK(s.load)
      /\ s.out = <<>> /\ case \in Cases /\ old \in BOOLEAN
  BY DEF Inv, Fine, Types, Cover
<1>2. PICK how \in {"ok", "bad"} : how = IF ok THEN "ok" ELSE "bad"
  OBVIOUS
<1>3. PICK l : l = [s.load EXCEPT !.file[f] = how]
  OBVIOUS
<1>4. PICK p : p = [s EXCEPT !.load = l]
  OBVIOUS
<1>5. /\ s.load.file[f] = "" /\ UNCHANGED <<srv, case, old>>
      /\ s' = IF f = "app" /\ ok THEN Started([p EXCEPT !.st = "none"], None) ELSE p
  BY <1>2, <1>3, <1>4 DEF FileArrives
<1>6. /\ "file" \in DOMAIN l /\ "phase" \in DOMAIN l /\ DOMAIN l.file = Files
      /\ l.phase = s.load.phase /\ l.file[f] = how
      /\ \A e \in Files : e # f => l.file[e] = s.load.file[e]
  BY <1>1, <1>3 DEF LoadOK
<1>7. "app" \in Files
  BY DEF Files
<1>8. CASE ~(f = "app" /\ ok)
  <2>1. s' = [s EXCEPT !.load = l]
    BY <1>4, <1>5, <1>8
  <2>2. ScriptRan(l) <=> ScriptRan(s.load)
    BY <1>2, <1>5, <1>6, <1>7, <1>8 DEF ScriptRan
  <2>3. LoadOK(l) /\ (Covered(l) => Covered(s.load))
    BY <1>1, <1>6, <2>2 DEF LoadOK, Covered
  <2> QED
    BY <1>5, <2>1, <2>2, <2>3, LoadChanges
<1>9. CASE f = "app" /\ ok
  <2>1. PICK h : h = [p EXCEPT !.st = "none"]
    OBVIOUS
  <2>2. PICK q : q = Started(h, None)
    OBVIOUS
  <2>3. s' = q
    BY <1>5, <1>9, <2>1, <2>2
  <2>4. ScriptRan(l) /\ LoadOK(l)
    BY <1>2, <1>6, <1>9 DEF ScriptRan, LoadOK
  <2>5. ~ScriptRan(s.load) /\ s.st = "blank" /\ Blank(s) /\ Covered(s.load) /\ ~old /\ ~s.sr
    BY <1>1, <1>5, <1>9 DEF ScriptRan, Fine, Cover, LoadOK
  <2>6. ~s.ss /\ ~s.timer
    BY <1>1, <2>5 DEF Fine, Course
  <2>7. /\ Whole(h) /\ SameTokens(s, h) /\ SameLogin(s, h) /\ SameCall(s, h) /\ SameCard(s, h)
        /\ h.st = "none" /\ h.cred = s.cred /\ h.load = l /\ h.out = <<>>
    BY <1>1, <1>4, <2>1 DEF Whole, SameTokens, SameLogin, SameCall, SameCard
  <2>8. Flags(h)
    BY <1>1, <2>7 DEF Types, Flags, SameTokens, SameLogin, SameCall, SameCard
  <2>9. Blank(h)
    BY <2>5, <2>7 DEF Blank, SameTokens, SameLogin, SameCall, SameCard
  <2>10. SetUp(h) /\ h.remember = s.remember /\ h.session = s.session
    BY <1>1, <2>4, <2>5, <2>6, <2>7, <2>8, <2>9 DEF SetUp, Types, SameTokens, SameCall
  <2>11. Kinds(h, srv)
    BY <1>1, <2>10 DEF Fine, Kinds
  <2>12. None \in Someone
    BY DEF Someone
  <2>13. /\ Fine(q, srv, FALSE) /\ q.st \in {"opening", "none"} /\ ~q.sr /\ ~q.ss
         /\ q.remember = h.remember /\ q.out = <<>>
    BY <2>2, <2>10, <2>11, <2>12, StartedIsFine
  <2>14. srv.mail = <<>>
    BY <1>1, <2>5 DEF Room, Expects
  <2>15. Expects(q, srv)
    BY <2>13, <2>14, Silence DEF Expects, Has
  <2>16. Room(q, srv)
    BY <1>1, <2>10, <2>13, <2>15 DEF Room, Known
  <2>17. old' = FALSE
    BY <1>1, <1>5, <2>5
  <2>18. Fine(q, srv, old')
    BY <2>13, <2>17
  <2> QED
    BY <1>1, <1>5, <2>3, <2>13, <2>16, <2>17, <2>18, InvNext
<1> QED
  BY <1>8, <1>9

\* As the page is opened.
LEMMA InitInv ==
    ASSUME Init PROVE Inv
<1>1. case \in Cases /\ CaseOK(case)
  BY PageAssumption DEF Init
<1>2. PICK V : V = {t \in Tok : case.kinds[t] # ""}
  OBVIOUS
<1>3. PICK k : k = [r \in Rooms |-> {}]
  OBVIOUS
<1>4. srv = [valid |-> V, lapsed |-> {}, kind |-> case.kinds,
             knocker |-> FALSE, mail |-> <<>>, away |-> 0, others |-> {}, hist |-> 0, queue |-> k]
  BY <1>2, <1>3 DEF Init
<1>5. /\ Record(srv) /\ srv.valid = V /\ srv.lapsed = {} /\ srv.kind = case.kinds
      /\ srv.mail = <<>>
  BY <1>4 DEF Record
<1>6. Server(srv)
  BY <1>1, <1>2, <1>5 DEF Server, CaseOK
<1>7. MailOK(srv)
  BY <1>5, Silence DEF MailOK
<1>8. PICK remember \in Someone : remember = case.remember
  BY <1>1 DEF CaseOK, Someone
<1>9. PICK session \in Someone : session = case.session
  BY <1>1 DEF CaseOK, Someone
<1>10. PICK link \in Someone : link = case.link
  BY <1>1 DEF CaseOK, Someone
<1>11. PICK p : p = [Fresh EXCEPT !.remember = remember, !.session = session]
  OBVIOUS
<1>12. s = Begin(p, link) /\ old = FALSE
  BY <1>8, <1>9, <1>10, <1>11 DEF Init
<1>13. None \in Someone
  BY DEF Someone
<1>14. SetUp(p) /\ p.remember = remember /\ p.session = session
  <2>1. PICK f : f = Fresh
    OBVIOUS
  <2>2. p = [f EXCEPT !.remember = remember, !.session = session]
    BY <1>11, <2>1
  <2>3. Begins(f) /\ f.stash = None
    BY <2>1, FreshBegins
  <2>4. Begins(p) /\ p.remember = remember /\ p.session = session /\ p.stash = None
    BY <2>2, <2>3 DEF Begins, Whole
  <2> QED
    BY <1>13, <2>4, BeginsIsSetUp
<1>15. Kinds(p, srv)
  BY <1>1, <1>5, <1>8, <1>9, <1>14, NoToken DEF Kinds, KindIn, CaseOK, Someone
<1>16. /\ Fine(s, srv, FALSE) /\ s.st \notin {"in", "closing"} /\ ~s.sr /\ ~s.ss
       /\ s.remember = p.remember /\ s.out = <<>>
  BY <1>12, <1>14, <1>15, BeginIsFine
<1>17. Expects(s, srv)
  BY <1>5, <1>16, Silence DEF Expects, Has
<1>18. Known(s, srv)
  BY <1>1, <1>2, <1>5, <1>8, <1>14, <1>16 DEF Known, KindIn, CaseOK
<1>19. Fine(s, srv, old) /\ old \in BOOLEAN
  BY <1>12, <1>16
<1> QED
  BY <1>1, <1>6, <1>7, <1>16, <1>17, <1>18, <1>19 DEF Inv, Room

\* Whatever happens leaves the invariant true.
LEMMA NextInv ==
    ASSUME Inv, Races = {}, Next PROVE Inv'
<1>1. CASE Progress
  <2>1. CASE \E v \in {"join", "knock", "full", "refused", "need-username", "redirect"} : Answer(v)
    BY <2>1, AnswerStep
  <2>2. CASE \E edited, tick \in BOOLEAN : Opened(edited, tick)
    BY <2>2, OpenedStep
  <2>3. CASE Closed \/ OldClosed \/ TimerFires
    BY <2>3, ClosedStep, OldClosedStep, TimerFiresStep
  <2>4. CASE GotMail \/ Guard
    BY <2>4, MailStep, GuardActs
  <2>5. CASE AppHears \/ PageHears
    BY <2>5, AroundStep, PageHearsStep
  <2> QED
    BY <1>1, <2>1, <2>2, <2>3, <2>4, <2>5 DEF Progress
<1>2. CASE Lose \/ Admit \/ Deny
  BY <1>2, LoseStep, AdmitStep, DenyStep
<1>3. CASE \E present \in BOOLEAN : Submit(present) \/ Rejoin(present)
  BY <1>3, SubmitStep, RejoinStep
<1>4. CASE RejoinOther \/ OperatorLogin \/ HangUp \/ Logout
  BY <1>4, RejoinOtherStep, OperatorLoginStep, HangUpStep, LogoutStep
<1>5. CASE Camera \/ CreateLink \/ AdmitKnocker \/ Reload
  BY <1>5, CameraStep, CreateLinkStep, AdmitKnockerStep, ReloadStep
<1>6. CASE Knocks \/ Soon
  BY <1>6, KnocksStep, SoonStep
<1>7. CASE \E t \in Tok : Expire(t) \/ RevokeElsewhere(t)
  BY <1>7, ExpireStep
<1>8. CASE \E f \in Files, ok \in BOOLEAN : FileArrives(f, ok)
  BY <1>8, FileArrivesStep
<1>9. CASE ReloadButton \/ Hide \/ Show
  BY <1>9, ReloadButtonStep, HideStep, ShowStep
<1>10. CASE Says \/ PollOperatorRoom \/ JoinRoom
  BY <1>10, SaysStep, PollStep, JoinRoomStep
<1>11. CASE GraceOver \/ AloneExpires \/ Look
  BY <1>11, AroundStep
<1>12. CASE \E key \in Rooms \cup {Row} : Answers(key) \/ Closes(key)
  BY <1>12, AroundStep
<1>13. CASE \E r \in Rooms, n \in Names : Queues(r, n)
  BY <1>13, QueuesStep
<1>14. CASE \E u \in Others : SomebodyComes(u) \/ SomebodyLeaves(u)
  BY <1>14, SomebodyComesStep, SomebodyLeavesStep
<1> QED
  BY <1>1, <1>2, <1>3, <1>4, <1>5, <1>6, <1>7, <1>8, <1>9, <1>10, <1>11, <1>12, <1>13,
     <1>14 DEF Next

\* When nothing happens, nothing changes.
LEMMA StillInv ==
    ASSUME Inv, UNCHANGED vars PROVE Inv'
<1>1. case \in Cases /\ s.out = <<>> /\ old \in BOOLEAN /\ Fine(s, srv, old) /\ Room(s, srv)
  BY DEF Inv
<1>2. UNCHANGED <<case, s, old, srv>>
  BY DEF vars
<1> QED
  BY <1>1, <1>2, InvNext

\* What it says of the tokens that are stored, and of those that are to come.
LEMMA InvTokens ==
    ASSUME Inv PROVE TokensTrue
<1>1. Kinds(s, srv) /\ Known(s, srv) /\ Expects(s, srv)
  BY DEF Inv, Fine, Room
<1>2. \A t : Kind(t) = KindIn(srv, t)
  BY DEF Kind, KindIn
<1>3. TokensAccountedFor
  <2>1. ASSUME NEW t \in srv.valid, Kind(t) = "remember"
        PROVE  t \in {s.remember, s.prev} \/ \E i \in DOMAIN srv.mail : srv.mail[i].t = t
    <3>1. t = s.remember \/ \E m \in Items(srv.mail) : m.re = "remember" /\ m.t = t
      BY <1>1, <1>2, <2>1 DEF Known
    <3> QED
      BY <3>1 DEF Items
  <2>2. /\ s.remember # None => Kind(s.remember) = "remember"
        /\ s.session # None => Kind(s.session) = "session"
    BY <1>1, <1>2 DEF Kinds
  <2> QED
    BY <2>1, <2>2 DEF TokensAccountedFor
<1>4. AnswersMatch
  <2>1. \A re : Has(srv.mail, re) <=> \E i \in DOMAIN srv.mail : srv.mail[i].re = re
    BY DEF Has, Items
  <2>2. s.sr <=> \E i \in DOMAIN srv.mail : srv.mail[i].re = "remember"
    BY <1>1, <2>1 DEF Expects
  <2>3. s.ss <=> \E i \in DOMAIN srv.mail : srv.mail[i].re = "session"
    BY <1>1, <2>1 DEF Expects
  <2>4. s.st = "in" =>
            s.silent = Cardinality({i \in DOMAIN srv.mail : srv.mail[i].re = "list"})
    BY <1>1 DEF Expects, Lists
  <2> QED
    BY <2>2, <2>3, <2>4 DEF AnswersMatch
<1> QED
  BY <1>3, <1>4 DEF TokensTrue

\* None of the races is let happen: then the page never takes the answer to one
\* request for that to another, stores no token for what it is not, and no token
\* that remembers a device is alive that neither the page has nor the server is
\* about to hand it.
THEOREM TokensKept == ASSUME Races = {} PROVE Spec => []TokensTrue
<1>1. Init => Inv
  BY InitInv
<1>2. Inv /\ [Next]_vars => Inv'
  BY NextInv, StillInv
<1>3. Inv => TokensTrue
  BY InvTokens
<1> QED
  BY <1>1, <1>2, <1>3, PTL DEF Spec
=============================================================================
