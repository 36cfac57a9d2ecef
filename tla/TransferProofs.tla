--------------------------- MODULE TransferProofs ---------------------------
(***************************************************************************)
(* Proofs about Transfer: for any pages, files and sizes, files to oneself *)
(* included, and whoever cancels, leaves or is cut off when.               *)
(*                                                                         *)
(* OverIsOver is not inductive.  That the sender's "Done." means a whole   *)
(* file needs the chunks to be counted (Counted: what has been received    *)
(* and what is on its way has been sent), and that needs the two sides to  *)
(* be two pages: for a file that a page sends to itself, Selves says that  *)
(* no data channel ever opens, because its invitation is refused, or the   *)
(* cancel that follows it comes before an offer can.                       *)
(*                                                                         *)
(* That the states keep their order (InOrder) needs a second invariant,    *)
(* InTurn, of both sides of a transfer and of the invitation, the offer    *)
(* and the answer that are on their way between them: each goes one way    *)
(* and once, and comes when the page it comes to is where it begins a      *)
(* state, or has closed the transfer.                                      *)
(***************************************************************************)
EXTENDS Transfer, TLAPS

Runnings == {"none", "offer", "answer", "setting", "waiting"}

\* What a page has of a transfer.
Rec ==
    [state : States, up : BOOLEAN, pc : {"none", "new", "local", "stable"}, run : Runnings,
     dc : {"none", "new", "open"}, held : Nat, heard : BOOLEAN, unsent : BOOLEAN,
     datalen : Nat, end : {"none", "done", "cancelled"}]

About   == {"invite", "offer", "answer", "ice", "cancel"}
Message == [type : About, x : Files] \cup [type : {"delete"}, x : Pages]

\* The types.
Types ==
    /\ f \in [Pages -> [Files -> Rec]]
    /\ inbox \in [Pages -> Seq(Message)]
    /\ link \in [Files -> {"none", "up", "cut"}]
    /\ data \in [Files -> Nat] /\ ack \in [Files -> BOOLEAN]
    /\ known \in [Pages -> SUBSET Pages] /\ gone \subseteq Pages
    /\ saved \subseteq Files \X Nat

\* What may come to page p: something about a transfer of its own, or that
\* another page has left.
For(p, m) ==
    /\ m # Note(p)
    /\ m.type # "delete" => p \in {From[m.x], To[m.x]}

\* A page that has left hears nothing.
Posts ==
    \A p \in Pages :
        /\ p \in gone => inbox[p] = <<>>
        /\ \A k \in 1 .. Len(inbox[p]) : For(p, inbox[p][k])

\* What a transfer has, it has while it is alive.
Alive(r) == r.state \in {"connecting", "connected", "done"}

RecInv(r) ==
    /\ r.pc # "none" => Alive(r)
    /\ r.dc = "open" => Alive(r)
    /\ r.run = "offer" => Alive(r)
    /\ r.unsent => Alive(r)
    /\ r.datalen # 0 => r.dc = "open"

\* Only the two pages of a transfer have anything of it.
Records ==
    \A p \in Pages, x \in Files :
        /\ RecInv(f[p][x])
        /\ p \notin {From[x], To[x]} => f[p][x] = NoFile

\* The chunks of a file: what has been received and what is on its way has
\* been sent.
ChunkInv(s, r, d, l, n) ==
    /\ l = "none" => d = 0 /\ s.dc # "open" /\ r.dc # "open"
    /\ d + r.datalen <= n /\ s.datalen <= n
    /\ s.dc = "open" => d + r.datalen <= s.datalen

Counted ==
    \A x \in Files :
        ChunkInv(f[From[x]][x], f[To[x]][x], data[x], link[x], Size[x])

\* What is said to be done is saved, whole.
Savings ==
    /\ \A x \in Files :
          ack[x] \/ f[From[x]][x].end = "done" => <<x, Size[x]>> \in saved
    /\ \A s \in saved : s[2] = Size[s[1]]

\* A file that a page sends to itself: the page refuses its own invitation;
\* or it has cancelled before that comes, and then the cancel that follows
\* the invitation ends what the invitation begins, before an offer comes.
\* So nothing is ever answered.
Unanswered(r) ==
    /\ r.pc # "stable" /\ r.dc # "open" /\ r.run \in {"none", "offer"}
    /\ r.up => r.run # "offer"

Lacks(q, m) == \A k \in 1 .. Len(q) : q[k] # m

\* The messages of a transfer, in the inbox q of the page.
Possible(x, r, q) ==
    /\ r.state = "unset" => \A t \in About : Lacks(q, Msg(t, x))
    /\ Lacks(q, Msg("answer", x))
    /\ r.up => Lacks(q, Msg("offer", x))

\* The invitation comes before a cancel.
InviteFirst(x, r, q) ==
    \A j \in 1 .. Len(q) : q[j] = Msg("invite", x) =>
        /\ r.up
        /\ \A k \in 1 .. Len(q) : q[k] = Msg("invite", x) => k = j
        /\ \A k \in 1 .. Len(q) : q[k] = Msg("cancel", x) => k > j /\ r.state = "closed"
        /\ \/ r.state = "inviting"
           \/ r.state = "closed" /\ ~Lacks(q, Msg("cancel", x))

\* A cancel comes before an offer.
CancelFirst(x, q) ==
    \E j \in 1 .. Len(q) :
        /\ q[j] = Msg("cancel", x)
        /\ \A k \in 1 .. j - 1 : q[k] # Msg("offer", x)

SelfInv(x, r, q, g) ==
    /\ Unanswered(r) /\ Possible(x, r, q) /\ InviteFirst(x, r, q)
    /\ ~r.up /\ Listed(r) /\ ~g => CancelFirst(x, q)

Selves ==
    \A x \in Files : From[x] = To[x] =>
        SelfInv(x, f[From[x]][x], inbox[From[x]], From[x] \in gone) /\ link[x] = "none"

Inv == Types /\ Posts /\ Records /\ Counted /\ Savings /\ Selves

-----------------------------------------------------------------------------
(* Queues.                                                                 *)

\* A message is appended.
LEMMA AppendAt ==
    ASSUME NEW S, NEW q \in Seq(S), NEW m \in S, NEW r, r = Append(q, m)
    PROVE  /\ r \in Seq(S) /\ Len(q) \in Nat /\ Len(r) = Len(q) + 1
           /\ r[Len(q) + 1] = m
           /\ \A k \in 1 .. Len(q) : r[k] = q[k]
  OBVIOUS

\* The first message is taken.
LEMMA TailAt ==
    ASSUME NEW S, NEW q \in Seq(S), q # <<>>, NEW t, t = Tail(q)
    PROVE  /\ t \in Seq(S) /\ Len(q) \in Nat /\ Len(q) >= 1 /\ Len(t) = Len(q) - 1
           /\ Head(q) = q[1] /\ q[1] \in S
           /\ \A k \in 1 .. Len(t) : t[k] = q[k + 1]
  OBVIOUS

\* What an appended queue has.
LEMMA AppendHas ==
    ASSUME NEW S, NEW q \in Seq(S), NEW m \in S, NEW r, r = Append(q, m)
    PROVE  /\ Len(q) \in Nat
           /\ \A k \in 1 .. Len(r) : (k \in 1 .. Len(q) /\ r[k] = q[k]) \/ (k = Len(q) + 1 /\ r[k] = m)
           /\ \A k \in 1 .. Len(q) : k \in 1 .. Len(r) /\ r[k] = q[k]
<1>1. /\ Len(q) \in Nat /\ Len(r) = Len(q) + 1 /\ r[Len(q) + 1] = m
      /\ \A k \in 1 .. Len(q) : r[k] = q[k]
  BY AppendAt
<1>2. ASSUME NEW k \in 1 .. Len(r)
      PROVE  (k \in 1 .. Len(q) /\ r[k] = q[k]) \/ (k = Len(q) + 1 /\ r[k] = m)
  <2>1. k \in 1 .. Len(q) \/ k = Len(q) + 1
    BY <1>1
  <2> QED
    BY <1>1, <2>1
<1>3. ASSUME NEW k \in 1 .. Len(q)
      PROVE  k \in 1 .. Len(r) /\ r[k] = q[k]
  BY <1>1
<1> QED
  BY <1>1, <1>2, <1>3

\* What it lacks.
LEMMA AppendLacks ==
    ASSUME NEW S, NEW q \in Seq(S), NEW m \in S, NEW n
    PROVE  Lacks(Append(q, m), n) <=> Lacks(q, n) /\ n # m
<1>1. PICK r : r = Append(q, m)
  OBVIOUS
<1>2. /\ \A k \in 1 .. Len(r) : (k \in 1 .. Len(q) /\ r[k] = q[k]) \/ (k = Len(q) + 1 /\ r[k] = m)
      /\ \A k \in 1 .. Len(q) : k \in 1 .. Len(r) /\ r[k] = q[k]
  BY <1>1, AppendHas
<1>3. Len(q) + 1 \in 1 .. Len(r) /\ r[Len(q) + 1] = m
  BY <1>1, AppendAt
<1> QED
  BY <1>1, <1>2, <1>3 DEF Lacks

\* What is left in a queue.
LEMMA TailHas ==
    ASSUME NEW S, NEW q \in Seq(S), q # <<>>, NEW t, t = Tail(q)
    PROVE  /\ Len(q) \in Nat /\ Len(t) \in Nat
           /\ \A k \in 1 .. Len(t) : k + 1 \in 1 .. Len(q) /\ t[k] = q[k + 1]
           /\ \A k \in 1 .. Len(q) : k = 1 \/ (k - 1 \in 1 .. Len(t) /\ q[k] = t[k - 1])
           /\ 1 \in 1 .. Len(q)
<1>1. /\ Len(q) \in Nat /\ Len(q) >= 1 /\ Len(t) = Len(q) - 1
      /\ \A k \in 1 .. Len(t) : t[k] = q[k + 1]
  BY TailAt
<1>2. /\ \A k \in 1 .. Len(t) : k + 1 \in 1 .. Len(q) /\ t[k] = q[k + 1]
      /\ 1 \in 1 .. Len(q)
  BY <1>1
<1>3. ASSUME NEW k \in 1 .. Len(q), k # 1
      PROVE  k - 1 \in 1 .. Len(t) /\ q[k] = t[k - 1]
  <2>1. k - 1 \in 1 .. Len(t)
    BY <1>1, <1>3
  <2>2. t[k - 1] = q[(k - 1) + 1] /\ (k - 1) + 1 = k
    BY <1>1, <2>1
  <2> QED
    BY <2>1, <2>2
<1>4. Len(t) \in Nat
  BY <1>1
<1> QED
  BY <1>1, <1>2, <1>3, <1>4

\* What it lacks.
LEMMA TailLacks ==
    ASSUME NEW S, NEW q \in Seq(S), q # <<>>, NEW n
    PROVE  Lacks(q, n) <=> Lacks(Tail(q), n) /\ n # q[1]
<1>1. PICK t : t = Tail(q)
  OBVIOUS
<1>2. /\ \A k \in 1 .. Len(t) : k + 1 \in 1 .. Len(q) /\ t[k] = q[k + 1]
      /\ \A k \in 1 .. Len(q) : k = 1 \/ (k - 1 \in 1 .. Len(t) /\ q[k] = t[k - 1])
      /\ 1 \in 1 .. Len(q)
  BY <1>1, TailHas
<1> QED
  BY <1>1, <1>2 DEF Lacks

-----------------------------------------------------------------------------
(* Files that a page sends to itself.                                      *)

\* Something comes in that is not about the transfer, or an offer or a
\* candidate of it.
LEMMA SelfGrows ==
    ASSUME NEW x \in Files, NEW r, NEW g, NEW q \in Seq(Message), NEW m \in Message,
           SelfInv(x, r, q, g),
           m # Msg("invite", x), m # Msg("answer", x), m # Msg("cancel", x),
           m = Msg("offer", x) => ~r.up,
           r.state = "unset" => \A t \in About : m # Msg(t, x)
    PROVE  SelfInv(x, r, Append(q, m), g)
<1>1. PICK a : a = Append(q, m)
  OBVIOUS
<1>2. /\ \A k \in 1 .. Len(a) : (k \in 1 .. Len(q) /\ a[k] = q[k]) \/ (k = Len(q) + 1 /\ a[k] = m)
      /\ \A k \in 1 .. Len(q) : k \in 1 .. Len(a) /\ a[k] = q[k]
      /\ Len(q) \in Nat
  BY <1>1, AppendHas
<1>7. ASSUME NEW t \in About, m # Msg(t, x) PROVE Lacks(q, Msg(t, x)) <=> Lacks(a, Msg(t, x))
  BY <1>1, <1>7, AppendLacks
<1>4. Possible(x, r, a)
  <2>1. Possible(x, r, q) /\ {"answer", "offer"} \subseteq About
    BY DEF SelfInv, About
  <2>2. Lacks(a, Msg("answer", x))
    BY <1>7, <2>1 DEF Possible
  <2>3. r.up => Lacks(a, Msg("offer", x))
    BY <1>7, <2>1 DEF Possible
  <2>4. ASSUME r.state = "unset", NEW b \in About PROVE Lacks(a, Msg(b, x))
    BY <1>7, <2>1, <2>4 DEF Possible
  <2> QED
    BY <2>2, <2>3, <2>4 DEF Possible
<1>5. InviteFirst(x, r, a)
  <2>1. InviteFirst(x, r, q)
    BY DEF SelfInv
  <2>2. SUFFICES ASSUME NEW j \in 1 .. Len(a), a[j] = Msg("invite", x)
                 PROVE  /\ r.up
                        /\ \A k \in 1 .. Len(a) : a[k] = Msg("invite", x) => k = j
                        /\ \A k \in 1 .. Len(a) : a[k] = Msg("cancel", x) => k > j /\ r.state = "closed"
                        /\ \/ r.state = "inviting"
                           \/ r.state = "closed" /\ ~Lacks(a, Msg("cancel", x))
    BY DEF InviteFirst
  <2>3. j \in 1 .. Len(q) /\ q[j] = Msg("invite", x)
    BY <1>2, <2>2
  <2>4. /\ r.up
        /\ \A k \in 1 .. Len(q) : q[k] = Msg("invite", x) => k = j
        /\ \A k \in 1 .. Len(q) : q[k] = Msg("cancel", x) => k > j /\ r.state = "closed"
        /\ \/ r.state = "inviting"
           \/ r.state = "closed" /\ ~Lacks(q, Msg("cancel", x))
    BY <2>1, <2>3 DEF InviteFirst
  <2>5. Lacks(q, Msg("cancel", x)) <=> Lacks(a, Msg("cancel", x))
    BY <1>7 DEF About
  <2> QED
    BY <1>2, <2>4, <2>5
<1>6. CancelFirst(x, q) => CancelFirst(x, a)
  <2>1. SUFFICES ASSUME NEW j \in 1 .. Len(q), q[j] = Msg("cancel", x),
                        \A k \in 1 .. j - 1 : q[k] # Msg("offer", x)
                 PROVE  CancelFirst(x, a)
    BY DEF CancelFirst
  <2>2. j \in 1 .. Len(a) /\ a[j] = Msg("cancel", x)
    BY <1>2, <2>1
  <2>3. \A k \in 1 .. j - 1 : k \in 1 .. Len(q)
    BY <1>2
  <2> QED
    BY <1>2, <2>1, <2>2, <2>3 DEF CancelFirst
<1> QED
  BY <1>1, <1>4, <1>5, <1>6 DEF SelfInv

\* The first message is taken; it is neither an invitation nor a cancel.
LEMMA SelfShrinks ==
    ASSUME NEW x \in Files, NEW r, NEW g, NEW q \in Seq(Message), q # <<>>,
           SelfInv(x, r, q, g), Head(q) # Msg("invite", x), Head(q) # Msg("cancel", x)
    PROVE  SelfInv(x, r, Tail(q), g)
<1>1. PICK t : t = Tail(q)
  OBVIOUS
<1>2. /\ \A k \in 1 .. Len(t) : k + 1 \in 1 .. Len(q) /\ t[k] = q[k + 1]
      /\ \A k \in 1 .. Len(q) : k = 1 \/ (k - 1 \in 1 .. Len(t) /\ q[k] = t[k - 1])
      /\ 1 \in 1 .. Len(q)
  BY <1>1, TailHas
<1>3. Len(q) \in Nat /\ Len(t) \in Nat /\ q[1] # Msg("invite", x) /\ q[1] # Msg("cancel", x)
  BY <1>1, TailAt
<1>7. ASSUME NEW b \in About PROVE Lacks(q, Msg(b, x)) => Lacks(t, Msg(b, x))
  BY <1>1, TailLacks
<1>4. Possible(x, r, t)
  <2>1. Possible(x, r, q) /\ {"answer", "offer"} \subseteq About
    BY DEF SelfInv, About
  <2>2. Lacks(t, Msg("answer", x))
    BY <1>7, <2>1 DEF Possible
  <2>3. r.up => Lacks(t, Msg("offer", x))
    BY <1>7, <2>1 DEF Possible
  <2>4. ASSUME r.state = "unset", NEW b \in About PROVE Lacks(t, Msg(b, x))
    BY <1>7, <2>1, <2>4 DEF Possible
  <2> QED
    BY <2>2, <2>3, <2>4 DEF Possible
<1>8. Lacks(q, Msg("cancel", x)) <=> Lacks(t, Msg("cancel", x))
  BY <1>1, <1>3, TailLacks
<1>5. InviteFirst(x, r, t)
  <2>1. InviteFirst(x, r, q)
    BY DEF SelfInv
  <2>2. SUFFICES ASSUME NEW j \in 1 .. Len(t), t[j] = Msg("invite", x)
                 PROVE  /\ r.up
                        /\ \A k \in 1 .. Len(t) : t[k] = Msg("invite", x) => k = j
                        /\ \A k \in 1 .. Len(t) : t[k] = Msg("cancel", x) => k > j /\ r.state = "closed"
                        /\ \/ r.state = "inviting"
                           \/ r.state = "closed" /\ ~Lacks(t, Msg("cancel", x))
    BY DEF InviteFirst
  <2>3. j + 1 \in 1 .. Len(q) /\ q[j + 1] = Msg("invite", x)
    BY <1>2, <2>2
  <2>4. /\ r.up
        /\ \A k \in 1 .. Len(q) : q[k] = Msg("invite", x) => k = j + 1
        /\ \A k \in 1 .. Len(q) : q[k] = Msg("cancel", x) => k > j + 1 /\ r.state = "closed"
        /\ \/ r.state = "inviting"
           \/ r.state = "closed" /\ ~Lacks(q, Msg("cancel", x))
    BY <2>1, <2>3 DEF InviteFirst
  <2>5. ASSUME NEW k \in 1 .. Len(t), t[k] = Msg("invite", x) PROVE k = j
    <3>1. k + 1 = j + 1
      BY <1>2, <2>4, <2>5
    <3> QED
      BY <3>1
  <2>6. ASSUME NEW k \in 1 .. Len(t), t[k] = Msg("cancel", x) PROVE k > j /\ r.state = "closed"
    <3>1. k + 1 > j + 1 /\ r.state = "closed"
      BY <1>2, <2>4, <2>6
    <3> QED
      BY <3>1
  <2> QED
    BY <1>8, <2>4, <2>5, <2>6
<1>6. CancelFirst(x, q) => CancelFirst(x, t)
  <2>1. SUFFICES ASSUME NEW j \in 1 .. Len(q), q[j] = Msg("cancel", x),
                        \A k \in 1 .. j - 1 : q[k] # Msg("offer", x)
                 PROVE  CancelFirst(x, t)
    BY DEF CancelFirst
  <2>2. j - 1 \in 1 .. Len(t) /\ t[j - 1] = Msg("cancel", x)
    BY <1>2, <1>3, <2>1
  <2>3. ASSUME NEW k \in 1 .. (j - 1) - 1 PROVE t[k] # Msg("offer", x)
    <3>1. k \in 1 .. Len(t) /\ k + 1 \in 1 .. j - 1
      BY <1>3, <2>2
    <3> QED
      BY <1>2, <2>1, <3>1
  <2> QED
    BY <2>2, <2>3 DEF CancelFirst
<1> QED
  BY <1>1, <1>4, <1>5, <1>6 DEF SelfInv

\* The page's record of the transfer changes.
LEMMA SelfChanges ==
    ASSUME NEW x, NEW r, NEW z, NEW g, NEW q, SelfInv(x, r, q, g),
           Unanswered(z), z.up = r.up, r.state # "unset", z.state # "unset",
           z.state = r.state \/ Lacks(q, Msg("invite", x)),
           Listed(z) => Listed(r)
    PROVE  SelfInv(x, z, q, g)
<1>1. Possible(x, z, q)
  BY DEF SelfInv, Possible
<1>2. InviteFirst(x, z, q)
  BY DEF SelfInv, InviteFirst, Lacks
<1> QED
  BY <1>1, <1>2 DEF SelfInv

\* The page invites itself.
LEMMA SelfInvites ==
    ASSUME NEW x \in Files, NEW r, NEW z, NEW g, NEW q \in Seq(Message),
           SelfInv(x, r, q, g), r.state = "unset",
           Unanswered(z), z.up = TRUE, z.state = "inviting"
    PROVE  SelfInv(x, z, Append(q, Msg("invite", x)), g)
<1>1. PICK a : a = Append(q, Msg("invite", x))
  OBVIOUS
<1>2. Msg("invite", x) \in Message /\ {"invite", "answer", "offer", "cancel"} \subseteq About
  BY DEF Message, Msg, About
<1>3. /\ \A k \in 1 .. Len(a) : (k \in 1 .. Len(q) /\ a[k] = q[k]) \/ (k = Len(q) + 1 /\ a[k] = Msg("invite", x))
  BY <1>1, <1>2, AppendHas
<1>4. \A t \in About : Lacks(q, Msg(t, x))
  BY DEF SelfInv, Possible
<1>5. Msg("invite", x) # Msg("answer", x) /\ Msg("invite", x) # Msg("offer", x) /\ Msg("invite", x) # Msg("cancel", x)
  BY DEF Msg
<1>6. Lacks(a, Msg("answer", x)) /\ Lacks(a, Msg("offer", x)) /\ Lacks(a, Msg("cancel", x))
  BY <1>1, <1>2, <1>4, <1>5, AppendLacks
<1>7. Possible(x, z, a)
  BY <1>6 DEF Possible
<1>8. \A k \in 1 .. Len(a) : a[k] = Msg("invite", x) => k = Len(q) + 1
  BY <1>2, <1>3, <1>4 DEF Lacks
<1>9. InviteFirst(x, z, a)
  BY <1>6, <1>8 DEF InviteFirst, Lacks
<1> QED
  BY <1>1, <1>7, <1>9 DEF SelfInv

\* The user cancels.
LEMMA SelfCancels ==
    ASSUME NEW x \in Files, NEW r, NEW z, NEW g, NEW q \in Seq(Message),
           SelfInv(x, r, q, g), Listed(r),
           Unanswered(z), z.up = r.up, z.state = "closed"
    PROVE  SelfInv(x, z, Append(q, Msg("cancel", x)), g)
<1>1. PICK a : a = Append(q, Msg("cancel", x))
  OBVIOUS
<1>2. Msg("cancel", x) \in Message
  BY DEF Message, Msg, About
<1>3. /\ \A k \in 1 .. Len(a) : (k \in 1 .. Len(q) /\ a[k] = q[k]) \/ (k = Len(q) + 1 /\ a[k] = Msg("cancel", x))
      /\ Len(q) \in Nat
  BY <1>1, <1>2, AppendHas
<1>4. Msg("cancel", x) # Msg("answer", x) /\ Msg("cancel", x) # Msg("offer", x) /\ Msg("invite", x) # Msg("cancel", x)
  BY DEF Msg
<1>5. Lacks(q, Msg("answer", x)) /\ (r.up => Lacks(q, Msg("offer", x)))
  BY DEF SelfInv, Possible
<1>6. Lacks(a, Msg("answer", x)) /\ (r.up => Lacks(a, Msg("offer", x)))
  BY <1>1, <1>2, <1>4, <1>5, AppendLacks
<1>7. Possible(x, z, a)
  BY <1>6 DEF Possible
<1>8. ~Lacks(a, Msg("cancel", x))
  BY <1>1, <1>2, AppendLacks
<1>9. InviteFirst(x, z, a)
  <2>1. SUFFICES ASSUME NEW j \in 1 .. Len(a), a[j] = Msg("invite", x)
                 PROVE  /\ z.up
                        /\ \A k \in 1 .. Len(a) : a[k] = Msg("invite", x) => k = j
                        /\ \A k \in 1 .. Len(a) : a[k] = Msg("cancel", x) => k > j
    BY <1>8 DEF InviteFirst
  <2>2. j \in 1 .. Len(q) /\ q[j] = Msg("invite", x)
    BY <1>3, <1>4, <2>1
  <2>3. /\ r.up
        /\ \A k \in 1 .. Len(q) : q[k] = Msg("invite", x) => k = j
        /\ \A k \in 1 .. Len(q) : q[k] = Msg("cancel", x) => r.state = "closed"
    BY <2>2 DEF SelfInv, InviteFirst
  <2>4. \A k \in 1 .. Len(q) : q[k] # Msg("cancel", x)
    BY <2>3 DEF Listed
  <2>5. Len(q) + 1 > j
    BY <1>3, <2>2
  <2>6. \A k \in 1 .. Len(a) : a[k] = Msg("invite", x) => k = j
    BY <1>3, <1>4, <2>3
  <2>7. \A k \in 1 .. Len(a) : a[k] = Msg("cancel", x) => k > j
    BY <1>3, <2>4, <2>5
  <2> QED
    BY <2>3, <2>6, <2>7
<1> QED
  BY <1>1, <1>7, <1>9 DEF SelfInv, Listed

\* The invitation comes while the page still has the file: it refuses.
LEMMA SelfRefuses ==
    ASSUME NEW x \in Files, NEW r, NEW g, NEW q \in Seq(Message), q # <<>>,
           SelfInv(x, r, q, g), Listed(r), Head(q) = Msg("invite", x)
    PROVE  SelfInv(x, r, Append(Tail(q), Msg("cancel", x)), g)
<1>1. PICK t \in Seq(Message) : t = Tail(q)
  BY TailAt
<1>2. PICK a : a = Append(t, Msg("cancel", x))
  OBVIOUS
<1>3. Msg("cancel", x) \in Message
  BY DEF Message, Msg, About
<1>4. /\ \A k \in 1 .. Len(t) : k + 1 \in 1 .. Len(q) /\ t[k] = q[k + 1]
      /\ 1 \in 1 .. Len(q) /\ Len(t) \in Nat /\ q[1] = Msg("invite", x)
  BY <1>1, TailHas, TailAt
<1>5. /\ r.up
      /\ \A k \in 1 .. Len(q) : q[k] = Msg("invite", x) => k = 1
  BY <1>4 DEF SelfInv, InviteFirst
<1>6. Lacks(t, Msg("invite", x))
  <2>1. ASSUME NEW k \in 1 .. Len(t), t[k] = Msg("invite", x) PROVE FALSE
    <3>1. k + 1 \in 1 .. Len(q) /\ q[k + 1] = Msg("invite", x)
      BY <1>4, <2>1
    <3>2. k + 1 = 1
      BY <1>5, <3>1
    <3> QED
      BY <3>2
  <2> QED
    BY <2>1 DEF Lacks
<1>7. Lacks(q, Msg("answer", x)) /\ Lacks(q, Msg("offer", x))
  BY <1>5 DEF SelfInv, Possible
<1>8. Lacks(t, Msg("answer", x)) /\ Lacks(t, Msg("offer", x))
  BY <1>1, <1>7, TailLacks
<1>9. Msg("cancel", x) # Msg("answer", x) /\ Msg("cancel", x) # Msg("offer", x) /\ Msg("cancel", x) # Msg("invite", x)
  BY DEF Msg
<1>10. Lacks(a, Msg("answer", x)) /\ Lacks(a, Msg("offer", x)) /\ Lacks(a, Msg("invite", x))
  BY <1>2, <1>3, <1>6, <1>8, <1>9, AppendLacks
<1>11. Possible(x, r, a) /\ InviteFirst(x, r, a)
  BY <1>10 DEF Possible, InviteFirst, Lacks, Listed
<1> QED
  BY <1>1, <1>2, <1>5, <1>11 DEF SelfInv

\* The invitation comes when the page has cancelled: the cancel is to follow.
LEMMA SelfInvited ==
    ASSUME NEW x \in Files, NEW r, NEW z, NEW g, NEW q \in Seq(Message), q # <<>>,
           SelfInv(x, r, q, g), ~Listed(r), Head(q) = Msg("invite", x),
           Unanswered(z), z.up = FALSE, z.state = "inviting"
    PROVE  SelfInv(x, z, Tail(q), g)
<1>1. PICK t \in Seq(Message) : t = Tail(q)
  BY TailAt
<1>4. /\ \A k \in 1 .. Len(t) : k + 1 \in 1 .. Len(q) /\ t[k] = q[k + 1]
      /\ \A k \in 1 .. Len(q) : k = 1 \/ (k - 1 \in 1 .. Len(t) /\ q[k] = t[k - 1])
      /\ 1 \in 1 .. Len(q) /\ Len(t) \in Nat /\ q[1] = Msg("invite", x)
  BY <1>1, TailHas, TailAt
<1>5. /\ r.up /\ ~Lacks(q, Msg("cancel", x))
      /\ \A k \in 1 .. Len(q) : q[k] = Msg("invite", x) => k = 1
  BY <1>4 DEF SelfInv, InviteFirst, Listed
<1>6. Lacks(t, Msg("invite", x))
  <2>1. ASSUME NEW k \in 1 .. Len(t), t[k] = Msg("invite", x) PROVE FALSE
    <3>1. k + 1 \in 1 .. Len(q) /\ q[k + 1] = Msg("invite", x)
      BY <1>4, <2>1
    <3>2. k + 1 = 1
      BY <1>5, <3>1
    <3> QED
      BY <3>2
  <2> QED
    BY <2>1 DEF Lacks
<1>7. Lacks(q, Msg("answer", x)) /\ Lacks(q, Msg("offer", x))
  BY <1>5 DEF SelfInv, Possible
<1>8. Lacks(t, Msg("answer", x)) /\ Lacks(t, Msg("offer", x))
  BY <1>1, <1>7, TailLacks
<1>9. Msg("cancel", x) # Msg("invite", x)
  BY DEF Msg
<1>10. PICK j \in 1 .. Len(t) : t[j] = Msg("cancel", x)
  <2>1. PICK i \in 1 .. Len(q) : q[i] = Msg("cancel", x)
    BY <1>5 DEF Lacks
  <2>2. i - 1 \in 1 .. Len(t) /\ q[i] = t[i - 1]
    BY <1>4, <1>9, <2>1
  <2> QED
    BY <2>1, <2>2
<1>11. \A k \in 1 .. j - 1 : k \in 1 .. Len(t)
  BY <1>4
<1>12. CancelFirst(x, t)
  BY <1>8, <1>10, <1>11 DEF CancelFirst, Lacks
<1>13. Possible(x, z, t) /\ InviteFirst(x, z, t)
  BY <1>6, <1>8 DEF Possible, InviteFirst, Lacks
<1> QED
  BY <1>1, <1>12, <1>13 DEF SelfInv

\* A cancel comes, and ends what there is.
LEMMA SelfCancelled ==
    ASSUME NEW x \in Files, NEW r, NEW z, NEW g, NEW q \in Seq(Message), q # <<>>,
           SelfInv(x, r, q, g), Head(q) = Msg("cancel", x),
           Unanswered(z), z.up = r.up, ~Listed(z), r.state # "unset" => z.state # "unset"
    PROVE  SelfInv(x, z, Tail(q), g)
<1>1. PICK t \in Seq(Message) : t = Tail(q)
  BY TailAt
<1>2. /\ \A k \in 1 .. Len(t) : k + 1 \in 1 .. Len(q) /\ t[k] = q[k + 1]
      /\ 1 \in 1 .. Len(q) /\ Len(t) \in Nat /\ q[1] = Msg("cancel", x)
  BY <1>1, TailHas, TailAt
<1>3. r.state # "unset"
  BY <1>2 DEF SelfInv, Possible, Lacks, About
<1>4. Lacks(t, Msg("invite", x))
  <2>1. ASSUME NEW k \in 1 .. Len(t), t[k] = Msg("invite", x) PROVE FALSE
    <3>1. k + 1 \in 1 .. Len(q) /\ q[k + 1] = Msg("invite", x)
      BY <1>2, <2>1
    <3>2. 1 > k + 1
      BY <1>2, <3>1 DEF SelfInv, InviteFirst
    <3> QED
      BY <3>2
  <2> QED
    BY <2>1 DEF Lacks
<1>5. Lacks(q, Msg("answer", x)) /\ (r.up => Lacks(q, Msg("offer", x)))
  BY DEF SelfInv, Possible
<1>6. Lacks(t, Msg("answer", x)) /\ (r.up => Lacks(t, Msg("offer", x)))
  BY <1>1, <1>5, TailLacks
<1>7. Possible(x, z, t) /\ InviteFirst(x, z, t)
  BY <1>3, <1>4, <1>6 DEF Possible, InviteFirst, Lacks
<1> QED
  BY <1>1, <1>7 DEF SelfInv

\* Neither an offer nor an answer comes to a page that has the file.
LEMMA SelfUnanswered ==
    ASSUME NEW x \in Files, NEW r, NEW q \in Seq(Message), q # <<>>, SelfInv(x, r, q, FALSE)
    PROVE  /\ Head(q) # Msg("answer", x)
           /\ Head(q) = Msg("offer", x) => ~Listed(r)
<1>1. 1 \in 1 .. Len(q) /\ Head(q) = q[1]
  BY TailHas, TailAt
<1>2. Head(q) # Msg("answer", x)
  BY <1>1 DEF SelfInv, Possible, Lacks
<1>3. ASSUME Head(q) = Msg("offer", x), Listed(r) PROVE FALSE
  <2>1. ~r.up
    BY <1>1, <1>3 DEF SelfInv, Possible, Lacks
  <2>2. PICK j \in 1 .. Len(q) : q[j] = Msg("cancel", x) /\ \A k \in 1 .. j - 1 : q[k] # Msg("offer", x)
    BY <1>3, <2>1 DEF SelfInv, CancelFirst
  <2>3. Msg("cancel", x) # Msg("offer", x)
    BY DEF Msg
  <2>4. j # 1
    BY <1>1, <1>3, <2>2, <2>3
  <2>5. 1 \in 1 .. j - 1
    BY <2>4
  <2> QED
    BY <1>1, <1>3, <2>2, <2>5
<1> QED
  BY <1>2, <1>3

\* The page leaves: nothing comes any more.
LEMMA SelfLeaves ==
    ASSUME NEW x, NEW r, NEW q, NEW g, SelfInv(x, r, q, g)
    PROVE  SelfInv(x, r, <<>>, TRUE)
<1>1. \A k \in 1 .. Len(<<>>) : FALSE
  OBVIOUS
<1> QED
  BY <1>1 DEF SelfInv, Possible, InviteFirst, Lacks

-----------------------------------------------------------------------------
(* One record changes.                                                     *)

\* The constants.
LEMMA Constants ==
    ASSUME NEW x \in Files
    PROVE  /\ From[x] \in Pages /\ To[x] \in Pages /\ Size[x] \in Nat
           /\ \A p \in Pages : Peer(p, x) \in {From[x], To[x]} /\ Peer(p, x) \in Pages
  BY TransferAssumption DEF Peer

\* A message about a transfer is one.
LEMMA MsgFacts ==
    ASSUME NEW x \in Files, NEW t \in About
    PROVE  /\ Msg(t, x) \in Message /\ Msg(t, x).type = t /\ Msg(t, x).x = x /\ t # "delete"
           /\ \A y \in Files \ {x} : \A u \in About : Msg(t, x) # Msg(u, y)
           /\ \A p \in {From[x], To[x]} : For(p, Msg(t, x))
<1>1. /\ Msg(t, x) \in Message /\ Msg(t, x).type = t /\ Msg(t, x).x = x /\ t # "delete"
  BY DEF Msg, Message, About
<1>2. \A y \in Files \ {x} : \A u \in About : Msg(t, x) # Msg(u, y)
  BY DEF Msg
<1>3. \A p : Note(p).type = "delete"
  BY DEF Note
<1>4. ASSUME NEW p \in {From[x], To[x]} PROVE For(p, Msg(t, x))
  BY <1>1, <1>3 DEF For
<1> QED
  BY <1>1, <1>2, <1>4

\* What the step knows.
LEMMA Known ==
    ASSUME Inv, NEW p \in Pages, NEW x \in Files
    PROVE  /\ f[p][x] \in Rec /\ RecInv(f[p][x])
           /\ inbox[p] \in Seq(Message) /\ link[x] \in {"none", "up", "cut"}
           /\ data[x] \in Nat /\ ack[x] \in BOOLEAN
           /\ p \notin {From[x], To[x]} => f[p][x] = NoFile
           /\ ChunkInv(f[From[x]][x], f[To[x]][x], data[x], link[x], Size[x])
           /\ From[x] = To[x] =>
                SelfInv(x, f[From[x]][x], inbox[From[x]], From[x] \in gone) /\ link[x] = "none"
  BY DEF Inv, Types, Records, Counted, Selves

\* A message that is sent to q, unless q has left.
Sends(q, m) == inbox' = [inbox EXCEPT ![q] = IF q \in gone THEN @ ELSE Append(@, m)]

\* The inboxes when a message is sent.
LEMMA SendsPosts ==
    ASSUME Inv, NEW q \in Pages, NEW m \in Message, Sends(q, m), For(q, m), UNCHANGED gone
    PROVE  /\ inbox' \in [Pages -> Seq(Message)] /\ Posts'
           /\ \A p \in Pages : inbox'[p] = IF p = q /\ q \notin gone THEN Append(inbox[q], m) ELSE inbox[p]
<1>1. inbox \in [Pages -> Seq(Message)]
  BY DEF Inv, Types
<1>2. /\ inbox' \in [Pages -> Seq(Message)]
      /\ \A p \in Pages : inbox'[p] = IF p = q /\ q \notin gone THEN Append(inbox[q], m) ELSE inbox[p]
  BY <1>1 DEF Sends
<1>3. ASSUME NEW p \in Pages
      PROVE  /\ p \in gone => inbox'[p] = <<>>
             /\ \A k \in 1 .. Len(inbox'[p]) : For(p, inbox'[p][k])
  <2>1. /\ p \in gone => inbox[p] = <<>>
        /\ \A k \in 1 .. Len(inbox[p]) : For(p, inbox[p][k])
    BY DEF Inv, Posts
  <2>2. CASE ~(p = q /\ q \notin gone)
    BY <1>2, <2>1, <2>2
  <2>3. CASE p = q /\ q \notin gone
    <3>1. PICK a : a = Append(inbox[q], m)
      OBVIOUS
    <3>2. \A k \in 1 .. Len(a) : (k \in 1 .. Len(inbox[q]) /\ a[k] = inbox[q][k]) \/ (k = Len(inbox[q]) + 1 /\ a[k] = m)
      BY <1>1, <3>1, AppendHas
    <3>3. inbox'[p] = a
      BY <1>2, <2>3, <3>1
    <3>4. \A k \in 1 .. Len(a) : For(p, a[k])
      BY <2>1, <2>3, <3>2
    <3> QED
      BY <2>3, <3>3, <3>4
  <2> QED
    BY <2>2, <2>3
<1>4. Posts'
  BY <1>3 DEF Posts, For, Note
<1> QED
  BY <1>2, <1>4

\* Becomes() sends nothing, or one message about the transfer.
Carries(ms, x) == ms = <<>> \/ \E t \in About : ms = <<Msg(t, x)>>

Arrived(q, ms) == IF ms = <<>> THEN q ELSE Append(q, ms[1])

Posting(p, x, ms) == inbox' = Sent(Peer(p, x), ms) /\ (p \notin gone \/ ms = <<>>)

\* The inboxes after Becomes().
LEMMA BecomesPosts ==
    ASSUME Inv, NEW p \in Pages, NEW x \in Files, p \in {From[x], To[x]}, NEW ms,
           Carries(ms, x), Posting(p, x, ms), UNCHANGED gone
    PROVE  /\ inbox' \in [Pages -> Seq(Message)] /\ Posts'
           /\ \A y \in Files \ {x} : From[y] = To[y] =>
                 SelfInv(y, f[From[y]][y], inbox'[From[y]], From[y] \in gone)
           /\ From[x] = To[x] => inbox'[p] = Arrived(inbox[p], ms)
<1>1. inbox' = Sent(Peer(p, x), ms) /\ (p \notin gone \/ ms = <<>>)
  BY DEF Posting
<1>2. inbox \in [Pages -> Seq(Message)] /\ Peer(p, x) \in Pages /\ Peer(p, x) \in {From[x], To[x]}
  BY Constants DEF Inv, Types
<1>3. CASE ms = <<>>
  <2>1. inbox' = inbox
    BY <1>1, <1>2, <1>3 DEF Sent
  <2>2. Posts'
    BY <2>1 DEF Inv, Posts, For, Note
  <2>3. \A y \in Files \ {x} : From[y] = To[y] =>
                 SelfInv(y, f[From[y]][y], inbox'[From[y]], From[y] \in gone)
    BY <2>1 DEF Inv, Selves
  <2> QED
    BY <1>2, <1>3, <2>1, <2>2, <2>3 DEF Arrived
<1>4. ASSUME NEW t \in About, ms = <<Msg(t, x)>>
      PROVE  /\ inbox' \in [Pages -> Seq(Message)] /\ Posts'
             /\ \A y \in Files \ {x} : From[y] = To[y] =>
                   SelfInv(y, f[From[y]][y], inbox'[From[y]], From[y] \in gone)
             /\ From[x] = To[x] => inbox'[p] = Arrived(inbox[p], ms)
  <2>1. PICK m \in Message : m = Msg(t, x)
    BY MsgFacts
  <2>2. PICK q \in Pages : q = Peer(p, x) /\ q \in {From[x], To[x]}
    BY <1>2
  <2>3. ms = <<m>> /\ ms # <<>> /\ ms[1] = m
    BY <1>4, <2>1
  <2>4. For(q, m)
    BY <2>1, <2>2, MsgFacts
  <2>5. Sends(q, m)
    <3>1. inbox[q] \in Seq(Message)
      BY <1>2
    <3>2. inbox[q] \o <<m>> = Append(inbox[q], m)
      BY <3>1
    <3> QED
      BY <1>1, <2>2, <2>3, <3>2 DEF Sent, Sends
  <2>6. /\ inbox' \in [Pages -> Seq(Message)] /\ Posts'
        /\ \A u \in Pages : inbox'[u] = IF u = q /\ q \notin gone THEN Append(inbox[q], m) ELSE inbox[u]
    BY <2>4, <2>5, SendsPosts
  <2>7. ASSUME NEW y \in Files \ {x}, From[y] = To[y]
        PROVE  SelfInv(y, f[From[y]][y], inbox'[From[y]], From[y] \in gone)
    <3>1. From[y] \in Pages /\ SelfInv(y, f[From[y]][y], inbox[From[y]], From[y] \in gone)
      BY <2>7, Constants DEF Inv, Selves
    <3>2. \A b \in About : m # Msg(b, y)
      BY <2>1, MsgFacts
    <3>3. SelfInv(y, f[From[y]][y], Append(inbox[From[y]], m), From[y] \in gone)
      BY <1>2, <3>1, <3>2, SelfGrows DEF About
    <3> QED
      BY <2>6, <3>1, <3>3
  <2>8. From[x] = To[x] => inbox'[p] = Arrived(inbox[p], ms)
    <3>1. From[x] = To[x] => q = p
      BY <2>2
    <3> QED
      BY <1>1, <2>3, <2>6, <3>1 DEF Arrived
  <2> QED
    BY <2>6, <2>7, <2>8
<1> QED
  BY <1>3, <1>4 DEF Carries

\* A record that has no more of the channel than it had.
Quiet(r, z) ==
    \/ z.datalen = 0 /\ z.dc # "open"
    \/ z.datalen = r.datalen /\ (z.dc = "open" <=> r.dc = "open")

\* The records of the two sides, when p has r.
SideS(p, x, r) == IF p = From[x] THEN r ELSE f[From[x]][x]
SideR(p, x, r) == IF p = To[x] THEN r ELSE f[To[x]][x]

\* The chunks when a record has no more of the channel than it had.
LEMMA QuietChunks ==
    ASSUME Inv, NEW p \in Pages, NEW x \in Files, NEW r \in Rec, Quiet(f[p][x], r)
    PROVE  ChunkInv(SideS(p, x, r), SideR(p, x, r), data[x], link[x], Size[x])
<1>1. PICK s \in Rec : s = f[From[x]][x]
  BY Constants, Known
<1>2. PICK z \in Rec : z = f[To[x]][x]
  BY Constants, Known
<1>3. PICK s2 : s2 = SideS(p, x, r)
  OBVIOUS
<1>4. PICK z2 : z2 = SideR(p, x, r)
  OBVIOUS
<1>5. ChunkInv(s, z, data[x], link[x], Size[x]) /\ data[x] \in Nat /\ Size[x] \in Nat
  BY <1>1, <1>2, Constants, Known
<1>6. s.datalen \in Nat /\ z.datalen \in Nat
  BY DEF Rec
<1>7. Quiet(s, s2) /\ Quiet(z, z2)
  BY <1>1, <1>2, <1>3, <1>4 DEF SideS, SideR, Quiet
<1>8. ChunkInv(s2, z2, data[x], link[x], Size[x])
  BY <1>5, <1>6, <1>7 DEF Quiet, ChunkInv
<1> QED
  BY <1>3, <1>4, <1>8

\* The channel is as it was, or is cut.
LinkStep(x) ==
    /\ link' \in [Files -> {"none", "up", "cut"}]
    /\ \A y \in Files \ {x} : link'[y] = link[y]
    /\ link'[x] = link[x] \/ (link[x] = "up" /\ link'[x] = "cut")

Replaced(p, x, r) == f' = [f EXCEPT ![p][x] = r]

\* One record of f changes.
LEMMA OneRecord ==
    ASSUME Inv, NEW p \in Pages, NEW x \in Files, NEW r \in Rec, Replaced(p, x, r)
    PROVE  /\ f' \in [Pages -> [Files -> Rec]]
           /\ f'[p][x] = r
           /\ \A q \in Pages, y \in Files : q # p \/ y # x => f'[q][y] = f[q][y]
           /\ f'[From[x]][x] = SideS(p, x, r) /\ f'[To[x]][x] = SideR(p, x, r)
<1>1. f \in [Pages -> [Files -> Rec]]
  BY DEF Inv, Types
<1>2. PICK g \in [Files -> Rec] : g = [f[p] EXCEPT ![x] = r]
  BY <1>1
<1>3. f' = [f EXCEPT ![p] = g]
  BY <1>2 DEF Replaced
<1>4. /\ f' \in [Pages -> [Files -> Rec]]
      /\ \A q \in Pages : f'[q] = IF q = p THEN g ELSE f[q]
  BY <1>1, <1>3
<1>5. \A y \in Files : g[y] = IF y = x THEN r ELSE f[p][y]
  BY <1>1, <1>2
<1>6. /\ f'[p][x] = r
      /\ \A q \in Pages, y \in Files : q # p \/ y # x => f'[q][y] = f[q][y]
  BY <1>4, <1>5
<1>7. f'[From[x]][x] = SideS(p, x, r) /\ f'[To[x]][x] = SideR(p, x, r)
  BY <1>6, Constants DEF SideS, SideR
<1> QED
  BY <1>4, <1>6, <1>7

\* The records and the rest, when one record changes and its channel may be cut.
LEMMA OneStep ==
    ASSUME Inv, NEW p \in Pages, NEW x \in Files, p \in {From[x], To[x]}, NEW r \in Rec, RecInv(r),
           Replaced(p, x, r), LinkStep(x),
           inbox' \in [Pages -> Seq(Message)], Posts',
           \A y \in Files \ {x} : From[y] = To[y] =>
               SelfInv(y, f[From[y]][y], inbox'[From[y]], From[y] \in gone),
           From[x] = To[x] => SelfInv(x, r, inbox'[From[x]], From[x] \in gone),
           UNCHANGED <<known, gone>>,
           data' \in [Files -> Nat], ack' \in [Files -> BOOLEAN],
           \A y \in Files \ {x} : data'[y] = data[y] /\ ack'[y] = ack[y],
           ChunkInv(SideS(p, x, r), SideR(p, x, r), data'[x], link[x], Size[x]),
           saved \subseteq saved', saved' \subseteq Files \X Nat, \A s \in saved' : s[2] = Size[s[1]],
           ack'[x] => <<x, Size[x]>> \in saved',
           p = From[x] /\ r.end = "done" => <<x, Size[x]>> \in saved'
    PROVE  Inv'
<1>1. /\ f' \in [Pages -> [Files -> Rec]]
      /\ f'[p][x] = r
      /\ \A q \in Pages, y \in Files : q # p \/ y # x => f'[q][y] = f[q][y]
      /\ f'[From[x]][x] = SideS(p, x, r) /\ f'[To[x]][x] = SideR(p, x, r)
  BY OneRecord
<1>2. /\ link' \in [Files -> {"none", "up", "cut"}]
      /\ \A y \in Files \ {x} : link'[y] = link[y]
      /\ link'[x] = link[x] \/ (link[x] = "up" /\ link'[x] = "cut")
  BY DEF LinkStep
<1>3. Types'
  BY <1>1, <1>2 DEF Inv, Types
<1>4. Records'
  <2>1. ASSUME NEW q \in Pages, NEW y \in Files
        PROVE  /\ RecInv(f'[q][y])
               /\ q \notin {From[y], To[y]} => f'[q][y] = NoFile
    <3>1. RecInv(f[q][y]) /\ (q \notin {From[y], To[y]} => f[q][y] = NoFile)
      BY Known
    <3>2. CASE q = p /\ y = x
      BY <1>1, <3>2
    <3>3. CASE q # p \/ y # x
      BY <1>1, <3>1, <3>3
    <3> QED
      BY <3>2, <3>3
  <2> QED
    BY <2>1 DEF Records, RecInv, Alive
<1>5. Counted'
  <2>1. ASSUME NEW y \in Files
        PROVE  ChunkInv(f'[From[y]][y], f'[To[y]][y], data'[y], link'[y], Size[y])
    <3>1. CASE y = x
      <4>1. ChunkInv(f'[From[x]][x], f'[To[x]][x], data'[x], link[x], Size[x])
        BY <1>1
      <4> QED
        BY <1>2, <3>1, <4>1 DEF ChunkInv
    <3>2. CASE y # x
      <4>1. f'[From[y]][y] = f[From[y]][y] /\ f'[To[y]][y] = f[To[y]][y]
        BY <1>1, <3>2, Constants
      <4>2. ChunkInv(f[From[y]][y], f[To[y]][y], data[y], link[y], Size[y])
        BY Constants, Known
      <4> QED
        BY <1>2, <3>2, <4>1, <4>2
    <3> QED
      BY <3>1, <3>2
  <2> QED
    BY <2>1 DEF Counted, ChunkInv
<1>6. Savings'
  <2>1. ASSUME NEW y \in Files, ack'[y] \/ f'[From[y]][y].end = "done"
        PROVE  <<y, Size[y]>> \in saved'
    <3>1. ack[y] \/ f[From[y]][y].end = "done" => <<y, Size[y]>> \in saved
      BY DEF Inv, Savings
    <3>2. CASE y # x
      BY <1>1, <2>1, <3>1, <3>2, Constants
    <3>3. CASE y = x
      BY <1>1, <2>1, <3>1, <3>3, Constants DEF SideS
    <3> QED
      BY <3>2, <3>3
  <2> QED
    BY <2>1 DEF Savings
<1>7. Selves'
  <2>1. ASSUME NEW y \in Files, From[y] = To[y]
        PROVE  SelfInv(y, f'[From[y]][y], inbox'[From[y]], From[y] \in gone) /\ link'[y] = "none"
    <3>1. link[y] = "none" /\ From[y] \in Pages
      BY <2>1, Constants, Known
    <3>2. CASE y # x
      BY <1>1, <1>2, <2>1, <3>1, <3>2
    <3>3. CASE y = x
      BY <1>1, <1>2, <2>1, <3>1, <3>3
    <3> QED
      BY <3>2, <3>3
  <2>2. gone' = gone
    OBVIOUS
  <2>3. ASSUME NEW y \in Files, From[y] = To[y]
        PROVE  SelfInv(y, f[From[y]][y], inbox[From[y]], From[y] \in gone)' /\ link'[y] = "none"
    BY <2>1, <2>2, <2>3 DEF SelfInv, Unanswered, Possible, InviteFirst, CancelFirst, Lacks, Listed, Msg
  <2> QED
    BY <2>3 DEF Selves
<1> QED
  BY <1>3, <1>4, <1>5, <1>6, <1>7 DEF Inv

\* One record changes by what a page does.
LEMMA Becoming ==
    ASSUME Inv, NEW p \in Pages, NEW x \in Files, p \in {From[x], To[x]}, NEW r \in Rec, RecInv(r),
           NEW ms, Carries(ms, x), Becomes(p, x, r, ms),
           UNCHANGED <<known, gone>>,
           data' \in [Files -> Nat], ack' \in [Files -> BOOLEAN],
           \A y \in Files \ {x} : data'[y] = data[y] /\ ack'[y] = ack[y],
           ChunkInv(SideS(p, x, r), SideR(p, x, r), data'[x], link[x], Size[x]),
           saved \subseteq saved', saved' \subseteq Files \X Nat, \A s \in saved' : s[2] = Size[s[1]],
           ack'[x] => <<x, Size[x]>> \in saved',
           p = From[x] /\ r.end = "done" => <<x, Size[x]>> \in saved',
           From[x] = To[x] => SelfInv(x, r, Arrived(inbox[p], ms), p \in gone)
    PROVE  Inv'
<1>4. Posting(p, x, ms)
  BY DEF Becomes, Posting
<1>1. /\ inbox' \in [Pages -> Seq(Message)] /\ Posts'
      /\ \A y \in Files \ {x} : From[y] = To[y] =>
            SelfInv(y, f[From[y]][y], inbox'[From[y]], From[y] \in gone)
      /\ From[x] = To[x] => inbox'[p] = Arrived(inbox[p], ms)
  BY <1>4, BecomesPosts
<1>2. From[x] = To[x] => SelfInv(x, r, inbox'[From[x]], From[x] \in gone)
  BY <1>1
<1>3. Replaced(p, x, r)
  BY DEF Becomes, Replaced
<1>5. LinkStep(x)
  <2>1. link' = Cut(x, r) /\ link \in [Files -> {"none", "up", "cut"}]
    BY DEF Becomes, Inv, Types
  <2> QED
    BY <2>1 DEF Cut, LinkStep
<1> QED
  BY <1>1, <1>2, <1>3, <1>5, OneStep

\* One that has no more of the channel than it had.
LEMMA QuietStep ==
    ASSUME Inv, NEW p \in Pages, NEW x \in Files, p \in {From[x], To[x]}, NEW r \in Rec, RecInv(r),
           NEW ms, Carries(ms, x), Becomes(p, x, r, ms), Quiet(f[p][x], r),
           UNCHANGED <<data, saved, known, gone>>,
           ack' = ack \/ ack' = [ack EXCEPT ![x] = FALSE],
           p = From[x] /\ r.end = "done" => f[p][x].end = "done" \/ <<x, Size[x]>> \in saved,
           From[x] = To[x] => SelfInv(x, r, Arrived(inbox[p], ms), p \in gone)
    PROVE  Inv'
<1>1. ChunkInv(SideS(p, x, r), SideR(p, x, r), data[x], link[x], Size[x])
  BY QuietChunks
<1>2. /\ data \in [Files -> Nat] /\ ack \in [Files -> BOOLEAN] /\ saved \subseteq Files \X Nat
      /\ \A s \in saved : s[2] = Size[s[1]]
      /\ ack[x] \/ f[From[x]][x].end = "done" => <<x, Size[x]>> \in saved
  BY DEF Inv, Types, Savings
<1>3. /\ ack' \in [Files -> BOOLEAN] /\ (ack'[x] => ack[x])
      /\ \A y \in Files \ {x} : ack'[y] = ack[y]
  BY <1>2
<1> QED
  BY <1>1, <1>2, <1>3, Becoming

-----------------------------------------------------------------------------
(* The ways a transfer ends.                                               *)

\* close().
LEMMA CloseFacts ==
    ASSUME NEW r \in Rec, NEW z, z = Close(r)
    PROVE  /\ z \in Rec /\ RecInv(z) /\ Quiet(r, z) /\ Unanswered(z) /\ ~Listed(z)
           /\ z.state = "closed" /\ z.up = r.up /\ z.end = r.end
<1>1. z = [r EXCEPT !.state = "closed", !.pc = "none", !.dc = "none", !.run = "none",
                    !.held = 0, !.unsent = FALSE, !.datalen = 0]
  BY DEF Close
<1>2. z \in Rec
  <2>1. PICK a1 \in Rec : a1 = [r EXCEPT !.state = "closed"]
    BY DEF Rec, States
  <2>2. PICK a2 \in Rec : a2 = [a1 EXCEPT !.pc = "none"]
    BY DEF Rec
  <2>3. PICK a3 \in Rec : a3 = [a2 EXCEPT !.dc = "none"]
    BY DEF Rec
  <2>4. PICK a4 \in Rec : a4 = [a3 EXCEPT !.run = "none"]
    BY DEF Rec, Runnings
  <2>5. PICK a5 \in Rec : a5 = [a4 EXCEPT !.held = 0]
    BY DEF Rec
  <2>6. PICK a6 \in Rec : a6 = [a5 EXCEPT !.unsent = FALSE]
    BY DEF Rec
  <2>7. PICK a7 \in Rec : a7 = [a6 EXCEPT !.datalen = 0]
    BY DEF Rec
  <2> QED
    BY <1>1, <2>1, <2>2, <2>3, <2>4, <2>5, <2>6, <2>7
<1>3. /\ z.state = "closed" /\ z.up = r.up /\ z.end = r.end /\ z.pc = "none" /\ z.dc = "none"
      /\ z.run = "none" /\ z.unsent = FALSE /\ z.datalen = 0
  BY <1>1 DEF Rec
<1> QED
  BY <1>2, <1>3 DEF RecInv, Quiet, Unanswered, Listed, Alive

\* The same, with what the box says of it.
LEMMA EndsFacts ==
    ASSUME NEW r \in Rec, NEW how \in {"done", "cancelled"}, NEW z, z = Ends(r, how)
    PROVE  /\ z \in Rec /\ RecInv(z) /\ Quiet(r, z) /\ Unanswered(z) /\ ~Listed(z)
           /\ z.state = "closed" /\ z.up = r.up /\ z.end = how
<1>5. PICK a \in Rec : a = [r EXCEPT !.end = how]
  BY DEF Rec
<1>1. a = [r EXCEPT !.end = how] /\ a.up = r.up /\ a.end = how
  BY <1>5 DEF Rec
<1>2. z = Close(a)
  BY <1>1 DEF Ends
<1>3. /\ z \in Rec /\ RecInv(z) /\ Unanswered(z) /\ ~Listed(z) /\ z.state = "closed"
      /\ z.up = a.up /\ z.end = a.end
  BY <1>2, CloseFacts
<1>4. z.datalen = 0 /\ z.dc = "none"
  BY <1>1, <1>2 DEF Close, Rec
<1> QED
  BY <1>1, <1>3, <1>4 DEF Quiet

\* The rest of cancel() and its callers: a transfer of which there is
\* something comes to its end.
LEMMA CancelInv ==
    ASSUME Inv, NEW p \in Pages, NEW x \in Files, p \in {From[x], To[x]}, Cancel(p, x),
           UNCHANGED <<data, saved, known, gone>>,
           ack' = ack \/ ack' = [ack EXCEPT ![x] = FALSE],
           Handshakes(f[p][x]) \/ From[x] # To[x]
    PROVE  Inv'
<1>1. PICK r \in Rec : r = f[p][x] /\ RecInv(r)
  BY Known
<1>2. CASE Handshakes(r)
  <2>1. PICK z : z = Ends(r, "cancelled")
    OBVIOUS
  <2>2. /\ z \in Rec /\ RecInv(z) /\ Quiet(r, z) /\ Unanswered(z)
        /\ z.state = "closed" /\ z.up = r.up /\ z.end = "cancelled"
    BY <2>1, EndsFacts
  <2>3. PICK ms : ms = <<Msg("cancel", x)>>
    OBVIOUS
  <2>4. Becomes(p, x, z, ms)
    BY <1>1, <1>2, <2>1, <2>3 DEF Cancel
  <2>5. Carries(ms, x) /\ ms # <<>> /\ ms[1] = Msg("cancel", x)
    BY <2>3 DEF Carries, About
  <2>6. Listed(r)
    BY <1>2 DEF Handshakes, Listed
  <2>7. ASSUME From[x] = To[x] PROVE SelfInv(x, z, Arrived(inbox[p], ms), p \in gone)
    <3>1. p = From[x] /\ SelfInv(x, r, inbox[p], p \in gone) /\ inbox[p] \in Seq(Message)
      BY <1>1, <2>7, Known
    <3>2. SelfInv(x, z, Append(inbox[p], Msg("cancel", x)), p \in gone)
      BY <2>2, <2>6, <3>1, SelfCancels
    <3> QED
      BY <2>5, <3>2 DEF Arrived
  <2> QED
    BY <1>1, <2>2, <2>4, <2>5, <2>7, QuietStep
<1>3. CASE ~Handshakes(r)
  <2>1. PICK z : z = IF r.state = "closed" THEN r ELSE Close(r)
    OBVIOUS
  <2>2. z \in Rec /\ RecInv(z) /\ Quiet(r, z) /\ z.end = r.end
    <3>1. CASE r.state = "closed"
      BY <1>1, <2>1, <3>1 DEF Quiet
    <3>2. CASE r.state # "closed"
      BY <2>1, <3>2, CloseFacts
    <3> QED
      BY <3>1, <3>2
  <2>3. Becomes(p, x, z, <<>>)
    BY <1>1, <1>3, <2>1 DEF Cancel
  <2>4. Carries(<<>>, x) /\ From[x] # To[x]
    BY <1>1, <1>3 DEF Carries
  <2> QED
    BY <1>1, <2>2, <2>3, <2>4, QuietStep
<1> QED
  BY <1>2, <1>3

\* The channel of a file that a page sends to itself never opens.
LEMMA OpenIsOther ==
    ASSUME Inv, NEW p \in Pages, NEW x \in Files, f[p][x].dc = "open"
    PROVE  /\ p \in {From[x], To[x]} /\ From[x] # To[x] /\ link[x] # "none"
           /\ Alive(f[p][x])
<1>1. p \in {From[x], To[x]}
  BY Known DEF NoFile
<1>2. From[x] # To[x]
  <2>1. ASSUME From[x] = To[x] PROVE FALSE
    <3>1. p = From[x] /\ SelfInv(x, f[p][x], inbox[p], p \in gone)
      BY <1>1, <2>1, Known
    <3> QED
      BY <3>1 DEF SelfInv, Unanswered
  <2> QED
    BY <2>1
<1>3. link[x] # "none"
  BY <1>1, Known DEF ChunkInv
<1>4. Alive(f[p][x])
  BY Known DEF RecInv
<1> QED
  BY <1>1, <1>2, <1>3, <1>4

\* Nobody but the two pages of a transfer has anything of it.
LEMMA PartyOf ==
    ASSUME Inv, NEW p \in Pages, NEW x \in Files,
           f[p][x].state # "unset" \/ f[p][x].run # "none" \/ f[p][x].unsent
    PROVE  p \in {From[x], To[x]}
  BY Known DEF NoFile

\* The user cancels.
LEMMA PressCancelInv ==
    ASSUME Inv, NEW p \in Pages, NEW x \in Files, PressCancel(p, x)
    PROVE  Inv'
<1>1. Handshakes(f[p][x]) /\ Cancel(p, x) /\ UNCHANGED <<data, ack, saved, known, gone>>
  BY DEF PressCancel
<1>2. p \in {From[x], To[x]}
  BY <1>1, PartyOf DEF Handshakes
<1> QED
  BY <1>1, <1>2, CancelInv

\* The sender hears "done".
LEMMA TakeAckInv ==
    ASSUME Inv, NEW x \in Files, TakeAck(x), UNCHANGED <<known, gone>>
    PROVE  Inv'
<1>1. PICK p \in Pages : p = From[x]
  BY Constants
<1>2. PICK r \in Rec : r = f[p][x]
  BY Known
<1>3. /\ r.dc = "open" /\ ack[x] /\ ack' = [ack EXCEPT ![x] = FALSE] /\ UNCHANGED <<data, saved>>
      /\ IF r.datalen = Size[x] THEN Becomes(p, x, Ends(r, "done"), <<>>) ELSE Cancel(p, x)
  BY <1>1, <1>2 DEF TakeAck
<1>4. From[x] # To[x] /\ p \in {From[x], To[x]}
  BY <1>1, <1>2, <1>3, OpenIsOther
<1>5. CASE r.datalen = Size[x]
  <2>1. PICK z : z = Ends(r, "done")
    OBVIOUS
  <2>2. z \in Rec /\ RecInv(z) /\ Quiet(r, z)
    BY <2>1, EndsFacts
  <2>3. Becomes(p, x, z, <<>>) /\ Carries(<<>>, x)
    BY <1>3, <1>5, <2>1 DEF Carries
  <2>4. <<x, Size[x]>> \in saved
    BY <1>3 DEF Inv, Savings
  <2> QED
    BY <1>2, <1>3, <1>4, <2>2, <2>3, <2>4, QuietStep
<1>6. CASE r.datalen # Size[x]
  BY <1>3, <1>4, <1>6, CancelInv
<1> QED
  BY <1>5, <1>6

\* The receiver has waited long enough, or sees the channel closed.
LEMMA WaiterCloses ==
    ASSUME Inv, NEW p \in Pages, NEW x \in Files, Runs(p, x, "waiting"),
           Becomes(p, x, Close(f[p][x]), <<>>), UNCHANGED <<data, ack, saved, known, gone>>
    PROVE  Inv'
<1>1. PICK r \in Rec : r = f[p][x] /\ r.run = "waiting"
  BY Known DEF Runs
<1>2. PICK z : z = Close(r)
  OBVIOUS
<1>3. z \in Rec /\ RecInv(z) /\ Quiet(r, z) /\ z.end = r.end
  BY <1>2, CloseFacts
<1>4. p \in {From[x], To[x]}
  BY <1>1, PartyOf
<1>5. From[x] # To[x]
  <2>1. ASSUME From[x] = To[x] PROVE FALSE
    <3>1. SelfInv(x, r, inbox[p], p \in gone)
      BY <1>1, <1>4, <2>1, Known
    <3> QED
      BY <1>1, <3>1 DEF SelfInv, Unanswered
  <2> QED
    BY <2>1
<1>6. Becomes(p, x, z, <<>>) /\ Carries(<<>>, x)
  BY <1>1, <1>2 DEF Carries
<1> QED
  BY <1>1, <1>3, <1>4, <1>5, <1>6, QuietStep

\* onclose, onerror.
LEMMA CloseSeenInv ==
    ASSUME Inv, NEW p \in Pages, NEW x \in Files, CloseSeen(p, x), UNCHANGED <<known, gone>>
    PROVE  Inv'
<1>1. f[p][x].dc = "open" /\ UNCHANGED <<data, ack, saved>>
  BY DEF CloseSeen
<1>2. CASE Runs(p, x, "waiting")
  BY <1>1, <1>2, WaiterCloses DEF CloseSeen
<1>3. CASE ~Runs(p, x, "waiting")
  <2>1. Cancel(p, x)
    BY <1>3 DEF CloseSeen
  <2> QED
    BY <1>1, <2>1, OpenIsOther, CancelInv
<1> QED
  BY <1>2, <1>3

-----------------------------------------------------------------------------
(* The handshake.                                                          *)

\* receive().
LEMMA AcceptInv ==
    ASSUME Inv, NEW x \in Files, Accept(x)
    PROVE  Inv'
<1>1. PICK p \in Pages : p = To[x]
  BY Constants
<1>2. PICK r \in Rec : r = f[p][x] /\ RecInv(r)
  BY Known
<1>3. PICK z : z = [r EXCEPT !.state = "connecting", !.pc = "new", !.dc = "new", !.run = "offer"]
  OBVIOUS
<1>4. /\ r.state = "inviting" /\ ~r.up /\ Becomes(p, x, z, <<>>) /\ Carries(<<>>, x)
      /\ UNCHANGED <<data, ack, saved, known, gone>>
  BY <1>1, <1>2, <1>3 DEF Accept, net, Carries
<1>5. z \in Rec
  <2>1. PICK a1 \in Rec : a1 = [r EXCEPT !.state = "connecting"]
    BY DEF Rec, States
  <2>2. PICK a2 \in Rec : a2 = [a1 EXCEPT !.pc = "new"]
    BY DEF Rec
  <2>3. PICK a3 \in Rec : a3 = [a2 EXCEPT !.dc = "new"]
    BY DEF Rec
  <2>4. PICK a4 \in Rec : a4 = [a3 EXCEPT !.run = "offer"]
    BY DEF Rec, Runnings
  <2> QED
    BY <1>3, <2>1, <2>2, <2>3, <2>4
<1>6. /\ z.state = "connecting" /\ z.pc = "new" /\ z.dc = "new" /\ z.run = "offer"
      /\ z.up = r.up /\ z.end = r.end /\ z.datalen = r.datalen
  BY <1>3 DEF Rec
<1>7. r.dc # "open" /\ r.datalen = 0
  BY <1>2, <1>4 DEF RecInv, Alive
<1>8. RecInv(z) /\ Quiet(r, z)
  BY <1>6, <1>7 DEF RecInv, Quiet, Alive
<1>9. ASSUME From[x] = To[x] PROVE SelfInv(x, z, Arrived(inbox[p], <<>>), p \in gone)
  <2>1. SelfInv(x, r, inbox[p], p \in gone)
    BY <1>1, <1>2, <1>9, Known
  <2>2. Lacks(inbox[p], Msg("invite", x))
    BY <1>4, <2>1 DEF SelfInv, InviteFirst, Lacks
  <2>3. Unanswered(z) /\ Listed(r)
    BY <1>4, <1>6 DEF Unanswered, Listed
  <2>4. SelfInv(x, z, inbox[p], p \in gone)
    BY <1>4, <1>6, <2>1, <2>2, <2>3, SelfChanges
  <2> QED
    BY <2>4 DEF Arrived
<1> QED
  BY <1>1, <1>2, <1>4, <1>5, <1>6, <1>8, <1>9, QuietStep

\* The page p, its record changed, sends an offer or a candidate to itself.
LEMMA SelfSends ==
    ASSUME NEW x \in Files, NEW r, NEW z, NEW g, NEW q \in Seq(Message), NEW t \in {"offer", "ice"},
           SelfInv(x, r, q, g), Alive(r), t = "offer" => ~r.up,
           Unanswered(z), z.up = r.up, z.state = r.state
    PROVE  SelfInv(x, z, Arrived(q, <<Msg(t, x)>>), g)
<1>1. PICK m \in Message : m = Msg(t, x)
  BY MsgFacts DEF About
<1>2. m # Msg("invite", x) /\ m # Msg("answer", x) /\ m # Msg("cancel", x) /\ (m = Msg("offer", x) => ~r.up)
  BY <1>1 DEF Msg
<1>3. SelfInv(x, r, Append(q, m), g)
  BY <1>2, SelfGrows DEF Alive
<1>4. SelfInv(x, z, Append(q, m), g)
  BY <1>3, SelfChanges DEF Alive, Listed
<1> QED
  BY <1>1, <1>4 DEF Arrived

\* The local description of an offer is set, and the offer is sent.
LEMMA OfferMadeInv ==
    ASSUME Inv, NEW p \in Pages, NEW x \in Files, OfferMade(p, x),
           UNCHANGED <<data, ack, saved, known, gone>>
    PROVE  Inv'
<1>1. PICK r \in Rec : r = f[p][x] /\ RecInv(r)
  BY Known
<1>2. PICK z : z = [r EXCEPT !.pc = "local", !.run = "none", !.unsent = TRUE]
  OBVIOUS
<1>3. PICK ms : ms = <<Msg("offer", x)>>
  OBVIOUS
<1>4. r.run = "offer" /\ Becomes(p, x, z, ms) /\ Carries(ms, x)
  BY <1>1, <1>2, <1>3 DEF OfferMade, Runs, Carries, About
<1>5. p \in {From[x], To[x]}
  BY <1>1, <1>4, PartyOf
<1>6. z \in Rec
  <2>1. PICK a1 \in Rec : a1 = [r EXCEPT !.pc = "local"]
    BY DEF Rec
  <2>2. PICK a2 \in Rec : a2 = [a1 EXCEPT !.run = "none"]
    BY DEF Rec, Runnings
  <2>3. PICK a3 \in Rec : a3 = [a2 EXCEPT !.unsent = TRUE]
    BY DEF Rec
  <2> QED
    BY <1>2, <2>1, <2>2, <2>3
<1>7. /\ z.state = r.state /\ z.pc = "local" /\ z.dc = r.dc /\ z.run = "none"
      /\ z.up = r.up /\ z.end = r.end /\ z.datalen = r.datalen
  BY <1>2 DEF Rec
<1>8. RecInv(z) /\ Quiet(r, z) /\ Alive(r)
  BY <1>1, <1>4, <1>7 DEF RecInv, Quiet, Alive
<1>9. ASSUME From[x] = To[x] PROVE SelfInv(x, z, Arrived(inbox[p], ms), p \in gone)
  <2>1. SelfInv(x, r, inbox[p], p \in gone) /\ inbox[p] \in Seq(Message)
    BY <1>1, <1>5, <1>9, Known
  <2>2. ~r.up /\ Unanswered(z)
    BY <1>4, <1>7, <2>1 DEF SelfInv, Unanswered
  <2> QED
    BY <1>3, <1>7, <1>8, <2>1, <2>2, SelfSends
<1> QED
  BY <1>1, <1>4, <1>5, <1>6, <1>7, <1>8, <1>9, QuietStep

\* A candidate is found.
LEMMA CandidateFoundInv ==
    ASSUME Inv, NEW p \in Pages, NEW x \in Files, CandidateFound(p, x),
           UNCHANGED <<data, ack, saved, known, gone>>
    PROVE  Inv'
<1>1. PICK r \in Rec : r = f[p][x] /\ RecInv(r)
  BY Known
<1>2. PICK z : z = [r EXCEPT !.unsent = FALSE]
  OBVIOUS
<1>3. PICK ms : ms = <<Msg("ice", x)>>
  OBVIOUS
<1>4. r.unsent /\ Becomes(p, x, z, ms) /\ Carries(ms, x)
  BY <1>1, <1>2, <1>3 DEF CandidateFound, Carries, About
<1>5. p \in {From[x], To[x]}
  BY <1>1, <1>4, PartyOf
<1>6. z \in Rec
  BY <1>2 DEF Rec
<1>7. /\ z.state = r.state /\ z.pc = r.pc /\ z.dc = r.dc /\ z.run = r.run /\ z.unsent = FALSE
      /\ z.up = r.up /\ z.end = r.end /\ z.datalen = r.datalen
  BY <1>2 DEF Rec
<1>8. RecInv(z) /\ Quiet(r, z) /\ Alive(r)
  BY <1>1, <1>4, <1>7 DEF RecInv, Quiet, Alive
<1>9. ASSUME From[x] = To[x] PROVE SelfInv(x, z, Arrived(inbox[p], ms), p \in gone)
  <2>1. SelfInv(x, r, inbox[p], p \in gone) /\ inbox[p] \in Seq(Message)
    BY <1>1, <1>5, <1>9, Known
  <2>2. Unanswered(z)
    BY <1>7, <2>1 DEF SelfInv, Unanswered
  <2> QED
    BY <1>3, <1>7, <1>8, <2>1, <2>2, SelfSends
<1> QED
  BY <1>1, <1>4, <1>5, <1>6, <1>7, <1>8, <1>9, QuietStep

Joins(r, u) == Event([Flushed(r) EXCEPT !.run = "none", !.unsent = u], "connected")

\* The state is "connected", and candidates that were held back are heard.
LEMMA ConnectedFacts ==
    ASSUME NEW r \in Rec, RecInv(r), NEW u \in BOOLEAN, NEW z, z = Joins(r, u)
    PROVE  /\ z \in Rec /\ RecInv(z) /\ Quiet(r, z) /\ z.end = r.end
           /\ z.state = "connected" /\ z.pc = "stable" /\ z.run = "none" /\ z.up = r.up
<1>1. PICK v \in BOOLEAN : v = (r.heard \/ r.held > 0)
  <2>1. (r.heard \/ r.held > 0) \in BOOLEAN
    OBVIOUS
  <2> QED
    BY <2>1, Zenon
<1>2. PICK a1 \in Rec : a1 = [r EXCEPT !.pc = "stable"]
  BY DEF Rec
<1>3. PICK a2 \in Rec : a2 = [a1 EXCEPT !.heard = v]
  BY DEF Rec
<1>4. PICK a3 \in Rec : a3 = [a2 EXCEPT !.held = 0]
  BY DEF Rec
<1>5. PICK a4 \in Rec : a4 = [a3 EXCEPT !.run = "none"]
  BY DEF Rec, Runnings
<1>6. PICK a5 \in Rec : a5 = [a4 EXCEPT !.unsent = u]
  BY DEF Rec
<1>7. PICK a6 \in Rec : a6 = [a5 EXCEPT !.state = "connected"]
  BY DEF Rec, States
<1>8. Flushed(r) = a3
  <2>1. Flushed(r) = [r EXCEPT !.pc = "stable", !.heard = v, !.held = 0]
    BY <1>1 DEF Flushed
  <2> QED
    BY <1>2, <1>3, <1>4, <2>1
<1>9. z = a6
  BY <1>5, <1>6, <1>7, <1>8 DEF Event, Joins
<1>12. a3.pc = "stable" /\ a3.up = r.up /\ a3.end = r.end /\ a3.dc = r.dc /\ a3.datalen = r.datalen
  BY <1>2, <1>3, <1>4 DEF Rec
<1>13. /\ z.state = "connected" /\ z.run = "none" /\ z.pc = a3.pc /\ z.up = a3.up
       /\ z.end = a3.end /\ z.dc = a3.dc /\ z.datalen = a3.datalen
  BY <1>5, <1>6, <1>7, <1>9 DEF Rec
<1>10. /\ z.state = "connected" /\ z.pc = "stable" /\ z.run = "none" /\ z.up = r.up
       /\ z.end = r.end /\ z.dc = r.dc /\ z.datalen = r.datalen
  BY <1>12, <1>13
<1>11. RecInv(z) /\ Quiet(r, z)
  BY <1>10 DEF RecInv, Quiet, Alive
<1> QED
  BY <1>9, <1>10, <1>11

\* Nobody answers himself.
LEMMA AnswersAnother ==
    ASSUME Inv, NEW p \in Pages, NEW x \in Files, f[p][x].run \in {"answer", "setting"}
    PROVE  p \in {From[x], To[x]} /\ From[x] # To[x]
<1>1. p \in {From[x], To[x]}
  BY PartyOf
<1>2. ASSUME From[x] = To[x] PROVE FALSE
  <2>1. SelfInv(x, f[p][x], inbox[p], p \in gone)
    BY <1>1, <1>2, Known
  <2> QED
    BY <2>1 DEF SelfInv, Unanswered
<1> QED
  BY <1>1, <1>2

\* The answer is made, and sent.
LEMMA AnswerMadeInv ==
    ASSUME Inv, NEW p \in Pages, NEW x \in Files, AnswerMade(p, x),
           UNCHANGED <<data, ack, saved, known, gone>>
    PROVE  Inv'
<1>1. PICK r \in Rec : r = f[p][x] /\ RecInv(r)
  BY Known
<1>2. PICK z : z = Joins(r, TRUE)
  OBVIOUS
<1>3. PICK ms : ms = <<Msg("answer", x)>>
  OBVIOUS
<1>4. r.run = "answer" /\ Becomes(p, x, z, ms) /\ Carries(ms, x)
  BY <1>1, <1>2, <1>3 DEF AnswerMade, Runs, Carries, About, Joins
<1>5. p \in {From[x], To[x]} /\ From[x] # To[x]
  BY <1>1, <1>4, AnswersAnother
<1>6. z \in Rec /\ RecInv(z) /\ Quiet(r, z) /\ z.end = r.end
  BY <1>1, <1>2, ConnectedFacts
<1> QED
  BY <1>1, <1>4, <1>5, <1>6, QuietStep

\* The answer has been set.
LEMMA AnswerSetInv ==
    ASSUME Inv, NEW p \in Pages, NEW x \in Files, AnswerSet(p, x),
           UNCHANGED <<data, ack, saved, known, gone>>
    PROVE  Inv'
<1>1. PICK r \in Rec : r = f[p][x] /\ RecInv(r) /\ r.unsent \in BOOLEAN
  BY Known DEF Rec
<1>2. PICK z : z = Joins(r, r.unsent)
  OBVIOUS
<1>3. [Flushed(r) EXCEPT !.run = "none"] = [Flushed(r) EXCEPT !.run = "none", !.unsent = r.unsent]
  BY DEF Flushed, Rec
<1>4. r.run = "setting" /\ Becomes(p, x, z, <<>>) /\ Carries(<<>>, x)
  BY <1>1, <1>2, <1>3 DEF AnswerSet, Runs, Carries, Joins
<1>5. p \in {From[x], To[x]} /\ From[x] # To[x]
  BY <1>1, <1>4, AnswersAnother
<1>6. z \in Rec /\ RecInv(z) /\ Quiet(r, z) /\ z.end = r.end
  BY <1>1, <1>2, ConnectedFacts
<1> QED
  BY <1>1, <1>4, <1>5, <1>6, QuietStep

\* sendFile().
LEMMA OfferInv ==
    ASSUME Inv, NEW x \in Files, Offer(x)
    PROVE  Inv'
<1>1. PICK p \in Pages : p = From[x]
  BY Constants
<1>2. PICK z : z = [NoFile EXCEPT !.up = TRUE, !.state = "inviting"]
  OBVIOUS
<1>3. PICK ms : ms = <<Msg("invite", x)>>
  OBVIOUS
<1>4. /\ p \notin gone /\ f[p][x] = NoFile /\ f' = [f EXCEPT ![p][x] = z]
      /\ inbox' = Sent(To[x], ms) /\ UNCHANGED <<link, data, ack, saved, known, gone>>
  BY <1>1, <1>2, <1>3 DEF Offer, net
<1>5. /\ z \in Rec /\ z.state = "inviting" /\ z.up = TRUE /\ z.pc = "none" /\ z.run = "none"
      /\ z.dc = "none" /\ z.datalen = 0 /\ z.unsent = FALSE /\ z.end = "none"
  BY <1>2 DEF NoFile, Rec, States, Runnings
<1>6. RecInv(z) /\ Quiet(f[p][x], z) /\ Unanswered(z)
  BY <1>5 DEF RecInv, Quiet, Alive, Unanswered
<1>7. Posting(p, x, ms) /\ Carries(ms, x) /\ ms # <<>> /\ ms[1] = Msg("invite", x)
  BY <1>1, <1>3, <1>4 DEF Posting, Peer, Carries, About
<1>8. /\ inbox' \in [Pages -> Seq(Message)] /\ Posts'
      /\ \A y \in Files \ {x} : From[y] = To[y] =>
            SelfInv(y, f[From[y]][y], inbox'[From[y]], From[y] \in gone)
      /\ From[x] = To[x] => inbox'[p] = Arrived(inbox[p], ms)
  BY <1>1, <1>4, <1>7, BecomesPosts
<1>9. ASSUME From[x] = To[x] PROVE SelfInv(x, z, inbox'[From[x]], From[x] \in gone)
  <2>1. SelfInv(x, f[p][x], inbox[p], p \in gone) /\ inbox[p] \in Seq(Message)
    BY <1>1, <1>9, Known
  <2>2. f[p][x].state = "unset"
    BY <1>4 DEF NoFile
  <2>3. SelfInv(x, z, Append(inbox[p], Msg("invite", x)), p \in gone)
    BY <1>5, <1>6, <2>1, <2>2, SelfInvites
  <2> QED
    BY <1>1, <1>7, <1>8, <1>9, <2>3 DEF Arrived
<1>10. ChunkInv(SideS(p, x, z), SideR(p, x, z), data[x], link[x], Size[x])
  BY <1>5, <1>6, QuietChunks
<1>11. /\ data \in [Files -> Nat] /\ ack \in [Files -> BOOLEAN] /\ saved \subseteq Files \X Nat
       /\ \A s \in saved : s[2] = Size[s[1]]
       /\ ack[x] => <<x, Size[x]>> \in saved
       /\ link \in [Files -> {"none", "up", "cut"}]
  BY DEF Inv, Types, Savings
<1>12. Replaced(p, x, z) /\ LinkStep(x)
  BY <1>4, <1>11 DEF Replaced, LinkStep
<1> QED
  BY <1>1, <1>4, <1>5, <1>6, <1>8, <1>9, <1>10, <1>11, <1>12, OneStep

-----------------------------------------------------------------------------
(* The data channel.                                                       *)

\* A chunk is sent.
LEMMA SendChunkInv ==
    ASSUME Inv, NEW x \in Files, SendChunk(x), UNCHANGED <<known, gone>>
    PROVE  Inv'
<1>1. PICK p \in Pages : p = From[x]
  BY Constants
<1>2. PICK r \in Rec : r = f[p][x] /\ RecInv(r)
  BY Known
<1>3. PICK z : z = Event([r EXCEPT !.datalen = @ + 1], "connected")
  OBVIOUS
<1>4. /\ r.dc = "open" /\ r.datalen < Size[x] /\ Becomes(p, x, z, <<>>) /\ Carries(<<>>, x)
      /\ data' = [data EXCEPT ![x] = @ + 1] /\ UNCHANGED <<ack, saved>>
  BY <1>1, <1>2, <1>3 DEF SendChunk, Carries
<1>5. From[x] # To[x] /\ link[x] # "none"
  BY <1>1, <1>2, <1>4, OpenIsOther
<1>6. r.datalen \in Nat
  BY DEF Rec
<1>7. /\ z \in Rec
  <2>3. PICK n \in Nat : n = r.datalen + 1
    BY <1>6
  <2>1. PICK a1 \in Rec : a1 = [r EXCEPT !.datalen = n]
    BY DEF Rec
  <2>2. PICK a2 \in Rec : a2 = [a1 EXCEPT !.state = "connected"]
    BY DEF Rec, States
  <2> QED
    BY <1>3, <2>1, <2>2, <2>3 DEF Event
<1>8. /\ z.state = "connected" /\ z.dc = "open" /\ z.datalen = r.datalen + 1 /\ z.end = r.end
  BY <1>3, <1>4 DEF Rec, Event
<1>9. RecInv(z)
  BY <1>8 DEF RecInv, Alive
<1>10. PICK o \in Rec : o = f[To[x]][x]
  BY Constants, Known
<1>11. /\ data \in [Files -> Nat] /\ ack \in [Files -> BOOLEAN] /\ saved \subseteq Files \X Nat
       /\ \A s \in saved : s[2] = Size[s[1]]
       /\ ack[x] \/ r.end = "done" => <<x, Size[x]>> \in saved
  BY <1>1, <1>2 DEF Inv, Types, Savings
<1>12. /\ data' \in [Files -> Nat] /\ data'[x] = data[x] + 1 /\ data[x] \in Nat
       /\ \A y \in Files \ {x} : data'[y] = data[y]
  BY <1>4, <1>11
<1>13. ChunkInv(r, o, data[x], link[x], Size[x]) /\ o.datalen \in Nat /\ Size[x] \in Nat
  BY <1>1, <1>2, <1>10, Constants, Known DEF Rec
<1>14. ChunkInv(z, o, data'[x], link[x], Size[x])
  BY <1>4, <1>5, <1>6, <1>8, <1>12, <1>13 DEF ChunkInv
<1>15. ChunkInv(SideS(p, x, z), SideR(p, x, z), data'[x], link[x], Size[x])
  BY <1>1, <1>5, <1>10, <1>14 DEF SideS, SideR
<1> QED
  BY <1>1, <1>4, <1>5, <1>7, <1>8, <1>9, <1>11, <1>12, <1>15, Becoming

\* A chunk is received.
LEMMA TakeChunkInv ==
    ASSUME Inv, NEW x \in Files, TakeChunk(x), UNCHANGED <<known, gone>>
    PROVE  Inv'
<1>1. PICK p \in Pages : p = To[x]
  BY Constants
<1>2. PICK r \in Rec : r = f[p][x] /\ RecInv(r)
  BY Known
<1>3. r.datalen \in Nat /\ Size[x] \in Nat
  BY Constants DEF Rec
<1>4. PICK last \in BOOLEAN : last = (r.datalen + 1 = Size[x])
  OBVIOUS
<1>5. PICK z : z = IF last THEN [r EXCEPT !.state = "done", !.end = "done", !.run = "waiting", !.datalen = 0]
                   ELSE Event([r EXCEPT !.datalen = @ + 1], "connected")
  OBVIOUS
<1>6. /\ r.dc = "open" /\ data[x] > 0 /\ Becomes(p, x, z, <<>>) /\ Carries(<<>>, x)
      /\ data' = [data EXCEPT ![x] = @ - 1]
      /\ ack' = [ack EXCEPT ![x] = last /\ link[x] = "up"]
      /\ saved' = IF last THEN saved \cup {<<x, r.datalen + 1>>} ELSE saved
  BY <1>1, <1>2, <1>4, <1>5 DEF TakeChunk, Complete, Carries
<1>7. From[x] # To[x] /\ link[x] # "none"
  BY <1>1, <1>2, <1>6, OpenIsOther
<1>8. z \in Rec
  <2>1. CASE last
    <3>1. PICK a1 \in Rec : a1 = [r EXCEPT !.state = "done"]
      BY DEF Rec, States
    <3>2. PICK a2 \in Rec : a2 = [a1 EXCEPT !.end = "done"]
      BY DEF Rec
    <3>3. PICK a3 \in Rec : a3 = [a2 EXCEPT !.run = "waiting"]
      BY DEF Rec, Runnings
    <3>4. PICK a4 \in Rec : a4 = [a3 EXCEPT !.datalen = 0]
      BY DEF Rec
    <3> QED
      BY <1>5, <2>1, <3>1, <3>2, <3>3, <3>4
  <2>2. CASE ~last
    <3>3. PICK n \in Nat : n = r.datalen + 1
      BY <1>3
    <3>1. PICK a1 \in Rec : a1 = [r EXCEPT !.datalen = n]
      BY DEF Rec
    <3>2. PICK a2 \in Rec : a2 = [a1 EXCEPT !.state = "connected"]
      BY DEF Rec, States
    <3> QED
      BY <1>5, <2>2, <3>1, <3>2, <3>3 DEF Event
  <2> QED
    BY <2>1, <2>2
<1>9. /\ z.state \in {"done", "connected"} /\ z.dc = "open"
      /\ z.datalen = IF last THEN 0 ELSE r.datalen + 1
  <2>1. CASE last
    BY <1>5, <1>6, <2>1 DEF Rec
  <2>2. CASE ~last
    BY <1>5, <1>6, <2>2 DEF Rec, Event
  <2> QED
    BY <2>1, <2>2
<1>10. RecInv(z)
  BY <1>9 DEF RecInv, Alive
<1>11. PICK s \in Rec : s = f[From[x]][x]
  BY Constants, Known
<1>12. /\ data \in [Files -> Nat] /\ ack \in [Files -> BOOLEAN] /\ saved \subseteq Files \X Nat
       /\ \A u \in saved : u[2] = Size[u[1]]
  BY DEF Inv, Types, Savings
<1>13. /\ data' \in [Files -> Nat] /\ data'[x] = data[x] - 1 /\ data[x] \in Nat
       /\ \A y \in Files \ {x} : data'[y] = data[y]
  BY <1>6, <1>12
<1>14. ChunkInv(s, r, data[x], link[x], Size[x]) /\ s.datalen \in Nat
  BY <1>1, <1>2, <1>11, Constants, Known DEF Rec
<1>15. ChunkInv(s, z, data'[x], link[x], Size[x])
  BY <1>3, <1>6, <1>7, <1>9, <1>13, <1>14 DEF ChunkInv
<1>16. ChunkInv(SideS(p, x, z), SideR(p, x, z), data'[x], link[x], Size[x])
  BY <1>1, <1>7, <1>11, <1>15 DEF SideS, SideR
<1>17. /\ saved \subseteq saved' /\ saved' \subseteq Files \X Nat
       /\ \A u \in saved' : u[2] = Size[u[1]]
       /\ last => <<x, Size[x]>> \in saved'
  <2>1. CASE ~last
    BY <1>6, <1>12, <2>1
  <2>2. CASE last
    <3>1. saved' = saved \cup {<<x, Size[x]>>}
      BY <1>4, <1>6, <2>2
    <3>2. <<x, Size[x]>> \in Files \X Nat
      BY <1>3
    <3>3. PICK w : w = <<x, Size[x]>>
      OBVIOUS
    <3>4. w[1] = x /\ w[2] = Size[x]
      BY <3>3
    <3> QED
      BY <1>12, <3>1, <3>2, <3>3, <3>4
  <2> QED
    BY <2>1, <2>2
<1>18. /\ ack' \in [Files -> BOOLEAN] /\ (ack'[x] => last)
       /\ \A y \in Files \ {x} : ack'[y] = ack[y]
  <2>1. PICK v \in BOOLEAN : v = (last /\ link[x] = "up") /\ (v => last)
    OBVIOUS
  <2>2. ack' = [ack EXCEPT ![x] = v]
    BY <1>6, <2>1, Zenon
  <2> QED
    BY <1>12, <2>1, <2>2
<1> QED
  BY <1>1, <1>6, <1>7, <1>8, <1>10, <1>13, <1>16, <1>17, <1>18, Becoming

-----------------------------------------------------------------------------
(* Steps of more than one record, or of none.                              *)

\* The parts of the invariant, after a step.
LEMMA Primed ==
    ASSUME Types', Posts',
           \A p \in Pages, x \in Files :
               RecInv(f'[p][x]) /\ (p \notin {From[x], To[x]} => f'[p][x] = NoFile),
           \A x \in Files : ChunkInv(f'[From[x]][x], f'[To[x]][x], data'[x], link'[x], Size[x]),
           \A x \in Files : ack'[x] \/ f'[From[x]][x].end = "done" => <<x, Size[x]>> \in saved',
           \A s \in saved' : s[2] = Size[s[1]],
           \A x \in Files : From[x] = To[x] =>
               SelfInv(x, f'[From[x]][x], inbox'[From[x]], From[x] \in gone') /\ link'[x] = "none"
    PROVE  Inv'
<1>1. Records'
  BY DEF Records, RecInv, Alive
<1>2. Counted'
  BY DEF Counted, ChunkInv
<1>3. Savings'
  BY DEF Savings
<1>4. ASSUME NEW x \in Files, From[x] = To[x]
      PROVE  SelfInv(x, f[From[x]][x], inbox[From[x]], From[x] \in gone)' /\ link'[x] = "none"
  BY <1>4 DEF SelfInv, Unanswered, Possible, InviteFirst, CancelFirst, Lacks, Listed, Msg
<1>5. Selves'
  BY <1>4 DEF Selves
<1> QED
  BY <1>1, <1>2, <1>3, <1>5 DEF Inv

\* The channel opens.
LEMMA OpensInv ==
    ASSUME Inv, NEW x \in Files, Opens(x), UNCHANGED <<known, gone>>
    PROVE  Inv'
<1>1. PICK p \in Pages : p = From[x]
  BY Constants
<1>2. PICK q \in Pages : q = To[x]
  BY Constants
<1>3. PICK s \in Rec : s = f[p][x] /\ RecInv(s)
  BY Known
<1>4. PICK r \in Rec : r = f[q][x] /\ RecInv(r)
  BY Known
<1>5. /\ link[x] = "none" /\ s.pc = "stable" /\ r.pc = "stable"
      /\ link' = [link EXCEPT ![x] = "up"] /\ UNCHANGED <<inbox, data, ack, saved>>
      /\ f' = [f EXCEPT ![p][x].dc = "open", ![q][x].dc = "open"]
  BY <1>1, <1>2, <1>3, <1>4 DEF Opens
<1>6. p # q
  <2>1. ASSUME p = q PROVE FALSE
    <3>1. SelfInv(x, s, inbox[p], p \in gone)
      BY <1>1, <1>2, <1>3, <2>1, Known
    <3> QED
      BY <1>5, <3>1 DEF SelfInv, Unanswered
  <2> QED
    BY <2>1
<1>7. PICK s2 \in Rec : s2 = [s EXCEPT !.dc = "open"]
  BY DEF Rec
<1>8. PICK r2 \in Rec : r2 = [r EXCEPT !.dc = "open"]
  BY DEF Rec
<1>9. /\ s2.pc = s.pc /\ s2.state = s.state /\ s2.run = s.run /\ s2.dc = "open" /\ s2.unsent = s.unsent
      /\ s2.datalen = s.datalen /\ s2.end = s.end
  BY <1>7 DEF Rec
<1>10. /\ r2.pc = r.pc /\ r2.state = r.state /\ r2.run = r.run /\ r2.dc = "open" /\ r2.unsent = r.unsent
       /\ r2.datalen = r.datalen
  BY <1>8 DEF Rec
<1>11. RecInv(s2) /\ RecInv(r2)
  BY <1>3, <1>4, <1>5, <1>9, <1>10 DEF RecInv, Alive
<1>12. /\ f' \in [Pages -> [Files -> Rec]] /\ f'[p][x] = s2 /\ f'[q][x] = r2
       /\ \A u \in Pages, y \in Files : u \notin {p, q} \/ y # x => f'[u][y] = f[u][y]
  <2>1. f \in [Pages -> [Files -> Rec]]
    BY DEF Inv, Types
  <2>2. PICK g \in [Files -> Rec] : g = [f[p] EXCEPT ![x] = s2]
    BY <2>1
  <2>3. PICK h \in [Files -> Rec] : h = [f[q] EXCEPT ![x] = r2]
    BY <2>1
  <2>4. f' = [f EXCEPT ![p] = g, ![q] = h]
    BY <1>3, <1>4, <1>5, <1>6, <1>7, <1>8, <2>1, <2>2, <2>3
  <2>5. /\ f' \in [Pages -> [Files -> Rec]]
        /\ \A u \in Pages : f'[u] = IF u = p THEN g ELSE IF u = q THEN h ELSE f[u]
    BY <1>6, <2>1, <2>4
  <2>6. \A y \in Files : /\ g[y] = IF y = x THEN s2 ELSE f[p][y]
                         /\ h[y] = IF y = x THEN r2 ELSE f[q][y]
    BY <2>1, <2>2, <2>3
  <2> QED
    BY <1>6, <2>5, <2>6
<1>13. /\ link' \in [Files -> {"none", "up", "cut"}] /\ link'[x] = "up"
       /\ \A y \in Files \ {x} : link'[y] = link[y]
  BY <1>5 DEF Inv, Types
<1>19. Types'
  BY <1>5, <1>12, <1>13 DEF Inv, Types
<1>14. Posts'
  BY <1>5 DEF Inv, Posts, For, Note
<1>20. UNCHANGED <<data, inbox>>
  BY <1>5
<1>15. ASSUME NEW u \in Pages, NEW y \in Files
       PROVE  RecInv(f'[u][y]) /\ (u \notin {From[y], To[y]} => f'[u][y] = NoFile)
  <2>1. CASE u \notin {p, q} \/ y # x
    BY <1>12, <2>1, Known
  <2>2. CASE u \in {p, q} /\ y = x
    BY <1>1, <1>2, <1>11, <1>12, <2>2
  <2> QED
    BY <2>1, <2>2
<1>16. ASSUME NEW y \in Files
       PROVE  ChunkInv(f'[From[y]][y], f'[To[y]][y], data'[y], link'[y], Size[y])
  <2>1. CASE y # x
    <3>1. ChunkInv(f[From[y]][y], f[To[y]][y], data[y], link[y], Size[y])
      BY Constants, Known
    <3>2. f'[From[y]][y] = f[From[y]][y] /\ f'[To[y]][y] = f[To[y]][y]
      BY <1>12, <2>1, Constants
    <3> QED
      BY <1>13, <1>20, <2>1, <3>1, <3>2
  <2>2. CASE y = x
    <3>1. ChunkInv(s, r, data[x], "none", Size[x]) /\ Size[x] \in Nat
      BY <1>1, <1>2, <1>3, <1>4, <1>5, Constants, Known
    <3>2. s.datalen = 0 /\ r.datalen = 0 /\ data[x] = 0
      BY <1>3, <1>4, <3>1 DEF ChunkInv, RecInv
    <3>3. ChunkInv(s2, r2, data[x], "up", Size[x])
      BY <1>9, <1>10, <3>1, <3>2 DEF ChunkInv
    <3>4. f'[From[x]][x] = s2 /\ f'[To[x]][x] = r2
      BY <1>1, <1>2, <1>12
    <3> QED
      BY <1>13, <1>20, <2>2, <3>3, <3>4
  <2> QED
    BY <2>1, <2>2
<1>17. /\ \A y \in Files : ack'[y] \/ f'[From[y]][y].end = "done" => <<y, Size[y]>> \in saved'
       /\ \A t \in saved' : t[2] = Size[t[1]]
  <2>1. \A y \in Files : f'[From[y]][y].end = f[From[y]][y].end
    <3>1. ASSUME NEW y \in Files PROVE f'[From[y]][y].end = f[From[y]][y].end
      <4>1. CASE y = x
        BY <1>1, <1>3, <1>9, <1>12, <4>1
      <4>2. CASE y # x
        BY <1>12, <4>2, Constants
      <4> QED
        BY <4>1, <4>2
    <3> QED
      BY <3>1
  <2> QED
    BY <1>5, <2>1 DEF Inv, Savings
<1>18. ASSUME NEW y \in Files, From[y] = To[y]
       PROVE  SelfInv(y, f'[From[y]][y], inbox'[From[y]], From[y] \in gone') /\ link'[y] = "none"
  <2>1. y # x
    BY <1>1, <1>2, <1>6, <1>18
  <2>2. SelfInv(y, f[From[y]][y], inbox[From[y]], From[y] \in gone) /\ link[y] = "none"
    BY <1>18, Constants, Known
  <2> QED
    BY <1>5, <1>12, <1>13, <2>1, <2>2, Constants
<1> QED
  BY <1>14, <1>15, <1>16, <1>17, <1>18, <1>19, Primed

\* The channel breaks.
LEMMA BreaksInv ==
    ASSUME Inv, NEW x \in Files, Breaks(x)
    PROVE  Inv'
<1>1. /\ link[x] = "up" /\ link' = [link EXCEPT ![x] = "cut"]
      /\ UNCHANGED <<f, inbox, data, ack, saved, known, gone>>
  BY DEF Breaks
<1>2. /\ link' \in [Files -> {"none", "up", "cut"}] /\ link'[x] = "cut"
      /\ \A y \in Files \ {x} : link'[y] = link[y]
  BY <1>1 DEF Inv, Types
<1>3. Types' /\ Posts'
  BY <1>1, <1>2 DEF Inv, Types, Posts, For, Note
<1>4. ASSUME NEW y \in Files
      PROVE  ChunkInv(f'[From[y]][y], f'[To[y]][y], data'[y], link'[y], Size[y])
  <2>1. ChunkInv(f[From[y]][y], f[To[y]][y], data[y], link[y], Size[y])
    BY Constants, Known
  <2>2. CASE y # x
    BY <1>1, <1>2, <2>1, <2>2
  <2>3. CASE y = x
    BY <1>1, <1>2, <2>1, <2>3 DEF ChunkInv
  <2> QED
    BY <2>2, <2>3
<1>5. \A p \in Pages, y \in Files : RecInv(f'[p][y]) /\ (p \notin {From[y], To[y]} => f'[p][y] = NoFile)
  BY <1>1, Known
<1>6. /\ \A y \in Files : ack'[y] \/ f'[From[y]][y].end = "done" => <<y, Size[y]>> \in saved'
      /\ \A s \in saved' : s[2] = Size[s[1]]
  BY <1>1 DEF Inv, Savings
<1>7. ASSUME NEW y \in Files, From[y] = To[y]
      PROVE  SelfInv(y, f'[From[y]][y], inbox'[From[y]], From[y] \in gone') /\ link'[y] = "none"
  <2>1. SelfInv(y, f[From[y]][y], inbox[From[y]], From[y] \in gone) /\ link[y] = "none"
    BY <1>7, Constants, Known
  <2> QED
    BY <1>1, <1>2, <2>1
<1> QED
  BY <1>3, <1>4, <1>5, <1>6, <1>7, Primed

\* A page leaves.
LEMMA LeaveInv ==
    ASSUME Inv, NEW p \in Pages, Leave(p)
    PROVE  Inv'
<1>1. /\ p \notin gone /\ gone' = gone \cup {p}
      /\ inbox' = [q \in Pages |-> IF q = p \/ q \in gone THEN <<>> ELSE Append(inbox[q], Note(p))]
      /\ UNCHANGED <<f, link, data, ack, known, saved>>
  BY DEF Leave
<1>2. PICK m \in Message : m = Note(p) /\ m.type = "delete"
  <2>1. Note(p) \in [type : {"delete"}, x : Pages] /\ Note(p).type = "delete"
    BY DEF Note
  <2> QED
    BY <2>1, Zenon DEF Message
<1>3. inbox \in [Pages -> Seq(Message)] /\ gone' \subseteq Pages
  BY <1>1 DEF Inv, Types
<1>4. inbox' \in [Pages -> Seq(Message)]
  <2>1. ASSUME NEW q \in Pages
        PROVE  (IF q = p \/ q \in gone THEN <<>> ELSE Append(inbox[q], Note(p))) \in Seq(Message)
    BY <1>2, <1>3
  <2> QED
    BY <1>1, <2>1
<1>5. Types'
  BY <1>1, <1>3, <1>4 DEF Inv, Types
<1>6. ASSUME NEW q \in Pages
      PROVE  /\ q \in gone' => inbox'[q] = <<>>
             /\ \A k \in 1 .. Len(inbox'[q]) : For(q, inbox'[q][k])
  <2>1. CASE q \in gone'
    <3>1. inbox'[q] = <<>>
      BY <1>1, <2>1
    <3> QED
      BY <3>1
  <2>2. CASE q \notin gone'
    <3>1. PICK a : a = Append(inbox[q], m)
      OBVIOUS
    <3>2. inbox'[q] = a /\ q # p
      BY <1>1, <1>2, <2>2, <3>1
    <3>3. \A k \in 1 .. Len(a) : (k \in 1 .. Len(inbox[q]) /\ a[k] = inbox[q][k]) \/ (k = Len(inbox[q]) + 1 /\ a[k] = m)
      BY <1>3, <3>1, AppendHas
    <3>4. \A k \in 1 .. Len(inbox[q]) : For(q, inbox[q][k])
      BY DEF Inv, Posts
    <3>5. For(q, m)
      BY <1>2, <3>2 DEF For, Note
    <3> QED
      BY <2>2, <3>2, <3>3, <3>4, <3>5
  <2> QED
    BY <2>1, <2>2
<1>7. Posts'
  BY <1>6 DEF Posts, For, Note
<1>8. ASSUME NEW y \in Files
      PROVE  ChunkInv(f'[From[y]][y], f'[To[y]][y], data'[y], link'[y], Size[y])
  BY <1>1, Constants, Known
<1>9. \A q \in Pages, y \in Files : RecInv(f'[q][y]) /\ (q \notin {From[y], To[y]} => f'[q][y] = NoFile)
  BY <1>1, Known
<1>10. /\ \A y \in Files : ack'[y] \/ f'[From[y]][y].end = "done" => <<y, Size[y]>> \in saved'
       /\ \A s \in saved' : s[2] = Size[s[1]]
  BY <1>1 DEF Inv, Savings
<1>11. ASSUME NEW y \in Files, From[y] = To[y]
       PROVE  SelfInv(y, f'[From[y]][y], inbox'[From[y]], From[y] \in gone') /\ link'[y] = "none"
  <2>1. PICK q \in Pages : q = From[y]
    BY Constants
  <2>2. SelfInv(y, f[q][y], inbox[q], q \in gone) /\ link[y] = "none" /\ inbox[q] \in Seq(Message)
    BY <1>11, <2>1, Known
  <2>3. CASE q \in gone'
    <3>1. inbox'[q] = <<>> /\ SelfInv(y, f[q][y], <<>>, TRUE)
      BY <1>1, <2>2, <2>3, SelfLeaves
    <3>2. SelfInv(y, f'[q][y], inbox'[q], q \in gone')
      BY <1>1, <2>3, <3>1 DEF SelfInv
    <3> QED
      BY <1>1, <2>1, <2>2, <3>2
  <2>4. CASE q \notin gone'
    <3>1. \A t \in About : m # Msg(t, y)
      BY <1>2, MsgFacts
    <3>2. SelfInv(y, f[q][y], Append(inbox[q], m), q \in gone)
      BY <2>2, <3>1, SelfGrows DEF About
    <3>3. inbox'[q] = Append(inbox[q], m)
      BY <1>1, <1>2, <2>4
    <3>4. SelfInv(y, f'[q][y], inbox'[q], q \in gone')
      BY <1>1, <2>4, <3>2, <3>3 DEF SelfInv
    <3> QED
      BY <1>1, <2>1, <2>2, <3>4
  <2> QED
    BY <2>3, <2>4
<1> QED
  BY <1>5, <1>7, <1>8, <1>9, <1>10, <1>11, Primed

-----------------------------------------------------------------------------
(* A message is delivered.                                                 *)

Taken(p) == inbox' = [inbox EXCEPT ![p] = Tail(@)]

\* The inboxes when the first message of p is taken.
LEMMA TakenPosts ==
    ASSUME Inv, NEW p \in Pages, inbox[p] # <<>>, Taken(p), UNCHANGED gone
    PROVE  /\ inbox' \in [Pages -> Seq(Message)] /\ Posts'
           /\ \A q \in Pages : inbox'[q] = IF q = p THEN Tail(inbox[p]) ELSE inbox[q]
           /\ Head(inbox[p]) \in Message /\ For(p, Head(inbox[p]))
<1>1. inbox \in [Pages -> Seq(Message)] /\ inbox[p] \in Seq(Message)
  BY DEF Inv, Types
<1>2. PICK t \in Seq(Message) : t = Tail(inbox[p])
  BY <1>1, TailAt
<1>3. /\ inbox' \in [Pages -> Seq(Message)]
      /\ \A q \in Pages : inbox'[q] = IF q = p THEN t ELSE inbox[q]
  BY <1>1, <1>2 DEF Taken
<1>4. /\ \A k \in 1 .. Len(t) : k + 1 \in 1 .. Len(inbox[p]) /\ t[k] = inbox[p][k + 1]
      /\ 1 \in 1 .. Len(inbox[p])
  BY <1>1, <1>2, TailHas
<1>5. Head(inbox[p]) = inbox[p][1] /\ inbox[p][1] \in Message
  BY <1>1, TailAt
<1>6. ASSUME NEW q \in Pages
      PROVE  /\ q \in gone => inbox'[q] = <<>>
             /\ \A k \in 1 .. Len(inbox'[q]) : For(q, inbox'[q][k])
  <2>1. /\ q \in gone => inbox[q] = <<>>
        /\ \A k \in 1 .. Len(inbox[q]) : For(q, inbox[q][k])
    BY DEF Inv, Posts
  <2>2. CASE q # p
    BY <1>3, <2>1, <2>2
  <2>3. CASE q = p
    <3>1. inbox'[q] = t /\ q \notin gone
      BY <1>3, <2>1, <2>3
    <3>2. \A k \in 1 .. Len(t) : For(q, t[k])
      BY <1>4, <2>1, <2>3
    <3> QED
      BY <3>1, <3>2
  <2> QED
    BY <2>2, <2>3
<1>7. Posts'
  BY <1>6 DEF Posts, For, Note
<1>8. For(p, Head(inbox[p]))
  BY <1>4, <1>5 DEF Inv, Posts
<1> QED
  BY <1>2, <1>3, <1>5, <1>7, <1>8

\* Another transfer is not concerned.
LEMMA TakenOthers ==
    ASSUME Inv, NEW p \in Pages, inbox[p] # <<>>, Taken(p), UNCHANGED gone,
           NEW y \in Files, From[y] = To[y], \A t \in About : Head(inbox[p]) # Msg(t, y)
    PROVE  SelfInv(y, f[From[y]][y], inbox'[From[y]], From[y] \in gone)
<1>1. PICK q \in Pages : q = From[y]
  BY Constants
<1>2. SelfInv(y, f[q][y], inbox[q], q \in gone) /\ inbox[q] \in Seq(Message)
  BY <1>1, Known
<1>3. \A u \in Pages : inbox'[u] = IF u = p THEN Tail(inbox[p]) ELSE inbox[u]
  BY TakenPosts
<1>4. CASE q # p
  BY <1>1, <1>2, <1>3, <1>4
<1>5. CASE q = p
  <2>1. SelfInv(y, f[q][y], Tail(inbox[q]), q \in gone)
    BY <1>2, <1>5, SelfShrinks DEF About
  <2> QED
    BY <1>1, <1>3, <1>5, <2>1
<1> QED
  BY <1>4, <1>5

\* A message about a transfer changes the record of it.
LEMMA Delivered ==
    ASSUME Inv, NEW p \in Pages, inbox[p] # <<>>, p \notin gone, Taken(p),
           NEW x \in Files, NEW t \in About, Head(inbox[p]) = Msg(t, x),
           NEW r \in Rec, RecInv(r), Quiet(f[p][x], r), Replaced(p, x, r), LinkStep(x),
           p = From[x] /\ r.end = "done" => f[p][x].end = "done",
           From[x] = To[x] => SelfInv(x, r, Tail(inbox[p]), FALSE),
           UNCHANGED <<data, ack, saved, known, gone>>
    PROVE  Inv'
<1>1. /\ inbox' \in [Pages -> Seq(Message)] /\ Posts'
      /\ \A q \in Pages : inbox'[q] = IF q = p THEN Tail(inbox[p]) ELSE inbox[q]
      /\ For(p, Msg(t, x))
  BY TakenPosts
<1>2. p \in {From[x], To[x]}
  BY <1>1, MsgFacts DEF For
<1>3. ASSUME NEW y \in Files \ {x}, From[y] = To[y]
      PROVE  SelfInv(y, f[From[y]][y], inbox'[From[y]], From[y] \in gone)
  <2>1. \A b \in About : Head(inbox[p]) # Msg(b, y)
    BY MsgFacts
  <2> QED
    BY <1>3, <2>1, TakenOthers
<1>4. ASSUME From[x] = To[x] PROVE SelfInv(x, r, inbox'[From[x]], From[x] \in gone)
  <2>1. p = From[x] /\ inbox'[p] = Tail(inbox[p])
    BY <1>1, <1>2, <1>4
  <2>2. SelfInv(x, r, Tail(inbox[p]), FALSE)
    BY <1>4
  <2> QED
    BY <2>1, <2>2 DEF SelfInv
<1>5. ChunkInv(SideS(p, x, r), SideR(p, x, r), data[x], link[x], Size[x])
  BY QuietChunks
<1>6. /\ data \in [Files -> Nat] /\ ack \in [Files -> BOOLEAN] /\ saved \subseteq Files \X Nat
      /\ \A s \in saved : s[2] = Size[s[1]]
      /\ ack[x] \/ f[From[x]][x].end = "done" => <<x, Size[x]>> \in saved
  BY DEF Inv, Types, Savings
<1> QED
  BY <1>1, <1>2, <1>3, <1>4, <1>5, <1>6, OneStep

\* What a message does to a record (fileTransfer).
LEMMA GotOtherFacts ==
    ASSUME NEW r \in Rec, RecInv(r), NEW t \in About \ {"invite"}, NEW z, z = GotOther(r, t)
    PROVE  /\ z \in Rec /\ RecInv(z) /\ Quiet(r, z) /\ (z.end = "done" => r.end = "done")
           /\ ~Listed(r) => z = r
           /\ t = "cancel" => ~Listed(z) /\ z.up = r.up /\ (Listed(r) => Unanswered(z) /\ z.state = "closed")
           /\ t = "ice" => z.up = r.up /\ z.state = r.state /\ (Unanswered(r) => Unanswered(z))
<1>1. CASE ~Listed(r)
  BY <1>1 DEF GotOther, Quiet
<1>2. CASE Listed(r) /\ t = "offer"
  <2>1. z = [r EXCEPT !.state = "connecting", !.pc = "new", !.run = "answer"]
    BY <1>2 DEF GotOther, AnsweredWith
  <2>2. z \in Rec
    <3>1. PICK a1 \in Rec : a1 = [r EXCEPT !.state = "connecting"]
      BY DEF Rec, States
    <3>2. PICK a2 \in Rec : a2 = [a1 EXCEPT !.pc = "new"]
      BY DEF Rec
    <3>3. PICK a3 \in Rec : a3 = [a2 EXCEPT !.run = "answer"]
      BY DEF Rec, Runnings
    <3> QED
      BY <2>1, <3>1, <3>2, <3>3
  <2>3. z.state = "connecting" /\ z.dc = r.dc /\ z.datalen = r.datalen /\ z.end = r.end
    BY <2>1 DEF Rec
  <2> QED
    BY <1>2, <2>2, <2>3 DEF RecInv, Quiet, Alive
<1>3. CASE Listed(r) /\ t = "answer"
  <2>1. z = [r EXCEPT !.run = "setting"]
    BY <1>3 DEF GotOther
  <2>2. z \in Rec
    BY <2>1 DEF Rec, Runnings
  <2>3. /\ z.state = r.state /\ z.pc = r.pc /\ z.dc = r.dc /\ z.datalen = r.datalen /\ z.end = r.end
        /\ z.run = "setting" /\ z.unsent = r.unsent
    BY <2>1 DEF Rec
  <2> QED
    BY <1>3, <2>2, <2>3 DEF RecInv, Quiet, Alive
<1>4. CASE Listed(r) /\ t = "ice"
  <2>1. z = Heard(r)
    BY <1>4 DEF GotOther
  <2>2. \/ z = r
        \/ z = [r EXCEPT !.held = r.held + 1]
        \/ z = [r EXCEPT !.heard = TRUE]
    BY <2>1 DEF Heard
  <2>3. r.held + 1 \in Nat
    BY DEF Rec
  <2>4. z \in Rec
    BY <2>2, <2>3 DEF Rec
  <2>5. /\ z.state = r.state /\ z.pc = r.pc /\ z.dc = r.dc /\ z.datalen = r.datalen /\ z.end = r.end
        /\ z.run = r.run /\ z.unsent = r.unsent /\ z.up = r.up
    BY <2>2 DEF Rec
  <2> QED
    BY <1>4, <2>4, <2>5 DEF RecInv, Quiet, Alive, Unanswered
<1>5. CASE Listed(r) /\ t = "cancel"
  <2>1. z = Ends(r, "cancelled")
    BY <1>5 DEF GotOther
  <2> QED
    BY <1>5, <2>1, EndsFacts
<1> QED
  BY <1>1, <1>2, <1>3, <1>4, <1>5 DEF About

\* A message that is no invitation.
LEMMA DeliverOther ==
    ASSUME Inv, NEW p \in Pages, inbox[p] # <<>>, p \notin gone, Taken(p),
           NEW x \in Files, NEW t \in About \ {"invite"}, Head(inbox[p]) = Msg(t, x),
           Replaced(p, x, GotOther(f[p][x], t)), link' = Cut(x, GotOther(f[p][x], t)),
           UNCHANGED <<data, ack, saved, known, gone>>
    PROVE  Inv'
<1>1. PICK r \in Rec : r = f[p][x] /\ RecInv(r)
  BY Known
<1>2. PICK z : z = GotOther(r, t)
  OBVIOUS
<1>3. /\ z \in Rec /\ RecInv(z) /\ Quiet(r, z) /\ (z.end = "done" => r.end = "done")
      /\ ~Listed(r) => z = r
      /\ t = "cancel" => ~Listed(z) /\ z.up = r.up /\ (Listed(r) => Unanswered(z) /\ z.state = "closed")
      /\ t = "ice" => z.up = r.up /\ z.state = r.state /\ (Unanswered(r) => Unanswered(z))
  BY <1>1, <1>2, GotOtherFacts
<1>4. LinkStep(x)
  <2>1. link' = Cut(x, z) /\ link \in [Files -> {"none", "up", "cut"}]
    BY <1>1, <1>2 DEF Inv, Types
  <2> QED
    BY <2>1 DEF Cut, LinkStep
<1>5. ASSUME From[x] = To[x] PROVE SelfInv(x, z, Tail(inbox[p]), FALSE)
  <2>1. For(p, Msg(t, x)) /\ t \in About
    BY TakenPosts
  <2>2. p = From[x]
    BY <1>5, <2>1, MsgFacts DEF For
  <2>3. SelfInv(x, r, inbox[p], p \in gone) /\ inbox[p] \in Seq(Message)
    BY <1>1, <1>5, <2>2, Known
  <2>4. SelfInv(x, r, inbox[p], FALSE)
    BY <2>3 DEF SelfInv
  <2>5. CASE t \in {"offer", "answer"}
    <3>1. ~Listed(r)
      BY <2>3, <2>4, <2>5, SelfUnanswered
    <3>2. Head(inbox[p]) # Msg("invite", x) /\ Head(inbox[p]) # Msg("cancel", x)
      BY <2>5 DEF Msg
    <3> QED
      BY <1>3, <2>3, <2>4, <3>1, <3>2, SelfShrinks
  <2>6. CASE t = "ice"
    <3>1. Head(inbox[p]) # Msg("invite", x) /\ Head(inbox[p]) # Msg("cancel", x)
      BY <2>6 DEF Msg
    <3>2. SelfInv(x, r, Tail(inbox[p]), FALSE)
      BY <2>3, <2>4, <3>1, SelfShrinks
    <3>3. z.up = r.up /\ z.state = r.state /\ Unanswered(z)
      BY <1>3, <2>4, <2>6 DEF SelfInv
    <3>4. CASE r.state = "unset"
      BY <1>3, <3>2, <3>4 DEF Listed
    <3>5. CASE r.state # "unset"
      BY <3>2, <3>3, <3>5, SelfChanges DEF Listed
    <3> QED
      BY <3>4, <3>5
  <2>7. CASE t = "cancel"
    <3>1. Unanswered(r)
      BY <2>4 DEF SelfInv
    <3>2. Unanswered(z) /\ (r.state # "unset" => z.state # "unset")
      BY <1>3, <2>7, <3>1
    <3> QED
      BY <1>3, <2>3, <2>4, <2>7, <3>2, SelfCancelled
  <2> QED
    BY <2>5, <2>6, <2>7 DEF About
<1>6. Replaced(p, x, z)
  BY <1>1, <1>2
<1>7. t \in About
  OBVIOUS
<1> QED
  BY <1>1, <1>3, <1>4, <1>5, <1>6, <1>7, Delivered

\* An invitation to a page that has nothing of the file, or has closed it.
LEMMA InviteTaken ==
    ASSUME Inv, NEW p \in Pages, inbox[p] # <<>>, p \notin gone, Taken(p),
           NEW x \in Files, Head(inbox[p]) = Msg("invite", x), ~Listed(f[p][x]),
           Replaced(p, x, [NoFile EXCEPT !.state = "inviting"]),
           UNCHANGED <<link, data, ack, saved, known, gone>>
    PROVE  Inv'
<1>1. PICK z : z = [NoFile EXCEPT !.state = "inviting"]
  OBVIOUS
<1>2. z = [state |-> "inviting", up |-> FALSE, pc |-> "none", run |-> "none", dc |-> "none",
           held |-> 0, heard |-> FALSE, unsent |-> FALSE, datalen |-> 0, end |-> "none"]
  BY <1>1 DEF NoFile
<1>3. z \in Rec
  BY <1>2 DEF Rec, States, Runnings
<1>4. /\ z.state = "inviting" /\ z.up = FALSE /\ z.pc = "none" /\ z.run = "none" /\ z.dc = "none"
      /\ z.unsent = FALSE /\ z.datalen = 0 /\ z.end = "none"
  BY <1>2
<1>5. RecInv(z) /\ Unanswered(z) /\ Quiet(f[p][x], z)
  BY <1>4 DEF RecInv, Unanswered, Quiet
<1>6. LinkStep(x)
  BY DEF LinkStep, Inv, Types
<1>7. "invite" \in About
  BY DEF About
<1>8. ASSUME From[x] = To[x] PROVE SelfInv(x, z, Tail(inbox[p]), FALSE)
  <2>1. p = From[x]
    <3>1. For(p, Msg("invite", x))
      BY TakenPosts
    <3> QED
      BY <1>7, <1>8, <3>1, MsgFacts DEF For
  <2>2. SelfInv(x, f[p][x], inbox[p], p \in gone) /\ inbox[p] \in Seq(Message)
    BY <1>8, <2>1, Known
  <2>3. SelfInv(x, f[p][x], inbox[p], FALSE)
    BY <2>2 DEF SelfInv
  <2> QED
    BY <1>4, <1>5, <2>2, <2>3, SelfInvited
<1>9. Replaced(p, x, z)
  BY <1>1
<1> QED
  BY <1>3, <1>4, <1>5, <1>6, <1>7, <1>8, <1>9, Delivered

\* Taking the first message and appending one.
LEMMA TailAppend ==
    ASSUME NEW S, NEW q \in Seq(S), q # <<>>, NEW m \in S
    PROVE  Tail(Append(q, m)) = Append(Tail(q), m)
  OBVIOUS

\* The invitation is taken and refused.
Refused(p, x) == inbox' = [Sent(From[x], <<Msg("cancel", x)>>) EXCEPT ![p] = Tail(@)]

LeftOf(p, q) == IF q = p THEN Tail(inbox[p]) ELSE inbox[q]

\* The inboxes then.
LEMMA RefusedPosts ==
    ASSUME Inv, NEW p \in Pages, inbox[p] # <<>>, p \notin gone, NEW x \in Files,
           Refused(p, x), UNCHANGED gone
    PROVE  /\ inbox' \in [Pages -> Seq(Message)] /\ Posts'
           /\ \A q \in Pages :
                 inbox'[q] = IF q = From[x] /\ q \notin gone
                             THEN Append(LeftOf(p, q), Msg("cancel", x)) ELSE LeftOf(p, q)
           /\ Head(inbox[p]) \in Message /\ For(p, Head(inbox[p]))
<1>1. inbox \in [Pages -> Seq(Message)] /\ inbox[p] \in Seq(Message)
  BY DEF Inv, Types
<1>2. PICK u \in Pages : u = From[x]
  BY Constants
<1>3. PICK c \in Message : c = Msg("cancel", x) /\ For(u, c)
  BY <1>2, MsgFacts DEF About
<1>4. PICK b : b = Sent(u, <<c>>)
  OBVIOUS
<1>5. ASSUME NEW q \in Pages PROVE b[q] = IF q = u /\ q \notin gone THEN Append(inbox[q], c) ELSE inbox[q]
  <2>1. b[q] = IF q = u /\ q \notin gone THEN inbox[q] \o <<c>> ELSE inbox[q]
    BY <1>1, <1>4 DEF Sent
  <2>2. inbox[q] \o <<c>> = Append(inbox[q], c)
    BY <1>1
  <2> QED
    BY <2>1, <2>2
<1>6. DOMAIN b = Pages
  BY <1>1, <1>4 DEF Sent
<1>7. inbox' = [b EXCEPT ![p] = Tail(@)]
  BY <1>2, <1>3, <1>4 DEF Refused
<1>8. ASSUME NEW q \in Pages
      PROVE  /\ inbox'[q] = IF q = u /\ q \notin gone THEN Append(LeftOf(p, q), c) ELSE LeftOf(p, q)
             /\ LeftOf(p, q) \in Seq(Message)
  <2>1. inbox'[q] = IF q = p THEN Tail(b[q]) ELSE b[q]
    BY <1>6, <1>7
  <2>2. LeftOf(p, q) \in Seq(Message)
    BY <1>1, TailAt DEF LeftOf
  <2>3. q = p => Tail(Append(inbox[q], c)) = Append(Tail(inbox[q]), c)
    BY <1>1, TailAppend
  <2> QED
    BY <1>5, <2>1, <2>2, <2>3 DEF LeftOf
<1>9. inbox' \in [Pages -> Seq(Message)]
  <2>1. ASSUME NEW q \in Pages PROVE inbox'[q] \in Seq(Message)
    <3>1. PICK a \in Seq(Message) : a = LeftOf(p, q)
      BY <1>8
    <3>2. Append(a, c) \in Seq(Message)
      OBVIOUS
    <3> QED
      BY <1>8, <3>1, <3>2
  <2>2. inbox' = [q \in Pages |-> inbox'[q]]
    BY <1>6, <1>7
  <2> QED
    BY <2>1, <2>2
<1>10. /\ \A k \in 1 .. Len(Tail(inbox[p])) : k + 1 \in 1 .. Len(inbox[p]) /\ Tail(inbox[p])[k] = inbox[p][k + 1]
       /\ 1 \in 1 .. Len(inbox[p])
  BY <1>1, TailHas
<1>11. ASSUME NEW q \in Pages
       PROVE  /\ q \in gone => inbox'[q] = <<>>
              /\ \A k \in 1 .. Len(inbox'[q]) : For(q, inbox'[q][k])
  <2>1. /\ q \in gone => inbox[q] = <<>>
        /\ \A k \in 1 .. Len(inbox[q]) : For(q, inbox[q][k])
    BY DEF Inv, Posts
  <2>2. PICK a \in Seq(Message) : a = LeftOf(p, q)
    BY <1>8
  <2>3. \A k \in 1 .. Len(a) : For(q, a[k])
    BY <1>10, <2>1, <2>2 DEF LeftOf
  <2>4. CASE q = u /\ q \notin gone
    <3>1. PICK d : d = Append(a, c)
      OBVIOUS
    <3>2. \A k \in 1 .. Len(d) : (k \in 1 .. Len(a) /\ d[k] = a[k]) \/ (k = Len(a) + 1 /\ d[k] = c)
      BY <3>1, AppendHas
    <3>3. \A k \in 1 .. Len(d) : For(q, d[k])
      BY <1>3, <2>3, <2>4, <3>2
    <3>4. inbox'[q] = d
      BY <1>8, <2>2, <2>4, <3>1
    <3> QED
      BY <2>4, <3>3, <3>4
  <2>5. CASE ~(q = u /\ q \notin gone)
    <3>1. inbox'[q] = a
      BY <1>8, <2>2, <2>5
    <3>2. q \in gone => a = <<>>
      BY <2>1, <2>2 DEF LeftOf
    <3> QED
      BY <2>3, <3>1, <3>2
  <2> QED
    BY <2>4, <2>5
<1>12. Posts'
  BY <1>11 DEF Posts, For, Note
<1>13. Head(inbox[p]) = inbox[p][1] /\ inbox[p][1] \in Message
  BY <1>1, TailAt
<1>14. For(p, Head(inbox[p]))
  BY <1>10, <1>13 DEF Inv, Posts
<1> QED
  BY <1>2, <1>3, <1>8, <1>9, <1>12, <1>13, <1>14

\* A page that has the file refuses the invitation.
LEMMA InviteRefused ==
    ASSUME Inv, NEW p \in Pages, inbox[p] # <<>>, p \notin gone, NEW x \in Files,
           Head(inbox[p]) = Msg("invite", x), Listed(f[p][x]), Refused(p, x),
           UNCHANGED <<f, link, data, ack, saved, known, gone>>
    PROVE  Inv'
<1>1. /\ inbox' \in [Pages -> Seq(Message)] /\ Posts'
      /\ \A q \in Pages :
            inbox'[q] = IF q = From[x] /\ q \notin gone
                        THEN Append(LeftOf(p, q), Msg("cancel", x)) ELSE LeftOf(p, q)
      /\ For(p, Msg("invite", x))
  BY RefusedPosts
<1>2. Types'
  BY <1>1 DEF Inv, Types
<1>3. "invite" \in About /\ "cancel" \in About
  BY DEF About
<1>4. ASSUME NEW y \in Files, From[y] = To[y]
      PROVE  SelfInv(y, f'[From[y]][y], inbox'[From[y]], From[y] \in gone') /\ link'[y] = "none"
  <2>1. PICK q \in Pages : q = From[y]
    BY Constants
  <2>2. SelfInv(y, f[q][y], inbox[q], q \in gone) /\ link[y] = "none" /\ inbox[q] \in Seq(Message)
    BY <1>4, <2>1, Known
  <2>3. CASE y = x
    <3>1. p = q
      BY <1>1, <1>3, <1>4, <2>1, <2>3, MsgFacts DEF For
    <3>2. SelfInv(x, f[p][x], Append(Tail(inbox[p]), Msg("cancel", x)), p \in gone)
      BY <2>2, <2>3, <3>1, SelfRefuses
    <3>3. inbox'[p] = Append(Tail(inbox[p]), Msg("cancel", x))
      BY <1>1, <2>1, <2>3, <3>1 DEF LeftOf
    <3> QED
      BY <2>1, <2>2, <2>3, <3>1, <3>2, <3>3
  <2>4. CASE y # x
    <3>1. \A t \in About : Msg("invite", x) # Msg(t, y) /\ Msg("cancel", x) # Msg(t, y)
      BY <1>3, <2>4, MsgFacts
    <3>2. PICK c \in Message : c = Msg("cancel", x)
      BY <1>3, MsgFacts
    <3>3. SelfInv(y, f[q][y], LeftOf(p, q), q \in gone) /\ LeftOf(p, q) \in Seq(Message)
      <4>1. CASE q = p
        <5>1. LeftOf(p, q) = Tail(inbox[q]) /\ Tail(inbox[q]) \in Seq(Message)
          BY <2>2, <4>1, TailAt DEF LeftOf
        <5>2. Head(inbox[q]) # Msg("invite", y) /\ Head(inbox[q]) # Msg("cancel", y)
          BY <1>3, <3>1, <4>1
        <5>3. SelfInv(y, f[q][y], Tail(inbox[q]), q \in gone)
          BY <2>2, <4>1, <5>2, SelfShrinks
        <5> QED
          BY <5>1, <5>3
      <4>2. CASE q # p
        BY <2>2, <4>2 DEF LeftOf
      <4> QED
        BY <4>1, <4>2
    <3>4. SelfInv(y, f[q][y], Append(LeftOf(p, q), c), q \in gone)
      BY <3>1, <3>2, <3>3, SelfGrows DEF About
    <3>5. inbox'[q] = LeftOf(p, q) \/ inbox'[q] = Append(LeftOf(p, q), c)
      BY <1>1, <3>2
    <3> QED
      BY <2>1, <2>2, <3>3, <3>4, <3>5
  <2> QED
    BY <2>3, <2>4
<1>5. /\ \A q \in Pages, y \in Files :
            RecInv(f'[q][y]) /\ (q \notin {From[y], To[y]} => f'[q][y] = NoFile)
      /\ \A y \in Files : ChunkInv(f'[From[y]][y], f'[To[y]][y], data'[y], link'[y], Size[y])
  BY Constants, Known
<1>6. /\ \A y \in Files : ack'[y] \/ f'[From[y]][y].end = "done" => <<y, Size[y]>> \in saved'
      /\ \A s \in saved' : s[2] = Size[s[1]]
  BY DEF Inv, Savings
<1> QED
  BY <1>1, <1>2, <1>4, <1>5, <1>6, Primed

\* What fail() does to a record.
LEMMA FailFacts ==
    ASSUME NEW r \in Rec, RecInv(r), NEW z, z = Fail(r)
    PROVE  /\ z \in Rec /\ RecInv(z) /\ Quiet(r, z) /\ (z.end = "done" => r.end = "done")
           /\ r = NoFile => z = r
<1>1. CASE Handshakes(r)
  <2>1. z = Ends(r, "cancelled")
    BY <1>1 DEF Fail
  <2>2. r # NoFile
    BY <1>1 DEF Handshakes, NoFile
  <2> QED
    BY <2>1, <2>2, EndsFacts
<1>2. CASE ~Handshakes(r)
  BY <1>2 DEF Fail, Quiet
<1> QED
  BY <1>1, <1>2

\* A page hears that another has left: the transfers with it are over.
LEMMA DeliverDelete ==
    ASSUME Inv, NEW p \in Pages, inbox[p] # <<>>, p \notin gone, Taken(p), NEW q \in Pages,
           Head(inbox[p]) = Note(q), GotDelete(p, q), UNCHANGED <<data, ack, saved, gone>>
    PROVE  Inv'
<1>1. /\ inbox' \in [Pages -> Seq(Message)] /\ Posts'
      /\ For(p, Note(q))
  BY TakenPosts
<1>2. q # p
  BY <1>1 DEF For
<1>3. f \in [Pages -> [Files -> Rec]]
  BY DEF Inv, Types
<1>4. PICK g : g = [x \in Files |-> IF q = Peer(p, x) THEN Fail(f[p][x]) ELSE f[p][x]]
  OBVIOUS
<1>5. f' = [f EXCEPT ![p] = g]
  BY <1>3, <1>4 DEF GotDelete
<1>6. ASSUME NEW x \in Files
      PROVE  /\ g[x] \in Rec /\ RecInv(g[x]) /\ Quiet(f[p][x], g[x])
             /\ g[x].end = "done" => f[p][x].end = "done"
             /\ f[p][x] = NoFile => g[x] = NoFile
             /\ q # Peer(p, x) => g[x] = f[p][x]
  <2>1. f[p][x] \in Rec /\ RecInv(f[p][x])
    BY Known
  <2>2. CASE q = Peer(p, x)
    <3>1. g[x] = Fail(f[p][x])
      BY <1>4, <2>2
    <3> QED
      BY <2>1, <2>2, <3>1, FailFacts
  <2>3. CASE q # Peer(p, x)
    <3>1. g[x] = f[p][x]
      BY <1>4, <2>3
    <3> QED
      BY <2>1, <3>1 DEF Quiet
  <2> QED
    BY <2>2, <2>3
<1>7. g \in [Files -> Rec]
  <2>1. g = [x \in Files |-> g[x]]
    BY <1>4
  <2> QED
    BY <1>6, <2>1
<1>8. /\ f' \in [Pages -> [Files -> Rec]]
      /\ \A u \in Pages : f'[u] = IF u = p THEN g ELSE f[u]
  BY <1>3, <1>5, <1>7
<1>9. /\ link' \in [Files -> {"none", "up", "cut"}]
      /\ \A x \in Files : link'[x] = link[x] \/ (link[x] = "up" /\ link'[x] = "cut")
  <2>1. link \in [Files -> {"none", "up", "cut"}]
    BY DEF Inv, Types
  <2>2. link' = [x \in Files |-> IF f'[p][x] # f[p][x] /\ link[x] = "up" THEN "cut" ELSE link[x]]
    BY DEF GotDelete
  <2> QED
    BY <2>1, <2>2
<1>10. known' \in [Pages -> SUBSET Pages]
  <2>1. known \in [Pages -> SUBSET Pages]
    BY DEF Inv, Types
  <2>2. PICK k \in SUBSET Pages : k = known[p] \ {q}
    BY <2>1
  <2>3. known' = [known EXCEPT ![p] = k]
    BY <2>2 DEF GotDelete
  <2> QED
    BY <2>1, <2>3
<1>11. Types'
  BY <1>1, <1>8, <1>9, <1>10 DEF Inv, Types
<1>12. ASSUME NEW u \in Pages, NEW x \in Files
       PROVE  RecInv(f'[u][x]) /\ (u \notin {From[x], To[x]} => f'[u][x] = NoFile)
  BY <1>6, <1>8, Known
<1>13. ASSUME NEW x \in Files
       PROVE  ChunkInv(f'[From[x]][x], f'[To[x]][x], data'[x], link'[x], Size[x])
  <2>1. PICK r \in Rec : r = g[x] /\ Quiet(f[p][x], r)
    BY <1>6
  <2>2. ChunkInv(SideS(p, x, r), SideR(p, x, r), data[x], link[x], Size[x])
    BY <2>1, QuietChunks
  <2>3. f'[From[x]][x] = SideS(p, x, r) /\ f'[To[x]][x] = SideR(p, x, r)
    BY <1>8, <2>1, Constants DEF SideS, SideR
  <2>4. ChunkInv(f'[From[x]][x], f'[To[x]][x], data[x], link[x], Size[x])
    BY <2>2, <2>3
  <2>5. link'[x] = "none" => link[x] = "none"
    BY <1>9
  <2> QED
    BY <2>4, <2>5 DEF ChunkInv
<1>14. /\ \A x \in Files : ack'[x] \/ f'[From[x]][x].end = "done" => <<x, Size[x]>> \in saved'
       /\ \A s \in saved' : s[2] = Size[s[1]]
  <2>1. ASSUME NEW x \in Files, f'[From[x]][x].end = "done" PROVE f[From[x]][x].end = "done"
    BY <1>6, <1>8, <2>1, Constants
  <2> QED
    BY <2>1 DEF Inv, Savings
<1>15. ASSUME NEW y \in Files, From[y] = To[y]
       PROVE  SelfInv(y, f'[From[y]][y], inbox'[From[y]], From[y] \in gone') /\ link'[y] = "none"
  <2>1. \A t \in About : Head(inbox[p]) # Msg(t, y)
    BY DEF Msg, Note, About
  <2>2. SelfInv(y, f[From[y]][y], inbox'[From[y]], From[y] \in gone)
    BY <1>15, <2>1, TakenOthers
  <2>3. link[y] = "none" /\ From[y] \in Pages
    BY <1>15, Constants, Known
  <2>4. p = From[y] => Peer(p, y) # q
    BY <1>2, <1>15 DEF Peer
  <2>5. f'[From[y]][y] = f[From[y]][y]
    BY <1>6, <1>8, <2>3, <2>4
  <2>6. link'[y] = "none"
    BY <1>9, <2>3
  <2> QED
    BY <2>2, <2>5, <2>6
<1> QED
  BY <1>1, <1>11, <1>12, <1>13, <1>14, <1>15, Primed

\* The server's messages.
LEMMA DeliverInv ==
    ASSUME Inv, NEW p \in Pages, Deliver(p)
    PROVE  Inv'
<1>1. PICK m : m = Head(inbox[p])
  OBVIOUS
<1>2. /\ inbox[p] # <<>> /\ p \notin gone /\ UNCHANGED <<data, ack, saved, gone>>
      /\ m.type = "delete" => GotDelete(p, m.x) /\ Taken(p)
      /\ m.type # "delete" /\ m.type = "invite" => UNCHANGED known /\ GotInvite(p, m.x)
      /\ m.type # "delete" /\ m.type # "invite" =>
            /\ UNCHANGED known /\ Taken(p)
            /\ Replaced(p, m.x, GotOther(f[p][m.x], m.type))
            /\ link' = Cut(m.x, GotOther(f[p][m.x], m.type))
  BY <1>1 DEF Deliver, Taken, Replaced
<1>3. m \in Message
  BY <1>1, <1>2, TailAt DEF Inv, Types
<1>4. CASE m.type = "delete"
  <2>1. m \in [type : {"delete"}, x : Pages]
    BY <1>3, <1>4 DEF Message, About
  <2>2. m.x \in Pages /\ m = Note(m.x)
    BY <2>1 DEF Note
  <2> QED
    BY <1>1, <1>2, <1>4, <2>2, DeliverDelete
<1>5. CASE m.type # "delete"
  <2>1. m \in [type : About, x : Files]
    BY <1>3, <1>5 DEF Message
  <2>2. m.x \in Files /\ m.type \in About /\ m = Msg(m.type, m.x)
    BY <2>1 DEF Msg
  <2>3. PICK x \in Files : x = m.x
    BY <2>2
  <2>4. CASE m.type # "invite"
    BY <1>1, <1>2, <1>5, <2>2, <2>4, DeliverOther
  <2>5. CASE m.type = "invite"
    <3>1. GotInvite(p, x) /\ UNCHANGED known /\ Head(inbox[p]) = Msg("invite", x)
      BY <1>1, <1>2, <2>2, <2>3, <2>5
    <3>2. CASE Listed(f[p][x])
      <4>1. Refused(p, x) /\ UNCHANGED <<f, link>>
        BY <3>1, <3>2 DEF GotInvite, Refused
      <4> QED
        BY <1>2, <3>1, <3>2, <4>1, InviteRefused
    <3>3. CASE ~Listed(f[p][x])
      <4>1. Taken(p) /\ Replaced(p, x, [NoFile EXCEPT !.state = "inviting"]) /\ UNCHANGED link
        BY <3>1, <3>3 DEF GotInvite, Taken, Replaced
      <4> QED
        BY <1>2, <3>1, <3>3, <4>1, InviteTaken
    <3> QED
      BY <3>2, <3>3
  <2> QED
    BY <2>4, <2>5
<1> QED
  BY <1>4, <1>5

-----------------------------------------------------------------------------
(* The invariant.                                                          *)

LEMMA NoFileFacts ==
    /\ NoFile \in Rec /\ RecInv(NoFile) /\ Unanswered(NoFile) /\ ~Listed(NoFile)
    /\ NoFile.datalen = 0 /\ NoFile.dc = "none" /\ NoFile.end = "none"
<1>1. NoFile \in Rec
  BY DEF NoFile, Rec, States, Runnings
<1>2. /\ NoFile.state = "unset" /\ NoFile.pc = "none" /\ NoFile.dc = "none" /\ NoFile.run = "none"
      /\ NoFile.unsent = FALSE /\ NoFile.datalen = 0 /\ NoFile.up = FALSE /\ NoFile.end = "none"
  BY DEF NoFile
<1> QED
  BY <1>1, <1>2 DEF RecInv, Unanswered, Listed

LEMMA InitInv == Init => Inv
<1> SUFFICES ASSUME Init PROVE Inv
  OBVIOUS
<1>1. /\ f = [p \in Pages |-> [x \in Files |-> NoFile]] /\ inbox = [p \in Pages |-> <<>>]
      /\ link = [x \in Files |-> "none"] /\ data = [x \in Files |-> 0] /\ ack = [x \in Files |-> FALSE]
      /\ known = [p \in Pages |-> Pages] /\ gone = {} /\ saved = {}
  BY DEF Init
<1>2. f \in [Pages -> [Files -> Rec]] /\ \A p \in Pages, x \in Files : f[p][x] = NoFile
  BY <1>1, NoFileFacts
<1>3. inbox \in [Pages -> Seq(Message)] /\ \A p \in Pages : inbox[p] = <<>>
  BY <1>1
<1>4. known \in [Pages -> SUBSET Pages]
  BY <1>1
<1>5. Types
  BY <1>1, <1>2, <1>3, <1>4 DEF Types
<1>6. Posts
  BY <1>1, <1>3 DEF Posts
<1>7. Records
  BY <1>2, NoFileFacts DEF Records
<1>8. Counted
  <2>1. ASSUME NEW x \in Files
        PROVE  ChunkInv(f[From[x]][x], f[To[x]][x], data[x], link[x], Size[x])
    <3>1. /\ f[From[x]][x] = NoFile /\ f[To[x]][x] = NoFile /\ data[x] = 0 /\ link[x] = "none"
          /\ Size[x] \in Nat
      BY <1>1, <1>2, Constants
    <3> QED
      BY <3>1, NoFileFacts DEF ChunkInv
  <2> QED
    BY <2>1 DEF Counted
<1>9. Savings
  BY <1>1, <1>2, Constants, NoFileFacts DEF Savings
<1>10. Selves
  <2>1. ASSUME NEW x \in Files
        PROVE  SelfInv(x, f[From[x]][x], inbox[From[x]], From[x] \in gone) /\ link[x] = "none"
    <3>1. f[From[x]][x] = NoFile /\ inbox[From[x]] = <<>> /\ link[x] = "none"
      BY <1>1, <1>2, <1>3, Constants
    <3>2. Possible(x, NoFile, <<>>) /\ InviteFirst(x, NoFile, <<>>)
      BY DEF Possible, InviteFirst, Lacks
    <3> QED
      BY <3>1, <3>2, NoFileFacts DEF SelfInv
  <2> QED
    BY <2>1 DEF Selves
<1> QED
  BY <1>5, <1>6, <1>7, <1>8, <1>9, <1>10 DEF Inv

LEMMA StutterInv == Inv /\ UNCHANGED vars => Inv'
<1> SUFFICES ASSUME Inv, UNCHANGED vars PROVE Inv'
  OBVIOUS
<1>1. UNCHANGED <<f, inbox, link, data, ack, known, gone, saved>>
  BY DEF vars
<1>2. Types' /\ Posts'
  BY <1>1 DEF Inv, Types, Posts, For, Note
<1>3. /\ \A p \in Pages, x \in Files :
            RecInv(f'[p][x]) /\ (p \notin {From[x], To[x]} => f'[p][x] = NoFile)
      /\ \A x \in Files : ChunkInv(f'[From[x]][x], f'[To[x]][x], data'[x], link'[x], Size[x])
  BY <1>1, Constants, Known
<1>4. /\ \A x \in Files : ack'[x] \/ f'[From[x]][x].end = "done" => <<x, Size[x]>> \in saved'
      /\ \A s \in saved' : s[2] = Size[s[1]]
  BY <1>1 DEF Inv, Savings
<1>5. \A x \in Files : From[x] = To[x] =>
          SelfInv(x, f'[From[x]][x], inbox'[From[x]], From[x] \in gone') /\ link'[x] = "none"
  BY <1>1 DEF Inv, Selves
<1> QED
  BY <1>2, <1>3, <1>4, <1>5, Primed

LEMMA NextInv == Inv /\ Next => Inv'
<1> SUFFICES ASSUME Inv, Next PROVE Inv'
  OBVIOUS
<1>1. ASSUME NEW p \in Pages, Deliver(p) PROVE Inv'
  BY <1>1, DeliverInv
<1>2. ASSUME NEW p \in Pages, NEW x \in Files, Awaits(p, x), UNCHANGED net PROVE Inv'
  <2>1. UNCHANGED <<data, ack, saved, known, gone>>
    BY <1>2 DEF Awaits, net
  <2> QED
    BY <1>2, <2>1, OfferMadeInv, AnswerMadeInv, AnswerSetInv, CandidateFoundInv DEF Awaits
<1>3. ASSUME NEW p \in Pages, NEW x \in Files, WaitedLong(p, x), UNCHANGED net PROVE Inv'
  <2>1. /\ Runs(p, x, "waiting") /\ Becomes(p, x, Close(f[p][x]), <<>>)
        /\ UNCHANGED <<data, ack, saved, known, gone>>
    BY <1>3 DEF WaitedLong, net
  <2> QED
    BY <2>1, WaiterCloses
<1>4. ASSUME NEW p \in Pages, NEW x \in Files, CloseSeen(p, x), UNCHANGED net PROVE Inv'
  BY <1>4, CloseSeenInv DEF net
<1>5. ASSUME NEW x \in Files, Channel(x), UNCHANGED net PROVE Inv'
  <2>1. UNCHANGED <<known, gone>>
    BY <1>5 DEF net
  <2> QED
    BY <1>5, <2>1, SendChunkInv, TakeChunkInv, TakeAckInv, OpensInv DEF Channel
<1>6. ASSUME NEW x \in Files, Opens(x), UNCHANGED net PROVE Inv'
  BY <1>6, OpensInv DEF net
<1>7. CASE Progress
  BY <1>1, <1>2, <1>3, <1>4, <1>5, <1>7 DEF Progress
<1> QED
  BY <1>6, <1>7, OfferInv, AcceptInv, BreaksInv, PressCancelInv, LeaveInv DEF Next

\* The invariant holds in every behaviour of the transfers.
THEOREM Invariance == Spec => []Inv
<1>1. Inv /\ [Next]_vars => Inv'
  BY NextInv, StutterInv
<1> QED
  BY <1>1, InitInv, PTL DEF Spec

\* What is over is over (close, receiveData and the "done" of the channel):
\* the sender says "Done." only of a file that the receiver has saved, each
\* saved file is whole, and a peer connection belongs to a transfer that is
\* not over yet; whatever the pages, the files and their sizes.
THEOREM NothingIsLost == Spec => []OverIsOver
<1>1. Inv => OverIsOver
  <2> SUFFICES ASSUME Inv PROVE OverIsOver
    OBVIOUS
  <2>1. ASSUME NEW x \in Files
        PROVE  /\ \A p \in Pages : f[p][x].datalen \in 0 .. Size[x]
               /\ data[x] \in 0 .. Size[x] /\ link[x] \in {"none", "up", "cut"}
    <3>1. PICK s \in Rec : s = f[From[x]][x]
      BY Constants, Known
    <3>2. PICK r \in Rec : r = f[To[x]][x]
      BY Constants, Known
    <3>3. /\ ChunkInv(s, r, data[x], link[x], Size[x]) /\ data[x] \in Nat /\ Size[x] \in Nat
          /\ link[x] \in {"none", "up", "cut"}
      BY <3>1, <3>2, Constants, Known
    <3>4. s.datalen \in Nat /\ r.datalen \in Nat
      BY DEF Rec
    <3>5. s.datalen \in 0 .. Size[x] /\ r.datalen \in 0 .. Size[x] /\ data[x] \in 0 .. Size[x]
      BY <3>3, <3>4 DEF ChunkInv
    <3>6. ASSUME NEW p \in Pages PROVE f[p][x].datalen \in 0 .. Size[x]
      <4>1. CASE p \in {From[x], To[x]}
        BY <3>1, <3>2, <3>5, <4>1
      <4>2. CASE p \notin {From[x], To[x]}
        BY <3>3, <4>2, Known, NoFileFacts
      <4> QED
        BY <4>1, <4>2
    <3> QED
      BY <3>3, <3>5, <3>6
  <2>2. ASSUME NEW p \in Pages, NEW x \in Files
        PROVE  /\ f[p][x].state \in States /\ f[p][x].pc \in {"none", "new", "local", "stable"}
               /\ f[p][x].dc \in {"none", "new", "open"} /\ f[p][x].end \in {"none", "done", "cancelled"}
               /\ f[p][x].pc # "none" => f[p][x].state \in {"connecting", "connected", "done"}
    <3>1. f[p][x] \in Rec /\ RecInv(f[p][x])
      BY Known
    <3> QED
      BY <3>1 DEF Rec, RecInv, Alive
  <2>3. TypeOK
    BY <2>1, <2>2 DEF TypeOK
  <2>4. NothingLeftOpen
    BY <2>2 DEF NothingLeftOpen
  <2>5. DoneMeansSaved
    BY DEF Inv, Savings, DoneMeansSaved
  <2> QED
    BY <2>3, <2>4, <2>5 DEF OverIsOver
<1> QED
  BY <1>1, Invariance, PTL

-----------------------------------------------------------------------------
(* The order of the states.                                                *)

\* The queue has the message once at most.
Once(q, m) == \A j, k \in 1 .. Len(q) : q[j] = m /\ q[k] = m => j = k

\* The sender of a file to another page: it begins with the invitation, and
\* answers an offer.
SenderInv(s) ==
    /\ s.run \in {"none", "answer"} /\ s.state # "done"
    /\ s.run = "answer" => s.state = "connecting"
    /\ s.up <=> s.state # "unset"
    /\ s.pc = "stable" => s.state = "connected"
    /\ s.dc = "open" => s.pc = "stable"

\* The receiver: it offers, and waits when it has the file.
ReceiverInv(r) ==
    /\ ~r.up /\ r.run # "answer"
    /\ r.run \in {"offer", "setting"} => r.state = "connecting"
    /\ r.run = "waiting" <=> r.state = "done"
    /\ r.pc = "stable" => r.state \in {"connected", "done"}
    /\ r.dc = "open" => r.pc = "stable"

\* Each message of the handshake goes one way, and once.
Queues(x, qs, qr) ==
    /\ Once(qr, Msg("invite", x)) /\ Once(qr, Msg("answer", x)) /\ Once(qs, Msg("offer", x))
    /\ Lacks(qs, Msg("invite", x)) /\ Lacks(qs, Msg("answer", x)) /\ Lacks(qr, Msg("offer", x))

\* Nothing has been accepted or offered yet, for all that the page knows.
Before(r) == r.state \in {"unset", "inviting"}

\* How far the two sides are, and whether an invitation, an offer or an answer
\* is on its way.
Steps(s, r, invite, offer, answer) ==
    /\ s.state = "unset" => r.state = "unset" /\ ~invite
    /\ invite => r.state = "unset"
    /\ Before(r) \/ r.run = "offer" => ~offer /\ (Before(s) \/ s.state = "closed")
    /\ offer => s.state \in {"inviting", "closed"}
    /\ Before(s) => r.run # "setting" /\ (Before(r) \/ r.state \in {"connecting", "closed"})
    /\ s.run = "answer" \/ answer => r.run # "setting" /\ r.state \in {"connecting", "closed"}
    /\ Before(s) \/ s.run = "answer" => ~answer

\* Sender and receiver of x, and what is on its way to each.
Pair(x, s, r, qs, qr) ==
    /\ SenderInv(s) /\ ReceiverInv(r) /\ Queues(x, qs, qr)
    /\ Steps(s, r, ~Lacks(qr, Msg("invite", x)), ~Lacks(qs, Msg("offer", x)),
             ~Lacks(qr, Msg("answer", x)))

\* Every transfer between two pages.
InTurn ==
    \A x \in Files : From[x] # To[x] =>
        Pair(x, f[From[x]][x], f[To[x]][x], inbox[From[x]], inbox[To[x]])

\* A record does not skip a state or go back to one.
Goes(r, z) == z.state # r.state /\ z.up = r.up => z.state \in Order[r.state]

\* No record does.
Moves == \A p \in Pages, x \in Files : Goes(f[p][x], f'[p][x])

\* The messages that take a transfer from state to state.
Handshake == {"invite", "offer", "answer"}

\* The inbox t has no more of the handshake of x than q.
Fewer(x, q, t) ==
    \A b \in Handshake : /\ Lacks(q, Msg(b, x)) => Lacks(t, Msg(b, x))
                         /\ Once(q, Msg(b, x)) => Once(t, Msg(b, x))

\* A queue that is as it was, or has been emptied.
LEMMA FewerEmpty ==
    ASSUME NEW x, NEW q
    PROVE  Fewer(x, q, q) /\ Fewer(x, q, <<>>)
<1>1. Len(<<>>) = 0
  OBVIOUS
<1>2. ASSUME NEW m PROVE Lacks(<<>>, m) /\ Once(<<>>, m)
  BY <1>1 DEF Lacks, Once
<1> QED
  BY <1>2, Zenon DEF Fewer

\* What was there once, is there once when something else is sent.
LEMMA AppendOnce ==
    ASSUME NEW q \in Seq(Message), NEW m \in Message, NEW n, m # n
    PROVE  Once(q, n) => Once(Append(q, m), n)
<1>1. PICK a : a = Append(q, m)
  OBVIOUS
<1>2. \A k \in 1 .. Len(a) : (k \in 1 .. Len(q) /\ a[k] = q[k]) \/ (k = Len(q) + 1 /\ a[k] = m)
  BY <1>1, AppendHas
<1>3. Once(q, n) => Once(a, n)
  BY <1>2 DEF Once
<1> QED
  BY <1>1, <1>3

\* A message that is none of the handshake of x is sent.
LEMMA FewerAppend ==
    ASSUME NEW x, NEW q \in Seq(Message), NEW m \in Message, \A b \in Handshake : m # Msg(b, x)
    PROVE  Fewer(x, q, Append(q, m))
<1>1. \A b \in Handshake : Lacks(Append(q, m), Msg(b, x)) <=> Lacks(q, Msg(b, x))
  BY AppendLacks
<1>2. \A b \in Handshake : Once(q, Msg(b, x)) => Once(Append(q, m), Msg(b, x))
  BY AppendOnce
<1> QED
  BY <1>1, <1>2 DEF Fewer

\* The first message is taken.
LEMMA FewerTail ==
    ASSUME NEW x, NEW q \in Seq(Message), q # <<>>
    PROVE  Fewer(x, q, Tail(q))
<1>1. PICK t : t = Tail(q)
  OBVIOUS
<1>2. \A k \in 1 .. Len(t) : k + 1 \in 1 .. Len(q) /\ t[k] = q[k + 1]
  BY <1>1, TailHas
<1>3. ASSUME NEW n PROVE (Lacks(q, n) => Lacks(t, n)) /\ (Once(q, n) => Once(t, n))
  <2>1. Lacks(q, n) => Lacks(t, n)
    BY <1>2 DEF Lacks
  <2>2. ASSUME Once(q, n), NEW j \in 1 .. Len(t), NEW k \in 1 .. Len(t), t[j] = n, t[k] = n
        PROVE  j = k
    <3>1. j + 1 = k + 1
      BY <1>2, <2>2 DEF Once
    <3> QED
      BY <3>1
  <2> QED
    BY <2>1, <2>2 DEF Once
<1> QED
  BY <1>1, <1>3 DEF Fewer

\* What is sent for the first time is there once.
LEMMA OnceAppended ==
    ASSUME NEW q \in Seq(Message), NEW m \in Message, Lacks(q, m)
    PROVE  Once(Append(q, m), m)
<1>1. PICK a : a = Append(q, m)
  OBVIOUS
<1>2. \A k \in 1 .. Len(a) : (k \in 1 .. Len(q) /\ a[k] = q[k]) \/ (k = Len(q) + 1 /\ a[k] = m)
  BY <1>1, AppendHas
<1>3. Once(a, m)
  BY <1>2 DEF Lacks, Once
<1> QED
  BY <1>1, <1>3

\* What was there once is gone when it is taken.
LEMMA OnceTaken ==
    ASSUME NEW q \in Seq(Message), q # <<>>, Once(q, Head(q))
    PROVE  Lacks(Tail(q), Head(q))
<1>1. PICK t : t = Tail(q)
  OBVIOUS
<1>2. /\ \A k \in 1 .. Len(t) : k + 1 \in 1 .. Len(q) /\ t[k] = q[k + 1]
      /\ 1 \in 1 .. Len(q)
  BY <1>1, TailHas
<1>3. Head(q) = q[1]
  BY TailAt
<1>4. ASSUME NEW k \in 1 .. Len(t), t[k] = Head(q) PROVE FALSE
  <2>1. k + 1 = 1
    BY <1>2, <1>3, <1>4 DEF Once
  <2> QED
    BY <2>1
<1>5. Lacks(t, Head(q))
  BY <1>4 DEF Lacks
<1> QED
  BY <1>1, <1>5

-----------------------------------------------------------------------------
(* The two sides of a transfer.                                            *)

\* Messages are taken or lost, and nothing else.
LEMMA PairFewer ==
    ASSUME NEW x, NEW s, NEW r, NEW qs, NEW qr, Pair(x, s, r, qs, qr),
           NEW ts, NEW tr, Fewer(x, qs, ts), Fewer(x, qr, tr)
    PROVE  Pair(x, s, r, ts, tr)
<1>1. /\ Lacks(qr, Msg("invite", x)) => Lacks(tr, Msg("invite", x))
      /\ Lacks(qr, Msg("answer", x)) => Lacks(tr, Msg("answer", x))
      /\ Lacks(qs, Msg("offer", x)) => Lacks(ts, Msg("offer", x))
      /\ Queues(x, ts, tr)
  BY DEF Fewer, Handshake, Pair, Queues
<1> QED
  BY <1>1 DEF Pair, Steps

\* What the order of the states depends on.
Alike(r, z) ==
    /\ z.state = r.state /\ z.up = r.up /\ z.run = r.run /\ z.pc = r.pc
    /\ z.dc = "open" => r.dc = "open" \/ r.pc = "stable"

\* Nothing changes of what the order of the states depends on.
LEMMA PairAlike ==
    ASSUME NEW x, NEW s, NEW r, NEW qs, NEW qr, Pair(x, s, r, qs, qr),
           NEW y, NEW z, Alike(s, y), Alike(r, z)
    PROVE  Pair(x, y, z, qs, qr)
<1>1. SenderInv(y) /\ ReceiverInv(z)
  BY DEF Pair, SenderInv, ReceiverInv, Alike
<1> QED
  BY <1>1 DEF Pair, Steps, Before, Alike

\* A transfer of which there was something has been closed.
Closed(r, z) == /\ z.state = "closed" /\ z.run = "none" /\ z.pc = "none" /\ z.dc = "none"
                /\ z.up = r.up /\ r.state # "unset"

\* The sender has closed the transfer.
LEMMA SenderEnds ==
    ASSUME NEW x, NEW s, NEW r, NEW qs, NEW qr, Pair(x, s, r, qs, qr), NEW z, Closed(s, z)
    PROVE  Pair(x, z, r, qs, qr)
<1>1. SenderInv(z)
  BY DEF Pair, SenderInv, Closed
<1> QED
  BY <1>1 DEF Pair, Steps, Before, Closed

\* The receiver has.
LEMMA ReceiverEnds ==
    ASSUME NEW x, NEW s, NEW r, NEW qs, NEW qr, Pair(x, s, r, qs, qr), NEW z, Closed(r, z)
    PROVE  Pair(x, s, z, qs, qr)
<1>1. ReceiverInv(z)
  BY DEF Pair, ReceiverInv, Closed
<1> QED
  BY <1>1 DEF Pair, Steps, Before, Closed

\* An invitation is no offer and no answer.
LEMMA HandshakeApart ==
    ASSUME NEW x
    PROVE  /\ Msg("invite", x) # Msg("offer", x) /\ Msg("invite", x) # Msg("answer", x)
           /\ Msg("offer", x) # Msg("answer", x)
  BY DEF Msg

\* sendFile().
LEMMA PairOffers ==
    ASSUME NEW x \in Files, NEW s, NEW r, NEW qs, NEW qr \in Seq(Message), Pair(x, s, r, qs, qr),
           s.state = "unset", NEW z, z.state = "inviting", z.up = TRUE, z.run = "none",
           z.pc = "none", z.dc = "none"
    PROVE  Pair(x, z, r, qs, Append(qr, Msg("invite", x)))
<1>1. PICK m \in Message : m = Msg("invite", x)
  BY MsgFacts DEF About
<1>2. PICK a : a = Append(qr, m)
  OBVIOUS
<1>3. Lacks(qr, m)
  BY <1>1 DEF Pair, Steps
<1>4. Once(a, m)
  BY <1>2, <1>3, OnceAppended
<1>5. /\ Once(a, Msg("answer", x)) /\ Lacks(a, Msg("offer", x))
      /\ Lacks(a, Msg("answer", x)) <=> Lacks(qr, Msg("answer", x))
  <2>1. \A n : n # m => (Lacks(a, n) <=> Lacks(qr, n))
    BY <1>2, AppendLacks
  <2>2. Once(qr, Msg("answer", x)) => Once(a, Msg("answer", x))
    BY <1>1, <1>2, AppendOnce, HandshakeApart
  <2> QED
    BY <1>1, <2>1, <2>2, HandshakeApart DEF Pair, Queues
<1>6. SenderInv(z) /\ Queues(x, qs, a)
  BY <1>1, <1>4, <1>5 DEF Pair, Queues, SenderInv
<1>7. Pair(x, z, r, qs, a)
  BY <1>5, <1>6 DEF Pair, Steps, Before, ReceiverInv
<1> QED
  BY <1>1, <1>2, <1>7

\* receive().
LEMMA PairAccepts ==
    ASSUME NEW x, NEW s, NEW r, NEW qs, NEW qr, Pair(x, s, r, qs, qr), r.state = "inviting",
           NEW z, z.state = "connecting", z.up = r.up, z.run = "offer", z.pc = "new", z.dc = "new"
    PROVE  Pair(x, s, z, qs, qr)
<1>1. ReceiverInv(z)
  BY DEF Pair, ReceiverInv
<1> QED
  BY <1>1 DEF Pair, Steps, Before

\* The offer is sent.
LEMMA PairOffered ==
    ASSUME NEW x \in Files, NEW s, NEW r, NEW qs \in Seq(Message), NEW qr, Pair(x, s, r, qs, qr),
           r.run = "offer", NEW z, z.state = r.state, z.up = r.up, z.run = "none", z.pc = "local",
           z.dc = r.dc
    PROVE  Pair(x, s, z, Append(qs, Msg("offer", x)), qr)
<1>1. PICK m \in Message : m = Msg("offer", x)
  BY MsgFacts DEF About
<1>2. PICK a : a = Append(qs, m)
  OBVIOUS
<1>3. Lacks(qs, m)
  BY <1>1 DEF Pair, Steps
<1>4. Once(a, m)
  BY <1>2, <1>3, OnceAppended
<1>5. Lacks(a, Msg("invite", x)) /\ Lacks(a, Msg("answer", x))
  <2>1. \A n : n # m => (Lacks(a, n) <=> Lacks(qs, n))
    BY <1>2, AppendLacks
  <2> QED
    BY <1>1, <2>1, HandshakeApart DEF Pair, Queues
<1>6. ReceiverInv(z) /\ Queues(x, a, qr)
  BY <1>1, <1>4, <1>5 DEF Pair, Queues, ReceiverInv
<1>7. Pair(x, s, z, a, qr)
  BY <1>6 DEF Pair, Steps, Before, ReceiverInv
<1> QED
  BY <1>1, <1>2, <1>7

\* The offer is taken.
LEMMA PairAnswering ==
    ASSUME NEW x \in Files, NEW s, NEW r, NEW qs, NEW qr, Pair(x, s, r, qs, qr),
           ~Lacks(qs, Msg("offer", x)), s.state # "closed", NEW ts, Fewer(x, qs, ts),
           Lacks(ts, Msg("offer", x)),
           NEW z, z.state = "connecting", z.up = s.up, z.run = "answer", z.pc = "new", z.dc = s.dc
    PROVE  Pair(x, z, r, ts, qr) /\ s.state = "inviting"
<1>1. Pair(x, s, r, ts, qr)
  BY PairFewer, FewerEmpty
<1>2. s.state = "inviting"
  BY DEF Pair, Steps
<1>3. SenderInv(z)
  BY <1>2 DEF Pair, SenderInv
<1> QED
  BY <1>1, <1>2, <1>3 DEF Pair, Steps, Before

\* The answer is sent.
LEMMA PairAnswered ==
    ASSUME NEW x \in Files, NEW s, NEW r, NEW qs, NEW qr \in Seq(Message), Pair(x, s, r, qs, qr),
           s.run = "answer", NEW z, z.state = "connected", z.up = s.up, z.run = "none",
           z.pc = "stable"
    PROVE  Pair(x, z, r, qs, Append(qr, Msg("answer", x)))
<1>1. PICK m \in Message : m = Msg("answer", x)
  BY MsgFacts DEF About
<1>2. PICK a : a = Append(qr, m)
  OBVIOUS
<1>3. Lacks(qr, m)
  BY <1>1 DEF Pair, Steps
<1>4. Once(a, m)
  BY <1>2, <1>3, OnceAppended
<1>5. /\ Once(a, Msg("invite", x)) /\ Lacks(a, Msg("offer", x))
      /\ Lacks(a, Msg("invite", x)) <=> Lacks(qr, Msg("invite", x))
  <2>1. \A n : n # m => (Lacks(a, n) <=> Lacks(qr, n))
    BY <1>2, AppendLacks
  <2>2. Once(qr, Msg("invite", x)) => Once(a, Msg("invite", x))
    BY <1>1, <1>2, AppendOnce, HandshakeApart
  <2> QED
    BY <1>1, <2>1, <2>2, HandshakeApart DEF Pair, Queues
<1>6. SenderInv(z) /\ Queues(x, qs, a)
  BY <1>1, <1>4, <1>5 DEF Pair, Queues, SenderInv
<1>7. Pair(x, z, r, qs, a)
  BY <1>5, <1>6 DEF Pair, Steps, Before, SenderInv
<1> QED
  BY <1>1, <1>2, <1>7

\* The answer is taken.
LEMMA PairSetting ==
    ASSUME NEW x \in Files, NEW s, NEW r, NEW qs, NEW qr, Pair(x, s, r, qs, qr),
           ~Lacks(qr, Msg("answer", x)), r.state # "closed", NEW tr, Fewer(x, qr, tr),
           Lacks(tr, Msg("answer", x)),
           NEW z, z.state = r.state, z.up = r.up, z.run = "setting", z.pc = r.pc, z.dc = r.dc
    PROVE  Pair(x, s, z, qs, tr)
<1>1. Pair(x, s, r, qs, tr)
  BY PairFewer, FewerEmpty
<1>2. r.state = "connecting" /\ ~Before(s) /\ s.run # "answer"
  BY DEF Pair, Steps
<1>3. ReceiverInv(z)
  BY <1>2 DEF Pair, ReceiverInv
<1> QED
  BY <1>1, <1>2, <1>3 DEF Pair, Steps, Before

\* It is set.
LEMMA PairSet ==
    ASSUME NEW x, NEW s, NEW r, NEW qs, NEW qr, Pair(x, s, r, qs, qr), r.run = "setting",
           NEW z, z.state = "connected", z.up = r.up, z.run = "none", z.pc = "stable"
    PROVE  Pair(x, s, z, qs, qr) /\ r.state = "connecting"
<1>1. ReceiverInv(z) /\ r.state = "connecting"
  BY DEF Pair, ReceiverInv
<1> QED
  BY <1>1 DEF Pair, Steps, Before

\* The last chunk is taken.
LEMMA PairDone ==
    ASSUME NEW x, NEW s, NEW r, NEW qs, NEW qr, Pair(x, s, r, qs, qr), r.state = "connected",
           NEW z, z.state = "done", z.up = r.up, z.run = "waiting", z.pc = r.pc, z.dc = r.dc
    PROVE  Pair(x, s, z, qs, qr)
<1>1. ReceiverInv(z)
  BY DEF Pair, ReceiverInv
<1> QED
  BY <1>1 DEF Pair, Steps, Before

\* An invitation is taken.
LEMMA PairInvited ==
    ASSUME NEW x \in Files, NEW s, NEW r, NEW qs, NEW qr, Pair(x, s, r, qs, qr),
           ~Lacks(qr, Msg("invite", x)), NEW tr, Fewer(x, qr, tr), Lacks(tr, Msg("invite", x)),
           NEW z, z.state = "inviting", ~z.up, z.run = "none", z.pc = "none", z.dc = "none"
    PROVE  Pair(x, s, z, qs, tr) /\ r.state = "unset"
<1>1. Pair(x, s, r, qs, tr)
  BY PairFewer, FewerEmpty
<1>2. r.state = "unset" /\ s.state # "unset"
  BY DEF Pair, Steps
<1>3. ReceiverInv(z)
  BY DEF ReceiverInv
<1> QED
  BY <1>1, <1>2, <1>3 DEF Pair, Steps, Before

-----------------------------------------------------------------------------
(* The steps.                                                              *)

\* The pairs, after a step.
LEMMA PrimedTurn ==
    ASSUME \A y \in Files : From[y] # To[y] =>
               Pair(y, f'[From[y]][y], f'[To[y]][y], inbox'[From[y]], inbox'[To[y]])
    PROVE  InTurn'
<1>1. ASSUME NEW y \in Files, From[y] # To[y]
      PROVE  Pair(y, f[From[y]][y], f[To[y]][y], inbox[From[y]], inbox[To[y]])'
  BY <1>1 DEF Pair, SenderInv, ReceiverInv, Queues, Steps, Before, Once, Lacks, Msg
<1> QED
  BY <1>1 DEF InTurn

\* One record changes, and the inboxes have nothing new about other transfers.
LEMMA Turned ==
    ASSUME Inv, InTurn, NEW p \in Pages, NEW x \in Files, p \in {From[x], To[x]}, NEW z \in Rec,
           Replaced(p, x, z), Goes(f[p][x], z),
           \A q \in Pages, y \in Files \ {x} : Fewer(y, inbox[q], inbox'[q]),
           From[x] # To[x] =>
               Pair(x, SideS(p, x, z), SideR(p, x, z), inbox'[From[x]], inbox'[To[x]])
    PROVE  InTurn' /\ Moves
<1>1. /\ f'[p][x] = z
      /\ \A q \in Pages, y \in Files : q # p \/ y # x => f'[q][y] = f[q][y]
      /\ f'[From[x]][x] = SideS(p, x, z) /\ f'[To[x]][x] = SideR(p, x, z)
  BY OneRecord
<1>2. ASSUME NEW y \in Files, From[y] # To[y]
      PROVE  Pair(y, f'[From[y]][y], f'[To[y]][y], inbox'[From[y]], inbox'[To[y]])
  <2>1. CASE y = x
    BY <1>1, <1>2, <2>1
  <2>2. CASE y # x
    <3>1. From[y] \in Pages /\ To[y] \in Pages
      BY Constants
    <3>2. f'[From[y]][y] = f[From[y]][y] /\ f'[To[y]][y] = f[To[y]][y]
      BY <1>1, <2>2, <3>1
    <3>3. Pair(y, f[From[y]][y], f[To[y]][y], inbox[From[y]], inbox[To[y]])
      BY <1>2 DEF InTurn
    <3>4. Fewer(y, inbox[From[y]], inbox'[From[y]]) /\ Fewer(y, inbox[To[y]], inbox'[To[y]])
      BY <2>2, <3>1
    <3> QED
      BY <3>2, <3>3, <3>4, PairFewer
  <2> QED
    BY <2>1, <2>2
<1>3. Moves
  <2>1. ASSUME NEW q \in Pages, NEW y \in Files PROVE Goes(f[q][y], f'[q][y])
    <3>1. CASE q = p /\ y = x
      BY <1>1, <3>1
    <3>2. CASE ~(q = p /\ y = x)
      BY <1>1, <3>2 DEF Goes
    <3> QED
      BY <3>1, <3>2
  <2> QED
    BY <2>1 DEF Moves
<1> QED
  BY <1>2, <1>3, PrimedTurn

\* The inboxes after Becomes(): a page that has left does not get what is sent.
LEMMA PostedTurn ==
    ASSUME Inv, NEW p \in Pages, NEW x \in Files, p \in {From[x], To[x]}, NEW ms,
           Carries(ms, x), Posting(p, x, ms)
    PROVE  /\ \A q \in Pages, y \in Files \ {x} : Fewer(y, inbox[q], inbox'[q])
           /\ From[x] # To[x] =>
                /\ inbox'[p] = inbox[p]
                /\ Fewer(x, Arrived(inbox[Peer(p, x)], ms), inbox'[Peer(p, x)])
<1>1. inbox' = Sent(Peer(p, x), ms) /\ inbox \in [Pages -> Seq(Message)]
  BY DEF Posting, Inv, Types
<1>2. PICK q \in Pages : q = Peer(p, x) /\ q \in {From[x], To[x]}
  BY Constants
<1>3. From[x] # To[x] => p # q
  BY <1>2 DEF Peer
<1>4. CASE ms = <<>>
  <2>1. inbox' = inbox
    BY <1>1, <1>2, <1>4 DEF Sent
  <2> QED
    BY <1>2, <1>4, <2>1, FewerEmpty DEF Arrived
<1>5. ASSUME NEW t \in About, ms = <<Msg(t, x)>>
      PROVE  /\ \A u \in Pages, y \in Files \ {x} : Fewer(y, inbox[u], inbox'[u])
             /\ From[x] # To[x] =>
                  /\ inbox'[p] = inbox[p]
                  /\ Fewer(x, Arrived(inbox[Peer(p, x)], ms), inbox'[Peer(p, x)])
  <2>1. PICK m \in Message : m = Msg(t, x)
    BY MsgFacts
  <2>2. ms = <<m>> /\ ms # <<>> /\ ms[1] = m
    BY <1>5, <2>1
  <2>3. inbox[q] \o <<m>> = Append(inbox[q], m)
    BY <1>1
  <2>4. inbox' = [inbox EXCEPT ![q] = IF q \in gone THEN @ ELSE Append(@, m)]
    BY <1>1, <1>2, <2>2, <2>3 DEF Sent
  <2>5. \A u \in Pages : inbox'[u] = IF u = q /\ q \notin gone THEN Append(inbox[q], m) ELSE inbox[u]
    BY <1>1, <2>4
  <2>6. ASSUME NEW u \in Pages, NEW y \in Files \ {x} PROVE Fewer(y, inbox[u], inbox'[u])
    <3>1. \A b \in Handshake : m # Msg(b, y)
      BY <2>1, MsgFacts DEF Handshake, About
    <3>2. Fewer(y, inbox[q], Append(inbox[q], m))
      BY <1>1, <3>1, FewerAppend
    <3> QED
      BY <2>5, <3>2, FewerEmpty
  <2>7. Fewer(x, Arrived(inbox[q], ms), inbox'[q])
    <3>1. CASE q \in gone
      <4>1. inbox'[q] = <<>>
        BY <2>5, <3>1 DEF Inv, Posts
      <4> QED
        BY <4>1, FewerEmpty
    <3>2. CASE q \notin gone
      <4>1. inbox'[q] = Arrived(inbox[q], ms)
        BY <2>2, <2>5, <3>2 DEF Arrived
      <4> QED
        BY <4>1, FewerEmpty
    <3> QED
      BY <3>1, <3>2
  <2> QED
    BY <1>2, <1>3, <2>5, <2>6, <2>7
<1> QED
  BY <1>4, <1>5 DEF Carries

\* A page does something with a transfer.
LEMMA BecomesTurned ==
    ASSUME Inv, InTurn, NEW p \in Pages, NEW x \in Files, p \in {From[x], To[x]}, NEW z \in Rec,
           NEW ms, Carries(ms, x), Posting(p, x, ms), Replaced(p, x, z), Goes(f[p][x], z),
           From[x] # To[x] /\ p = From[x] =>
               Pair(x, z, f[To[x]][x], inbox[From[x]], Arrived(inbox[To[x]], ms)),
           From[x] # To[x] /\ p = To[x] =>
               Pair(x, f[From[x]][x], z, Arrived(inbox[From[x]], ms), inbox[To[x]])
    PROVE  InTurn' /\ Moves
<1>1. /\ \A q \in Pages, y \in Files \ {x} : Fewer(y, inbox[q], inbox'[q])
      /\ From[x] # To[x] =>
           /\ inbox'[p] = inbox[p]
           /\ Fewer(x, Arrived(inbox[Peer(p, x)], ms), inbox'[Peer(p, x)])
  BY PostedTurn
<1>2. ASSUME From[x] # To[x]
      PROVE  Pair(x, SideS(p, x, z), SideR(p, x, z), inbox'[From[x]], inbox'[To[x]])
  <2>1. CASE p = From[x]
    <3>1. Peer(p, x) = To[x] /\ SideS(p, x, z) = z /\ SideR(p, x, z) = f[To[x]][x]
      BY <1>2, <2>1 DEF Peer, SideS, SideR
    <3>2. Pair(x, z, f[To[x]][x], inbox[From[x]], Arrived(inbox[To[x]], ms))
      BY <1>2, <2>1
    <3>3. /\ Fewer(x, inbox[From[x]], inbox'[From[x]])
          /\ Fewer(x, Arrived(inbox[To[x]], ms), inbox'[To[x]])
      BY <1>1, <1>2, <2>1, <3>1, FewerEmpty
    <3>4. Pair(x, z, f[To[x]][x], inbox'[From[x]], inbox'[To[x]])
      BY <3>2, <3>3, PairFewer
    <3> QED
      BY <3>1, <3>4
  <2>2. CASE p = To[x]
    <3>1. Peer(p, x) = From[x] /\ SideS(p, x, z) = f[From[x]][x] /\ SideR(p, x, z) = z
      BY <1>2, <2>2 DEF Peer, SideS, SideR
    <3>2. Pair(x, f[From[x]][x], z, Arrived(inbox[From[x]], ms), inbox[To[x]])
      BY <1>2, <2>2
    <3>3. /\ Fewer(x, Arrived(inbox[From[x]], ms), inbox'[From[x]])
          /\ Fewer(x, inbox[To[x]], inbox'[To[x]])
      BY <1>1, <1>2, <2>2, <3>1, FewerEmpty
    <3>4. Pair(x, f[From[x]][x], z, inbox'[From[x]], inbox'[To[x]])
      BY <3>2, <3>3, PairFewer
    <3> QED
      BY <3>1, <3>4
  <2> QED
    BY <2>1, <2>2
<1> QED
  BY <1>1, <1>2, Turned

\* The two sides of one transfer.
LEMMA PairNow ==
    ASSUME InTurn, NEW x \in Files, From[x] # To[x]
    PROVE  Pair(x, f[From[x]][x], f[To[x]][x], inbox[From[x]], inbox[To[x]])
  BY DEF InTurn

\* Something is sent that is not of the handshake, or nothing; and the record
\* is as it was, or closed.
LEMMA QuietlyTurned ==
    ASSUME Inv, InTurn, NEW p \in Pages, NEW x \in Files, p \in {From[x], To[x]}, NEW z \in Rec,
           NEW ms, ms \in {<<>>, <<Msg("ice", x)>>, <<Msg("cancel", x)>>},
           Posting(p, x, ms), Replaced(p, x, z),
           Alike(f[p][x], z) \/ Closed(f[p][x], z)
    PROVE  InTurn' /\ Moves
<1>1. PICK r \in Rec : r = f[p][x]
  BY Known
<1>2. Carries(ms, x)
  BY DEF Carries, About
<1>3. Goes(r, z)
  BY <1>1 DEF Goes, Alike, Closed, Rec, States, Order
<1>4. \A q \in Pages : Fewer(x, inbox[q], Arrived(inbox[q], ms))
  <2>1. SUFFICES ASSUME NEW q \in Pages PROVE Fewer(x, inbox[q], Arrived(inbox[q], ms))
    OBVIOUS
  <2>2. CASE ms = <<>>
    BY <2>2, FewerEmpty DEF Arrived
  <2>3. ASSUME NEW t \in {"ice", "cancel"}, ms = <<Msg(t, x)>>
        PROVE  Fewer(x, inbox[q], Arrived(inbox[q], ms))
    <3>1. PICK m \in Message : m = Msg(t, x)
      BY MsgFacts DEF About
    <3>2. \A b \in Handshake : m # Msg(b, x)
      BY <3>1 DEF Handshake, Msg
    <3>3. Fewer(x, inbox[q], Append(inbox[q], m))
      BY <3>2, Known, FewerAppend
    <3>4. ms # <<>> /\ ms[1] = m
      BY <2>3, <3>1
    <3> QED
      BY <3>3, <3>4 DEF Arrived
  <2> QED
    BY <2>2, <2>3
<1>5. ASSUME From[x] # To[x], p = From[x]
      PROVE  Pair(x, z, f[To[x]][x], inbox[From[x]], Arrived(inbox[To[x]], ms))
  <2>1. Pair(x, r, f[To[x]][x], inbox[From[x]], inbox[To[x]])
    BY <1>1, <1>5, PairNow
  <2>2. Pair(x, z, f[To[x]][x], inbox[From[x]], inbox[To[x]])
    <3>1. CASE Alike(r, z)
      BY <2>1, <3>1, PairAlike DEF Alike
    <3>2. CASE Closed(r, z)
      BY <2>1, <3>2, SenderEnds
    <3> QED
      BY <1>1, <3>1, <3>2
  <2> QED
    BY <1>4, <2>2, PairFewer, FewerEmpty, Constants
<1>6. ASSUME From[x] # To[x], p = To[x]
      PROVE  Pair(x, f[From[x]][x], z, Arrived(inbox[From[x]], ms), inbox[To[x]])
  <2>1. Pair(x, f[From[x]][x], r, inbox[From[x]], inbox[To[x]])
    BY <1>1, <1>6, PairNow
  <2>2. Pair(x, f[From[x]][x], z, inbox[From[x]], inbox[To[x]])
    <3>1. CASE Alike(r, z)
      BY <2>1, <3>1, PairAlike DEF Alike
    <3>2. CASE Closed(r, z)
      BY <2>1, <3>2, ReceiverEnds
    <3> QED
      BY <1>1, <3>1, <3>2
  <2> QED
    BY <1>4, <2>2, PairFewer, FewerEmpty, Constants
<1> QED
  BY <1>1, <1>2, <1>3, <1>5, <1>6, BecomesTurned

\* The ways a transfer ends.
LEMMA EndsClosed ==
    ASSUME NEW r \in Rec, r.state # "unset", NEW z,
           z = Close(r) \/ \E how \in {"done", "cancelled"} : z = Ends(r, how)
    PROVE  z \in Rec /\ Closed(r, z)
<1>1. ASSUME NEW u \in Rec, u.state = r.state, u.up = r.up, z = Close(u)
      PROVE  z \in Rec /\ Closed(r, z)
  <2>1. z \in Rec
    BY <1>1, CloseFacts
  <2>2. z = [u EXCEPT !.state = "closed", !.pc = "none", !.dc = "none", !.run = "none",
                      !.held = 0, !.unsent = FALSE, !.datalen = 0]
    BY <1>1 DEF Close
  <2>3. /\ z.state = "closed" /\ z.run = "none" /\ z.pc = "none" /\ z.dc = "none" /\ z.up = u.up
    BY <2>2 DEF Rec
  <2> QED
    BY <1>1, <2>1, <2>3 DEF Closed
<1>2. ASSUME NEW how \in {"done", "cancelled"}, z = Ends(r, how) PROVE z \in Rec /\ Closed(r, z)
  <2>1. PICK u \in Rec : u = [r EXCEPT !.end = how]
    BY DEF Rec
  <2>2. u.state = r.state /\ u.up = r.up
    BY <2>1 DEF Rec
  <2>3. z = Close(u)
    BY <1>2, <2>1 DEF Ends
  <2> QED
    BY <1>1, <2>2, <2>3
<1> QED
  BY <1>1, <1>2

\* Becomes(), in its parts.
LEMMA BecomesParts ==
    ASSUME NEW p, NEW x, NEW z, NEW ms, Becomes(p, x, z, ms)
    PROVE  Posting(p, x, ms) /\ Replaced(p, x, z)
  BY DEF Becomes, Posting, Replaced

\* cancel(), on a transfer of which there is something.
LEMMA CancelTurned ==
    ASSUME Inv, InTurn, NEW p \in Pages, NEW x \in Files, Cancel(p, x), f[p][x].state # "unset"
    PROVE  InTurn' /\ Moves
<1>1. PICK r \in Rec : r = f[p][x] /\ r.state # "unset"
  BY Known
<1>2. p \in {From[x], To[x]}
  BY PartyOf
<1>3. CASE Handshakes(r)
  <2>1. PICK z : z = Ends(r, "cancelled")
    OBVIOUS
  <2>2. PICK ms : ms = <<Msg("cancel", x)>>
    OBVIOUS
  <2>3. Posting(p, x, ms) /\ Replaced(p, x, z)
    BY <1>1, <1>3, <2>1, <2>2, BecomesParts DEF Cancel
  <2>4. z \in Rec /\ Closed(r, z)
    BY <1>1, <2>1, EndsClosed
  <2> QED
    BY <1>1, <1>2, <2>2, <2>3, <2>4, QuietlyTurned
<1>4. CASE ~Handshakes(r)
  <2>1. PICK z : z = IF r.state = "closed" THEN r ELSE Close(r)
    OBVIOUS
  <2>2. Posting(p, x, <<>>) /\ Replaced(p, x, z)
    BY <1>1, <1>4, <2>1, BecomesParts DEF Cancel
  <2>3. z \in Rec /\ (Alike(r, z) \/ Closed(r, z))
    <3>1. CASE r.state = "closed"
      BY <2>1, <3>1 DEF Alike
    <3>2. CASE r.state # "closed"
      BY <1>1, <2>1, <3>2, EndsClosed
    <3> QED
      BY <3>1, <3>2
  <2> QED
    BY <1>1, <1>2, <2>2, <2>3, QuietlyTurned
<1> QED
  BY <1>3, <1>4

\* The user cancels.
LEMMA PressCancelTurned ==
    ASSUME Inv, InTurn, NEW p \in Pages, NEW x \in Files, PressCancel(p, x)
    PROVE  InTurn' /\ Moves
  BY CancelTurned DEF PressCancel, Handshakes

\* A page closes a transfer and says nothing.
LEMMA CloseTurned ==
    ASSUME Inv, InTurn, NEW p \in Pages, NEW x \in Files, f[p][x].state # "unset", NEW z,
           z = Close(f[p][x]) \/ \E how \in {"done", "cancelled"} : z = Ends(f[p][x], how),
           Becomes(p, x, z, <<>>)
    PROVE  InTurn' /\ Moves
<1>1. PICK r \in Rec : r = f[p][x] /\ r.state # "unset"
  BY Known
<1>2. p \in {From[x], To[x]}
  BY PartyOf
<1>3. z \in Rec /\ Closed(r, z)
  BY <1>1, EndsClosed
<1>4. Posting(p, x, <<>>) /\ Replaced(p, x, z)
  BY BecomesParts
<1> QED
  BY <1>1, <1>2, <1>3, <1>4, QuietlyTurned

\* A transfer with an open channel has begun.
LEMMA OpenIsAlive ==
    ASSUME Inv, NEW p \in Pages, NEW x \in Files, f[p][x].dc = "open"
    PROVE  f[p][x].state # "unset"
  BY OpenIsOther DEF Alive

\* The sender hears "done".
LEMMA TakeAckTurned ==
    ASSUME Inv, InTurn, NEW x \in Files, TakeAck(x)
    PROVE  InTurn' /\ Moves
<1>1. PICK p \in Pages : p = From[x]
  BY Constants
<1>2. /\ f[p][x].dc = "open"
      /\ IF f[p][x].datalen = Size[x] THEN Becomes(p, x, Ends(f[p][x], "done"), <<>>) ELSE Cancel(p, x)
  BY <1>1 DEF TakeAck
<1>3. f[p][x].state # "unset"
  BY <1>2, OpenIsAlive
<1>4. CASE f[p][x].datalen = Size[x]
  <2>1. PICK z : z = Ends(f[p][x], "done")
    OBVIOUS
  <2>2. Becomes(p, x, z, <<>>)
    BY <1>2, <1>4, <2>1
  <2> QED
    BY <1>3, <2>1, <2>2, CloseTurned
<1>5. CASE f[p][x].datalen # Size[x]
  BY <1>2, <1>3, <1>5, CancelTurned
<1> QED
  BY <1>4, <1>5

\* The receiver has waited long enough, or sees the channel closed.
LEMMA WaiterTurned ==
    ASSUME Inv, InTurn, NEW p \in Pages, NEW x \in Files, Runs(p, x, "waiting"),
           Becomes(p, x, Close(f[p][x]), <<>>)
    PROVE  InTurn' /\ Moves
<1>1. p \in {From[x], To[x]}
  BY PartyOf DEF Runs
<1>2. From[x] # To[x]
  <2>1. ASSUME From[x] = To[x] PROVE FALSE
    <3>1. SelfInv(x, f[p][x], inbox[p], p \in gone)
      BY <1>1, <2>1, Known
    <3> QED
      BY <3>1 DEF SelfInv, Unanswered, Runs
  <2> QED
    BY <2>1
<1>3. Pair(x, f[From[x]][x], f[To[x]][x], inbox[From[x]], inbox[To[x]])
  BY <1>2, PairNow
<1>4. f[p][x].state # "unset"
  BY <1>1, <1>3 DEF Pair, SenderInv, ReceiverInv, Runs
<1>5. PICK z : z = Close(f[p][x])
  OBVIOUS
<1>6. Becomes(p, x, z, <<>>)
  BY <1>5
<1> QED
  BY <1>4, <1>5, <1>6, CloseTurned

\* onclose, onerror.
LEMMA CloseSeenTurned ==
    ASSUME Inv, InTurn, NEW p \in Pages, NEW x \in Files, CloseSeen(p, x)
    PROVE  InTurn' /\ Moves
<1>1. f[p][x].dc = "open"
  BY DEF CloseSeen
<1>2. CASE Runs(p, x, "waiting")
  BY <1>2, WaiterTurned DEF CloseSeen
<1>3. CASE ~Runs(p, x, "waiting")
  BY <1>1, <1>3, OpenIsAlive, CancelTurned DEF CloseSeen
<1> QED
  BY <1>2, <1>3

\* sendFile().
LEMMA OfferTurned ==
    ASSUME Inv, InTurn, NEW x \in Files, Offer(x)
    PROVE  InTurn' /\ Moves
<1>1. PICK p \in Pages : p = From[x]
  BY Constants
<1>2. PICK z : z = [NoFile EXCEPT !.up = TRUE, !.state = "inviting"]
  OBVIOUS
<1>3. PICK ms : ms = <<Msg("invite", x)>>
  OBVIOUS
<1>4. p \notin gone /\ f[p][x] = NoFile /\ Replaced(p, x, z) /\ inbox' = Sent(To[x], ms)
  BY <1>1, <1>2, <1>3 DEF Offer, Replaced
<1>5. /\ z \in Rec /\ z.state = "inviting" /\ z.up = TRUE /\ z.pc = "none" /\ z.run = "none"
      /\ z.dc = "none" /\ NoFile.state = "unset" /\ NoFile.up = FALSE
  BY <1>2 DEF NoFile, Rec, States, Runnings
<1>6. Posting(p, x, ms) /\ Carries(ms, x) /\ ms # <<>> /\ ms[1] = Msg("invite", x)
  BY <1>1, <1>3, <1>4 DEF Posting, Peer, Carries, About
<1>7. ASSUME From[x] # To[x]
      PROVE  Pair(x, z, f[To[x]][x], inbox[From[x]], Arrived(inbox[To[x]], ms))
  <2>1. Pair(x, f[p][x], f[To[x]][x], inbox[From[x]], inbox[To[x]]) /\ inbox[To[x]] \in Seq(Message)
    BY <1>1, <1>7, PairNow, Constants, Known
  <2>2. Pair(x, z, f[To[x]][x], inbox[From[x]], Append(inbox[To[x]], Msg("invite", x)))
    BY <1>4, <1>5, <2>1, PairOffers
  <2> QED
    BY <1>6, <2>2 DEF Arrived
<1>8. Goes(f[p][x], z)
  BY <1>4, <1>5 DEF Goes
<1> QED
  BY <1>1, <1>4, <1>5, <1>6, <1>7, <1>8, BecomesTurned

\* receive().
LEMMA AcceptTurned ==
    ASSUME Inv, InTurn, NEW x \in Files, Accept(x)
    PROVE  InTurn' /\ Moves
<1>1. PICK p \in Pages : p = To[x]
  BY Constants
<1>2. PICK r \in Rec : r = f[p][x]
  BY Known
<1>3. PICK z : z = [r EXCEPT !.state = "connecting", !.pc = "new", !.dc = "new", !.run = "offer"]
  OBVIOUS
<1>4. r.state = "inviting" /\ Posting(p, x, <<>>) /\ Replaced(p, x, z) /\ Carries(<<>>, x)
  BY <1>1, <1>2, <1>3, BecomesParts DEF Accept, Carries
<1>5. z \in Rec
  <2>1. PICK a1 \in Rec : a1 = [r EXCEPT !.state = "connecting"]
    BY DEF Rec, States
  <2>2. PICK a2 \in Rec : a2 = [a1 EXCEPT !.pc = "new"]
    BY DEF Rec
  <2>3. PICK a3 \in Rec : a3 = [a2 EXCEPT !.dc = "new"]
    BY DEF Rec
  <2>4. PICK a4 \in Rec : a4 = [a3 EXCEPT !.run = "offer"]
    BY DEF Rec, Runnings
  <2> QED
    BY <1>3, <2>1, <2>2, <2>3, <2>4
<1>6. z.state = "connecting" /\ z.pc = "new" /\ z.dc = "new" /\ z.run = "offer" /\ z.up = r.up
  BY <1>3 DEF Rec
<1>7. Goes(r, z)
  BY <1>4, <1>6 DEF Goes, Order, States
<1>8. ASSUME From[x] # To[x] PROVE Pair(x, f[From[x]][x], z, Arrived(inbox[From[x]], <<>>), inbox[To[x]])
  <2>1. Pair(x, f[From[x]][x], r, inbox[From[x]], inbox[To[x]])
    BY <1>1, <1>2, <1>8, PairNow
  <2>2. Pair(x, f[From[x]][x], z, inbox[From[x]], inbox[To[x]])
    BY <1>4, <1>6, <2>1, PairAccepts
  <2> QED
    BY <2>2 DEF Arrived
<1> QED
  BY <1>1, <1>2, <1>4, <1>5, <1>7, <1>8, BecomesTurned

\* The offer is made, by the receiver.
LEMMA OfferMadeTurned ==
    ASSUME Inv, InTurn, NEW p \in Pages, NEW x \in Files, OfferMade(p, x)
    PROVE  InTurn' /\ Moves
<1>1. PICK r \in Rec : r = f[p][x]
  BY Known
<1>2. PICK z : z = [r EXCEPT !.pc = "local", !.run = "none", !.unsent = TRUE]
  OBVIOUS
<1>3. PICK ms : ms = <<Msg("offer", x)>>
  OBVIOUS
<1>4. r.run = "offer" /\ Becomes(p, x, z, ms)
  BY <1>1, <1>2, <1>3 DEF OfferMade, Runs
<1>5. Posting(p, x, ms) /\ Replaced(p, x, z) /\ Carries(ms, x) /\ ms # <<>> /\ ms[1] = Msg("offer", x)
  BY <1>3, <1>4, BecomesParts DEF Carries, About
<1>6. z \in Rec
  <2>1. PICK a1 \in Rec : a1 = [r EXCEPT !.pc = "local"]
    BY DEF Rec
  <2>2. PICK a2 \in Rec : a2 = [a1 EXCEPT !.run = "none"]
    BY DEF Rec, Runnings
  <2>3. PICK a3 \in Rec : a3 = [a2 EXCEPT !.unsent = TRUE]
    BY DEF Rec
  <2> QED
    BY <1>2, <2>1, <2>2, <2>3
<1>7. z.state = r.state /\ z.pc = "local" /\ z.dc = r.dc /\ z.run = "none" /\ z.up = r.up
  BY <1>2 DEF Rec
<1>8. p \in {From[x], To[x]}
  BY <1>1, <1>4, PartyOf
<1>9. ASSUME From[x] # To[x]
      PROVE  /\ p = To[x]
             /\ Pair(x, f[From[x]][x], z, Arrived(inbox[From[x]], ms), inbox[To[x]])
  <2>1. Pair(x, f[From[x]][x], f[To[x]][x], inbox[From[x]], inbox[To[x]]) /\ inbox[From[x]] \in Seq(Message)
    BY <1>9, PairNow, Constants, Known
  <2>2. p = To[x]
    BY <1>1, <1>4, <1>8, <2>1 DEF Pair, SenderInv
  <2>3. Pair(x, f[From[x]][x], z, Append(inbox[From[x]], Msg("offer", x)), inbox[To[x]])
    BY <1>1, <1>4, <1>7, <2>1, <2>2, PairOffered
  <2> QED
    BY <1>5, <2>2, <2>3 DEF Arrived
<1>10. Goes(r, z)
  BY <1>7 DEF Goes
<1> QED
  BY <1>1, <1>5, <1>6, <1>8, <1>9, <1>10, BecomesTurned

\* The answer is made, by the sender.
LEMMA AnswerMadeTurned ==
    ASSUME Inv, InTurn, NEW p \in Pages, NEW x \in Files, AnswerMade(p, x)
    PROVE  InTurn' /\ Moves
<1>1. PICK r \in Rec : r = f[p][x] /\ RecInv(r)
  BY Known
<1>2. PICK u \in BOOLEAN : u = TRUE
  OBVIOUS
<1>3. PICK z : z = Joins(r, u)
  OBVIOUS
<1>4. PICK ms : ms = <<Msg("answer", x)>>
  OBVIOUS
<1>5. r.run = "answer" /\ Becomes(p, x, z, ms)
  BY <1>1, <1>2, <1>4, <1>3 DEF AnswerMade, Runs, Joins
<1>6. Posting(p, x, ms) /\ Replaced(p, x, z) /\ Carries(ms, x) /\ ms # <<>> /\ ms[1] = Msg("answer", x)
  BY <1>4, <1>5, BecomesParts DEF Carries, About
<1>7. p \in {From[x], To[x]} /\ From[x] # To[x]
  BY <1>1, <1>5, AnswersAnother
<1>8. /\ z \in Rec /\ z.state = "connected" /\ z.pc = "stable" /\ z.run = "none" /\ z.up = r.up
  BY <1>1, <1>3, ConnectedFacts
<1>9. Pair(x, f[From[x]][x], f[To[x]][x], inbox[From[x]], inbox[To[x]]) /\ inbox[To[x]] \in Seq(Message)
  BY <1>7, PairNow, Constants, Known
<1>10. p = From[x] /\ r.state = "connecting"
  BY <1>1, <1>5, <1>7, <1>9 DEF Pair, ReceiverInv, SenderInv
<1>11. Pair(x, z, f[To[x]][x], inbox[From[x]], Append(inbox[To[x]], Msg("answer", x)))
  BY <1>1, <1>5, <1>8, <1>9, <1>10, PairAnswered
<1>12. Goes(r, z)
  BY <1>8, <1>10 DEF Goes, Order, States
<1>13. Pair(x, z, f[To[x]][x], inbox[From[x]], Arrived(inbox[To[x]], ms))
  BY <1>6, <1>11 DEF Arrived
<1> QED
  BY <1>1, <1>6, <1>7, <1>8, <1>10, <1>12, <1>13, BecomesTurned

\* The answer has been set, by the receiver.
LEMMA AnswerSetTurned ==
    ASSUME Inv, InTurn, NEW p \in Pages, NEW x \in Files, AnswerSet(p, x)
    PROVE  InTurn' /\ Moves
<1>1. PICK r \in Rec : r = f[p][x] /\ RecInv(r) /\ r.unsent \in BOOLEAN
  BY Known DEF Rec
<1>2. PICK z : z = Joins(r, r.unsent)
  OBVIOUS
<1>3. [Flushed(r) EXCEPT !.run = "none"] = [Flushed(r) EXCEPT !.run = "none", !.unsent = r.unsent]
  BY DEF Flushed, Rec
<1>4. r.run = "setting" /\ Becomes(p, x, z, <<>>)
  BY <1>1, <1>2, <1>3 DEF AnswerSet, Runs, Joins
<1>5. Posting(p, x, <<>>) /\ Replaced(p, x, z) /\ Carries(<<>>, x)
  BY <1>4, BecomesParts DEF Carries
<1>6. p \in {From[x], To[x]} /\ From[x] # To[x]
  BY <1>1, <1>4, AnswersAnother
<1>7. /\ z \in Rec /\ z.state = "connected" /\ z.pc = "stable" /\ z.run = "none" /\ z.up = r.up
  BY <1>1, <1>2, ConnectedFacts
<1>8. Pair(x, f[From[x]][x], f[To[x]][x], inbox[From[x]], inbox[To[x]])
  BY <1>6, PairNow
<1>9. p = To[x]
  BY <1>1, <1>4, <1>6, <1>8 DEF Pair, SenderInv
<1>10. Pair(x, f[From[x]][x], z, inbox[From[x]], inbox[To[x]]) /\ r.state = "connecting"
  BY <1>1, <1>4, <1>7, <1>8, <1>9, PairSet
<1>11. Goes(r, z)
  BY <1>7, <1>10 DEF Goes, Order, States
<1>12. Pair(x, f[From[x]][x], z, Arrived(inbox[From[x]], <<>>), inbox[To[x]])
  BY <1>10 DEF Arrived
<1> QED
  BY <1>1, <1>5, <1>6, <1>7, <1>9, <1>11, <1>12, BecomesTurned

\* A candidate is found.
LEMMA CandidateFoundTurned ==
    ASSUME Inv, InTurn, NEW p \in Pages, NEW x \in Files, CandidateFound(p, x)
    PROVE  InTurn' /\ Moves
<1>1. PICK r \in Rec : r = f[p][x]
  BY Known
<1>2. PICK z : z = [r EXCEPT !.unsent = FALSE]
  OBVIOUS
<1>3. PICK ms : ms = <<Msg("ice", x)>>
  OBVIOUS
<1>4. r.unsent /\ Becomes(p, x, z, ms)
  BY <1>1, <1>2, <1>3 DEF CandidateFound
<1>5. Posting(p, x, ms) /\ Replaced(p, x, z)
  BY <1>4, BecomesParts
<1>6. z \in Rec /\ Alike(r, z)
  BY <1>2 DEF Rec, Alike
<1>7. p \in {From[x], To[x]}
  BY <1>1, <1>4, PartyOf
<1> QED
  BY <1>1, <1>3, <1>5, <1>6, <1>7, QuietlyTurned

\* A chunk is sent.
LEMMA SendChunkTurned ==
    ASSUME Inv, InTurn, NEW x \in Files, SendChunk(x)
    PROVE  InTurn' /\ Moves
<1>1. PICK p \in Pages : p = From[x]
  BY Constants
<1>2. PICK r \in Rec : r = f[p][x]
  BY Known
<1>3. PICK z : z = Event([r EXCEPT !.datalen = @ + 1], "connected")
  OBVIOUS
<1>4. r.dc = "open" /\ Becomes(p, x, z, <<>>)
  BY <1>1, <1>2, <1>3 DEF SendChunk
<1>5. Posting(p, x, <<>>) /\ Replaced(p, x, z)
  BY <1>4, BecomesParts
<1>6. From[x] # To[x]
  BY <1>2, <1>4, OpenIsOther
<1>7. r.state = "connected"
  <2>1. Pair(x, r, f[To[x]][x], inbox[From[x]], inbox[To[x]])
    BY <1>1, <1>2, <1>6, PairNow
  <2> QED
    BY <1>4, <2>1 DEF Pair, SenderInv
<1>8. z \in Rec /\ Alike(r, z)
  <2>1. PICK n \in Nat : n = r.datalen + 1
    BY DEF Rec
  <2>2. PICK a1 \in Rec : a1 = [r EXCEPT !.datalen = n]
    BY DEF Rec
  <2>3. z = [a1 EXCEPT !.state = "connected"]
    BY <1>3, <2>1, <2>2 DEF Event
  <2>4. z \in Rec
    BY <2>3 DEF Rec, States
  <2>5. a1.state = r.state /\ a1.up = r.up /\ a1.run = r.run /\ a1.pc = r.pc /\ a1.dc = r.dc
    BY <2>2 DEF Rec
  <2>6. z.state = "connected" /\ z.up = a1.up /\ z.run = a1.run /\ z.pc = a1.pc /\ z.dc = a1.dc
    BY <2>3 DEF Rec
  <2> QED
    BY <1>7, <2>4, <2>5, <2>6 DEF Alike
<1> QED
  BY <1>1, <1>2, <1>5, <1>8, QuietlyTurned

\* A chunk is received.
LEMMA TakeChunkTurned ==
    ASSUME Inv, InTurn, NEW x \in Files, TakeChunk(x)
    PROVE  InTurn' /\ Moves
<1>1. PICK p \in Pages : p = To[x]
  BY Constants
<1>2. PICK r \in Rec : r = f[p][x]
  BY Known
<1>3. PICK last \in BOOLEAN : last = Complete(r, Size[x])
  BY DEF Complete
<1>4. PICK z : z = IF last THEN [r EXCEPT !.state = "done", !.end = "done", !.run = "waiting", !.datalen = 0]
                   ELSE Event([r EXCEPT !.datalen = @ + 1], "connected")
  OBVIOUS
<1>5. r.dc = "open" /\ r.run # "waiting" /\ Becomes(p, x, z, <<>>)
  BY <1>1, <1>2, <1>3, <1>4 DEF TakeChunk
<1>6. Posting(p, x, <<>>) /\ Replaced(p, x, z) /\ Carries(<<>>, x)
  BY <1>5, BecomesParts DEF Carries
<1>7. From[x] # To[x]
  BY <1>2, <1>5, OpenIsOther
<1>8. Pair(x, f[From[x]][x], r, inbox[From[x]], inbox[To[x]])
  BY <1>1, <1>2, <1>7, PairNow
<1>9. r.state = "connected"
  BY <1>5, <1>8 DEF Pair, ReceiverInv
<1>10. CASE last
  <2>1. z \in Rec
    <3>1. PICK a1 \in Rec : a1 = [r EXCEPT !.state = "done"]
      BY DEF Rec, States
    <3>2. PICK a2 \in Rec : a2 = [a1 EXCEPT !.end = "done"]
      BY DEF Rec
    <3>3. PICK a3 \in Rec : a3 = [a2 EXCEPT !.run = "waiting"]
      BY DEF Rec, Runnings
    <3>4. PICK a4 \in Rec : a4 = [a3 EXCEPT !.datalen = 0]
      BY DEF Rec
    <3> QED
      BY <1>4, <1>10, <3>1, <3>2, <3>3, <3>4
  <2>2. z.state = "done" /\ z.up = r.up /\ z.run = "waiting" /\ z.pc = r.pc /\ z.dc = r.dc
    BY <1>4, <1>10 DEF Rec
  <2>3. Pair(x, f[From[x]][x], z, inbox[From[x]], inbox[To[x]])
    BY <1>8, <1>9, <2>2, PairDone
  <2>4. Pair(x, f[From[x]][x], z, Arrived(inbox[From[x]], <<>>), inbox[To[x]])
    BY <2>3 DEF Arrived
  <2>5. Goes(r, z)
    BY <1>9, <2>2 DEF Goes, Order, States
  <2> QED
    BY <1>1, <1>2, <1>6, <1>7, <2>1, <2>4, <2>5, BecomesTurned
<1>11. CASE ~last
  <2>1. PICK n \in Nat : n = r.datalen + 1
    BY DEF Rec
  <2>2. PICK a1 \in Rec : a1 = [r EXCEPT !.datalen = n]
    BY DEF Rec
  <2>3. z = [a1 EXCEPT !.state = "connected"]
    BY <1>4, <1>11, <2>1, <2>2 DEF Event
  <2>4. z \in Rec
    BY <2>3 DEF Rec, States
  <2>5. a1.state = r.state /\ a1.up = r.up /\ a1.run = r.run /\ a1.pc = r.pc /\ a1.dc = r.dc
    BY <2>2 DEF Rec
  <2>6. z.state = "connected" /\ z.up = a1.up /\ z.run = a1.run /\ z.pc = a1.pc /\ z.dc = a1.dc
    BY <2>3 DEF Rec
  <2>7. Alike(r, z)
    BY <1>9, <2>5, <2>6 DEF Alike
  <2> QED
    BY <1>1, <1>2, <1>6, <2>4, <2>7, QuietlyTurned
<1> QED
  BY <1>10, <1>11

\* Every record is like before, or closed, and the inboxes have nothing new.
LEMMA AllTurned ==
    ASSUME Inv, InTurn,
           \A p \in Pages, x \in Files : Alike(f[p][x], f'[p][x]) \/ Closed(f[p][x], f'[p][x]),
           \A q \in Pages, y \in Files : Fewer(y, inbox[q], inbox'[q])
    PROVE  InTurn' /\ Moves
<1>1. ASSUME NEW y \in Files, From[y] # To[y]
      PROVE  Pair(y, f'[From[y]][y], f'[To[y]][y], inbox'[From[y]], inbox'[To[y]])
  <2>1. From[y] \in Pages /\ To[y] \in Pages
    BY Constants
  <2>2. PICK s : s = f'[From[y]][y]
    OBVIOUS
  <2>3. PICK r : r = f'[To[y]][y]
    OBVIOUS
  <2>4. Alike(f[From[y]][y], f[From[y]][y]) /\ Alike(f[To[y]][y], f[To[y]][y])
    BY DEF Alike
  <2>5. Pair(y, f[From[y]][y], f[To[y]][y], inbox'[From[y]], inbox'[To[y]])
    BY <1>1, <2>1, PairNow, PairFewer
  <2>6. Pair(y, s, f[To[y]][y], inbox'[From[y]], inbox'[To[y]])
    <3>1. Alike(f[From[y]][y], s) \/ Closed(f[From[y]][y], s)
      BY <2>1, <2>2
    <3> QED
      BY <2>4, <2>5, <3>1, PairAlike, SenderEnds
  <2>7. Pair(y, s, r, inbox'[From[y]], inbox'[To[y]])
    <3>1. Alike(f[To[y]][y], r) \/ Closed(f[To[y]][y], r)
      BY <2>1, <2>3
    <3>2. Alike(s, s)
      BY DEF Alike
    <3> QED
      BY <2>6, <3>1, <3>2, PairAlike, ReceiverEnds
  <2> QED
    BY <2>2, <2>3, <2>7
<1>2. ASSUME NEW p \in Pages, NEW x \in Files PROVE Goes(f[p][x], f'[p][x])
  <2>1. PICK r \in Rec : r = f[p][x]
    BY Known
  <2>2. PICK z : z = f'[p][x]
    OBVIOUS
  <2>3. Alike(r, z) \/ Closed(r, z)
    BY <2>1, <2>2
  <2>4. Goes(r, z)
    BY <2>3 DEF Goes, Alike, Closed, Rec, States, Order
  <2> QED
    BY <2>1, <2>2, <2>4
<1> QED
  BY <1>1, <1>2, PrimedTurn DEF Moves

\* The channel opens.
LEMMA OpensTurned ==
    ASSUME Inv, InTurn, NEW x \in Files, Opens(x)
    PROVE  InTurn' /\ Moves
<1>1. f \in [Pages -> [Files -> Rec]] /\ From[x] \in Pages /\ To[x] \in Pages
  BY Constants DEF Inv, Types
<1>2. PICK p \in Pages : p = From[x]
  BY <1>1
<1>3. PICK q \in Pages : q = To[x]
  BY <1>1
<1>4. /\ f[p][x].pc = "stable" /\ f[q][x].pc = "stable" /\ UNCHANGED inbox
      /\ f' = [f EXCEPT ![p][x].dc = "open", ![q][x].dc = "open"]
  BY <1>2, <1>3 DEF Opens
<1>5. p # q
  <2>1. ASSUME p = q PROVE FALSE
    <3>1. SelfInv(x, f[p][x], inbox[p], p \in gone)
      BY <1>2, <1>3, <2>1, Known
    <3> QED
      BY <1>4, <3>1 DEF SelfInv, Unanswered
  <2> QED
    BY <2>1
<1>6. PICK a \in Rec : a = f[p][x]
  BY <1>1
<1>7. PICK b \in Rec : b = f[q][x]
  BY <1>1
<1>8. PICK s \in Rec : s = [a EXCEPT !.dc = "open"]
  BY DEF Rec
<1>9. PICK r \in Rec : r = [b EXCEPT !.dc = "open"]
  BY DEF Rec
<1>10. PICK g \in [Files -> Rec] : g = [f[p] EXCEPT ![x] = s]
  BY <1>1
<1>11. PICK h \in [Files -> Rec] : h = [f[q] EXCEPT ![x] = r]
  BY <1>1
<1>12. f' = [f EXCEPT ![p] = g, ![q] = h]
  BY <1>1, <1>4, <1>5, <1>8, <1>9, <1>10, <1>11, <1>6, <1>7
<1>13. \A u \in Pages : f'[u] = IF u = p THEN g ELSE IF u = q THEN h ELSE f[u]
  BY <1>1, <1>5, <1>12
<1>14. Alike(f[p][x], s) /\ Alike(f[q][x], r)
  BY <1>4, <1>8, <1>9, <1>6, <1>7 DEF Alike, Rec
<1>15. ASSUME NEW u \in Pages, NEW y \in Files PROVE Alike(f[u][y], f'[u][y])
  <2>1. CASE u \in {p, q} /\ y = x
    <3>1. g[x] = s /\ h[x] = r
      BY <1>1, <1>10, <1>11
    <3> QED
      BY <1>5, <1>13, <1>14, <2>1, <3>1
  <2>2. CASE ~(u \in {p, q} /\ y = x)
    <3>1. y # x => g[y] = f[p][y] /\ h[y] = f[q][y]
      BY <1>1, <1>10, <1>11
    <3>2. f'[u][y] = f[u][y]
      BY <1>13, <2>2, <3>1
    <3> QED
      BY <3>2 DEF Alike
  <2> QED
    BY <2>1, <2>2
<1> QED
  BY <1>4, <1>15, FewerEmpty, AllTurned

\* Nothing of the transfers changes.
LEMMA StillTurned ==
    ASSUME Inv, InTurn, UNCHANGED f, \A q \in Pages, y \in Files : Fewer(y, inbox[q], inbox'[q])
    PROVE  InTurn' /\ Moves
<1>1. \A p \in Pages, x \in Files : Alike(f[p][x], f'[p][x])
  BY DEF Alike
<1> QED
  BY <1>1, AllTurned

\* A channel fails.
LEMMA BreaksTurned ==
    ASSUME Inv, InTurn, NEW x \in Files, Breaks(x)
    PROVE  InTurn' /\ Moves
  BY StillTurned, FewerEmpty DEF Breaks

\* A page leaves.
LEMMA LeaveTurned ==
    ASSUME Inv, InTurn, NEW p \in Pages, Leave(p)
    PROVE  InTurn' /\ Moves
<1>1. /\ inbox' = [q \in Pages |-> IF q = p \/ q \in gone THEN <<>> ELSE Append(inbox[q], Note(p))]
      /\ UNCHANGED f
  BY DEF Leave
<1>2. Note(p) \in Message /\ \A b \in Handshake, y \in Files : Note(p) # Msg(b, y)
  <2>1. Note(p) \in [type : {"delete"}, x : Pages]
    BY DEF Note
  <2>2. \A b \in Handshake, y \in Files : Note(p) # Msg(b, y)
    BY DEF Note, Msg, Handshake
  <2> QED
    BY <2>1, <2>2, Zenon DEF Message
<1>3. ASSUME NEW q \in Pages, NEW y \in Files PROVE Fewer(y, inbox[q], inbox'[q])
  <2>1. CASE q = p \/ q \in gone
    <3>1. inbox'[q] = <<>>
      BY <1>1, <2>1
    <3> QED
      BY <3>1, FewerEmpty
  <2>2. CASE ~(q = p \/ q \in gone)
    <3>1. inbox'[q] = Append(inbox[q], Note(p))
      BY <1>1, <2>2
    <3>2. Fewer(y, inbox[q], Append(inbox[q], Note(p)))
      BY <1>2, Known, FewerAppend
    <3> QED
      BY <3>1, <3>2
  <2> QED
    BY <2>1, <2>2
<1> QED
  BY <1>1, <1>3, StillTurned

-----------------------------------------------------------------------------
(* A message is delivered.                                                 *)

\* The first message of p is taken.
LEMMA TakenFewer ==
    ASSUME Inv, NEW p \in Pages, inbox[p] # <<>>, Taken(p), UNCHANGED gone
    PROVE  \A q \in Pages, y \in Files : Fewer(y, inbox[q], inbox'[q])
<1>1. \A q \in Pages : inbox'[q] = IF q = p THEN Tail(inbox[p]) ELSE inbox[q]
  BY TakenPosts
<1>2. ASSUME NEW y \in Files PROVE Fewer(y, inbox[p], Tail(inbox[p]))
  BY Known, FewerTail
<1> QED
  BY <1>1, <1>2, FewerEmpty

\* A message leaves the record as it was, or closes the transfer.
LEMMA TakenQuietly ==
    ASSUME Inv, InTurn, NEW p \in Pages, inbox[p] # <<>>, Taken(p), UNCHANGED gone,
           NEW x \in Files, NEW z \in Rec, Replaced(p, x, z),
           Alike(f[p][x], z) \/ Closed(f[p][x], z)
    PROVE  InTurn' /\ Moves
<1>1. /\ f'[p][x] = z
      /\ \A q \in Pages, y \in Files : q # p \/ y # x => f'[q][y] = f[q][y]
  BY OneRecord
<1>2. ASSUME NEW q \in Pages, NEW y \in Files
      PROVE  Alike(f[q][y], f'[q][y]) \/ Closed(f[q][y], f'[q][y])
  <2>1. CASE q = p /\ y = x
    BY <1>1, <2>1
  <2>2. CASE ~(q = p /\ y = x)
    <3>1. f'[q][y] = f[q][y]
      BY <1>1, <2>2
    <3> QED
      BY <3>1 DEF Alike
  <2> QED
    BY <2>1, <2>2
<1> QED
  BY <1>2, TakenFewer, AllTurned

\* A message changes the record of its transfer.
LEMMA TakenTurned ==
    ASSUME Inv, InTurn, NEW p \in Pages, inbox[p] # <<>>, Taken(p), UNCHANGED gone,
           NEW x \in Files, p \in {From[x], To[x]}, NEW z \in Rec, Replaced(p, x, z), Goes(f[p][x], z),
           From[x] # To[x] /\ p = From[x] => Pair(x, z, f[To[x]][x], Tail(inbox[p]), inbox[To[x]]),
           From[x] # To[x] /\ p = To[x] => Pair(x, f[From[x]][x], z, inbox[From[x]], Tail(inbox[p]))
    PROVE  InTurn' /\ Moves
<1>1. \A q \in Pages : inbox'[q] = IF q = p THEN Tail(inbox[p]) ELSE inbox[q]
  BY TakenPosts
<1>2. ASSUME From[x] # To[x]
      PROVE  Pair(x, SideS(p, x, z), SideR(p, x, z), inbox'[From[x]], inbox'[To[x]])
  <2>1. From[x] \in Pages /\ To[x] \in Pages
    BY Constants
  <2>2. CASE p = From[x]
    <3>1. Pair(x, z, f[To[x]][x], Tail(inbox[p]), inbox[To[x]])
      BY <1>2, <2>2
    <3>2. inbox'[From[x]] = Tail(inbox[p]) /\ inbox'[To[x]] = inbox[To[x]]
      BY <1>1, <1>2, <2>1, <2>2
    <3>3. SideS(p, x, z) = z /\ SideR(p, x, z) = f[To[x]][x]
      BY <1>2, <2>2 DEF SideS, SideR
    <3> QED
      BY <3>1, <3>2, <3>3
  <2>3. CASE p = To[x]
    <3>1. Pair(x, f[From[x]][x], z, inbox[From[x]], Tail(inbox[p]))
      BY <1>2, <2>3
    <3>2. inbox'[From[x]] = inbox[From[x]] /\ inbox'[To[x]] = Tail(inbox[p])
      BY <1>1, <1>2, <2>1, <2>3
    <3>3. SideS(p, x, z) = f[From[x]][x] /\ SideR(p, x, z) = z
      BY <1>2, <2>3 DEF SideS, SideR
    <3> QED
      BY <3>1, <3>2, <3>3
  <2> QED
    BY <2>2, <2>3
<1>3. \A q \in Pages, y \in Files \ {x} : Fewer(y, inbox[q], inbox'[q])
  BY TakenFewer
<1> QED
  BY <1>2, <1>3, Turned

\* The page is one of the two of the transfer.
LEMMA AddressedTo ==
    ASSUME Inv, NEW p \in Pages, inbox[p] # <<>>, NEW x \in Files, NEW t \in About,
           Head(inbox[p]) = Msg(t, x)
    PROVE  p \in {From[x], To[x]} /\ inbox[p] \in Seq(Message) /\ ~Lacks(inbox[p], Msg(t, x))
<1>1. inbox[p] \in Seq(Message)
  BY DEF Inv, Types
<1>2. 1 \in 1 .. Len(inbox[p]) /\ inbox[p][1] = Msg(t, x)
  BY <1>1, TailHas, TailAt
<1>3. For(p, Msg(t, x))
  BY <1>2 DEF Inv, Posts
<1> QED
  BY <1>1, <1>2, <1>3, MsgFacts DEF For, Lacks

\* The sender has an offer.
LEMMA OfferTaken ==
    ASSUME Inv, InTurn, NEW p \in Pages, inbox[p] # <<>>, Taken(p), UNCHANGED gone, p \notin gone,
           NEW x \in Files, Head(inbox[p]) = Msg("offer", x), Listed(f[p][x]),
           Replaced(p, x, AnsweredWith(f[p][x]))
    PROVE  InTurn' /\ Moves
<1>1. PICK s \in Rec : s = f[p][x] /\ Listed(s)
  BY Known
<1>2. PICK z : z = AnsweredWith(s)
  OBVIOUS
<1>3. z \in Rec
  <2>1. PICK a1 \in Rec : a1 = [s EXCEPT !.state = "connecting"]
    BY DEF Rec, States
  <2>2. PICK a2 \in Rec : a2 = [a1 EXCEPT !.pc = "new"]
    BY DEF Rec
  <2>3. PICK a3 \in Rec : a3 = [a2 EXCEPT !.run = "answer"]
    BY DEF Rec, Runnings
  <2> QED
    BY <1>2, <2>1, <2>2, <2>3 DEF AnsweredWith
<1>4. z.state = "connecting" /\ z.up = s.up /\ z.run = "answer" /\ z.pc = "new" /\ z.dc = s.dc
  BY <1>2 DEF AnsweredWith, Rec
<1>5. /\ p \in {From[x], To[x]} /\ inbox[p] \in Seq(Message)
      /\ ~Lacks(inbox[p], Msg("offer", x))
  BY AddressedTo DEF About
<1>6. From[x] # To[x]
  <2>1. ASSUME From[x] = To[x] PROVE FALSE
    <3>1. SelfInv(x, s, inbox[p], p \in gone)
      BY <1>1, <1>5, <2>1, Known
    <3>2. SelfInv(x, s, inbox[p], FALSE)
      BY <3>1 DEF SelfInv
    <3> QED
      BY <1>1, <1>5, <3>2, SelfUnanswered
  <2> QED
    BY <2>1
<1>7. Pair(x, f[From[x]][x], f[To[x]][x], inbox[From[x]], inbox[To[x]])
  BY <1>6, PairNow
<1>8. p = From[x] /\ Once(inbox[p], Msg("offer", x))
  BY <1>5, <1>7 DEF Pair, Queues
<1>9. Fewer(x, inbox[p], Tail(inbox[p])) /\ Lacks(Tail(inbox[p]), Msg("offer", x))
  BY <1>5, <1>8, FewerTail, OnceTaken
<1>10. s.state # "closed"
  BY <1>1 DEF Listed
<1>11. Pair(x, z, f[To[x]][x], Tail(inbox[p]), inbox[To[x]]) /\ s.state = "inviting"
  BY <1>1, <1>4, <1>5, <1>7, <1>8, <1>9, <1>10, PairAnswering
<1>12. Goes(s, z)
  BY <1>4, <1>11 DEF Goes, Order, States
<1>13. Replaced(p, x, z)
  BY <1>1, <1>2
<1> QED
  BY <1>1, <1>3, <1>5, <1>6, <1>8, <1>11, <1>12, <1>13, TakenTurned

\* The receiver has an answer.
LEMMA AnswerTaken ==
    ASSUME Inv, InTurn, NEW p \in Pages, inbox[p] # <<>>, Taken(p), UNCHANGED gone, p \notin gone,
           NEW x \in Files, Head(inbox[p]) = Msg("answer", x), Listed(f[p][x]),
           Replaced(p, x, [f[p][x] EXCEPT !.run = "setting"])
    PROVE  InTurn' /\ Moves
<1>1. PICK r \in Rec : r = f[p][x] /\ Listed(r)
  BY Known
<1>2. PICK z : z = [r EXCEPT !.run = "setting"]
  OBVIOUS
<1>3. /\ z \in Rec /\ z.state = r.state /\ z.up = r.up /\ z.run = "setting" /\ z.pc = r.pc
      /\ z.dc = r.dc
  BY <1>2 DEF Rec, Runnings
<1>4. /\ p \in {From[x], To[x]} /\ inbox[p] \in Seq(Message)
      /\ ~Lacks(inbox[p], Msg("answer", x))
  BY AddressedTo DEF About
<1>5. From[x] # To[x]
  <2>1. ASSUME From[x] = To[x] PROVE FALSE
    <3>1. SelfInv(x, r, inbox[p], p \in gone)
      BY <1>1, <1>4, <2>1, Known
    <3> QED
      BY <1>4, <3>1 DEF SelfInv, Possible
  <2> QED
    BY <2>1
<1>6. Pair(x, f[From[x]][x], f[To[x]][x], inbox[From[x]], inbox[To[x]])
  BY <1>5, PairNow
<1>7. p = To[x] /\ Once(inbox[p], Msg("answer", x))
  BY <1>4, <1>6 DEF Pair, Queues
<1>8. Fewer(x, inbox[p], Tail(inbox[p])) /\ Lacks(Tail(inbox[p]), Msg("answer", x))
  BY <1>4, <1>7, FewerTail, OnceTaken
<1>9. r.state # "closed"
  BY <1>1 DEF Listed
<1>10. Pair(x, f[From[x]][x], z, inbox[From[x]], Tail(inbox[p]))
  BY <1>1, <1>3, <1>4, <1>6, <1>7, <1>8, <1>9, PairSetting
<1>11. Goes(r, z)
  BY <1>3 DEF Goes
<1>12. Replaced(p, x, z)
  BY <1>1, <1>2
<1> QED
  BY <1>1, <1>3, <1>4, <1>5, <1>7, <1>10, <1>11, <1>12, TakenTurned

\* A message that is no invitation.
LEMMA OtherTurned ==
    ASSUME Inv, InTurn, NEW p \in Pages, inbox[p] # <<>>, Taken(p), UNCHANGED gone, p \notin gone,
           NEW x \in Files, NEW t \in About \ {"invite"}, Head(inbox[p]) = Msg(t, x),
           Replaced(p, x, GotOther(f[p][x], t))
    PROVE  InTurn' /\ Moves
<1>1. PICK r \in Rec : r = f[p][x] /\ RecInv(r)
  BY Known
<1>2. PICK z : z = GotOther(r, t)
  OBVIOUS
<1>3. z \in Rec /\ Replaced(p, x, z)
  BY <1>1, <1>2, GotOtherFacts
<1>4. CASE ~Listed(r)
  <2>1. Alike(r, z)
    BY <1>2, <1>4 DEF GotOther, Alike
  <2> QED
    BY <1>1, <1>3, <2>1, TakenQuietly
<1>5. CASE Listed(r) /\ t = "offer"
  <2>1. GotOther(f[p][x], t) = AnsweredWith(f[p][x])
    BY <1>1, <1>5 DEF GotOther
  <2> QED
    BY <1>1, <1>5, <2>1, OfferTaken
<1>6. CASE Listed(r) /\ t = "answer"
  <2>1. GotOther(f[p][x], t) = [f[p][x] EXCEPT !.run = "setting"]
    BY <1>1, <1>6 DEF GotOther
  <2> QED
    BY <1>1, <1>6, <2>1, AnswerTaken
<1>7. CASE Listed(r) /\ t = "ice"
  <2>1. z = Heard(r)
    BY <1>2, <1>7 DEF GotOther
  <2>2. z = r \/ z = [r EXCEPT !.held = r.held + 1] \/ z = [r EXCEPT !.heard = TRUE]
    BY <2>1 DEF Heard
  <2>3. Alike(r, z)
    BY <2>2 DEF Alike, Rec
  <2> QED
    BY <1>1, <1>3, <2>3, TakenQuietly
<1>8. CASE Listed(r) /\ t = "cancel"
  <2>1. z = Ends(r, "cancelled") /\ r.state # "unset"
    BY <1>2, <1>8 DEF GotOther, Listed
  <2>2. Closed(r, z)
    BY <2>1, EndsClosed
  <2> QED
    BY <1>1, <1>3, <2>2, TakenQuietly
<1> QED
  BY <1>4, <1>5, <1>6, <1>7, <1>8 DEF About

\* An invitation to a page that has nothing of the file, or has closed it.
LEMMA InviteTurned ==
    ASSUME Inv, InTurn, NEW p \in Pages, inbox[p] # <<>>, Taken(p), UNCHANGED gone, p \notin gone,
           NEW x \in Files, Head(inbox[p]) = Msg("invite", x),
           Replaced(p, x, [NoFile EXCEPT !.state = "inviting"])
    PROVE  InTurn' /\ Moves
<1>1. PICK r \in Rec : r = f[p][x]
  BY Known
<1>2. PICK z : z = [NoFile EXCEPT !.state = "inviting"]
  OBVIOUS
<1>3. /\ z \in Rec /\ z.state = "inviting" /\ z.up = FALSE /\ z.pc = "none" /\ z.run = "none"
      /\ z.dc = "none"
  BY <1>2 DEF NoFile, Rec, States, Runnings
<1>4. /\ p \in {From[x], To[x]} /\ inbox[p] \in Seq(Message)
      /\ ~Lacks(inbox[p], Msg("invite", x))
  BY AddressedTo DEF About
<1>5. Replaced(p, x, z)
  BY <1>2
<1>6. CASE From[x] = To[x]
  <2>1. SelfInv(x, r, inbox[p], p \in gone)
    BY <1>1, <1>4, <1>6, Known
  <2>2. r.up
    BY <1>4, <2>1 DEF SelfInv, InviteFirst, Lacks
  <2>3. Goes(r, z)
    BY <1>3, <2>2 DEF Goes
  <2> QED
    BY <1>1, <1>3, <1>4, <1>5, <1>6, <2>3, TakenTurned
<1>7. CASE From[x] # To[x]
  <2>1. Pair(x, f[From[x]][x], f[To[x]][x], inbox[From[x]], inbox[To[x]])
    BY <1>7, PairNow
  <2>2. p = To[x] /\ Once(inbox[p], Msg("invite", x))
    BY <1>4, <2>1 DEF Pair, Queues
  <2>3. Fewer(x, inbox[p], Tail(inbox[p])) /\ Lacks(Tail(inbox[p]), Msg("invite", x))
    BY <1>4, <2>2, FewerTail, OnceTaken
  <2>6. Pair(x, f[From[x]][x], r, inbox[From[x]], inbox[p])
    BY <1>1, <2>1, <2>2
  <2>7. ~z.up
    BY <1>3
  <2>4. Pair(x, f[From[x]][x], z, inbox[From[x]], Tail(inbox[p])) /\ r.state = "unset"
    BY <1>3, <1>4, <2>3, <2>6, <2>7, PairInvited
  <2>5. Goes(r, z)
    BY <1>3, <2>4 DEF Goes, Order, States
  <2> QED
    BY <1>1, <1>3, <1>4, <1>5, <1>7, <2>2, <2>4, <2>5, TakenTurned
<1> QED
  BY <1>6, <1>7

\* An invitation that is refused.
LEMMA RefusedTurned ==
    ASSUME Inv, InTurn, NEW p \in Pages, inbox[p] # <<>>, p \notin gone, NEW x \in Files,
           Refused(p, x), UNCHANGED <<f, gone>>
    PROVE  InTurn' /\ Moves
<1>1. \A q \in Pages :
          inbox'[q] = IF q = From[x] /\ q \notin gone
                      THEN Append(LeftOf(p, q), Msg("cancel", x)) ELSE LeftOf(p, q)
  BY RefusedPosts
<1>2. PICK c \in Message : c = Msg("cancel", x)
  BY MsgFacts DEF About
<1>3. \A b \in Handshake, y \in Files : c # Msg(b, y)
  BY <1>2 DEF Handshake, Msg
<1>4. ASSUME NEW q \in Pages, NEW y \in Files PROVE Fewer(y, inbox[q], inbox'[q])
  <2>1. LeftOf(p, q) \in Seq(Message) /\ Fewer(y, inbox[q], LeftOf(p, q))
    <3>1. CASE q = p
      <4>1. inbox[p] \in Seq(Message) /\ LeftOf(p, q) = Tail(inbox[p])
        BY <3>1, Known DEF LeftOf
      <4> QED
        BY <3>1, <4>1, TailAt, FewerTail
    <3>2. CASE q # p
      BY <3>2, Known, FewerEmpty DEF LeftOf
    <3> QED
      BY <3>1, <3>2
  <2>2. Fewer(y, LeftOf(p, q), Append(LeftOf(p, q), c))
    BY <1>3, <2>1, FewerAppend
  <2>3. inbox'[q] = LeftOf(p, q) \/ inbox'[q] = Append(LeftOf(p, q), c)
    BY <1>1, <1>2
  <2> QED
    BY <2>1, <2>2, <2>3 DEF Fewer
<1> QED
  BY <1>4, StillTurned

\* A page hears that another has left.
LEMMA DeleteTurned ==
    ASSUME Inv, InTurn, NEW p \in Pages, inbox[p] # <<>>, Taken(p), UNCHANGED gone,
           NEW q \in Pages, GotDelete(p, q)
    PROVE  InTurn' /\ Moves
<1>1. f \in [Pages -> [Files -> Rec]]
  BY DEF Inv, Types
<1>2. PICK g : g = [x \in Files |-> IF q = Peer(p, x) THEN Fail(f[p][x]) ELSE f[p][x]]
  OBVIOUS
<1>3. f' = [f EXCEPT ![p] = g]
  BY <1>1, <1>2 DEF GotDelete
<1>4. \A u \in Pages : f'[u] = IF u = p THEN g ELSE f[u]
  BY <1>1, <1>3
<1>5. ASSUME NEW x \in Files PROVE Alike(f[p][x], g[x]) \/ Closed(f[p][x], g[x])
  <2>1. PICK r \in Rec : r = f[p][x]
    BY Known
  <2>2. CASE q = Peer(p, x) /\ Handshakes(r)
    <3>1. PICK z : z = Ends(r, "cancelled")
      OBVIOUS
    <3>2. g[x] = z /\ r.state # "unset"
      BY <1>2, <2>1, <2>2, <3>1 DEF Fail, Handshakes
    <3>3. Closed(r, z)
      BY <3>1, <3>2, EndsClosed
    <3> QED
      BY <2>1, <3>2, <3>3
  <2>3. CASE ~(q = Peer(p, x) /\ Handshakes(r))
    <3>1. g[x] = r
      BY <1>2, <2>1, <2>3 DEF Fail
    <3> QED
      BY <2>1, <3>1 DEF Alike
  <2> QED
    BY <2>2, <2>3
<1>6. ASSUME NEW u \in Pages, NEW x \in Files
      PROVE  Alike(f[u][x], f'[u][x]) \/ Closed(f[u][x], f'[u][x])
  <2>1. CASE u = p
    BY <1>4, <1>5, <2>1
  <2>2. CASE u # p
    <3>1. f'[u][x] = f[u][x]
      BY <1>4, <2>2
    <3> QED
      BY <3>1 DEF Alike
  <2> QED
    BY <2>1, <2>2
<1> QED
  BY <1>6, TakenFewer, AllTurned

\* The server's messages.
LEMMA DeliverTurned ==
    ASSUME Inv, InTurn, NEW p \in Pages, Deliver(p)
    PROVE  InTurn' /\ Moves
<1>1. PICK m : m = Head(inbox[p])
  OBVIOUS
<1>2. /\ inbox[p] # <<>> /\ p \notin gone /\ UNCHANGED gone
      /\ m.type = "delete" => GotDelete(p, m.x) /\ Taken(p)
      /\ m.type # "delete" /\ m.type = "invite" => GotInvite(p, m.x)
      /\ m.type # "delete" /\ m.type # "invite" =>
            Taken(p) /\ Replaced(p, m.x, GotOther(f[p][m.x], m.type))
  BY <1>1 DEF Deliver, Taken, Replaced
<1>3. m \in Message
  BY <1>1, <1>2, TailAt DEF Inv, Types
<1>4. CASE m.type = "delete"
  <2>1. m \in [type : {"delete"}, x : Pages]
    BY <1>3, <1>4 DEF Message, About
  <2>2. m.x \in Pages
    BY <2>1
  <2> QED
    BY <1>2, <1>4, <2>2, DeleteTurned
<1>5. CASE m.type # "delete"
  <2>1. m \in [type : About, x : Files]
    BY <1>3, <1>5 DEF Message
  <2>2. m.x \in Files /\ m.type \in About /\ m = Msg(m.type, m.x)
    BY <2>1 DEF Msg
  <2>3. PICK x \in Files : x = m.x
    BY <2>2
  <2>4. CASE m.type # "invite"
    BY <1>1, <1>2, <1>5, <2>2, <2>4, OtherTurned
  <2>5. CASE m.type = "invite"
    <3>1. GotInvite(p, x) /\ Head(inbox[p]) = Msg("invite", x)
      BY <1>1, <1>2, <2>2, <2>3, <2>5
    <3>2. CASE Listed(f[p][x])
      <4>1. Refused(p, x) /\ UNCHANGED f
        BY <3>1, <3>2 DEF GotInvite, Refused
      <4> QED
        BY <1>2, <4>1, RefusedTurned
    <3>3. CASE ~Listed(f[p][x])
      <4>1. Taken(p) /\ Replaced(p, x, [NoFile EXCEPT !.state = "inviting"])
        BY <3>1, <3>3 DEF GotInvite, Taken, Replaced
      <4> QED
        BY <1>2, <3>1, <4>1, InviteTurned
    <3> QED
      BY <3>2, <3>3
  <2> QED
    BY <2>4, <2>5
<1> QED
  BY <1>4, <1>5

-----------------------------------------------------------------------------
(* The order.                                                              *)

\* The beginning.
LEMMA InitTurn == Init => InTurn
<1> SUFFICES ASSUME Init PROVE InTurn
  OBVIOUS
<1>1. /\ \A p \in Pages, x \in Files : f[p][x] = NoFile
      /\ \A p \in Pages : inbox[p] = <<>>
  BY DEF Init
<1>2. /\ NoFile.state = "unset" /\ NoFile.up = FALSE /\ NoFile.run = "none" /\ NoFile.pc = "none"
      /\ NoFile.dc = "none"
  BY DEF NoFile
<1>3. SenderInv(NoFile) /\ ReceiverInv(NoFile)
  BY <1>2 DEF SenderInv, ReceiverInv
<1>4. \A m : Lacks(<<>>, m) /\ Once(<<>>, m)
  BY DEF Lacks, Once
<1>5. \A x \in Files : Pair(x, NoFile, NoFile, <<>>, <<>>)
  BY <1>2, <1>3, <1>4 DEF Pair, Queues, Steps, Before
<1> QED
  BY <1>1, <1>5, Constants DEF InTurn

\* Every step.
LEMMA NextTurn == Inv /\ InTurn /\ [Next]_vars => InTurn' /\ Moves
<1> SUFFICES ASSUME Inv, InTurn, [Next]_vars PROVE InTurn' /\ Moves
  OBVIOUS
<1>1. ASSUME NEW p \in Pages, Deliver(p) PROVE InTurn' /\ Moves
  BY <1>1, DeliverTurned
<1>2. ASSUME NEW p \in Pages, NEW x \in Files, Awaits(p, x) PROVE InTurn' /\ Moves
  BY <1>2, OfferMadeTurned, AnswerMadeTurned, AnswerSetTurned, CandidateFoundTurned DEF Awaits
<1>3. ASSUME NEW p \in Pages, NEW x \in Files, WaitedLong(p, x) PROVE InTurn' /\ Moves
  BY <1>3, WaiterTurned DEF WaitedLong
<1>4. ASSUME NEW p \in Pages, NEW x \in Files, CloseSeen(p, x) PROVE InTurn' /\ Moves
  BY <1>4, CloseSeenTurned
<1>5. ASSUME NEW x \in Files, Channel(x) PROVE InTurn' /\ Moves
  BY <1>5, SendChunkTurned, TakeChunkTurned, TakeAckTurned, OpensTurned DEF Channel
<1>6. ASSUME NEW x \in Files, Opens(x) PROVE InTurn' /\ Moves
  BY <1>6, OpensTurned
<1>7. CASE Progress
  BY <1>1, <1>2, <1>3, <1>4, <1>5, <1>7 DEF Progress
<1>8. CASE UNCHANGED vars
  BY <1>8, StillTurned, FewerEmpty DEF vars
<1> QED
  BY <1>6, <1>7, <1>8, OfferTurned, AcceptTurned, BreaksTurned, PressCancelTurned, LeaveTurned
     DEF Next

\* The two sides of a transfer take turns (fileTransfer, receive, answer,
\* receiveFile): each message of the handshake goes one way and once, and each
\* side is where what the other has done allows, whatever is cancelled, lost
\* with a page that has left, or late.
THEOREM KeepsInTurn == Spec => []InTurn
<1>1. Inv /\ InTurn /\ [Next]_vars => InTurn'
  BY NextTurn
<1> QED
  BY <1>1, InitTurn, Invariance, PTL DEF Spec

\* The states of a transfer follow each other as the comment of
\* TransferredFile says, unset, inviting, connecting, connected, done and
\* closed, with none left out and none taken back, and from any to closed:
\* whoever cancels, leaves or is cut off when.  Only a page that has taken back
\* a file it sends to itself is invited all the same, and becomes the receiver.
\* It is the safety half of what the run checks as EndsForEach.
THEOREM StatesInOrder == Spec => InOrder
<1>1. Inv /\ InTurn /\ [Next]_vars =>
          [\A p \in Pages, x \in Files :
              f'[p][x].state # f[p][x].state /\ f'[p][x].up = f[p][x].up
              => f'[p][x].state \in Order[f[p][x].state]]_vars
  BY NextTurn DEF Moves, Goes
<1> QED
  BY <1>1, KeepsInTurn, Invariance, PTL DEF Spec, InOrder
=============================================================================
