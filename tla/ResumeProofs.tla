---------------------------- MODULE ResumeProofs ----------------------------
(***************************************************************************)
(* Proofs about Resume.  Inv is inductive: one lemma per action shows that  *)
(* the action keeps it, NextInv puts them together, and the safety          *)
(* properties and the refinement of ReliableLink follow from it.            *)
(***************************************************************************)
EXTENDS Resume, TLAPS

USE MaxSocksAssumption, MaxSentAssumption, WindowAssumption

\* The elements of two queues joined, as an append to a socket joins them.
LEMMA ConcatElements ==
    ASSUME NEW S, NEW q \in Seq(S), NEW r \in Seq(S)
    PROVE  /\ q \o r \in Seq(S)
           /\ Len(q \o r) = Len(q) + Len(r)
           /\ \A j \in 1 .. Len(q) : (q \o r)[j] = q[j]
           /\ \A j \in 1 .. Len(r) : (q \o r)[Len(q) + j] = r[j]
  OBVIOUS

\* What is left of a queue once its head is taken.
LEMMA TailElements ==
    ASSUME NEW S, NEW q \in Seq(S), q # <<>>
    PROVE  /\ Tail(q) \in Seq(S)
           /\ Head(q) = q[1] /\ q[1] \in S
           /\ Len(q) \in Nat /\ Len(q) >= 1
           /\ Len(Tail(q)) = Len(q) - 1
           /\ \A j \in 1 .. Len(q) - 1 : Tail(q)[j] = q[j + 1]
  OBVIOUS

\* A queue of no elements is the empty one.
LEMMA EmptyQueue ==
    ASSUME NEW S, NEW q \in Seq(S), Len(q) = 0
    PROVE  q = <<>>
  OBVIOUS

\* A replay (replayRing.after, SentLog.after) is the messages a to b, one
\* after the other.
LEMMA RunElements ==
    ASSUME NEW a \in Nat, NEW b \in Nat
    PROVE  /\ Run(a, b) \in Seq(Frames)
           /\ Len(Run(a, b)) = IF b < a THEN 0 ELSE b - a + 1
           /\ \A j \in 1 .. Len(Run(a, b)) : Run(a, b)[j] = Msg(a + j - 1)
<1> DEFINE n == IF b < a THEN 0 ELSE b - a + 1
<1>1. n \in Nat
  OBVIOUS
<1>2. \A j \in 1 .. n : Msg(a + j - 1) \in Frames
  BY DEF Msg, Frames
<1>3. Run(a, b) = [j \in 1 .. n |-> Msg(a + j - 1)]
  BY DEF Run
<1>4. Run(a, b) \in Seq(Frames)
  BY <1>1, <1>2, <1>3
<1>5. Len(Run(a, b)) = n
  BY <1>1, <1>3
<1> QED
  BY <1>3, <1>4, <1>5

\* Writing to a socket changes that socket only, and a broken one not at all.
LEMMA WriteElements ==
    ASSUME NEW q \in [Socks -> Seq(Frames)], NEW i \in Socks,
           NEW r \in Seq(Frames)
    PROVE  /\ Write(q, i, r) \in [Socks -> Seq(Frames)]
           /\ \A k \in Socks : k # i => Write(q, i, r)[k] = q[k]
           /\ Write(q, i, r)[i] = IF up[i] THEN q[i] \o r ELSE q[i]
<1>1. q[i] \o r \in Seq(Frames) /\ q[i] \in Seq(Frames)
  BY ConcatElements
<1> QED
  BY <1>1 DEF Write

\* The client adds at most one close frame to a socket, and none after one.
LEMMA CloseFramesElements ==
    ASSUME NEW i, NEW code \in Codes
    PROVE  LET r == CloseFrames(i, code)
           IN  /\ r \in Seq(Frames)
               /\ \/ r = <<>>
                  \/ /\ r = <<Close(code)>>
                     /\ Close(code) \in Frames /\ Close(code).t = "close"
                     /\ c2s[i] = <<>> \/ c2s[i][Len(c2s[i])].t # "close"
<1>1. Close(code) \in Frames /\ Close(code).t = "close"
  BY DEF Close, Frames
<1>2. <<Close(code)>> \in Seq(Frames) /\ Len(<<Close(code)>>) = 1
      /\ <<Close(code)>>[1] = Close(code)
  BY <1>1
<1>3. CASE c2s[i] # <<>> /\ c2s[i][Len(c2s[i])].t = "close"
  BY <1>3 DEF CloseFrames
<1>4. CASE ~(c2s[i] # <<>> /\ c2s[i][Len(c2s[i])].t = "close")
  <2>1. CloseFrames(i, code) = <<Close(code)>>
    BY <1>4 DEF CloseFrames
  <2> QED
    BY <2>1, <1>1, <1>2, <1>4
<1> QED
  BY <1>3, <1>4

\* r is q, perhaps with close frames after it.
Closing(q, r) ==
    /\ Len(r) >= Len(q)
    /\ \A j \in 1 .. Len(q) : r[j] = q[j]
    /\ \A j \in 1 .. Len(r) : j > Len(q) => r[j].t = "close"
    /\ Len(r) > Len(q) =>
          Len(r) = Len(q) + 1 /\ (Len(q) > 0 => q[Len(q)].t # "close")

\* A socket that was closed before is left as it is.
LEMMA ClosingRefl == ASSUME NEW q \in Seq(Frames) PROVE Closing(q, q)
  BY DEF Closing

\* One frame added at the end of a queue.
LEMMA OneMore ==
    ASSUME NEW q \in Seq(Frames), NEW f \in Frames
    PROVE  /\ q \o <<f>> \in Seq(Frames)
           /\ Len(q \o <<f>>) = Len(q) + 1
           /\ \A j \in 1 .. Len(q) : (q \o <<f>>)[j] = q[j]
           /\ (q \o <<f>>)[Len(q) + 1] = f
  OBVIOUS

\* A close frame added to a socket that has none.
LEMMA ClosingConcat ==
    ASSUME NEW q \in Seq(Frames), NEW f \in Frames, f.t = "close",
           q = <<>> \/ q[Len(q)].t # "close"
    PROVE  Closing(q, q \o <<f>>)
<1>1. PICK w : w = q \o <<f>>
  OBVIOUS
<1>2. /\ Len(w) = Len(q) + 1 /\ w[Len(q) + 1] = f
      /\ \A j \in 1 .. Len(q) : w[j] = q[j]
      /\ Len(q) \in Nat
  BY <1>1, OneMore
<1>3. Len(q) > 0 => q[Len(q)].t # "close"
  OBVIOUS
<1>4. Closing(q, w)
  BY <1>2, <1>3 DEF Closing
<1> QED
  BY <1>1, <1>4

\* Closing a socket keeps its frames in order and adds no message to it.
LEMMA ClosingKeeps ==
    ASSUME NEW q \in Seq(Frames), NEW r \in Seq(Frames), Closing(q, r),
           Ordered(q)
    PROVE  /\ Ordered(r)
           /\ ~HasType(q, "msg") => ~HasType(r, "msg")
<1>1. PICK m \in Nat, n \in Nat : m = Len(q) /\ n = Len(r)
  OBVIOUS
<1>2. /\ n >= m
      /\ \A j \in 1 .. m : r[j] = q[j]
      /\ \A j \in 1 .. n : j > m => r[j].t = "close"
      /\ n > m => n = m + 1 /\ (m > 0 => q[m].t # "close")
  BY <1>1 DEF Closing
<1>3. \A j \in 1 .. m : /\ q[j].t \in {"hello", "msg", "close"}
                        /\ q[j].t = "close" => j = m
  BY <1>1, Zenon DEF Ordered
<1>4. \A j \in 1 .. n : /\ r[j].t \in {"hello", "msg", "close"}
                        /\ r[j].t = "close" => j = n
                        /\ r[j].t = "msg" => j \in 1 .. m /\ r[j] = q[j]
  BY <1>2, <1>3
<1> QED
  BY <1>1, <1>4 DEF Ordered, HasType

(***************************************************************************)
(* The socket a client closes gets at most a close frame more.             *)
(***************************************************************************)
LEMMA ClosedSocket ==
    ASSUME TypeOK, NEW i \in Socks, NEW code \in Codes, NEW w,
           w = Write(c2s, i, CloseFrames(i, code))
    PROVE  /\ w \in [Socks -> Seq(Frames)]
           /\ \A k \in Socks : k # i => w[k] = c2s[k]
           /\ Closing(c2s[i], w[i])
<1> DEFINE r == CloseFrames(i, code)
<1>1. /\ r \in Seq(Frames)
      /\ \/ r = <<>>
         \/ /\ r = <<Close(code)>>
            /\ Close(code) \in Frames /\ Close(code).t = "close"
            /\ c2s[i] = <<>> \/ c2s[i][Len(c2s[i])].t # "close"
  BY CloseFramesElements
<1>2. c2s \in [Socks -> Seq(Frames)] /\ c2s[i] \in Seq(Frames)
  BY DEF TypeOK
<1>3. /\ w \in [Socks -> Seq(Frames)]
      /\ \A k \in Socks : k # i => w[k] = c2s[k]
      /\ w[i] = IF up[i] THEN c2s[i] \o r ELSE c2s[i]
  BY <1>1, <1>2, WriteElements
<1> HIDE DEF r
<1>4. Closing(c2s[i], w[i])
  <2>1. r = <<>> => c2s[i] \o r = c2s[i]
    BY <1>2
  <2> QED
    BY <2>1, <1>1, <1>2, <1>3, ClosingRefl, ClosingConcat
<1> QED
  BY <1>3, <1>4

\* The teardown on the client (gone) keeps the invariant: what the server
\* still reads from its sockets is what it was.
LEMMA GoneInv ==
    ASSUME Inv, Gone, UNCHANGED <<up, serverVars>>,
           s2c' \in [Socks -> Seq(Frames)],
           \A i \in Socks : s2c[i] = <<>> => s2c'[i] = <<>>,
           \/ c2s' = c2s
           \/ c2s' = Write(c2s, current, CloseFrames(current, Normal))
    PROVE  Inv'
<1> USE DEF Inv
<1>0. /\ c2s' \in [Socks -> Seq(Frames)]
      /\ \A i \in Socks : i # current => c2s'[i] = c2s[i]
      /\ \A i \in Socks : Closing(c2s[i], c2s'[i])
      /\ \A i \in Socks : Len(c2s[i]) \in Nat /\ Len(c2s'[i]) \in Nat
  <2>1. current \in Socks /\ Normal \in Codes /\ TypeOK
    BY DEF TypeOK, Codes
  <2>2. c2s \in [Socks -> Seq(Frames)]
    BY <2>1 DEF TypeOK
  <2>3. CASE c2s' = c2s
    BY <2>2, <2>3, ClosingRefl
  <2>4. CASE c2s' = Write(c2s, current, CloseFrames(current, Normal))
    <3>1. /\ c2s' \in [Socks -> Seq(Frames)]
          /\ \A k \in Socks : k # current => c2s'[k] = c2s[k]
          /\ Closing(c2s[current], c2s'[current])
      BY <2>1, <2>4, ClosedSocket
    <3> QED
      BY <2>1, <2>2, <3>1, ClosingRefl
  <2> QED
    BY <2>3, <2>4
<1>a. \A i \in Socks : /\ Ordered(c2s'[i])
                       /\ ~HasType(c2s[i], "msg") => ~HasType(c2s'[i], "msg")
  <2> TAKE i \in Socks
  <2>1. c2s[i] \in Seq(Frames) /\ c2s'[i] \in Seq(Frames)
    BY <1>0 DEF TypeOK
  <2> QED
    BY <2>1, <1>0, ClosingKeeps DEF FramesInv
<1>b. \A a \in acts : a.sock \in Socks
  BY DEF TypeOK
<1>1. TypeOK' /\ FramesInv'
  BY <1>0, <1>a DEF TypeOK, FramesInv, Gone, serverVars
<1>2. ExactlyOnceInOrder'
  BY DEF ExactlyOnceInOrder, Gone, serverVars
<1>3. FreshInv'
  <2> SUFFICES ASSUME NEW i \in Socks, i > current PROVE Untouched(i)'
    BY DEF FreshInv, Gone
  <2>1. i # current
    BY DEF TypeOK, Socks
  <2>2. Untouched(i) /\ c2s'[i] = c2s[i]
    BY <2>1, <1>0 DEF FreshInv
  <2>3. s2c'[i] = <<>>
    BY <2>2 DEF Untouched
  <2> QED
    BY <2>2, <2>3 DEF Untouched, Unhandled, serverVars
<1>4. HelloInv'
  <2> SUFFICES ASSUME NEW i \in Socks, NEW j \in 1 .. Len(c2s'[i]),
                      c2s'[i][j].t = "hello"
               PROVE  /\ j = 1 /\ Unanswered(i, c2s[i][j].n)'
                      /\ \A a \in acts' : a.sock # i
    BY DEF HelloInv
  <2>1. j \in 1 .. Len(c2s[i]) /\ c2s'[i][j] = c2s[i][j]
    BY <1>0 DEF Closing
  <2> QED
    BY <2>1, <1>a DEF HelloInv, Unanswered, Unhandled, Gone, serverVars
<1>5. ActsInv' /\ WriterInv'
  BY <1>a, <1>b DEF ActsInv, WriterInv, Unanswered, Unhandled, Gone, serverVars
<1>6. ToClientInv' /\ CurrentInv'
  BY DEF ToClientInv, CurrentInv, Gone
<1>7. ToServerInv'
  <2>1. rsock \in Socks
    BY DEF TypeOK
  <2>2. \A j \in 1 .. Len(c2s'[rsock]) : c2s'[rsock][j].t = "msg" =>
           j \in 1 .. Len(c2s[rsock]) /\ c2s'[rsock][j] = c2s[rsock][j]
    BY <2>1, <1>0 DEF Closing
  <2> QED
    BY <2>1, <2>2 DEF ToServerInv, Held, Gone, serverVars
<1> QED
  BY <1>1, <1>2, <1>3, <1>4, <1>5, <1>6, <1>7

\* Replacing the socket (ServerConnection.resume) keeps the invariant: the
\* count the new handshake carries is that of the messages taken so far, and
\* the old socket is left behind with its frames in order.
LEMMA NextSocketInv ==
    ASSUME Inv, ~closed, NextSocket, UNCHANGED <<up, serverVars>>,
           s2c' \in [Socks -> Seq(Frames)],
           \A i \in Socks : i # current => s2c'[i] = s2c[i],
           s2c[current] = <<>> => s2c'[current] = <<>>
    PROVE  Inv'
<1> USE DEF Inv
<1> DEFINE w == Write(c2s, current, CloseFrames(current, Resuming))
<1>0. PICK new \in Int : new = current + 1
  BY DEF TypeOK, Socks
<1>1. current \in Socks /\ new \in Socks /\ new > current /\ new # current
      /\ rsock \in Socks
  BY <1>0 DEF TypeOK, NextSocket, Socks
<1>2. /\ w \in [Socks -> Seq(Frames)]
      /\ \A k \in Socks : k # current => w[k] = c2s[k]
      /\ Closing(c2s[current], w[current])
  BY <1>1, ClosedSocket DEF Codes
<1>3. c2s' = [w EXCEPT ![new] = <<Hello(crecv)>>]
  BY <1>0 DEF NextSocket
<1> HIDE DEF w
<1>4. <<Hello(crecv)>> \in Seq(Frames) /\ Len(<<Hello(crecv)>>) = 1
      /\ <<Hello(crecv)>>[1] = Hello(crecv)
      /\ Hello(crecv).t = "hello" /\ Hello(crecv).n = crecv
  <2>1. Hello(crecv) \in Frames
    BY DEF Hello, Frames, TypeOK
  <2> QED
    BY <2>1 DEF Hello
<1>5. /\ c2s' \in [Socks -> Seq(Frames)]
      /\ c2s'[new] = <<Hello(crecv)>>
      /\ \A k \in Socks : k # current /\ k # new => c2s'[k] = c2s[k]
      /\ Closing(c2s[current], c2s'[current])
  BY <1>1, <1>2, <1>3, <1>4
<1>6. /\ current' = new /\ wired' /\ resuming' /\ closed' = closed
      /\ crecv' = crecv /\ csent' = csent /\ cgot' = cgot
      /\ UNCHANGED <<secret, leaving, cfirst>>
  BY <1>0 DEF NextSocket
<1>7. Untouched(new)
  BY <1>1 DEF FreshInv
<1>8. \A k \in Socks : Len(c2s[k]) \in Nat /\ Len(c2s'[k]) \in Nat
  <2>1. c2s \in [Socks -> Seq(Frames)]
    BY DEF TypeOK
  <2> QED
    BY <2>1, <1>5
<1>9. \A k \in Socks : k # new => Closing(c2s[k], c2s'[k])
  BY <1>5, ClosingRefl DEF TypeOK
<1>a. \A k \in Socks : k # new =>
         /\ Ordered(c2s'[k])
         /\ ~HasType(c2s[k], "msg") => ~HasType(c2s'[k], "msg")
  <2> TAKE k \in Socks
  <2>1. c2s[k] \in Seq(Frames) /\ c2s'[k] \in Seq(Frames)
    BY <1>5 DEF TypeOK
  <2> QED
    BY <2>1, <1>9, ClosingKeeps DEF FramesInv
<1>b. Ordered(c2s'[new]) /\ ~HasType(c2s'[new], "msg")
  <2>1. Len(c2s'[new]) = 1 /\ c2s'[new][1].t = "hello"
    BY <1>4, <1>5
  <2> QED
    BY <2>1 DEF Ordered, HasType
<1>11. TypeOK' /\ FramesInv'
  BY <1>1, <1>5, <1>6, <1>a, <1>b
     DEF TypeOK, FramesInv, serverVars, NextSocket
<1>12. ExactlyOnceInOrder'
  BY <1>6 DEF ExactlyOnceInOrder, serverVars
<1>13. FreshInv'
  <2> SUFFICES ASSUME NEW i \in Socks, i > new PROVE Untouched(i)'
    BY <1>6 DEF FreshInv
  <2>1. i > current /\ i # current /\ i # new
    BY <1>0, <1>1 DEF Socks
  <2>2. Untouched(i) /\ c2s'[i] = c2s[i] /\ s2c'[i] = s2c[i]
    BY <2>1, <1>5 DEF FreshInv
  <2> QED
    BY <2>2 DEF Untouched, Unhandled, serverVars
<1>14. HelloInv'
  <2> SUFFICES ASSUME NEW i \in Socks, NEW j \in 1 .. Len(c2s'[i]),
                      c2s'[i][j].t = "hello"
               PROVE  /\ j = 1 /\ Unanswered(i, c2s[i][j].n)'
                      /\ \A a \in acts' : a.sock # i
    BY DEF HelloInv
  <2>1. CASE i = new
    <3>1. j = 1 /\ c2s'[i][j].n = crecv
      BY <2>1, <1>4, <1>5
    <3>2. s2c'[i] = <<>>
      BY <2>1, <1>1, <1>7 DEF Untouched
    <3>3. Unanswered(i, c2s[i][j].n)'
      BY <2>1, <3>1, <3>2, <1>1, <1>6, <1>7, <1>b
         DEF Untouched, Unanswered, Unhandled, serverVars, Socks
    <3> QED
      BY <2>1, <3>1, <3>3, <1>7 DEF Untouched, serverVars
  <2>2. CASE i # new
    <3>1. j \in 1 .. Len(c2s[i]) /\ c2s'[i][j] = c2s[i][j]
      BY <2>2, <1>8, <1>9 DEF Closing
    <3>2. j = 1 /\ Unanswered(i, c2s[i][j].n) /\ \A a \in acts : a.sock # i
      BY <3>1 DEF HelloInv
    <3>3. i <= current /\ s2c'[i] = <<>>
      BY <3>2 DEF Unanswered
    <3> QED
      BY <3>1, <3>2, <3>3, <1>1, <1>6, <1>a, <2>2
         DEF Unanswered, Unhandled, serverVars, Socks
  <2> QED
    BY <2>1, <2>2
<1>15. ActsInv' /\ WriterInv'
  <2>1. \A a \in acts : a.sock \in Socks /\ a.sock # new
    BY <1>7 DEF TypeOK, Untouched
  <2>2. WriterInv'
    BY DEF WriterInv, serverVars
  <2>3. acts' = acts
    BY DEF serverVars
  <2>4. \A a, b \in acts' : a.sock = b.sock => a = b
    BY <2>3 DEF ActsInv
  <2>5. ASSUME NEW a \in acts PROVE Unanswered(a.sock, a.received)'
    <3>1. a.sock \in Socks /\ a.sock # new /\ Unanswered(a.sock, a.received)
      BY <2>1 DEF ActsInv
    <3>2. a.sock <= current /\ s2c'[a.sock] = <<>>
      BY <3>1 DEF Unanswered
    <3>3. ~HasType(c2s'[a.sock], "msg")
      BY <3>1, <1>a DEF Unanswered
    <3>4. a.sock <= new /\ a.sock # current'
      BY <3>1, <3>2, <1>1, <1>6 DEF Socks
    <3> QED
      BY <3>1, <3>2, <3>3, <3>4, <1>6 DEF Unanswered, Unhandled, serverVars
  <2> QED
    BY <2>2, <2>3, <2>4, <2>5 DEF ActsInv
<1>16. ToClientInv'
  BY <1>1, <1>6, <1>7 DEF ToClientInv, Untouched, serverVars
<1>17. ToServerInv'
  <2>1. rsock # new
    BY <1>7 DEF Untouched
  <2>2. \A j \in 1 .. Len(c2s'[rsock]) : c2s'[rsock][j].t = "msg" =>
           j \in 1 .. Len(c2s[rsock]) /\ c2s'[rsock][j] = c2s[rsock][j]
    <3>1. /\ Closing(c2s[rsock], c2s'[rsock])
          /\ Len(c2s[rsock]) \in Nat /\ Len(c2s'[rsock]) \in Nat
      BY <2>1, <1>1, <1>8, <1>9
    <3> QED
      BY <3>1 DEF Closing
  <2> QED
    BY <2>2, <1>6 DEF ToServerInv, Held, serverVars
<1>18. CurrentInv'
  <2>1. ~HasType(<<Hello(crecv)>>, "close")
    BY <1>4 DEF HasType
  <2>2. ~Unhandled(current)' /\ rsock' # current'
    BY <1>6, <1>7 DEF Untouched, Unhandled, serverVars
  <2>3. Hello(crecv)' = Hello(crecv)
    BY <1>6 DEF Hello
  <2> QED
    BY <2>1, <2>2, <2>3, <1>1, <1>5, <1>6 DEF CurrentInv
<1> QED
  BY <1>11, <1>12, <1>13, <1>14, <1>15, <1>16, <1>17, <1>18

\* Sockets not yet open stay so while the client keeps to its socket.
LEMMA FreshSame ==
    ASSUME Inv, UNCHANGED <<current, serverVars>>,
           \A k \in Socks : k # current => c2s'[k] = c2s[k] /\ s2c'[k] = s2c[k]
    PROVE  FreshInv'
<1> SUFFICES ASSUME NEW i \in Socks, i > current PROVE Untouched(i)'
  BY DEF FreshInv
<1>1. i # current
  BY DEF Inv, TypeOK, Socks
<1>2. Untouched(i) /\ c2s'[i] = c2s[i] /\ s2c'[i] = s2c[i]
  BY <1>1 DEF Inv, FreshInv
<1> QED
  BY <1>2 DEF Untouched, Unhandled, serverVars

\* Sending a counted message keeps the invariant: it comes right after those
\* still in flight, unless a resume holds it back in the sentLog.
LEMMA ClientSendInv == ASSUME Inv, ClientSend PROVE Inv'
<1> USE DEF Inv
<1> DEFINE f == Msg(csent + 1)
<1>1. current \in Socks /\ rsock \in Socks /\ csent \in Nat /\ srecv \in Nat
  BY DEF TypeOK
<1>2. f \in Frames /\ f.t = "msg" /\ f.n = csent + 1
  BY <1>1 DEF Msg, Frames
<1> HIDE DEF f
<1>3. /\ c2s' \in [Socks -> Seq(Frames)]
      /\ \A k \in Socks : k # current => c2s'[k] = c2s[k]
      /\ c2s'[current] = IF ~resuming /\ up[current]
                         THEN c2s[current] \o <<f>> ELSE c2s[current]
  <2>1. <<f>> \in Seq(Frames) /\ c2s \in [Socks -> Seq(Frames)]
    BY <1>2 DEF TypeOK
  <2>2. c2s' = IF resuming THEN c2s ELSE Write(c2s, current, <<f>>)
    BY DEF ClientSend, f
  <2> QED
    BY <2>1, <2>2, <1>1, WriteElements
<1>4. \A k \in Socks : c2s[k] \in Seq(Frames) /\ Len(c2s[k]) \in Nat
  BY DEF TypeOK
<1>5. \A k \in Socks :
        /\ \A j \in 1 .. Len(c2s[k]) : c2s'[k][j] = c2s[k][j]
        /\ \/ Len(c2s'[k]) = Len(c2s[k])
           \/ /\ k = current /\ ~resuming /\ up[current]
              /\ Len(c2s'[k]) = Len(c2s[k]) + 1
              /\ c2s'[k][Len(c2s[k]) + 1] = f
  <2> TAKE k \in Socks
  <2>1. CASE k = current /\ ~resuming /\ up[current]
    BY <2>1, <1>2, <1>3, <1>4, OneMore
  <2>2. CASE ~(k = current /\ ~resuming /\ up[current])
    BY <2>2, <1>3, <1>4
  <2> QED
    BY <2>1, <2>2
<1>6. \A k \in Socks : \A j \in 1 .. Len(c2s'[k]) : c2s'[k][j].t # "msg" =>
         j \in 1 .. Len(c2s[k]) /\ c2s'[k][j] = c2s[k][j]
  BY <1>2, <1>4, <1>5
<1>7. /\ ~closed /\ wired /\ csent' = csent + 1 /\ csent' <= MaxCSent
      /\ UNCHANGED <<up, s2c, serverVars, current, wired, secret, resuming,
                     leaving, closed, crecv, cgot>>
      /\ cfirst' \in Nat
  BY <1>1 DEF ClientSend, Pushed, TypeOK
<1>8. \A k \in Socks : k # current \/ resuming =>
         (~HasType(c2s[k], "msg") => ~HasType(c2s'[k], "msg"))
  BY <1>3
<1>9. FramesInv'
  <2> SUFFICES ASSUME NEW k \in Socks, NEW j \in 1 .. Len(c2s'[k])
               PROVE  /\ c2s'[k][j].t \in {"hello", "msg", "close"}
                      /\ c2s'[k][j].t = "close" => j = Len(c2s'[k])
    BY DEF FramesInv, Ordered
  <2>1. CASE k # current \/ c2s'[k] = c2s[k]
    <3>1. c2s'[k] = c2s[k]
      BY <2>1, <1>3
    <3>2. Ordered(c2s[k])
      BY DEF FramesInv
    <3> QED
      BY <3>1, <3>2 DEF Ordered
  <2>2. CASE k = current
    <3>1. ~HasType(c2s[current], "close")
      BY <1>7 DEF CurrentInv
    <3>2. CASE c2s'[k][j].t = "msg"
      BY <3>2
    <3>3. CASE c2s'[k][j].t # "msg"
      <4>1. j \in 1 .. Len(c2s[k]) /\ c2s'[k][j] = c2s[k][j]
        BY <3>3, <1>6
      <4>2. c2s[k][j].t \in {"hello", "msg", "close"}
        BY <4>1, Zenon DEF FramesInv, Ordered
      <4> QED
        BY <4>1, <4>2, <3>1, <2>2, Zenon DEF HasType
    <3> QED
      BY <3>2, <3>3
  <2> QED
    BY <2>1, <2>2
<1>10. \A a \in acts : a.sock \in Socks /\ (a.sock # current \/ resuming)
  BY <1>7 DEF TypeOK, ActsInv, Unanswered
<1>11. TypeOK'
  <2>1. csent' \in 0 .. MaxCSent
    BY <1>1, <1>7
  <2> QED
    BY <2>1, <1>3, <1>7 DEF TypeOK, serverVars
<1>12. ExactlyOnceInOrder'
  BY <1>1, <1>7 DEF ExactlyOnceInOrder, serverVars
<1>13. FreshInv'
  BY <1>3, <1>7, FreshSame
<1>14. HelloInv'
  <2> SUFFICES ASSUME NEW i \in Socks, NEW j \in 1 .. Len(c2s'[i]),
                      c2s'[i][j].t = "hello"
               PROVE  /\ j = 1 /\ Unanswered(i, c2s[i][j].n)'
                      /\ \A a \in acts' : a.sock # i
    BY DEF HelloInv
  <2>1. j \in 1 .. Len(c2s[i]) /\ c2s'[i][j] = c2s[i][j]
    BY <1>6
  <2>2. j = 1 /\ Unanswered(i, c2s[i][j].n) /\ \A a \in acts : a.sock # i
    BY <2>1 DEF HelloInv
  <2> QED
    BY <2>1, <2>2, <1>7, <1>8 DEF Unanswered, Unhandled, serverVars
<1>15. ActsInv' /\ WriterInv'
  BY <1>7, <1>8, <1>10 DEF ActsInv, WriterInv, Unanswered, Unhandled, serverVars
<1>16. ToClientInv'
  BY <1>7 DEF ToClientInv, Control, HasType, serverVars
<1>17. ToServerInv'
  <2> SUFFICES ASSUME live
               PROVE  /\ Held(rsock) = 1 => slot[1].f.n = srecv + 1 /\ srecv < csent'
                      /\ \A j \in 1 .. Len(c2s'[rsock]) :
                            c2s'[rsock][j].t = "msg" =>
                               /\ c2s'[rsock][j].n = srecv + Held(rsock) + j
                               /\ c2s'[rsock][j].n <= csent'
    BY <1>7 DEF ToServerInv, Held, serverVars
  <2>1. Held(rsock) \in Nat
    BY DEF Held
  <2>2. Held(rsock) = 1 => slot[1].f.n = srecv + 1 /\ srecv < csent'
    BY <1>1, <1>7 DEF ToServerInv
  <2>3. ASSUME NEW j \in 1 .. Len(c2s'[rsock]), c2s'[rsock][j].t = "msg"
        PROVE  /\ c2s'[rsock][j].n = srecv + Held(rsock) + j
               /\ c2s'[rsock][j].n <= csent'
    <3>1. CASE j \in 1 .. Len(c2s[rsock])
      <4>1. c2s'[rsock][j] = c2s[rsock][j]
        BY <3>1, <1>1, <1>5
      <4>2. c2s[rsock][j].n = srecv + Held(rsock) + j /\ c2s[rsock][j].n <= csent
        BY <3>1, <4>1, <2>3 DEF ToServerInv
      <4> QED
        BY <4>1, <4>2, <1>1, <1>7, <2>1
    <3>2. CASE j \notin 1 .. Len(c2s[rsock])
      <4>1. /\ rsock = current /\ ~resuming /\ up[current]
            /\ j = Len(c2s[rsock]) + 1 /\ c2s'[rsock][j] = f
        BY <3>2, <1>1, <1>4, <1>5
      <4>2. srecv + Held(rsock) + Len(c2s[current]) = csent
        BY <4>1, <1>7 DEF CurrentInv
      <4>3. c2s'[rsock][j].n = csent + 1 /\ Len(c2s[current]) \in Nat
        BY <4>1, <1>1, <1>2, <1>4
      <4>4. j = Len(c2s[current]) + 1 /\ csent' = csent + 1
        BY <4>1, <1>7
      <4>5. srecv + Held(rsock) + j = csent + 1
        <5>1. PICK h, l : h = Held(rsock) /\ l = Len(c2s[current])
          OBVIOUS
        <5>2. h \in Nat /\ l \in Nat /\ srecv + h + l = csent /\ j = l + 1
          BY <4>2, <4>3, <4>4, <2>1, <5>1
        <5>3. srecv + h + j = csent + 1
          BY <5>2, <1>1
        <5> QED
          BY <5>1, <5>3
      <4> QED
        BY <4>3, <4>4, <4>5, <1>1
    <3> QED
      BY <3>1, <3>2
  <2> QED
    BY <2>2, <2>3
<1>18. CurrentInv'
  <2>1. ~HasType(c2s'[current], "close")
    BY <1>1, <1>6, <1>7 DEF CurrentInv, HasType
  <2>2. resuming => c2s'[current] = c2s[current]
    BY <1>3
  <2>3. Held(rsock)' = Held(rsock) /\ Held(rsock) \in Nat
    BY <1>7 DEF Held, serverVars
  <2>4. live /\ rsock = current /\ up[current] /\ ~resuming =>
           srecv + Held(rsock) + Len(c2s'[current]) = csent'
    BY <1>1, <1>3, <1>4, <1>2, <1>7, <2>3, OneMore DEF CurrentInv
  <2> QED
    BY <2>1, <2>2, <2>3, <2>4, <1>7
       DEF CurrentInv, Unhandled, serverVars, Hello
<1> QED
  BY <1>9, <1>11, <1>12, <1>13, <1>14, <1>15, <1>16, <1>17, <1>18

(***************************************************************************)
(* The client takes the first frame of its current socket: there was no    *)
(* unanswered request on that socket, and what is left is in sequence.     *)
(***************************************************************************)
LEMMA ArrivingFacts ==
    ASSUME Inv, NEW type, NEW i \in Socks, Arriving(i, type)
    PROVE  /\ i = current /\ ~closed /\ wired
           /\ s2c' \in [Socks -> Seq(Frames)]
           /\ \A k \in Socks : k # current => s2c'[k] = s2c[k]
           /\ s2c[current] # <<>> /\ Head(s2c[current]) = s2c[current][1]
           /\ s2c[current][1] \in Frames /\ s2c[current][1].t = type
           /\ Len(s2c[current]) \in Nat /\ Len(s2c[current]) >= 1
           /\ Len(s2c'[current]) = Len(s2c[current]) - 1
           /\ \A j \in 1 .. Len(s2c[current]) - 1 :
                 s2c'[current][j] = s2c[current][j + 1]
           /\ Control(s2c'[current]) = 0
           /\ ~HasType(c2s[current], "hello")
           /\ \A a \in acts : a.sock # current
<1> USE DEF Inv
<1>1. current \in Socks /\ s2c \in [Socks -> Seq(Frames)]
      /\ s2c[current] \in Seq(Frames)
  BY DEF TypeOK
<1>2. /\ i = current /\ ~closed /\ wired /\ s2c[current] # <<>>
      /\ Head(s2c[current]).t = type
      /\ s2c' = [s2c EXCEPT ![current] = Tail(@)]
  BY DEF Arriving
<1>3. /\ Tail(s2c[current]) \in Seq(Frames)
      /\ Head(s2c[current]) = s2c[current][1] /\ s2c[current][1] \in Frames
      /\ Len(s2c[current]) \in Nat /\ Len(s2c[current]) >= 1
      /\ Len(Tail(s2c[current])) = Len(s2c[current]) - 1
      /\ \A j \in 1 .. Len(s2c[current]) - 1 :
            Tail(s2c[current])[j] = s2c[current][j + 1]
  BY <1>1, <1>2, TailElements
<1>4. /\ s2c' \in [Socks -> Seq(Frames)]
      /\ s2c'[current] = Tail(s2c[current])
      /\ \A k \in Socks : k # current => s2c'[k] = s2c[k]
  BY <1>1, <1>2, <1>3
<1>5. Control(s2c'[current]) = 0
  <2>1. CASE Len(s2c[current]) = 1
    <3>1. s2c'[current] \in Seq(Frames) /\ Len(s2c'[current]) = 0
      BY <2>1, <1>3, <1>4
    <3>2. s2c'[current] = <<>>
      BY <3>1, EmptyQueue
    <3> QED
      BY <3>2 DEF Control
  <2>2. CASE Len(s2c[current]) > 1
    <3>1. s2c'[current][1] = s2c[current][2] /\ 2 \in 1 .. Len(s2c[current])
      BY <2>2, <1>3, <1>4
    <3>2. s2c[current][2].t \notin {"session", "resumed"}
      BY <3>1, <1>2 DEF ToClientInv
    <3> QED
      BY <3>1, <3>2 DEF Control
  <2>3. Len(s2c[current]) = 1 \/ Len(s2c[current]) > 1
    <3>1. \A n \in Nat : n >= 1 => n = 1 \/ n > 1
      OBVIOUS
    <3> QED
      BY <3>1, <1>3, Zenon
  <2> QED
    BY <2>1, <2>2, <2>3
<1>6. ~HasType(c2s[current], "hello")
  BY <1>1, <1>2 DEF HasType, HelloInv, Unanswered
<1>7. \A a \in acts : a.sock # current
  BY <1>2 DEF ActsInv, Unanswered
<1> QED
  BY <1>2, <1>3, <1>4, <1>5, <1>6, <1>7

(***************************************************************************)
(* What the invariant needs to know of a frame the client takes without    *)
(* counting it.                                                            *)
(***************************************************************************)
LEMMA ControlTaken ==
    ASSUME Inv, NEW i \in Socks, NEW type \in {"session", "resumed"},
           Arriving(i, type), UNCHANGED <<up, serverVars>>,
           current' = current, crecv' = crecv, closed' = closed
    PROVE  ToClientInv'
<1> USE DEF Inv
<1>0. PICK q, r : q = s2c[current] /\ r = s2c'[current]
  OBVIOUS
<1>1. current \in Socks /\ crecv \in Nat
  BY DEF TypeOK
<1>2. /\ ~closed /\ q # <<>> /\ q[1].t = type
      /\ Len(q) \in Nat /\ Len(q) >= 1 /\ Len(r) = Len(q) - 1
      /\ \A j \in 1 .. Len(q) - 1 : r[j] = q[j + 1]
      /\ Control(r) = 0
  BY <1>0, ArrivingFacts
<1>3. Control(q) = 1
  BY <1>2 DEF Control
<1>4. ASSUME NEW j \in 1 .. Len(r)
      PROVE  /\ r[j].t \notin {"session", "resumed"}
             /\ r[j].t = "msg" => r[j].n = crecv + j - 0 /\ r[j].n <= ssent
             /\ r[j].t = "close" => HasType(q, "close") /\ j = Len(r)
  <2>1. j + 1 \in 1 .. Len(q) /\ j + 1 # 1 /\ r[j] = q[j + 1]
    BY <1>2
  <2>2. crecv + (j + 1) - 1 = crecv + j - 0
    BY <1>1, <1>2
  <2>3. q[j + 1].t = "msg" =>
           q[j + 1].n = crecv + (j + 1) - 1 /\ q[j + 1].n <= ssent
    BY <2>1, <1>0, <1>2, <1>3 DEF ToClientInv
  <2>4. /\ q[j + 1].t \notin {"session", "resumed"}
        /\ q[j + 1].t = "close" => j + 1 = Len(q)
    BY <2>1, <1>0, <1>2 DEF ToClientInv
  <2>5. j + 1 = Len(q) => j = Len(r)
    BY <1>2
  <2> QED
    BY <2>1, <2>2, <2>3, <2>4, <2>5 DEF HasType
<1>5. live /\ wconn = current /\ up[current] =>
         ~HasType(r, "close") /\ crecv + Len(r) - 0 = ssent
  <2>1. live /\ wconn = current /\ up[current] =>
          ~HasType(q, "close") /\ crecv + Len(q) - 1 = ssent
    BY <1>0, <1>2, <1>3 DEF ToClientInv
  <2>2. ~HasType(q, "close") => ~HasType(r, "close")
    BY <1>4 DEF HasType
  <2>3. crecv + Len(r) - 0 = crecv + Len(q) - 1
    BY <1>1, <1>2
  <2> QED
    BY <2>1, <2>2, <2>3
<1> QED
  BY <1>0, <1>1, <1>2, <1>4, <1>5 DEF ToClientInv, serverVars

\* Learning the secret keeps the invariant.
LEMMA ClientSessionInv ==
    ASSUME Inv, NEW i \in Socks, ClientSession(i) PROVE Inv'
<1> USE DEF Inv
<1>1. /\ Arriving(i, "session") /\ secret' = TRUE
      /\ UNCHANGED <<up, c2s, serverVars, current, wired, resuming, leaving,
                     closed, crecv, csent, cfirst, cgot>>
  BY DEF ClientSession
<1>2. /\ s2c' \in [Socks -> Seq(Frames)] /\ current \in Socks /\ wired
      /\ \A k \in Socks : k # current => s2c'[k] = s2c[k]
      /\ s2c[current] # <<>> /\ Control(s2c'[current]) = 0
  BY <1>1, ArrivingFacts DEF TypeOK
<1>3. TypeOK' /\ ExactlyOnceInOrder' /\ FramesInv'
  BY <1>1, <1>2 DEF TypeOK, ExactlyOnceInOrder, FramesInv, serverVars
<1>4. FreshInv'
  BY <1>1, <1>2, FreshSame
<1>5. HelloInv'
  BY <1>1, <1>2 DEF HelloInv, Unanswered, Unhandled, serverVars
<1>a. \A a \in acts : a.sock \in Socks
  BY DEF TypeOK
<1>6. ActsInv' /\ WriterInv'
  BY <1>1, <1>2, <1>a DEF ActsInv, WriterInv, Unanswered, Unhandled,
                          serverVars
<1>7. ToClientInv'
  BY <1>1, ControlTaken
<1>8. ToServerInv'
  BY <1>1 DEF ToServerInv, Held, serverVars
<1>9. CurrentInv'
  BY <1>1, <1>2 DEF CurrentInv, Held, HasType, Unhandled, Control, Hello,
                    serverVars
<1> QED
  BY <1>3, <1>4, <1>5, <1>6, <1>7, <1>8, <1>9

\* Taking a counted message keeps the invariant: it is the next one.
LEMMA ClientTakeInv ==
    ASSUME Inv, NEW i \in Socks, ClientTake(i) PROVE Inv'
<1> USE DEF Inv
<1>1. /\ Arriving(i, "msg") /\ crecv' = crecv + 1
      /\ cgot' = Append(cgot, Head(s2c[i]).n)
      /\ UNCHANGED <<up, c2s, serverVars, current, wired, secret, resuming,
                     leaving, closed, csent, cfirst>>
  BY DEF ClientTake
<1>0. PICK q, r : q = s2c[current] /\ r = s2c'[current]
  OBVIOUS
<1>2. /\ i = current /\ ~closed /\ wired /\ current \in Socks
      /\ s2c' \in [Socks -> Seq(Frames)]
      /\ \A k \in Socks : k # current => s2c'[k] = s2c[k]
      /\ q # <<>> /\ Head(q) = q[1] /\ q[1] \in Frames
      /\ q[1].t = "msg" /\ Len(q) \in Nat /\ Len(q) >= 1 /\ Len(r) = Len(q) - 1
      /\ \A j \in 1 .. Len(q) - 1 : r[j] = q[j + 1]
      /\ Control(r) = 0 /\ ~HasType(c2s[current], "hello")
      /\ \A a \in acts : a.sock # current
  BY <1>0, <1>1, ArrivingFacts DEF TypeOK
<1>3. crecv \in Nat /\ ssent \in 0 .. MaxSSent
  BY DEF TypeOK
<1>4. Control(q) = 0
  BY <1>2 DEF Control
<1>5. q[1].n = crecv + 1 /\ crecv + 1 <= ssent
  <2>1. q[1].n = crecv + 1 - Control(q) /\ q[1].n <= ssent
    BY <1>0, <1>2 DEF ToClientInv
  <2> QED
    BY <2>1, <1>3, <1>4
<1>6. cgot' = Append(cgot, crecv + 1)
  BY <1>0, <1>1, <1>2, <1>5
<1>11. TypeOK'
  <2>1. crecv' \in 0 .. MaxSSent
    BY <1>1, <1>3, <1>5
  <2>2. cgot' \in Seq(Nat)
    BY <1>3, <1>6 DEF TypeOK
  <2> QED
    BY <2>1, <2>2, <1>1, <1>2 DEF TypeOK, serverVars
<1>a. FramesInv'
  BY <1>1 DEF FramesInv
<1>12. ExactlyOnceInOrder'
  <2>1. cgot \in Seq(Nat) /\ Len(cgot) = crecv
        /\ \A k \in 1 .. Len(cgot) : cgot[k] = k
    BY DEF ExactlyOnceInOrder, TypeOK
  <2>2. Len(cgot') = crecv + 1 /\ \A k \in 1 .. Len(cgot') : cgot'[k] = k
    BY <2>1, <1>3, <1>6
  <2> QED
    BY <2>2, <1>1, <1>3, <1>5 DEF ExactlyOnceInOrder, serverVars
<1>13. FreshInv'
  BY <1>1, <1>2, FreshSame
<1>14. HelloInv'
  <2> SUFFICES ASSUME NEW k \in Socks, NEW j \in 1 .. Len(c2s[k]),
                      c2s[k][j].t = "hello"
               PROVE  /\ j = 1 /\ Unanswered(k, c2s[k][j].n)'
                      /\ \A a \in acts' : a.sock # k
    BY <1>1 DEF HelloInv
  <2>1. k # current
    BY <1>2 DEF HasType
  <2>2. j = 1 /\ Unanswered(k, c2s[k][j].n) /\ \A a \in acts : a.sock # k
    BY DEF HelloInv
  <2> QED
    BY <2>1, <2>2, <1>1, <1>2 DEF Unanswered, Unhandled, serverVars
<1>15. ActsInv' /\ WriterInv'
  BY <1>1, <1>2 DEF ActsInv, WriterInv, Unanswered, Unhandled, serverVars,
                    TypeOK
<1>16. ToClientInv'
  <2>1. ASSUME NEW j \in 1 .. Len(r)
        PROVE  /\ r[j].t \notin {"session", "resumed"}
               /\ r[j].t = "msg" => r[j].n = crecv + 1 + j /\ r[j].n <= ssent
               /\ r[j].t = "close" => HasType(q, "close") /\ j = Len(r)
    <3>1. j + 1 \in 1 .. Len(q) /\ j + 1 # 1 /\ r[j] = q[j + 1]
      BY <1>2
    <3>2. q[j + 1].t = "msg" =>
             q[j + 1].n = crecv + (j + 1) - Control(q) /\ q[j + 1].n <= ssent
      BY <3>1, <1>0, <1>2 DEF ToClientInv
    <3>3. crecv + (j + 1) - 0 = crecv + 1 + j
      BY <1>2, <1>3
    <3>4. /\ q[j + 1].t \notin {"session", "resumed"}
          /\ q[j + 1].t = "close" => j + 1 = Len(q)
      BY <3>1, <1>0, <1>2 DEF ToClientInv
    <3>5. j + 1 = Len(q) => j = Len(r)
      BY <1>2
    <3> QED
      BY <3>1, <3>2, <3>3, <3>4, <3>5, <1>4 DEF HasType
  <2>2. live /\ wconn = current /\ up[current] =>
           /\ ~HasType(r, "close")
           /\ crecv + 1 + Len(r) - 0 = ssent
    <3>1. live /\ wconn = current /\ up[current] =>
             ~HasType(q, "close") /\ crecv + Len(q) - 0 = ssent
      BY <1>0, <1>2, <1>4 DEF ToClientInv
    <3>2. ~HasType(q, "close") => ~HasType(r, "close")
      BY <2>1 DEF HasType
    <3>3. crecv + Len(q) - 0 = crecv + 1 + Len(r) - 0
      BY <1>2, <1>3
    <3> QED
      BY <3>1, <3>2, <3>3
  <2>3. \A j \in 1 .. Len(r) : crecv + 1 + j - 0 = crecv + 1 + j
    BY <1>2, <1>3
  <2> QED
    BY <2>1, <2>2, <2>3, <1>0, <1>1, <1>2 DEF ToClientInv, serverVars
<1>17. ToServerInv'
  BY <1>1 DEF ToServerInv, Held, serverVars
<1>18. CurrentInv'
  <2>1. resuming => c2s[current] = <<>>
    <3>1. <<Hello(crecv)>>[1].t = "hello" /\ Len(<<Hello(crecv)>>) = 1
      BY DEF Hello
    <3>2. c2s[current] # <<Hello(crecv)>>
      <4> SUFFICES ASSUME c2s[current] = <<Hello(crecv)>> PROVE FALSE
        OBVIOUS
      <4>1. 1 \in 1 .. Len(c2s[current]) /\ c2s[current][1].t = "hello"
        BY <3>1
      <4> QED
        BY <4>1, <1>2 DEF HasType
    <3> QED
      BY <3>2, <1>2 DEF CurrentInv
  <2>2. r # <<>> => r[1].t # "resumed"
    BY <1>2 DEF Control
  <2> QED
    BY <2>1, <2>2, <1>0, <1>1, <1>2
       DEF CurrentInv, Held, HasType, Unhandled, serverVars
<1> QED
  BY <1>a, <1>11, <1>12, <1>13, <1>14, <1>15, <1>16, <1>17, <1>18

\* The answer to a resume keeps the invariant: what the client sends again
\* begins right after what the server says it has handled.
LEMMA ClientResumedInv ==
    ASSUME Inv, NEW i \in Socks, ClientResumed(i) PROVE Inv'
<1> USE DEF Inv
<1>0. PICK q, r, c : /\ q = s2c[current] /\ r = s2c'[current]
                     /\ c = c2s[current]
  OBVIOUS
<1>1. Arriving(i, "resumed") /\ UNCHANGED <<up, serverVars>>
  BY DEF ClientResumed
<1>2. /\ i = current /\ ~closed /\ wired /\ current \in Socks
      /\ s2c' \in [Socks -> Seq(Frames)]
      /\ \A k \in Socks : k # current => s2c'[k] = s2c[k]
      /\ q # <<>> /\ Head(q) = q[1] /\ q[1] \in Frames
      /\ q[1].t = "resumed" /\ Control(r) = 0
      /\ ~HasType(c, "hello")
      /\ \A a \in acts : a.sock # current
  BY <1>0, <1>1, ArrivingFacts DEF TypeOK
<1>3. r # <<>> => r[1].t # "resumed"
  BY <1>2 DEF Control
<1>4. c2s \in [Socks -> Seq(Frames)] /\ c \in Seq(Frames)
      /\ csent \in Nat /\ srecv \in Nat /\ rsock \in Socks
  BY <1>0, <1>2 DEF TypeOK
<1>5. CASE ~resuming
  <2>1. UNCHANGED <<c2s, clientVars>>
    BY <1>5 DEF ClientResumed
  <2>2. TypeOK' /\ ExactlyOnceInOrder' /\ FramesInv'
    BY <2>1, <1>1, <1>2 DEF TypeOK, ExactlyOnceInOrder, FramesInv,
                            serverVars, clientVars
  <2>3. FreshInv'
    BY <2>1, <1>1, <1>2, FreshSame DEF clientVars
  <2>4. HelloInv'
    BY <2>1, <1>0, <1>1, <1>2
       DEF HelloInv, Unanswered, Unhandled, serverVars, clientVars
  <2>5. ActsInv' /\ WriterInv'
    BY <2>1, <1>1, <1>2
       DEF ActsInv, WriterInv, Unanswered, Unhandled, serverVars, clientVars,
           TypeOK
  <2>6. ToClientInv'
    BY <2>1, <1>1, ControlTaken DEF clientVars
  <2>7. ToServerInv'
    BY <2>1, <1>1 DEF ToServerInv, Held, serverVars, clientVars
  <2>8. CurrentInv'
    BY <2>1, <1>1, <1>2, <1>5
       DEF CurrentInv, Held, HasType, Unhandled, serverVars, clientVars
  <2> QED
    BY <2>2, <2>3, <2>4, <2>5, <2>6, <2>7, <2>8
<1>6. CASE resuming /\ ~Kept(cfirst, csent, Head(s2c[i]).n)
  <2>1. Gone /\ c2s' = Write(c2s, current, CloseFrames(current, Normal))
    BY <1>2, <1>6 DEF ClientResumed
  <2>2. \A k \in Socks : s2c[k] = <<>> => s2c'[k] = <<>>
    BY <1>0, <1>2
  <2> QED
    BY <2>1, <2>2, <1>1, <1>2, GoneInv
<1>7. CASE resuming /\ Kept(cfirst, csent, Head(s2c[i]).n)
  <2>0. PICK ack, rest : ack = q[1].n /\ rest = After(csent, ack)
    OBVIOUS
  <2>1. /\ c2s' = Write(c2s, current, rest)
        /\ resuming' = FALSE
        /\ UNCHANGED <<current, wired, secret, leaving, closed,
                       crecv, csent, cfirst, cgot>>
    BY <2>0, <1>0, <1>2, <1>7 DEF ClientResumed
  <2>2. ack \in Nat
    BY <2>0, <1>2 DEF Frames
  <2>3. c = <<>>
    <3>1. c \in {<<>>, <<Hello(crecv)>>}
      BY <1>0, <1>2, <1>7 DEF CurrentInv
    <3>2. ASSUME c = <<Hello(crecv)>> PROVE FALSE
      <4>1. 1 \in 1 .. Len(c) /\ c[1].t = "hello"
        BY <3>2 DEF Hello
      <4> QED
        BY <4>1, <1>2 DEF HasType
    <3> QED
      BY <3>1, <3>2
  <2>4. /\ rest \in Seq(Frames)
        /\ Len(rest) = IF csent < ack + 1 THEN 0 ELSE csent - (ack + 1) + 1
        /\ \A j \in 1 .. Len(rest) : rest[j] = Msg(ack + 1 + j - 1)
    <3>1. ack + 1 \in Nat
      BY <2>2
    <3> QED
      BY <2>0, <3>1, <1>4, RunElements DEF After
  <2>5. ack <= csent
    <3>1. ~(ack >= csent + 1)
      BY <2>0, <1>0, <1>2, <1>7 DEF Kept
    <3> QED
      BY <3>1, <2>2, <1>4
  <2>6. /\ Len(rest) \in Nat /\ Len(rest) = csent - ack
        /\ \A j \in 1 .. Len(rest) :
              rest[j].t = "msg" /\ rest[j].n = ack + j /\ rest[j].n <= csent
    <3>1. Len(rest) \in Nat /\ Len(rest) = csent - ack
      BY <2>2, <2>4, <2>5, <1>4
    <3>2. ASSUME NEW j \in 1 .. Len(rest)
          PROVE  rest[j].t = "msg" /\ rest[j].n = ack + j /\ ack + j <= csent
      <4>1. rest[j] = Msg(ack + 1 + j - 1)
        BY <2>4
      <4>2. ack + 1 + j - 1 = ack + j /\ ack + j <= csent
        BY <2>2, <3>1, <1>4
      <4> QED
        BY <4>1, <4>2 DEF Msg
    <3> QED
      BY <3>1, <3>2
  <2>7. /\ c2s' \in [Socks -> Seq(Frames)]
        /\ \A k \in Socks : k # current => c2s'[k] = c2s[k]
        /\ c2s'[current] = IF up[current] THEN rest ELSE <<>>
    <3>1. c \o rest = rest
      BY <2>3, <2>4
    <3>2. /\ c2s' \in [Socks -> Seq(Frames)]
          /\ \A k \in Socks : k # current => c2s'[k] = c2s[k]
          /\ c2s'[current] = IF up[current] THEN c2s[current] \o rest
                                            ELSE c2s[current]
      <4>1. /\ rest \in Seq(Frames) /\ c2s \in [Socks -> Seq(Frames)]
            /\ current \in Socks /\ c2s' = Write(c2s, current, rest)
        BY <2>1, <2>4, <1>2, <1>4
      <4> QED
        BY <4>1, WriteElements
    <3> QED
      BY <2>3, <3>1, <3>2, <1>0
  <2>8. \A j \in 1 .. Len(c2s'[current]) : up[current] /\ c2s'[current] = rest
    BY <2>7
  <2>9. FramesInv'
    <3> SUFFICES ASSUME NEW k \in Socks PROVE Ordered(c2s'[k])
      BY DEF FramesInv
    <3>1. CASE k # current
      BY <3>1, <2>7 DEF FramesInv
    <3>2. CASE k = current
      BY <3>2, <2>6, <2>8 DEF Ordered
    <3> QED
      BY <3>1, <3>2
  <2>10. \A a \in acts : a.sock \in Socks /\ a.sock # current
    BY <1>2 DEF TypeOK
  <2>11. TypeOK' /\ ExactlyOnceInOrder'
    BY <2>1, <2>7, <1>1, <1>2 DEF TypeOK, ExactlyOnceInOrder, serverVars
  <2>12. FreshInv'
    BY <2>1, <2>7, <1>1, <1>2, FreshSame
  <2>13. HelloInv'
    <3> SUFFICES ASSUME NEW k \in Socks, NEW j \in 1 .. Len(c2s'[k]),
                        c2s'[k][j].t = "hello"
                 PROVE  /\ j = 1 /\ Unanswered(k, c2s[k][j].n)'
                        /\ \A a \in acts' : a.sock # k
      BY DEF HelloInv
    <3>1. k # current
      BY <2>6, <2>8
    <3>2. c2s'[k] = c2s[k]
      BY <3>1, <2>7
    <3>3. j = 1 /\ Unanswered(k, c2s[k][j].n) /\ \A a \in acts : a.sock # k
      BY <3>2 DEF HelloInv
    <3> QED
      BY <3>1, <3>2, <3>3, <2>1, <1>1, <1>2
         DEF Unanswered, Unhandled, serverVars
  <2>14. ActsInv' /\ WriterInv'
    BY <2>1, <2>7, <2>10, <1>1, <1>2
       DEF ActsInv, WriterInv, Unanswered, Unhandled, serverVars
  <2>15. ToClientInv'
    BY <2>1, <1>1, ControlTaken
  <2>16. live /\ rsock = current => ack = srecv /\ Held(rsock) = 0
    <3>1. live /\ rsock = current =>
             ack = srecv /\ (Unhandled(current) => slot[1].f.t = "close")
      BY <2>0, <1>0, <1>2, <1>7 DEF CurrentInv
    <3> QED
      BY <3>1 DEF Unhandled, Held
  <2>17. ToServerInv'
    <3>1. CASE rsock # current
      BY <3>1, <2>1, <2>7, <1>1, <1>4 DEF ToServerInv, Held, serverVars
    <3>2. CASE rsock = current
      <4> SUFFICES ASSUME live
                   PROVE  /\ Held(rsock) = 1 =>
                                slot[1].f.n = srecv + 1 /\ srecv < csent
                          /\ \A j \in 1 .. Len(c2s'[rsock]) :
                                c2s'[rsock][j].t = "msg" =>
                                   /\ c2s'[rsock][j].n = srecv + Held(rsock) + j
                                   /\ c2s'[rsock][j].n <= csent
        BY <2>1, <1>1 DEF ToServerInv, Held, serverVars
      <4>1. \A j \in 1 .. Len(rest) : srecv + 0 + j = ack + j
        BY <2>16, <3>2, <2>6, <1>4
      <4> QED
        BY <4>1, <3>2, <2>6, <2>8, <2>16
    <3> QED
      BY <3>1, <3>2
  <2>18. CurrentInv'
    <3>1. ~HasType(c2s'[current], "close")
      BY <2>6, <2>8 DEF HasType
    <3>2. live /\ rsock = current /\ up[current] =>
             srecv + Held(rsock) + Len(c2s'[current]) = csent
      <4>1. srecv + 0 + (csent - srecv) = csent
        BY <1>4
      <4> QED
        BY <4>1, <2>6, <2>7, <2>16
    <3>3. Held(rsock)' = Held(rsock)
      BY <1>1 DEF Held, serverVars
    <3>4. live /\ rsock = current /\ up[current] =>
             /\ ~detached /\ current \in readers
             /\ Unhandled(current) => slot[1].f.t # "close"
      BY <1>2 DEF CurrentInv
    <3> QED
      BY <3>1, <3>2, <3>3, <3>4, <2>1, <1>1
         DEF CurrentInv, Unhandled, serverVars
  <2> QED
    BY <2>9, <2>11, <2>12, <2>13, <2>14, <2>15, <2>17, <2>18
<1> QED
  BY <1>5, <1>6, <1>7

\* What onclose of the current socket starts keeps the invariant.
LEMMA SocketClosedInv ==
    ASSUME Inv, ~closed, NEW code, SocketClosed(code),
           UNCHANGED <<up, serverVars>>,
           s2c' \in [Socks -> Seq(Frames)],
           \A k \in Socks : k # current => s2c'[k] = s2c[k],
           s2c[current] = <<>> => s2c'[current] = <<>>,
           ~UNCHANGED <<c2s, clientVars>>
    PROVE  Inv'
<1>1. CASE NextSocket
  BY <1>1, NextSocketInv
<1>2. CASE Gone /\ UNCHANGED c2s
  BY <1>2, GoneInv
<1> QED
  BY <1>1, <1>2 DEF SocketClosed

\* A close frame that only waits for the retry timer leaves all but the
\* queue as it was.
LEMMA CloseTaken ==
    ASSUME Inv, NEW i \in Socks, Arriving(i, "close"),
           UNCHANGED <<up, serverVars, c2s, clientVars>>
    PROVE  Inv'
<1> USE DEF Inv
<1>0. PICK q, r : q = s2c[current] /\ r = s2c'[current]
  OBVIOUS
<1>1. /\ ~closed /\ wired /\ current \in Socks
      /\ s2c' \in [Socks -> Seq(Frames)]
      /\ \A k \in Socks : k # current => s2c'[k] = s2c[k]
      /\ q # <<>> /\ q[1].t = "close"
      /\ Len(q) \in Nat /\ Len(q) >= 1 /\ Len(r) = Len(q) - 1
      /\ \A j \in 1 .. Len(q) - 1 : r[j] = q[j + 1]
      /\ Control(r) = 0 /\ ~HasType(c2s[current], "hello")
      /\ \A a \in acts : a.sock # current
  BY <1>0, ArrivingFacts DEF TypeOK
<1>2. TypeOK' /\ ExactlyOnceInOrder' /\ FramesInv'
  BY <1>1 DEF TypeOK, ExactlyOnceInOrder, FramesInv, serverVars, clientVars
<1>3. FreshInv'
  BY <1>1, FreshSame DEF clientVars
<1>4. HelloInv'
  BY <1>0, <1>1 DEF HelloInv, Unanswered, Unhandled, serverVars, clientVars
<1>5. ActsInv' /\ WriterInv'
  BY <1>1 DEF ActsInv, WriterInv, Unanswered, Unhandled, serverVars,
              clientVars, TypeOK
<1>6. ToClientInv'
  <2>1. 1 \in 1 .. Len(q) /\ HasType(q, "close")
    BY <1>1 DEF HasType
  <2>2. ~(live /\ wconn = current /\ up[current])
    BY <2>1, <1>0, <1>1 DEF ToClientInv
  <2>3. 1 = Len(q)
    BY <2>1, <1>0, <1>1 DEF ToClientInv
  <2>4. Len(r) = 0
    BY <2>3, <1>1
  <2> QED
    BY <2>2, <2>4, <1>0, <1>1 DEF ToClientInv, serverVars, clientVars
<1>7. ToServerInv'
  BY DEF ToServerInv, Held, serverVars, clientVars
<1>8. CurrentInv'
  BY <1>0, <1>1 DEF CurrentInv, Held, HasType, Unhandled, serverVars,
                    clientVars, Control
<1> QED
  BY <1>2, <1>3, <1>4, <1>5, <1>6, <1>7, <1>8

\* A close frame of the server keeps the invariant.
LEMMA ClientClosedInv ==
    ASSUME Inv, NEW i \in Socks, ClientClosed(i) PROVE Inv'
<1>1. /\ Arriving(i, "close") /\ SocketClosed(Head(s2c[i]).n)
      /\ UNCHANGED <<up, serverVars>>
  BY DEF ClientClosed
<1>2. /\ ~closed /\ s2c' \in [Socks -> Seq(Frames)]
      /\ \A k \in Socks : k # current => s2c'[k] = s2c[k]
      /\ s2c[current] # <<>>
  BY <1>1, ArrivingFacts
<1>3. CASE UNCHANGED <<c2s, clientVars>>
  BY <1>1, <1>3, CloseTaken
<1>4. CASE ~UNCHANGED <<c2s, clientVars>>
  BY <1>1, <1>2, <1>4, SocketClosedInv
<1> QED
  BY <1>3, <1>4

\* The loss of the current socket keeps the invariant.
LEMMA ClientLostInv == ASSUME Inv, ClientLost PROVE Inv'
<1>1. /\ ~closed /\ SocketClosed(Broken) /\ (~resuming \/ leaving)
      /\ UNCHANGED <<up, s2c, serverVars>>
  BY DEF ClientLost
<1>2. s2c' \in [Socks -> Seq(Frames)]
  BY <1>1 DEF Inv, TypeOK
<1>3. CASE NextSocket
  BY <1>1, <1>2, <1>3, NextSocketInv
<1>4. CASE Gone /\ UNCHANGED c2s
  BY <1>1, <1>2, <1>4, GoneInv
<1> QED
  BY <1>1, <1>3, <1>4 DEF SocketClosed

\* The client's timers, and the close event of a socket it closed itself.
LEMMA ClientTimersInv ==
    ASSUME Inv, ClientStall \/ ClientRetry \/ ClientGiveUp \/ ClientLeft
    PROVE  Inv'
<1>1. ~closed /\ UNCHANGED <<up, s2c, serverVars>>
  BY DEF ClientStall, ClientRetry, ClientGiveUp, ClientLeft, netVars
<1>2. s2c' \in [Socks -> Seq(Frames)]
  BY <1>1 DEF Inv, TypeOK
<1>3. CASE ClientStall \/ ClientRetry
  BY <1>1, <1>2, <1>3, NextSocketInv DEF ClientStall, ClientRetry
<1>4. CASE ClientGiveUp \/ ClientLeft
  BY <1>1, <1>2, <1>4, GoneInv DEF ClientGiveUp, ClientLeft, netVars
<1> QED
  BY <1>3, <1>4

\* Leaving (ServerConnection.close) keeps the invariant.
LEMMA ClientLeaveInv == ASSUME Inv, ClientLeave PROVE Inv'
<1> USE DEF Inv
<1>1. /\ ~closed /\ wired' = FALSE /\ leaving' = TRUE
      /\ c2s' = Write(c2s, current, CloseFrames(current, Normal))
      /\ UNCHANGED <<up, s2c, serverVars, current, secret, resuming, closed,
                     crecv, csent, cfirst, cgot>>
  BY DEF ClientLeave
<1>2. current \in Socks /\ rsock \in Socks /\ Normal \in Codes
      /\ c2s \in [Socks -> Seq(Frames)]
  BY DEF TypeOK, Codes
<1>3. /\ c2s' \in [Socks -> Seq(Frames)]
      /\ \A k \in Socks : k # current => c2s'[k] = c2s[k]
      /\ Closing(c2s[current], c2s'[current])
  BY <1>1, <1>2, ClosedSocket
<1>4. \A k \in Socks : /\ Closing(c2s[k], c2s'[k])
                       /\ Len(c2s[k]) \in Nat /\ Len(c2s'[k]) \in Nat
  <2> TAKE k \in Socks
  <2>1. c2s[k] \in Seq(Frames) /\ c2s'[k] \in Seq(Frames)
    BY <1>2, <1>3
  <2> QED
    BY <2>1, <1>3, ClosingRefl
<1>a. \A k \in Socks : /\ Ordered(c2s'[k])
                       /\ ~HasType(c2s[k], "msg") => ~HasType(c2s'[k], "msg")
  <2> TAKE k \in Socks
  <2>1. c2s[k] \in Seq(Frames) /\ c2s'[k] \in Seq(Frames)
    BY <1>2, <1>3
  <2> QED
    BY <2>1, <1>4, ClosingKeeps DEF FramesInv
<1>b. \A a \in acts : a.sock \in Socks
  BY DEF TypeOK
<1>5. TypeOK' /\ ExactlyOnceInOrder' /\ FramesInv'
  BY <1>1, <1>3, <1>a DEF TypeOK, ExactlyOnceInOrder, FramesInv, serverVars
<1>6. FreshInv'
  BY <1>1, <1>3, FreshSame
<1>7. HelloInv'
  <2> SUFFICES ASSUME NEW i \in Socks, NEW j \in 1 .. Len(c2s'[i]),
                      c2s'[i][j].t = "hello"
               PROVE  /\ j = 1 /\ Unanswered(i, c2s[i][j].n)'
                      /\ \A a \in acts' : a.sock # i
    BY DEF HelloInv
  <2>1. j \in 1 .. Len(c2s[i]) /\ c2s'[i][j] = c2s[i][j]
    BY <1>4 DEF Closing
  <2> QED
    BY <2>1, <1>1, <1>a DEF HelloInv, Unanswered, Unhandled, serverVars
<1>8. ActsInv' /\ WriterInv'
  BY <1>1, <1>a, <1>b DEF ActsInv, WriterInv, Unanswered, Unhandled, serverVars
<1>9. ToClientInv' /\ CurrentInv'
  BY <1>1 DEF ToClientInv, CurrentInv, Control, HasType, serverVars
<1>10. ToServerInv'
  <2>1. \A j \in 1 .. Len(c2s'[rsock]) : c2s'[rsock][j].t = "msg" =>
           j \in 1 .. Len(c2s[rsock]) /\ c2s'[rsock][j] = c2s[rsock][j]
    BY <1>2, <1>4 DEF Closing
  <2> QED
    BY <2>1, <1>1, <1>2 DEF ToServerInv, Held, serverVars
<1> QED
  BY <1>5, <1>6, <1>7, <1>8, <1>9, <1>10

(***************************************************************************)
(* The server's steps.                                                     *)
(***************************************************************************)

\* A session that is over has nothing more to say than a close frame.
LEMMA CloseSent ==
    ASSUME Inv, ~live', UNCHANGED <<current, crecv, closed, ssent>>,
           \/ s2c'[current] = s2c[current]
           \/ /\ ~closed => ~HasType(s2c[current], "close")
              /\ \E code \in Codes :
                    s2c'[current] = s2c[current] \o <<Close(code)>>
    PROVE  ToClientInv'
<1> USE DEF Inv
<1>0. PICK q, r : q = s2c[current] /\ r = s2c'[current]
  OBVIOUS
<1>1. q \in Seq(Frames)
  BY <1>0 DEF TypeOK
<1>2. CASE r = q
  BY <1>0, <1>2 DEF ToClientInv
<1>3. CASE /\ ~closed => ~HasType(q, "close")
           /\ \E code \in Codes : r = q \o <<Close(code)>>
  <2> SUFFICES ASSUME ~closed PROVE ToClientInv'
    BY DEF ToClientInv
  <2>1. PICK code \in Codes : r = q \o <<Close(code)>>
    BY <1>3
  <2>2. Close(code) \in Frames /\ Close(code).t = "close"
    BY DEF Close, Frames
  <2>3. /\ Len(q) \in Nat /\ Len(r) = Len(q) + 1
        /\ \A j \in 1 .. Len(q) : r[j] = q[j]
        /\ r[Len(q) + 1].t = "close"
    BY <2>1, <2>2, <1>1, OneMore
  <2>4. PICK n \in Nat : n = Len(q)
    BY <2>3
  <2>5. \A j \in 1 .. n : q[j].t # "close"
    BY <2>4, <1>3 DEF HasType
  <2>6. \A j \in 1 .. n :
           /\ q[j].t \in {"session", "resumed"} => j = 1
           /\ q[j].t = "msg" =>
                 q[j].n = crecv + j - Control(q) /\ q[j].n <= ssent
    BY <2>4, <1>0 DEF ToClientInv
  <2>7. n > 0 => Control(r) = Control(q)
    <3>1. n > 0 => q # <<>> /\ r # <<>> /\ r[1] = q[1]
      BY <2>3, <2>4
    <3> QED
      BY <3>1 DEF Control
  <2>8. \A j \in 1 .. n + 1 :
           \/ j \in 1 .. n /\ r[j] = q[j] /\ n > 0
           \/ j = n + 1 /\ r[j].t = "close"
    BY <2>3, <2>4
  <2>9. \A j \in 1 .. Len(r) :
           /\ r[j].t \in {"session", "resumed"} => j = 1
           /\ r[j].t = "close" => j = Len(r)
           /\ r[j].t = "msg" =>
                 r[j].n = crecv + j - Control(r) /\ r[j].n <= ssent
    BY <2>3, <2>4, <2>5, <2>6, <2>7, <2>8
  <2> QED
    BY <2>9, <1>0 DEF ToClientInv
<1> QED
  BY <1>0, <1>2, <1>3

\* The session ends, or is over and turns a request away: a close frame to
\* the socket it has and to those whose request it drops, and no more.
LEMMA EndedInv ==
    ASSUME Inv, live' = FALSE,
           UNCHANGED <<up, c2s, clientVars, rsock, detached, srecv, ssent,
                       sfirst, sgot>>,
           wconn' \in {wconn, 0}, readers' \in {readers, {}},
           slot' \in {slot, <<>>}, acts' \in SUBSET acts,
           s2c' \in [Socks -> Seq(Frames)],
           \A k \in Socks : s2c'[k] # s2c[k] =>
              /\ (live /\ k = wconn) \/ (\E a \in acts \ acts' : a.sock = k)
              /\ up[k]
              /\ \E code \in Codes : s2c'[k] = s2c[k] \o <<Close(code)>>
    PROVE  Inv'
<1> USE DEF Inv
<1>1. current \in Socks /\ rsock \in Socks /\ 0 \notin Socks
      /\ \A a \in acts : a.sock \in Socks
  BY DEF TypeOK, Socks
<1>2. TypeOK' /\ ExactlyOnceInOrder' /\ FramesInv'
  <2>1. slot' \in Seq([sock : Socks, f : Frames]) /\ Len(slot') <= 1
    <3>1. CASE slot' = slot
      BY <3>1 DEF TypeOK
    <3>2. CASE slot' = <<>>
      BY <3>2
    <3> QED
      BY <3>1, <3>2
  <2> QED
    BY <2>1 DEF TypeOK, ExactlyOnceInOrder, FramesInv, clientVars
<1>3. \A i : Unhandled(i)' => Unhandled(i)
  BY DEF Unhandled
<1>4. FreshInv'
  <2> SUFFICES ASSUME NEW i \in Socks, i > current PROVE Untouched(i)'
    BY DEF FreshInv, clientVars
  <2>1. Untouched(i)
    BY DEF FreshInv
  <2>2. s2c'[i] = s2c[i]
    BY <2>1 DEF Untouched
  <2> QED
    BY <2>1, <2>2, <1>1, <1>3 DEF Untouched
<1>5. HelloInv'
  <2> SUFFICES ASSUME NEW i \in Socks, NEW j \in 1 .. Len(c2s[i]),
                      c2s[i][j].t = "hello"
               PROVE  /\ j = 1 /\ Unanswered(i, c2s[i][j].n)'
                      /\ \A a \in acts' : a.sock # i
    BY DEF HelloInv
  <2>1. j = 1 /\ Unanswered(i, c2s[i][j].n) /\ \A a \in acts : a.sock # i
    BY DEF HelloInv
  <2>2. s2c'[i] = s2c[i]
    BY <2>1 DEF Unanswered
  <2> QED
    BY <2>1, <2>2, <1>1, <1>3 DEF Unanswered, clientVars
<1>6. ActsInv'
  <2>1. ASSUME NEW a \in acts' PROVE Unanswered(a.sock, a.received)'
    <3>1. a \in acts /\ Unanswered(a.sock, a.received)
      BY DEF ActsInv
    <3>2. \A b \in acts \ acts' : b.sock # a.sock
      BY <3>1 DEF ActsInv
    <3>3. s2c'[a.sock] = s2c[a.sock]
      BY <3>1, <3>2, <1>1 DEF Unanswered
    <3> QED
      BY <3>1, <3>3, <1>1, <1>3 DEF Unanswered, clientVars
  <2> QED
    BY <2>1 DEF ActsInv
<1>7. WriterInv' /\ ToServerInv'
  BY DEF WriterInv, ToServerInv
<1>8. ToClientInv'
  <2>1. ASSUME s2c'[current] # s2c[current], ~closed
        PROVE  ~HasType(s2c[current], "close")
    <3>1. CASE live /\ current = wconn
      BY <3>1, <2>1, <1>1 DEF ToClientInv
    <3>2. CASE \E a \in acts : a.sock = current
      <4>1. s2c[current] = <<>>
        BY <3>2 DEF ActsInv, Unanswered
      <4> QED
        BY <4>1 DEF HasType
    <3> QED
      BY <3>1, <3>2, <2>1, <1>1
  <2> QED
    BY <2>1, <1>1, CloseSent DEF clientVars
<1>9. CurrentInv'
  BY <1>3, Zenon DEF CurrentInv, HasType, Hello, Unhandled, clientVars
<1> QED
  BY <1>2, <1>4, <1>5, <1>6, <1>7, <1>8, <1>9

\* A close frame written to one socket.
LEMMA CloseWritten ==
    ASSUME NEW q \in [Socks -> Seq(Frames)], NEW i \in Socks,
           NEW code \in Codes
    PROVE  /\ Write(q, i, <<Close(code)>>) \in [Socks -> Seq(Frames)]
           /\ \A k \in Socks : k # i => Write(q, i, <<Close(code)>>)[k] = q[k]
           /\ Write(q, i, <<Close(code)>>)[i] =
                 IF up[i] THEN q[i] \o <<Close(code)>> ELSE q[i]
<1>1. <<Close(code)>> \in Seq(Frames)
  <2>1. Close(code) \in Frames
    BY DEF Close, Frames
  <2> QED
    BY <2>1
<1> QED
  BY <1>1, WriteElements, Zenon

\* The end of clientLoop keeps the invariant.
LEMMA EndSessionInv ==
    ASSUME Inv, live, NEW code \in Codes, EndSession(code),
           UNCHANGED <<up, c2s, clientVars, acts>>
    PROVE  Inv'
<1>1. /\ live' = FALSE /\ wconn' = 0 /\ readers' = {} /\ slot' = <<>>
      /\ UNCHANGED <<rsock, detached, srecv, ssent, sfirst, sgot>>
      /\ s2c' = IF wconn = 0 THEN s2c ELSE Write(s2c, wconn, <<Close(code)>>)
  BY DEF EndSession
<1>2. TypeOK /\ s2c \in [Socks -> Seq(Frames)] /\ (wconn # 0 => wconn \in Socks)
  BY DEF Inv, TypeOK
<1>3. /\ s2c' \in [Socks -> Seq(Frames)]
      /\ \A k \in Socks : k # wconn => s2c'[k] = s2c[k]
      /\ wconn # 0 => s2c'[wconn] = IF up[wconn]
                                    THEN s2c[wconn] \o <<Close(code)>>
                                    ELSE s2c[wconn]
  <2>1. CASE wconn = 0
    BY <2>1, <1>1, <1>2
  <2>2. CASE wconn # 0
    BY <2>2, <1>1, <1>2, CloseWritten
  <2> QED
    BY <2>1, <2>2
<1>4. \A k \in Socks : s2c'[k] # s2c[k] =>
         /\ k = wconn
         /\ up[k]
         /\ \E c \in Codes : s2c'[k] = s2c[k] \o <<Close(c)>>
  <2>1. 0 \notin Socks
    BY DEF Socks
  <2> QED
    BY <2>1, <1>3
<1> QED
  BY <1>1, <1>3, <1>4, EndedInv

\* So do all the reasons for which clientLoop ends by itself.
LEMMA SessionEndsInv ==
    ASSUME Inv, \/ SessionExpire \/ SessionFail
                \/ LoopError /\ slot[1].f.n = Normal
    PROVE  Inv'
<1>1. Normal \in Codes /\ Internal \in Codes
  BY DEF Codes
<1>2. /\ live /\ UNCHANGED <<up, c2s, clientVars, acts>>
      /\ \E code \in Codes : EndSession(code)
  BY <1>1 DEF SessionExpire, SessionFail, LoopError
<1> QED
  BY <1>2, EndSessionInv

\* Refusing a request the ended session did not take keeps the invariant.
LEMMA RefusePendingInv ==
    ASSUME Inv, NEW a \in acts, RefusePending(a) PROVE Inv'
<1>1. /\ live' = FALSE /\ acts' = acts \ {a}
      /\ s2c' = Write(s2c, a.sock, <<Close(NoResume)>>)
      /\ UNCHANGED <<up, c2s, clientVars, wconn, rsock, readers, slot,
                     detached, srecv, ssent, sfirst, sgot>>
  BY DEF RefusePending
<1>2. TypeOK /\ s2c \in [Socks -> Seq(Frames)] /\ a.sock \in Socks
      /\ NoResume \in Codes
  BY DEF Inv, TypeOK, Codes
<1>3. /\ s2c' \in [Socks -> Seq(Frames)]
      /\ \A k \in Socks : k # a.sock => s2c'[k] = s2c[k]
      /\ s2c'[a.sock] = IF up[a.sock]
                        THEN s2c[a.sock] \o <<Close(NoResume)>>
                        ELSE s2c[a.sock]
  BY <1>1, <1>2, CloseWritten
<1>4. \A k \in Socks : s2c'[k] # s2c[k] =>
         /\ \E b \in acts \ acts' : b.sock = k
         /\ up[k]
         /\ \E code \in Codes : s2c'[k] = s2c[k] \o <<Close(code)>>
  BY <1>1, <1>2, <1>3
<1> QED
  BY <1>1, <1>2, <1>3, <1>4, EndedInv

\* A resume whose replay is lost ends the session and keeps the invariant.
LEMMA ResumeGapInv ==
    ASSUME Inv, NEW a \in acts, LoopResume(a),
           ~Kept(sfirst, ssent, a.received)
    PROVE  Inv'
<1>1. PICK w : w = Write(s2c, a.sock, <<Close(NoResume)>>)
  OBVIOUS
<1>2. /\ live /\ live' = FALSE /\ acts' = acts \ {a}
      /\ wconn' = 0 /\ readers' = {} /\ slot' = <<>>
      /\ s2c' = IF wconn = 0 THEN w ELSE Write(w, wconn, <<Close(Internal)>>)
      /\ UNCHANGED <<up, c2s, clientVars, rsock, detached, srecv, ssent,
                     sfirst, sgot>>
  BY <1>1 DEF LoopResume
<1>3. /\ TypeOK /\ s2c \in [Socks -> Seq(Frames)] /\ a.sock \in Socks
      /\ NoResume \in Codes /\ Internal \in Codes
      /\ wconn # 0 => wconn \in Socks
  BY DEF Inv, TypeOK, Codes
<1>4. a.sock # wconn
  BY DEF Inv, ActsInv, Unanswered
<1>5. /\ w \in [Socks -> Seq(Frames)]
      /\ \A k \in Socks : k # a.sock => w[k] = s2c[k]
      /\ w[a.sock] = IF up[a.sock]
                     THEN s2c[a.sock] \o <<Close(NoResume)>>
                     ELSE s2c[a.sock]
  BY <1>1, <1>3, CloseWritten
<1>6. /\ s2c' \in [Socks -> Seq(Frames)]
      /\ \A k \in Socks : k # wconn => s2c'[k] = w[k]
      /\ wconn # 0 => s2c'[wconn] = IF up[wconn]
                                    THEN w[wconn] \o <<Close(Internal)>>
                                    ELSE w[wconn]
  <2>1. CASE wconn = 0
    BY <2>1, <1>2, <1>5
  <2>2. CASE wconn # 0
    <3>1. /\ s2c' = Write(w, wconn, <<Close(Internal)>>)
          /\ w \in [Socks -> Seq(Frames)] /\ wconn \in Socks
          /\ Internal \in Codes
      BY <2>2, <1>2, <1>3, <1>5
    <3> QED
      BY <3>1, CloseWritten
  <2> QED
    BY <2>1, <2>2
<1>7. \A k \in Socks : s2c'[k] # s2c[k] =>
         /\ (live /\ k = wconn) \/ (\E b \in acts \ acts' : b.sock = k)
         /\ up[k]
         /\ \E code \in Codes : s2c'[k] = s2c[k] \o <<Close(code)>>
  <2> SUFFICES ASSUME NEW k \in Socks, s2c'[k] # s2c[k]
               PROVE  /\ (live /\ k = wconn) \/ (\E b \in acts \ acts' : b.sock = k)
                      /\ up[k]
                      /\ \E code \in Codes :
                            s2c'[k] = s2c[k] \o <<Close(code)>>
    OBVIOUS
  <2>1. CASE k = a.sock
    BY <2>1, <1>2, <1>3, <1>4, <1>5, <1>6
  <2>2. CASE k = wconn
    BY <2>2, <1>2, <1>3, <1>4, <1>5, <1>6
  <2> QED
    BY <2>1, <2>2, <1>5, <1>6
<1> QED
  BY <1>2, <1>6, <1>7, EndedInv

\* Reading, dropping and handling change neither what the server has sent
\* nor the sockets it has.
LEMMA SlotEmptied ==
    ASSUME Inv, slot' = <<>>,
           UNCHANGED <<netVars, clientVars, live, wconn, rsock, readers, acts>>
    PROVE  FramesInv' /\ FreshInv' /\ HelloInv' /\ ActsInv' /\ WriterInv'
<1> USE DEF Inv, netVars, clientVars
<1>1. \A i : ~Unhandled(i)'
  BY DEF Unhandled
<1>2. FramesInv' /\ FreshInv'
  BY <1>1 DEF FramesInv, FreshInv, Untouched
<1>3. HelloInv'
  BY <1>1 DEF HelloInv, Unanswered
<1>4. ActsInv' /\ WriterInv'
  BY <1>1 DEF ActsInv, WriterInv, Unanswered
<1> QED
  BY <1>2, <1>3, <1>4

\* Dropping the result of a reader of an earlier generation keeps the
\* invariant: only results of the current one are counted in it.
LEMMA LoopDropInv == ASSUME Inv, LoopDrop PROVE Inv'
<1> USE DEF Inv
<1>1. /\ live /\ slot # <<>> /\ slot[1].sock # rsock /\ slot' = <<>>
      /\ UNCHANGED <<netVars, clientVars, live, wconn, rsock, readers, acts,
                     detached, srecv, ssent, sfirst, sgot>>
  BY DEF LoopDrop
<1>2. FramesInv' /\ FreshInv' /\ HelloInv' /\ ActsInv' /\ WriterInv'
  BY <1>1, SlotEmptied
<1>3. TypeOK' /\ ExactlyOnceInOrder'
  <2>1. slot' \in Seq([sock : Socks, f : Frames]) /\ Len(slot') <= 1
    BY <1>1
  <2> QED
    BY <2>1, <1>1 DEF TypeOK, ExactlyOnceInOrder, netVars, clientVars
<1>4. ToClientInv'
  BY <1>1 DEF ToClientInv, netVars, clientVars
<1>5. Held(rsock) = 0 /\ Held(rsock)' = 0 /\ \A i : ~Unhandled(i)'
  BY <1>1 DEF Held, Unhandled
<1>6. ToServerInv'
  BY <1>1, <1>5 DEF ToServerInv, netVars, clientVars
<1>7. CurrentInv'
  BY <1>1, <1>5 DEF CurrentInv, Hello, netVars, clientVars
<1> QED
  BY <1>2, <1>3, <1>4, <1>6, <1>7

\* The error of the current reader keeps the invariant: it can only come from
\* a socket that is broken or closed, so the client is not connected by it.
LEMMA LoopErrorInv ==
    ASSUME Inv, LoopError, slot[1].f.n # Normal PROVE Inv'
<1> USE DEF Inv
<1>1. /\ live /\ slot # <<>> /\ slot[1].sock = rsock /\ slot[1].f.t = "close"
      /\ slot' = <<>> /\ detached' = TRUE
      /\ UNCHANGED <<netVars, clientVars, live, wconn, rsock, readers, acts,
                     srecv, ssent, sfirst, sgot>>
  BY DEF LoopError, netVars
<1>2. FramesInv' /\ FreshInv' /\ HelloInv' /\ ActsInv' /\ WriterInv'
  BY <1>1, SlotEmptied
<1>3. TypeOK' /\ ExactlyOnceInOrder'
  <2>1. slot' \in Seq([sock : Socks, f : Frames]) /\ Len(slot') <= 1
    BY <1>1
  <2> QED
    BY <2>1, <1>1 DEF TypeOK, ExactlyOnceInOrder, netVars, clientVars
<1>4. ToClientInv'
  BY <1>1 DEF ToClientInv, netVars, clientVars
<1>5. Held(rsock) = 0 /\ Held(rsock)' = 0 /\ \A i : ~Unhandled(i)'
  BY <1>1 DEF Held, Unhandled
<1>6. ToServerInv'
  BY <1>1, <1>5 DEF ToServerInv, netVars, clientVars
<1>7. CurrentInv'
  <2>1. ~closed /\ wired => ~(rsock = current /\ up[current])
    BY <1>1 DEF CurrentInv, Unhandled
  <2> QED
    BY <2>1, <1>1, <1>5 DEF CurrentInv, Hello, netVars, clientVars
<1> QED
  BY <1>2, <1>3, <1>4, <1>6, <1>7

\* Handling a message keeps the invariant: it is the next one.
LEMMA LoopTakeInv == ASSUME Inv, LoopTake PROVE Inv'
<1> USE DEF Inv
<1>1. /\ live /\ slot # <<>> /\ slot[1].sock = rsock /\ slot[1].f.t = "msg"
      /\ slot' = <<>> /\ srecv' = srecv + 1
      /\ sgot' = Append(sgot, slot[1].f.n)
      /\ UNCHANGED <<netVars, clientVars, live, wconn, rsock, readers, acts,
                     detached, ssent, sfirst>>
  BY DEF LoopTake
<1>2. FramesInv' /\ FreshInv' /\ HelloInv' /\ ActsInv' /\ WriterInv'
  BY <1>1, SlotEmptied
<1>3. Held(rsock) = 1 /\ Held(rsock)' = 0 /\ \A i : ~Unhandled(i)'
  BY <1>1 DEF Held, Unhandled
<1>4. slot[1].f.n = srecv + 1 /\ srecv < csent
  BY <1>1, <1>3 DEF ToServerInv
<1>5. srecv \in Nat /\ csent \in 0 .. MaxCSent /\ sgot \in Seq(Nat)
      /\ rsock \in Socks /\ c2s \in [Socks -> Seq(Frames)]
      /\ \A k \in 1 .. Len(sgot) : sgot[k] = k
      /\ Len(sgot) = srecv
  BY DEF TypeOK, ExactlyOnceInOrder
<1>6. TypeOK'
  <2>1. slot' \in Seq([sock : Socks, f : Frames]) /\ Len(slot') <= 1
    BY <1>1
  <2>2. sgot' \in Seq(Nat)
    BY <1>1, <1>4, <1>5
  <2>3. srecv' \in 0 .. MaxCSent
    BY <1>1, <1>4, <1>5
  <2> QED
    BY <2>1, <2>2, <2>3, <1>1 DEF TypeOK, netVars, clientVars
<1>7. ExactlyOnceInOrder'
  <2>0. sgot' = Append(sgot, srecv + 1)
    BY <1>1, <1>4
  <2>1. Len(sgot') = srecv + 1 /\ \A k \in 1 .. Len(sgot') : sgot'[k] = k
    <3>1. /\ sgot \in Seq(Nat) /\ Len(sgot) = srecv /\ srecv \in Nat
          /\ \A k \in 1 .. Len(sgot) : sgot[k] = k
      BY DEF TypeOK, ExactlyOnceInOrder
    <3> QED
      BY <2>0, <3>1
  <2> QED
    BY <2>1, <1>1, <1>4, <1>5 DEF ExactlyOnceInOrder, clientVars
<1>8. ToClientInv'
  BY <1>1 DEF ToClientInv, netVars, clientVars
<1>9. ToServerInv'
  <2>1. ASSUME NEW j \in 1 .. Len(c2s[rsock]), c2s[rsock][j].t = "msg"
        PROVE  c2s[rsock][j].n = srecv' + 0 + j /\ c2s[rsock][j].n <= csent
    <3>1. c2s[rsock][j].n = srecv + 1 + j /\ c2s[rsock][j].n <= csent
      BY <2>1, <1>1, <1>3 DEF ToServerInv
    <3>2. srecv + 1 + j = srecv' + 0 + j
      BY <1>1, <1>5
    <3> QED
      BY <3>1, <3>2
  <2> QED
    BY <2>1, <1>1, <1>3 DEF ToServerInv, netVars, clientVars
<1>10. CurrentInv'
  <2>1. ~closed /\ wired /\ resuming => rsock # current
    BY <1>1 DEF CurrentInv, Unhandled
  <2>2. ASSUME ~closed, wired, rsock = current, up[current]
        PROVE  /\ ~detached /\ current \in readers
               /\ ~resuming => srecv' + 0 + Len(c2s[current]) = csent
    <3>1. /\ ~detached /\ current \in readers
          /\ ~resuming => srecv + 1 + Len(c2s[current]) = csent
      BY <2>2, <1>1, <1>3 DEF CurrentInv
    <3>2. PICK n : n = Len(c2s[current])
      OBVIOUS
    <3>3. n \in Nat
      BY <3>2, <2>2, <1>5
    <3>4. srecv + 1 + n = srecv' + 0 + n
      BY <3>3, <1>1, <1>5
    <3> QED
      BY <3>1, <3>2, <3>4
  <2> QED
    BY <2>1, <2>2, <1>1, <1>3 DEF CurrentInv, Hello, netVars, clientVars
<1> QED
  BY <1>2, <1>6, <1>7, <1>8, <1>9, <1>10

\* The loss of a socket keeps the invariant.
LEMMA BreakInv == ASSUME Inv, NEW i \in Socks, Break(i) PROVE Inv'
<1> USE DEF Inv
<1>1. /\ up' = [up EXCEPT ![i] = FALSE]
      /\ UNCHANGED <<c2s, s2c, clientVars, serverVars>>
  BY DEF Break
<1>2. /\ up' \in [Socks -> BOOLEAN]
      /\ \A k \in Socks : up'[k] => up[k]
  BY <1>1 DEF TypeOK
<1>3. current \in Socks
  BY DEF TypeOK
<1>4. TypeOK' /\ ExactlyOnceInOrder' /\ FramesInv'
  BY <1>1, <1>2
     DEF TypeOK, ExactlyOnceInOrder, FramesInv, clientVars, serverVars
<1>5. FreshInv' /\ WriterInv'
  BY <1>1 DEF FreshInv, Untouched, Unhandled, WriterInv, clientVars, serverVars
<1>6. HelloInv'
  BY <1>1 DEF HelloInv, Unanswered, Unhandled, clientVars, serverVars
<1>7. ActsInv'
  BY <1>1 DEF ActsInv, Unanswered, Unhandled, clientVars, serverVars
<1>8. ToClientInv'
  BY <1>1, <1>2, <1>3 DEF ToClientInv, clientVars, serverVars
<1>9. ToServerInv'
  BY <1>1 DEF ToServerInv, Held, clientVars, serverVars
<1>10. CurrentInv'
  BY <1>1, <1>2, <1>3 DEF CurrentInv, Held, Unhandled, Hello, clientVars,
                          serverVars
<1> QED
  BY <1>4, <1>5, <1>6, <1>7, <1>8, <1>9, <1>10

\* A message of the writer keeps the invariant: it comes right after those in
\* flight on the socket it writes to.
LEMMA ServerSendInv == ASSUME Inv, ServerSend PROVE Inv'
<1> USE DEF Inv
<1>0. PICK f, q, r : /\ f = Msg(ssent + 1)
                     /\ q = s2c[current] /\ r = s2c'[current]
  OBVIOUS
<1>1. /\ live /\ ssent < MaxSSent /\ ssent' = ssent + 1
      /\ s2c' = IF wconn = 0 THEN s2c ELSE Write(s2c, wconn, <<f>>)
      /\ wconn' \in {wconn, 0}
      /\ UNCHANGED <<up, c2s, clientVars, live, rsock, readers, slot, acts,
                     detached, srecv, sgot>>
  BY <1>0 DEF ServerSend
<1>2. /\ ssent \in Nat /\ crecv \in Nat /\ current \in Socks
      /\ s2c \in [Socks -> Seq(Frames)] /\ q \in Seq(Frames)
      /\ 0 \notin Socks /\ (wconn # 0 => wconn \in Socks)
      /\ \A a \in acts : a.sock \in Socks
  BY <1>0 DEF TypeOK, Socks
<1>3. f \in Frames /\ f.t = "msg" /\ f.n = ssent + 1 /\ <<f>> \in Seq(Frames)
  <2>1. f \in Frames /\ f.t = "msg" /\ f.n = ssent + 1
    BY <1>0, <1>2 DEF Msg, Frames
  <2> QED
    BY <2>1
<1>4. /\ s2c' \in [Socks -> Seq(Frames)]
      /\ \A k \in Socks : k # wconn => s2c'[k] = s2c[k]
      /\ wconn # 0 => s2c'[wconn] = IF up[wconn] THEN s2c[wconn] \o <<f>>
                                                 ELSE s2c[wconn]
  <2>1. CASE wconn = 0
    BY <2>1, <1>1, <1>2
  <2>2. CASE wconn # 0
    <3>1. /\ s2c' = Write(s2c, wconn, <<f>>) /\ wconn \in Socks
          /\ s2c \in [Socks -> Seq(Frames)] /\ <<f>> \in Seq(Frames)
      BY <2>2, <1>1, <1>2, <1>3
    <3>2. PICK g : g = <<f>>
      OBVIOUS
    <3> QED
      BY <3>1, <3>2, WriteElements
  <2> QED
    BY <2>1, <2>2
<1>5. \/ r = q /\ ~(wconn = current /\ up[current])
      \/ r = q \o <<f>> /\ wconn = current /\ up[current]
  BY <1>0, <1>2, <1>4
<1>6. TypeOK' /\ FramesInv'
  <2>1. ssent' \in 0 .. MaxSSent
    BY <1>1, <1>2
  <2>2. sfirst' \in Nat
    BY DEF ServerSend, Pushed, TypeOK
  <2> QED
    BY <2>1, <2>2, <1>1, <1>4 DEF TypeOK, FramesInv, clientVars
<1>7. ExactlyOnceInOrder'
  BY <1>1, <1>2 DEF ExactlyOnceInOrder, clientVars
<1>8. FreshInv'
  <2> SUFFICES ASSUME NEW i \in Socks, i > current PROVE Untouched(i)'
    BY <1>1 DEF FreshInv, clientVars
  <2>1. Untouched(i)
    BY DEF FreshInv
  <2> QED
    BY <2>1, <1>1, <1>2, <1>4 DEF Untouched, Unhandled
<1>9. HelloInv'
  <2> SUFFICES ASSUME NEW i \in Socks, NEW j \in 1 .. Len(c2s[i]),
                      c2s[i][j].t = "hello"
               PROVE  /\ j = 1 /\ Unanswered(i, c2s[i][j].n)'
                      /\ \A a \in acts' : a.sock # i
    BY <1>1 DEF HelloInv
  <2>1. j = 1 /\ Unanswered(i, c2s[i][j].n) /\ \A a \in acts : a.sock # i
    BY DEF HelloInv
  <2> QED
    BY <2>1, <1>1, <1>2, <1>4 DEF Unanswered, Unhandled, clientVars
<1>10. ActsInv' /\ WriterInv'
  <2>1. ASSUME NEW a \in acts PROVE Unanswered(a.sock, a.received)'
    <3>1. Unanswered(a.sock, a.received)
      BY DEF ActsInv
    <3> QED
      BY <3>1, <1>1, <1>2, <1>4 DEF Unanswered, Unhandled, clientVars
  <2> QED
    BY <2>1, <1>1 DEF ActsInv, WriterInv
<1>11. ToClientInv'
  <2> SUFFICES ASSUME ~closed PROVE ToClientInv'
    BY <1>1 DEF ToClientInv, clientVars
  <2>1. CASE r = q /\ ~(wconn = current /\ up[current])
    <3>1. \A j \in 1 .. Len(q) :
              /\ q[j].t \in {"session", "resumed"} => j = 1
              /\ q[j].t = "close" => j = Len(q)
              /\ q[j].t = "msg" =>
                    q[j].n = crecv + j - Control(q) /\ q[j].n <= ssent
      BY <1>0 DEF ToClientInv
    <3>2. ASSUME NEW j \in 1 .. Len(q), q[j].t = "msg" PROVE q[j].n <= ssent'
      <4>1. q[j] \in Frames
        BY <1>2
      <4>2. q[j].n \in Nat
        BY <4>1, <3>2 DEF Frames
      <4> QED
        BY <4>2, <3>1, <3>2, <1>1, <1>2
    <3>3. ~(wconn' = current /\ up[current])
      BY <2>1, <1>1, <1>2
    <3> QED
      BY <3>1, <3>2, <3>3, <2>1, <1>0, <1>1 DEF ToClientInv, clientVars
  <2>2. CASE r = q \o <<f>> /\ wconn = current /\ up[current]
    <3>1. PICK n \in Nat : n = Len(q)
      BY <1>2
    <3>2. PICK c \in {0, 1} : c = Control(q)
      BY DEF Control
    <3>3. /\ \A j \in 1 .. n :
                /\ q[j].t \in {"session", "resumed"} => j = 1
                /\ q[j].t # "close"
                /\ q[j].t = "msg" => q[j].n = crecv + j - c /\ q[j].n <= ssent
          /\ crecv + n - c = ssent
      BY <3>1, <3>2, <2>2, <1>0, <1>1 DEF ToClientInv, HasType
    <3>4. /\ Len(r) = n + 1 /\ r[n + 1] = f
          /\ \A j \in 1 .. n : r[j] = q[j]
      BY <3>1, <2>2, <1>2, <1>3, OneMore
    <3>5. Control(r) = c
      <4>1. CASE n = 0
        <5>1. q = <<>>
          BY <4>1, <3>1, <1>2, EmptyQueue
        <5>2. c = 0
          BY <5>1, <3>2 DEF Control
        <5>3. r[1].t = "msg"
          BY <4>1, <3>4, <1>3
        <5> QED
          BY <5>2, <5>3 DEF Control
      <4>2. CASE n > 0
        <5>1. r[1] = q[1] /\ q # <<>> /\ r # <<>>
          BY <4>2, <3>1, <3>4
        <5> QED
          BY <5>1, <3>2 DEF Control
      <4> QED
        BY <4>1, <4>2
    <3>6. ASSUME NEW j \in 1 .. n + 1
          PROVE  /\ r[j].t \in {"session", "resumed"} => j = 1
                 /\ r[j].t # "close"
                 /\ r[j].t = "msg" => r[j].n = crecv + j - c /\ r[j].n <= ssent'
      <4>1. CASE j \in 1 .. n
        <5>1. r[j] = q[j] /\ q[j] \in Frames
          BY <4>1, <3>1, <3>4, <1>2
        <5>2. r[j].t = "msg" => r[j].n \in Nat
          BY <5>1 DEF Frames
        <5> QED
          BY <4>1, <5>1, <5>2, <3>3, <1>1, <1>2
      <4>2. CASE j = n + 1
        <5>1. r[j].t = "msg" /\ r[j].n = ssent + 1
          BY <4>2, <3>4, <1>3
        <5>2. ssent + 1 = crecv + j - c
          BY <4>2, <3>3, <1>2
        <5> QED
          BY <5>1, <5>2, <1>1, <1>2
      <4> QED
        BY <4>1, <4>2
    <3>7. ~HasType(r, "close")
      BY <3>4, <3>6 DEF HasType
    <3>8. crecv + Len(r) - Control(r) = ssent'
      BY <3>3, <3>4, <3>5, <1>1, <1>2
    <3> QED
      BY <3>4, <3>5, <3>6, <3>7, <3>8, <1>0, <1>1 DEF ToClientInv, clientVars
  <2> QED
    BY <2>1, <2>2, <1>5
<1>12. ToServerInv'
  BY <1>1 DEF ToServerInv, Held, clientVars
<1>13. CurrentInv'
  <2>1. r # <<>> /\ r[1].t = "resumed" => q # <<>> /\ q[1] = r[1]
    <3>1. CASE r = q
      BY <3>1
    <3>2. CASE r = q \o <<f>> /\ q = <<>>
      <4>1. r = <<f>>
        BY <3>2, <1>3
      <4> QED
        BY <4>1, <1>3
    <3>3. CASE r = q \o <<f>> /\ q # <<>>
      BY <3>3, <1>2, <1>3
    <3> QED
      BY <3>1, <3>2, <3>3, <1>5
  <2> QED
    BY <2>1, <1>0, <1>1 DEF CurrentInv, Held, Unhandled, Hello, clientVars
<1> QED
  BY <1>6, <1>7, <1>8, <1>9, <1>10, <1>11, <1>12, <1>13

\* Reading from a socket, of whatever generation, keeps the invariant.
LEMMA ReaderReadInv == ASSUME Inv, NEW i \in Socks, ReaderRead(i) PROVE Inv'
<1> USE DEF Inv
<1>0. PICK q, r : q = c2s[i] /\ r = c2s'[i]
  OBVIOUS
<1>1. /\ live /\ i \in readers /\ slot = <<>>
      /\ UNCHANGED <<up, s2c, clientVars, live, wconn, rsock, acts, detached,
                     srecv, ssent, sfirst, sgot>>
      /\ readers' \subseteq readers
      /\ slot' # <<>> /\ slot'[1].sock = i
      /\ slot'[1].f.t # "close" => readers' = readers
      /\ readers \ {i} \subseteq readers'
  BY DEF ReaderRead
<1>2. /\ c2s \in [Socks -> Seq(Frames)] /\ q \in Seq(Frames)
      /\ current \in Socks /\ rsock \in Socks /\ srecv \in Nat
  BY <1>0 DEF TypeOK
<1>3. \A j \in 1 .. Len(q) : q[j].t # "hello"
  BY <1>0, <1>1 DEF HelloInv, Unanswered
<1>4. \A k : Unhandled(k)' => k = i
  BY <1>1 DEF Unhandled
<1>5. \A k : Held(k) = 0
  BY <1>1 DEF Held
<1>6. \A k : k # i => Held(k)' = 0
  BY <1>1 DEF Held
<1>7. \/ /\ q # <<>> /\ slot' = <<[sock |-> i, f |-> q[1]]>>
         /\ q[1] \in Frames /\ Len(q) \in Nat /\ Len(q) >= 1
         /\ r \in Seq(Frames) /\ Len(r) = Len(q) - 1
         /\ \A j \in 1 .. Len(q) - 1 : r[j] = q[j + 1]
         /\ c2s' = [c2s EXCEPT ![i] = r]
      \/ /\ ~up[i] /\ slot' = <<[sock |-> i, f |-> Close(Broken)]>>
         /\ c2s' = c2s /\ r = q
  <2>1. CASE /\ q # <<>> /\ slot' = <<[sock |-> i, f |-> Head(q)]>>
             /\ c2s' = [c2s EXCEPT ![i] = Tail(q)]
    <3>1. r = Tail(q)
      BY <2>1, <1>0, <1>2
    <3> QED
      BY <2>1, <3>1, <1>2, TailElements
  <2> QED
    BY <2>1, <1>0 DEF ReaderRead
<1>8. /\ c2s' \in [Socks -> Seq(Frames)]
      /\ \A k \in Socks : k # i => c2s'[k] = c2s[k]
  BY <1>2, <1>7
<1>9. /\ Len(q) \in Nat /\ Len(r) \in Nat /\ Len(r) <= Len(q)
      /\ \A j \in 1 .. Len(r) :
            /\ r[j].t \in {"msg", "close"}
            /\ r[j].t = "close" => j = Len(r)
            /\ \E k \in 1 .. Len(q) : r[j] = q[k]
  <2>0. \A j \in 1 .. Len(q) : /\ q[j].t \in {"msg", "close"}
                               /\ q[j].t = "close" => j = Len(q)
    <3>1. Ordered(q)
      BY <1>0 DEF FramesInv
    <3> QED
      BY <3>1, <1>3 DEF Ordered
  <2>1. CASE r = q
    BY <2>0, <2>1, <1>2
  <2>2. CASE /\ Len(q) \in Nat /\ Len(q) >= 1 /\ Len(r) = Len(q) - 1
             /\ \A j \in 1 .. Len(q) - 1 : r[j] = q[j + 1]
    <3>1. PICK n \in Nat : n = Len(r)
      BY <2>2
    <3>2. \A j \in 1 .. n : j + 1 \in 1 .. Len(q) /\ r[j] = q[j + 1]
                            /\ (j + 1 = Len(q) => j = n)
      BY <3>1, <2>2
    <3> QED
      BY <3>1, <3>2, <2>0, <2>2
  <2> QED
    BY <2>1, <2>2, <1>7
<1>10. TypeOK'
  <2>1. Close(Broken) \in Frames
    BY DEF Close, Frames, Codes
  <2>2. slot' \in Seq([sock : Socks, f : Frames]) /\ Len(slot') <= 1
    <3>1. PICK f \in Frames : slot' = <<[sock |-> i, f |-> f]>>
      BY <2>1, <1>7
    <3>2. [sock |-> i, f |-> f] \in [sock : Socks, f : Frames]
      OBVIOUS
    <3> QED
      BY <3>1, <3>2
  <2> QED
    BY <2>2, <1>1, <1>8 DEF TypeOK, clientVars
<1>11. ExactlyOnceInOrder'
  BY <1>1 DEF ExactlyOnceInOrder, clientVars
<1>12. FramesInv'
  <2> SUFFICES ASSUME NEW k \in Socks PROVE Ordered(c2s'[k])
    BY DEF FramesInv
  <2>1. CASE k # i
    BY <2>1, <1>8 DEF FramesInv
  <2>2. CASE k = i
    BY <2>2, <1>0, <1>9 DEF Ordered
  <2> QED
    BY <2>1, <2>2
<1>13. FreshInv'
  <2> SUFFICES ASSUME NEW k \in Socks, k > current PROVE Untouched(k)'
    BY <1>1 DEF FreshInv, clientVars
  <2>1. Untouched(k)
    BY DEF FreshInv
  <2>2. k # i
    BY <2>1, <1>1 DEF Untouched
  <2> QED
    BY <2>1, <2>2, <1>1, <1>4, <1>8 DEF Untouched
<1>14. HelloInv'
  <2> SUFFICES ASSUME NEW k \in Socks, NEW j \in 1 .. Len(c2s'[k]),
                      c2s'[k][j].t = "hello"
               PROVE  /\ j = 1 /\ Unanswered(k, c2s[k][j].n)'
                      /\ \A a \in acts' : a.sock # k
    BY DEF HelloInv
  <2>1. k # i
    BY <1>0, <1>9
  <2>2. c2s'[k] = c2s[k]
    BY <2>1, <1>8
  <2>3. j = 1 /\ Unanswered(k, c2s[k][j].n) /\ \A a \in acts : a.sock # k
    BY <2>2 DEF HelloInv
  <2> QED
    BY <2>1, <2>2, <2>3, <1>1, <1>4 DEF Unanswered, clientVars
<1>15. ActsInv' /\ WriterInv'
  <2>1. ASSUME NEW a \in acts PROVE Unanswered(a.sock, a.received)'
    <3>1. Unanswered(a.sock, a.received) /\ a.sock \in Socks
      BY DEF ActsInv, TypeOK
    <3>2. a.sock # i
      BY <3>1, <1>1 DEF Unanswered
    <3>3. c2s'[a.sock] = c2s[a.sock]
      BY <3>1, <3>2, <1>8
    <3> QED
      BY <3>1, <3>2, <3>3, <1>1, <1>4 DEF Unanswered, clientVars
  <2> QED
    BY <2>1, <1>1 DEF ActsInv, WriterInv
<1>16. ToClientInv'
  BY <1>1 DEF ToClientInv, clientVars
<1>17. i = rsock => \A j \in 1 .. Len(q) :
          q[j].t = "msg" => q[j].n = srecv + j /\ q[j].n <= csent
  <2> SUFFICES ASSUME i = rsock, NEW j \in 1 .. Len(q), q[j].t = "msg"
               PROVE  q[j].n = srecv + j /\ q[j].n <= csent
    OBVIOUS
  <2>1. q[j].n = srecv + 0 + j /\ q[j].n <= csent
    BY <1>0, <1>1, <1>5 DEF ToServerInv
  <2> QED
    BY <2>1, <1>2, <1>9
<1>18. ToServerInv'
  <2>1. CASE i # rsock
    <3>1. c2s'[rsock] = c2s[rsock] /\ Held(rsock) = 0 /\ Held(rsock)' = 0
      BY <2>1, <1>1, <1>2, <1>5, <1>6, <1>8
    <3> QED
      BY <3>1, <1>1 DEF ToServerInv, clientVars
  <2>2. CASE i = rsock /\ slot'[1].f.t = "close" /\ (r = q \/ Len(r) = 0)
    <3>1. Held(rsock)' = 0
      BY <2>2, <1>1 DEF Held
    <3>2. \A j \in 1 .. Len(r) :
             r[j].t = "msg" => r[j].n = srecv + 0 + j /\ r[j].n <= csent
      <4>1. \A j \in 1 .. Len(q) : srecv + 0 + j = srecv + j
        BY <1>2, <1>9
      <4> QED
        BY <4>1, <2>2, <1>17
    <3> QED
      BY <3>1, <3>2, <2>2, <1>0, <1>1 DEF ToServerInv, clientVars
  <2>3. CASE /\ i = rsock /\ slot'[1].f = q[1] /\ q[1].t = "msg"
             /\ Len(q) \in Nat /\ Len(q) >= 1 /\ Len(r) = Len(q) - 1
             /\ \A j \in 1 .. Len(q) - 1 : r[j] = q[j + 1]
    <3>1. Held(rsock)' = 1
      BY <2>3, <1>1 DEF Held
    <3>2. q[1].n = srecv + 1 /\ srecv < csent
      <4>1. q[1].n = srecv + 1 /\ q[1].n <= csent
        BY <2>3, <1>17
      <4>2. csent \in Nat
        BY DEF TypeOK
      <4> QED
        BY <4>1, <4>2, <1>2
    <3>3. ASSUME NEW j \in 1 .. Len(r), r[j].t = "msg"
          PROVE  r[j].n = srecv + 1 + j /\ r[j].n <= csent
      <4>1. j + 1 \in 1 .. Len(q) /\ r[j] = q[j + 1]
        BY <2>3
      <4>2. r[j].n = srecv + (j + 1) /\ r[j].n <= csent
        BY <4>1, <3>3, <2>3, <1>17
      <4>3. srecv + (j + 1) = srecv + 1 + j
        BY <1>2, <1>9
      <4> QED
        BY <4>2, <4>3
    <3> QED
      BY <3>1, <3>2, <3>3, <2>3, <1>0, <1>1 DEF ToServerInv, clientVars
  <2> QED
    <3>1. ASSUME i = rsock, ~up[i], r = q, slot'[1].f = Close(Broken)
          PROVE  slot'[1].f.t = "close"
      BY <3>1 DEF Close
    <3>2. ASSUME q # <<>>, Len(q) \in Nat, Len(q) >= 1, Len(r) = Len(q) - 1,
                 slot'[1].f = q[1], q[1].t # "msg"
          PROVE  slot'[1].f.t = "close" /\ Len(r) = 0
      <4>1. Ordered(q) /\ 1 \in 1 .. Len(q)
        BY <3>2, <1>0 DEF FramesInv
      <4>2. q[1].t = "close" /\ 1 = Len(q)
        BY <4>1, <3>2, <1>3 DEF Ordered
      <4> QED
        BY <4>2, <3>2
    <3> QED
      BY <3>1, <3>2, <2>1, <2>2, <2>3, <1>7
<1>19. CurrentInv'
  <2> SUFFICES ASSUME ~closed, wired PROVE CurrentInv'
    BY <1>1 DEF CurrentInv, clientVars
  <2>1. CASE i # current
    <3>1. c2s'[current] = c2s[current] /\ ~Unhandled(current)'
          /\ (current \in readers => current \in readers')
      <4>1. c2s'[current] = c2s[current]
        BY <2>1, <1>2, <1>8
      <4>2. ~Unhandled(current)'
        BY <2>1, <1>1 DEF Unhandled, clientVars
      <4> QED
        BY <4>1, <4>2, <2>1, <1>1
    <3>2. rsock = current => Held(rsock)' = Held(rsock)
      BY <2>1, <1>1 DEF Held
    <3> QED
      BY <3>1, <3>2, <1>1 DEF CurrentInv, Hello, clientVars
  <2>2. CASE i = current
    <3>1. \A j \in 1 .. Len(q) : q[j].t = "msg"
      <4>1. ~HasType(q, "close") /\ Ordered(q)
        BY <2>2, <1>0 DEF CurrentInv, FramesInv
      <4> QED
        BY <4>1, <1>3 DEF HasType, Ordered
    <3>2. ~HasType(r, "close")
      BY <3>1, <1>9 DEF HasType
    <3>3. resuming => q = <<>>
      <4>1. q # <<Hello(crecv)>>
        <5> SUFFICES ASSUME q = <<Hello(crecv)>> PROVE FALSE
          OBVIOUS
        <5>1. 1 \in 1 .. Len(q) /\ q[1].t = "hello"
          BY DEF Hello
        <5> QED
          BY <5>1, <1>3
      <4> QED
        BY <4>1, <2>2, <1>0 DEF CurrentInv
    <3>4. CASE ~up[i]
      <4>1. resuming => slot'[1].f.t = "close" /\ r = <<>>
        BY <3>3, <1>7 DEF Close
      <4> QED
        BY <4>1, <3>2, <3>4, <2>2, <1>0, <1>1 DEF CurrentInv, Hello, clientVars
    <3>5. CASE up[i]
      <4>1. /\ slot'[1].f = q[1] /\ Len(q) \in Nat /\ Len(q) >= 1
            /\ Len(r) = Len(q) - 1 /\ q # <<>>
        BY <3>5, <1>7
      <4>2. slot'[1].f.t = "msg" /\ ~resuming
        BY <4>1, <3>1, <3>3
      <4>3. rsock = current => Held(rsock)' = 1
        BY <4>2, <2>2, <1>1 DEF Held
      <4>4. rsock = current => srecv + 1 + Len(r) = csent
        <5>1. rsock = current => srecv + 0 + Len(q) = csent
          BY <4>2, <3>5, <2>2, <1>0, <1>1, <1>5 DEF CurrentInv
        <5>2. srecv + 1 + Len(r) = srecv + 0 + Len(q)
          BY <4>1, <1>2
        <5> QED
          BY <5>1, <5>2
      <4>5. readers' = readers
        BY <4>2, <1>1
      <4> QED
        BY <4>2, <4>3, <4>4, <4>5, <3>2, <2>2, <1>0, <1>1
           DEF CurrentInv, clientVars
    <3> QED
      BY <3>4, <3>5
  <2> QED
    BY <2>1, <2>2
<1> QED
  BY <1>10, <1>11, <1>12, <1>13, <1>14, <1>15, <1>16, <1>18, <1>19

\* Taking a handshake keeps the invariant: its socket is not used for
\* anything until the request is answered.
LEMMA ResumeClientInv ==
    ASSUME Inv, NEW i \in Socks, ResumeClient(i) PROVE Inv'
<1> USE DEF Inv
<1>0. PICK q, r : q = c2s[i] /\ r = c2s'[i]
  OBVIOUS
<1>1. /\ q # <<>> /\ Head(q).t = "hello"
      /\ c2s' = [c2s EXCEPT ![i] = Tail(q)]
      /\ UNCHANGED <<up, clientVars, live, wconn, rsock, readers, slot,
                     detached, srecv, ssent, sfirst, sgot>>
  BY <1>0 DEF ResumeClient
<1>2. /\ c2s \in [Socks -> Seq(Frames)] /\ q \in Seq(Frames)
      /\ s2c \in [Socks -> Seq(Frames)]
      /\ current \in Socks /\ rsock \in Socks
      /\ \A a \in acts : a.sock \in Socks
  BY <1>0 DEF TypeOK
<1>3. /\ r = Tail(q) /\ r \in Seq(Frames) /\ Head(q) = q[1] /\ q[1] \in Frames
      /\ Len(q) \in Nat /\ Len(q) >= 1 /\ Len(r) = Len(q) - 1
      /\ \A j \in 1 .. Len(q) - 1 : r[j] = q[j + 1]
  <2>1. r = Tail(q)
    BY <1>0, <1>1, <1>2
  <2> QED
    BY <2>1, <1>1, <1>2, TailElements
<1>4. /\ c2s' \in [Socks -> Seq(Frames)]
      /\ \A k \in Socks : k # i => c2s'[k] = c2s[k]
  BY <1>1, <1>2, <1>3
<1>5. /\ Unanswered(i, q[1].n)
      /\ \A a \in acts : a.sock # i
      /\ \A j \in 1 .. Len(q) : q[j].t = "hello" => j = 1
  <2>1. 1 \in 1 .. Len(q) /\ q[1].t = "hello"
    BY <1>1, <1>3
  <2> QED
    BY <2>1, <1>0 DEF HelloInv
<1>6. /\ i # rsock /\ i # wconn /\ i \notin readers /\ i <= current
      /\ s2c[i] = <<>> /\ ~Unhandled(i) /\ ~HasType(q, "msg")
      /\ i = current => q[1].n = crecv /\ (resuming \/ closed)
  BY <1>0, <1>5 DEF Unanswered
<1>7. \A j \in 1 .. Len(r) : /\ r[j].t # "hello" /\ r[j].t # "msg"
                             /\ r[j].t \in {"hello", "msg", "close"}
                             /\ r[j].t = "close" => j = Len(r)
  <2>1. Ordered(q)
    BY <1>0 DEF FramesInv
  <2>a. r \in Seq(Frames)
    BY <1>3
  <2>2. PICK n \in Nat : n = Len(r)
    BY <2>a
  <2>3. \A j \in 1 .. n : j + 1 \in 1 .. Len(q) /\ j + 1 # 1 /\ r[j] = q[j + 1]
                          /\ (j + 1 = Len(q) => j = n)
    BY <2>2, <1>3
  <2>4. \A j \in 1 .. Len(q) : /\ q[j].t # "msg"
                               /\ q[j].t \in {"hello", "msg", "close"}
                               /\ q[j].t = "close" => j = Len(q)
    BY <2>1, <1>6 DEF Ordered, HasType
  <2> QED
    BY <2>2, <2>3, <2>4, <1>5
<1>8. /\ s2c' \in [Socks -> Seq(Frames)]
      /\ \A k \in Socks : k # i => s2c'[k] = s2c[k]
      /\ \/ live /\ s2c' = s2c
         \/ ~live /\ s2c'[i] = IF up[i] THEN s2c[i] \o <<Close(NoResume)>>
                                        ELSE s2c[i]
  <2>1. CASE live
    BY <2>1, <1>2 DEF ResumeClient
  <2>2. CASE ~live
    <3>1. /\ s2c' = Write(s2c, i, <<Close(NoResume)>>) /\ NoResume \in Codes
          /\ s2c \in [Socks -> Seq(Frames)]
      BY <2>2, <1>2 DEF ResumeClient, Codes
    <3> QED
      BY <2>2, <3>1, CloseWritten
  <2> QED
    BY <2>1, <2>2
<1>9. \/ acts' = acts
      \/ live /\ acts' = acts \cup {[sock |-> i, received |-> q[1].n]}
  BY <1>0, <1>3 DEF ResumeClient
<1>10. TypeOK' /\ ExactlyOnceInOrder'
  <2>1. q[1].n \in Nat
    BY <1>1, <1>3 DEF Frames
  <2>2. acts' \subseteq [sock : Socks, received : Nat]
    BY <2>1, <1>9 DEF TypeOK
  <2> QED
    BY <2>2, <1>1, <1>4, <1>8 DEF TypeOK, ExactlyOnceInOrder, clientVars
<1>11. FramesInv'
  <2> SUFFICES ASSUME NEW k \in Socks PROVE Ordered(c2s'[k])
    BY DEF FramesInv
  <2>1. CASE k # i
    BY <2>1, <1>4 DEF FramesInv
  <2>2. CASE k = i
    BY <2>2, <1>0, <1>7 DEF Ordered
  <2> QED
    BY <2>1, <2>2
<1>12. FreshInv'
  <2> SUFFICES ASSUME NEW k \in Socks, k > current PROVE Untouched(k)'
    BY <1>1 DEF FreshInv, clientVars
  <2>1. Untouched(k)
    BY DEF FreshInv
  <2>2. k # i
    BY <1>2, <1>6 DEF Socks
  <2> QED
    BY <2>1, <2>2, <1>1, <1>4, <1>8, <1>9 DEF Untouched, Unhandled
<1>13. HelloInv'
  <2> SUFFICES ASSUME NEW k \in Socks, NEW j \in 1 .. Len(c2s'[k]),
                      c2s'[k][j].t = "hello"
               PROVE  /\ j = 1 /\ Unanswered(k, c2s[k][j].n)'
                      /\ \A a \in acts' : a.sock # k
    BY DEF HelloInv
  <2>1. k # i
    BY <1>0, <1>7
  <2>2. c2s'[k] = c2s[k] /\ s2c'[k] = s2c[k]
    BY <2>1, <1>4, <1>8
  <2>3. j = 1 /\ Unanswered(k, c2s[k][j].n) /\ \A a \in acts : a.sock # k
    BY <2>2 DEF HelloInv
  <2> QED
    BY <2>1, <2>2, <2>3, <1>1, <1>9 DEF Unanswered, Unhandled, clientVars
<1>14. ActsInv' /\ WriterInv'
  <2>1. ASSUME NEW a \in acts PROVE Unanswered(a.sock, a.received)'
    <3>1. Unanswered(a.sock, a.received) /\ a.sock \in Socks /\ a.sock # i
      BY <1>2, <1>5 DEF ActsInv
    <3>2. c2s'[a.sock] = c2s[a.sock] /\ s2c'[a.sock] = s2c[a.sock]
      BY <3>1, <1>4, <1>8
    <3> QED
      BY <3>1, <3>2, <1>1 DEF Unanswered, Unhandled, clientVars
  <2>2. live => Unanswered(i, q[1].n)'
    <3>1. ~HasType(r, "msg")
      BY <1>7 DEF HasType
    <3> QED
      BY <3>1, <1>0, <1>1, <1>6, <1>8 DEF Unanswered, Unhandled, clientVars
  <2> QED
    BY <2>1, <2>2, <1>1, <1>5, <1>9 DEF ActsInv, WriterInv
<1>15. ToClientInv'
  <2>1. CASE live
    BY <2>1, <1>1, <1>8 DEF ToClientInv, clientVars
  <2>2. CASE ~live
    <3>1. i = current => ~HasType(s2c[current], "close")
      BY <1>6 DEF HasType
    <3>2. NoResume \in Codes
      BY DEF Codes
    <3> QED
      BY <3>1, <3>2, <2>2, <1>1, <1>2, <1>8, CloseSent DEF clientVars
  <2> QED
    BY <2>1, <2>2
<1>16. ToServerInv'
  <2>1. c2s'[rsock] = c2s[rsock]
    BY <1>2, <1>4, <1>6
  <2> QED
    BY <2>1, <1>1 DEF ToServerInv, Held, clientVars
<1>17. CurrentInv'
  <2> SUFFICES ASSUME ~closed, wired PROVE CurrentInv'
    BY <1>1 DEF CurrentInv, clientVars
  <2>1. CASE i # current
    <3>1. c2s'[current] = c2s[current] /\ s2c'[current] = s2c[current]
      BY <2>1, <1>2, <1>4, <1>8
    <3> QED
      BY <3>1, <1>1 DEF CurrentInv, Held, Unhandled, Hello, clientVars
  <2>2. CASE i = current
    <3>1. resuming /\ q \in {<<>>, <<Hello(crecv)>>}
      BY <2>2, <1>0, <1>6 DEF CurrentInv
    <3>2. r = <<>>
      <4>1. Len(q) = 1
        BY <3>1, <1>1
      <4>2. Len(r) = 0
        BY <4>1, <1>3
      <4> QED
        BY <4>2, <1>3, EmptyQueue
    <3>3. ~HasType(r, "close")
      BY <3>2 DEF HasType
    <3> QED
      BY <3>1, <3>2, <3>3, <2>2, <1>0, <1>1, <1>6
         DEF CurrentInv, Unhandled, clientVars
  <2> QED
    BY <2>1, <2>2
<1> QED
  BY <1>10, <1>11, <1>12, <1>13, <1>14, <1>15, <1>16, <1>17

\* Attaching a new socket keeps the invariant: the announced count is that of
\* the messages handled, the replay begins right after what the client has,
\* and what older readers still deliver is no longer of the current socket.
LEMMA AttachInv ==
    ASSUME Inv, NEW a \in acts, LoopResume(a), Kept(sfirst, ssent, a.received)
    PROVE  Inv'
<1> USE DEF Inv
<1>0. PICK i, ack, rest, q, r :
         /\ i = a.sock /\ ack = a.received
         /\ rest = <<Resumed(srecv)>> \o After(ssent, ack)
         /\ q = s2c[current] /\ r = s2c'[current]
  OBVIOUS
<1>1. /\ live /\ acts' = acts \ {a}
      /\ up' = [j \in Socks |-> up[j] /\ j # wconn]
      /\ s2c' = Write(s2c, i, rest)
      /\ wconn' \in {i, 0} /\ (wconn' = 0 => ~up[i])
      /\ rsock' = i /\ readers' = readers \cup {i} /\ detached' = FALSE
      /\ UNCHANGED <<c2s, clientVars, live, slot, srecv, ssent, sfirst, sgot>>
  <2>1. Attach(i, ack) /\ i \in Socks
    BY <1>0 DEF LoopResume, TypeOK
  <2>2. 0 \notin Socks
    BY DEF Socks
  <2>3. wconn' \in {i, 0} /\ (wconn' = 0 => ~up[i])
    BY <2>1, <2>2 DEF Attach
  <2> QED
    BY <2>1, <2>3, <1>0 DEF LoopResume, Attach
<1>2. /\ i \in Socks /\ ack \in Nat /\ current \in Socks
      /\ crecv \in Nat /\ ssent \in Nat /\ srecv \in Nat
      /\ s2c \in [Socks -> Seq(Frames)] /\ c2s \in [Socks -> Seq(Frames)]
      /\ \A b \in acts : b.sock \in Socks
  BY <1>0 DEF TypeOK
<1>3. /\ Unanswered(i, ack)
      /\ \A b \in acts \ {a} : b.sock # i
  BY <1>0 DEF ActsInv
<1>4. /\ i \notin readers /\ i # wconn /\ i # rsock /\ i <= current
      /\ s2c[i] = <<>> /\ ~Unhandled(i) /\ ~HasType(c2s[i], "msg")
      /\ i = current => ack = crecv /\ (resuming \/ closed)
  BY <1>3 DEF Unanswered
<1>5. ack <= ssent
  <2>1. ~(ack >= ssent + 1)
    BY <1>0 DEF Kept
  <2> QED
    BY <2>1, <1>2
<1>6. /\ rest \in Seq(Frames) /\ Len(rest) = 1 + (ssent - ack)
      /\ rest[1].t = "resumed" /\ rest[1].n = srecv
      /\ \A j \in 1 .. ssent - ack :
            rest[1 + j].t = "msg" /\ rest[1 + j].n = ack + j
  <2>1. PICK s, u : s = Resumed(srecv) /\ u = After(ssent, ack)
    OBVIOUS
  <2>2. s \in Frames /\ s.t = "resumed" /\ s.n = srecv
    BY <2>1, <1>2 DEF Resumed, Frames
  <2>3. /\ u \in Seq(Frames)
        /\ Len(u) = IF ssent < ack + 1 THEN 0 ELSE ssent - (ack + 1) + 1
        /\ \A j \in 1 .. Len(u) : u[j] = Msg(ack + 1 + j - 1)
    <3>1. ack + 1 \in Nat
      BY <1>2
    <3> QED
      BY <2>1, <3>1, <1>2, RunElements DEF After
  <2>4. Len(u) = ssent - ack /\ ssent - ack \in Nat
    BY <2>3, <1>2, <1>5
  <2>5. \A j \in 1 .. ssent - ack : u[j].t = "msg" /\ u[j].n = ack + j
    <3> SUFFICES ASSUME NEW j \in 1 .. ssent - ack
                 PROVE  u[j].t = "msg" /\ u[j].n = ack + j
      OBVIOUS
    <3>1. u[j] = Msg(ack + 1 + j - 1)
      BY <2>3, <2>4
    <3>2. ack + 1 + j - 1 = ack + j
      BY <2>4, <1>2
    <3> QED
      BY <3>1, <3>2 DEF Msg
  <2>6. <<s>> \in Seq(Frames) /\ Len(<<s>>) = 1 /\ <<s>>[1] = s
    BY <2>2
  <2>7. /\ <<s>> \o u \in Seq(Frames)
        /\ Len(<<s>> \o u) = 1 + Len(u)
        /\ (<<s>> \o u)[1] = s
        /\ \A j \in 1 .. Len(u) : (<<s>> \o u)[1 + j] = u[j]
    BY <2>2, <2>3
  <2>8. rest = <<s>> \o u
    BY <2>1, <1>0
  <2> QED
    BY <2>2, <2>4, <2>5, <2>7, <2>8
<1>7. /\ s2c' \in [Socks -> Seq(Frames)]
      /\ \A k \in Socks : k # i => s2c'[k] = s2c[k]
      /\ s2c'[i] = IF up[i] THEN rest ELSE <<>>
  <2>1. /\ s2c' \in [Socks -> Seq(Frames)]
        /\ \A k \in Socks : k # i => s2c'[k] = s2c[k]
        /\ s2c'[i] = IF up[i] THEN s2c[i] \o rest ELSE s2c[i]
    <3>1. /\ s2c' = Write(s2c, i, rest) /\ i \in Socks
          /\ rest \in Seq(Frames) /\ s2c \in [Socks -> Seq(Frames)]
      BY <1>1, <1>2, <1>6
    <3> QED
      BY <3>1, WriteElements
  <2>2. <<>> \o rest = rest
    BY <1>6
  <2> QED
    BY <2>1, <2>2, <1>4
<1>8. up' \in [Socks -> BOOLEAN] /\ up'[i] = up[i]
  BY <1>1, <1>2, <1>4 DEF TypeOK
<1>9. TypeOK' /\ ExactlyOnceInOrder' /\ FramesInv'
  BY <1>1, <1>2, <1>7, <1>8
     DEF TypeOK, ExactlyOnceInOrder, FramesInv, clientVars
<1>10. FreshInv'
  <2> SUFFICES ASSUME NEW k \in Socks, k > current PROVE Untouched(k)'
    BY <1>1 DEF FreshInv, clientVars
  <2>1. Untouched(k)
    BY DEF FreshInv
  <2>2. k # i /\ k # 0
    <3>1. i <= current /\ i \in Socks /\ current \in Socks
      BY <1>2, <1>4
    <3> QED
      BY <3>1 DEF Socks
  <2> QED
    BY <2>1, <2>2, <1>1, <1>7 DEF Untouched, Unhandled
<1>11. HelloInv'
  <2> SUFFICES ASSUME NEW k \in Socks, NEW j \in 1 .. Len(c2s[k]),
                      c2s[k][j].t = "hello"
               PROVE  /\ j = 1 /\ Unanswered(k, c2s[k][j].n)'
                      /\ \A b \in acts' : b.sock # k
    BY <1>1 DEF HelloInv
  <2>1. j = 1 /\ Unanswered(k, c2s[k][j].n) /\ \A b \in acts : b.sock # k
    BY DEF HelloInv
  <2>2. k # i /\ k # 0
    <3>1. k # 0
      BY DEF Socks
    <3>2. a.sock # k
      BY <2>1
    <3> QED
      BY <3>1, <3>2, <1>0
  <2> QED
    BY <2>1, <2>2, <1>1, <1>7 DEF Unanswered, Unhandled, clientVars
<1>12. ActsInv' /\ WriterInv'
  <2>1. ASSUME NEW b \in acts' PROVE Unanswered(b.sock, b.received)'
    <3>1. Unanswered(b.sock, b.received) /\ b.sock \in Socks /\ b.sock # i
      BY <1>1, <1>2, <1>3 DEF ActsInv
    <3>2. b.sock # 0
      BY <3>1 DEF Socks
    <3> QED
      BY <3>1, <3>2, <1>1, <1>7 DEF Unanswered, Unhandled, clientVars
  <2> QED
    BY <2>1, <1>1 DEF ActsInv, WriterInv
<1>13. ToClientInv'
  <2> SUFFICES ASSUME ~closed PROVE ToClientInv'
    BY <1>1 DEF ToClientInv, clientVars
  <2>1. CASE i # current
    <3>1. r = q /\ wconn' # current
      <4>1. current # 0
        BY <1>2 DEF Socks
      <4>2. r = q
        BY <2>1, <1>0, <1>2, <1>7
      <4>3. wconn' # current
        BY <2>1, <4>1, <1>1
      <4> QED
        BY <4>2, <4>3
    <3> QED
      BY <3>1, <1>0, <1>1 DEF ToClientInv, clientVars
  <2>2. CASE i = current /\ ~up[i]
    <3>1. r = <<>> /\ ~up'[current]
      BY <2>2, <1>0, <1>7, <1>8
    <3> QED
      BY <3>1, <1>0, <1>1 DEF ToClientInv, clientVars
  <2>3. CASE i = current /\ up[i]
    <3>1. r = rest /\ ack = crecv
      BY <2>3, <1>0, <1>4, <1>7
    <3>2. PICK n \in Nat : n = ssent - ack /\ Len(r) = 1 + n
      BY <3>1, <1>2, <1>5, <1>6
    <3>3. r # <<>> /\ Control(r) = 1
      BY <3>1, <3>2, <1>6 DEF Control
    <3>4. ASSUME NEW j \in 1 .. Len(r), j # 1
          PROVE  r[j].t = "msg" /\ r[j].n = crecv + j - 1 /\ r[j].n <= ssent
      <4>1. PICK k \in 1 .. ssent - ack : j = 1 + k
        <5>1. j - 1 \in 1 .. ssent - ack /\ j = 1 + (j - 1)
          BY <3>2, <3>4, <1>2
        <5> QED
          BY <5>1
      <4>2. r[j].t = "msg" /\ r[j].n = ack + k
        BY <4>1, <3>1, <1>6
      <4>3. ack + k = crecv + j - 1 /\ ack + k <= ssent
        BY <4>1, <3>1, <1>2
      <4> QED
        BY <4>2, <4>3
    <3>5. crecv + Len(r) - 1 = ssent
      BY <3>1, <3>2, <1>2
    <3>6. r[1].t = "resumed"
      BY <3>1, <1>6
    <3>7. ~HasType(r, "close")
      BY <3>4, <3>6 DEF HasType
    <3> QED
      BY <3>3, <3>4, <3>5, <3>6, <3>7, <1>0, <1>1 DEF ToClientInv, clientVars
  <2> QED
    BY <2>1, <2>2, <2>3
<1>14. ToServerInv'
  <2>1. Held(rsock)' = 0
    BY <1>1, <1>4 DEF Held, Unhandled
  <2>2. \A j \in 1 .. Len(c2s[i]) : c2s[i][j].t # "msg"
    BY <1>4 DEF HasType
  <2> QED
    BY <2>1, <2>2, <1>1 DEF ToServerInv
<1>15. CurrentInv'
  <2> SUFFICES ASSUME ~closed, wired PROVE CurrentInv'
    BY <1>1 DEF CurrentInv, clientVars
  <2>1. CASE i # current
    <3>1. rsock' # current'
      BY <2>1, <1>1 DEF clientVars
    <3> QED
      BY <3>1, <1>1 DEF CurrentInv, Unhandled, Hello, clientVars
  <2>2. CASE i = current
    <3>1. resuming /\ ~Unhandled(current) /\ current \in readers'
      BY <2>2, <1>1, <1>4
    <3>2. r # <<>> => r[1].n = srecv
      BY <2>2, <1>0, <1>6, <1>7
    <3> QED
      BY <3>1, <3>2, <1>0, <1>1 DEF CurrentInv, Unhandled, Hello, clientVars
  <2> QED
    BY <2>1, <2>2
<1> QED
  BY <1>9, <1>10, <1>11, <1>12, <1>13, <1>14, <1>15

(***************************************************************************)
(* The invariant holds, and what follows from it.                          *)
(***************************************************************************)
LEMMA InitInv == ASSUME Init PROVE Inv
<1> USE DEF Init
<1>1. 1 \in Socks /\ Session \in Frames /\ <<Session>> \in Seq(Frames)
      /\ Session.t = "session"
  <2>1. 1 \in Socks /\ Session \in Frames /\ Session.t = "session"
    BY DEF Socks, Session, Frames
  <2> QED
    BY <2>1
<1>2. /\ c2s \in [Socks -> Seq(Frames)] /\ s2c \in [Socks -> Seq(Frames)]
      /\ \A i \in Socks : c2s[i] = <<>> /\ Len(c2s[i]) = 0
      /\ s2c[1] = <<Session>> /\ Len(s2c[1]) = 1 /\ s2c[1][1] = Session
      /\ \A i \in Socks : i # 1 => s2c[i] = <<>>
  <2>1. <<>> \in Seq(Frames) /\ Len(<<>>) = 0
    OBVIOUS
  <2> QED
    BY <2>1, <1>1
<1>3. TypeOK
  <2>1. /\ cgot \in Seq(Nat) /\ sgot \in Seq(Nat) /\ Len(slot) = 0
        /\ slot \in Seq([sock : Socks, f : Frames])
    OBVIOUS
  <2>2. /\ crecv \in 0 .. MaxSSent /\ csent \in 0 .. MaxCSent
        /\ srecv \in 0 .. MaxCSent /\ ssent \in 0 .. MaxSSent
    OBVIOUS
  <2>3. up \in [Socks -> BOOLEAN] /\ current \in Socks /\ rsock \in Socks
        /\ wconn \in Socks \cup {0} /\ readers \subseteq Socks
    BY <1>1
  <2>4. /\ wired \in BOOLEAN /\ secret \in BOOLEAN /\ resuming \in BOOLEAN
        /\ leaving \in BOOLEAN /\ closed \in BOOLEAN /\ live \in BOOLEAN
        /\ detached \in BOOLEAN
    OBVIOUS
  <2>5. cfirst \in Nat /\ sfirst \in Nat /\ Len(slot) <= 1
        /\ acts \subseteq [sock : Socks, received : Nat]
    BY <2>1
  <2> QED
    BY <2>1, <2>2, <2>3, <2>4, <2>5, <1>2 DEF TypeOK
<1>4. ExactlyOnceInOrder
  <2>1. Len(cgot) = 0 /\ Len(sgot) = 0
    OBVIOUS
  <2> QED
    BY <2>1 DEF ExactlyOnceInOrder
<1>5. FramesInv /\ HelloInv /\ ActsInv /\ WriterInv
  BY <1>2 DEF FramesInv, Ordered, HelloInv, ActsInv, WriterInv
<1>6. FreshInv
  <2> SUFFICES ASSUME NEW i \in Socks, i > 1 PROVE Untouched(i)
    BY DEF FreshInv
  <2>1. i # 1
    BY DEF Socks
  <2> QED
    BY <2>1, <1>2 DEF Untouched, Unhandled
<1>7. ToClientInv
  <2>1. Control(s2c[1]) = 1
    BY <1>1, <1>2 DEF Control
  <2>2. ~HasType(s2c[1], "close")
    BY <1>1, <1>2 DEF HasType
  <2> QED
    BY <2>1, <2>2, <1>1, <1>2 DEF ToClientInv
<1>8. ToServerInv
  BY <1>1, <1>2 DEF ToServerInv, Held
<1>9. CurrentInv
  <2>1. ~HasType(c2s[1], "close")
    BY <1>1, <1>2 DEF HasType
  <2> QED
    BY <2>1, <1>1, <1>2 DEF CurrentInv, Held, Unhandled
<1> QED
  BY <1>3, <1>4, <1>5, <1>6, <1>7, <1>8, <1>9 DEF Inv

\* A step that changes nothing keeps the invariant.
LEMMA StutterInv == ASSUME Inv, UNCHANGED vars PROVE Inv'
<1> USE DEF Inv, vars, netVars, clientVars, serverVars
<1>1. TypeOK' /\ ExactlyOnceInOrder' /\ FramesInv'
  BY DEF TypeOK, ExactlyOnceInOrder, FramesInv
<1>2. FreshInv' /\ WriterInv'
  BY DEF FreshInv, Untouched, Unhandled, WriterInv
<1>3. HelloInv' /\ ActsInv'
  BY DEF HelloInv, ActsInv, Unanswered, Unhandled
<1>4. ToClientInv' /\ ToServerInv'
  BY DEF ToClientInv, ToServerInv, Held
<1>5. CurrentInv'
  BY DEF CurrentInv, Held, Unhandled, Hello
<1> QED
  BY <1>1, <1>2, <1>3, <1>4, <1>5

\* Every step keeps the invariant.
LEMMA NextInv == ASSUME Inv, [Next]_vars PROVE Inv'
<1>1. CASE ClientStep
  BY <1>1, ClientSendInv, ClientTimersInv, ClientSessionInv, ClientTakeInv,
     ClientResumedInv, ClientClosedInv, ClientLostInv, ClientLeaveInv
     DEF ClientStep
<1>2. CASE ServerStep
  <2>1. CASE ServerSend \/ LoopDrop \/ LoopTake
    BY <2>1, ServerSendInv, LoopDropInv, LoopTakeInv
  <2>2. CASE LoopError \/ SessionExpire \/ SessionFail
    BY <2>2, LoopErrorInv, SessionEndsInv
  <2>3. CASE \E i \in Socks : ReaderRead(i) \/ ResumeClient(i)
    BY <2>3, ReaderReadInv, ResumeClientInv
  <2>4. CASE \E a \in acts : LoopResume(a) \/ RefusePending(a)
    BY <2>4, AttachInv, ResumeGapInv, RefusePendingInv
  <2> QED
    BY <1>2, <2>1, <2>2, <2>3, <2>4 DEF ServerStep
<1>3. CASE \E i \in Socks : Break(i)
  BY <1>3, BreakInv
<1>4. CASE Over \/ UNCHANGED vars
  BY <1>4, StutterInv DEF Over
<1> QED
  BY <1>1, <1>2, <1>3, <1>4 DEF Next

\* The strengthened invariant, for any number of sockets and messages and
\* any window.
THEOREM InvHolds == Spec => []Inv
<1>1. Init => Inv
  BY InitInv
<1>2. Inv /\ [Next]_vars => Inv'
  BY NextInv
<1> QED
  BY <1>1, <1>2, PTL DEF Spec

\* Type correctness: no count of messages taken exceeds the number ever sent,
\* and the read channel never holds more than its capacity of one.
THEOREM TypeCorrect == Spec => []TypeOK
<1>1. Inv => TypeOK
  BY DEF Inv
<1> QED
  BY <1>1, InvHolds, PTL

\* Exactly once, in order: resume never loses, duplicates or reorders what
\* either side handles.
THEOREM ExactlyOnce == Spec => []ExactlyOnceInOrder
<1>1. Inv => ExactlyOnceInOrder
  BY DEF Inv
<1> QED
  BY <1>1, InvHolds, PTL

\* Nothing is lost: a connected client that has drained its socket has every
\* message the server ever sent, and the other way round.
THEOREM NothingIsMissing == Spec => []NothingMissing
<1>1. ASSUME Inv PROVE NothingMissing
  <2> SUFFICES ASSUME Connected
               PROVE  /\ s2c[current] = <<>> => crecv = ssent
                      /\ c2s[current] = <<>> /\ ~Unhandled(current)
                            => srecv = csent
    BY DEF NothingMissing
  <2>1. crecv \in Nat /\ ssent \in Nat /\ srecv \in Nat /\ csent \in Nat
    BY <1>1 DEF Inv, TypeOK
  <2>2. ASSUME s2c[current] = <<>> PROVE crecv = ssent
    <3>1. Control(s2c[current]) = 0 /\ Len(s2c[current]) = 0
      BY <2>2 DEF Control
    <3>2. crecv + Len(s2c[current]) - Control(s2c[current]) = ssent
      BY <1>1 DEF Inv, ToClientInv, Connected
    <3>3. crecv + 0 - 0 = ssent
      BY <3>1, <3>2
    <3> QED
      BY <3>3, <2>1
  <2>3. ASSUME c2s[current] = <<>>, ~Unhandled(current) PROVE srecv = csent
    <3>1. Held(rsock) = 0 /\ Len(c2s[current]) = 0
      BY <2>3 DEF Held, Unhandled, Connected
    <3>2. srecv + Held(rsock) + Len(c2s[current]) = csent
      BY <1>1 DEF Inv, CurrentInv, Connected
    <3>3. srecv + 0 + 0 = csent
      BY <3>1, <3>2
    <3> QED
      BY <3>3, <2>1
  <2> QED
    BY <2>2, <2>3
<1> QED
  BY <1>1, InvHolds, PTL

\* The server never takes the error of an abandoned connection for the loss
\* of the one that replaced it.
THEOREM DetachedReal == Spec => []DetachedIsReal
<1>1. ASSUME Inv PROVE DetachedIsReal
  BY <1>1 DEF Inv, CurrentInv, Connected, DetachedIsReal
<1> QED
  BY <1>1, InvHolds, PTL

(***************************************************************************)
(* The session implements a reliable link.                                 *)
(***************************************************************************)
linkVars == <<closed, csent, cgot, live, ssent, sgot>>

\* A step that changes neither what was sent or taken nor who is up is a
\* stutter of the link.
LEMMA LinkStutter == ASSUME UNCHANGED linkVars PROVE UNCHANGED Link!vars
  BY DEF linkVars, Link!vars

\* The client's teardown is a Down step of the link.
LEMMA LinkClientDown ==
    ASSUME ~closed, closed' = TRUE, UNCHANGED <<csent, cgot, live, ssent, sgot>>
    PROVE  Link!Next
<1>1. Link!Down("client")
  BY DEF Link!Down
<1> QED
  BY <1>1 DEF Link!Next, Link!Ends

\* The end of clientLoop is a Down step of the link.
LEMMA LinkServerDown ==
    ASSUME live, live' = FALSE, UNCHANGED <<closed, csent, cgot, ssent, sgot>>
    PROVE  Link!Next
<1>1. Link!Down("server")
  BY DEF Link!Down
<1> QED
  BY <1>1 DEF Link!Next, Link!Ends

\* Each step of the client is a step or a stutter of the link.
LEMMA LinkClientStep ==
    ASSUME Inv, ClientStep PROVE [Link!Next]_(Link!vars)
<1>1. CASE ClientSend
  <2>1. Link!Send("client")
    BY <1>1 DEF ClientSend, serverVars, Link!Send
  <2> QED
    BY <2>1 DEF Link!Next, Link!Ends
<1>2. CASE \E i \in Socks : ClientTake(i)
  <2>1. PICK i \in Socks : ClientTake(i)
    BY <1>2
  <2>2. ClientTake(i) /\ Inv'
    BY <2>1, ClientTakeInv
  <2>3. /\ cgot \in Seq(Nat) /\ cgot' = Append(cgot, Head(s2c[i]).n)
        /\ crecv' = crecv + 1 /\ ~closed
        /\ UNCHANGED <<closed, csent, live, ssent, sgot>>
    BY <2>2 DEF ClientTake, Arriving, serverVars, Inv, TypeOK
  <2>4. /\ crecv \in Nat /\ Len(cgot) = crecv /\ crecv + 1 <= ssent
        /\ ssent \in Nat
        /\ Len(cgot') = crecv + 1 /\ \A k \in 1 .. Len(cgot') : cgot'[k] = k
    <3>1. crecv \in Nat /\ ssent \in Nat /\ Len(cgot) = crecv
      BY DEF Inv, TypeOK, ExactlyOnceInOrder
    <3>2. ExactlyOnceInOrder'
      BY <2>2 DEF Inv
    <3>3. Len(cgot') = crecv' /\ crecv' <= ssent'
          /\ \A k \in 1 .. Len(cgot') : cgot'[k] = k
      BY <3>2 DEF ExactlyOnceInOrder
    <3> QED
      BY <3>1, <3>3, <2>3
  <2>5. PICK n : n = Head(s2c[i]).n
    OBVIOUS
  <2>6. cgot'[crecv + 1] = n
    BY <2>3, <2>4, <2>5
  <2>7. n = crecv + 1
    BY <2>4, <2>6
  <2>8. cgot' = Append(cgot, Len(cgot) + 1) /\ Len(cgot) < ssent
    BY <2>3, <2>4, <2>5, <2>7
  <2>9. Link!Take("client")
    BY <2>3, <2>8 DEF Link!Take, Link!Peer
  <2> QED
    BY <2>9 DEF Link!Next, Link!Ends
<1>3. CASE NextSocket /\ ~closed /\ UNCHANGED serverVars
  BY <1>3, LinkStutter DEF NextSocket, serverVars, linkVars
<1>4. CASE Gone /\ ~closed /\ UNCHANGED serverVars
  BY <1>4, LinkClientDown DEF Gone, serverVars
<1>5. CASE UNCHANGED <<closed, csent, cgot, serverVars>>
  BY <1>5, LinkStutter DEF serverVars, linkVars
<1>6. CASE ClientStall \/ ClientRetry \/ ClientGiveUp \/ ClientLeft
  BY <1>6, <1>3, <1>4 DEF ClientStall, ClientRetry, ClientGiveUp, ClientLeft
<1>7. CASE \E i \in Socks : ClientSession(i) \/ ClientResumed(i)
  <2>1. CASE \E i \in Socks : ClientSession(i)
    BY <2>1, <1>5 DEF ClientSession
  <2>2. CASE \E i \in Socks : ClientResumed(i)
    BY <2>2, <1>4, <1>5 DEF ClientResumed, Arriving, clientVars
  <2> QED
    BY <1>7, <2>1, <2>2
<1>8. CASE ClientLost \/ \E i \in Socks : ClientClosed(i)
  <2>1. /\ ~closed /\ UNCHANGED serverVars
        /\ NextSocket \/ Gone \/ UNCHANGED clientVars
    BY <1>8 DEF ClientLost, ClientClosed, Arriving, SocketClosed
  <2> QED
    BY <2>1, <1>3, <1>4, <1>5 DEF clientVars
<1>9. CASE ClientLeave
  BY <1>9, <1>5 DEF ClientLeave
<1> QED
  BY <1>1, <1>2, <1>6, <1>7, <1>8, <1>9 DEF ClientStep

\* Each step of the server is a step or a stutter of the link.
LEMMA LinkServerStep ==
    ASSUME Inv, ServerStep PROVE [Link!Next]_(Link!vars)
<1>1. CASE ServerSend
  <2>1. Link!Send("server")
    BY <1>1 DEF ServerSend, clientVars, Link!Send
  <2> QED
    BY <2>1 DEF Link!Next, Link!Ends
<1>2. CASE LoopTake
  <2>1. LoopTake /\ Inv'
    BY <1>2, LoopTakeInv
  <2>2. PICK n : n = slot[1].f.n
    OBVIOUS
  <2>3. /\ sgot \in Seq(Nat) /\ sgot' = Append(sgot, n)
        /\ srecv' = srecv + 1 /\ live
        /\ UNCHANGED <<closed, csent, cgot, live, ssent>>
    BY <2>1, <2>2 DEF LoopTake, clientVars, Inv, TypeOK
  <2>4. /\ srecv \in Nat /\ Len(sgot) = srecv /\ srecv + 1 <= csent
        /\ csent \in Nat
        /\ Len(sgot') = srecv + 1 /\ \A k \in 1 .. Len(sgot') : sgot'[k] = k
    <3>1. srecv \in Nat /\ csent \in Nat /\ Len(sgot) = srecv
      BY DEF Inv, TypeOK, ExactlyOnceInOrder
    <3>2. ExactlyOnceInOrder'
      BY <2>1 DEF Inv
    <3>3. Len(sgot') = srecv' /\ srecv' <= csent'
          /\ \A k \in 1 .. Len(sgot') : sgot'[k] = k
      BY <3>2 DEF ExactlyOnceInOrder
    <3> QED
      BY <3>1, <3>3, <2>3
  <2>5. sgot'[srecv + 1] = n
    BY <2>3, <2>4
  <2>6. n = srecv + 1
    BY <2>4, <2>5
  <2>7. sgot' = Append(sgot, Len(sgot) + 1) /\ Len(sgot) < csent
    BY <2>3, <2>4, <2>6
  <2>8. Link!Take("server")
    BY <2>3, <2>7 DEF Link!Take, Link!Peer
  <2> QED
    BY <2>8 DEF Link!Next, Link!Ends
<1>3. CASE live /\ UNCHANGED clientVars /\ \E code : EndSession(code)
  BY <1>3, LinkServerDown DEF EndSession, clientVars
<1>4. CASE UNCHANGED <<clientVars, live, ssent, sgot>>
  BY <1>4, LinkStutter DEF clientVars, linkVars
<1>5. CASE LoopError \/ SessionExpire \/ SessionFail
  BY <1>5, <1>3, <1>4 DEF LoopError, SessionExpire, SessionFail
<1>6. CASE LoopDrop \/ \E i \in Socks : ReaderRead(i) \/ ResumeClient(i)
  BY <1>6, <1>4 DEF LoopDrop, ReaderRead, ResumeClient
<1>7. CASE \E a \in acts : LoopResume(a) \/ RefusePending(a)
  <2>1. CASE \E a \in acts : RefusePending(a)
    BY <2>1, <1>4 DEF RefusePending
  <2>2. CASE \E a \in acts : LoopResume(a) /\ Kept(sfirst, ssent, a.received)
    BY <2>2, <1>4 DEF LoopResume
  <2>3. CASE \E a \in acts : LoopResume(a) /\ ~Kept(sfirst, ssent, a.received)
    BY <2>3, LinkServerDown DEF LoopResume, clientVars
  <2> QED
    BY <1>7, <2>1, <2>2, <2>3
<1> QED
  BY <1>1, <1>2, <1>5, <1>6, <1>7 DEF ServerStep

\* Whatever happens to the websockets, the two ends see one reliable link:
\* each message taken once, in order, and nothing once an end is down.
THEOREM RefinesLink == Spec => ImplementsLink
<1>1. Init => Link!Init
  BY DEF Init, Link!Init, Link!Ends
<1>2. Inv /\ [Next]_vars => [Link!Next]_(Link!vars)
  <2> SUFFICES ASSUME Inv, [Next]_vars PROVE [Link!Next]_(Link!vars)
    OBVIOUS
  <2>1. CASE ClientStep
    BY <2>1, LinkClientStep
  <2>2. CASE ServerStep
    BY <2>2, LinkServerStep
  <2>3. CASE \E i \in Socks : Break(i)
    BY <2>3, LinkStutter DEF Break, linkVars, clientVars, serverVars
  <2>4. CASE Over \/ UNCHANGED vars
    BY <2>4, LinkStutter DEF Over, vars, linkVars, clientVars, serverVars
  <2> QED
    BY <2>1, <2>2, <2>3, <2>4 DEF Next
<1> QED
  BY <1>1, <1>2, InvHolds, PTL DEF Spec, ImplementsLink, Link!Spec
=============================================================================
