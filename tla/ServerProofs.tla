---------------------------- MODULE ServerProofs ----------------------------
(***************************************************************************)
(* Proofs about the server's parts, which share nothing.                   *)
(*                                                                         *)
(* Group, for any number of clients and any description: every entry of an *)
(* uninvited guest was paid for by an admission, a room that requires end- *)
(* to-end encryption never holds three, a client that has gone leaves      *)
(* nothing behind as long as it never changes its credentials and the      *)
(* group does not redirect, and what the pages show of the members and of  *)
(* those who wait is true in the end as long as nobody's permissions       *)
(* change.                                                                 *)
(*                                                                         *)
(* AuthLimit, the login throttle, for any users, addresses and limits:     *)
(* bans are served in full, the failures of an address overshoot the       *)
(* threshold by no more than its users, and nobody is banned unwarned.     *)
(*                                                                         *)
(* Channel, the action queues, for any number of writers: no wake-up is    *)
(* lost, and what is put is taken in order.                                *)
(***************************************************************************)
EXTENDS Group, AuthLimit, Channel, FiniteSetTheorems, TLAPS

Creds3 == {"op", "token", "guest"}

\* The parts of the state the proofs are about have their types.
Types ==
    /\ members \subseteq Clients /\ knocking \subseteq Clients
    /\ admitted \subseteq Clients
    /\ stage \in [Clients -> Stages]
    /\ joined \in [Clients -> BOOLEAN] /\ waiting \in [Clients -> BOOLEAN]
    /\ redirect \in BOOLEAN
    /\ grants \in [Clients -> Nat] /\ entries \in [Clients -> Nat]

-----------------------------------------------------------------------------
(* What each action does to the parts of the state that matter here.       *)

\* The group, the client's goroutine and the counts of admissions.
doorVars == <<members, knocking, admitted, stage, joined, waiting, redirect,
              grants, entries>>

\* A client leaves: leaveGroup, up to where it releases g.mu.
LeaveStep(c) ==
    /\ knocking' = IF waiting[c] THEN knocking \ {c} ELSE knocking
    /\ admitted' = IF waiting[c] THEN admitted \ {c} ELSE admitted
    /\ members' = IF joined[c] /\ c \in members THEN members \ {c} ELSE members
    /\ stage' = [stage EXCEPT ![c] = "leave"]
    /\ stage[c] = "idle"
    /\ UNCHANGED <<redirect, joined, waiting, grants, entries>>

\* It has pushed what it had to push.
PushedStep(c) ==
    /\ stage[c] = "push"
    /\ stage' = [stage EXCEPT ![c] = "idle"]
    /\ UNCHANGED <<members, knocking, admitted, joined, waiting, redirect,
                   grants, entries>>

\* Every step of the specification is, as far as the door goes, one of these.
DoorStep ==
    \/ UNCHANGED doorVars
    \/ \E c \in Clients :
          \/ LeaveStep(c) \/ PushedStep(c) \/ FinishLeave(c)
          \/ \E cred \in Creds3 :
                \/ Join(c, cred) \/ Enter(c, cred) \/ Knock(c, cred)
                \/ Refused(c, cred)
          \/ \E o \in Clients : Admit(o, c) \/ Deny(o, c)
    \/ EditRedirect

\* Nothing but these steps touches the door.
LEMMA NextDoor == ASSUME [Next]_vars PROVE DoorStep
<1>1. CASE UNCHANGED vars
  BY <1>1 DEF DoorStep, vars, doorVars, groupVars, clientVars, histVars
<1>2. CASE EditRedirect
  BY <1>2 DEF DoorStep
<1>3. CASE Update
  BY <1>3 DEF DoorStep, doorVars, Update, AutoLockKick, clientVars, histVars
<1>4. CASE \E k \in 1 .. Len(gos) : GoPush(k)
  BY <1>4 DEF DoorStep, doorVars, GoPush, groupVars, clientVars, histVars
<1>5. ASSUME NEW c \in Clients, OperatorStep(c) PROVE DoorStep
  <2>1. CASE \E d \in Clients : Admit(c, d) \/ Deny(c, d)
    BY <2>1 DEF DoorStep
  <2>2. CASE \E d \in Clients : Kick(c, d)
    BY <2>2 DEF DoorStep, doorVars, Kick, groupVars, clientVars, histVars
  <2>3. CASE \E d \in Clients, kind \in {"op", "unop"} :
                ChangePermission(c, d, kind)
    BY <2>3 DEF DoorStep, doorVars, ChangePermission, groupVars, clientVars
  <2>4. CASE \E on \in BOOLEAN : SetLocked(c, on) \/ SetLocked1on1(c, on)
    BY <2>4 DEF DoorStep, doorVars, SetLocked, SetLocked1on1, clientVars,
                histVars
  <2> QED
    BY <1>5, <2>1, <2>2, <2>3, <2>4 DEF OperatorStep
<1>6. ASSUME NEW c \in Clients, ClientStep(c) PROVE DoorStep
  <2>1. CASE \E cred \in Creds3 : \/ Join(c, cred) \/ Enter(c, cred)
                                  \/ Knock(c, cred) \/ Refused(c, cred)
    BY <2>1 DEF DoorStep
  <2>2. CASE FinishLeave(c)
    BY <2>2 DEF DoorStep
  <2>3. CASE Push(c)
    BY <2>3 DEF DoorStep, PushedStep, doorVars, Push, groupVars, histVars
  <2>4. CASE Leave(c) \/ Disconnect(c) \/ TakeKick(c)
    <3>1. LeaveStep(c)
      BY <2>4 DEF LeaveStep, Leave, Disconnect, TakeKick, Taken, BeginLeave,
                  histVars
    <3> QED
      BY <3>1 DEF DoorStep
  <2>5. CASE TakeUser(c) \/ TakeJoined(c) \/ TakePermission(c)
    BY <2>5 DEF DoorStep, doorVars, TakeUser, TakeJoined, TakePermission,
                groupVars, clientVars, histVars
  <2>6. CASE TakeChanged(c)
    <3>1. CASE joined[c]
      BY <2>6, <3>1 DEF DoorStep, doorVars, TakeChanged, groupVars, clientVars,
                        histVars
    <3>2. CASE ~joined[c]
      <4>1. LeaveStep(c)
        BY <2>6, <3>2 DEF LeaveStep, TakeChanged, Taken, BeginLeave, histVars
      <4> QED
        BY <4>1 DEF DoorStep
    <3> QED
      BY <3>1, <3>2
  <2> QED
    BY <1>6, <2>1, <2>2, <2>3, <2>4, <2>5, <2>6 DEF ClientStep, Creds3
<1> QED
  BY <1>1, <1>2, <1>3, <1>4, <1>5, <1>6 DEF Next

-----------------------------------------------------------------------------
(* Types.                                                                  *)

\* Every step keeps the types.
LEMMA TypesStep == ASSUME Types, DoorStep PROVE Types'
<1>1. CASE UNCHANGED doorVars
  BY <1>1 DEF Types, doorVars
<1>2. CASE EditRedirect
  BY <1>2 DEF Types, EditRedirect, clientVars, histVars
<1>3. ASSUME NEW c \in Clients, LeaveStep(c) \/ PushedStep(c) PROVE Types'
  BY <1>3 DEF Types, LeaveStep, PushedStep, Stages
<1>4. ASSUME NEW c \in Clients, FinishLeave(c) PROVE Types'
  BY <1>4 DEF Types, FinishLeave, Stages, histVars
<1>5. ASSUME NEW c \in Clients, NEW cred \in Creds3,
             \/ Join(c, cred) \/ Knock(c, cred) \/ Refused(c, cred)
      PROVE  Types'
  BY <1>5 DEF Types, Join, Knock, Refused, SecondHalf, Stages, Creds3, histVars
<1>6. ASSUME NEW c \in Clients, NEW cred \in Creds3, Enter(c, cred) PROVE Types'
  BY <1>6 DEF Types, Enter, SecondHalf, Stages, Creds3
<1>7. ASSUME NEW c \in Clients, NEW o \in Clients, Admit(o, c) \/ Deny(o, c)
      PROVE  Types'
  BY <1>7 DEF Types, Admit, Deny, Answer, Stages
<1> QED
  BY <1>1, <1>2, <1>3, <1>4, <1>5, <1>6, <1>7 DEF DoorStep

-----------------------------------------------------------------------------
(* Admissions.                                                             *)

\* A client does not wait for an admission that it has.
Apart == knocking \cap admitted = {}

\* An operator answers a knock once: admitting takes it out of the waiting
\* room, and nobody knocks with an admission in hand.
LEMMA ApartStep == ASSUME Types, Apart, DoorStep PROVE Apart'
<1>1. CASE UNCHANGED doorVars
  BY <1>1 DEF Apart, doorVars
<1>2. CASE EditRedirect
  BY <1>2 DEF Apart, EditRedirect
<1>3. ASSUME NEW c \in Clients, LeaveStep(c) \/ PushedStep(c) \/ FinishLeave(c)
      PROVE  Apart'
  BY <1>3 DEF Apart, LeaveStep, PushedStep, FinishLeave
<1>4. ASSUME NEW c \in Clients, NEW cred \in Creds3,
             \/ Join(c, cred) \/ Enter(c, cred) \/ Refused(c, cred)
      PROVE  Apart'
  BY <1>4 DEF Apart, Join, Enter, Refused, SecondHalf
<1>5. ASSUME NEW c \in Clients, NEW cred \in Creds3, Knock(c, cred) PROVE Apart'
  BY <1>5 DEF Apart, Knock, MayKnock, SecondHalf
<1>6. ASSUME NEW c \in Clients, NEW o \in Clients, Admit(o, c) \/ Deny(o, c)
      PROVE  Apart'
  BY <1>6 DEF Apart, Admit, Deny, Answer
<1> QED
  BY <1>1, <1>2, <1>3, <1>4, <1>5, <1>6 DEF DoorStep

\* Every step keeps the balance: an entry uses up the admission it needs, and
\* an operator who admits finds no admission there already.
LEMMA PaidStep ==
    ASSUME Types, Apart, EntriesArePaidFor, DoorStep
    PROVE  EntriesArePaidFor'
<1> SUFFICES ASSUME NEW d \in Clients
             PROVE  entries'[d] + (IF d \in admitted' THEN 1 ELSE 0) <= grants'[d]
  BY DEF EntriesArePaidFor
<1>0. /\ entries[d] \in Nat /\ grants[d] \in Nat
      /\ entries[d] + (IF d \in admitted THEN 1 ELSE 0) <= grants[d]
  BY DEF Types, EntriesArePaidFor
<1>1. CASE UNCHANGED doorVars
  BY <1>0, <1>1 DEF doorVars
<1>2. CASE EditRedirect
  BY <1>0, <1>2 DEF EditRedirect, histVars
<1>3. ASSUME NEW c \in Clients, LeaveStep(c) \/ PushedStep(c) \/ FinishLeave(c)
      PROVE  entries'[d] + (IF d \in admitted' THEN 1 ELSE 0) <= grants'[d]
  BY <1>0, <1>3 DEF LeaveStep, PushedStep, FinishLeave, histVars
<1>4. ASSUME NEW c \in Clients, NEW cred \in Creds3,
             \/ Join(c, cred) \/ Knock(c, cred) \/ Refused(c, cred)
      PROVE  entries'[d] + (IF d \in admitted' THEN 1 ELSE 0) <= grants'[d]
  <2>1. entries' = entries /\ grants' = grants
    BY <1>4 DEF Join, Knock, Refused, histVars
  <2>2. admitted' \subseteq admitted
    BY <1>4 DEF Join, Knock, Refused, SecondHalf
  <2> QED
    BY <1>0, <2>1, <2>2
<1>5. ASSUME NEW c \in Clients, NEW cred \in Creds3, Enter(c, cred)
      PROVE  entries'[d] + (IF d \in admitted' THEN 1 ELSE 0) <= grants'[d]
  <2>1. CASE Lobby /\ cred # "op" /\ (cred = "token" => Child)
    <3>1. c \in admitted /\ admitted' = admitted \ {c}
      BY <1>5, <2>1 DEF Enter, PassesDoor, SecondHalf
    <3>2. entries' = [entries EXCEPT ![c] = @ + 1] /\ grants' = grants
      BY <1>5, <2>1 DEF Enter
    <3>3. CASE d = c
      BY <1>0, <3>1, <3>2, <3>3 DEF Types
    <3>4. CASE d # c
      BY <1>0, <3>1, <3>2, <3>4 DEF Types
    <3> QED
      BY <3>3, <3>4
  <2>2. CASE ~(Lobby /\ cred # "op" /\ (cred = "token" => Child))
    <3>1. entries' = entries /\ grants' = grants /\ admitted' \subseteq admitted
      BY <1>5, <2>2 DEF Enter, SecondHalf
    <3> QED
      BY <1>0, <3>1
  <2> QED
    BY <2>1, <2>2
<1>6. ASSUME NEW c \in Clients, NEW o \in Clients, Admit(o, c)
      PROVE  entries'[d] + (IF d \in admitted' THEN 1 ELSE 0) <= grants'[d]
  <2>1. c \notin admitted /\ entries' = entries
    BY <1>6 DEF Admit, Answer, Apart
  <2>2. grants' = [grants EXCEPT ![c] = @ + 1] /\ admitted' = admitted \cup {c}
    BY <1>6 DEF Admit
  <2> QED
    BY <1>0, <2>1, <2>2 DEF Types
<1>7. ASSUME NEW c \in Clients, NEW o \in Clients, Deny(o, c)
      PROVE  entries'[d] + (IF d \in admitted' THEN 1 ELSE 0) <= grants'[d]
  BY <1>0, <1>7 DEF Deny, Answer
<1> QED
  BY <1>1, <1>2, <1>3, <1>4, <1>5, <1>6, <1>7 DEF DoorStep

\* The group starts empty.
LEMMA InitDoor ==
    ASSUME Init
    PROVE  Types /\ Apart /\ EntriesArePaidFor
<1>1. Types
  BY DEF Init, Types, Stages
<1>2. Apart
  BY DEF Init, Apart
<1>3. EntriesArePaidFor
  BY DEF Init, EntriesArePaidFor
<1> QED
  BY <1>1, <1>2, <1>3

\* Nobody gets past the lobby unasked: in every lobby group, with any number
\* of clients, operators and joins, a guest without an invitation (a client
\* of an operator room with or without) enters at most as often as it was
\* admitted (AddClient, Admit, Deny, RemoveKnock).
THEOREM LobbyIsGuarded == Spec => []EntriesArePaidFor
<1>1. Init => Types /\ Apart /\ EntriesArePaidFor
  BY InitDoor
<1>2. Types /\ Apart /\ EntriesArePaidFor /\ [Next]_vars
         => Types' /\ Apart' /\ EntriesArePaidFor'
  BY NextDoor, TypesStep, ApartStep, PaidStep
<1> QED
  BY <1>1, <1>2, PTL DEF Spec

-----------------------------------------------------------------------------
(* Seats.                                                                  *)

Seated == IsFiniteSet(members) /\ SeatsRespected

\* Only AddClient adds a member, and only where there is a seat.
LEMMA MembersStep ==
    ASSUME DoorStep
    PROVE  \/ members' = members
           \/ \E c \in Clients : members' = members \ {c}
           \/ \E c \in Clients, isOp \in BOOLEAN :
                 c \notin members /\ members' = members \cup {c} /\ ~NoSeat(isOp)
<1>1. CASE UNCHANGED doorVars
  BY <1>1 DEF doorVars
<1>2. CASE EditRedirect
  BY <1>2 DEF EditRedirect
<1>3. ASSUME NEW c \in Clients, LeaveStep(c) \/ PushedStep(c) \/ FinishLeave(c)
      PROVE  members' = members \/ members' = members \ {c}
  BY <1>3 DEF LeaveStep, PushedStep, FinishLeave
<1>4. ASSUME NEW c \in Clients, NEW cred \in Creds3,
             Join(c, cred) \/ Knock(c, cred) \/ Refused(c, cred)
      PROVE  members' = members
  BY <1>4 DEF Join, Knock, Refused
<1>5. ASSUME NEW c \in Clients, NEW cred \in Creds3, Enter(c, cred)
      PROVE  /\ c \notin members /\ members' = members \cup {c}
             /\ ~NoSeat(cred = "op") /\ (cred = "op") \in BOOLEAN
  BY <1>5 DEF Enter, PassesRoom
<1>6. ASSUME NEW c \in Clients, NEW o \in Clients, Admit(o, c) \/ Deny(o, c)
      PROVE  members' = members
  BY <1>6 DEF Admit, Deny, Answer
<1> QED
  BY <1>1, <1>2, <1>3, <1>4, <1>5, <1>6 DEF DoorStep

\* A seat taken at the door is asked for again on the join itself.
LEMMA SeatedStep == ASSUME Seated, DoorStep PROVE Seated'
<1>1. CASE members' = members
  BY <1>1 DEF Seated, SeatsRespected
<1>2. CASE \E c \in Clients : members' = members \ {c}
  <2>1. PICK c \in Clients : members' = members \ {c}
    BY <1>2
  <2>2. IsFiniteSet(members') /\ Cardinality(members') <= Cardinality(members)
        /\ Cardinality(members) \in Nat /\ Cardinality(members') \in Nat
    BY <2>1, FS_RemoveElement, FS_CardinalityType DEF Seated
  <2> QED
    BY <2>2 DEF Seated, SeatsRespected
<1>3. CASE \E c \in Clients, isOp \in BOOLEAN :
              c \notin members /\ members' = members \cup {c} /\ ~NoSeat(isOp)
  <2>1. PICK c \in Clients : c \notin members /\ members' = members \cup {c}
                             /\ (RequireE2EE => ~(Cardinality(members) >= 2))
    BY <1>3 DEF NoSeat
  <2>2. /\ IsFiniteSet(members')
        /\ Cardinality(members') = Cardinality(members) + 1
        /\ Cardinality(members) \in Nat
    BY <2>1, FS_AddElement, FS_CardinalityType DEF Seated
  <2> QED
    BY <2>1, <2>2 DEF Seated, SeatsRespected
<1> QED
  BY <1>1, <1>2, <1>3, MembersStep

\* A call that requires end-to-end encryption stays one of two, whatever
\* operators admit and whoever joins at the same time (seatErrorUnlocked and
\* its two uses in AddClient).
THEOREM TwoAtMost == Spec => []SeatsRespected
<1>1. Init => Seated
  BY FS_EmptySet DEF Init, Seated, SeatsRespected
<1>2. Seated /\ [Next]_vars => Seated'
  BY NextDoor, SeatedStep
<1>3. Seated => SeatsRespected
  BY DEF Seated
<1> QED
  BY <1>1, <1>2, <1>3, PTL DEF Spec

-----------------------------------------------------------------------------
(* Nothing is left behind.                                                 *)

\* What the code relies on without checking it: a client joins with the same
\* credentials whenever it joins, and the group is not redirected while
\* someone joins it.
Steady == ~MayRedirect /\ \A c \in Clients : \A x, y \in Creds[c] : x = y

\* What c joins with can make it wait.
Waits(c) ==
    Lobby /\ \A x \in Creds[c] : IF Child THEN x = "token" ELSE x = "guest"

\* A member's goroutine knows that it is one, and a client with a knock or
\* an admission that it has to take it back when it ends.
Accounted ==
    /\ ~redirect
    /\ \A c \in Clients :
          /\ stage[c] \in Creds3 => stage[c] \in Creds[c] /\ ~joined[c]
          /\ c \in members => joined[c] /\ stage[c] \notin {"leave", "ended"}
          /\ c \in knocking \cup admitted =>
                waiting[c] /\ Waits(c) /\ stage[c] \notin {"leave", "ended"}

\* Every step keeps the accounts.  The step that would break them is a join
\* that succeeds for a client that still knocks: its credentials would have
\* to be others than those it knocked with.
LEMMA AccountedStep ==
    ASSUME Steady, Types, Apart, Accounted, DoorStep
    PROVE  Accounted'
<1>1. CASE UNCHANGED doorVars
  BY <1>1 DEF Accounted, doorVars
<1>2. CASE EditRedirect
  BY <1>2 DEF EditRedirect, Steady
<1>3. ASSUME NEW c \in Clients, LeaveStep(c) PROVE Accounted'
  BY <1>3 DEF Accounted, LeaveStep, Types, Creds3
<1>4. ASSUME NEW c \in Clients, PushedStep(c) PROVE Accounted'
  BY <1>4 DEF Accounted, PushedStep, Types, Creds3
<1>5. ASSUME NEW c \in Clients, FinishLeave(c) PROVE Accounted'
  BY <1>5 DEF Accounted, FinishLeave, Types, Creds3
<1>6. ASSUME NEW c \in Clients, NEW cred \in Creds3, Join(c, cred)
      PROVE  Accounted'
  BY <1>6 DEF Accounted, Join, Types, Creds3
<1>7. ASSUME NEW c \in Clients, NEW cred \in Creds3, Refused(c, cred)
      PROVE  Accounted'
  BY <1>7 DEF Accounted, Refused, SecondHalf, Types, Creds3
<1>8. ASSUME NEW c \in Clients, NEW cred \in Creds3, Knock(c, cred)
      PROVE  Accounted'
  <2>1. cred \in Creds[c] /\ ~joined[c] /\ stage[c] = cred
    BY <1>8 DEF Knock, SecondHalf, Accounted
  <2>2. Waits(c)
    BY <1>8, <2>1 DEF Knock, MayKnock, Steady, Waits
  <2> QED
    BY <1>8, <2>1, <2>2 DEF Accounted, Knock, SecondHalf, Types, Creds3
<1>9. ASSUME NEW c \in Clients, NEW cred \in Creds3, Enter(c, cred)
      PROVE  Accounted'
  <2>1. cred \in Creds[c] /\ ~joined[c] /\ stage[c] = cred /\ ~redirect
    BY <1>9 DEF Enter, SecondHalf, Accounted
  <2>2. c \notin knocking'
    <3> SUFFICES ASSUME c \in knocking PROVE FALSE
      BY <1>9 DEF Enter
    <3>1. Waits(c) /\ c \notin admitted
      BY DEF Accounted, Apart
    <3> QED
      BY <1>9, <2>1, <3>1 DEF Waits, Enter, PassesDoor
  <2>3. c \notin admitted'
    <3> SUFFICES ASSUME c \in admitted PROVE Lobby /\ cred # "op"
      BY <1>9 DEF Enter, SecondHalf
    <3>1. Waits(c)
      BY DEF Accounted
    <3> QED
      BY <2>1, <3>1 DEF Waits
  <2>4. /\ joined' = [joined EXCEPT ![c] = TRUE] /\ ~redirect'
        /\ waiting' = [waiting EXCEPT ![c] = FALSE]
        /\ stage' = [stage EXCEPT ![c] = "idle"]
        /\ members' = members \cup {c} /\ knocking' = knocking
        /\ admitted' \subseteq admitted
    BY <1>9, <2>1 DEF Enter, SecondHalf, Types
  <2> QED
    BY <2>2, <2>3, <2>4 DEF Accounted, Types, Creds3
<1>10. ASSUME NEW c \in Clients, NEW o \in Clients, Admit(o, c) \/ Deny(o, c)
      PROVE  Accounted'
  <2>1. /\ stage' = [stage EXCEPT ![o] = "push"] /\ stage[o] = "idle"
        /\ UNCHANGED <<members, joined, waiting, redirect>>
        /\ knocking' \cup admitted' \subseteq knocking \cup admitted
    BY <1>10 DEF Admit, Deny, Answer, Operator
  <2> QED
    BY <2>1 DEF Accounted, Types, Creds3
<1> QED
  BY <1>1, <1>2, <1>3, <1>4, <1>5, <1>6, <1>7, <1>8, <1>9, <1>10 DEF DoorStep

\* A session that has ended leaves no seat taken, no knock to answer and no
\* admission to use, with any number of clients, if clients keep their
\* credentials and the group does not redirect (leaveGroup, RemoveKnock,
\* DelClient).
THEOREM NothingLeftBehind == ASSUME Steady PROVE Spec => []GoneForGood
<1>1. Init => Types /\ Apart /\ Accounted
  BY InitDoor DEF Init, Accounted, Creds3
<1>2. Types /\ Apart /\ Accounted /\ [Next]_vars => Types' /\ Apart' /\ Accounted'
  BY Steady, NextDoor, TypesStep, ApartStep, AccountedStep
<1>3. Accounted => GoneForGood
  BY DEF Accounted, GoneForGood
<1> QED
  BY <1>1, <1>2, <1>3, PTL DEF Spec
-----------------------------------------------------------------------------
(* What the pages show.                                                    *)
(*                                                                         *)
(* A page shows two things of every client: its place in the roster, and   *)
(* whether it knocks.  The argument is about one of them, w, one page and  *)
(* one client d at a time: either what is queued for the page says how     *)
(* things stand, last of all, or somebody still has to tell it that d has  *)
(* gone, and d does nothing that matters until that is done.               *)

\* The page is told to forget everything; a message is about its roster, or
\* about the knocks.
Clears(a) == a.t = "joined" /\ a.kind = "leave"
Speaks(a, w) ==
    /\ a.t = "user"
    /\ a.kind \in IF w = "roster" THEN {"add", "change", "delete"} ELSE {"knock", "knockcancel"}

\* What a message says of d.
About(a, w, d) == Clears(a) \/ (Speaks(a, w) /\ a.id = d)
Says(a, w) ==
    IF Clears(a) THEN "none"
    ELSE IF w = "roster" THEN a.role
    ELSE IF a.kind = "knock" THEN "knock" ELSE "none"

\* A page that shows v, and takes q, ends up with r: from some point on,
\* nothing says otherwise.
Shows(q, v, w, d, r) ==
    \E k \in 0 .. Len(q) :
        /\ IF k = 0 THEN v = r ELSE About(q[k], w, d) /\ Says(q[k], w) = r
        /\ \A j \in k + 1 .. Len(q) : About(q[j], w, d) => Says(q[j], w) = r

\* ... with nothing, even if it forgets what q says up to some message.
Blank(q, v, w, d) ==
    \E k \in 0 .. Len(q) :
        /\ IF k = 0 THEN v = "none" ELSE Clears(q[k])
        /\ \A j \in k + 1 .. Len(q) : About(q[j], w, d) => Says(q[j], w) = "none"

\* Blank is a way to show nothing.
LEMMA BlankShows ==
    ASSUME NEW q, NEW v, NEW w, NEW d, Blank(q, v, w, d)
    PROVE  Shows(q, v, w, d, "none")
  BY DEF Blank, Shows, About, Says

\* What is queued decides, if it says one thing and says it at all.
LEMMA ShowsThen ==
    ASSUME NEW A, NEW q \in Seq(A), NEW s \in Seq(A), NEW v, NEW w, NEW d, NEW r0, NEW r,
           Shows(q, v, w, d, r0),
           \A k \in 1 .. Len(s) : About(s[k], w, d) => Says(s[k], w) = r,
           r = r0 \/ \E k \in 1 .. Len(s) : About(s[k], w, d)
    PROVE  Shows(q \o s, v, w, d, r)
<1>1. /\ Len(q \o s) = Len(q) + Len(s) /\ Len(q) \in Nat /\ Len(s) \in Nat
      /\ \A k \in 1 .. Len(q) : (q \o s)[k] = q[k]
      /\ \A k \in Len(q) + 1 .. Len(q) + Len(s) : (q \o s)[k] = s[k - Len(q)]
  OBVIOUS
<1>2. CASE \E k \in 1 .. Len(s) : About(s[k], w, d)
  <2>1. PICK k \in 1 .. Len(s) : About(s[k], w, d)
    BY <1>2
  <2>2. Len(q) + k \in 0 .. Len(q \o s) /\ Len(q) + k # 0 /\ (q \o s)[Len(q) + k] = s[k]
    BY <1>1
  <2>3. ASSUME NEW j \in Len(q) + k + 1 .. Len(q \o s), About((q \o s)[j], w, d)
        PROVE  Says((q \o s)[j], w) = r
    <3>1. j - Len(q) \in 1 .. Len(s) /\ (q \o s)[j] = s[j - Len(q)]
      BY <1>1
    <3> QED
      BY <2>3, <3>1
  <2> QED
    BY <2>1, <2>2, <2>3 DEF Shows
<1>3. CASE r = r0 /\ ~\E k \in 1 .. Len(s) : About(s[k], w, d)
  <2>1. PICK k \in 0 .. Len(q) :
            /\ IF k = 0 THEN v = r ELSE About(q[k], w, d) /\ Says(q[k], w) = r
            /\ \A j \in k + 1 .. Len(q) : About(q[j], w, d) => Says(q[j], w) = r
    BY <1>3 DEF Shows
  <2>2. k \in 0 .. Len(q \o s) /\ (k # 0 => (q \o s)[k] = q[k])
    BY <1>1
  <2>3. ASSUME NEW j \in k + 1 .. Len(q \o s), About((q \o s)[j], w, d)
        PROVE  Says((q \o s)[j], w) = r
    <3>1. CASE j \in k + 1 .. Len(q)
      BY <1>1, <2>1, <2>3, <3>1
    <3>2. CASE j \in Len(q) + 1 .. Len(q) + Len(s)
      <4>1. j - Len(q) \in 1 .. Len(s) /\ (q \o s)[j] = s[j - Len(q)]
        BY <1>1, <3>2
      <4> QED
        BY <1>3, <2>3, <4>1
    <3> QED
      BY <1>1, <3>1, <3>2
  <2> QED
    BY <2>1, <2>2, <2>3 DEF Shows
<1> QED
  BY <1>2, <1>3

\* Nothing said is nothing changed.
LEMMA BlankThen ==
    ASSUME NEW A, NEW q \in Seq(A), NEW s \in Seq(A), NEW v, NEW w, NEW d,
           Blank(q, v, w, d),
           \A k \in 1 .. Len(s) : About(s[k], w, d) => Says(s[k], w) = "none"
    PROVE  Blank(q \o s, v, w, d)
<1>1. /\ Len(q \o s) = Len(q) + Len(s) /\ Len(q) \in Nat /\ Len(s) \in Nat
      /\ \A k \in 1 .. Len(q) : (q \o s)[k] = q[k]
      /\ \A k \in Len(q) + 1 .. Len(q) + Len(s) : (q \o s)[k] = s[k - Len(q)]
  OBVIOUS
<1>2. PICK k \in 0 .. Len(q) :
          /\ IF k = 0 THEN v = "none" ELSE Clears(q[k])
          /\ \A j \in k + 1 .. Len(q) : About(q[j], w, d) => Says(q[j], w) = "none"
  BY DEF Blank
<1>3. k \in 0 .. Len(q \o s) /\ (k # 0 => (q \o s)[k] = q[k])
  BY <1>1
<1>4. ASSUME NEW j \in k + 1 .. Len(q \o s), About((q \o s)[j], w, d)
      PROVE  Says((q \o s)[j], w) = "none"
  <2>1. CASE j \in k + 1 .. Len(q)
    BY <1>1, <1>2, <1>4, <2>1
  <2>2. CASE j \in Len(q) + 1 .. Len(q) + Len(s)
    <3>1. j - Len(q) \in 1 .. Len(s) /\ (q \o s)[j] = s[j - Len(q)]
      BY <1>1, <2>2
    <3> QED
      BY <1>4, <3>1
  <2> QED
    BY <1>1, <2>1, <2>2
<1> QED
  BY <1>2, <1>3, <1>4 DEF Blank

\* A page that is told to forget everything ends up with nothing.
LEMMA BlankNow ==
    ASSUME NEW A, NEW q \in Seq(A), NEW a \in A, NEW v, NEW w, NEW d, Clears(a)
    PROVE  Blank(q \o <<a>>, v, w, d)
<1>1. Len(q \o <<a>>) = Len(q) + 1 /\ Len(q) \in Nat /\ (q \o <<a>>)[Len(q) + 1] = a
  OBVIOUS
<1> QED
  BY <1>1 DEF Blank

\* A page takes what comes first.
LEMMA ShowsTail ==
    ASSUME NEW A, NEW q \in Seq(A), q # <<>>, NEW v, NEW u, NEW w, NEW d, NEW r,
           Shows(q, v, w, d, r),
           u = IF About(Head(q), w, d) THEN Says(Head(q), w) ELSE v
    PROVE  Shows(Tail(q), u, w, d, r)
<1>1. /\ Len(Tail(q)) = Len(q) - 1 /\ Len(q) \in Nat \ {0} /\ Head(q) = q[1]
      /\ \A k \in 1 .. Len(q) - 1 : Tail(q)[k] = q[k + 1]
  OBVIOUS
<1>2. PICK k \in 0 .. Len(q) :
          /\ IF k = 0 THEN v = r ELSE About(q[k], w, d) /\ Says(q[k], w) = r
          /\ \A j \in k + 1 .. Len(q) : About(q[j], w, d) => Says(q[j], w) = r
  BY DEF Shows
<1>3. CASE k \in {0, 1}
  <2>1. u = r
    BY <1>1, <1>2, <1>3
  <2>2. ASSUME NEW j \in 1 .. Len(Tail(q)), About(Tail(q)[j], w, d)
        PROVE  Says(Tail(q)[j], w) = r
    <3>1. j + 1 \in k + 1 .. Len(q) /\ Tail(q)[j] = q[j + 1]
      BY <1>1, <1>3
    <3> QED
      BY <1>2, <2>2, <3>1
  <2> QED
    BY <1>1, <2>1, <2>2 DEF Shows
<1>4. CASE k > 1
  <2>1. k - 1 \in 0 .. Len(Tail(q)) /\ k - 1 # 0 /\ Tail(q)[k - 1] = q[k]
    BY <1>1, <1>4
  <2>2. ASSUME NEW j \in (k - 1) + 1 .. Len(Tail(q)), About(Tail(q)[j], w, d)
        PROVE  Says(Tail(q)[j], w) = r
    <3>1. j + 1 \in k + 1 .. Len(q) /\ Tail(q)[j] = q[j + 1]
      BY <1>1, <1>4
    <3> QED
      BY <1>2, <2>2, <3>1
  <2>3. About(Tail(q)[k - 1], w, d) /\ Says(Tail(q)[k - 1], w) = r
    BY <1>2, <1>4, <2>1
  <2> QED
    BY <2>1, <2>2, <2>3 DEF Shows
<1> QED
  BY <1>1, <1>3, <1>4

\* ... or drops it, unless it is told to forget.
LEMMA BlankTail ==
    ASSUME NEW A, NEW q \in Seq(A), q # <<>>, NEW v, NEW u, NEW w, NEW d,
           Blank(q, v, w, d), Clears(Head(q)) => u = "none",
           u = v \/ (About(Head(q), w, d) /\ u = Says(Head(q), w))
    PROVE  Blank(Tail(q), u, w, d)
<1>1. /\ Len(Tail(q)) = Len(q) - 1 /\ Len(q) \in Nat \ {0} /\ Head(q) = q[1]
      /\ \A k \in 1 .. Len(q) - 1 : Tail(q)[k] = q[k + 1]
  OBVIOUS
<1>2. PICK k \in 0 .. Len(q) :
          /\ IF k = 0 THEN v = "none" ELSE Clears(q[k])
          /\ \A j \in k + 1 .. Len(q) : About(q[j], w, d) => Says(q[j], w) = "none"
  BY DEF Blank
<1>3. CASE k \in {0, 1}
  <2>1. u = "none"
    BY <1>1, <1>2, <1>3
  <2>2. ASSUME NEW j \in 1 .. Len(Tail(q)), About(Tail(q)[j], w, d)
        PROVE  Says(Tail(q)[j], w) = "none"
    <3>1. j + 1 \in k + 1 .. Len(q) /\ Tail(q)[j] = q[j + 1]
      BY <1>1, <1>3
    <3> QED
      BY <1>2, <2>2, <3>1
  <2> QED
    BY <1>1, <2>1, <2>2 DEF Blank
<1>4. CASE k > 1
  <2>1. k - 1 \in 0 .. Len(Tail(q)) /\ k - 1 # 0 /\ Tail(q)[k - 1] = q[k]
    BY <1>1, <1>4
  <2>2. ASSUME NEW j \in (k - 1) + 1 .. Len(Tail(q)), About(Tail(q)[j], w, d)
        PROVE  Says(Tail(q)[j], w) = "none"
    <3>1. j + 1 \in k + 1 .. Len(q) /\ Tail(q)[j] = q[j + 1]
      BY <1>1, <1>4
    <3> QED
      BY <1>2, <2>2, <3>1
  <2> QED
    BY <1>2, <1>4, <2>1, <2>2 DEF Blank
<1> QED
  BY <1>1, <1>3, <1>4

-----------------------------------------------------------------------------
(* The welcome of a client that joins.                                     *)

\* The elements of a sequence.
In(s) == {s[k] : k \in 1 .. Len(s)}

\* Those of two sequences, one after the other.
LEMMA InBoth ==
    ASSUME NEW A, NEW s \in Seq(A), NEW t \in Seq(A)
    PROVE  s \o t \in Seq(A) /\ In(s \o t) = In(s) \cup In(t)
<1>1. /\ s \o t \in Seq(A) /\ Len(s \o t) = Len(s) + Len(t) /\ Len(s) \in Nat /\ Len(t) \in Nat
      /\ \A k \in 1 .. Len(s) : (s \o t)[k] = s[k]
      /\ \A k \in Len(s) + 1 .. Len(s) + Len(t) : (s \o t)[k] = t[k - Len(s)]
  OBVIOUS
<1>2. ASSUME NEW x \in In(s \o t) PROVE x \in In(s) \cup In(t)
  <2>1. PICK k \in 1 .. Len(s \o t) : x = (s \o t)[k]
    BY DEF In
  <2>2. CASE k \in 1 .. Len(s)
    BY <1>1, <2>1, <2>2 DEF In
  <2>3. CASE k \in Len(s) + 1 .. Len(s) + Len(t)
    <3>1. k - Len(s) \in 1 .. Len(t) /\ x = t[k - Len(s)]
      BY <1>1, <2>1, <2>3
    <3> QED
      BY <3>1 DEF In
  <2> QED
    BY <1>1, <2>1, <2>2, <2>3
<1>3. ASSUME NEW x \in In(s) PROVE x \in In(s \o t)
  <2>1. PICK k \in 1 .. Len(s) : x = s[k]
    BY <1>3 DEF In
  <2>2. k \in 1 .. Len(s \o t) /\ x = (s \o t)[k]
    BY <1>1, <2>1
  <2> QED
    BY <2>2 DEF In
<1>4. ASSUME NEW x \in In(t) PROVE x \in In(s \o t)
  <2>1. PICK k \in 1 .. Len(t) : x = t[k]
    BY <1>4 DEF In
  <2>2. Len(s) + k \in 1 .. Len(s \o t) /\ x = (s \o t)[Len(s) + k]
    BY <1>1, <2>1
  <2> QED
    BY <2>2 DEF In
<1> QED
  BY <1>1, <1>2, <1>3, <1>4

\* A finite set can be listed.
LEMMA Listing ==
    ASSUME NEW S, IsFiniteSet(S)
    PROVE  SetToSeq(S) \in Seq(S) /\ In(SetToSeq(S)) = S
<1> DEFINE n == Cardinality(S)
<1>1. n \in Nat /\ ExistsBijection(1 .. n, S)
  BY FS_CardinalityType
<1>2. \E f \in [1 .. n -> S] : IsInjective(f)
  <2>1. PICK f : f \in Bijection(1 .. n, S)
    BY <1>1 DEF ExistsBijection
  <2> QED
    BY <2>1 DEF Bijection, Injection, Surjection, IsInjective
<1>3. SetToSeq(S) \in [1 .. n -> S] /\ IsInjective(SetToSeq(S))
  BY <1>2 DEF SetToSeq
<1>4. PICK s : s = SetToSeq(S)
  OBVIOUS
<1>5. s \in [1 .. n -> S] /\ \A i, j \in 1 .. n : s[i] = s[j] => i = j
  BY <1>3, <1>4 DEF IsInjective
<1>6. s \in Seq(S) /\ Len(s) = n
  BY <1>1, <1>5
<1>7. ASSUME NEW x \in S, \A i \in 1 .. n : s[i] # x PROVE FALSE
  <2>1. IsFiniteSet(S \ {x}) /\ Cardinality(S \ {x}) = n - 1
    BY FS_RemoveElement
  <2>2. IsFiniteSet(1 .. n) /\ Cardinality(1 .. n) = n
    BY <1>1, FS_Interval
  <2>3. s \in [1 .. n -> S \ {x}]
    BY <1>5, <1>7
  <2>4. PICK D, T : D = 1 .. n /\ T = S \ {x}
    OBVIOUS
  <2>5. /\ IsFiniteSet(D) /\ IsFiniteSet(T) /\ s \in [D -> T]
        /\ Cardinality(T) < Cardinality(D)
    BY <1>1, <2>1, <2>2, <2>3, <2>4
  <2>6. \E i, j \in D : i # j /\ s[i] = s[j]
    BY <2>5, FS_PigeonHole
  <2> QED
    BY <1>5, <2>4, <2>6
<1> QED
  BY <1>4, <1>5, <1>6, <1>7 DEF In

\* The members, and those who knock, as messages.
Adds   == {User("add", d, Role(d)) : d \in members}
Knocks == {User("knock", d, "none") : d \in knocking}

\* A finite set of clients makes finitely many messages.
LEMMA FiniteMessages ==
    ASSUME IsFiniteSet(members), IsFiniteSet(knocking)
    PROVE  IsFiniteSet(Adds) /\ IsFiniteSet(Knocks)
<1>1. [d \in members |-> User("add", d, Role(d))] \in Surjection(members, Adds)
  BY DEF Surjection, Adds
<1>2. [d \in knocking |-> User("knock", d, "none")] \in Surjection(knocking, Knocks)
  BY DEF Surjection, Knocks
<1> QED
  BY <1>1, <1>2, FS_Surjection

\* What a client is told when it joins.
LEMMA WelcomeSays ==
    ASSUME NEW c \in Clients, NEW isOp \in BOOLEAN, members \subseteq Clients,
           knocking \subseteq Clients, IsFiniteSet(members), IsFiniteSet(knocking)
    PROVE  /\ Welcome(c, isOp) \in Seq(ActionSet)
           /\ In(Welcome(c, isOp)) =
                {Joined("join", c), User("add", c, IF isOp THEN "op" ELSE "user")}
                \cup Adds \cup (IF isOp THEN Knocks ELSE {})
<1> DEFINE first == <<Joined("join", c), User("add", c, IF isOp THEN "op" ELSE "user")>>
           last  == IF isOp THEN SetToSeq(Knocks) ELSE <<>>
<1>1. Welcome(c, isOp) = (first \o SetToSeq(Adds)) \o last
  BY Zenon DEF Welcome, Adds, Knocks
<1>2. /\ Joined("join", c) \in ActionSet /\ Adds \subseteq ActionSet /\ Knocks \subseteq ActionSet
      /\ User("add", c, IF isOp THEN "op" ELSE "user") \in ActionSet
  BY DEF Joined, User, Adds, Knocks, ActionSet, Role
<1>3. first \in Seq(ActionSet)
  BY <1>2
<1>4. In(first) = {Joined("join", c), User("add", c, IF isOp THEN "op" ELSE "user")}
  BY DEF In
<1>5. SetToSeq(Adds) \in Seq(ActionSet) /\ In(SetToSeq(Adds)) = Adds
  BY <1>2, FiniteMessages, Listing
<1>6. last \in Seq(ActionSet)
  BY <1>2, FiniteMessages, Listing
<1>7. In(last) = IF isOp THEN Knocks ELSE {}
  BY FiniteMessages, Listing DEF In
<1> HIDE DEF first, last
<1>8. /\ first \o SetToSeq(Adds) \in Seq(ActionSet)
      /\ In(first \o SetToSeq(Adds)) = In(first) \cup Adds
  BY <1>3, <1>5, InBoth
<1>9. PICK s, t : s = first \o SetToSeq(Adds) /\ t = last
  OBVIOUS
<1>10. s \in Seq(ActionSet) /\ t \in Seq(ActionSet)
  BY <1>6, <1>8, <1>9
<1>11. s \o t \in Seq(ActionSet) /\ In(s \o t) = In(s) \cup In(t)
  BY <1>10, InBoth
<1> QED
  BY <1>1, <1>4, <1>7, <1>8, <1>9, <1>11

-----------------------------------------------------------------------------
(* The invariant.                                                          *)

Kinds == {"roster", "knocks"}

\* When what the pages show is true in the end (the theorems below): nobody's
\* permissions change, and a client that is redirected, and asks again, has
\* one kind of credentials; for the knocks, the page is the one of static/,
\* which does not ask again before it has been told to.
Single(c) == \A x, y \in Creds[c] : x = y
Kept(w) ==
    /\ MaxChanges = 0
    /\ IF w = "roster" THEN ~MayRedirect \/ \A c \in Clients : Single(c) ELSE BundledPage

\* Nothing under way changes anybody's permissions.
Tame    == {a \in ActionSet : a.t = "control" => a.kind = "kick"}
Letters == {b \in Batches : b.a.t # "control"}
Calls   == {b \in Batches : b.a.t = "control" /\ b.a.kind = "kick"}

\* The types.
Queued ==
    /\ actions \in [Clients -> Seq(Tame)] /\ pushes \in [Clients -> Seq(Letters)]
    /\ gos \in Seq(Calls) /\ changes \in Nat
    /\ view \in [Clients -> [Clients -> {"none", "user", "op"}]]
    /\ knocks \in [Clients -> SUBSET Clients]
    /\ ready \in [Clients -> BOOLEAN] /\ op \in [Clients -> BOOLEAN]
    /\ IsFiniteSet(members) /\ IsFiniteSet(knocking)

\* Where a client is, by what it does.
Placed(c) ==
    /\ joined[c] => (c \in members <=> stage[c] # "leave") /\ stage[c] \in {"idle", "push", "leave"}
    /\ stage[c] = "push" => joined[c]
    /\ stage[c] \in Creds3 => stage[c] \in Creds[c]
    /\ c \in members /\ ~joined[c] =>
          redirect /\ (Single(c) => \A x \in Creds[c] : op[c] = (x = "op"))
Places == (~MayRedirect => ~redirect) /\ \A c \in Clients : Placed(c)

\* What a client may have to push.
Post(x, k) ==
    LET b == pushes[x][k]
    IN  \/ b.a = User("delete", x, "none") /\ stage[x] = "leave" /\ x \notin members
        \/ b.a = Joined("leave", x) /\ b.to = {x} /\ stage[x] = "leave"
        \/ \E d \in Clients : b.a = User("knockcancel", d, "none")
        \/ \E d \in Clients : /\ b.a = Joined("rejoin", d) \/ b.a = Joined("deny", d)
                              /\ b.to = {d} /\ k = Len(pushes[x])
Posts ==
    \A x \in Clients :
        /\ pushes[x] # <<>> => stage[x] \in {"push", "leave"}
        /\ \A k \in 1 .. Len(pushes[x]) : Post(x, k)

\* It is d's turn in one place at most: its page may ask to join, or has asked;
\* or it knocks; or an operator, or its own goroutine, ends that; or the page
\* is told to ask again.
Asks(d) == stage[d] \in Creds3
Rejoins(a) == a.t = "joined" /\ a.kind = "rejoin"
Asked(d, k) == Rejoins(actions[d][k])
Answers(x, d) ==
    \E k \in 1 .. Len(pushes[x]) :
        pushes[x][k].a = Joined("rejoin", d) \/ pushes[x][k].a = User("knockcancel", d, "none")
OneTurn(d) ==
    /\ ready[d] => ~Asks(d) /\ d \notin knocking
    /\ Asks(d) => d \notin knocking
    /\ \A x \in Clients : Answers(x, d) => /\ ~ready[d] /\ ~Asks(d) /\ d \notin knocking
                                           /\ \A y \in Clients : Answers(y, d) => x = y
    /\ \A k \in 1 .. Len(actions[d]) :
          Asked(d, k) => /\ ~ready[d] /\ ~Asks(d) /\ d \notin knocking
                         /\ \A x \in Clients : ~Answers(x, d)
                         /\ \A j \in 1 .. Len(actions[d]) : Asked(d, j) => j = k
Turns == \A d \in Clients : OneTurn(d)

\* What page c shows of d, and how things stand.
Shown(c, w, d) ==
    IF w = "roster" THEN view[c][d] ELSE IF d \in knocks[c] THEN "knock" ELSE "none"
Truth(w, d) ==
    IF w = "roster" THEN IF d \in members THEN Role(d) ELSE "none"
    ELSE IF d \in knocking THEN "knock" ELSE "none"

\* Somebody has yet to tell c that d has gone; c's page has yet to be told to
\* forget everything.
Late(c, w, d) ==
    \E x \in Clients : \E k \in 1 .. Len(pushes[x]) :
        c \in pushes[x][k].to /\ Speaks(pushes[x][k].a, w) /\ pushes[x][k].a.id = d
Leaving(c) == \E k \in 1 .. Len(pushes[c]) : Clears(pushes[c][k].a)

Sees(c, w) == c \in members /\ joined[c] /\ (w = "knocks" => op[c])

Cell(c, w, d) ==
    /\ Sees(c, w) =>
          \/ Shows(actions[c], Shown(c, w, d), w, d, Truth(w, d))
          \/ Truth(w, d) = "none" /\ Late(c, w, d)
    /\ c \notin members => Leaving(c) \/ Blank(actions[c], Shown(c, w, d), w, d)
Cells(w) == \A c, d \in Clients : Cell(c, w, d)

PageInv(w) ==
    /\ Types /\ Queued /\ Places /\ Posts
    /\ (w = "knocks" => Turns) /\ Cells(w)

-----------------------------------------------------------------------------
(* The steps, as far as the pages go.                                      *)

\* Nobody moves; the description or the locks change.
Aside ==
    /\ UNCHANGED <<members, knocking, stage, joined, waiting, op, actions, pushes, pageVars>>
    /\ redirect' = redirect \/ (MayRedirect /\ redirect' = TRUE)

\* A client is told to go.
Called(d) ==
    /\ \E id \in Clients \cup {"auto", "op"} : actions' = Put(actions, {d}, <<Control("kick", id)>>)
    /\ UNCHANGED <<members, knocking, stage, joined, waiting, op, pushes, pageVars, redirect>>

\* A client leaves.
Departs(c) ==
    /\ stage[c] = "idle" /\ BeginLeave(c) /\ UNCHANGED pageVars
    /\ \/ actions' = actions
       \/ /\ actions[c] # <<>> /\ Head(actions[c]).t = "control"
          /\ actions' = [actions EXCEPT ![c] = Tail(@)]

PageStep ==
    \/ Aside
    \/ \E c \in Clients :
          \/ Called(c) \/ Departs(c) \/ Push(c) \/ FinishLeave(c)
          \/ TakeUser(c) \/ TakeJoined(c)
          \/ \E cred \in Creds3 :
                \/ Join(c, cred) \/ Enter(c, cred) \/ Knock(c, cred) \/ Refused(c, cred)
          \/ \E o \in Clients : Answer(o, c, "rejoin") \/ Answer(o, c, "deny")

\* Every step is one of these, while nobody's permissions change.
LEMMA NextPages ==
    ASSUME MaxChanges = 0, Types, Queued, [Next]_vars
    PROVE  PageStep
<1>1. CASE UNCHANGED vars
  BY <1>1 DEF PageStep, Aside, vars, groupVars, clientVars, queueVars
<1>2. CASE EditRedirect
  BY <1>2 DEF PageStep, Aside, EditRedirect, clientVars, queueVars
<1>3. CASE Update
  BY <1>3 DEF PageStep, Aside, Update, AutoLockKick, clientVars
<1>4. ASSUME NEW k \in 1 .. Len(gos), GoPush(k) PROVE PageStep
  <2>1. PICK b : b = gos[k]
    OBVIOUS
  <2>2. b \in Batches /\ b.a.t = "control" /\ b.a.kind = "kick"
    BY <2>1 DEF Queued, Calls
  <2>3. b.to \subseteq Clients /\ b.a \in ActionSet
    BY <2>2 DEF Batches
  <2>4. b.a.id \in Clients \cup {"auto", "op"} /\ b.a = Control("kick", b.a.id)
    BY <2>2, <2>3 DEF ActionSet, Control
  <2>5. PICK d \in b.to : actions' = Put(actions, {d}, <<b.a>>)
    BY <1>4, <2>1 DEF GoPush
  <2>6. Called(d)
    BY <1>4, <2>4, <2>5 DEF Called, GoPush, groupVars, clientVars
  <2> QED
    BY <2>3, <2>5, <2>6 DEF PageStep
<1>5. ASSUME NEW c \in Clients, OperatorStep(c) PROVE PageStep
  <2>1. ASSUME NEW d \in Clients, Admit(c, d) \/ Deny(c, d) PROVE PageStep
    BY <2>1 DEF PageStep, Admit, Deny
  <2>2. ASSUME NEW d \in Clients, Kick(c, d) PROVE PageStep
    <3>1. Called(d)
      BY <2>2 DEF Called, Kick, groupVars, clientVars
    <3> QED
      BY <3>1 DEF PageStep
  <2>3. ASSUME NEW d \in Clients, NEW kind \in {"op", "unop"}, ChangePermission(c, d, kind)
        PROVE  PageStep
    BY <2>3 DEF ChangePermission, Queued
  <2>4. CASE \E on \in BOOLEAN : SetLocked(c, on) \/ SetLocked1on1(c, on)
    BY <2>4 DEF PageStep, Aside, SetLocked, SetLocked1on1, clientVars, queueVars
  <2> QED
    BY <1>5, <2>1, <2>2, <2>3, <2>4 DEF OperatorStep
<1>6. ASSUME NEW c \in Clients, ClientStep(c) PROVE PageStep
  <2>1. CASE \E cred \in Creds3 : \/ Join(c, cred) \/ Enter(c, cred)
                                  \/ Knock(c, cred) \/ Refused(c, cred)
    BY <2>1 DEF PageStep
  <2>2. CASE Push(c) \/ FinishLeave(c) \/ TakeUser(c) \/ TakeJoined(c)
    BY <2>2 DEF PageStep
  <2>3. CASE Leave(c) \/ Disconnect(c)
    <3>1. Departs(c)
      BY <2>3 DEF Departs, Leave, Disconnect
    <3> QED
      BY <3>1 DEF PageStep
  <2>4. CASE TakeKick(c)
    <3>1. Departs(c)
      BY <2>4 DEF Departs, TakeKick, Taken
    <3> QED
      BY <3>1 DEF PageStep
  <2>5. CASE TakePermission(c) \/ TakeChanged(c)
    <3>1. /\ actions[c] \in Seq(Tame) /\ actions[c] # <<>> /\ Head(actions[c]).t = "control"
          /\ Head(actions[c]).kind \in {"op", "unop", "changed"}
      BY <2>5 DEF Queued, TakePermission, TakeChanged, Taken
    <3>2. Head(actions[c]) \in Tame
      BY <3>1
    <3> QED
      BY <3>1, <3>2 DEF Tame
  <2> QED
    BY <1>6, <2>1, <2>2, <2>3, <2>4, <2>5 DEF ClientStep, Creds3
<1> QED
  BY <1>1, <1>2, <1>3, <1>4, <1>5, <1>6 DEF Next

\* What a goroutine still has to push is what it had, or a call to all members.
LEMMA GosStep ==
    ASSUME MaxChanges = 0, Types, Queued, [Next]_vars
    PROVE  gos' \in Seq(Calls) /\ changes' \in Nat
<1>0. gos \in Seq(Calls) /\ changes \in Nat
  BY DEF Queued
<1>1. ASSUME AutoLockKick(members) PROVE gos' \in Seq(Calls)
  <2>1. ASSUME members # {} PROVE Batch(members, Control("kick", "auto")) \in Calls
    <3>1. /\ Control("kick", "auto") \in ActionSet
          /\ Control("kick", "auto").t = "control" /\ Control("kick", "auto").kind = "kick"
      BY DEF Control, ActionSet
    <3>2. members \in (SUBSET Clients) \ {{}}
      BY <2>1 DEF Types
    <3> QED
      BY <3>1, <3>2 DEF Batch, Calls, Batches
  <2> QED
    BY <1>0, <1>1, <2>1 DEF AutoLockKick
<1>2. CASE UNCHANGED vars
  BY <1>0, <1>2 DEF vars, queueVars, histVars
<1>3. CASE EditRedirect \/ Update
  BY <1>0, <1>1, <1>3 DEF EditRedirect, Update, queueVars, histVars
<1>4. ASSUME NEW k \in 1 .. Len(gos), GoPush(k) PROVE gos' \in Seq(Calls) /\ changes' \in Nat
  <2>1. PICK d \in gos[k].to :
            gos' = SubSeq(gos, 1, k - 1) \o Told(gos[k], d) \o SubSeq(gos, k + 1, Len(gos))
    BY <1>4 DEF GoPush
  <2>2. gos[k] \in Calls
    BY <1>0
  <2>3. PICK t : t = Told(gos[k], d)
    OBVIOUS
  <2>4. t \in Seq(Calls)
    <3>1. ASSUME gos[k].to \ {d} # {} PROVE Batch(gos[k].to \ {d}, gos[k].a) \in Calls
      BY <2>2, <3>1 DEF Calls, Batches, Batch
    <3> QED
      BY <2>3, <3>1 DEF Told, For
  <2>5. SubSeq(gos, 1, k - 1) \in Seq(Calls) /\ SubSeq(gos, k + 1, Len(gos)) \in Seq(Calls)
    BY <1>0
  <2>6. PICK s, u : s = SubSeq(gos, 1, k - 1) /\ u = SubSeq(gos, k + 1, Len(gos))
    OBVIOUS
  <2>7. s \o t \o u \in Seq(Calls)
    BY <2>4, <2>5, <2>6
  <2> QED
    BY <1>0, <1>4, <2>1, <2>3, <2>6, <2>7 DEF GoPush, histVars
<1>5. ASSUME NEW c \in Clients, OperatorStep(c) PROVE gos' \in Seq(Calls) /\ changes' \in Nat
  <2>1. ASSUME NEW d \in Clients, Admit(c, d) \/ Deny(c, d) \/ Kick(c, d)
        PROVE  gos' = gos /\ changes' = changes
    BY <2>1 DEF Admit, Deny, Answer, Kick, histVars
  <2>2. ASSUME NEW d \in Clients, NEW kind \in {"op", "unop"}, ChangePermission(c, d, kind)
        PROVE  FALSE
    BY <1>0, <2>2 DEF ChangePermission
  <2>3. CASE \E on \in BOOLEAN : SetLocked(c, on) \/ SetLocked1on1(c, on)
    BY <1>0, <2>3 DEF SetLocked, SetLocked1on1, queueVars, histVars
  <2> QED
    BY <1>0, <1>5, <2>1, <2>2, <2>3 DEF OperatorStep
<1>6. ASSUME NEW c \in Clients, ClientStep(c) PROVE gos' \in Seq(Calls) /\ changes' \in Nat
  <2>1. ASSUME NEW cred \in Creds3, Join(c, cred) PROVE gos' \in Seq(Calls) /\ changes' \in Nat
    BY <1>0, <1>1, <2>1 DEF Join
  <2>2. ASSUME NEW cred \in Creds3, Enter(c, cred) \/ Knock(c, cred) \/ Refused(c, cred)
        PROVE  gos' = gos /\ changes' = changes
    BY <2>2 DEF Enter, Knock, Refused, queueVars, histVars
  <2>3. CASE FinishLeave(c)
    BY <1>0, <1>1, <2>3 DEF FinishLeave, histVars
  <2>4. CASE Push(c) \/ TakeUser(c) \/ TakeJoined(c)
    BY <1>0, <2>4 DEF Push, TakeUser, TakeJoined, histVars
  <2>5. CASE Leave(c) \/ Disconnect(c) \/ TakeKick(c)
    BY <1>0, <2>5 DEF Leave, Disconnect, TakeKick, BeginLeave, histVars
  <2>6. CASE TakePermission(c) \/ TakeChanged(c)
    <3>1. /\ actions[c] \in Seq(Tame) /\ actions[c] # <<>> /\ Head(actions[c]).t = "control"
          /\ Head(actions[c]).kind \in {"op", "unop", "changed"}
      BY <2>6 DEF Queued, TakePermission, TakeChanged, Taken
    <3>2. Head(actions[c]) \in Tame
      BY <3>1
    <3> QED
      BY <3>1, <3>2 DEF Tame
  <2> QED
    BY <1>0, <1>6, <2>1, <2>2, <2>3, <2>4, <2>5, <2>6 DEF ClientStep, Creds3
<1> QED
  BY <1>2, <1>3, <1>4, <1>5, <1>6 DEF Next

-----------------------------------------------------------------------------
(* The types of what is queued.                                            *)

\* What is queued for some is added to what was queued for them.
LEMMA PutIs ==
    ASSUME NEW q \in [Clients -> Seq(Tame)], NEW to, NEW s \in Seq(Tame)
    PROVE  /\ Put(q, to, s) \in [Clients -> Seq(Tame)]
           /\ \A c \in Clients :
                 Put(q, to, s)[c] = IF c \in to /\ stage[c] # "ended" THEN q[c] \o s ELSE q[c]
  BY DEF Put

\* A batch for some is a letter, or nothing.
LEMMA ForIs ==
    ASSUME NEW to \in SUBSET Clients, NEW a \in ActionSet, a.t # "control"
    PROVE  /\ For(to, a) \in Seq(Letters) /\ Len(For(to, a)) \in {0, 1}
           /\ to # {} => Len(For(to, a)) = 1
           /\ \A k \in 1 .. Len(For(to, a)) :
                 For(to, a)[k].a = a /\ For(to, a)[k].to = to /\ to # {}
<1>1. CASE to = {}
  BY <1>1 DEF For
<1>2. CASE to # {}
  <2>1. Batch(to, a) \in Letters /\ Batch(to, a).a = a /\ Batch(to, a).to = to
    BY <1>2 DEF Batch, Letters, Batches
  <2>2. For(to, a) = <<Batch(to, a)>>
    BY <1>2 DEF For
  <2> QED
    BY <1>2, <2>1, <2>2
<1> QED
  BY <1>1, <1>2

\* The messages there are.
LEMMA Messages ==
    ASSUME NEW d \in Clients
    PROVE  /\ \A role \in {"none", "user", "op"} :
                 \A kind \in {"add", "change", "delete", "knock", "knockcancel"} :
                     User(kind, d, role) \in Tame /\ User(kind, d, role).t = "user"
           /\ \A kind \in {"join", "leave", "rejoin", "deny"} :
                 Joined(kind, d) \in Tame /\ Joined(kind, d).t = "joined"
           /\ \A id \in Clients \cup {"auto", "op"} : Control("kick", id) \in Tame
  BY DEF User, Joined, Control, Tame, ActionSet

\* What a client that leaves has to push: that it knocks no more, that it has
\* left.
Cancels(c) ==
    IF waiting[c] /\ c \in knocking THEN For(Ops, User("knockcancel", c, "none")) ELSE <<>>
Parts(c) ==
    IF joined[c] /\ c \in members
    THEN For({c}, Joined("leave", c)) \o For(members \ {c}, User("delete", c, "none"))
    ELSE <<>>

LEMMA PartsType ==
    ASSUME Types, NEW c \in Clients
    PROVE  Cancels(c) \in Seq(Letters) /\ Parts(c) \in Seq(Letters)
<1>1. /\ User("knockcancel", c, "none") \in ActionSet /\ User("knockcancel", c, "none").t = "user"
      /\ User("delete", c, "none") \in ActionSet /\ User("delete", c, "none").t = "user"
      /\ Joined("leave", c) \in ActionSet /\ Joined("leave", c).t = "joined"
  BY Messages DEF Tame
<1>2. Ops \in SUBSET Clients /\ members \ {c} \in SUBSET Clients /\ {c} \in SUBSET Clients
  BY DEF Types, Ops
<1>3. For(Ops, User("knockcancel", c, "none")) \in Seq(Letters)
  BY <1>1, <1>2, ForIs
<1>4. For(members \ {c}, User("delete", c, "none")) \in Seq(Letters)
  BY <1>1, <1>2, ForIs
<1>5. For({c}, Joined("leave", c)) \in Seq(Letters)
  BY <1>1, <1>2, ForIs
<1> QED
  BY <1>3, <1>4, <1>5 DEF Cancels, Parts

LEMMA DepartsPushes ==
    ASSUME Types, Queued, NEW c \in Clients, Departs(c)
    PROVE  pushes' = [pushes EXCEPT ![c] = Cancels(c) \o Parts(c)]
  BY DEF Departs, BeginLeave, Cancels, Parts

\* What is left of a batch.
LEMMA ToldIs ==
    ASSUME NEW b \in Letters, NEW d
    PROVE  /\ Told(b, d) \in Seq(Letters) /\ Len(Told(b, d)) \in {0, 1}
           /\ b.to = {d} => Told(b, d) = <<>>
           /\ \A k \in 1 .. Len(Told(b, d)) :
                 Told(b, d)[k].a = b.a /\ Told(b, d)[k].to = b.to \ {d}
           /\ b.to # {d} /\ d \in b.to => Len(Told(b, d)) = 1
<1>1. PICK S, a : S = b.to \ {d} /\ a = b.a
  OBVIOUS
<1>2. S \in SUBSET Clients /\ a \in ActionSet /\ a.t # "control"
  BY <1>1 DEF Letters, Batches
<1>3. Told(b, d) = For(S, a)
  BY <1>1 DEF Told
<1>4. /\ For(S, a) \in Seq(Letters) /\ Len(For(S, a)) \in {0, 1}
      /\ S # {} => Len(For(S, a)) = 1
      /\ \A k \in 1 .. Len(For(S, a)) : For(S, a)[k].a = a /\ For(S, a)[k].to = S
  BY <1>2, ForIs
<1>5. S = {} => For(S, a) = <<>>
  BY DEF For
<1>6. (b.to = {d} => S = {}) /\ (b.to # {d} /\ d \in b.to => S # {})
  BY <1>1
<1>7. \A k \in 1 .. Len(Told(b, d)) : Told(b, d)[k].a = b.a /\ Told(b, d)[k].to = b.to \ {d}
  BY <1>1, <1>3, <1>4
<1> QED
  BY <1>3, <1>4, <1>5, <1>6, <1>7

\* Every step keeps the types.
LEMMA QueuedStep ==
    ASSUME Types, Queued, PageStep, gos' \in Seq(Calls), changes' \in Nat
    PROVE  Queued'
<1>0. /\ actions \in [Clients -> Seq(Tame)] /\ pushes \in [Clients -> Seq(Letters)]
      /\ gos \in Seq(Calls) /\ IsFiniteSet(members) /\ IsFiniteSet(knocking)
      /\ view \in [Clients -> [Clients -> {"none", "user", "op"}]]
      /\ knocks \in [Clients -> SUBSET Clients]
      /\ ready \in [Clients -> BOOLEAN] /\ op \in [Clients -> BOOLEAN]
  BY DEF Queued
<1>1. CASE Aside
  BY <1>0, <1>1 DEF Aside, Queued, pageVars
<1>2. ASSUME NEW c \in Clients, Called(c) PROVE Queued'
  <2>1. PICK id \in Clients \cup {"auto", "op"} :
            actions' = Put(actions, {c}, <<Control("kick", id)>>)
    BY <1>2 DEF Called
  <2>2. actions' \in [Clients -> Seq(Tame)]
    <3>1. <<Control("kick", id)>> \in Seq(Tame)
      BY Messages
    <3> QED
      BY <1>0, <2>1, <3>1, PutIs
  <2> QED
    BY <1>0, <1>2, <2>2 DEF Called, Queued, pageVars
<1>3. ASSUME NEW c \in Clients, Departs(c) PROVE Queued'
  <2>1. pushes' \in [Clients -> Seq(Letters)]
    <3>1. PICK s, t : s = Cancels(c) /\ t = Parts(c)
      OBVIOUS
    <3>2. s \o t \in Seq(Letters)
      BY <3>1, PartsType
    <3> QED
      BY <1>0, <1>3, <3>1, <3>2, DepartsPushes
  <2>2. actions' \in [Clients -> Seq(Tame)]
    <3>1. actions[c] # <<>> => Tail(actions[c]) \in Seq(Tame)
      BY <1>0
    <3> QED
      BY <1>0, <1>3, <3>1 DEF Departs
  <2>3. IsFiniteSet(members') /\ IsFiniteSet(knocking')
    BY <1>0, <1>3, FS_RemoveElement DEF Departs, BeginLeave
  <2> QED
    BY <1>0, <1>3, <2>1, <2>2, <2>3 DEF Departs, BeginLeave, Queued, pageVars
<1>4. ASSUME NEW c \in Clients, Push(c) PROVE Queued'
  <2>1. Head(pushes[c]) \in Letters /\ Tail(pushes[c]) \in Seq(Letters)
    BY <1>0, <1>4 DEF Push
  <2>2. PICK b, t : b = Head(pushes[c]) /\ t = Tail(pushes[c])
    OBVIOUS
  <2>3. PICK d \in b.to :
            /\ actions' = Put(actions, {d}, <<b.a>>)
            /\ pushes' = [pushes EXCEPT ![c] = Told(b, d) \o t]
    BY <1>4, <2>2 DEF Push
  <2>4. <<b.a>> \in Seq(Tame)
    BY <2>1, <2>2 DEF Letters, Batches, Tame
  <2>5. actions' \in [Clients -> Seq(Tame)]
    BY <1>0, <2>3, <2>4, PutIs
  <2>6. Told(b, d) \o t \in Seq(Letters)
    BY <2>1, <2>2, ToldIs
  <2> QED
    BY <1>0, <1>4, <2>3, <2>5, <2>6 DEF Push, Queued, pageVars, groupVars
<1>5. ASSUME NEW c \in Clients, FinishLeave(c) PROVE Queued'
  <2>1. actions' \in [Clients -> Seq(Tame)] /\ op' \in [Clients -> BOOLEAN]
    BY <1>0, <1>5 DEF FinishLeave, Types
  <2>2. /\ view' \in [Clients -> [Clients -> {"none", "user", "op"}]]
        /\ knocks' \in [Clients -> SUBSET Clients]
    BY <1>0, <1>5 DEF FinishLeave
  <2> QED
    BY <1>0, <1>5, <2>1, <2>2 DEF FinishLeave, Queued
<1>6. ASSUME NEW c \in Clients, TakeUser(c) PROVE Queued'
  <2>1. actions[c] # <<>> /\ actions' = [actions EXCEPT ![c] = Tail(@)]
    BY <1>6 DEF TakeUser, Taken
  <2>2. Head(actions[c]) \in Tame /\ Head(actions[c]).t = "user"
    BY <1>0, <1>6, <2>1 DEF TakeUser, Taken
  <2>3. Head(actions[c]).id \in Clients /\ Head(actions[c]).role \in {"none", "user", "op"}
    BY <2>2 DEF Tame, ActionSet
  <2>4. actions' \in [Clients -> Seq(Tame)]
    BY <1>0, <2>1
  <2>5. /\ view' \in [Clients -> [Clients -> {"none", "user", "op"}]]
        /\ knocks' \in [Clients -> SUBSET Clients]
    BY <1>0, <1>6, <2>3 DEF TakeUser
  <2> QED
    BY <1>0, <1>6, <2>4, <2>5 DEF TakeUser, Queued, groupVars, clientVars
<1>7. ASSUME NEW c \in Clients, TakeJoined(c) PROVE Queued'
  <2>1. actions' \in [Clients -> Seq(Tame)]
    BY <1>0, <1>7 DEF TakeJoined, Taken
  <2>2. /\ view' \in [Clients -> [Clients -> {"none", "user", "op"}]]
        /\ knocks' \in [Clients -> SUBSET Clients]
    <3>1. CASE Head(actions[c]).kind = "leave"
      <4>1. [d \in Clients |-> "none"] \in [Clients -> {"none", "user", "op"}]
        OBVIOUS
      <4>2. /\ view' = [view EXCEPT ![c] = [d \in Clients |-> "none"]]
            /\ knocks' = [knocks EXCEPT ![c] = {}]
        BY <1>7, <3>1 DEF TakeJoined
      <4> QED
        BY <1>0, <4>1, <4>2
    <3>2. CASE Head(actions[c]).kind # "leave"
      BY <1>0, <1>7, <3>2 DEF TakeJoined
    <3> QED
      BY <3>1, <3>2
  <2>3. (ready[c] \/ Head(actions[c]).kind = "rejoin") \in BOOLEAN
    OBVIOUS
  <2>4. ready' \in [Clients -> BOOLEAN]
    BY <1>0, <1>7, <2>3 DEF TakeJoined
  <2> QED
    BY <1>0, <1>7, <2>1, <2>2, <2>4 DEF TakeJoined, Queued, groupVars, clientVars
<1>8. ASSUME NEW c \in Clients, NEW cred \in Creds3, Join(c, cred) \/ Refused(c, cred)
      PROVE  Queued'
  BY <1>0, <1>8 DEF Join, Refused, SecondHalf, Queued, queueVars
<1>9. ASSUME NEW c \in Clients, NEW cred \in Creds3, Knock(c, cred) PROVE Queued'
  <2>1. actions' = Put(actions, Ops, <<User("knock", c, "none")>>)
    BY <1>9 DEF Knock
  <2>2. <<User("knock", c, "none")>> \in Seq(Tame)
    BY Messages
  <2>3. actions' \in [Clients -> Seq(Tame)]
    BY <1>0, <2>1, <2>2, PutIs
  <2>4. IsFiniteSet(knocking')
    BY <1>0, <1>9, FS_AddElement DEF Knock
  <2> QED
    BY <1>0, <1>9, <2>3, <2>4 DEF Knock, SecondHalf, Queued, pageVars
<1>10. ASSUME NEW c \in Clients, NEW cred \in Creds3, Enter(c, cred) PROVE Queued'
  <2> DEFINE hello == Welcome(c, cred = "op")
             news  == <<User("add", c, IF cred = "op" THEN "op" ELSE "user")>>
  <2>1. actions' = Put(Put(actions, {c}, hello), members, news)
    BY <1>10 DEF Enter
  <2>2. hello \in Seq(ActionSet) /\ In(hello) \subseteq Tame
    <3>1. (cred = "op") \in BOOLEAN /\ members \subseteq Clients /\ knocking \subseteq Clients
      BY DEF Types
    <3>2. PICK isOp \in BOOLEAN : isOp = (cred = "op")
      BY <3>1
    <3>3. Adds \subseteq Tame /\ Knocks \subseteq Tame
      BY <3>1, Messages DEF Adds, Knocks, Role
    <3>4. Joined("join", c) \in Tame /\ User("add", c, IF isOp THEN "op" ELSE "user") \in Tame
      BY Messages
    <3>5. /\ Welcome(c, isOp) \in Seq(ActionSet)
          /\ In(Welcome(c, isOp)) =
                {Joined("join", c), User("add", c, IF isOp THEN "op" ELSE "user")}
                \cup Adds \cup (IF isOp THEN Knocks ELSE {})
      BY <1>0, <3>1, WelcomeSays
    <3> QED
      BY <3>2, <3>3, <3>4, <3>5
  <2>3. hello \in Seq(Tame)
    <3>1. PICK h : h = hello
      OBVIOUS
    <3>2. \A k \in 1 .. Len(h) : h[k] \in Tame
      BY <2>2, <3>1 DEF In
    <3>3. h \in [1 .. Len(h) -> Tame] /\ Len(h) \in Nat
      BY <2>2, <3>1, <3>2
    <3> QED
      BY <3>1, <3>3
  <2>4. news \in Seq(Tame)
    BY Messages
  <2>5. actions' \in [Clients -> Seq(Tame)]
    <3>1. Put(actions, {c}, hello) \in [Clients -> Seq(Tame)]
      BY <1>0, <2>3, PutIs
    <3> QED
      BY <2>1, <2>4, <3>1, PutIs
  <2>6. IsFiniteSet(members')
    BY <1>0, <1>10, FS_AddElement DEF Enter
  <2> QED
    BY <1>0, <1>10, <2>5, <2>6 DEF Enter, SecondHalf, Queued, pageVars
<1>11. ASSUME NEW c \in Clients, NEW o \in Clients, NEW kind \in {"rejoin", "deny"},
              Answer(o, c, kind)
       PROVE  Queued'
  <2>1. /\ User("knockcancel", c, "none") \in ActionSet /\ User("knockcancel", c, "none").t = "user"
        /\ Joined(kind, c) \in ActionSet /\ Joined(kind, c).t = "joined"
    BY Messages DEF Tame
  <2>2. Ops \in SUBSET Clients /\ {c} \in SUBSET Clients
    BY DEF Types, Ops
  <2>3. /\ For(Ops, User("knockcancel", c, "none")) \in Seq(Letters)
        /\ For({c}, Joined(kind, c)) \in Seq(Letters)
    BY <2>1, <2>2, ForIs
  <2>4. pushes' \in [Clients -> Seq(Letters)]
    BY <1>0, <1>11, <2>3 DEF Answer
  <2>5. IsFiniteSet(knocking')
    BY <1>0, <1>11, FS_RemoveElement DEF Answer
  <2> QED
    BY <1>0, <1>11, <2>4, <2>5 DEF Answer, Queued, pageVars
<1> QED
  BY <1>1, <1>2, <1>3, <1>4, <1>5, <1>6, <1>7, <1>8, <1>9, <1>10, <1>11 DEF PageStep

-----------------------------------------------------------------------------
(* Where the clients are.                                                  *)

\* A client that is a member, and knows it, is idle or pushes; one that has
\* been redirected keeps its permissions.
LEMMA PlacesStep ==
    ASSUME Types, Queued, Places, PageStep
    PROVE  Places'
<1>0. /\ redirect \in BOOLEAN /\ joined \in [Clients -> BOOLEAN] /\ stage \in [Clients -> Stages]
      /\ op \in [Clients -> BOOLEAN] /\ (~MayRedirect => ~redirect)
  BY DEF Types, Queued, Places
<1>1. ~MayRedirect => ~redirect'
  <2>1. CASE Aside
    BY <1>0, <2>1 DEF Aside
  <2>2. ASSUME NEW c \in Clients,
               Called(c) \/ Departs(c) \/ Push(c) \/ FinishLeave(c) \/ TakeUser(c) \/ TakeJoined(c)
        PROVE  redirect' = redirect
    BY <2>2 DEF Called, Departs, BeginLeave, Push, FinishLeave, TakeUser, TakeJoined, groupVars
  <2>3. ASSUME NEW c \in Clients, NEW cred \in Creds3,
               Join(c, cred) \/ Enter(c, cred) \/ Knock(c, cred) \/ Refused(c, cred)
        PROVE  redirect' = redirect
    BY <2>3 DEF Join, Enter, Knock, Refused
  <2>4. ASSUME NEW o \in Clients, NEW c \in Clients, Answer(o, c, "rejoin") \/ Answer(o, c, "deny")
        PROVE  redirect' = redirect
    BY <2>4 DEF Answer
  <2> QED
    BY <1>0, <2>1, <2>2, <2>3, <2>4 DEF PageStep
<1> SUFFICES ASSUME NEW d \in Clients PROVE Placed(d)'
  BY <1>1 DEF Places
<1>2. Placed(d)
  BY DEF Places
<1>3. CASE Aside
  BY <1>0, <1>2, <1>3 DEF Aside, Placed
<1>4. ASSUME NEW c \in Clients, Called(c) PROVE Placed(d)'
  BY <1>2, <1>4 DEF Called, Placed
<1>5. ASSUME NEW c \in Clients, Departs(c) PROVE Placed(d)'
  <2>1. /\ stage[c] = "idle" /\ stage' = [stage EXCEPT ![c] = "leave"]
        /\ members' = IF joined[c] /\ c \in members THEN members \ {c} ELSE members
        /\ UNCHANGED <<joined, redirect, op>>
    BY <1>5 DEF Departs, BeginLeave
  <2>2. Placed(c)
    BY DEF Places
  <2> QED
    BY <1>0, <1>2, <2>1, <2>2 DEF Placed, Creds3
<1>6. ASSUME NEW c \in Clients, Push(c) PROVE Placed(d)'
  <2>1. /\ stage' = stage \/ (stage[c] = "push" /\ stage' = [stage EXCEPT ![c] = "idle"])
        /\ UNCHANGED <<members, joined, redirect, op>>
    BY <1>6 DEF Push, groupVars
  <2> QED
    BY <1>0, <1>2, <2>1 DEF Placed, Creds3
<1>7. ASSUME NEW c \in Clients, FinishLeave(c) PROVE Placed(d)'
  <2>1. /\ stage[c] = "leave" /\ joined' = [joined EXCEPT ![c] = FALSE]
        /\ stage'[c] \in {"idle", "ended"} /\ \A e \in Clients \ {c} : stage'[e] = stage[e]
        /\ op' = [op EXCEPT ![c] = op[c] /\ ~joined[c]]
        /\ UNCHANGED <<members, redirect>>
    BY <1>0, <1>7 DEF FinishLeave
  <2>2. CASE d = c
    BY <1>0, <1>2, <2>1, <2>2 DEF Placed, Creds3
  <2>3. CASE d # c
    BY <1>0, <1>2, <2>1, <2>3 DEF Placed, Creds3
  <2> QED
    BY <2>2, <2>3
<1>8. ASSUME NEW c \in Clients, TakeUser(c) \/ TakeJoined(c) PROVE Placed(d)'
  BY <1>2, <1>8 DEF TakeUser, TakeJoined, Placed, groupVars, clientVars
<1>9. ASSUME NEW c \in Clients, NEW cred \in Creds3, Join(c, cred) PROVE Placed(d)'
  <2>1. /\ stage' = [stage EXCEPT ![c] = cred] /\ ~joined[c] /\ cred \in Creds[c]
        /\ UNCHANGED <<members, joined, redirect, op>>
    BY <1>9 DEF Join
  <2> QED
    BY <1>0, <1>2, <2>1 DEF Placed, Creds3
<1>10. ASSUME NEW c \in Clients, NEW cred \in Creds3, SecondHalf(c, cred)
       PROVE  /\ stage' = [stage EXCEPT ![c] = "idle"] /\ op' = [op EXCEPT ![c] = (cred = "op")]
              /\ cred \in Creds[c] /\ ~joined[c]
              /\ Single(c) => \A x \in Creds[c] : op'[c] = (x = "op")
  <2>1. stage[c] = cred /\ Placed(c)
    BY <1>10 DEF SecondHalf, Places
  <2>2. cred \in Creds[c] /\ ~joined[c]
    BY <1>0, <2>1 DEF Placed, Creds3
  <2> QED
    BY <1>0, <1>10, <2>2 DEF SecondHalf, Single
<1>11. ASSUME NEW c \in Clients, NEW cred \in Creds3, Enter(c, cred) PROVE Placed(d)'
  <2>1. SecondHalf(c, cred) /\ members' = members \cup {c} /\ redirect' = redirect
        /\ joined' = [joined EXCEPT ![c] = ~redirect]
    BY <1>11 DEF Enter
  <2>2. /\ stage' = [stage EXCEPT ![c] = "idle"] /\ op' = [op EXCEPT ![c] = (cred = "op")]
        /\ Single(c) => \A x \in Creds[c] : op'[c] = (x = "op")
    BY <1>10, <2>1
  <2>3. CASE d = c
    BY <1>0, <2>1, <2>2, <2>3 DEF Placed, Creds3
  <2>4. CASE d # c
    BY <1>0, <1>2, <2>1, <2>2, <2>4 DEF Placed, Creds3
  <2> QED
    BY <2>3, <2>4
<1>12. ASSUME NEW c \in Clients, NEW cred \in Creds3, Knock(c, cred) \/ Refused(c, cred)
       PROVE  Placed(d)'
  <2>1. SecondHalf(c, cred) /\ UNCHANGED <<members, redirect, joined>>
    BY <1>12 DEF Knock, Refused
  <2> QED
    BY <1>0, <1>2, <1>10, <2>1 DEF Placed, Creds3
<1>13. ASSUME NEW o \in Clients, NEW c \in Clients, NEW kind \in {"rejoin", "deny"},
              Answer(o, c, kind)
       PROVE  Placed(d)'
  <2>1. /\ stage[o] = "idle" /\ joined[o] /\ stage' = [stage EXCEPT ![o] = "push"]
        /\ UNCHANGED <<members, joined, redirect, op>>
    BY <1>13 DEF Answer, Operator
  <2> QED
    BY <1>0, <1>2, <2>1 DEF Placed, Creds3
<1> QED
  BY <1>3, <1>4, <1>5, <1>6, <1>7, <1>8, <1>9, <1>11, <1>12, <1>13 DEF PageStep

-----------------------------------------------------------------------------
(* What there is to push.                                                  *)

\* One after the other.
LEMMA Both ==
    ASSUME NEW A, NEW s \in Seq(A), NEW t \in Seq(A)
    PROVE  /\ s \o t \in Seq(A) /\ Len(s \o t) = Len(s) + Len(t)
           /\ \A k \in 1 .. Len(s) : (s \o t)[k] = s[k]
           /\ \A k \in 1 .. Len(t) : (s \o t)[Len(s) + k] = t[k]
<1>1. \A k \in 1 .. Len(t) : (s \o t)[Len(s) + k] = t[k]
  <2>1. TAKE k \in 1 .. Len(t)
  <2>2. Len(s) \in Nat /\ Len(t) \in Nat /\ Len(s \o t) = Len(s) + Len(t)
    OBVIOUS
  <2>3. Len(s) + k \in 1 .. Len(s) + Len(t) /\ ~(Len(s) + k <= Len(s)) /\ (Len(s) + k) - Len(s) = k
    BY <2>2
  <2> QED
    BY <2>2, <2>3
<1> QED
  BY <1>1

\* A batch for some, as a set.
LEMMA ForIn ==
    ASSUME NEW to, NEW a
    PROVE  In(For(to, a)) = IF to = {} THEN {} ELSE {Batch(to, a)}
  BY DEF For, In

\* What a client that leaves tells others.
LEMMA DepartsSays ==
    ASSUME Types, Queued, NEW c \in Clients, Departs(c)
    PROVE  /\ \A x \in Clients \ {c} : pushes'[x] = pushes[x]
           /\ pushes'[c] \in Seq(Letters)
           /\ \A b : b \in In(pushes'[c]) <=>
                \/ /\ waiting[c] /\ c \in knocking /\ Ops # {}
                   /\ b = Batch(Ops, User("knockcancel", c, "none"))
                \/ /\ joined[c] /\ c \in members
                   /\ b = Batch({c}, Joined("leave", c))
                \/ /\ joined[c] /\ c \in members /\ members \ {c} # {}
                   /\ b = Batch(members \ {c}, User("delete", c, "none"))
<1>1. PICK s, t : s = Cancels(c) /\ t = Parts(c)
  OBVIOUS
<1>2. s \in Seq(Letters) /\ t \in Seq(Letters)
  BY <1>1, PartsType
<1>3. s \o t \in Seq(Letters) /\ In(s \o t) = In(s) \cup In(t)
  BY <1>2, InBoth
<1>4. pushes'[c] = s \o t /\ \A x \in Clients \ {c} : pushes'[x] = pushes[x]
  BY <1>1, DepartsPushes DEF Queued
<1>5. In(<<>>) = {}
  BY DEF In
<1>6. In(s) = IF waiting[c] /\ c \in knocking /\ Ops # {}
              THEN {Batch(Ops, User("knockcancel", c, "none"))} ELSE {}
  BY <1>1, <1>5, ForIn DEF Cancels
<1>7. In(t) = IF joined[c] /\ c \in members
              THEN In(For({c}, Joined("leave", c)))
                   \cup In(For(members \ {c}, User("delete", c, "none")))
              ELSE {}
  <2>1. PICK f, g : f = For({c}, Joined("leave", c)) /\ g = For(members \ {c}, User("delete", c, "none"))
    OBVIOUS
  <2>2. {c} \in SUBSET Clients /\ members \ {c} \in SUBSET Clients
    BY DEF Types
  <2>3. /\ Joined("leave", c) \in ActionSet /\ Joined("leave", c).t # "control"
        /\ User("delete", c, "none") \in ActionSet /\ User("delete", c, "none").t # "control"
    BY Messages DEF Tame
  <2>4. f \in Seq(Letters)
    BY <2>1, <2>2, <2>3, ForIs
  <2>5. g \in Seq(Letters)
    BY <2>1, <2>2, <2>3, ForIs
  <2>6. In(f \o g) = In(f) \cup In(g)
    BY <2>4, <2>5, InBoth
  <2> QED
    BY <1>1, <1>5, <2>1, <2>6 DEF Parts
<1>8. In(For({c}, Joined("leave", c))) = {Batch({c}, Joined("leave", c))}
  BY ForIn
<1>9. In(For(members \ {c}, User("delete", c, "none"))) =
         IF members \ {c} = {} THEN {} ELSE {Batch(members \ {c}, User("delete", c, "none"))}
  BY ForIn
<1> QED
  BY <1>3, <1>4, <1>6, <1>7, <1>8, <1>9

\* What is left when one of a batch has been told.
LEMMA PushLeaves ==
    ASSUME Queued, NEW c \in Clients, Push(c)
    PROVE  \E d \in Clients :
             /\ Len(pushes[c]) \in Nat \ {0}
             /\ pushes[c][1] \in Letters /\ d \in pushes[c][1].to
             /\ actions' = Put(actions, {d}, <<pushes[c][1].a>>)
             /\ \A x \in Clients \ {c} : pushes'[x] = pushes[x]
             /\ pushes'[c] \in Seq(Letters)
             /\ \/ /\ pushes[c][1].to = {d} /\ Len(pushes'[c]) = Len(pushes[c]) - 1
                   /\ \A k \in 1 .. Len(pushes[c]) - 1 : pushes'[c][k] = pushes[c][k + 1]
                \/ /\ pushes[c][1].to # {d} /\ Len(pushes'[c]) = Len(pushes[c])
                   /\ \A k \in 2 .. Len(pushes[c]) : pushes'[c][k] = pushes[c][k]
                   /\ pushes'[c][1].a = pushes[c][1].a /\ pushes'[c][1].to = pushes[c][1].to \ {d}
<1>1. pushes \in [Clients -> Seq(Letters)]
  BY DEF Queued
<1>2. /\ Head(pushes[c]) = pushes[c][1] /\ pushes[c][1] \in Letters
      /\ Tail(pushes[c]) \in Seq(Letters) /\ Len(pushes[c]) \in Nat \ {0}
      /\ Len(Tail(pushes[c])) = Len(pushes[c]) - 1
      /\ \A k \in 1 .. Len(pushes[c]) - 1 : Tail(pushes[c])[k] = pushes[c][k + 1]
  BY <1>1 DEF Push
<1>3. PICK b, t : b = pushes[c][1] /\ t = Tail(pushes[c])
  OBVIOUS
<1>4. PICK d \in b.to :
          /\ actions' = Put(actions, {d}, <<b.a>>)
          /\ pushes' = [pushes EXCEPT ![c] = Told(b, d) \o t]
  BY <1>2, <1>3 DEF Push
<1>5. PICK s : s = Told(b, d)
  OBVIOUS
<1>6. /\ s \in Seq(Letters) /\ Len(s) \in {0, 1}
      /\ b.to = {d} => s = <<>>
      /\ \A k \in 1 .. Len(s) : s[k].a = b.a /\ s[k].to = b.to \ {d}
      /\ b.to # {d} => Len(s) = 1
  BY <1>2, <1>3, <1>5, ToldIs
<1>7. s \o t \in Seq(Letters) /\ Len(s \o t) = Len(s) + Len(t)
  BY <1>2, <1>3, <1>6
<1>8. pushes'[c] = s \o t /\ \A x \in Clients \ {c} : pushes'[x] = pushes[x]
  BY <1>1, <1>4, <1>5
<1>9. CASE b.to = {d}
  <2>1. s \o t = t
    BY <1>2, <1>3, <1>6, <1>9
  <2>2. Len(pushes'[c]) = Len(pushes[c]) - 1
    BY <1>2, <1>3, <1>8, <2>1
  <2>3. \A k \in 1 .. Len(pushes[c]) - 1 : pushes'[c][k] = pushes[c][k + 1]
    BY <1>2, <1>3, <1>8, <2>1
  <2>4. d \in Clients
    BY <1>2, <1>3 DEF Letters, Batches
  <2> QED
    BY <1>2, <1>3, <1>4, <1>7, <1>8, <1>9, <2>2, <2>3, <2>4
<1>10. CASE b.to # {d}
  <2>0. Len(s) = 1 /\ 1 \in 1 .. Len(s)
    BY <1>6, <1>10
  <2>1. Len(s) = 1 /\ s[1].a = b.a /\ s[1].to = b.to \ {d}
    BY <1>6, <2>0
  <2>2. Len(s \o t) = Len(pushes[c]) /\ (s \o t)[1] = s[1]
    BY <1>2, <1>3, <1>6, <1>7, <2>1
  <2>3. ASSUME NEW k \in 2 .. Len(pushes[c]) PROVE (s \o t)[k] = pushes[c][k]
    <3>1. PICK n \in Nat : n = Len(pushes[c])
      BY <1>2
    <3>2. k \in 2 .. n /\ k - 1 \in 1 .. n - 1 /\ (k - 1) + 1 = k
      BY <3>1
    <3>3. t \in Seq(Letters) /\ Len(t) = n - 1
      BY <1>2, <1>3, <3>1
    <3>4. \A j \in 1 .. Len(t) : (s \o t)[Len(s) + j] = t[j]
      BY <1>6, <3>3, Both
    <3>5. k - 1 \in 1 .. Len(t) /\ Len(s) + (k - 1) = k
      BY <2>0, <3>2, <3>3
    <3>6. (s \o t)[k] = t[k - 1]
      BY <3>4, <3>5
    <3> QED
      BY <1>2, <1>3, <3>1, <3>2, <3>6
  <2>4. d \in Clients
    BY <1>2, <1>3 DEF Letters, Batches
  <2>5. /\ Len(pushes'[c]) = Len(pushes[c])
        /\ \A k \in 2 .. Len(pushes[c]) : pushes'[c][k] = pushes[c][k]
    BY <1>8, <2>2, <2>3
  <2>6. pushes'[c][1].a = pushes[c][1].a /\ pushes'[c][1].to = pushes[c][1].to \ {d}
    BY <1>3, <1>8, <2>1, <2>2
  <2> QED
    BY <1>2, <1>3, <1>4, <1>7, <1>8, <1>10, <2>4, <2>5, <2>6
<1> QED
  BY <1>9, <1>10

\* What an operator that answers a knock has to push: that it is answered, to
\* the operators, and the answer, last.
LEMMA AnswerPushes ==
    ASSUME Types, Queued, NEW o \in Clients, NEW c \in Clients, NEW kind \in {"rejoin", "deny"},
           Answer(o, c, kind)
    PROVE  /\ \A x \in Clients \ {o} : pushes'[x] = pushes[x]
           /\ pushes'[o] \in Seq(Letters) /\ Len(pushes'[o]) \in {1, 2}
           /\ pushes'[o][Len(pushes'[o])].a = Joined(kind, c)
           /\ pushes'[o][Len(pushes'[o])].to = {c}
           /\ Len(pushes'[o]) = 2 => /\ pushes'[o][1].a = User("knockcancel", c, "none")
                                     /\ pushes'[o][1].to = Ops
           /\ Ops # {} => Len(pushes'[o]) = 2
<1>0. PICK S, T, a, b : /\ S = Ops /\ a = User("knockcancel", c, "none")
                        /\ T = {c} /\ b = Joined(kind, c)
  OBVIOUS
<1>1. PICK s, t : s = For(S, a) /\ t = For(T, b)
  OBVIOUS
<1>2. S \in SUBSET Clients /\ T \in SUBSET Clients /\ T # {}
  BY <1>0 DEF Types, Ops
<1>3. a \in ActionSet /\ a.t # "control" /\ b \in ActionSet /\ b.t # "control"
  BY <1>0, Messages DEF Tame
<1>4. /\ s \in Seq(Letters) /\ Len(s) \in {0, 1} /\ (S # {} => Len(s) = 1)
      /\ \A k \in 1 .. Len(s) : s[k].a = a /\ s[k].to = S
  <2>1. /\ For(S, a) \in Seq(Letters) /\ Len(For(S, a)) \in {0, 1}
        /\ S # {} => Len(For(S, a)) = 1
        /\ \A k \in 1 .. Len(For(S, a)) :
              For(S, a)[k].a = a /\ For(S, a)[k].to = S /\ S # {}
    BY Zenon, <1>2, <1>3, ForIs
  <2> QED
    BY Zenon, <1>1, <2>1
<1>5. /\ t \in Seq(Letters) /\ Len(t) = 1 /\ t[1].a = b /\ t[1].to = T
  <2>0. /\ For(T, b) \in Seq(Letters) /\ Len(For(T, b)) \in {0, 1}
        /\ T # {} => Len(For(T, b)) = 1
        /\ \A k \in 1 .. Len(For(T, b)) :
              For(T, b)[k].a = b /\ For(T, b)[k].to = T /\ T # {}
    BY Zenon, <1>2, <1>3, ForIs
  <2>1. /\ t \in Seq(Letters) /\ Len(t) \in {0, 1} /\ (T # {} => Len(t) = 1)
        /\ \A k \in 1 .. Len(t) : t[k].a = b /\ t[k].to = T
    BY Zenon, <1>1, <2>0
  <2>2. Len(t) = 1
    BY <1>2, <2>1
  <2>3. 1 \in 1 .. Len(t)
    BY <2>2
  <2> QED
    BY <2>1, <2>2, <2>3
<1>6. /\ s \o t \in Seq(Letters) /\ Len(s \o t) = Len(s) + 1
      /\ (s \o t)[Len(s) + 1] = t[1]
      /\ \A k \in 1 .. Len(s) : (s \o t)[k] = s[k]
  <2>1. s \in Seq(Letters) /\ t \in Seq(Letters)
    BY <1>4, <1>5
  <2>2. \A k \in 1 .. Len(s) : (s \o t)[k] = s[k]
    BY <2>1, Both
  <2>3. \A k \in 1 .. Len(t) : (s \o t)[Len(s) + k] = t[k]
    BY <2>1, Both
  <2>4. s \o t \in Seq(Letters) /\ Len(s \o t) = Len(s) + Len(t)
    BY <2>1
  <2>5. Len(t) = 1 /\ 1 \in 1 .. Len(t)
    BY <1>5
  <2> QED
    BY <2>2, <2>3, <2>4, <2>5
<1>7. pushes'[o] = s \o t /\ \A x \in Clients \ {o} : pushes'[x] = pushes[x]
  BY <1>0, <1>1 DEF Answer, Queued
<1>8. Len(s) + 1 \in {1, 2} /\ (Len(s) = 1 => Len(s) + 1 = 2)
  <2>1. PICK n : n = Len(s)
    OBVIOUS
  <2>2. n = 0 \/ n = 1
    BY <1>4, <2>1
  <2>3. n + 1 \in {1, 2} /\ (n = 1 => n + 1 = 2)
    BY <2>2
  <2> QED
    BY <2>1, <2>3
<1>9. Len(s \o t) = 2 => (s \o t)[1].a = a /\ (s \o t)[1].to = S
  BY <1>4, <1>6
<1> QED
  BY <1>0, <1>4, <1>5, <1>6, <1>7, <1>8, <1>9

\* A goroutine has something to push only while it pushes, or leaves.
LEMMA PostsStep ==
    ASSUME Types, Queued, Posts, PageStep
    PROVE  Posts'
<1> SUFFICES ASSUME NEW x \in Clients
             PROVE  /\ pushes'[x] # <<>> => stage'[x] \in {"push", "leave"}
                    /\ \A k \in 1 .. Len(pushes'[x]) : Post(x, k)'
  BY DEF Posts
<1>0. /\ stage \in [Clients -> Stages] /\ pushes \in [Clients -> Seq(Letters)]
  BY DEF Types, Queued
<1>1. /\ pushes[x] # <<>> => stage[x] \in {"push", "leave"}
      /\ \A k \in 1 .. Len(pushes[x]) : Post(x, k)
  BY DEF Posts
<1>2. CASE pushes'[x] = <<>>
  BY <1>2
<1>3. CASE pushes'[x] = pushes[x] /\ stage'[x] = stage[x] /\ (x \notin members => x \notin members')
  <2>1. ASSUME NEW k \in 1 .. Len(pushes[x])
        PROVE  Post(x, k)'
    BY <1>1, <1>3, <2>1 DEF Post
  <2> QED
    BY <1>1, <1>3, <2>1
<1>4. CASE Aside
  BY <1>3, <1>4 DEF Aside
<1>5. ASSUME NEW c \in Clients, Called(c) \/ TakeUser(c) \/ TakeJoined(c)
      PROVE  pushes'[x] = pushes[x] /\ stage'[x] = stage[x] /\ members' = members
  BY <1>5 DEF Called, TakeUser, TakeJoined, groupVars, clientVars
<1>6. ASSUME NEW c \in Clients, Departs(c), x # c
      PROVE  pushes'[x] = pushes[x] /\ stage'[x] = stage[x] /\ (x \notin members => x \notin members')
  BY <1>0, <1>6 DEF Departs, BeginLeave
<1>7. ASSUME Departs(x)
      PROVE  /\ stage'[x] = "leave"
             /\ \A k \in 1 .. Len(pushes'[x]) : Post(x, k)'
  <2>1. stage'[x] = "leave" /\ (joined[x] /\ x \in members => x \notin members')
    BY <1>0, <1>7 DEF Departs, BeginLeave
  <2>2. ASSUME NEW k \in 1 .. Len(pushes'[x])
        PROVE  Post(x, k)'
    <3>1. pushes'[x][k] \in In(pushes'[x])
      BY <2>2 DEF In
    <3>2. PICK b : b = pushes'[x][k]
      OBVIOUS
    <3>3. \/ b = Batch(Ops, User("knockcancel", x, "none"))
          \/ b = Batch({x}, Joined("leave", x))
          \/ joined[x] /\ x \in members /\ b = Batch(members \ {x}, User("delete", x, "none"))
      BY <1>7, <3>1, <3>2, DepartsSays
    <3>4. \/ b.a = User("knockcancel", x, "none")
          \/ b.a = Joined("leave", x) /\ b.to = {x}
          \/ x \notin members' /\ b.a = User("delete", x, "none")
      BY <2>1, <3>3 DEF Batch
    <3> QED
      BY <2>1, <3>2, <3>4 DEF Post
  <2> QED
    BY <2>1, <2>2
<1>8. ASSUME NEW c \in Clients, Push(c), x # c
      PROVE  pushes'[x] = pushes[x] /\ stage'[x] = stage[x] /\ members' = members
  BY <1>0, <1>8 DEF Push, groupVars
<1>9. ASSUME Push(x)
      PROVE  /\ pushes'[x] # <<>> => stage'[x] \in {"push", "leave"}
             /\ \A k \in 1 .. Len(pushes'[x]) : Post(x, k)'
  <2>1. PICK d \in Clients :
             /\ Len(pushes[x]) \in Nat \ {0}
             /\ pushes[x][1] \in Letters /\ d \in pushes[x][1].to
             /\ actions' = Put(actions, {d}, <<pushes[x][1].a>>)
             /\ \A y \in Clients \ {x} : pushes'[y] = pushes[y]
             /\ pushes'[x] \in Seq(Letters)
             /\ \/ /\ pushes[x][1].to = {d} /\ Len(pushes'[x]) = Len(pushes[x]) - 1
                   /\ \A k \in 1 .. Len(pushes[x]) - 1 : pushes'[x][k] = pushes[x][k + 1]
                \/ /\ pushes[x][1].to # {d} /\ Len(pushes'[x]) = Len(pushes[x])
                   /\ \A k \in 2 .. Len(pushes[x]) : pushes'[x][k] = pushes[x][k]
                   /\ pushes'[x][1].a = pushes[x][1].a /\ pushes'[x][1].to = pushes[x][1].to \ {d}
    BY <1>9, PushLeaves
  <2>2. /\ members' = members /\ (stage[x] = "leave" => stage'[x] = "leave")
        /\ pushes'[x] # <<>> => stage'[x] = stage[x]
        /\ pushes[x] # <<>>
    BY <1>0, <1>9 DEF Push, groupVars
  <2>3. CASE pushes[x][1].to = {d}
    <3>1. ASSUME NEW k \in 1 .. Len(pushes'[x])
          PROVE  Post(x, k)'
      <4>1. k \in 1 .. Len(pushes[x]) - 1 /\ Len(pushes'[x]) = Len(pushes[x]) - 1
        BY <2>1, <2>3
      <4>2. k + 1 \in 1 .. Len(pushes[x]) /\ pushes'[x][k] = pushes[x][k + 1]
        BY <2>1, <2>3, <4>1
      <4>3. PICK b : b = pushes'[x][k]
        OBVIOUS
      <4>4. Post(x, k + 1) /\ pushes[x][k + 1] = b
        BY <1>1, <4>2, <4>3
      <4>5. k + 1 = Len(pushes[x]) => k = Len(pushes'[x])
        BY <2>1, <4>1
      <4> QED
        BY <2>2, <4>3, <4>4, <4>5 DEF Post
    <3> QED
      BY <1>1, <2>2, <3>1
  <2>4. CASE pushes[x][1].to # {d}
    <3>1. ASSUME NEW k \in 1 .. Len(pushes'[x])
          PROVE  Post(x, k)'
      <4>1. k \in 1 .. Len(pushes[x]) /\ Len(pushes'[x]) = Len(pushes[x])
        BY <2>1, <2>4
      <4>2. CASE k # 1
        <5>1. pushes'[x][k] = pushes[x][k]
          BY <2>1, <2>4, <4>1, <4>2
        <5>2. PICK b : b = pushes'[x][k]
          OBVIOUS
        <5>3. Post(x, k) /\ pushes[x][k] = b
          BY <1>1, <4>1, <5>1, <5>2
        <5> QED
          BY <2>2, <4>1, <5>2, <5>3 DEF Post
      <4>3. CASE k = 1
        <5>1. PICK b, e : b = pushes[x][1] /\ e = pushes'[x][1]
          OBVIOUS
        <5>2. e.a = b.a /\ Post(x, 1) /\ b.to # {d} /\ d \in b.to
          BY <1>1, <2>1, <2>4, <4>1, <4>3, <5>1
        <5>3. \/ b.a = User("delete", x, "none") /\ stage[x] = "leave" /\ x \notin members
              \/ \E y \in Clients : b.a = User("knockcancel", y, "none")
          BY <5>1, <5>2 DEF Post
        <5> QED
          BY <2>2, <4>3, <5>1, <5>2, <5>3 DEF Post
      <4> QED
        BY <4>2, <4>3
    <3> QED
      BY <1>1, <2>2, <3>1
  <2> QED
    BY <2>3, <2>4
<1>10. ASSUME NEW c \in Clients, FinishLeave(c)
       PROVE  pushes' = pushes /\ members' = members /\ (x = c => pushes[x] = <<>>)
              /\ (x # c => stage'[x] = stage[x])
  BY <1>0, <1>10 DEF FinishLeave
<1>11. ASSUME NEW c \in Clients, NEW cred \in Creds3,
              Join(c, cred) \/ Enter(c, cred) \/ Knock(c, cred) \/ Refused(c, cred)
       PROVE  /\ pushes' = pushes /\ (x = c => pushes[x] = <<>>)
              /\ x # c => stage'[x] = stage[x] /\ (x \notin members => x \notin members')
  <2>1. pushes' = pushes
    BY <1>11 DEF Join, Enter, Knock, Refused, queueVars
  <2>2. stage[c] \in {"idle", "op", "token", "guest"}
    BY <1>11 DEF Join, Enter, Knock, Refused, SecondHalf
  <2>3. x # c => stage'[x] = stage[x] /\ (x \notin members => x \notin members')
    BY <1>0, <1>11 DEF Join, Enter, Knock, Refused, SecondHalf
  <2> QED
    BY <1>1, <2>1, <2>2, <2>3
<1>12. ASSUME NEW o \in Clients, NEW c \in Clients, NEW kind \in {"rejoin", "deny"},
              Answer(o, c, kind), x # o
       PROVE  pushes'[x] = pushes[x] /\ stage'[x] = stage[x] /\ members' = members
  BY <1>0, <1>12 DEF Answer
<1>13. ASSUME NEW c \in Clients, NEW kind \in {"rejoin", "deny"}, Answer(x, c, kind)
       PROVE  /\ stage'[x] = "push"
              /\ \A k \in 1 .. Len(pushes'[x]) : Post(x, k)'
  <2>1. stage'[x] = "push"
    BY <1>0, <1>13 DEF Answer
  <2>2. /\ Len(pushes'[x]) \in {1, 2}
        /\ pushes'[x][Len(pushes'[x])].a = Joined(kind, c)
        /\ pushes'[x][Len(pushes'[x])].to = {c}
        /\ Len(pushes'[x]) = 2 => pushes'[x][1].a = User("knockcancel", c, "none")
    BY <1>13, AnswerPushes
  <2>3. ASSUME NEW k \in 1 .. Len(pushes'[x])
        PROVE  Post(x, k)'
    <3>1. k = Len(pushes'[x]) \/ (k = 1 /\ Len(pushes'[x]) = 2)
      BY <2>2
    <3> QED
      BY <2>2, <3>1 DEF Post
  <2> QED
    BY <2>1, <2>3
<1> QED
  BY <1>2, <1>3, <1>4, <1>5, <1>6, <1>7, <1>8, <1>9, <1>10, <1>11, <1>12, <1>13 DEF PageStep

-----------------------------------------------------------------------------
(* Whose turn it is.                                                       *)

\* What is not in s is not added with it.
LEMMA PutAdds ==
    ASSUME NEW q \in [Clients -> Seq(Tame)], NEW to, NEW s \in Seq(Tame), NEW d \in Clients,
           \A k \in 1 .. Len(s) : ~Rejoins(s[k])
    PROVE  \A k \in 1 .. Len(Put(q, to, s)[d]) :
              Rejoins(Put(q, to, s)[d][k]) => k \in 1 .. Len(q[d]) /\ Rejoins(q[d][k])
<1>1. Put(q, to, s)[d] = q[d] \/ Put(q, to, s)[d] = q[d] \o s
  BY Zenon DEF Put
<1>2. PICK r, h : r = q[d] /\ h = Put(q, to, s)[d]
  OBVIOUS
<1>3. r \in Seq(Tame) /\ Len(r) \in Nat
  BY <1>2
<1>4. CASE h = r
  BY <1>2, <1>4
<1>5. CASE h = r \o s
  <2>1. TAKE k \in 1 .. Len(Put(q, to, s)[d])
  <2>2. HAVE Rejoins(Put(q, to, s)[d][k])
  <2>3. k \in 1 .. Len(r) + Len(s) /\ Rejoins((r \o s)[k])
    BY <1>2, <1>3, <1>5, <2>2
  <2>4. CASE k \in 1 .. Len(r)
    <3>1. (r \o s)[k] = r[k]
      BY <1>3, <2>4
    <3> QED
      BY <1>2, <2>3, <2>4, <3>1
  <2>5. CASE k \notin 1 .. Len(r)
    <3>1. k - Len(r) \in 1 .. Len(s) /\ (r \o s)[k] = s[k - Len(r)]
      BY <1>3, <2>3, <2>5
    <3> QED
      BY <2>3, <3>1
  <2> QED
    BY <2>4, <2>5
<1> QED
  BY <1>1, <1>2, <1>4, <1>5

\* A step in which d's turn stays where it is, or ends.
LEMMA LessTurns ==
    ASSUME NEW d \in Clients, OneTurn(d), NEW s \in {0, 1},
           ready'[d] => ready[d], Asks(d)' => Asks(d), d \in knocking' => d \in knocking,
           \A x \in Clients : Answers(x, d)' => Answers(x, d),
           \A k \in 1 .. Len(actions'[d]) :
              Rejoins(actions'[d][k]) => k + s \in 1 .. Len(actions[d]) /\ Asked(d, k + s)
    PROVE  OneTurn(d)'
<1>1. \A x \in Clients : Answers(x, d)' => /\ ~ready'[d] /\ ~Asks(d)' /\ d \notin knocking'
                                           /\ \A y \in Clients : Answers(y, d)' => x = y
  BY DEF OneTurn
<1>2. ASSUME NEW k \in 1 .. Len(actions'[d]), Rejoins(actions'[d][k])
      PROVE  /\ ~ready'[d] /\ ~Asks(d)' /\ d \notin knocking'
             /\ \A x \in Clients : ~Answers(x, d)'
             /\ \A j \in 1 .. Len(actions'[d]) : Rejoins(actions'[d][j]) => j = k
  <2>1. k + s \in 1 .. Len(actions[d]) /\ Asked(d, k + s)
    BY <1>2
  <2>2. /\ ~ready[d] /\ ~Asks(d) /\ d \notin knocking
        /\ \A x \in Clients : ~Answers(x, d)
        /\ \A j \in 1 .. Len(actions[d]) : Asked(d, j) => j = k + s
    BY <2>1 DEF OneTurn
  <2>3. ASSUME NEW j \in 1 .. Len(actions'[d]), Rejoins(actions'[d][j]) PROVE j = k
    <3>1. j + s = k + s
      BY <2>2, <2>3
    <3> QED
      BY <3>1
  <2> QED
    BY <2>2, <2>3
<1> QED
  BY <1>1, <1>2 DEF OneTurn, Asked

\* A step that does not touch what is queued for d.
LEMMA SameTurns ==
    ASSUME NEW d \in Clients, OneTurn(d), ready'[d] => ready[d], Asks(d)' => Asks(d),
           d \in knocking' => d \in knocking,
           \A x \in Clients : Answers(x, d)' => Answers(x, d), actions'[d] = actions[d],
           actions[d] \in Seq(Tame)
    PROVE  OneTurn(d)'
<1>1. PICK s \in {0, 1} : s = 0
  OBVIOUS
<1>2. ASSUME NEW k \in 1 .. Len(actions'[d]), Rejoins(actions'[d][k])
      PROVE  k + s \in 1 .. Len(actions[d]) /\ Asked(d, k + s)
  <2>1. k + s = k /\ k \in 1 .. Len(actions[d])
    BY <1>1
  <2> QED
    BY <1>2, <2>1 DEF Asked
<1> QED
  BY <1>2, LessTurns

\* A step in which more is queued for d, but no "rejoin".
LEMMA PutTurns ==
    ASSUME Queued, NEW d \in Clients, OneTurn(d), ready'[d] => ready[d], Asks(d)' => Asks(d),
           d \in knocking' => d \in knocking,
           \A x \in Clients : Answers(x, d)' => Answers(x, d),
           NEW to, NEW a \in Tame, ~Rejoins(a), actions' = Put(actions, to, <<a>>)
    PROVE  OneTurn(d)'
<1>0. actions \in [Clients -> Seq(Tame)]
  BY DEF Queued
<1>1. PICK s \in {0, 1} : s = 0
  OBVIOUS
<1>2. PICK h : h = <<a>>
  OBVIOUS
<1>3. h \in Seq(Tame) /\ \A k \in 1 .. Len(h) : ~Rejoins(h[k])
  BY <1>2
<1>4. \A k \in 1 .. Len(Put(actions, to, h)[d]) :
         Rejoins(Put(actions, to, h)[d][k]) => k \in 1 .. Len(actions[d]) /\ Rejoins(actions[d][k])
  BY <1>0, <1>3, PutAdds
<1>5. ASSUME NEW k \in 1 .. Len(actions'[d]), Rejoins(actions'[d][k])
      PROVE  k + s \in 1 .. Len(actions[d]) /\ Asked(d, k + s)
  <2>1. k \in 1 .. Len(actions[d]) /\ Rejoins(actions[d][k])
    BY <1>2, <1>4, <1>5
  <2>2. k + s = k
    BY <1>1, <2>1
  <2> QED
    BY <2>1, <2>2 DEF Asked
<1> QED
  BY <1>5, LessTurns

\* A step in which d's goroutine takes its next action.
LEMMA TailTurns ==
    ASSUME Queued, NEW d \in Clients, OneTurn(d), ready'[d] => ready[d], Asks(d)' => Asks(d),
           d \in knocking' => d \in knocking,
           \A x \in Clients : Answers(x, d)' => Answers(x, d),
           actions[d] # <<>>, actions'[d] = Tail(actions[d])
    PROVE  OneTurn(d)'
<1>0. actions[d] \in Seq(Tame)
  BY DEF Queued
<1>1. PICK s \in {0, 1} : s = 1
  OBVIOUS
<1>2. ASSUME NEW k \in 1 .. Len(actions'[d]), Rejoins(actions'[d][k])
      PROVE  k + s \in 1 .. Len(actions[d]) /\ Asked(d, k + s)
  <2>1. k + 1 \in 1 .. Len(actions[d]) /\ actions'[d][k] = actions[d][k + 1]
    BY <1>0
  <2> QED
    BY <1>1, <1>2, <2>1 DEF Asked
<1> QED
  BY <1>2, LessTurns

\* What a step changes of whose turn it is: the bundled page asks only when it
\* is ready to, and an operator answers a knock once.
LEMMA TurnsStep ==
    ASSUME BundledPage, Types, Queued, Posts, Turns, PageStep
    PROVE  Turns'
<1> SUFFICES ASSUME NEW d \in Clients PROVE OneTurn(d)'
  BY DEF Turns
<1>0. /\ stage \in [Clients -> Stages] /\ pushes \in [Clients -> Seq(Letters)]
      /\ actions \in [Clients -> Seq(Tame)] /\ ready \in [Clients -> BOOLEAN]
      /\ OneTurn(d)
  BY DEF Types, Queued, Turns
<1>1. CASE Aside
  BY <1>0, <1>1, SameTurns DEF Aside, pageVars, Asks, Answers
<1>2. ASSUME NEW c \in Clients, Called(c) PROVE OneTurn(d)'
  <2>1. PICK id \in Clients \cup {"auto", "op"} :
            actions' = Put(actions, {c}, <<Control("kick", id)>>)
    BY <1>2 DEF Called
  <2>2. Control("kick", id) \in Tame /\ ~Rejoins(Control("kick", id))
    BY Messages DEF Rejoins, Control
  <2>3. /\ ready' = ready /\ Asks(d)' = Asks(d) /\ knocking' = knocking
        /\ \A x \in Clients : Answers(x, d)' => Answers(x, d)
    BY <1>2 DEF Called, pageVars, Asks, Answers
  <2> QED
    BY <1>0, <2>1, <2>2, <2>3, PutTurns
<1>3. ASSUME NEW c \in Clients, Departs(c) PROVE OneTurn(d)'
  <2>1. /\ stage[c] = "idle" /\ stage' = [stage EXCEPT ![c] = "leave"] /\ ready' = ready
        /\ knocking' = IF waiting[c] THEN knocking \ {c} ELSE knocking
    BY <1>3 DEF Departs, BeginLeave, pageVars
  <2>2. ASSUME NEW x \in Clients, Answers(x, d)'
        PROVE  Answers(x, d) \/ (x = c /\ c = d /\ waiting[c] /\ c \in knocking)
    <3>1. CASE x # c
      BY <1>3, <2>2, <3>1, DepartsSays DEF Answers
    <3>2. CASE x = c
      <4>1. PICK k \in 1 .. Len(pushes'[c]) :
                \/ pushes'[c][k].a = Joined("rejoin", d)
                \/ pushes'[c][k].a = User("knockcancel", d, "none")
        BY <2>2, <3>2 DEF Answers
      <4>2. PICK b : b = pushes'[c][k]
        OBVIOUS
      <4>3. b \in In(pushes'[c])
        BY <4>2 DEF In
      <4>4. \/ /\ waiting[c] /\ c \in knocking
               /\ b = Batch(Ops, User("knockcancel", c, "none"))
            \/ b = Batch({c}, Joined("leave", c))
            \/ b = Batch(members \ {c}, User("delete", c, "none"))
        BY <1>3, <4>3, DepartsSays
      <4> QED
        BY <3>2, <4>1, <4>2, <4>4 DEF Batch, User, Joined
    <3> QED
      BY <3>1, <3>2
  <2>3. CASE d = c /\ waiting[c] /\ c \in knocking
    <3>1. /\ ~ready[d] /\ ~Asks(d) /\ \A x \in Clients : ~Answers(x, d)
          /\ \A k \in 1 .. Len(actions[d]) : ~Asked(d, k)
      BY <1>0, <2>3 DEF OneTurn
    <3>2. /\ ~ready'[d] /\ ~Asks(d)' /\ d \notin knocking'
          /\ \A x, y \in Clients : Answers(x, d)' /\ Answers(y, d)' => x = y
      BY <1>0, <2>1, <2>2, <2>3, <3>1 DEF Asks, Creds3
    <3>3. \A k \in 1 .. Len(actions'[d]) : ~Asked(d, k)'
      <4>1. CASE actions' = actions
        BY <3>1, <4>1 DEF Asked
      <4>2. CASE actions[d] # <<>> /\ actions'[d] = Tail(actions[d])
        <5>1. \A k \in 1 .. Len(actions'[d]) :
                 k + 1 \in 1 .. Len(actions[d]) /\ actions'[d][k] = actions[d][k + 1]
          BY <1>0, <4>2
        <5> QED
          BY <3>1, <5>1 DEF Asked
      <4> QED
        BY <1>0, <1>3, <2>3, <4>1, <4>2 DEF Departs
    <3> QED
      BY <3>2, <3>3 DEF OneTurn
  <2>4. CASE ~(d = c /\ waiting[c] /\ c \in knocking)
    <3>1. /\ ready'[d] => ready[d] /\ (Asks(d)' => Asks(d))
          /\ d \in knocking' => d \in knocking
      BY <1>0, <2>1 DEF Asks, Creds3
    <3>2. \A x \in Clients : Answers(x, d)' => Answers(x, d)
      BY <2>2, <2>4
    <3>3. (Asks(d)' => Asks(d)) /\ (ready'[d] => ready[d]) /\ (d \in knocking' => d \in knocking)
      BY <1>0, <2>1 DEF Asks, Creds3
    <3>4. \/ actions'[d] = actions[d]
          \/ actions[d] # <<>> /\ actions'[d] = Tail(actions[d])
      BY <1>0, <1>3 DEF Departs
    <3>5. actions[d] \in Seq(Tame)
      BY <1>0
    <3>6. CASE actions'[d] = actions[d]
      BY <1>0, <3>2, <3>3, <3>5, <3>6, SameTurns
    <3>7. CASE actions[d] # <<>> /\ actions'[d] = Tail(actions[d])
      BY <1>0, <3>2, <3>3, <3>7, TailTurns
    <3> QED
      BY <3>4, <3>6, <3>7
  <2> QED
    BY <2>3, <2>4
<1>4. ASSUME NEW c \in Clients, Push(c) PROVE OneTurn(d)'
  <2>1. PICK e \in Clients :
             /\ Len(pushes[c]) \in Nat \ {0}
             /\ pushes[c][1] \in Letters /\ e \in pushes[c][1].to
             /\ actions' = Put(actions, {e}, <<pushes[c][1].a>>)
             /\ \A y \in Clients \ {c} : pushes'[y] = pushes[y]
             /\ pushes'[c] \in Seq(Letters)
             /\ \/ /\ pushes[c][1].to = {e} /\ Len(pushes'[c]) = Len(pushes[c]) - 1
                   /\ \A k \in 1 .. Len(pushes[c]) - 1 : pushes'[c][k] = pushes[c][k + 1]
                \/ /\ pushes[c][1].to # {e} /\ Len(pushes'[c]) = Len(pushes[c])
                   /\ \A k \in 2 .. Len(pushes[c]) : pushes'[c][k] = pushes[c][k]
                   /\ pushes'[c][1].a = pushes[c][1].a /\ pushes'[c][1].to = pushes[c][1].to \ {e}
    BY <1>4, PushLeaves
  <2>2. ready' = ready /\ knocking' = knocking /\ (Asks(d)' => Asks(d))
    BY <1>0, <1>4 DEF Push, pageVars, groupVars, Asks, Creds3
  <2>3. ASSUME NEW x \in Clients, Answers(x, d)' PROVE Answers(x, d)
    <3>1. CASE x # c
      BY <2>1, <2>3, <3>1 DEF Answers
    <3>2. CASE x = c
      <4>1. PICK k \in 1 .. Len(pushes'[c]) :
                \/ pushes'[c][k].a = Joined("rejoin", d)
                \/ pushes'[c][k].a = User("knockcancel", d, "none")
        BY <2>3, <3>2 DEF Answers
      <4>2. PICK n \in Nat : n = Len(pushes[c]) /\ n > 0
        BY <2>1
      <4>3. \E j \in 1 .. n : pushes[c][j].a = pushes'[c][k].a
        <5>1. CASE pushes[c][1].to = {e}
          <6>1. k \in 1 .. n - 1 /\ pushes'[c][k] = pushes[c][k + 1] /\ k + 1 \in 1 .. n
            BY <2>1, <4>1, <4>2, <5>1
          <6> QED
            BY <6>1
        <5>2. CASE pushes[c][1].to # {e} /\ k # 1
          <6>1. k \in 2 .. n /\ pushes'[c][k] = pushes[c][k]
            BY <2>1, <4>1, <4>2, <5>2
          <6> QED
            BY <6>1
        <5>3. CASE pushes[c][1].to # {e} /\ k = 1
          <6>1. 1 \in 1 .. n /\ pushes'[c][k].a = pushes[c][1].a
            BY <2>1, <4>2, <5>3
          <6> QED
            BY <6>1
        <5> QED
          BY <5>1, <5>2, <5>3
      <4> QED
        BY <3>2, <4>1, <4>2, <4>3 DEF Answers
    <3> QED
      BY <3>1, <3>2
  <2>4. PICK b : b = pushes[c][1]
    OBVIOUS
  <2>5. b.a \in Tame
    BY <2>1, <2>4 DEF Letters, Batches, Tame
  <2>6. CASE ~Rejoins(b.a)
    BY <1>0, <2>1, <2>2, <2>3, <2>4, <2>5, <2>6, PutTurns
  <2>7. CASE Rejoins(b.a)
    <3>1. 1 \in 1 .. Len(pushes[c]) /\ Post(c, 1)
      BY <2>1 DEF Posts
    <3>2. b.to = {e} /\ Len(pushes[c]) = 1 /\ b.a = Joined("rejoin", e)
      <4>1. PICK f \in Clients : /\ b.a = Joined("rejoin", f) \/ b.a = Joined("deny", f)
                                 /\ b.to = {f} /\ 1 = Len(pushes[c])
        <5>1. /\ ~Rejoins(User("delete", c, "none")) /\ ~Rejoins(Joined("leave", c))
              /\ \A f \in Clients : ~Rejoins(User("knockcancel", f, "none"))
          BY DEF Rejoins, User, Joined
        <5> QED
          BY <2>4, <2>7, <3>1, <5>1 DEF Post
      <4> QED
        BY <2>1, <2>4, <2>7, <4>1 DEF Rejoins, Joined
    <3>3. CASE d # e
      <4>1. actions'[d] = actions[d]
        BY <1>0, <2>1, <3>3 DEF Put
      <4> QED
        BY <1>0, <2>2, <2>3, <4>1, SameTurns
    <3>4. CASE d = e
      <4>1. Answers(c, d)
        BY <2>4, <3>1, <3>2, <3>4 DEF Answers
      <4>2. /\ ~ready[d] /\ ~Asks(d) /\ d \notin knocking
            /\ \A x \in Clients : Answers(x, d) => x = c
            /\ \A k \in 1 .. Len(actions[d]) : ~Asked(d, k)
        BY <1>0, <4>1 DEF OneTurn
      <4>3. \A x \in Clients : ~Answers(x, d)'
        <5>1. ~Answers(c, d)'
          BY <2>1, <2>4, <3>2 DEF Answers
        <5> QED
          BY <2>3, <4>2, <5>1
      <4>4. \A j, k \in 1 .. Len(actions'[d]) : Asked(d, j)' /\ Asked(d, k)' => j = k
        <5>1. PICK h : h = actions[d]
          OBVIOUS
        <5>2. h \in Seq(Tame) /\ Len(h) \in Nat
          BY <1>0, <5>1
        <5>3. actions'[d] = h \/ actions'[d] = h \o <<b.a>>
          BY <1>0, <2>1, <2>4, <5>1 DEF Put
        <5>4. \A k \in 1 .. Len(h \o <<b.a>>) : k = Len(h) + 1 \/ (k \in 1 .. Len(h) /\ (h \o <<b.a>>)[k] = h[k])
          BY <2>5, <5>2
        <5> QED
          BY <4>2, <5>1, <5>2, <5>3, <5>4 DEF Asked
      <4> QED
        BY <2>2, <4>2, <4>3, <4>4 DEF OneTurn
    <3> QED
      BY <3>3, <3>4
  <2> QED
    BY <2>6, <2>7
<1>5. ASSUME NEW c \in Clients, FinishLeave(c) PROVE OneTurn(d)'
  <2>1. /\ ready' = ready /\ knocking' = knocking /\ (Asks(d)' => Asks(d))
        /\ \A x \in Clients : Answers(x, d)' => Answers(x, d)
    BY <1>0, <1>5 DEF FinishLeave, Asks, Answers, Creds3
  <2>2. actions'[d] = actions[d] \/ actions'[d] = <<>>
    BY <1>0, <1>5 DEF FinishLeave
  <2>3. CASE actions'[d] = actions[d]
    BY <1>0, <2>1, <2>3, SameTurns
  <2>4. CASE actions'[d] = <<>>
    BY <1>0, <2>1, <2>4 DEF OneTurn, Asked
  <2> QED
    BY <2>2, <2>3, <2>4
<1>6. ASSUME NEW c \in Clients, TakeUser(c) PROVE OneTurn(d)'
  <2>1. /\ ready' = ready /\ knocking' = knocking /\ (Asks(d)' => Asks(d))
        /\ \A x \in Clients : Answers(x, d)' => Answers(x, d)
        /\ actions[c] # <<>> /\ actions' = [actions EXCEPT ![c] = Tail(@)]
    BY <1>6 DEF TakeUser, Taken, groupVars, clientVars, Asks, Answers
  <2>2. CASE d = c
    BY <1>0, <2>1, <2>2, TailTurns
  <2>3. CASE d # c
    <3>1. actions'[d] = actions[d]
      BY <1>0, <2>1, <2>3
    <3> QED
      BY <1>0, <2>1, <3>1, SameTurns
  <2> QED
    BY <2>2, <2>3
<1>7. ASSUME NEW c \in Clients, TakeJoined(c) PROVE OneTurn(d)'
  <2>1. /\ knocking' = knocking /\ Asks(d)' = Asks(d)
        /\ \A x \in Clients : Answers(x, d)' = Answers(x, d)
        /\ actions[c] # <<>> /\ actions' = [actions EXCEPT ![c] = Tail(@)]
        /\ Head(actions[c]).t = "joined"
        /\ ready' = [ready EXCEPT ![c] = (ready[c] \/ Head(actions[c]).kind = "rejoin")]
    BY <1>7 DEF TakeJoined, Taken, groupVars, clientVars, Asks, Answers
  <2>2. CASE d # c
    <3>1. actions'[d] = actions[d] /\ ready'[d] = ready[d]
      BY <1>0, <2>1, <2>2
    <3> QED
      BY <1>0, <2>1, <3>1, SameTurns
  <2>3. CASE d = c /\ ~Rejoins(Head(actions[d]))
    <3>1. ready'[d] => ready[d]
      BY <1>0, <2>1, <2>3 DEF Rejoins
    <3>2. actions[d] # <<>> /\ actions'[d] = Tail(actions[d])
      BY <1>0, <2>1, <2>3
    <3> QED
      BY <1>0, <2>1, <3>1, <3>2, TailTurns
  <2>4. CASE d = c /\ Rejoins(Head(actions[d]))
    <3>1. PICK h : h = actions[d]
      OBVIOUS
    <3>2. /\ h \in Seq(Tame) /\ Len(h) \in Nat \ {0} /\ Head(h) = h[1] /\ 1 \in 1 .. Len(h)
          /\ \A k \in 1 .. Len(Tail(h)) : k + 1 \in 1 .. Len(h) /\ k + 1 # 1 /\ Tail(h)[k] = h[k + 1]
      BY <1>0, <2>1, <2>4, <3>1
    <3>3. Asked(d, 1)
      BY <2>4, <3>1, <3>2 DEF Asked
    <3>4. /\ ~Asks(d) /\ d \notin knocking
          /\ \A x \in Clients : ~Answers(x, d)
          /\ \A j \in 1 .. Len(actions[d]) : Asked(d, j) => j = 1
      BY <1>0, <3>1, <3>2, <3>3 DEF OneTurn
    <3>5. actions'[d] = Tail(h)
      BY <1>0, <2>1, <2>4, <3>1
    <3>6. \A k \in 1 .. Len(actions'[d]) : ~Asked(d, k)'
      BY <3>1, <3>2, <3>4, <3>5 DEF Asked
    <3> QED
      BY <2>1, <3>4, <3>6 DEF OneTurn
  <2> QED
    BY <2>2, <2>3, <2>4
<1>8. ASSUME NEW c \in Clients, NEW cred \in Creds3, Join(c, cred) PROVE OneTurn(d)'
  <2>1. /\ ready[c] /\ ready' = [ready EXCEPT ![c] = FALSE]
        /\ stage' = [stage EXCEPT ![c] = cred]
        /\ UNCHANGED <<knocking, actions, pushes>>
    BY <1>8 DEF Join
  <2>2. CASE d = c
    <3>1. /\ d \notin knocking /\ \A x \in Clients : ~Answers(x, d)
          /\ \A k \in 1 .. Len(actions[d]) : ~Asked(d, k)
      BY <1>0, <2>1, <2>2 DEF OneTurn
    <3>2. ~ready'[d]
      BY <1>0, <2>1, <2>2
    <3> QED
      BY <2>1, <3>1, <3>2 DEF OneTurn, Asked, Answers
  <2>3. CASE d # c
    <3>1. ready'[d] = ready[d] /\ Asks(d)' = Asks(d)
      BY <1>0, <2>1, <2>3 DEF Asks
    <3> QED
      BY <1>0, <2>1, <3>1, SameTurns DEF Answers
  <2> QED
    BY <2>2, <2>3
<1>9. ASSUME NEW c \in Clients, NEW cred \in Creds3, Enter(c, cred) PROVE OneTurn(d)'
  <2> DEFINE news == <<User("add", c, IF cred = "op" THEN "op" ELSE "user")>>
  <2>1. /\ ready' = ready /\ knocking' = knocking /\ (Asks(d)' => Asks(d))
        /\ \A x \in Clients : Answers(x, d)' => Answers(x, d)
    BY <1>0, <1>9 DEF Enter, SecondHalf, pageVars, Asks, Answers, Creds3
  <2>2. PICK isOp \in BOOLEAN : isOp = (cred = "op")
    OBVIOUS
  <2>3. PICK hello : hello = Welcome(c, isOp)
    OBVIOUS
  <2>4. actions' = Put(Put(actions, {c}, hello), members, news)
    BY <1>9, <2>2, <2>3 DEF Enter
  <2>5. /\ hello \in Seq(ActionSet)
        /\ In(hello) = {Joined("join", c), User("add", c, IF isOp THEN "op" ELSE "user")}
                       \cup Adds \cup (IF isOp THEN Knocks ELSE {})
    <3>1. members \subseteq Clients /\ knocking \subseteq Clients
          /\ IsFiniteSet(members) /\ IsFiniteSet(knocking)
      BY DEF Types, Queued
    <3> QED
      BY <2>3, <3>1, WelcomeSays
  <2>6. In(hello) \subseteq Tame /\ \A a \in In(hello) : ~Rejoins(a)
    <3>1. Adds \subseteq Tame /\ Knocks \subseteq Tame
      BY Messages DEF Adds, Knocks, Role, Types
    <3>2. Joined("join", c) \in Tame /\ User("add", c, IF isOp THEN "op" ELSE "user") \in Tame
      BY Messages
    <3>3. \A a \in Adds \cup Knocks : ~Rejoins(a)
      BY DEF Adds, Knocks, User, Rejoins
    <3>4. ~Rejoins(Joined("join", c)) /\ ~Rejoins(User("add", c, IF isOp THEN "op" ELSE "user"))
      BY DEF Joined, User, Rejoins
    <3> QED
      BY <2>5, <3>1, <3>2, <3>3, <3>4
  <2>7. \A k \in 1 .. Len(hello) : hello[k] \in Tame /\ ~Rejoins(hello[k])
    BY <2>6 DEF In
  <2>8. hello \in Seq(Tame)
    BY <2>5, <2>7
  <2>9. PICK q : q = Put(actions, {c}, hello)
    OBVIOUS
  <2>10. q \in [Clients -> Seq(Tame)]
    BY <1>0, <2>8, <2>9, PutIs
  <2>11. \A k \in 1 .. Len(q[d]) :
            Rejoins(q[d][k]) => k \in 1 .. Len(actions[d]) /\ Rejoins(actions[d][k])
    BY <1>0, <2>7, <2>8, <2>9, PutAdds
  <2>12. PICK s : s = news
    OBVIOUS
  <2>13. s \in Seq(Tame) /\ \A k \in 1 .. Len(s) : ~Rejoins(s[k])
    <3>1. PICK a : a = User("add", c, IF cred = "op" THEN "op" ELSE "user")
      OBVIOUS
    <3>2. a \in Tame
      BY <3>1, Messages
    <3>3. ~Rejoins(a)
      BY <3>1 DEF User, Rejoins
    <3>4. s = <<a>>
      BY <2>12, <3>1
    <3> QED
      BY <3>2, <3>3, <3>4
  <2>14. \A k \in 1 .. Len(Put(q, members, s)[d]) :
            Rejoins(Put(q, members, s)[d][k]) => k \in 1 .. Len(q[d]) /\ Rejoins(q[d][k])
    BY <2>10, <2>13, PutAdds
  <2>15. PICK z \in {0, 1} : z = 0
    OBVIOUS
  <2>16. ASSUME NEW k \in 1 .. Len(actions'[d]), Rejoins(actions'[d][k])
         PROVE  k + z \in 1 .. Len(actions[d]) /\ Asked(d, k + z)
    <3>1. k \in 1 .. Len(actions[d]) /\ Rejoins(actions[d][k])
      BY <2>4, <2>9, <2>11, <2>12, <2>14, <2>16
    <3>2. k + z = k
      BY <2>15, <3>1
    <3> QED
      BY <3>1, <3>2 DEF Asked
  <2> QED
    BY <1>0, <2>1, <2>16, LessTurns
<1>10. ASSUME NEW c \in Clients, NEW cred \in Creds3, Knock(c, cred) PROVE OneTurn(d)'
  <2>1. /\ stage[c] = cred /\ stage' = [stage EXCEPT ![c] = "idle"]
        /\ knocking' = knocking \cup {c} /\ ready' = ready /\ pushes' = pushes
        /\ actions' = Put(actions, Ops, <<User("knock", c, "none")>>)
    BY <1>10 DEF Knock, SecondHalf, pageVars
  <2>2. PICK a : a = User("knock", c, "none")
    OBVIOUS
  <2>3. a \in Tame /\ ~Rejoins(a)
    BY <2>2, Messages DEF Rejoins, User
  <2>4. CASE d = c
    <3>1. Asks(d)
      BY <2>1, <2>4 DEF Asks
    <3>2. /\ ~ready[d] /\ \A x \in Clients : ~Answers(x, d)
          /\ \A k \in 1 .. Len(actions[d]) : ~Asked(d, k)
      BY <1>0, <3>1 DEF OneTurn
    <3>3. ~Asks(d)'
      BY <1>0, <2>1, <2>4 DEF Asks, Creds3
    <3>4. PICK s : s = <<a>>
      OBVIOUS
    <3>5. s \in Seq(Tame) /\ \A k \in 1 .. Len(s) : ~Rejoins(s[k])
      BY <2>3, <3>4
    <3>6. \A k \in 1 .. Len(Put(actions, Ops, s)[d]) :
             Rejoins(Put(actions, Ops, s)[d][k]) => k \in 1 .. Len(actions[d]) /\ Rejoins(actions[d][k])
      BY <1>0, <3>5, PutAdds
    <3>7. \A k \in 1 .. Len(actions'[d]) : ~Asked(d, k)'
      BY <2>1, <2>2, <3>2, <3>4, <3>6 DEF Asked
    <3>8. \A x \in Clients : ~Answers(x, d)'
      BY <2>1, <3>2 DEF Answers
    <3> QED
      BY <2>1, <3>2, <3>3, <3>7, <3>8 DEF OneTurn
  <2>5. CASE d # c
    <3>1. /\ Asks(d)' => Asks(d)
          /\ d \in knocking' => d \in knocking
          /\ \A x \in Clients : Answers(x, d)' => Answers(x, d)
      BY <1>0, <2>1, <2>5 DEF Asks, Answers
    <3> QED
      BY <1>0, <2>1, <2>2, <2>3, <3>1, PutTurns
  <2> QED
    BY <2>4, <2>5
<1>11. ASSUME NEW c \in Clients, NEW cred \in Creds3, Refused(c, cred) PROVE OneTurn(d)'
  <2>1. /\ stage[c] = cred /\ stage' = [stage EXCEPT ![c] = "idle"]
        /\ ready' = [ready EXCEPT ![c] = TRUE]
        /\ UNCHANGED <<knocking, actions, pushes>>
    BY <1>11 DEF Refused, SecondHalf, queueVars
  <2>2. CASE d = c
    <3>1. Asks(d)
      BY <2>1, <2>2 DEF Asks
    <3>2. /\ d \notin knocking /\ \A x \in Clients : ~Answers(x, d)
          /\ \A k \in 1 .. Len(actions[d]) : ~Asked(d, k)
      BY <1>0, <3>1 DEF OneTurn
    <3>3. ~Asks(d)'
      BY <1>0, <2>1, <2>2 DEF Asks, Creds3
    <3> QED
      BY <2>1, <3>2, <3>3 DEF OneTurn, Asked, Answers
  <2>3. CASE d # c
    <3>1. ready'[d] = ready[d] /\ Asks(d)' = Asks(d)
      BY <1>0, <2>1, <2>3 DEF Asks
    <3> QED
      BY <1>0, <2>1, <3>1, SameTurns DEF Answers
  <2> QED
    BY <2>2, <2>3
<1>12. ASSUME NEW o \in Clients, NEW c \in Clients, NEW kind \in {"rejoin", "deny"},
              Answer(o, c, kind)
       PROVE  OneTurn(d)'
  <2>1. /\ c \in knocking /\ knocking' = knocking \ {c} /\ ready' = ready /\ actions' = actions
        /\ stage[o] = "idle" /\ stage' = [stage EXCEPT ![o] = "push"]
    BY <1>12 DEF Answer, Operator, pageVars
  <2>2. /\ \A x \in Clients \ {o} : pushes'[x] = pushes[x]
        /\ Len(pushes'[o]) \in {1, 2}
        /\ pushes'[o][Len(pushes'[o])].a = Joined(kind, c)
        /\ Len(pushes'[o]) = 2 => pushes'[o][1].a = User("knockcancel", c, "none")
    BY <1>12, AnswerPushes
  <2>3. ASSUME NEW x \in Clients, Answers(x, d)' PROVE Answers(x, d) \/ (x = o /\ d = c)
    <3>1. CASE x # o
      BY <2>2, <2>3, <3>1 DEF Answers
    <3>2. CASE x = o
      <4>1. PICK k \in 1 .. Len(pushes'[o]) :
                \/ pushes'[o][k].a = Joined("rejoin", d)
                \/ pushes'[o][k].a = User("knockcancel", d, "none")
        BY <2>3, <3>2 DEF Answers
      <4>2. pushes'[o][k].a = Joined(kind, c) \/ pushes'[o][k].a = User("knockcancel", c, "none")
        BY <2>2, <4>1
      <4> QED
        BY <3>2, <4>1, <4>2 DEF Joined, User
    <3> QED
      BY <3>1, <3>2
  <2>4. Asks(d)' => Asks(d)
    BY <1>0, <2>1 DEF Asks, Creds3
  <2>5. CASE d = c
    <3>1. /\ ~ready[d] /\ ~Asks(d) /\ \A x \in Clients : ~Answers(x, d)
          /\ \A k \in 1 .. Len(actions[d]) : ~Asked(d, k)
      BY <1>0, <2>1, <2>5 DEF OneTurn
    <3>2. \A x, y \in Clients : Answers(x, d)' /\ Answers(y, d)' => x = y
      BY <2>3, <3>1
    <3> QED
      BY <2>1, <2>4, <2>5, <3>1, <3>2 DEF OneTurn, Asked
  <2>6. CASE d # c
    <3>1. \A x \in Clients : Answers(x, d)' => Answers(x, d)
      BY <2>3, <2>6
    <3> QED
      BY <1>0, <2>1, <2>4, <3>1, SameTurns
  <2> QED
    BY <2>5, <2>6
<1> QED
  BY <1>1, <1>2, <1>3, <1>4, <1>5, <1>6, <1>7, <1>8, <1>9, <1>10, <1>11, <1>12 DEF PageStep

-----------------------------------------------------------------------------
(* What the pages show, step by step.                                      *)

\* Whatever a page shows, what it is told last counts.
LEMMA SaysNow ==
    ASSUME NEW A, NEW q \in Seq(A), NEW a \in A, NEW v, NEW w, NEW d, NEW r,
           About(a, w, d), Says(a, w) = r
    PROVE  Shows(q \o <<a>>, v, w, d, r)
<1>1. /\ Len(q \o <<a>>) = Len(q) + 1 /\ Len(q) \in Nat /\ (q \o <<a>>)[Len(q) + 1] = a
      /\ Len(q) + 1 # 0
  OBVIOUS
<1> QED
  BY <1>1 DEF Shows

\* What concerns neither d nor everything changes nothing.
LEMMA ShowsStill ==
    ASSUME NEW A, NEW q \in Seq(A), NEW a \in A, NEW v, NEW w, NEW d, NEW r,
           Shows(q, v, w, d, r), About(a, w, d) => Says(a, w) = r
    PROVE  Shows(q \o <<a>>, v, w, d, r)
<1>1. PICK s : s = <<a>>
  OBVIOUS
<1>2. s \in Seq(A) /\ \A k \in 1 .. Len(s) : About(s[k], w, d) => Says(s[k], w) = r
  BY <1>1
<1>3. Shows(q \o s, v, w, d, r)
  BY <1>2, ShowsThen
<1> QED
  BY <1>1, <1>3

LEMMA BlankStill ==
    ASSUME NEW A, NEW q \in Seq(A), NEW a \in A, NEW v, NEW w, NEW d,
           Blank(q, v, w, d), About(a, w, d) => Says(a, w) = "none"
    PROVE  Blank(q \o <<a>>, v, w, d)
<1>1. PICK s : s = <<a>>
  OBVIOUS
<1>2. s \in Seq(A) /\ \A k \in 1 .. Len(s) : About(s[k], w, d) => Says(s[k], w) = "none"
  BY <1>1
<1>3. Blank(q \o s, v, w, d)
  BY <1>2, BlankThen
<1> QED
  BY <1>1, <1>3

\* A step in which nothing new is queued for page p.
LEMMA CellKept ==
    ASSUME NEW w, NEW p \in Clients, NEW d \in Clients, Cell(p, w, d),
           actions'[p] = actions[p], Shown(p, w, d)' = Shown(p, w, d),
           p \notin members' => p \notin members /\ (Leaving(p) => Leaving(p)'),
           Sees(p, w)' => /\ Sees(p, w)
                          /\ Late(p, w, d) => Late(p, w, d)'
                          /\ \/ Truth(w, d)' = Truth(w, d)
                             \/ Truth(w, d)' = "none" /\ Late(p, w, d)'
    PROVE  Cell(p, w, d)'
  BY Zenon DEF Cell

\* A step in which it is told a.
LEMMA CellAdds ==
    ASSUME Queued, NEW w, NEW p \in Clients, NEW d \in Clients, Cell(p, w, d), NEW a \in Tame,
           actions'[p] = actions[p] \o <<a>>, Shown(p, w, d)' = Shown(p, w, d),
           p \notin members' =>
              /\ p \notin members
              /\ About(a, w, d) => Says(a, w) = "none"
              /\ Leaving(p) => Leaving(p)' \/ Clears(a),
           Sees(p, w)' => /\ Sees(p, w)
                          /\ About(a, w, d) => Says(a, w) = Truth(w, d)'
                          /\ About(a, w, d) \/ Truth(w, d)' = Truth(w, d)
                          /\ About(a, w, d) \/ (Late(p, w, d) => Late(p, w, d)')
    PROVE  Cell(p, w, d)'
<1>0. actions[p] \in Seq(Tame)
  BY DEF Queued
<1>1. PICK q, v, r : q = actions[p] /\ v = Shown(p, w, d) /\ r = Truth(w, d)'
  OBVIOUS
<1>2. ASSUME p \notin members'
      PROVE  Leaving(p)' \/ Blank(q \o <<a>>, v, w, d)
  <2>1. CASE Leaving(p)
    BY <1>0, <1>1, <1>2, <2>1, BlankNow
  <2>2. CASE Blank(q, v, w, d)
    BY <1>0, <1>1, <1>2, <2>2, BlankStill
  <2> QED
    BY <1>1, <1>2, <2>1, <2>2 DEF Cell
<1>3. ASSUME Sees(p, w)'
      PROVE  Shows(q \o <<a>>, v, w, d, r) \/ (r = "none" /\ Late(p, w, d)')
  <2>1. CASE About(a, w, d)
    BY <1>0, <1>1, <1>3, <2>1, SaysNow
  <2>2. CASE ~About(a, w, d) /\ Shows(q, v, w, d, r)
    BY <1>0, <1>1, <2>2, ShowsStill
  <2>3. CASE ~About(a, w, d) /\ ~Shows(q, v, w, d, r)
    BY <1>1, <1>3, <2>3 DEF Cell
  <2> QED
    BY <2>1, <2>2, <2>3
<1> QED
  BY <1>1, <1>2, <1>3 DEF Cell

\* A step in which page p takes its next message, and does as it says.
LEMMA CellTakes ==
    ASSUME Queued, NEW w, NEW p \in Clients, NEW d \in Clients, Cell(p, w, d),
           actions[p] # <<>>, actions'[p] = Tail(actions[p]),
           joined[p] \/ Clears(Head(actions[p])) =>
              Shown(p, w, d)' = IF About(Head(actions[p]), w, d)
                                THEN Says(Head(actions[p]), w) ELSE Shown(p, w, d),
           ~joined[p] /\ ~Clears(Head(actions[p])) => Shown(p, w, d)' = Shown(p, w, d),
           p \notin members' => p \notin members /\ (Leaving(p) => Leaving(p)'),
           Sees(p, w)' => /\ Sees(p, w)
                          /\ Late(p, w, d) => Late(p, w, d)'
                          /\ Truth(w, d)' = Truth(w, d)
    PROVE  Cell(p, w, d)'
<1>0. actions[p] \in Seq(Tame)
  BY DEF Queued
<1>1. PICK q, v, u, r : q = actions[p] /\ v = Shown(p, w, d) /\ u = Shown(p, w, d)'
                        /\ r = Truth(w, d)
  OBVIOUS
<1>2. PICK a : a = Head(q)
  OBVIOUS
<1>3. ASSUME p \notin members'
      PROVE  Leaving(p)' \/ Blank(Tail(q), u, w, d)
  <2>1. CASE Leaving(p)
    BY <1>3, <2>1
  <2>2. CASE Blank(q, v, w, d)
    <3>1. u = v \/ (About(a, w, d) /\ u = Says(a, w))
      BY <1>1, <1>2
    <3>2. Clears(a) => u = "none"
      BY <1>1, <1>2 DEF About, Says
    <3> QED
      BY <1>0, <1>1, <1>2, <2>2, <3>1, <3>2, BlankTail
  <2> QED
    BY <1>1, <1>3, <2>1, <2>2 DEF Cell
<1>4. ASSUME Sees(p, w)'
      PROVE  Shows(Tail(q), u, w, d, r) \/ (r = "none" /\ Late(p, w, d)')
  <2>1. Sees(p, w) /\ joined[p]
    BY <1>4 DEF Sees
  <2>2. CASE Shows(q, v, w, d, r)
    <3>1. u = IF About(Head(q), w, d) THEN Says(Head(q), w) ELSE v
      BY <1>1, <2>1
    <3> QED
      BY <1>0, <1>1, <2>2, <3>1, ShowsTail
  <2>3. CASE ~Shows(q, v, w, d, r)
    BY <1>1, <1>4, <2>1, <2>3 DEF Cell
  <2> QED
    BY <2>2, <2>3
<1> QED
  BY <1>1, <1>3, <1>4 DEF Cell

\* A client that has ended, or that does nothing, has nothing to push.
LEMMA IdleHas ==
    ASSUME Places, Posts, NEW p \in Clients
    PROVE  /\ stage[p] \notin {"push", "leave"} => pushes[p] = <<>> /\ ~Leaving(p)
           /\ stage[p] \in {"op", "token", "guest", "ended"} => ~joined[p]
<1>1. stage[p] \notin {"push", "leave"} => pushes[p] = <<>>
  BY DEF Posts
<1>2. pushes[p] = <<>> => ~Leaving(p)
  BY DEF Leaving
<1>3. stage[p] \in {"op", "token", "guest", "ended"} => ~joined[p]
  BY DEF Places, Placed
<1> QED
  BY <1>1, <1>2, <1>3

\* A goroutine that had nothing to push gets something to push.
LEMMA LateKept ==
    ASSUME NEW c \in Clients, pushes[c] = <<>>, \A x \in Clients \ {c} : pushes'[x] = pushes[x],
           NEW w, NEW p \in Clients, NEW d
    PROVE  (Late(p, w, d) => Late(p, w, d)') /\ (Leaving(p) => Leaving(p)')
<1>1. ASSUME Late(p, w, d) PROVE Late(p, w, d)'
  <2>1. PICK x \in Clients : \E k \in 1 .. Len(pushes[x]) :
            p \in pushes[x][k].to /\ Speaks(pushes[x][k].a, w) /\ pushes[x][k].a.id = d
    BY <1>1 DEF Late
  <2>2. x # c
    BY <2>1
  <2> QED
    BY <2>1, <2>2 DEF Late
<1>2. ASSUME Leaving(p) PROVE Leaving(p)'
  <2>1. p # c
    BY <1>2 DEF Leaving
  <2> QED
    BY <1>2, <2>1 DEF Leaving
<1> QED
  BY <1>1, <1>2

\* A client leaves: its own page, the pages that are told, and the others.
LEMMA CellDeparts ==
    ASSUME NEW w \in Kinds, Types, Queued, Places, Posts, NEW c \in Clients, Departs(c),
           NEW p \in Clients, NEW d \in Clients, Cell(p, w, d)
    PROVE  Cell(p, w, d)'
<1>0. /\ actions \in [Clients -> Seq(Tame)]
      /\ stage[c] = "idle" /\ joined' = joined /\ op' = op /\ UNCHANGED pageVars
      /\ knocking' = IF waiting[c] THEN knocking \ {c} ELSE knocking
      /\ members' = IF joined[c] /\ c \in members THEN members \ {c} ELSE members
  BY DEF Departs, BeginLeave, Queued
<1>1. pushes[c] = <<>> /\ ~Leaving(c)
  BY <1>0, IdleHas
<1>2. (Late(p, w, d) => Late(p, w, d)') /\ (Leaving(p) => Leaving(p)')
  BY <1>1, DepartsSays, LateKept
<1>3. Shown(p, w, d)' = Shown(p, w, d)
  BY <1>0 DEF Shown, pageVars
<1>4. CASE p = c /\ joined[c] /\ c \in members
  <2>1. Batch({c}, Joined("leave", c)) \in In(pushes'[c])
    BY <1>4, DepartsSays
  <2>2. Leaving(c)'
    BY <2>1 DEF In, Leaving, Clears, Batch, Joined
  <2>3. c \notin members'
    BY <1>0, <1>4
  <2> QED
    BY <1>4, <2>2, <2>3 DEF Cell, Sees
<1>5. CASE p = c /\ ~(joined[c] /\ c \in members)
  <2>1. members' = members /\ ~Sees(p, w)'
    BY <1>0, <1>5 DEF Sees
  <2>2. CASE actions' = actions
    BY <1>2, <1>3, <2>1, <2>2, CellKept
  <2>3. CASE /\ actions[c] # <<>> /\ Head(actions[c]).t = "control"
             /\ actions' = [actions EXCEPT ![c] = Tail(@)]
    <3>1. ~About(Head(actions[p]), w, d) /\ ~Clears(Head(actions[p]))
      BY <1>5, <2>3 DEF About, Clears, Speaks
    <3>2. actions[p] # <<>> /\ actions'[p] = Tail(actions[p])
      BY <1>0, <1>5, <2>3
    <3> QED
      BY <1>2, <1>3, <2>1, <3>1, <3>2, CellTakes
  <2> QED
    BY <2>2, <2>3 DEF Departs
<1>6. CASE p # c
  <2>1. actions'[p] = actions[p]
    BY <1>0, <1>6 DEF Departs
  <2>2. p \notin members' => p \notin members
    BY <1>0, <1>6
  <2>3. Sees(p, w)' => Sees(p, w)
    BY <1>0 DEF Sees
  <2>4. ASSUME Sees(p, w)'
        PROVE  Truth(w, d)' = Truth(w, d) \/ (Truth(w, d)' = "none" /\ Late(p, w, d)')
    <3>1. CASE w = "roster" /\ d = c /\ joined[c] /\ c \in members
      <4>1. Truth(w, d)' = "none"
        BY <1>0, <3>1 DEF Truth
      <4>2. p \in members \ {c}
        BY <1>6, <2>3, <2>4 DEF Sees
      <4>3. Batch(members \ {c}, User("delete", c, "none")) \in In(pushes'[c])
        BY <3>1, <4>2, DepartsSays
      <4>4. PICK b : b = Batch(members \ {c}, User("delete", c, "none"))
        OBVIOUS
      <4>5. p \in b.to /\ Speaks(b.a, w) /\ b.a.id = d
        BY <3>1, <4>2, <4>4 DEF Batch, User, Speaks
      <4>6. Late(p, w, d)'
        BY <4>3, <4>4, <4>5 DEF In, Late
      <4> QED
        BY <4>1, <4>6
    <3>2. CASE w = "roster" /\ ~(d = c /\ joined[c] /\ c \in members)
      BY <1>0, <3>2 DEF Truth, Role
    <3>3. CASE w = "knocks" /\ d = c /\ waiting[c] /\ c \in knocking
      <4>1. Truth(w, d)' = "none"
        BY <1>0, <3>3 DEF Truth
      <4>2. p \in Ops
        BY <2>3, <2>4, <3>3 DEF Sees, Ops
      <4>3. Batch(Ops, User("knockcancel", c, "none")) \in In(pushes'[c])
        BY <3>3, <4>2, DepartsSays
      <4>4. PICK b : b = Batch(Ops, User("knockcancel", c, "none"))
        OBVIOUS
      <4>5. p \in b.to /\ Speaks(b.a, w) /\ b.a.id = d
        BY <3>3, <4>2, <4>4 DEF Batch, User, Speaks
      <4>6. Late(p, w, d)'
        BY <4>3, <4>4, <4>5 DEF In, Late
      <4> QED
        BY <4>1, <4>6
    <3>4. CASE w = "knocks" /\ ~(d = c /\ waiting[c] /\ c \in knocking)
      BY <1>0, <3>4 DEF Truth
    <3> QED
      BY <3>1, <3>2, <3>3, <3>4 DEF Kinds
  <2> QED
    BY <1>2, <1>3, <2>1, <2>2, <2>3, <2>4, CellKept
<1> QED
  BY <1>4, <1>5, <1>6

\* An operator answers a knock: the other operators have yet to be told.
LEMMA CellAnswer ==
    ASSUME NEW w \in Kinds, Types, Queued, Places, Posts, NEW o \in Clients, NEW c \in Clients,
           NEW kind \in {"rejoin", "deny"}, Answer(o, c, kind),
           NEW p \in Clients, NEW d \in Clients, Cell(p, w, d)
    PROVE  Cell(p, w, d)'
<1>0. /\ stage[o] = "idle" /\ UNCHANGED <<members, joined, op, actions, pageVars>>
      /\ knocking' = knocking \ {c}
  BY DEF Answer, Operator
<1>1. pushes[o] = <<>> /\ ~Leaving(o)
  BY <1>0, IdleHas
<1>2. /\ \A x \in Clients \ {o} : pushes'[x] = pushes[x]
      /\ pushes'[o] \in Seq(Letters) /\ Len(pushes'[o]) \in {1, 2}
      /\ Len(pushes'[o]) = 2 => /\ pushes'[o][1].a = User("knockcancel", c, "none")
                                /\ pushes'[o][1].to = Ops
      /\ Ops # {} => Len(pushes'[o]) = 2
  BY AnswerPushes
<1>3. (Late(p, w, d) => Late(p, w, d)') /\ (Leaving(p) => Leaving(p)')
  BY <1>1, <1>2, LateKept
<1>4. /\ Shown(p, w, d)' = Shown(p, w, d) /\ (Sees(p, w)' => Sees(p, w))
      /\ p \notin members' => p \notin members
  BY <1>0 DEF Shown, pageVars, Sees
<1>5. ASSUME Sees(p, w)
      PROVE  Truth(w, d)' = Truth(w, d) \/ (Truth(w, d)' = "none" /\ Late(p, w, d)')
  <2>1. CASE w = "roster"
    BY <1>0, <2>1 DEF Truth, Role
  <2>2. CASE w = "knocks" /\ d # c
    BY <1>0, <2>2 DEF Truth
  <2>3. CASE w = "knocks" /\ d = c
    <3>1. Truth(w, d)' = "none"
      BY <1>0, <2>3 DEF Truth
    <3>2. p \in Ops
      BY <1>5, <2>3 DEF Sees, Ops
    <3>3. /\ 1 \in 1 .. Len(pushes'[o]) /\ p \in pushes'[o][1].to
          /\ pushes'[o][1].a = User("knockcancel", c, "none")
      BY <1>2, <3>2
    <3>4. Speaks(User("knockcancel", c, "none"), w) /\ User("knockcancel", c, "none").id = c
      BY <2>3 DEF Speaks, User
    <3>5. Late(p, w, d)'
      BY <2>3, <3>3, <3>4 DEF Late
    <3> QED
      BY <3>1, <3>5
  <2> QED
    BY <2>1, <2>2, <2>3 DEF Kinds
<1> QED
  BY <1>0, <1>3, <1>4, <1>5, CellKept

\* The end of leaving: the page of a session that is over forgets everything.
LEMMA CellFinish ==
    ASSUME NEW w \in Kinds, Types, Queued, Places, Posts, NEW c \in Clients, FinishLeave(c),
           NEW p \in Clients, NEW d \in Clients, Cell(p, w, d)
    PROVE  Cell(p, w, d)'
<1>0. /\ actions \in [Clients -> Seq(Tame)] /\ joined \in [Clients -> BOOLEAN]
      /\ op \in [Clients -> BOOLEAN] /\ view \in [Clients -> [Clients -> {"none", "user", "op"}]]
      /\ knocks \in [Clients -> SUBSET Clients]
  BY DEF Queued, Types
<1>1. /\ stage[c] = "leave" /\ pushes[c] = <<>> /\ UNCHANGED <<members, knocking, pushes>>
      /\ joined' = [joined EXCEPT ![c] = FALSE]
      /\ op' = [op EXCEPT ![c] = op[c] /\ ~joined[c]]
  BY DEF FinishLeave
<1>2. (Late(p, w, d) => Late(p, w, d)') /\ (Leaving(p) => Leaving(p)') /\ ~Leaving(c)
  BY <1>1 DEF Late, Leaving
<1>3. Truth(w, d)' = Truth(w, d)
  <2>1. CASE w = "roster"
    <3>1. d \in members => op'[d] = op[d]
      BY <1>0, <1>1 DEF Places, Placed
    <3> QED
      BY <1>1, <2>1, <3>1 DEF Truth, Role
  <2>2. CASE w = "knocks"
    BY <1>1, <2>2 DEF Truth
  <2> QED
    BY <2>1, <2>2 DEF Kinds
<1>4. CASE p # c
  <2>1. actions'[p] = actions[p] /\ view'[p] = view[p] /\ knocks'[p] = knocks[p]
    BY <1>0, <1>4 DEF FinishLeave
  <2>2. joined'[p] = joined[p] /\ op'[p] = op[p]
    BY <1>0, <1>1, <1>4
  <2>3. Shown(p, w, d)' = Shown(p, w, d) /\ (Sees(p, w)' => Sees(p, w))
    BY <1>1, <2>1, <2>2 DEF Shown, Sees
  <2> QED
    BY <1>1, <1>2, <1>3, <2>1, <2>3, CellKept
<1>5. CASE p = c /\ ending[c]
  <2>1. ~Sees(p, w)'
    BY <1>0, <1>1, <1>5 DEF Sees
  <2>2. actions'[p] = <<>> /\ view'[p][d] = "none" /\ knocks'[p] = {}
    BY <1>0, <1>5 DEF FinishLeave
  <2>3. Shown(p, w, d)' = "none"
    BY <2>2 DEF Shown
  <2>4. PICK q, v : q = actions'[p] /\ v = Shown(p, w, d)'
    OBVIOUS
  <2>5. Blank(q, v, w, d)
    <3>1. Len(q) = 0 /\ v = "none"
      BY <2>2, <2>3, <2>4
    <3>2. 0 \in 0 .. Len(q) /\ \A j \in 0 + 1 .. Len(q) : FALSE
      BY <3>1
    <3> QED
      BY <3>1, <3>2 DEF Blank
  <2> QED
    BY <2>1, <2>4, <2>5 DEF Cell
<1>6. CASE p = c /\ ~ending[c]
  <2>1. ~Sees(p, w)'
    BY <1>0, <1>1, <1>6 DEF Sees
  <2>2. actions'[p] = actions[p] /\ view' = view /\ knocks' = knocks
    BY <1>0, <1>6 DEF FinishLeave
  <2>3. Shown(p, w, d)' = Shown(p, w, d)
    BY <2>2 DEF Shown
  <2> QED
    BY <1>1, <1>2, <2>1, <2>2, <2>3, CellKept
<1> QED
  BY <1>4, <1>5, <1>6

\* One of those who have yet to be told is told.
LEMMA CellPush ==
    ASSUME NEW w \in Kinds, Types, Queued, Places, Posts, w = "knocks" => Turns,
           NEW c \in Clients, Push(c),
           NEW p \in Clients, NEW d \in Clients, Cell(p, w, d)
    PROVE  Cell(p, w, d)'
<1>0. /\ actions \in [Clients -> Seq(Tame)] /\ pushes \in [Clients -> Seq(Letters)]
      /\ UNCHANGED <<members, knocking, joined, op, pageVars>>
  BY DEF Queued, Push, groupVars
<1>1. PICK e \in Clients :
           /\ Len(pushes[c]) \in Nat \ {0}
           /\ pushes[c][1] \in Letters /\ e \in pushes[c][1].to
           /\ actions' = Put(actions, {e}, <<pushes[c][1].a>>)
           /\ \A y \in Clients \ {c} : pushes'[y] = pushes[y]
           /\ pushes'[c] \in Seq(Letters)
           /\ \/ /\ pushes[c][1].to = {e} /\ Len(pushes'[c]) = Len(pushes[c]) - 1
                 /\ \A k \in 1 .. Len(pushes[c]) - 1 : pushes'[c][k] = pushes[c][k + 1]
              \/ /\ pushes[c][1].to # {e} /\ Len(pushes'[c]) = Len(pushes[c])
                 /\ \A k \in 2 .. Len(pushes[c]) : pushes'[c][k] = pushes[c][k]
                 /\ pushes'[c][1].a = pushes[c][1].a /\ pushes'[c][1].to = pushes[c][1].to \ {e}
  BY PushLeaves
<1>2. PICK b : b = pushes[c][1]
  OBVIOUS
<1>3. PICK n \in Nat : n = Len(pushes[c]) /\ n > 0
  BY <1>1
<1>4. /\ Shown(p, w, d)' = Shown(p, w, d) /\ Truth(w, d)' = Truth(w, d)
      /\ Sees(p, w)' => Sees(p, w)
  BY <1>0 DEF Shown, Truth, Sees, Role, pageVars
\* What is left to be told, but for the batch that was begun.
<1>5. ASSUME NEW k \in 2 .. n
      PROVE  \E j \in 1 .. Len(pushes'[c]) : pushes'[c][j] = pushes[c][k]
  <2>1. CASE pushes[c][1].to = {e}
    <3>1. k - 1 \in 1 .. n - 1 /\ (k - 1) + 1 = k
      BY <1>3
    <3>2. pushes'[c][k - 1] = pushes[c][k] /\ Len(pushes'[c]) = n - 1
      BY <1>1, <1>3, <2>1, <3>1
    <3> QED
      BY <3>1, <3>2
  <2>2. CASE pushes[c][1].to # {e}
    <3>1. pushes'[c][k] = pushes[c][k] /\ k \in 1 .. Len(pushes'[c])
      BY <1>1, <1>3, <2>2
    <3> QED
      BY <3>1
  <2> QED
    BY <2>1, <2>2
<1>6. ASSUME Late(p, w, d), p # e \/ ~(Speaks(b.a, w) /\ b.a.id = d)
      PROVE  Late(p, w, d)'
  <2>1. PICK x \in Clients : \E k \in 1 .. Len(pushes[x]) :
            p \in pushes[x][k].to /\ Speaks(pushes[x][k].a, w) /\ pushes[x][k].a.id = d
    BY <1>6 DEF Late
  <2>2. CASE x # c
    BY <1>1, <2>1, <2>2 DEF Late
  <2>3. CASE x = c
    <3>1. PICK k \in 1 .. n :
              p \in pushes[c][k].to /\ Speaks(pushes[c][k].a, w) /\ pushes[c][k].a.id = d
      BY <1>3, <2>1, <2>3
    <3>2. CASE k # 1
      <4>1. PICK j \in 1 .. Len(pushes'[c]) : pushes'[c][j] = pushes[c][k]
        BY <1>3, <1>5, <3>1, <3>2
      <4> QED
        BY <3>1, <4>1 DEF Late
    <3>3. CASE k = 1
      <4>1. p # e /\ p \in pushes[c][1].to \ {e} /\ pushes[c][1].to # {e}
        BY <1>2, <1>6, <3>1, <3>3
      <4>2. 1 \in 1 .. Len(pushes'[c])
        BY <1>1, <1>3, <4>1
      <4>3. pushes'[c][1].a = pushes[c][1].a /\ p \in pushes'[c][1].to
        BY <1>1, <4>1
      <4> QED
        BY <3>1, <3>3, <4>2, <4>3 DEF Late
    <3> QED
      BY <3>2, <3>3
  <2> QED
    BY <2>2, <2>3
<1>7. 1 \in 1 .. Len(pushes[c]) /\ Post(c, 1)
  BY <1>1 DEF Posts
<1>8. Clears(b.a) => b.a = Joined("leave", c) /\ b.to = {c} /\ e = c /\ stage[c] = "leave"
  <2>1. /\ ~Clears(User("delete", c, "none")) /\ \A f \in Clients : ~Clears(User("knockcancel", f, "none"))
        /\ \A f \in Clients : ~Clears(Joined("rejoin", f)) /\ ~Clears(Joined("deny", f))
    BY DEF Clears, User, Joined
  <2>2. Clears(b.a) => b.a = Joined("leave", c) /\ b.to = {c} /\ stage[c] = "leave"
    BY <1>2, <1>7, <2>1 DEF Post
  <2> QED
    BY <1>1, <1>2, <2>2
<1>9. ASSUME Leaving(p), p # e \/ ~Clears(b.a) PROVE Leaving(p)'
  <2>1. PICK k \in 1 .. Len(pushes[p]) : Clears(pushes[p][k].a)
    BY <1>9 DEF Leaving
  <2>2. CASE p # c
    BY <1>1, <2>1, <2>2 DEF Leaving
  <2>3. CASE p = c
    <3>1. k \in 2 .. n
      <4>1. k # 1
        BY <1>2, <1>8, <1>9, <2>1, <2>3
      <4> QED
        BY <1>3, <2>1, <2>3, <4>1
    <3>2. PICK j \in 1 .. Len(pushes'[c]) : pushes'[c][j] = pushes[c][k]
      BY <1>5, <3>1
    <3> QED
      BY <2>1, <2>3, <3>2 DEF Leaving
  <2> QED
    BY <2>2, <2>3
<1>10. PICK s : s = <<b.a>>
  OBVIOUS
<1>11. actions' = Put(actions, {e}, s)
  BY <1>1, <1>2, <1>10
<1>12. CASE p # e
  <2>0. p \notin {e}
    BY <1>12
  <2>1. actions'[p] = actions[p]
    BY <1>0, <1>11, <2>0 DEF Put
  <2> QED
    BY <1>0, <1>4, <1>6, <1>9, <1>12, <2>1, CellKept
<1>13. CASE p = e /\ stage[p] = "ended"
  <2>1. actions'[p] = actions[p]
    BY <1>0, <1>11, <1>13 DEF Put
  <2>2. ~joined[p] /\ ~Leaving(p)
    BY <1>13, IdleHas
  <2> QED
    BY <1>0, <1>4, <2>1, <2>2, CellKept DEF Sees
<1>14. CASE p = e /\ stage[p] # "ended"
  <2>1. actions'[p] = actions[p] \o <<b.a>>
    <3>1. p \in {e}
      BY <1>14
    <3> QED
      BY <1>0, <1>10, <1>11, <1>14, <3>1 DEF Put
  <2>2. b.a \in Tame
    BY <1>1, <1>2 DEF Letters, Batches, Tame
  \* It is told that somebody has gone, or something else.
  <2>3. \/ b.a = User("delete", c, "none") /\ c \notin members
        \/ Clears(b.a) /\ p = c /\ stage[c] = "leave"
        \/ \E f \in Clients : b.a = User("knockcancel", f, "none")
        \/ b.a.t = "joined" /\ ~Clears(b.a)
    <3>1. \A f \in Clients : /\ Joined("rejoin", f).t = "joined" /\ ~Clears(Joined("rejoin", f))
                             /\ Joined("deny", f).t = "joined" /\ ~Clears(Joined("deny", f))
      BY DEF Joined, Clears
    <3>2. Clears(Joined("leave", c))
      BY DEF Joined, Clears
    <3> QED
      BY <1>2, <1>7, <1>8, <1>14, <3>1, <3>2 DEF Post
  <2>4. About(b.a, w, d) => Says(b.a, w) = "none"
    <3>1. CASE b.a = User("delete", c, "none")
      BY <3>1 DEF About, Says, Speaks, Clears, User
    <3>2. CASE Clears(b.a)
      BY <3>2 DEF Says
    <3>3. CASE \E f \in Clients : b.a = User("knockcancel", f, "none")
      BY <3>3 DEF About, Says, Speaks, Clears, User
    <3>4. CASE b.a.t = "joined" /\ ~Clears(b.a)
      BY <3>4 DEF About, Speaks
    <3> QED
      BY <2>3, <3>1, <3>2, <3>3, <3>4
  <2>5. ASSUME Sees(p, w), About(b.a, w, d) PROVE Truth(w, d) = "none"
    <3>1. CASE b.a = User("delete", c, "none") /\ c \notin members
      <4>1. w = "roster" /\ d = c
        BY <2>5, <3>1 DEF About, Speaks, Clears, User, Kinds
      <4> QED
        BY <3>1, <4>1 DEF Truth
    <3>2. CASE Clears(b.a) /\ p = c /\ stage[c] = "leave"
      BY <2>5, <3>2 DEF Sees, Places, Placed
    <3>3. CASE \E f \in Clients : b.a = User("knockcancel", f, "none")
      <4>1. b.a = User("knockcancel", d, "none") /\ w = "knocks"
        BY <2>5, <3>3 DEF About, Speaks, Clears, User, Kinds
      <4>2. Answers(c, d)
        BY <1>2, <1>7, <4>1 DEF Answers
      <4>3. d \notin knocking
        BY <4>1, <4>2 DEF Turns, OneTurn
      <4> QED
        BY <4>1, <4>3 DEF Truth
    <3>4. CASE b.a.t = "joined" /\ ~Clears(b.a)
      BY <2>5, <3>4 DEF About, Speaks
    <3> QED
      BY <2>3, <3>1, <3>2, <3>3, <3>4
  <2>6. (Speaks(b.a, w) /\ b.a.id = d) => About(b.a, w, d)
    BY DEF About
  <2>7. Sees(p, w)' => /\ Sees(p, w)
                       /\ About(b.a, w, d) => Says(b.a, w) = Truth(w, d)'
                       /\ About(b.a, w, d) \/ Truth(w, d)' = Truth(w, d)
                       /\ About(b.a, w, d) \/ (Late(p, w, d) => Late(p, w, d)')
    BY <1>4, <1>6, <2>4, <2>5, <2>6
  <2>8. p \notin members' =>
              /\ p \notin members
              /\ About(b.a, w, d) => Says(b.a, w) = "none"
              /\ Leaving(p) => Leaving(p)' \/ Clears(b.a)
    BY <1>0, <1>9, <2>4
  <2>9. PICK a \in Tame : a = b.a
    BY <2>2
  <2> QED
    BY <1>4, <2>1, <2>7, <2>8, <2>9, CellAdds
<1> QED
  BY <1>12, <1>13, <1>14

\* A page takes a message that is about somebody, or about itself.
LEMMA CellTake ==
    ASSUME NEW w \in Kinds, Types, Queued, NEW c \in Clients, TakeUser(c) \/ TakeJoined(c),
           NEW p \in Clients, NEW d \in Clients, Cell(p, w, d)
    PROVE  Cell(p, w, d)'
<1>0. /\ actions \in [Clients -> Seq(Tame)]
      /\ view \in [Clients -> [Clients -> {"none", "user", "op"}]]
      /\ knocks \in [Clients -> SUBSET Clients]
      /\ UNCHANGED <<members, knocking, joined, op, pushes>>
      /\ actions[c] # <<>> /\ actions' = [actions EXCEPT ![c] = Tail(@)]
  BY DEF Queued, TakeUser, TakeJoined, Taken, groupVars, clientVars
<1>1. /\ Truth(w, d)' = Truth(w, d) /\ (Sees(p, w)' => Sees(p, w))
      /\ Late(p, w, d)' = Late(p, w, d) /\ Leaving(p)' = Leaving(p)
  BY <1>0 DEF Truth, Role, Sees, Late, Leaving
<1>2. CASE p # c
  <2>1. actions'[p] = actions[p]
    BY <1>0, <1>2
  <2>2. view'[p] = view[p] /\ knocks'[p] = knocks[p]
    BY <1>0, <1>2 DEF TakeUser, TakeJoined
  <2>3. Shown(p, w, d)' = Shown(p, w, d)
    BY <2>2 DEF Shown
  <2> QED
    BY <1>0, <1>1, <2>1, <2>3, CellKept
<1>3. CASE p = c
  <2>1. actions[p] # <<>> /\ actions'[p] = Tail(actions[p])
    BY <1>0, <1>3
  <2>2. PICK a : a = Head(actions[p])
    OBVIOUS
  <2>3. a \in Tame
    BY <1>0, <2>1, <2>2
  <2>4. /\ joined[p] \/ Clears(a) =>
              Shown(p, w, d)' = IF About(a, w, d) THEN Says(a, w) ELSE Shown(p, w, d)
        /\ ~joined[p] /\ ~Clears(a) => Shown(p, w, d)' = Shown(p, w, d)
    <3>1. CASE TakeUser(c)
      <4>1. /\ a.t = "user" /\ a.kind \in {"add", "change", "delete", "knock", "knockcancel"}
            /\ ~Clears(a) /\ a.id \in Clients
        BY <1>3, <2>2, <2>3, <3>1 DEF TakeUser, Taken, Clears, Tame, ActionSet
      <4>2. /\ view' = IF joined[p] /\ a.kind \in {"add", "change", "delete"}
                       THEN [view EXCEPT ![p][a.id] = a.role] ELSE view
            /\ knocks' = IF ~joined[p] THEN knocks
                         ELSE IF a.kind = "knock" THEN [knocks EXCEPT ![p] = @ \cup {a.id}]
                         ELSE IF a.kind = "knockcancel" THEN [knocks EXCEPT ![p] = @ \ {a.id}]
                         ELSE knocks
        BY <1>3, <2>2, <3>1 DEF TakeUser
      <4>3. CASE ~joined[p]
        BY <4>1, <4>2, <4>3 DEF Shown
      <4>4. CASE joined[p] /\ w = "roster"
        <5>1. view'[p][d] = IF a.kind \in {"add", "change", "delete"} /\ a.id = d
                            THEN a.role ELSE view[p][d]
          BY <1>0, <4>1, <4>2, <4>4
        <5> QED
          BY <4>1, <4>4, <5>1 DEF Shown, About, Says, Speaks
      <4>5. CASE joined[p] /\ w = "knocks"
        <5>1. d \in knocks'[p] <=> \/ a.kind = "knock" /\ a.id = d
                                   \/ d \in knocks[p] /\ ~(a.kind = "knockcancel" /\ a.id = d)
          BY <1>0, <4>1, <4>2, <4>5
        <5> QED
          BY <4>1, <4>5, <5>1 DEF Shown, About, Says, Speaks
      <4> QED
        BY <4>3, <4>4, <4>5 DEF Kinds
    <3>2. CASE TakeJoined(c)
      <4>1. a.t = "joined"
        BY <1>3, <2>2, <3>2 DEF TakeJoined, Taken
      <4>2. CASE a.kind = "leave"
        <5>1. view'[p][d] = "none" /\ knocks'[p] = {}
          BY <1>0, <1>3, <2>2, <3>2, <4>2 DEF TakeJoined
        <5> QED
          BY <4>1, <4>2, <5>1 DEF Shown, About, Says, Clears
      <4>3. CASE a.kind # "leave"
        <5>1. view' = view /\ knocks' = knocks
          BY <1>3, <2>2, <3>2, <4>3 DEF TakeJoined
        <5> QED
          BY <4>1, <4>3, <5>1 DEF Shown, About, Clears, Speaks
      <4> QED
        BY <4>2, <4>3
    <3> QED
      BY <3>1, <3>2
  <2> QED
    BY <1>0, <1>1, <2>1, <2>2, <2>4, CellTakes
<1> QED
  BY <1>2, <1>3

\* A client that is redirected and asks again keeps its permissions.
LEMMA RoleKept ==
    ASSUME Kept("roster"), Types, Queued, Places, NEW c \in Clients, NEW cred \in Creds3,
           SecondHalf(c, cred), c \in members
    PROVE  op' = op
<1>1. /\ stage[c] = cred /\ op' = [op EXCEPT ![c] = (cred = "op")]
      /\ op \in [Clients -> BOOLEAN]
  BY DEF SecondHalf, Queued
<1>2. ~joined[c] /\ cred \in Creds[c] /\ redirect
  BY <1>1 DEF Places, Placed, Creds3
<1>3. Single(c)
  BY <1>2 DEF Kept, Places
<1>4. op[c] = (cred = "op")
  BY <1>2, <1>3 DEF Places, Placed
<1> QED
  BY <1>1, <1>4

\* A client asks to join, or is turned away.
LEMMA CellAsks ==
    ASSUME NEW w \in Kinds, Kept(w), Types, Queued, Places, Posts, NEW c \in Clients,
           NEW cred \in Creds3, Join(c, cred) \/ Refused(c, cred),
           NEW p \in Clients, NEW d \in Clients, Cell(p, w, d)
    PROVE  Cell(p, w, d)'
<1>1. UNCHANGED <<members, knocking, joined, actions, pushes, view, knocks>> /\ ~joined[c]
  <2>1. UNCHANGED <<members, knocking, joined, actions, pushes, view, knocks>>
    BY DEF Join, Refused, queueVars
  <2>2. ~joined[c]
    BY DEF Join, Refused, SecondHalf, Places, Placed, Creds3
  <2> QED
    BY <2>1, <2>2
<1>2. op' = op \/ (SecondHalf(c, cred) /\ op' = [op EXCEPT ![c] = (cred = "op")])
  BY DEF Join, Refused, SecondHalf
<1>3. Sees(p, w)' => Sees(p, w)
  <2>1. p # c => op'[p] = op[p]
    BY <1>2 DEF Queued
  <2> QED
    BY <1>1, <2>1 DEF Sees
<1>4. Truth(w, d)' = Truth(w, d)
  <2>1. CASE w = "roster"
    <3>1. d \in members => op'[d] = op[d]
      <4>1. d # c => op'[d] = op[d]
        BY <1>2 DEF Queued
      <4>2. c \in members => op' = op
        BY <1>2, <2>1, RoleKept
      <4> QED
        BY <4>1, <4>2
    <3> QED
      BY <1>1, <2>1, <3>1 DEF Truth, Role
  <2>2. CASE w = "knocks"
    BY <1>1, <2>2 DEF Truth
  <2> QED
    BY <2>1, <2>2 DEF Kinds
<1>5. /\ Shown(p, w, d)' = Shown(p, w, d)
      /\ Late(p, w, d)' = Late(p, w, d) /\ Leaving(p)' = Leaving(p)
  BY <1>1 DEF Shown, Late, Leaving
<1> QED
  BY <1>1, <1>3, <1>4, <1>5, CellKept

\* A client knocks, and every operator is told.
LEMMA CellKnock ==
    ASSUME NEW w \in Kinds, Kept(w), Types, Queued, Places, Posts, NEW c \in Clients,
           NEW cred \in Creds3, Knock(c, cred),
           NEW p \in Clients, NEW d \in Clients, Cell(p, w, d)
    PROVE  Cell(p, w, d)'
<1>0. actions \in [Clients -> Seq(Tame)] /\ op \in [Clients -> BOOLEAN]
  BY DEF Queued
<1>1. /\ SecondHalf(c, cred) /\ UNCHANGED <<members, joined, pushes, pageVars>>
      /\ knocking' = knocking \cup {c} /\ stage[c] = cred
      /\ op' = [op EXCEPT ![c] = (cred = "op")]
      /\ actions' = Put(actions, Ops, <<User("knock", c, "none")>>)
  BY DEF Knock, SecondHalf
<1>2. ~joined[c]
  BY <1>1 DEF Places, Placed, Creds3
<1>3. Sees(p, w)' => Sees(p, w) /\ p # c
  BY <1>0, <1>1, <1>2 DEF Sees
<1>4. PICK a : a = User("knock", c, "none")
  OBVIOUS
<1>5. a \in Tame /\ ~Clears(a) /\ a.t = "user" /\ a.kind = "knock" /\ a.id = c
  BY <1>4, Messages DEF Clears, User
<1>6. /\ Shown(p, w, d)' = Shown(p, w, d)
      /\ Late(p, w, d)' = Late(p, w, d) /\ Leaving(p)' = Leaving(p)
  BY <1>1 DEF Shown, Late, Leaving, pageVars
<1>7. Truth(w, d)' = IF w = "knocks" /\ d = c THEN "knock" ELSE Truth(w, d)
  <2>1. CASE w = "roster"
    <3>1. d \in members => op'[d] = op[d]
      <4>1. d # c => op'[d] = op[d]
        BY <1>0, <1>1
      <4>2. c \in members => op' = op
        BY <1>1, <2>1, RoleKept
      <4> QED
        BY <4>1, <4>2
    <3> QED
      BY <1>1, <2>1, <3>1 DEF Truth, Role
  <2>2. CASE w = "knocks"
    BY <1>1, <2>2 DEF Truth
  <2> QED
    BY <2>1, <2>2 DEF Kinds
<1>8. About(a, w, d) <=> w = "knocks" /\ d = c
  BY <1>5 DEF About, Speaks, Kinds
<1>9. w = "knocks" => Says(a, w) = "knock"
  BY <1>5 DEF Says
<1>10. CASE p \in Ops /\ stage[p] # "ended"
  <2>1. actions'[p] = actions[p] \o <<a>>
    BY <1>0, <1>1, <1>4, <1>10 DEF Put
  <2>2. p \in members
    BY <1>10 DEF Ops
  <2> QED
    BY <1>1, <1>3, <1>5, <1>6, <1>7, <1>8, <1>9, <2>1, <2>2, CellAdds
<1>11. CASE p \notin Ops \/ stage[p] = "ended"
  <2>1. actions'[p] = actions[p]
    BY <1>0, <1>1, <1>11 DEF Put
  <2>2. Sees(p, w)' => w # "knocks"
    <3>1. stage[p] = "ended" => ~joined[p]
      BY IdleHas
    <3> QED
      BY <1>3, <1>11, <3>1 DEF Sees, Ops
  <2> QED
    BY <1>1, <1>3, <1>6, <1>7, <2>1, <2>2, CellKept
<1> QED
  BY <1>10, <1>11

\* A client becomes a member: it is told how things stand, and the members
\* that it has come.
LEMMA CellEnters ==
    ASSUME NEW w \in Kinds, Types, Queued, Places, Posts, NEW c \in Clients,
           NEW cred \in Creds3, Enter(c, cred),
           NEW p \in Clients, NEW d \in Clients, Cell(p, w, d)
    PROVE  Cell(p, w, d)'
<1>0. /\ actions \in [Clients -> Seq(Tame)] /\ op \in [Clients -> BOOLEAN]
      /\ joined \in [Clients -> BOOLEAN]
  BY DEF Queued, Types
<1>1. PICK isOp \in BOOLEAN : isOp = (cred = "op")
  OBVIOUS
<1>2. PICK hello, a : hello = Welcome(c, isOp) /\ a = User("add", c, IF isOp THEN "op" ELSE "user")
  OBVIOUS
<1>3. /\ SecondHalf(c, cred) /\ UNCHANGED <<knocking, pushes, pageVars>> /\ c \notin members
      /\ members' = members \cup {c} /\ stage[c] = cred
      /\ op' = [op EXCEPT ![c] = isOp] /\ joined' = [joined EXCEPT ![c] = ~redirect]
      /\ actions' = Put(Put(actions, {c}, hello), members, <<a>>)
  BY <1>1, <1>2 DEF Enter, SecondHalf, PassesRoom
<1>4. a \in Tame /\ ~Clears(a) /\ a.t = "user" /\ a.kind = "add" /\ a.id = c
      /\ a.role = IF isOp THEN "op" ELSE "user"
  BY <1>2, Messages DEF Clears, User
<1>5. /\ Shown(p, w, d)' = Shown(p, w, d)
      /\ Late(p, w, d)' = Late(p, w, d) /\ Leaving(p)' = Leaving(p)
  BY <1>3 DEF Shown, Late, Leaving, pageVars
<1>6. /\ w = "knocks" => Truth(w, d)' = Truth(w, d)
      /\ w = "roster" /\ d # c => Truth(w, d)' = Truth(w, d)
      /\ w = "roster" /\ d = c => Truth(w, d)' = IF isOp THEN "op" ELSE "user"
  <2>1. w = "knocks" => Truth(w, d)' = Truth(w, d)
    BY <1>3 DEF Truth
  <2>2. w = "roster" /\ d # c => Truth(w, d)' = Truth(w, d)
    BY <1>0, <1>3 DEF Truth, Role
  <2>3. w = "roster" /\ d = c => Truth(w, d)' = IF isOp THEN "op" ELSE "user"
    BY <1>0, <1>3 DEF Truth, Role
  <2> QED
    BY <2>1, <2>2, <2>3
<1>7. (About(a, w, d) <=> w = "roster" /\ d = c) /\ (w = "roster" => Says(a, w) = a.role)
  BY <1>4 DEF About, Speaks, Says, Kinds
<1>8. CASE p # c
  <2>1. p \in members' <=> p \in members
    BY <1>3, <1>8
  <2>2. Sees(p, w)' => Sees(p, w)
    BY <1>0, <1>3, <1>8, <2>1 DEF Sees
  <2>3. CASE p \in members /\ stage[p] # "ended"
    <3>1. actions'[p] = actions[p] \o <<a>>
      BY <1>0, <1>3, <1>8, <2>3 DEF Put
    <3> QED
      BY <1>4, <1>5, <1>6, <1>7, <2>1, <2>2, <2>3, <3>1, CellAdds DEF Kinds
  <2>4. CASE p \notin members \/ stage[p] = "ended"
    <3>1. actions'[p] = actions[p]
      BY <1>0, <1>3, <1>8, <2>4 DEF Put
    <3>2. ~Sees(p, w)
      BY <2>4, IdleHas DEF Sees
    <3> QED
      BY <1>5, <2>1, <2>2, <3>1, <3>2, CellKept
  <2> QED
    BY <2>3, <2>4
<1>9. CASE p = c
  <2>1. actions'[p] = actions[p] \o hello
    BY <1>0, <1>3, <1>9 DEF Put, Creds3
  <2>2. PICK q, v, r : q = actions[p] /\ v = Shown(p, w, d) /\ r = Truth(w, d)'
    OBVIOUS
  <2>3. Blank(q, v, w, d)
    <3>1. ~Leaving(c)
      BY <1>3, IdleHas DEF Creds3
    <3> QED
      BY <1>3, <1>9, <2>2, <3>1 DEF Cell
  <2>4. /\ hello \in Seq(ActionSet)
        /\ In(hello) = {Joined("join", c), User("add", c, IF isOp THEN "op" ELSE "user")}
                       \cup Adds \cup (IF isOp THEN Knocks ELSE {})
    <3>1. members \subseteq Clients /\ knocking \subseteq Clients
          /\ IsFiniteSet(members) /\ IsFiniteSet(knocking)
      BY DEF Types, Queued
    <3> QED
      BY <1>2, <3>1, WelcomeSays
  <2>5. ASSUME Sees(p, w)'
        PROVE  /\ \A m \in In(hello) : About(m, w, d) => Says(m, w) = r
               /\ r = "none" \/ \E m \in In(hello) : About(m, w, d)
    <3>1. ~About(Joined("join", c), w, d)
      BY DEF About, Clears, Speaks, Joined
    <3>2. ASSUME NEW m \in Adds
          PROVE  \E e \in members : /\ About(m, w, d) <=> w = "roster" /\ d = e
                                    /\ w = "roster" => Says(m, w) = Role(e)
      <4>1. PICK e \in members : m = User("add", e, Role(e))
        BY DEF Adds
      <4>2. ~Clears(m) /\ m.t = "user" /\ m.kind = "add" /\ m.id = e /\ m.role = Role(e)
        BY <4>1 DEF Clears, User
      <4> QED
        BY <4>2 DEF About, Speaks, Says, Kinds
    <3>3. ASSUME NEW m \in Knocks
          PROVE  \E e \in knocking : /\ About(m, w, d) <=> w = "knocks" /\ d = e
                                     /\ w = "knocks" => Says(m, w) = "knock"
      <4>1. PICK e \in knocking : m = User("knock", e, "none")
        BY DEF Knocks
      <4>2. ~Clears(m) /\ m.t = "user" /\ m.kind = "knock" /\ m.id = e
        BY <4>1 DEF Clears, User
      <4> QED
        BY <4>2 DEF About, Speaks, Says, Kinds
    <3>4. CASE w = "roster"
      <4>1. r = IF d = c THEN IF isOp THEN "op" ELSE "user"
                ELSE IF d \in members THEN Role(d) ELSE "none"
        BY <1>6, <2>2, <3>4 DEF Truth
      <4>2. \A m \in Adds : About(m, w, d) => d # c /\ d \in members /\ Says(m, w) = r
        BY <1>3, <3>2, <3>4, <4>1
      <4>3. \A m \in Knocks : ~About(m, w, d)
        BY <3>3, <3>4
      <4>4. About(a, w, d) => Says(a, w) = r
        BY <1>4, <1>7, <3>4, <4>1
      <4>5. \A m \in In(hello) : About(m, w, d) => Says(m, w) = r
        BY <1>2, <2>4, <3>1, <4>2, <4>3, <4>4
      <4>6. ASSUME r # "none" PROVE \E m \in In(hello) : About(m, w, d)
        <5>1. CASE d = c
          BY <1>2, <1>7, <2>4, <3>4, <5>1
        <5>2. CASE d # c
          <6>1. d \in members
            BY <4>1, <4>6, <5>2
          <6>2. User("add", d, Role(d)) \in Adds
            BY <6>1 DEF Adds
          <6>3. About(User("add", d, Role(d)), w, d)
            BY <3>4 DEF About, Speaks, User
          <6> QED
            BY <2>4, <6>2, <6>3
        <5> QED
          BY <5>1, <5>2
      <4> QED
        BY <4>5, <4>6
    <3>5. CASE w = "knocks"
      <4>1. isOp
        BY <1>0, <1>3, <1>9, <2>5, <3>5 DEF Sees
      <4>2. r = IF d \in knocking THEN "knock" ELSE "none"
        BY <1>6, <2>2, <3>5 DEF Truth
      <4>3. \A m \in Knocks : About(m, w, d) => Says(m, w) = r
        BY <3>3, <3>5, <4>2
      <4>4. ~About(a, w, d) /\ \A m \in Adds : ~About(m, w, d)
        BY <1>7, <3>2, <3>5
      <4>5. \A m \in In(hello) : About(m, w, d) => Says(m, w) = r
        BY <1>2, <2>4, <3>1, <4>3, <4>4
      <4>6. ASSUME r # "none" PROVE \E m \in In(hello) : About(m, w, d)
        <5>1. User("knock", d, "none") \in Knocks
          BY <4>2, <4>6 DEF Knocks
        <5>2. About(User("knock", d, "none"), w, d)
          BY <3>5 DEF About, Speaks, User
        <5> QED
          BY <2>4, <4>1, <5>1, <5>2
      <4> QED
        BY <4>5, <4>6
    <3> QED
      BY <3>4, <3>5 DEF Kinds
  <2>6. ASSUME Sees(p, w)' PROVE Shows(q \o hello, v, w, d, r)
    <3>1. Shows(q, v, w, d, "none")
      BY <2>3, BlankShows
    <3>2. q \in Seq(ActionSet) /\ hello \in Seq(ActionSet)
      <4>1. q \in Seq(Tame)
        BY <1>0, <2>2
      <4>2. \A k \in 1 .. Len(q) : q[k] \in ActionSet
        BY <4>1 DEF Tame
      <4> QED
        BY <2>4, <4>1, <4>2
    <3>3. \A k \in 1 .. Len(hello) : About(hello[k], w, d) => Says(hello[k], w) = r
      BY <2>5, <2>6 DEF In
    <3>4. r = "none" \/ \E k \in 1 .. Len(hello) : About(hello[k], w, d)
      BY <2>5, <2>6 DEF In
    <3>5. PICK r0 : r0 = "none"
      OBVIOUS
    <3> QED
      BY <3>1, <3>2, <3>3, <3>4, <3>5, ShowsThen
  <2>7. p \in members'
    BY <1>3, <1>9
  <2> QED
    BY <1>5, <2>1, <2>2, <2>6, <2>7 DEF Cell
<1> QED
  BY <1>8, <1>9

\* Every step keeps every page right about every client.
LEMMA CellsStep ==
    ASSUME NEW w \in Kinds, Kept(w), PageInv(w), PageStep
    PROVE  Cells(w)'
<1> USE DEF PageInv
<1> SUFFICES ASSUME NEW p \in Clients, NEW d \in Clients PROVE Cell(p, w, d)'
  BY DEF Cells
<1>0. Cell(p, w, d) /\ actions \in [Clients -> Seq(Tame)]
  BY DEF Cells, Queued
<1>1. CASE Aside
  <2>1. /\ Shown(p, w, d)' = Shown(p, w, d) /\ Truth(w, d)' = Truth(w, d)
        /\ Sees(p, w)' = Sees(p, w)
        /\ Late(p, w, d)' = Late(p, w, d) /\ Leaving(p)' = Leaving(p)
    BY <1>1 DEF Aside, Shown, Truth, Role, Sees, Late, Leaving, pageVars
  <2> QED
    BY <1>0, <1>1, <2>1, CellKept DEF Aside
<1>2. ASSUME NEW c \in Clients, Called(c) PROVE Cell(p, w, d)'
  <2>1. PICK id \in Clients \cup {"auto", "op"} :
            actions' = Put(actions, {c}, <<Control("kick", id)>>)
    BY <1>2 DEF Called
  <2>2. PICK a : a = Control("kick", id)
    OBVIOUS
  <2>3. a \in Tame /\ ~About(a, w, d) /\ ~Clears(a)
    BY <2>2, Messages DEF Control, About, Clears, Speaks
  <2>4. /\ Shown(p, w, d)' = Shown(p, w, d) /\ Truth(w, d)' = Truth(w, d)
        /\ Sees(p, w)' = Sees(p, w) /\ members' = members
        /\ Late(p, w, d)' = Late(p, w, d) /\ Leaving(p)' = Leaving(p)
    BY <1>2 DEF Called, Shown, Truth, Role, Sees, Late, Leaving, pageVars
  <2>5. CASE p = c /\ stage[p] # "ended"
    <3>1. actions'[p] = actions[p] \o <<a>>
      BY <1>0, <2>1, <2>2, <2>5 DEF Put
    <3> QED
      BY <1>0, <2>3, <2>4, <3>1, CellAdds
  <2>6. CASE p # c \/ stage[p] = "ended"
    <3>1. actions'[p] = actions[p]
      BY <1>0, <2>1, <2>6 DEF Put
    <3> QED
      BY <1>0, <2>4, <3>1, CellKept
  <2> QED
    BY <2>5, <2>6
<1>3. ASSUME NEW c \in Clients,
             Departs(c) \/ Push(c) \/ FinishLeave(c) \/ TakeUser(c) \/ TakeJoined(c)
      PROVE  Cell(p, w, d)'
  <2>1. CASE Departs(c)
    BY <1>0, <2>1, CellDeparts
  <2>2. CASE Push(c)
    BY <1>0, <2>2, CellPush
  <2>3. CASE FinishLeave(c)
    BY <1>0, <2>3, CellFinish
  <2>4. CASE TakeUser(c) \/ TakeJoined(c)
    BY <1>0, <2>4, CellTake
  <2> QED
    BY <1>3, <2>1, <2>2, <2>3, <2>4
<1>4. ASSUME NEW c \in Clients, NEW cred \in Creds3,
             Join(c, cred) \/ Enter(c, cred) \/ Knock(c, cred) \/ Refused(c, cred)
      PROVE  Cell(p, w, d)'
  <2>1. CASE Join(c, cred) \/ Refused(c, cred)
    BY <1>0, <2>1, CellAsks
  <2>2. CASE Enter(c, cred)
    BY <1>0, <2>2, CellEnters
  <2>3. CASE Knock(c, cred)
    BY <1>0, <2>3, CellKnock
  <2> QED
    BY <1>4, <2>1, <2>2, <2>3
<1>5. ASSUME NEW c \in Clients, NEW o \in Clients, NEW kind \in {"rejoin", "deny"},
             Answer(o, c, kind)
      PROVE  Cell(p, w, d)'
  BY <1>0, <1>5, CellAnswer
<1> QED
  BY <1>1, <1>2, <1>3, <1>4, <1>5 DEF PageStep

\* The group starts empty, and nothing is under way.
LEMMA InitPages ==
    ASSUME NEW w \in Kinds, Kept(w), Init
    PROVE  PageInv(w)
<1>1. Types
  BY InitDoor
<1>2. Queued
  BY FS_EmptySet DEF Init, Queued
<1>3. Places /\ Posts
  BY DEF Init, Places, Placed, Creds3, Posts
<1>4. Turns
  BY DEF Init, Turns, OneTurn, Asks, Asked, Answers, Creds3
<1>5. ASSUME NEW c \in Clients, NEW d \in Clients PROVE Cell(c, w, d)
  <2>1. c \notin members /\ actions[c] = <<>> /\ Shown(c, w, d) = "none"
    BY DEF Init, Shown
  <2>2. PICK q, v : q = actions[c] /\ v = Shown(c, w, d)
    OBVIOUS
  <2>3. Len(q) = 0 /\ v = "none"
    BY <2>1, <2>2
  <2>4. 0 \in 0 .. Len(q) /\ \A j \in 0 + 1 .. Len(q) : FALSE
    BY <2>3
  <2>5. Blank(q, v, w, d)
    BY <2>3, <2>4 DEF Blank
  <2> QED
    BY <2>1, <2>2, <2>5 DEF Cell, Sees
<1> QED
  BY <1>1, <1>2, <1>3, <1>4, <1>5 DEF PageInv, Cells

LEMMA PagesStep ==
    ASSUME NEW w \in Kinds, Kept(w), PageInv(w), [Next]_vars
    PROVE  PageInv(w)'
<1>1. MaxChanges = 0 /\ Types /\ Queued /\ Places /\ Posts
  BY DEF Kept, PageInv
<1>2. PageStep /\ gos' \in Seq(Calls) /\ changes' \in Nat
  BY <1>1, NextPages, GosStep
<1>3. Types' /\ Queued' /\ Places' /\ Posts'
  BY <1>1, <1>2, NextDoor, TypesStep, QueuedStep, PlacesStep, PostsStep
<1>4. w = "knocks" => Turns'
  BY <1>1, <1>2, TurnsStep DEF Kept, PageInv
<1>5. Cells(w)'
  BY <1>2, CellsStep
<1> QED
  BY <1>3, <1>4, <1>5 DEF PageInv

\* When nothing is under way, what a page shows of a client is how things
\* stand.
LEMMA QuietShows ==
    ASSUME NEW w \in Kinds, PageInv(w), Quiet, NEW c \in Clients, Sees(c, w), NEW d \in Clients
    PROVE  Shown(c, w, d) = Truth(w, d)
<1>1. ASSUME NEW x \in Clients PROVE pushes[x] = <<>>
  BY DEF Quiet, PageInv, Posts
<1>2. ~Late(c, w, d)
  BY <1>1 DEF Late
<1>3. Shows(actions[c], Shown(c, w, d), w, d, Truth(w, d))
  BY <1>2 DEF PageInv, Cells, Cell
<1>4. actions[c] = <<>>
  BY DEF Quiet
<1>5. PICK q, v, r : q = actions[c] /\ v = Shown(c, w, d) /\ r = Truth(w, d)
  OBVIOUS
<1>6. Shows(q, v, w, d, r) /\ Len(q) = 0
  BY <1>3, <1>4, <1>5
<1>7. v = r
  BY <1>6 DEF Shows
<1> QED
  BY <1>5, <1>7

\* In the end every member's page shows the members there are, each with the
\* permissions it has, whoever joins, leaves, is kicked or loses its session
\* meanwhile, with any number of clients: as long as nobody's permissions are
\* changed, and, where the group redirects, every client has one kind of
\* credentials (AddClient, DelClient, pushClientAction, the page's roster).
THEOREM RosterIsTrue == ASSUME Kept("roster") PROVE Spec => []RosterConverges
<1>1. Init => PageInv("roster")
  BY InitPages DEF Kinds
<1>2. PageInv("roster") /\ [Next]_vars => PageInv("roster")'
  BY PagesStep DEF Kinds
<1>3. ASSUME PageInv("roster") PROVE RosterConverges
  <2> SUFFICES ASSUME Quiet, NEW c \in members, joined[c]
               PROVE  view[c] = [d \in Clients |-> IF d \in members THEN Role(d) ELSE "none"]
    BY DEF RosterConverges
  <2>1. c \in Clients /\ view[c] \in [Clients -> {"none", "user", "op"}]
    BY <1>3 DEF PageInv, Types, Queued
  <2>2. ASSUME NEW d \in Clients
        PROVE  view[c][d] = IF d \in members THEN Role(d) ELSE "none"
    <3>1. Sees(c, "roster") /\ "roster" \in Kinds
      BY DEF Sees, Kinds
    <3>2. Shown(c, "roster", d) = Truth("roster", d)
      BY <1>3, <2>1, <3>1, QuietShows
    <3> QED
      BY <3>2 DEF Shown, Truth
  <2> QED
    BY <2>1, <2>2
<1> QED
  BY <1>1, <1>2, <1>3, PTL DEF Spec

\* In the end every operator's page shows the clients that wait, and no
\* others, whoever knocks, gives up, is admitted or denied meanwhile, by
\* however many operators: as long as nobody's permissions are changed, and
\* clients are the pages of static/, which ask again only when they are told
\* to (AddClient, Admit, Deny, RemoveKnock, the page's knocks).
THEOREM KnocksAreShown == ASSUME Kept("knocks") PROVE Spec => []KnocksShown
<1>1. Init => PageInv("knocks")
  BY InitPages DEF Kinds
<1>2. PageInv("knocks") /\ [Next]_vars => PageInv("knocks")'
  BY PagesStep DEF Kinds
<1>3. ASSUME PageInv("knocks") PROVE KnocksShown
  <2> SUFFICES ASSUME Quiet, NEW o \in members, joined[o], op[o]
               PROVE  knocks[o] = knocking
    BY DEF KnocksShown
  <2>1. o \in Clients /\ knocks[o] \subseteq Clients /\ knocking \subseteq Clients
    BY <1>3 DEF PageInv, Types, Queued
  <2>2. ASSUME NEW d \in Clients PROVE d \in knocks[o] <=> d \in knocking
    <3>1. Sees(o, "knocks") /\ "knocks" \in Kinds
      BY DEF Sees, Kinds
    <3>2. Shown(o, "knocks", d) = Truth("knocks", d)
      BY <1>3, <2>1, <3>1, QuietShows
    <3> QED
      BY <3>2 DEF Shown, Truth
  <2> QED
    BY <2>1, <2>2
<1> QED
  BY <1>1, <1>2, <1>3, PTL DEF Spec

-----------------------------------------------------------------------------
(* The login throttle.                                                     *)

\* What is needed to know that a ban is served: the record of an address
\* that must be refused is there, and lasts at least as long.
BanRecorded ==
    \A k \in Keys : now < banned[k] =>
        k \in DOMAIN records /\ records[k].bannedUntil >= banned[k]

\* What is needed to know that the overshoot is bounded: an address at the
\* threshold has a ban, and while it lasts, the attempts under way are all
\* that is still to come.
Tallied(k) ==
    LET r == records[k]
    IN  /\ r.failures <= Threshold - 1 + Cardinality(UsersOf(k))
        /\ r.failures >= Threshold => r.bannedUntil # NoBan
        /\ r.failures >= Threshold /\ now < r.bannedUntil =>
              r.failures + Cardinality(Evaluating(k))
                  <= Threshold - 1 + Cardinality(UsersOf(k))

AllTallied == \A k \in DOMAIN records : Tallied(k)

LimitInv == LimitTypeOK /\ BanRecorded /\ AllTallied

-----------------------------------------------------------------------------
\* The limits are numbers.
LEMMA Limits ==
    /\ Threshold \in Nat /\ Threshold > 0 /\ Ban \in Nat /\ Ban > 0
    /\ Forget \in Nat /\ MaxTime \in Nat
  BY LimitsAssumption

\* There are finitely many users at an address, and no more under way.
LEMMA Finitely ==
    ASSUME NEW k
    PROVE  /\ IsFiniteSet(UsersOf(k)) /\ Cardinality(UsersOf(k)) \in Nat
           /\ IsFiniteSet(Evaluating(k)) /\ Cardinality(Evaluating(k)) \in Nat
           /\ Cardinality(Evaluating(k)) <= Cardinality(UsersOf(k))
<1>1. UsersOf(k) \subseteq Users /\ Evaluating(k) \subseteq UsersOf(k)
  BY DEF UsersOf, Evaluating
<1>2. IsFiniteSet(UsersOf(k)) BY <1>1, UsersAssumption, FS_Subset
<1>3. /\ IsFiniteSet(Evaluating(k))
      /\ Cardinality(Evaluating(k)) <= Cardinality(UsersOf(k))
  BY <1>1, <1>2, FS_Subset
<1> QED BY <1>2, <1>3, FS_CardinalityType

\* The count a failure starts from is a number.
LEMMA CountedType == ASSUME LimitTypeOK, NEW k PROVE Counted(k) \in Nat
  BY DEF LimitTypeOK, Record, Counted

\* The record of a failure is a record.
LEMMA FailedType ==
    ASSUME LimitTypeOK, NEW k
    PROVE  /\ Failed(k) \in Record
           /\ Failed(k).failures = Counted(k) + 1
           /\ Counted(k) + 1 >= Threshold => Failed(k).bannedUntil = now + Ban
<1>1. Counted(k) \in Nat BY CountedType
<1>2. now \in Int /\ Ban \in Nat /\ Threshold \in Nat BY Limits DEF LimitTypeOK
<1>3. k \in DOMAIN records => records[k].bannedUntil \in Int BY DEF LimitTypeOK, Record
<1> QED BY <1>1, <1>2, <1>3 DEF Failed, Record, NoBan

\* Steps preserve the types.
LEMMA TypeStep == ASSUME LimitTypeOK, [LimitNext]_limitVars PROVE LimitTypeOK'
<1> USE Limits DEF LimitTypeOK
<1>1. ASSUME NEW u \in Users, Try(u) PROVE LimitTypeOK' BY <1>1 DEF Try
<1>2. ASSUME NEW u \in Users, Inconclusive(u) PROVE LimitTypeOK' BY <1>2 DEF Inconclusive
<1>3. ASSUME NEW u \in Users, Succeed(u) PROVE LimitTypeOK'
  BY <1>3 DEF Succeed, NoBan, Keys
<1>4. ASSUME NEW u \in Users, Fail(u) PROVE LimitTypeOK'
  <2>1. Failed(Key[u]) \in Record /\ Key[u] \in Keys BY FailedType DEF Keys
  <2>2. Failed(Key[u]).failures \in Nat BY <2>1 DEF Record
  <2>3. Failed(Key[u]).failures > 0 BY <2>2, FailedType, CountedType
  <2>4. Remaining(Failed(Key[u]).failures) \in 0 .. Threshold
    BY <2>2, <2>3 DEF Remaining
  <2>5. DOMAIN records' \subseteq Keys BY <1>4, <2>1 DEF Fail
  <2>6. \A k \in DOMAIN records' : records'[k] \in Record
    BY <1>4, <2>1 DEF Fail
  <2>7. banned' \in [Keys -> Int]
    <3>1. now + Ban \in Int OBVIOUS
    <3>2. banned' = banned \/ banned' = [banned EXCEPT ![Key[u]] = now + Ban]
      BY <1>4 DEF Fail
    <3> QED BY <3>1, <3>2
  <2>8. answer' \in [Users -> 0 .. Threshold] BY <1>4, <2>4 DEF Fail
  <2> QED BY <1>4, <2>5, <2>6, <2>7, <2>8 DEF Fail
<1>5. ASSUME NEW u \in Users, Answered(u) PROVE LimitTypeOK' BY <1>5 DEF Answered
<1>6. CASE Tick BY <1>6 DEF Tick
<1>7. CASE UNCHANGED limitVars BY <1>7 DEF limitVars
<1> QED BY <1>1, <1>2, <1>3, <1>4, <1>5, <1>6, <1>7 DEF LimitNext

-----------------------------------------------------------------------------
\* Neither the purge nor a late failure cuts a ban short.
LEMMA BanStep == ASSUME LimitTypeOK, BanRecorded, [LimitNext]_limitVars PROVE BanRecorded'
<1> USE Limits DEF LimitTypeOK
<1>1. ASSUME NEW u \in Users, Try(u) \/ Inconclusive(u) \/ Answered(u)
      PROVE  BanRecorded'
  BY <1>1 DEF Try, Inconclusive, Answered, BanRecorded
<1>2. ASSUME NEW u \in Users, Succeed(u) PROVE BanRecorded'
  <2> SUFFICES ASSUME NEW k \in Keys, now' < banned'[k]
               PROVE  k \in DOMAIN records' /\ records'[k].bannedUntil >= banned'[k]
    BY DEF BanRecorded
  <2>1. CASE k = Key[u] BY <1>2, <2>1 DEF Succeed, NoBan
  <2>2. CASE k # Key[u] BY <1>2, <2>2 DEF Succeed, BanRecorded
  <2> QED BY <2>1, <2>2
<1>3. ASSUME NEW u \in Users, Fail(u) PROVE BanRecorded'
  <2> SUFFICES ASSUME NEW k \in Keys, now' < banned'[k]
               PROVE  k \in DOMAIN records' /\ records'[k].bannedUntil >= banned'[k]
    BY DEF BanRecorded
  <2>1. now' = now BY <1>3 DEF Fail
  <2>2. ASSUME banned'[k] = banned[k]
        PROVE  /\ k \in DOMAIN records \ Purged /\ now < records[k].bannedUntil
               /\ records[k].bannedUntil >= banned[k]
               /\ records[k].bannedUntil \in Int
    <3>1. now < banned[k] BY <2>1, <2>2
    <3>2. k \in DOMAIN records /\ records[k].bannedUntil >= banned[k]
      BY <3>1 DEF BanRecorded
    <3>3. records[k].bannedUntil \in Int BY <3>2 DEF Record
    <3> QED BY <3>1, <3>2, <3>3 DEF Purged
  <2>3. CASE k # Key[u]
    <3>1. banned'[k] = banned[k] BY <1>3, <2>3 DEF Fail
    <3> QED BY <1>3, <2>2, <2>3, <3>1 DEF Fail
  <2>4. CASE k = Key[u] /\ Failed(k).failures >= Threshold
    <3>1. banned'[k] = now + Ban BY <1>3, <2>4 DEF Fail
    <3>2. k \in DOMAIN records' /\ records'[k] = Failed(k) BY <1>3, <2>4 DEF Fail
    <3>3. Failed(k).bannedUntil = now + Ban BY <2>4, FailedType
    <3> QED BY <3>1, <3>2, <3>3
  <2>5. CASE k = Key[u] /\ ~(Failed(k).failures >= Threshold)
    <3>1. banned'[k] = banned[k] BY <1>3, <2>5 DEF Fail
    <3>2. k \in DOMAIN records' /\ records'[k] = Failed(k) BY <1>3, <2>5 DEF Fail
    <3>3. Failed(k).bannedUntil = records[k].bannedUntil
      BY <2>2, <2>5, <3>1, CountedType DEF Failed
    <3> QED BY <2>2, <3>1, <3>2, <3>3
  <2> QED BY <2>3, <2>4, <2>5
<1>4. CASE Tick BY <1>4 DEF Tick, BanRecorded
<1>5. CASE UNCHANGED limitVars BY <1>5 DEF limitVars, BanRecorded
<1> QED BY <1>1, <1>2, <1>3, <1>4, <1>5 DEF LimitNext

-----------------------------------------------------------------------------
\* An attempt that ends is no longer under way.
LEMMA FewerEvaluating ==
    ASSUME LimitTypeOK, NEW u \in Users, attempt[u] = "evaluating", NEW s, s # "evaluating",
           attempt' = [attempt EXCEPT ![u] = s], NEW k
    PROVE  /\ Evaluating(k)' = Evaluating(k) \ {u}
           /\ k # Key[u] => Evaluating(k)' = Evaluating(k)
           /\ k = Key[u] => /\ u \in Evaluating(k)
                            /\ Cardinality(Evaluating(k)') = Cardinality(Evaluating(k)) - 1
           /\ Cardinality(Evaluating(k)') \in Nat
           /\ Cardinality(Evaluating(k)') <= Cardinality(Evaluating(k))
<1>1. Evaluating(k)' = Evaluating(k) \ {u} BY DEF LimitTypeOK, Evaluating, UsersOf
<1>2. k # Key[u] => u \notin Evaluating(k) BY DEF Evaluating, UsersOf
<1>3. k = Key[u] => u \in Evaluating(k) BY DEF Evaluating, UsersOf
<1>4. IsFiniteSet(Evaluating(k)) /\ Cardinality(Evaluating(k)) \in Nat BY Finitely
<1>5. k # Key[u] => Evaluating(k)' = Evaluating(k) BY <1>1, <1>2
<1>6. k = Key[u] => Cardinality(Evaluating(k)') = Cardinality(Evaluating(k)) - 1
  BY <1>1, <1>3, <1>4, FS_RemoveElement
<1>7. k = Key[u] => Cardinality(Evaluating(k)) # 0
  BY <1>3, <1>4, FS_EmptySet
<1>8. CASE k = Key[u] BY <1>1, <1>3, <1>4, <1>6, <1>7, <1>8
<1>9. CASE k # Key[u] BY <1>1, <1>4, <1>5, <1>9
<1> QED BY <1>8, <1>9

\* A failure beyond the threshold was under way when the ban began.
LEMMA TalliedFail ==
    ASSUME LimitTypeOK, AllTallied, NEW u \in Users, Fail(u), NEW k \in DOMAIN records'
    PROVE  Tallied(k)'
<1> DEFINE U == Cardinality(UsersOf(k))
           E == Cardinality(Evaluating(k))
           F == Cardinality(Evaluating(k)')
<1>1. attempt[u] = "evaluating" /\ attempt' = [attempt EXCEPT ![u] = "asleep"] /\ now' = now
  BY DEF Fail
<1>2. /\ U \in Nat /\ E \in Nat /\ F \in Nat /\ F <= E /\ E <= U
      /\ k = Key[u] => F = E - 1
      /\ k # Key[u] => Evaluating(k)' = Evaluating(k)
  BY <1>1, Finitely, FewerEvaluating
<1>3. UsersOf(k)' = UsersOf(k) BY DEF UsersOf
<1>4. CASE k # Key[u]
  <2>1. k \in DOMAIN records /\ records'[k] = records[k] BY <1>4 DEF Fail
  <2>2. Tallied(k) BY <2>1 DEF AllTallied
  <2> QED BY <1>1, <1>2, <1>3, <1>4, <2>1, <2>2 DEF Tallied
<1>5. CASE k = Key[u]
  <2> DEFINE n == Counted(k) + 1
  <2>1. records'[k] = Failed(k) BY <1>5 DEF Fail
  <2>2. /\ n \in Nat /\ Failed(k).failures = n
        /\ n >= Threshold => Failed(k).bannedUntil = now + Ban
    BY CountedType, FailedType
  <2>3. Threshold \in Nat /\ Threshold > 0 /\ Ban \in Nat /\ now \in Nat
    BY Limits DEF LimitTypeOK
  <2>4. ASSUME n > Threshold PROVE n + F <= Threshold - 1 + U
    <3>1. /\ k \in DOMAIN records /\ Counted(k) = records[k].failures
          /\ records[k].bannedUntil = NoBan \/ now < records[k].bannedUntil
      BY <2>2, <2>3, <2>4 DEF Counted
    <3>2. Tallied(k) BY <3>1 DEF AllTallied
    <3>3. Counted(k) \in Nat /\ Counted(k) >= Threshold BY <2>3, <2>4, CountedType
    <3>4. Counted(k) + E <= Threshold - 1 + U BY <3>1, <3>2, <3>3 DEF Tallied
    <3> QED BY <1>2, <1>5, <2>3, <3>3, <3>4
  <2>5. n >= Threshold => n + F <= Threshold - 1 + U
    BY <1>2, <1>5, <2>2, <2>3, <2>4
  <2>6. n <= Threshold - 1 + U BY <1>2, <2>2, <2>3, <2>5
  <2>7. n >= Threshold => Failed(k).bannedUntil # NoBan BY <2>2, <2>3 DEF NoBan
  <2> QED BY <1>3, <2>1, <2>2, <2>5, <2>6, <2>7 DEF Tallied
<1> QED BY <1>4, <1>5

\* So do the other steps.
LEMMA TalliedStep == ASSUME LimitTypeOK, AllTallied, [LimitNext]_limitVars PROVE AllTallied'
<1> SUFFICES ASSUME NEW k \in DOMAIN records' PROVE Tallied(k)'
  BY DEF AllTallied
<1>1. UsersOf(k)' = UsersOf(k) BY DEF UsersOf
<1>2. Cardinality(UsersOf(k)) \in Nat /\ Cardinality(Evaluating(k)) \in Nat
  BY Finitely
<1>3. now \in Int /\ Threshold \in Int BY Limits DEF LimitTypeOK
<1>4. ASSUME k \in DOMAIN records, records'[k] = records[k], now' = now \/ now' = now + 1,
             \/ Cardinality(Evaluating(k)') \in Nat
                /\ Cardinality(Evaluating(k)') <= Cardinality(Evaluating(k))
             \/ ~Banned(k) /\ now' = now
      PROVE  Tallied(k)'
  <2>1. Tallied(k) BY <1>4 DEF AllTallied
  <2>2. records[k].failures \in Nat /\ records[k].bannedUntil \in Int
    BY <1>4 DEF LimitTypeOK, Record
  <2> QED BY <1>1, <1>2, <1>3, <1>4, <2>1, <2>2 DEF Tallied, Banned
<1>5. ASSUME NEW u \in Users, Try(u) PROVE Tallied(k)'
  <2>1. records' = records /\ now' = now BY <1>5 DEF Try
  <2>2. CASE k = Key[u] BY <1>4, <1>5, <2>1, <2>2 DEF Try
  <2>3. CASE k # Key[u]
    <3>1. Evaluating(k)' = Evaluating(k)
      BY <1>5, <2>3 DEF Try, LimitTypeOK, Evaluating, UsersOf
    <3> QED BY <1>2, <1>4, <2>1, <3>1
  <2> QED BY <2>2, <2>3
<1>6. ASSUME NEW u \in Users, Inconclusive(u) \/ Succeed(u) PROVE Tallied(k)'
  <2>1. /\ attempt[u] = "evaluating" /\ attempt' = [attempt EXCEPT ![u] = "idle"]
        /\ now' = now /\ k \in DOMAIN records /\ records'[k] = records[k]
    BY <1>6 DEF Inconclusive, Succeed
  <2>2. /\ Cardinality(Evaluating(k)') \in Nat
        /\ Cardinality(Evaluating(k)') <= Cardinality(Evaluating(k))
    BY <2>1, FewerEvaluating
  <2> QED BY <1>4, <2>1, <2>2
<1>7. ASSUME NEW u \in Users, Fail(u) PROVE Tallied(k)'
  BY <1>7, TalliedFail
<1>8. ASSUME NEW u \in Users, Answered(u) PROVE Tallied(k)'
  <2>1. Evaluating(k)' = Evaluating(k)
    BY <1>8 DEF Answered, LimitTypeOK, Evaluating, UsersOf
  <2> QED BY <1>2, <1>4, <1>8, <2>1 DEF Answered
<1>9. CASE Tick \/ UNCHANGED limitVars
  <2>1. Evaluating(k)' = Evaluating(k) BY <1>9 DEF Tick, limitVars, Evaluating, UsersOf
  <2> QED BY <1>2, <1>4, <1>9, <2>1 DEF Tick, limitVars
<1> QED BY <1>5, <1>6, <1>7, <1>8, <1>9 DEF LimitNext

-----------------------------------------------------------------------------
\* The invariant holds at the start ...
LEMMA LimitInitInv == ASSUME LimitInit PROVE LimitInv
<1>1. LimitTypeOK BY Limits DEF LimitInit, LimitTypeOK, NoBan
<1>2. BanRecorded BY DEF LimitInit, BanRecorded, NoBan
<1>3. AllTallied BY DEF LimitInit, AllTallied
<1> QED BY <1>1, <1>2, <1>3 DEF LimitInv

\* ... and always.
LEMMA LimitInvHolds == LimitSpec => []LimitInv
<1>1. LimitInit => LimitInv BY LimitInitInv
<1>2. LimitInv /\ [LimitNext]_limitVars => LimitInv' BY TypeStep, BanStep, TalliedStep DEF LimitInv
<1> QED BY <1>1, <1>2, PTL DEF LimitSpec

\* The types of the throttle's records, of what users are told and of the
\* clock are preserved by every step.
THEOREM TypeCorrect == LimitSpec => []LimitTypeOK
<1>1. LimitInv => LimitTypeOK BY DEF LimitInv
<1> QED BY <1>1, LimitInvHolds, PTL

\* An address that has reached the threshold is refused for banDuration,
\* whatever is purged or fails meanwhile (authlimit.go, purgeAuthLocked and
\* failureDelayAt), unless a login succeeds.
THEOREM BansAreServed == LimitSpec => []BanServed
<1>1. LimitInv => BanServed
  <2> SUFFICES ASSUME LimitInv, NEW k \in Keys, now < banned[k] PROVE Banned(k)
    BY DEF BanServed
  <2>1. k \in DOMAIN records /\ records[k].bannedUntil >= banned[k]
    BY DEF LimitInv, BanRecorded
  <2>2. now \in Int /\ banned[k] \in Int /\ records[k].bannedUntil \in Int
    BY <2>1 DEF LimitInv, LimitTypeOK, Record
  <2> QED BY <2>1, <2>2 DEF Banned
<1> QED BY <1>1, LimitInvHolds, PTL

\* However attempts overlap, an address fails at most as many times beyond
\* the threshold as it has users, less one (handleClientMessage looks up the
\* ban before the credentials are evaluated and records the failure after).
THEOREM OvershootIsBounded == LimitSpec => []OvershootBounded
<1>1. LimitInv => OvershootBounded BY DEF LimitInv, AllTallied, Tallied, OvershootBounded
<1> QED BY <1>1, LimitInvHolds, PTL

-----------------------------------------------------------------------------
\* A user that shares its address with nobody was last told what its record
\* says.
Alone(u) == \A v \in Users : Key[v] = Key[u] => v = u
Warned ==
    \A u \in Users : Alone(u) /\ Key[u] \in DOMAIN records =>
        answer[u] = Remaining(records[Key[u]].failures)

\* Nobody else touches that record, other than to purge it.
LEMMA WarnedStep == ASSUME LimitTypeOK, Warned, [LimitNext]_limitVars PROVE Warned'
<1> SUFFICES ASSUME NEW u \in Users, Alone(u), Key[u] \in DOMAIN records'
             PROVE  answer'[u] = Remaining(records'[Key[u]].failures)
  BY DEF Warned, Alone, Remaining
<1>1. ASSUME Key[u] \in DOMAIN records, records'[Key[u]] = records[Key[u]],
             answer'[u] = answer[u]
      PROVE  answer'[u] = Remaining(records'[Key[u]].failures)
  BY <1>1 DEF Warned
<1>2. ASSUME NEW v \in Users, Try(v) \/ Inconclusive(v) \/ Answered(v)
      PROVE  answer'[u] = Remaining(records'[Key[u]].failures)
  BY <1>1, <1>2 DEF Try, Inconclusive, Answered
<1>3. ASSUME NEW v \in Users, Succeed(v)
      PROVE  answer'[u] = Remaining(records'[Key[u]].failures)
  <2>1. Key[v] # Key[u] BY <1>3 DEF Succeed
  <2>2. answer'[u] = answer[u] BY <1>3, <2>1 DEF Succeed, LimitTypeOK
  <2>3. Key[u] \in DOMAIN records /\ records'[Key[u]] = records[Key[u]]
    BY <1>3 DEF Succeed
  <2> QED BY <1>1, <2>2, <2>3
<1>4. ASSUME NEW v \in Users, Fail(v)
      PROVE  answer'[u] = Remaining(records'[Key[u]].failures)
  <2>1. CASE v = u BY <1>4, <2>1 DEF Fail, LimitTypeOK
  <2>2. CASE v # u
    <3>1. Key[v] # Key[u] BY <2>2 DEF Alone
    <3>2. answer'[u] = answer[u] BY <1>4, <2>2 DEF Fail, LimitTypeOK
    <3>3. Key[u] \in DOMAIN records /\ records'[Key[u]] = records[Key[u]]
      BY <1>4, <3>1 DEF Fail
    <3> QED BY <1>1, <3>2, <3>3
  <2> QED BY <2>1, <2>2
<1>5. CASE Tick \/ UNCHANGED limitVars BY <1>1, <1>5 DEF Tick, limitVars
<1> QED BY <1>2, <1>3, <1>4, <1>5 DEF LimitNext

\* A user is told that none is left only after it was told that one is.
LEMMA NoticeStep ==
    ASSUME LimitTypeOK, Warned, [LimitNext]_limitVars,
           NEW u \in Users, answer[u] # 0, answer'[u] = 0, Alone(u)
    PROVE  answer[u] <= BanWarn
<1>1. /\ Threshold \in Nat /\ BanWarn \in Nat /\ BanWarn > 0 /\ BanWarn < Threshold
      /\ answer[u] \in Nat
  BY LimitsAssumption DEF LimitTypeOK
<1>2. Fail(u)
  <2>1. \A v \in Users : Succeed(v) => answer'[u] = answer[u] \/ answer'[u] = Threshold
    BY DEF Succeed, LimitTypeOK
  <2>2. \A v \in Users : Fail(v) /\ v # u => answer'[u] = answer[u]
    BY DEF Fail, LimitTypeOK
  <2>3. \A v \in Users : Try(v) \/ Inconclusive(v) \/ Answered(v) => answer' = answer
    BY DEF Try, Inconclusive, Answered
  <2>4. Tick \/ UNCHANGED limitVars => answer' = answer BY DEF Tick, limitVars
  <2> QED BY <1>1, <2>1, <2>2, <2>3, <2>4 DEF LimitNext
<1> DEFINE k == Key[u]
<1>3. answer'[u] = Remaining(Failed(k).failures) BY <1>2 DEF Fail, LimitTypeOK
<1>4. Counted(k) \in Nat /\ Failed(k).failures = Counted(k) + 1
  BY CountedType, FailedType
<1>5. Counted(k) + 1 >= Threshold BY <1>1, <1>3, <1>4 DEF Remaining
<1>6. Counted(k) # 0 BY <1>1, <1>4, <1>5
<1>7. k \in DOMAIN records /\ Counted(k) = records[k].failures BY <1>6 DEF Counted
<1>8. answer[u] = Remaining(Counted(k)) BY <1>7 DEF Warned
<1> QED BY <1>1, <1>4, <1>5, <1>8 DEF Remaining

\* A user alone at its address is warned before it is banned: "a legitimate
\* user is never banned without notice" (authlimit.go).
THEOREM NoticeIsGiven == LimitSpec => NeverWithoutNotice
<1>1. LimitInit => Warned BY DEF LimitInit, Warned
<1>2. LimitInv /\ Warned /\ [LimitNext]_limitVars => Warned' BY WarnedStep DEF LimitInv
<1>3. LimitInv /\ Warned /\ [LimitNext]_limitVars =>
        [\A u \in Users :
            /\ answer[u] # 0 /\ answer'[u] = 0
            /\ \A v \in Users : Key[v] = Key[u] => v = u
            => answer[u] <= BanWarn]_limitVars
  <2> SUFFICES ASSUME LimitInv, Warned, [LimitNext]_limitVars, NEW u \in Users,
                      answer[u] # 0, answer'[u] = 0,
                      \A v \in Users : Key[v] = Key[u] => v = u
               PROVE  answer[u] <= BanWarn
    OBVIOUS
  <2>1. Alone(u) BY DEF Alone
  <2> QED BY <2>1, NoticeStep DEF LimitInv
<1> QED BY <1>1, <1>2, <1>3, LimitInvHolds, PTL DEF LimitSpec, NeverWithoutNotice

-----------------------------------------------------------------------------
(* The action queues: no wake-up is lost, and elements are taken in the    *)
(* order in which they were put.                                           *)

QueueInv == QueueTypeOK /\ NoLostWakeup /\ FirstInFirstOut

\* A queue from which everything was taken holds nothing.
LEMMA ConcatEmpty ==
    ASSUME NEW S, NEW q \in Seq(S)
    PROVE  q \o <<>> = q
  OBVIOUS

\* Every step keeps the types.
LEMMA QueueTypeStep == ASSUME QueueTypeOK, [QueueNext]_channelVars PROVE QueueTypeOK'
<1> USE DEF QueueTypeOK, Elements
<1>1. CASE UNCHANGED channelVars
  BY <1>1 DEF channelVars
<1>2. ASSUME NEW w \in Writers, PutOne(w) PROVE QueueTypeOK'
  <2>1. puts[w] + 1 \in 0 .. MaxPuts /\ <<w, puts[w] + 1>> \in Writers \X Nat
    BY <1>2, MaxPutsAssumption DEF PutOne
  <2> QED
    BY <1>2, <2>1 DEF PutOne
<1>3. ASSUME NEW w \in Writers, Signal(w) PROVE QueueTypeOK'
  BY <1>3 DEF Signal
<1>4. CASE Wake
  BY <1>4 DEF Wake
<1>5. CASE Get
  BY <1>5 DEF Get
<1>6. CASE Done
  BY <1>6 DEF Done, channelVars
<1> QED
  BY <1>1, <1>2, <1>3, <1>4, <1>5, <1>6 DEF QueueNext

\* Every step leaves someone to wake the reader while there is something to
\* take: the writer that finds the queue empty, until it has signalled.
LEMMA WakeupStep == ASSUME QueueTypeOK, NoLostWakeup, [QueueNext]_channelVars PROVE NoLostWakeup'
<1> USE DEF NoLostWakeup
<1>1. CASE UNCHANGED channelVars
  BY <1>1 DEF channelVars
<1>2. ASSUME NEW w \in Writers, PutOne(w) PROVE NoLostWakeup'
  <2>1. CASE queue = <<>>
    <3>1. writer'[w] = "signal"
      BY <1>2, <2>1 DEF PutOne, QueueTypeOK
    <3> QED
      BY <3>1
  <2>2. CASE queue # <<>>
    <3>1. /\ signal' = signal /\ reader' = reader
          /\ writer' = [writer EXCEPT ![w] = "idle"] /\ writer[w] = "idle"
      BY <1>2, <2>2 DEF PutOne
    <3> QED
      BY <2>2, <3>1 DEF QueueTypeOK
  <2> QED
    BY <2>1, <2>2
<1>3. ASSUME NEW w \in Writers, Signal(w) PROVE NoLostWakeup'
  BY <1>3 DEF Signal
<1>4. CASE Wake
  BY <1>4 DEF Wake
<1>5. CASE Get
  BY <1>5 DEF Get
<1>6. CASE Done
  BY <1>6 DEF Done, channelVars
<1> QED
  BY <1>1, <1>2, <1>3, <1>4, <1>5, <1>6 DEF QueueNext

\* Every step keeps the order.
LEMMA OrderStep == ASSUME QueueTypeOK, FirstInFirstOut, [QueueNext]_channelVars PROVE FirstInFirstOut'
<1> USE DEF FirstInFirstOut
<1>1. CASE UNCHANGED channelVars
  BY <1>1 DEF channelVars
<1>2. ASSUME NEW w \in Writers, PutOne(w) PROVE FirstInFirstOut'
  <2>a. puts[w] + 1 \in Nat
    BY MaxPutsAssumption DEF QueueTypeOK
  <2>0. PICK x \in Elements : x = <<w, puts[w] + 1>>
    BY <2>a DEF Elements
  <2>1. x \in Elements /\ taken \in Seq(Elements) /\ queue \in Seq(Elements)
    BY DEF QueueTypeOK
  <2>2. arrived' = Append(arrived, x) /\ queue' = Append(queue, x) /\ taken' = taken
    BY <1>2, <2>0 DEF PutOne
  <2>3. Append(taken \o queue, x) = taken \o Append(queue, x)
    BY <2>1
  <2> QED
    BY <2>2, <2>3
<1>3. ASSUME NEW w \in Writers, Signal(w) PROVE FirstInFirstOut'
  BY <1>3 DEF Signal
<1>4. CASE Wake
  BY <1>4 DEF Wake
<1>5. CASE Get
  <2>1. taken \o queue \in Seq(Elements)
    BY DEF QueueTypeOK
  <2> QED
    BY <1>5, <2>1, ConcatEmpty DEF Get
<1>6. CASE Done
  BY <1>6 DEF Done, channelVars
<1> QED
  BY <1>1, <1>2, <1>3, <1>4, <1>5, <1>6 DEF QueueNext

\* The channel starts empty.
LEMMA QueueInitInv == ASSUME QueueInit PROVE QueueInv
<1>1. QueueTypeOK
  <2>1. 0 \in 0 .. MaxPuts
    BY MaxPutsAssumption
  <2>2. <<>> \in Seq(Elements)
    OBVIOUS
  <2> QED
    BY <2>1, <2>2 DEF QueueInit, QueueTypeOK
<1>2. NoLostWakeup /\ FirstInFirstOut
  BY DEF QueueInit, NoLostWakeup, FirstInFirstOut
<1> QED
  BY <1>1, <1>2 DEF QueueInv

\* All of it together is an invariant.
LEMMA QueueInvHolds == QueueSpec => []QueueInv
<1>1. QueueInit => QueueInv
  BY QueueInitInv
<1>2. QueueInv /\ [QueueNext]_channelVars => QueueInv'
  BY QueueTypeStep, WakeupStep, OrderStep DEF QueueInv
<1> QED
  BY <1>1, <1>2, PTL DEF QueueSpec

\* The reader never sleeps on a queue that holds something, with any number
\* of writers: Put and Get of unbounded.Channel lose no wake-up although the
\* signal is sent without the lock and dropped when one is pending.
THEOREM WakeupNotLost == QueueSpec => []NoLostWakeup
<1>1. QueueInv => NoLostWakeup
  BY DEF QueueInv
<1> QED
  BY <1>1, QueueInvHolds, PTL

\* What Get returns, call after call, is what was put, in order.
THEOREM InOrder == QueueSpec => []FirstInFirstOut
<1>1. QueueInv => FirstInFirstOut
  BY DEF QueueInv
<1> QED
  BY <1>1, QueueInvHolds, PTL
=============================================================================
