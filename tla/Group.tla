------------------------------- MODULE Group --------------------------------
(***************************************************************************)
(* One group and the web clients at its door: joining, the lobby, the      *)
(* lock, leaving, kicks and changes of permissions (group/group.go; the    *)
(* join, useraction and groupaction messages, handleAction and leaveGroup  *)
(* of rtpconn/webclient.go; the roster of static/protocol.js).             *)
(*                                                                         *)
(* A section under g.mu is one step.  What a goroutine does after it has   *)
(* released g.mu, to the list of members it took under it, is done in      *)
(* steps of its own, one push at a time.  Every client has one goroutine   *)
(* (clientLoop) that handles its messages and its action queue, one after  *)
(* the other.  Client ids are unique, so a client stands for its id.       *)
(***************************************************************************)
EXTENDS Integers, Sequences, FiniteSets, SequencesExt

CONSTANTS
    Clients,
    Creds,          \* Creds[c]: what c may join with, of "op", "token", "guest"
    Lobby,          \* description.Lobby
    Child,          \* description.isOperatorRoomChild
    RequireE2EE,    \* E2EE, RequireE2EE and not OperatorRoom
    MaxClients,     \* description.MaxClients, 0 for none
    Autolock,
    Autokick,
    Hours,          \* description.NotBefore or Expires is set
    MayRedirect,    \* the description may be edited to set Redirect
    Powers,         \* bound: what is done, of "kick", "lock" and "leave"
    BundledPage,    \* clients are the web pages of static/, see Join
    MaxJoins,       \* bound: MaxJoins[c] joins of client c
    MaxChanges      \* bound: changes of permissions in all

ASSUME CredsAssumption == Creds \in [Clients -> SUBSET {"op", "token", "guest"}]
ASSUME DescriptionAssumption ==
    /\ {Lobby, Child, RequireE2EE, Autolock, Autokick, Hours,
        MayRedirect, BundledPage} \subseteq BOOLEAN
    /\ MaxClients \in Nat /\ Powers \subseteq {"kick", "lock", "leave"}
ASSUME BoundsAssumption == MaxJoins \in [Clients -> Nat] /\ MaxChanges \in Nat

VARIABLES
    (* the group *)
    members,     \* g.clients
    knocking,
    admitted,
    locked,
    locked1on1,
    redirect,    \* description.Redirect is set
    (* each client's goroutine *)
    stage,       \* what it is doing, see Stages
    ending,      \* its clientLoop is over and cleans up
    joined,      \* c.group is this group
    waiting,     \* c.knocking is this group
    op,          \* c.permissions contains "op"
    actions,     \* its action queue
    pushes,      \* pushes it still has to do, in batches
    gos,         \* the batches that goroutines started by others have to do
    (* what the client's page shows *)
    view,        \* its roster: "none", "user" or "op" for each client
    knocks,      \* the knocks it shows
    ready,       \* it may send a join
    (* history *)
    joins,       \* joins so far
    changes,     \* changes of permissions so far
    grants,      \* times it was admitted
    entries      \* times it entered the lobby group as an uninvited guest

groupVars == <<members, knocking, admitted, locked, locked1on1, redirect>>
clientVars == <<stage, ending, joined, waiting, op>>
queueVars == <<actions, pushes, gos>>
pageVars == <<view, knocks, ready>>
histVars == <<joins, changes, grants, entries>>
vars == <<groupVars, clientVars, queueVars, pageVars, histVars>>

\* A goroutine waits for something to do, is between the two halves of a
\* join (with the credentials it has), pushes, leaves or has ended.
Stages == {"idle", "op", "token", "guest", "push", "leave", "ended"}

-----------------------------------------------------------------------------
(* The actions that are queued for a client.                               *)

User(kind, id, role) == [t |-> "user", kind |-> kind, id |-> id, role |-> role]
Joined(kind, id)     == [t |-> "joined", kind |-> kind, id |-> id, role |-> "none"]
Control(kind, id)    == [t |-> "control", kind |-> kind, id |-> id, role |-> "none"]

Role(c) == IF op[c] THEN "op" ELSE "user"

\* One action for several clients, queued for them in any order.
Batch(to, a) == [to |-> to, a |-> a]

\* The batches for the clients of to: none, if there are none.
For(to, a) == IF to = {} THEN <<>> ELSE <<Batch(to, a)>>

\* What is left of a batch once d has been told.
Told(b, d) == For(b.to \ {d}, b.a)

\* unbounded.Channel.Put, for each of the clients of to.  The queue of a
\* client that has ended is never read.
Put(q, to, s) ==
    [c \in Clients |-> IF c \in to /\ stage[c] # "ended" THEN q[c] \o s ELSE q[c]]

Ops == {c \in members : op[c]}       \* getOpsUnlocked

-----------------------------------------------------------------------------
Init ==
    /\ members = {} /\ knocking = {} /\ admitted = {}
    /\ locked = FALSE /\ locked1on1 = FALSE /\ redirect = FALSE
    /\ stage = [c \in Clients |-> "idle"]
    /\ ending = [c \in Clients |-> FALSE]
    /\ joined = [c \in Clients |-> FALSE]
    /\ waiting = [c \in Clients |-> FALSE]
    /\ op = [c \in Clients |-> FALSE]
    /\ actions = [c \in Clients |-> <<>>]
    /\ pushes = [c \in Clients |-> <<>>]
    /\ gos = <<>>
    /\ view = [c \in Clients |-> [d \in Clients |-> "none"]]
    /\ knocks = [c \in Clients |-> {}]
    /\ ready = [c \in Clients |-> TRUE]
    /\ joins = [c \in Clients |-> 0] /\ changes = 0
    /\ grants = [c \in Clients |-> 0] /\ entries = [c \in Clients |-> 0]

-----------------------------------------------------------------------------
(* Joining.                                                                *)

\* autoLockKick: with no operator among the members, lock the group and send
\* the members away, from a goroutine of its own.
AutoLockKickWhenEmpty(present) ==
    LET alone == present = {}
    IN  /\ locked' = (locked \/ (Autolock /\ alone))
        /\ gos' = gos
AutoLockKick(present) ==
    LET alone == ~\E c \in present : op[c]
    IN  /\ locked' = (locked \/ (Autolock /\ alone))
        /\ gos' = IF Autokick /\ alone /\ present # {}
                  THEN Append(gos, Batch(present, Control("kick", "auto")))
                  ELSE gos

\* seatErrorUnlocked
NoSeat(isOp) ==
    LET n == Cardinality(members)
    IN  \/ ~isOp /\ MaxClients > 0 /\ n >= MaxClients
        \/ ~isOp /\ locked1on1 /\ n >= 2
        \/ RequireE2EE /\ n >= 2

\* What AddClient asks of a client with credentials cred, as far as the
\* lobby and the lock go ...
PassesDoor(c, cred) ==
    \/ cred = "op"
    \/ Lobby /\ c \in admitted
    \/ Lobby /\ c \notin admitted /\ cred = "token" /\ ~Child /\ ~locked
    \/ ~Lobby /\ ~locked

\* ... what makes it wait for an operator instead ...
MayKnock(c, cred) ==
    /\ Lobby /\ cred # "op" /\ c \notin admitted
    /\ IF Child THEN cred = "token" ELSE cred = "guest" /\ Ops # {}

\* ... and what it asks of a client that has passed.
PassesRoomIfSeatedAtTheDoor(c, cred) ==
    /\ Autokick /\ cred # "op" => Ops # {}
    /\ Lobby \/ ~NoSeat(cred = "op")
    /\ c \notin members
PassesRoom(c, cred) ==
    /\ Autokick /\ cred # "op" => Ops # {}
    /\ ~NoSeat(cred = "op")
    /\ c \notin members

\* A "join" message: the first half of AddClient, Add, finds the group and
\* locks it if it has no operator.  The protocol lets a client that is not a
\* member send one at any time.  The bundled page sends one when it opens,
\* and again when it was refused or was told to rejoin.
Join(c, cred) ==
    /\ stage[c] = "idle" /\ ~joined[c] /\ cred \in Creds[c]
    /\ joins[c] < MaxJoins[c]
    /\ BundledPage => ready[c]
    /\ ready' = [ready EXCEPT ![c] = FALSE]
    /\ joins' = [joins EXCEPT ![c] = @ + 1]
    /\ stage' = [stage EXCEPT ![c] = cred]
    /\ AutoLockKick(members)
    /\ UNCHANGED <<members, knocking, admitted, locked1on1, redirect, ending,
                   joined, waiting, op, actions, pushes, view, knocks,
                   changes, grants, entries>>

\* The second half of AddClient sets the client's permissions and uses up an
\* admission, whatever comes of it.
SecondHalfKeepsAdmission(c, cred) ==
    /\ stage[c] = cred /\ cred \in {"op", "token", "guest"}
    /\ stage' = [stage EXCEPT ![c] = "idle"]
    /\ op' = [op EXCEPT ![c] = (cred = "op")]
    /\ UNCHANGED admitted
SecondHalf(c, cred) ==
    /\ stage[c] = cred /\ cred \in {"op", "token", "guest"}
    /\ stage' = [stage EXCEPT ![c] = "idle"]
    /\ op' = [op EXCEPT ![c] = (cred = "op")]
    /\ admitted' = IF Lobby /\ cred # "op" THEN admitted \ {c} ELSE admitted

\* The actions queued for a client that joins: its own "joined", the members,
\* and, for an operator, who is waiting.  The order in which a map lists its
\* elements is immaterial here.
Welcome(c, isOp) ==
    <<Joined("join", c), User("add", c, IF isOp THEN "op" ELSE "user")>>
    \o SetToSeq({User("add", d, Role(d)) : d \in members})
    \o (IF isOp THEN SetToSeq({User("knock", d, "none") : d \in knocking}) ELSE <<>>)

\* The client becomes a member.  If the group redirects, its page is told to
\* go elsewhere instead, and c.group stays nil.
Enter(c, cred) ==
    /\ SecondHalf(c, cred)
    /\ PassesDoor(c, cred) /\ PassesRoom(c, cred)
    /\ members' = members \cup {c}
    /\ actions' = Put(Put(actions, {c}, Welcome(c, cred = "op")), members,
                      <<User("add", c, IF cred = "op" THEN "op" ELSE "user")>>)
    /\ joined' = [joined EXCEPT ![c] = ~redirect]
    /\ waiting' = [waiting EXCEPT ![c] = @ /\ redirect]
    /\ entries' = IF Lobby /\ cred # "op" /\ (cred = "token" => Child)
                  THEN [entries EXCEPT ![c] = @ + 1] ELSE entries
    /\ UNCHANGED <<knocking, locked, locked1on1, redirect, ending, pushes, gos,
                   pageVars, joins, changes, grants>>

\* The client is put into the waiting room and the operators are told.
Knock(c, cred) ==
    /\ SecondHalf(c, cred)
    /\ MayKnock(c, cred) /\ ~NoSeat(FALSE)
    /\ knocking' = knocking \cup {c}
    /\ actions' = Put(actions, Ops, <<User("knock", c, "none")>>)
    /\ waiting' = [waiting EXCEPT ![c] = TRUE]
    /\ UNCHANGED <<members, locked, locked1on1, redirect, ending, joined,
                   pushes, gos, pageVars, histVars>>

\* The client is turned away; a guest also because the hours of the group
\* say so (time is not modelled).  (The "knockrefused" for the operators is for
\* information only, and left out.)
Refused(c, cred) ==
    /\ SecondHalf(c, cred)
    /\ \/ /\ ~(PassesDoor(c, cred) /\ PassesRoom(c, cred))
          /\ ~(MayKnock(c, cred) /\ ~NoSeat(FALSE))
       \/ Hours /\ cred # "op" /\ PassesDoor(c, cred)
    /\ ready' = [ready EXCEPT ![c] = TRUE]
    /\ UNCHANGED <<members, knocking, locked, locked1on1, redirect, ending,
                   joined, waiting, queueVars, view, knocks, histVars>>

-----------------------------------------------------------------------------
(* Pushes made without the lock.                                           *)

\* The goroutine of c queues its next action.
Push(c) ==
    /\ pushes[c] # <<>>
    /\ \E d \in Head(pushes[c]).to :
          /\ actions' = Put(actions, {d}, <<Head(pushes[c]).a>>)
          /\ pushes' = [pushes EXCEPT ![c] = Told(Head(@), d) \o Tail(@)]
    /\ stage' = IF stage[c] = "push" /\ pushes'[c] = <<>>
                THEN [stage EXCEPT ![c] = "idle"] ELSE stage
    /\ UNCHANGED <<groupVars, ending, joined, waiting, op, gos, pageVars,
                   histVars>>

\* So does a goroutine that was started for nothing else.
GoPush(k) ==
    /\ \E d \in gos[k].to :
          /\ actions' = Put(actions, {d}, <<gos[k].a>>)
          /\ gos' = SubSeq(gos, 1, k - 1) \o Told(gos[k], d)
                    \o SubSeq(gos, k + 1, Len(gos))
    /\ UNCHANGED <<groupVars, clientVars, pushes, pageVars, histVars>>

-----------------------------------------------------------------------------
(* Leaving.                                                                *)

\* leaveGroup: RemoveKnock if the client waits, DelClient if it is a member.
BeginLeaveForgetsKnock(c) ==
    LET gone == joined[c] /\ c \in members
    IN  /\ members' = IF gone THEN members \ {c} ELSE members
        /\ pushes' = [pushes EXCEPT ![c] =
              IF gone
              THEN For({c}, Joined("leave", c))
                   \o For(members \ {c}, User("delete", c, "none"))
              ELSE <<>>]
        /\ stage' = [stage EXCEPT ![c] = "leave"]
        /\ UNCHANGED <<knocking, admitted, locked, locked1on1, redirect, joined,
                       waiting, op, gos, histVars>>
BeginLeave(c) ==
    LET gone == joined[c] /\ c \in members
    IN  /\ knocking' = IF waiting[c] THEN knocking \ {c} ELSE knocking
        /\ admitted' = IF waiting[c] THEN admitted \ {c} ELSE admitted
        /\ members' = IF gone THEN members \ {c} ELSE members
        /\ pushes' = [pushes EXCEPT ![c] =
              (IF waiting[c] /\ c \in knocking
               THEN For(Ops, User("knockcancel", c, "none")) ELSE <<>>)
              \o (IF gone
                  THEN For({c}, Joined("leave", c))
                       \o For(members \ {c}, User("delete", c, "none"))
                  ELSE <<>>)]
        /\ stage' = [stage EXCEPT ![c] = "leave"]
        /\ UNCHANGED <<locked, locked1on1, redirect, joined, waiting, op, gos,
                       histVars>>

\* The end of leaveGroup: DelClient looks once more whether an operator is
\* left.  If clientLoop is over, this is the last thing it does.
FinishLeave(c) ==
    /\ stage[c] = "leave" /\ pushes[c] = <<>>
    /\ IF joined[c] THEN AutoLockKick(members) ELSE UNCHANGED <<locked, gos>>
    /\ joined' = [joined EXCEPT ![c] = FALSE]
    /\ waiting' = [waiting EXCEPT ![c] = FALSE]
    /\ op' = [op EXCEPT ![c] = @ /\ ~joined[c]]
    /\ stage' = [stage EXCEPT ![c] = IF ending[c] THEN "ended" ELSE "idle"]
    /\ actions' = [actions EXCEPT ![c] = IF ending[c] THEN <<>> ELSE @]
    /\ view' = IF ending[c]
               THEN [view EXCEPT ![c] = [d \in Clients |-> "none"]] ELSE view
    /\ knocks' = IF ending[c] THEN [knocks EXCEPT ![c] = {}] ELSE knocks
    /\ UNCHANGED <<members, knocking, admitted, locked1on1, redirect, ending,
                   pushes, ready, histVars>>

\* A "leave" message.
Leave(c) ==
    /\ stage[c] = "idle" /\ joined[c] /\ "leave" \in Powers
    /\ BeginLeave(c)
    /\ UNCHANGED <<ending, actions, pageVars>>

\* The session ends: the page was closed, or its socket was lost for good.
Disconnect(c) ==
    /\ stage[c] = "idle"
    /\ ending' = [ending EXCEPT ![c] = TRUE]
    /\ BeginLeave(c)
    /\ UNCHANGED <<actions, pageVars>>

-----------------------------------------------------------------------------
(* handleAction, and what the page makes of what it is sent.               *)

Taken(c, type, kinds) ==
    /\ stage[c] = "idle" /\ actions[c] # <<>>
    /\ Head(actions[c]).t = type /\ Head(actions[c]).kind \in kinds
    /\ actions' = [actions EXCEPT ![c] = Tail(@)]

\* pushClientAction: dropped by a client that has left.
TakeUser(c) ==
    LET a == Head(actions[c])
    IN  /\ Taken(c, "user", {"add", "change", "delete", "knock", "knockcancel"})
        /\ view' = IF joined[c] /\ a.kind \in {"add", "change", "delete"}
                   THEN [view EXCEPT ![c][a.id] = a.role] ELSE view
        /\ knocks' = IF ~joined[c] THEN knocks
                     ELSE IF a.kind = "knock"
                     THEN [knocks EXCEPT ![c] = @ \cup {a.id}]
                     ELSE IF a.kind = "knockcancel"
                     THEN [knocks EXCEPT ![c] = @ \ {a.id}]
                     ELSE knocks
        /\ UNCHANGED <<groupVars, clientVars, pushes, gos, ready, histVars>>

\* joinedAction.  After a "rejoin" the page joins again, after a "deny" or a
\* "leave" it disconnects.
TakeJoinedKeepsRoster(c) ==
    /\ Taken(c, "joined", {"join", "leave", "rejoin", "deny"})
    /\ ready' = [ready EXCEPT ![c] = @ \/ Head(actions[c]).kind = "rejoin"]
    /\ UNCHANGED <<groupVars, clientVars, pushes, gos, view, knocks, histVars>>
TakeJoined(c) ==
    /\ Taken(c, "joined", {"join", "leave", "rejoin", "deny"})
    /\ IF Head(actions[c]).kind = "leave"
       THEN /\ view' = [view EXCEPT ![c] = [d \in Clients |-> "none"]]
            /\ knocks' = [knocks EXCEPT ![c] = {}]
       ELSE UNCHANGED <<view, knocks>>
    /\ ready' = [ready EXCEPT ![c] = @ \/ Head(actions[c]).kind = "rejoin"]
    /\ UNCHANGED <<groupVars, clientVars, pushes, gos, histVars>>

\* kickAction: clientLoop ends with a KickError.
TakeKick(c) ==
    /\ Taken(c, "control", {"kick"})
    /\ ending' = [ending EXCEPT ![c] = TRUE]
    /\ BeginLeave(c)
    /\ UNCHANGED pageVars

\* changePermissionsAction: the permissions change at once; what follows
\* from it is queued behind what the client already has to do.
TakePermission(c) ==
    /\ stage[c] = "idle" /\ actions[c] # <<>>
    /\ Head(actions[c]).t = "control" /\ Head(actions[c]).kind \in {"op", "unop"}
    /\ actions' = [actions EXCEPT ![c] = Append(Tail(@), Control("changed", c))]
    /\ op' = [op EXCEPT ![c] = (Head(actions[c]).kind = "op")]
    /\ UNCHANGED <<groupVars, stage, ending, joined, waiting, pushes, gos,
                   pageVars, histVars>>

\* permissionsChangedAction: tell every member, from a goroutine.  A client
\* that has left meanwhile is disconnected with an error.
TakeChanged(c) ==
    /\ Taken(c, "control", {"changed"})
    /\ IF joined[c]
       THEN /\ gos' = Append(gos, Batch(members, User("change", c, Role(c))))
            /\ UNCHANGED <<groupVars, clientVars, pushes, histVars>>
       ELSE /\ ending' = [ending EXCEPT ![c] = TRUE]
            /\ BeginLeave(c)
    /\ UNCHANGED pageVars

-----------------------------------------------------------------------------
(* What an operator does.                                                  *)

Operator(o) == stage[o] = "idle" /\ joined[o] /\ op[o]

\* Admit and Deny: the other operators are told once g.mu is released, then
\* the client.
AnswerQuietly(o, c, kind) ==
    /\ Operator(o) /\ c \in knocking
    /\ knocking' = knocking \ {c}
    /\ pushes' = [pushes EXCEPT ![o] = <<Batch({c}, Joined(kind, c))>>]
    /\ stage' = [stage EXCEPT ![o] = "push"]
    /\ UNCHANGED <<members, locked, locked1on1, redirect, ending, joined,
                   waiting, op, actions, gos, pageVars, joins, changes, entries>>
Answer(o, c, kind) ==
    /\ Operator(o) /\ c \in knocking
    /\ knocking' = knocking \ {c}
    /\ pushes' = [pushes EXCEPT ![o] =
          For(Ops, User("knockcancel", c, "none")) \o For({c}, Joined(kind, c))]
    /\ stage' = [stage EXCEPT ![o] = "push"]
    /\ UNCHANGED <<members, locked, locked1on1, redirect, ending, joined,
                   waiting, op, actions, gos, pageVars, joins, changes, entries>>

Admit(o, c) ==
    /\ Answer(o, c, "rejoin")
    /\ admitted' = admitted \cup {c}
    /\ grants' = [grants EXCEPT ![c] = @ + 1]

Deny(o, c) ==
    /\ Answer(o, c, "deny")
    /\ admitted' = admitted \ {c}
    /\ UNCHANGED grants

Has(c, a) == \E k \in 1 .. Len(actions[c]) : actions[c][k] = a

\* kickClient.  Bound: not while a kick of the same client is queued.
Kick(o, c) ==
    /\ Operator(o) /\ "kick" \in Powers /\ c \in members
    /\ ~Has(c, Control("kick", "op"))
    /\ actions' = Put(actions, {c}, <<Control("kick", "op")>>)
    /\ UNCHANGED <<groupVars, clientVars, pushes, gos, pageVars, histVars>>

\* The useractions "op" and "unop".
ChangePermission(o, c, kind) ==
    /\ Operator(o) /\ c \in members
    /\ changes < MaxChanges
    /\ changes' = changes + 1
    /\ actions' = Put(actions, {c}, <<Control(kind, c)>>)
    /\ UNCHANGED <<groupVars, clientVars, pushes, gos, pageVars, joins, grants,
                   entries>>

\* SetLocked and SetLocked1on1.  (The "joined change" that shows the lock to
\* the members is left out.)
SetLocked(o, on) ==
    /\ Operator(o) /\ "lock" \in Powers
    /\ locked' = on
    /\ UNCHANGED <<members, knocking, admitted, locked1on1, redirect,
                   clientVars, queueVars, pageVars, histVars>>

SetLocked1on1(o, on) ==
    /\ Operator(o) /\ "lock" \in Powers
    /\ locked1on1' = on
    /\ UNCHANGED <<members, knocking, admitted, locked, redirect,
                   clientVars, queueVars, pageVars, histVars>>

-----------------------------------------------------------------------------
(* The administrator edits the description: Redirect is set.               *)
EditRedirect ==
    /\ MayRedirect /\ ~redirect
    /\ redirect' = TRUE
    /\ UNCHANGED <<members, knocking, admitted, locked, locked1on1,
                   clientVars, queueVars, pageVars, histVars>>

\* group.Update, from a timer, adds the group again.  Bound: the timer is
\* slow, what it has started is over when it fires again.
Update ==
    /\ gos = <<>> /\ \A c \in Clients : ~Has(c, Control("kick", "auto"))
    /\ AutoLockKick(members)
    /\ UNCHANGED <<members, knocking, admitted, locked1on1, redirect,
                   clientVars, actions, pushes, pageVars, histVars>>

ClientStep(c) ==
    \/ \E cred \in {"op", "token", "guest"} :
          \/ Join(c, cred) \/ Enter(c, cred) \/ Knock(c, cred)
          \/ Refused(c, cred)
    \/ Push(c) \/ Leave(c) \/ FinishLeave(c) \/ Disconnect(c)
    \/ TakeUser(c) \/ TakeJoined(c) \/ TakeKick(c)
    \/ TakePermission(c) \/ TakeChanged(c)

OperatorStep(o) ==
    \/ \E c \in Clients :
          \/ Admit(o, c) \/ Deny(o, c) \/ Kick(o, c)
          \/ \E kind \in {"op", "unop"} : ChangePermission(o, c, kind)
    \/ \E on \in BOOLEAN : SetLocked(o, on) \/ SetLocked1on1(o, on)

Next ==
    \/ \E c \in Clients : ClientStep(c) \/ OperatorStep(c)
    \/ \E k \in 1 .. Len(gos) : GoPush(k)
    \/ EditRedirect
    \/ Update

Spec == Init /\ [][Next]_vars

\* Goroutines run and the timer of Update fires; nobody need join, leave,
\* disconnect or operate.
Fairness ==
    /\ WF_vars(Update)
    /\ WF_vars(\E k \in 1 .. Len(gos) : GoPush(k))
    /\ \A c \in Clients :
          /\ WF_vars(Push(c)) /\ WF_vars(FinishLeave(c))
          /\ WF_vars(\E cred \in {"op", "token", "guest"} :
                        Enter(c, cred) \/ Knock(c, cred) \/ Refused(c, cred))
          /\ WF_vars(TakeUser(c) \/ TakeJoined(c) \/ TakeKick(c)
                        \/ TakePermission(c) \/ TakeChanged(c))

FairSpec == Spec /\ Fairness

-----------------------------------------------------------------------------
(* Properties.                                                             *)

ActionSet ==
    [t : {"user"}, kind : {"add", "change", "delete", "knock", "knockcancel"},
     id : Clients, role : {"none", "user", "op"}]
    \cup [t : {"joined"}, kind : {"join", "leave", "rejoin", "deny"},
          id : Clients, role : {"none"}]
    \cup [t : {"control"}, kind : {"kick", "op", "unop", "changed"},
          id : Clients \cup {"auto", "op"}, role : {"none"}]

Batches == [to : (SUBSET Clients) \ {{}}, a : ActionSet]

TypeOK ==
    /\ members \subseteq Clients /\ knocking \subseteq Clients
    /\ admitted \subseteq Clients
    /\ locked \in BOOLEAN /\ locked1on1 \in BOOLEAN /\ redirect \in BOOLEAN
    /\ stage \in [Clients -> Stages]
    /\ ending \in [Clients -> BOOLEAN]
    /\ joined \in [Clients -> BOOLEAN] /\ waiting \in [Clients -> BOOLEAN]
    /\ op \in [Clients -> BOOLEAN]
    /\ actions \in [Clients -> Seq(ActionSet)]
    /\ pushes \in [Clients -> Seq(Batches)]
    /\ gos \in Seq(Batches)
    /\ view \in [Clients -> [Clients -> {"none", "user", "op"}]]
    /\ knocks \in [Clients -> SUBSET Clients]
    /\ ready \in [Clients -> BOOLEAN]
    /\ joins \in [Clients -> Nat] /\ changes \in 0 .. MaxChanges
    /\ grants \in [Clients -> Nat] /\ entries \in [Clients -> Nat]

\* "so the call cannot silently downgrade to cleartext" (seatErrorUnlocked):
\* a room that requires end-to-end encryption never holds three, whoever was
\* admitted while it still had a seat.
SeatsRespected == RequireE2EE => Cardinality(members) <= 2

\* "a non-op guest always waits for an operator to admit them ... (one shot)"
\* (AddClient): every entry of an uninvited guest was paid for by an
\* admission of its own, and an admission is good for one entry.
EntriesArePaidFor ==
    \A c \in Clients :
        entries[c] + (IF c \in admitted THEN 1 ELSE 0) <= grants[c]

\* A client whose session has ended leaves nothing behind in the group: no
\* seat, no knock that an operator would answer, no admission.  "RemoveKnock
\* drops any pending knock or admission for a client id, e.g. when the client
\* disconnects while waiting."
GoneForGood ==
    \A c \in Clients :
        stage[c] = "ended" => c \notin members \cup knocking \cup admitted

\* Nothing is under way.
Quiet ==
    /\ gos = <<>>
    /\ \A c \in Clients : stage[c] \in {"idle", "ended"} /\ actions[c] = <<>>

\* Once everything queued has been delivered, every member's page shows the
\* members there are, each with the permissions it has.
RosterConverges ==
    Quiet => \A c \in members : joined[c] =>
        view[c] = [d \in Clients |-> IF d \in members THEN Role(d) ELSE "none"]

\* "While a client is knocking, every operator connected to the group
\* receives user messages of kind knock" (galene-protocol.md): once
\* everything queued has been delivered, an operator's page shows the clients
\* that wait, and no others.
KnocksShown ==
    Quiet => \A o \in members : joined[o] /\ op[o] => knocks[o] = knocking

\* "the group will start locked and become locked whenever there are no
\* clients with operator privileges" (galene.md, autolock): nobody but an
\* operator enters a group without one.
\* The code does not keep to it in every case: see README.md.
NobodyEntersAlone ==
    [][Autolock =>
         \A c \in members' \ members : op'[c] \/ Ops # {}]_vars

\* A group that is left without an operator is locked in the end (autolock),
\* and its members are sent away (autokick), unless an operator comes.
LockedInTheEnd == Autolock /\ Ops = {} ~> locked \/ Ops # {}
EmptiedInTheEnd == Autokick /\ Ops = {} ~> members = {} \/ Ops # {}
=============================================================================
