----------------------------- MODULE AuthLimit ------------------------------
(***************************************************************************)
(* The throttle on failed logins (authlimit/authlimit.go), as joins use it *)
(* (handleClientMessage of rtpconn/webclient.go): an address is refused    *)
(* after too many failures.  The ban is looked up before the credentials   *)
(* are evaluated and the failure is recorded after, with nothing held in   *)
(* between, so that attempts from one address overlap.                     *)
(*                                                                         *)
(* now counts in units of which authForget and banDuration are multiples.  *)
(* How long Failure sleeps makes no difference here: a user is asleep for  *)
(* as long as it likes.                                                    *)
(***************************************************************************)
EXTENDS Integers, FiniteSets

CONSTANTS
    Users,        \* clients, each trying one login at a time
    Key,          \* Key[u]: the address of u
    Threshold,    \* banThreshold (10)
    BanWarn,      \* BanWarn (3)
    Forget,       \* authForget (10 minutes)
    Ban,          \* banDuration (15 minutes)
    MaxTime       \* bound: how far time goes

ASSUME LimitsAssumption ==
    /\ {Threshold, BanWarn, Forget, Ban, MaxTime} \subseteq Nat \ {0}
    /\ BanWarn < Threshold
ASSUME UsersAssumption == IsFiniteSet(Users)

VARIABLES
    now,
    records,     \* authRecords: a record for each address that has one
    attempt,     \* of each user: "idle", "evaluating" or "asleep"
    answer,      \* attempts left, as the last refusal told the user
    banned       \* history: until when an address must be refused

limitVars == <<now, records, attempt, answer, banned>>

Keys == {Key[u] : u \in Users}
NoBan == -1      \* the zero time, long ago
Record == [failures : Nat, last : Int, bannedUntil : Int]

LimitInit ==
    /\ now = 0
    /\ records = [k \in {} |-> {}]
    /\ attempt = [u \in Users |-> "idle"]
    /\ answer = [u \in Users |-> Threshold]
    /\ banned = [k \in Keys |-> NoBan]

-----------------------------------------------------------------------------
\* bannedAt
Banned(k) == k \in DOMAIN records /\ now < records[k].bannedUntil

\* Before any credentials are evaluated.
TryUnchecked(u) ==
    /\ attempt[u] = "idle"
    /\ attempt' = [attempt EXCEPT ![u] = "evaluating"]
    /\ UNCHANGED <<now, records, answer, banned>>
Try(u) ==
    /\ attempt[u] = "idle"
    /\ ~Banned(Key[u])
    /\ attempt' = [attempt EXCEPT ![u] = "evaluating"]
    /\ UNCHANGED <<now, records, answer, banned>>

\* The attempt ends for a reason that is nobody's guess: the room is full,
\* the name is taken, the client waits in the lobby.
Inconclusive(u) ==
    /\ attempt[u] = "evaluating"
    /\ attempt' = [attempt EXCEPT ![u] = "idle"]
    /\ UNCHANGED <<now, records, answer, banned>>

\* resetAt, on a successful login.
SucceedUncleared(u) ==
    /\ attempt[u] = "evaluating"
    /\ attempt' = [attempt EXCEPT ![u] = "idle"]
    /\ answer' = [answer EXCEPT ![u] = Threshold]
    /\ UNCHANGED <<now, records, banned>>
Succeed(u) ==
    /\ attempt[u] = "evaluating"
    /\ attempt' = [attempt EXCEPT ![u] = "idle"]
    /\ records' = [k \in DOMAIN records \ {Key[u]} |-> records[k]]
    /\ banned' = [banned EXCEPT ![Key[u]] = NoBan]
    /\ answer' = [answer EXCEPT ![u] = Threshold]
    /\ UNCHANGED now

\* purgeAuthLocked
PurgedIdle == {k \in DOMAIN records : now - records[k].last > Forget}
Purged ==
    {k \in DOMAIN records :
        now - records[k].last > Forget /\ ~(now < records[k].bannedUntil)}

\* The count a further failure starts from.
Counted(k) ==
    IF \/ k \notin DOMAIN records \ Purged
       \/ now - records[k].last > Forget
       \/ records[k].bannedUntil # NoBan /\ ~(now < records[k].bannedUntil)
    THEN 0 ELSE records[k].failures

\* The record of k after a further failure.
Failed(k) ==
    LET n == Counted(k) + 1
    IN  [failures |-> n, last |-> now,
         bannedUntil |-> IF n >= Threshold THEN now + Ban
                         ELSE IF k \in DOMAIN records \ Purged
                                 /\ now < records[k].bannedUntil
                         THEN records[k].bannedUntil ELSE NoBan]

\* What a refusal says: the attempts left.
Remaining(n) == IF n >= Threshold THEN 0 ELSE Threshold - n

\* failureDelayAt, under authMu; then Failure sleeps before it answers.
Fail(u) ==
    LET k == Key[u]
        r == Failed(k)
    IN  /\ attempt[u] = "evaluating"
        /\ records' = [j \in (DOMAIN records \ Purged) \cup {k} |->
                          IF j = k THEN r ELSE records[j]]
        /\ answer' = [answer EXCEPT ![u] = Remaining(r.failures)]
        /\ banned' = IF r.failures >= Threshold
                     THEN [banned EXCEPT ![k] = now + Ban] ELSE banned
        /\ attempt' = [attempt EXCEPT ![u] = "asleep"]
        /\ UNCHANGED now

Answered(u) ==
    /\ attempt[u] = "asleep"
    /\ attempt' = [attempt EXCEPT ![u] = "idle"]
    /\ UNCHANGED <<now, records, answer, banned>>

Tick ==
    /\ now < MaxTime
    /\ now' = now + 1
    /\ UNCHANGED <<records, attempt, answer, banned>>

LimitNext ==
    \/ \E u \in Users :
          Try(u) \/ Inconclusive(u) \/ Succeed(u) \/ Fail(u) \/ Answered(u)
    \/ Tick

LimitSpec == LimitInit /\ [][LimitNext]_limitVars

-----------------------------------------------------------------------------
LimitTypeOK ==
    /\ now \in 0 .. MaxTime
    /\ DOMAIN records \subseteq Keys
    /\ \A k \in DOMAIN records : records[k] \in Record
    /\ attempt \in [Users -> {"idle", "evaluating", "asleep"}]
    /\ answer \in [Users -> 0 .. Threshold]
    /\ banned \in [Keys -> Int]

\* "After banThreshold failures the address is refused outright for
\* banDuration": a ban is served in full.  Neither the purge of idle records
\* nor later failures of attempts that were already under way cut it short;
\* only a login that succeeds does.
BanServed == \A k \in Keys : now < banned[k] => Banned(k)

\* The users of an address, and those whose attempts are under way.
UsersOf(k) == {u \in Users : Key[u] = k}
Evaluating(k) == {u \in UsersOf(k) : attempt[u] = "evaluating"}

\* The lookup and the record are apart, so that attempts under way when the
\* address is banned still count; there are no more of them than users.
OvershootBounded ==
    \A k \in DOMAIN records :
        records[k].failures <= Threshold - 1 + Cardinality(UsersOf(k))

\* "the last BanWarn attempts before that carry a warning, so a legitimate
\* user is never banned without notice": a user that is alone at its address
\* is told 1 to BanWarn attempts left before it is told none.
NeverWithoutNotice ==
    [][\A u \in Users :
          /\ answer[u] # 0 /\ answer'[u] = 0
          /\ \A v \in Users : Key[v] = Key[u] => v = u
          => answer[u] <= BanWarn]_limitVars
=============================================================================
