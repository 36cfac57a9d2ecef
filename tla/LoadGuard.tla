----------------------------- MODULE LoadGuard -----------------------------
(***************************************************************************)
(* The page-load guard (static/load-guard.js): a spinner covers the page   *)
(* until galene.css has applied and galene.js has run; a page that did not *)
(* load is loaded again, a couple of times, then on a button.  Time is 0   *)
(* before SLOW_AFTER, 1 before OFFER_RELOAD_AFTER, 2 from then on.         *)
(***************************************************************************)
EXTENDS Naturals

MaxAutoReloads == 2
Files == {"css", "app", "rest"}   \* galene.css, galene.js, every other script and sheet

\* The guard as the page begins to load, and a page that it does not cover.
Loading == [file |-> [f \in Files |-> ""], loaded |-> FALSE, time |-> 0,
            phase |-> "loading", note |-> ""]
Uncovered == [file |-> [f \in Files |-> "ok"], loaded |-> TRUE, time |-> 0,
              phase |-> "shown", note |-> ""]

Failed(l) == \E f \in Files : l.file[f] = "bad"
Ready(l) == l.file["css"] = "ok" /\ l.file["app"] = "ok"
Arrived(l) == \A f \in Files : l.file[f] # ""

\* Without storage there is no counter: "never reload automatically".
GetReloads(n, storage) == IF storage THEN n ELSE MaxAutoReloads

Decide(l, reloads) ==
    IF Failed(l) \/ (l.loaded /\ ~Ready(l))
    THEN IF reloads < MaxAutoReloads THEN "reload" ELSE IF Ready(l) THEN "show" ELSE "fail"
    ELSE IF Ready(l) /\ (l.loaded \/ l.time >= 1) THEN "show"
    ELSE IF l.time = 2 THEN "slow-offer" ELSE IF l.time = 1 THEN "slow" ELSE "wait"

\* step(): the guard, and the automatic reloads this tab has made.
Step(l, n, storage) ==
    LET reloads == GetReloads(n, storage)
        decided == Decide(l, reloads)
    IN  IF l.phase # "loading" THEN [load |-> l, reloads |-> n]
        ELSE
        CASE decided = "show" -> [load |-> [l EXCEPT !.phase = "shown"], reloads |-> 0]
          [] decided = "reload" ->
                [load |-> [l EXCEPT !.phase = "reloading", !.note = "retrying"],
                 reloads |-> IF storage THEN reloads + 1 ELSE n]
          [] decided = "fail" ->
                [load |-> [l EXCEPT !.phase = "failed", !.note = "button"], reloads |-> n]
          [] OTHER ->
                [load |-> [l EXCEPT !.note = CASE l.time = 2 -> "button"
                                               [] l.time = 1 -> "slow" [] OTHER -> @],
                 reloads |-> n]
=============================================================================
