---------------------------- MODULE ReliableLink ----------------------------
(***************************************************************************)
(* What signalling resume promises: as long as its two ends stay up, a     *)
(* session is one reliable link, whatever happens to the websockets under  *)
(* it.  Each end numbers what it sends from 1; the other end takes the     *)
(* messages in that order, each exactly once.  An end that goes down never *)
(* comes back up, and sends and takes nothing more.                        *)
(***************************************************************************)
EXTENDS Naturals, Sequences

Ends == {"client", "server"}

Peer(e) == IF e = "client" THEN "server" ELSE "client"

VARIABLES
    up,     \* up[e]: the session is still open at end e
    sent,   \* sent[e]: how many numbered messages end e has sent
    got     \* got[e]: the numbers of the messages end e has taken, in order

vars == <<up, sent, got>>

Init ==
    /\ up = [e \in Ends |-> TRUE]
    /\ sent = [e \in Ends |-> 0]
    /\ got = [e \in Ends |-> <<>>]

Send(e) ==
    /\ up[e]
    /\ sent' = [sent EXCEPT ![e] = @ + 1]
    /\ UNCHANGED <<up, got>>

Take(e) ==
    /\ up[e]
    /\ Len(got[e]) < sent[Peer(e)]
    /\ got' = [got EXCEPT ![e] = Append(@, Len(@) + 1)]
    /\ UNCHANGED <<up, sent>>

Down(e) ==
    /\ up[e]
    /\ up' = [up EXCEPT ![e] = FALSE]
    /\ UNCHANGED <<sent, got>>

Next == \E e \in Ends : Send(e) \/ Take(e) \/ Down(e)

Spec == Init /\ [][Next]_vars
=============================================================================
