-------------------------------- MODULE Away --------------------------------
(***************************************************************************)
(* A call on a phone put in the background (static/away.js): the tracker   *)
(* that tells whether the background is what interrupted a call.  recent:  *)
(* the page was looked at again less than RETURN_GRACE ago.                *)
(***************************************************************************)
InFront == [hidden |-> FALSE, recent |-> FALSE, out |-> FALSE, away |-> FALSE]

Hidden(t) == [t EXCEPT !.hidden = TRUE, !.away = @ \/ t.out]
Shown(t)  == [t EXCEPT !.hidden = FALSE, !.recent = TRUE]

\* lost() at every attempt.
LostAgain(t) == [t EXCEPT !.out = TRUE, !.away = t.hidden \/ t.recent]

Lost(t) == IF t.out THEN t ELSE [t EXCEPT !.out = TRUE, !.away = t.hidden \/ t.recent]

\* back(): what it returns, and what it leaves.
WasAway(t) == t.out /\ t.away
Back(t) == [t EXCEPT !.out = FALSE, !.away = FALSE]
=============================================================================
