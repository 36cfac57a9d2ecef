------------------------------ MODULE MCResume ------------------------------
(* Model checking of Resume on small instances. *)
EXTENDS Resume
=============================================================================
