----------------------------- MODULE MCChannel ------------------------------
(* Three goroutines that put two elements each.                            *)
EXTENDS Channel
=============================================================================
