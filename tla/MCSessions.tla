----------------------------- MODULE MCSessions -----------------------------
(* Constants of the run: one browser with two requests at once. *)
EXTENDS Sessions, TLC
=============================================================================
