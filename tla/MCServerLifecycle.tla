-------------------------- MODULE MCServerLifecycle --------------------------
(* Bounds for TLC: how many requests run at once comes from the cfg.       *)
EXTENDS ServerLifecycle
=============================================================================
