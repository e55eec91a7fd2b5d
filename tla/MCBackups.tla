----------------------------- MODULE MCBackups ------------------------------
(* Bounds for TLC: backups and requests come from the cfg.                 *)
EXTENDS Backups
=============================================================================
