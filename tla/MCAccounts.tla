----------------------------- MODULE MCAccounts -----------------------------
(* Constants of the run: two users, the first with a second factor. *)
EXTENDS Accounts, TLC
=============================================================================
