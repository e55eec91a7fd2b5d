-------------------------- MODULE MCGameContainer --------------------------
(* One type of each kind of installation; two calls of the daemon at once. *)
EXTENDS GameContainer, TLC

CONSTANTS paper, fabric, forge, bedrock
=============================================================================
