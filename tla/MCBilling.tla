----------------------------- MODULE MCBilling -----------------------------
(* Constants of the run: a subscription that is paid twice, and a one-time *)
(* purchase by another user.                                               *)
EXTENDS Billing, TLC

CONSTANTS u1, u2, monthly, once, c1, c2, p1, p2

MCBuyerOf == c1 :> u1 @@ c2 :> u2
MCPlanOf == c1 :> monthly @@ c2 :> once
MCCheckoutOf == [p \in {p1, p2} |-> c1]
=============================================================================
