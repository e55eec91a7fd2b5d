---------------------------- MODULE SessionLines ----------------------------
(***************************************************************************)
(* What the rotation of refresh tokens promises an account, whatever       *)
(* happens inside: a login opens a line of tokens with one that is good, a *)
(* refresh hands the line on to a new token in one step, and what has      *)
(* stopped being good never is again.  So there are never more good tokens *)
(* than there were logins, unless two requests raced for one of them.      *)
(* Sessions, where a refresh is three statements and a revocation passes   *)
(* between them, implements it.                                            *)
(***************************************************************************)
EXTENDS Naturals

VARIABLES
  issued,   \* how many tokens there have been; token n is the n-th
  good,     \* the tokens that are good, or good until their refresh is over
  forked    \* the tokens that two requests raced for

vars == <<issued, good, forked>>

Init == issued = 0 /\ good = {} /\ forked = {}

\* The number of the next token.
Number == issued + 1

\* A login.
Open ==
  /\ issued' = Number
  /\ good' = good \cup {Number}
  /\ UNCHANGED forked

\* A refresh.
Renew(t) ==
  /\ issued' = Number
  /\ good' = (good \ {t}) \cup {Number}
  /\ UNCHANGED forked

\* A refresh, while another one of the same token goes on.
Branch(t) ==
  /\ t \in forked
  /\ issued' = Number
  /\ good' = good \cup {Number}
  /\ UNCHANGED forked

Race(t) ==
  /\ forked' = forked \cup {t}
  /\ UNCHANGED <<issued, good>>

\* A revocation, or a refresh that does not come to its end.
End(ts) ==
  /\ good' = good \ ts
  /\ UNCHANGED <<issued, forked>>

Next ==
  \/ Open
  \/ \E t \in good : Renew(t) \/ Branch(t) \/ Race(t)
  \/ \E ts \in SUBSET good : End(ts)

Spec == Init /\ [][Next]_vars
=============================================================================
