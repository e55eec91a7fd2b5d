----------------------------- MODULE BackupVault -----------------------------
(***************************************************************************)
(* What the panel promises of the backups it shows, whatever happens       *)
(* inside: one shows as kept only when its archive is whole, stays kept    *)
(* and whole until somebody releases it (asks for its deletion, or for a   *)
(* restoration before it was kept), goes only when it was released or      *)
(* together with its server, and never comes back.  Backups, where the     *)
(* rows, the daemon's calls and the files change apart from one another,   *)
(* race and fail, implements it.                                           *)
(***************************************************************************)
CONSTANT Archives

VARIABLES
  shown,     \* per backup: none before it is asked for, busy, kept or failed, gone after
  whole,     \* the backups whose archive is whole where their driver keeps it
  released   \* the backups of which nothing is promised any more

vars == <<shown, whole, released>>

Rows == {"busy", "kept", "failed"}

Init ==
  /\ shown = [b \in Archives |-> "none"]
  /\ whole = {}
  /\ released = {}

Show(b, s) == shown' = [shown EXCEPT ![b] = s] /\ UNCHANGED <<whole, released>>

Ask(b) == shown[b] = "none" /\ Show(b, "busy")

\* The archive is complete, whether or not anybody still waits for it.
Store(b) ==
  /\ whole' = whole \cup {b}
  /\ UNCHANGED <<shown, released>>

Complete(b) == shown[b] = "busy" /\ b \in whole /\ Show(b, "kept")

Fail(b) == shown[b] = "busy" /\ Show(b, "failed")

Release(b) ==
  /\ shown[b] \in Rows
  /\ released' = released \cup {b}
  /\ UNCHANGED <<shown, whole>>

\* A released backup shows as anything, and may go.
Settle(b) ==
  /\ b \in released /\ shown[b] # "gone"
  /\ \E s \in Rows \cup {"gone"} : Show(b, s)

Lose(b) ==
  /\ b \in released
  /\ whole' = whole \ {b}
  /\ UNCHANGED <<shown, released>>

DropServer ==
  /\ shown' = [b \in Archives |-> "gone"]
  /\ UNCHANGED <<whole, released>>

Next ==
  \/ \E b \in Archives : \/ Ask(b) \/ Store(b) \/ Complete(b) \/ Fail(b)
                         \/ Release(b) \/ Settle(b) \/ Lose(b)
  \/ DropServer

Spec == Init /\ [][Next]_vars
=============================================================================
