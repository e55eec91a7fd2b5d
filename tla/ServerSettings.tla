--------------------------- MODULE ServerSettings ---------------------------
(***************************************************************************)
(* The settings of a server: the fields of its row, its ports and its      *)
(* sub-users, the pages that edit them, and the container, which has the   *)
(* configuration of the last reinstallation.                               *)
(*                                                                         *)
(* A page shows what it fetched last, every ten seconds and when a change  *)
(* of its own has asked for it.  The form of the general settings is filled from *)
(* that when it is mounted, and never again; saving sends all its fields.  *)
(* A reinstallation reads the row, then has the daemon remove the container*)
(* and create another.  The check of access and the read or write after it *)
(* are one step: nothing here but the access itself can change in between. *)
(***************************************************************************)
EXTENDS Naturals, FiniteSets

CONSTANTS
  Pages,       \* browsers that have the page of the server open, one per account
  Owner,       \* the page of the owner; the others may be sub-users
  Ports,       \* ports of the node that are not the primary one of the server
  Texts,       \* values that people type into a field of one line
  Empty,       \* the empty text
  Variables,   \* variables of the environment, a key with a value each
  TypedEnvironments, \* texts that people type, as their lines
  ApiEnvironments,   \* environments that programs send
  None,
  MaxEdits,    \* bound: values typed, ports and sub-users changed, values written by the API
  MaxReads     \* bound: reinstallations

\* How a variable is written.  The form changes one with blanks around its key or value, with
\* a "=" in its key, or with a value of several lines, and then keeps what is left of it ("cut").
Altered == {"blanks", "equals", "lines"}

\* Lines that make no variable: without a "=", or with the key of a line further down.
Dropped == {"bare", "repeated"}
Lines(writings) == [variable : Variables, written : writings]

ASSUME SettingsAssumption ==
  /\ Owner \in Pages /\ Empty \notin Texts
  /\ TypedEnvironments \subseteq SUBSET Lines({"plain", "blanks"} \cup Dropped)
  /\ ApiEnvironments \subseteq SUBSET Lines({"plain"} \cup Altered)
  /\ MaxEdits \in Nat /\ MaxReads \in Nat

Fields == {"description", "dockerImage", "environment"}

VARIABLES
  row,         \* per field: the value in the database
  allocations, \* ports of the server
  subUsers,    \* pages of sub-users; their permissions, which SFTP alone reads, are left out
  cache,       \* per page: the row as it shows it, None before the first answer
  form,        \* per page: what the general settings hold, None when not mounted
  saving,      \* per page: the fields of a PATCH on its way, None where there is none
  reinstalling,\* per page: a reinstallation, from its read to its end
  deployed,    \* configuration of the container, None when there is none
  edits,
  reads,
  opened,      \* history, per page: the row as it was when the form was filled
  submitted,   \* history, per page: the row that the form of the PATCH was filled from
  wanted,      \* history, per field: the value that was saved by who typed it
  excused,     \* history: fields whose loss the code accounts for
  changed,     \* history: the configuration has changed since the last reinstallation read it
  crossed      \* history: that reinstallation met another, or the daemon failed it

edited == <<form, saving, opened, submitted>>
built == <<reinstalling, deployed, reads, crossed>>
data == <<row, allocations, subUsers, wanted, excused, changed>>
settingsVars == <<data, cache, edited, built, edits>>

NoReinstall == [stage |-> "idle", config |-> None]
ConfigFields == Fields \ {"description"}
Config == [fields |-> [f \in ConfigFields |-> row[f]], ports |-> allocations]

\* The row as create made it, a container of it, and nobody there.
SettingsInit ==
  /\ row = [f \in Fields |-> CASE f = "description" -> Empty
                               [] f = "dockerImage" -> CHOOSE v \in Texts : TRUE
                               [] OTHER -> {}]
  /\ allocations = {} /\ subUsers = {}
  /\ cache = [p \in Pages |-> None]
  /\ form = [p \in Pages |-> None] /\ opened = [p \in Pages |-> None]
  /\ saving = [p \in Pages |-> None] /\ submitted = [p \in Pages |-> None]
  /\ reinstalling = [p \in Pages |-> NoReinstall]
  /\ deployed = Config
  /\ edits = 0 /\ reads = 0
  /\ wanted = row /\ excused = {} /\ changed = FALSE /\ crossed = FALSE

\* findAccessibleOrThrow
Access(p) == p = Owner \/ p \in subUsers

Edit == edits < MaxEdits /\ edits' = edits + 1

-----------------------------------------------------------------------------
(* What a page shows *)

\* The page reads the row again, after ten seconds or a change of its own; the page of a
\* sub-user who was removed gets a 403 and keeps what it shows.  That the answer travels
\* adds nothing: a form that is filled meanwhile is a form filled before.
Fetch(p) ==
  /\ cache[p] # row
  /\ Access(p)
  /\ cache' = [cache EXCEPT ![p] = row]
  /\ UNCHANGED <<data, edited, built, edits>>

-----------------------------------------------------------------------------
(* The general settings *)

Open(p) ==
  /\ form[p] = None /\ cache[p] # None
  /\ form' = [form EXCEPT ![p] = cache[p]]
  /\ opened' = [opened EXCEPT ![p] = cache[p]]
  /\ UNCHANGED <<data, cache, saving, submitted, built, edits>>

Close(p) ==
  /\ form[p] # None
  /\ form' = [form EXCEPT ![p] = None] /\ opened' = [opened EXCEPT ![p] = None]
  /\ UNCHANGED <<data, cache, saving, submitted, built, edits>>

Typed(f) == IF f = "environment" THEN TypedEnvironments ELSE Texts \cup {Empty}

Type(p, f, v) ==
  /\ form[p] # None /\ form[p][f] # v
  /\ Edit
  /\ form' = [form EXCEPT ![p][f] = v]
  /\ UNCHANGED <<data, cache, saving, opened, submitted, built>>

\* A text is its lines, and environmentToText writes a line per variable.  This trims blanks,
\* takes the first "=" for the end of the key, and reads every line for itself: of a value of
\* several lines the first is kept, the others are as lines that somebody typed.
TextToEnvironment(text) ==
  {IF line.written \in Altered THEN [line EXCEPT !.written = "cut"] ELSE line :
     line \in {l \in text : l.written \notin Dropped}}

\* Mutant: every empty field is left out, as the description is.
SentNotEmpty(values) ==
  [f \in {g \in Fields : values[g] # Empty} |->
     IF f = "environment" THEN TextToEnvironment(values[f]) ELSE values[f]]

\* What the PATCH sends of a form; an empty description is left out of it.
Sent(values) ==
  [f \in {g \in Fields : g # "description" \/ values[g] # Empty} |->
     IF f = "environment" THEN TextToEnvironment(values[f]) ELSE values[f]]

\* The button is disabled while the PATCH is on its way.
Save(p) ==
  /\ form[p] # None /\ saving[p] = None
  /\ saving' = [saving EXCEPT ![p] = Sent(form[p])]
  /\ submitted' = [submitted EXCEPT ![p] = [from |-> opened[p], typed |-> form[p]]]
  /\ UNCHANGED <<data, cache, form, opened, built, edits>>

\* The row with the fields that the PATCH names.
Written(sent) == [f \in Fields |-> IF f \in DOMAIN sent THEN sent[f] ELSE row[f]]

Faithful(text) == \A line \in text : line.written \notin Altered \cup Dropped

\* A loss is accounted for when the form was filled before the field changed last, when
\* a description was emptied, and for an environment with lines that the form alters or drops.
Losses(p) ==
  {f \in Fields : \/ submitted[p].from[f] # row[f]
                  \/ f = "description" /\ submitted[p].typed[f] = Empty
                  \/ f = "environment" /\ ~Faithful(submitted[p].typed[f])}

TypedIn(p) == {f \in Fields : submitted[p].typed[f] # submitted[p].from[f]}

Update(p) ==
  /\ saving[p] # None /\ Access(p)
  /\ row' = Written(saving[p])
  /\ wanted' = [f \in Fields |-> IF f \in TypedIn(p) THEN submitted[p].typed[f] ELSE wanted[f]]
  /\ excused' = (excused \ TypedIn(p)) \cup Losses(p)
  /\ changed' = (changed \/ \E f \in ConfigFields : row'[f] # row[f])
  /\ saving' = [saving EXCEPT ![p] = None] /\ submitted' = [submitted EXCEPT ![p] = None]
  /\ UNCHANGED <<allocations, subUsers, cache, form, opened, built, edits>>

Refused(p) ==
  /\ saving[p] # None /\ ~Access(p)
  /\ saving' = [saving EXCEPT ![p] = None] /\ submitted' = [submitted EXCEPT ![p] = None]
  /\ UNCHANGED <<data, cache, form, opened, built, edits>>

\* PATCH of a program with an API key, which sends what it changes.
UpdateByApi(v) ==
  /\ row["environment"] # v
  /\ Edit
  /\ row' = [row EXCEPT !["environment"] = v]
  /\ wanted' = [wanted EXCEPT !["environment"] = v]
  /\ excused' = excused \ {"environment"}
  /\ changed' = TRUE
  /\ UNCHANGED <<allocations, subUsers, cache, edited, built>>

GeneralSettings(p) ==
  \/ Open(p) \/ Close(p) \/ Save(p) \/ Update(p) \/ Refused(p)
  \/ \E f \in Fields : \E v \in Typed(f) : Type(p, f, v)

-----------------------------------------------------------------------------
(* Allocations and sub-users *)

AddAllocation(p) ==
  /\ Access(p) /\ Edit
  /\ \E port \in Ports \ allocations : allocations' = allocations \cup {port}
  /\ changed' = TRUE
  /\ UNCHANGED <<row, subUsers, wanted, excused, cache, edited, built>>

\* The container keeps the port until the next reinstallation.
RemoveAllocation(p) ==
  /\ Access(p) /\ Edit
  /\ \E port \in allocations : allocations' = allocations \ {port}
  /\ changed' = TRUE
  /\ UNCHANGED <<row, subUsers, wanted, excused, cache, edited, built>>

AllocationsSettings(p) == AddAllocation(p) \/ RemoveAllocation(p)

\* addSubUser writes over what the sub-user had; removeSubUser needs one.
AddSubUser(p) ==
  /\ p # Owner /\ Edit
  /\ subUsers' = subUsers \cup {p}
  /\ UNCHANGED <<row, allocations, wanted, excused, changed, cache, edited, built>>

RemoveSubUser(p) ==
  /\ p \in subUsers /\ Edit
  /\ subUsers' = subUsers \ {p}
  /\ UNCHANGED <<row, allocations, wanted, excused, changed, cache, edited, built>>

SubUsersSettings == \E p \in Pages : AddSubUser(p) \/ RemoveSubUser(p)

-----------------------------------------------------------------------------
(* Reinstallation *)

\* The row and its allocations are read once.
Reinstall(p) ==
  /\ reinstalling[p] = NoReinstall /\ Access(p)
  /\ reads < MaxReads /\ reads' = reads + 1
  /\ reinstalling' = [reinstalling EXCEPT ![p] = [stage |-> "read", config |-> Config]]
  /\ crossed' = \E q \in Pages : reinstalling[q] # NoReinstall
  /\ changed' = FALSE
  /\ UNCHANGED <<row, allocations, subUsers, wanted, excused, cache, edited, deployed, edits>>

\* The daemon removes the container, forced.
ContainerRemove(p) ==
  /\ reinstalling[p].stage = "read"
  /\ deployed' = None
  /\ reinstalling' = [reinstalling EXCEPT ![p].stage = "removed"]
  /\ UNCHANGED <<data, cache, edited, reads, crossed, edits>>

\* Mutant: the new container takes over the ports of the old one.
CreateServerKeepsPorts(p) ==
  /\ reinstalling[p].stage = "removed" /\ deployed = None
  /\ deployed' = [reinstalling[p].config EXCEPT !.ports = {}]
  /\ reinstalling' = [reinstalling EXCEPT ![p] = NoReinstall]
  /\ UNCHANGED <<data, cache, edited, reads, crossed, edits>>

CreateServer(p) ==
  /\ reinstalling[p].stage = "removed" /\ deployed = None
  /\ deployed' = reinstalling[p].config
  /\ reinstalling' = [reinstalling EXCEPT ![p] = NoReinstall]
  /\ UNCHANGED <<data, cache, edited, reads, crossed, edits>>

\* Docker fails, or refuses the name that another reinstallation has taken: the Backend
\* does not read the answer, and says that the server is reinstalled.
ReinstallFails(p) ==
  /\ reinstalling[p] # NoReinstall
  /\ reinstalling' = [reinstalling EXCEPT ![p] = NoReinstall]
  /\ crossed' = TRUE
  /\ UNCHANGED <<data, cache, edited, deployed, reads, edits>>

ReinstallSettings(p) ==
  Reinstall(p) \/ ContainerRemove(p) \/ CreateServer(p) \/ ReinstallFails(p)

-----------------------------------------------------------------------------

SettingsPanel(p) == GeneralSettings(p) \/ AllocationsSettings(p) \/ ReinstallSettings(p)

SettingsNext ==
  \/ \E p \in Pages : Fetch(p) \/ SettingsPanel(p)
  \/ SubUsersSettings
  \/ \E v \in ApiEnvironments : UpdateByApi(v)

SettingsSpec == SettingsInit /\ [][SettingsNext]_settingsVars

-----------------------------------------------------------------------------
(* Properties *)

\* PATCH /servers/:id: a value that somebody typed and saved is in the row, as typed, until
\* somebody types another.  A form that was filled before overwrites it, an emptied
\* description is not saved, and a form whose environment has a line that textToEnvironment
\* does not hold (blanks to trim, a "=" in the key, several lines, no "=", a key twice)
\* saves another; no save but these loses it, whatever order the pages save in.
SavedValuesKept == \A f \in Fields : row[f] = wanted[f] \/ f \in excused

\* POST /servers/:id/reinstall: once every reinstallation has ended, and the last to start
\* has neither met another nor failed, the container has the configuration that the
\* settings show, ports included, unless they have changed since it was read.
ReinstallApplies ==
  (\A p \in Pages : reinstalling[p] = NoReinstall) /\ ~crossed /\ ~changed => deployed = Config
=============================================================================
