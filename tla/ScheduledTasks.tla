--------------------------- MODULE ScheduledTasks ---------------------------
(***************************************************************************)
(* ScheduledTasksService: the rows of ScheduledTask, the requests that     *)
(* edit them, and runDueTasks, which cron calls every minute.  A tick      *)
(* lists the tasks that are due, executes them one after the other, and    *)
(* after each, whatever became of it, writes when it runs next; a row that *)
(* is gone by then, or an error of the database, makes the tick throw and  *)
(* the rest of its list wait.                                              *)
(* Nothing keeps a slow tick from overlapping the next one, and the list   *)
(* is not read again.                                                      *)
(*                                                                         *)
(* Time is counted in minutes left to nextRunAt.  What a task does to its  *)
(* server is in ServerLifecycle and Backups: here it takes a while and     *)
(* succeeds or throws.                                                     *)
(***************************************************************************)
EXTENDS Naturals, FiniteSets

CONSTANTS
  Tasks,        \* identities of rows; one is used once
  Servers,
  ServerOf,     \* the server of each task
  Ticks,        \* bound: ticks that overlap
  MaxPeriod,    \* bound: minutes from one occurrence of a cron expression to the next
  MaxEdits,     \* bound: requests that change a row
  MaxFailures,  \* bound: stops of the Backend and errors of the database
  None

ASSUME TasksAssumption ==
  /\ ServerOf \in [Tasks -> Servers] /\ None \notin Tasks
  /\ MaxPeriod \in Nat \ {0} /\ MaxEdits \in Nat /\ MaxFailures \in Nat

VARIABLES
  rows,      \* per task: whether its row exists, enabled, minutes left to nextRunAt
  servers,   \* servers that exist
  up,        \* the Backend runs
  cron,      \* the minute has come and its tick has not begun
  tick,      \* per tick: the tasks it still has to execute, and the one it executes
  served,    \* history: tasks executed since they last fell due
  twice,     \* history: tasks executed more than once for one occurrence
  shared,    \* history: tasks that two ticks had listed, or whose execution a stop cut short
  unsaved,   \* history: tasks whose next run the database refused to write
  edits,
  failures

taskVars == <<rows, servers, up, cron, tick, served, twice, shared, unsaved, edits, failures>>

Row == [state: {"new", "row", "gone"}, enabled: BOOLEAN, left: 0 .. MaxPeriod]
Idle == [busy |-> FALSE, list |-> {}, now |-> None]

TasksInit ==
  /\ rows = [t \in Tasks |-> [state |-> "new", enabled |-> FALSE, left |-> MaxPeriod]]
  /\ servers = Servers
  /\ up = TRUE
  /\ cron = FALSE
  /\ tick = [k \in Ticks |-> Idle]
  /\ served = {} /\ twice = {} /\ shared = {} /\ unsaved = {}
  /\ edits = 0 /\ failures = 0

Exists(t) == rows[t].state = "row"
Holds(k, t) == t \in tick[k].list \/ tick[k].now = t

-----------------------------------------------------------------------------
(* Requests.  A row that is read and gone before it is written changes nothing. *)

Edit == up /\ edits < MaxEdits /\ edits' = edits + 1
Failure == failures < MaxFailures /\ failures' = failures + 1

\* create; computeNextRun looks for the first occurrence that is still to come.
Create(t) ==
  /\ Edit
  /\ rows[t].state = "new" /\ ServerOf[t] \in servers
  /\ \E left \in 1 .. MaxPeriod :
       rows' = [rows EXCEPT ![t] = [state |-> "row", enabled |-> TRUE, left |-> left]]
  /\ UNCHANGED <<servers, up, cron, tick, served, twice, shared, unsaved, failures>>

\* enable and disable; nextRunAt stays what it was.
SetEnabled(t) ==
  /\ Edit
  /\ Exists(t)
  /\ rows' = [rows EXCEPT ![t].enabled = ~@]
  /\ UNCHANGED <<servers, up, cron, tick, served, twice, shared, unsaved, failures>>

Delete(t) ==
  /\ Edit
  /\ Exists(t)
  /\ rows' = [rows EXCEPT ![t].state = "gone"]
  /\ UNCHANGED <<servers, up, cron, tick, served, twice, shared, unsaved, failures>>

ScheduledTasksPanel == \E t \in Tasks : Create(t) \/ SetEnabled(t) \/ Delete(t)

\* The deletion of a server takes its tasks with it.
DeleteServer(s) ==
  /\ Edit
  /\ s \in servers
  /\ servers' = servers \ {s}
  /\ rows' = [t \in Tasks |-> IF Exists(t) /\ ServerOf[t] = s
                              THEN [rows[t] EXCEPT !.state = "gone"] ELSE rows[t]]
  /\ UNCHANGED <<up, cron, tick, served, twice, shared, unsaved, failures>>

-----------------------------------------------------------------------------
(* Ticks *)

\* A minute passes; the cron of the one before it has been called.
Minute ==
  /\ ~cron
  /\ rows' = [t \in Tasks |-> IF Exists(t) /\ rows[t].left > 0 THEN [rows[t] EXCEPT !.left = @ - 1]
                              ELSE rows[t]]
  /\ served' = served \ {t \in Tasks : rows[t].left = 1}
  /\ cron' = up
  /\ UNCHANGED <<servers, up, tick, twice, shared, unsaved, edits, failures>>

\* findMany
Due == {t \in Tasks : Exists(t) /\ rows[t].enabled /\ rows[t].left = 0}

\* Mutant: the next run is written before the execution.
BeginAdvances(k) ==
  /\ cron /\ cron' = FALSE
  /\ ~tick[k].busy
  /\ tick' = [tick EXCEPT ![k] = IF Due = {} THEN Idle ELSE [busy |-> TRUE, list |-> Due, now |-> None]]
  /\ rows' = [t \in Tasks |-> IF t \in Due THEN [rows[t] EXCEPT !.left = MaxPeriod] ELSE rows[t]]
  /\ shared' = shared \union {t \in Due : \E other \in Ticks : Holds(other, t)}
  /\ UNCHANGED <<servers, up, served, twice, unsaved, edits, failures>>

Begin(k) ==
  /\ cron /\ cron' = FALSE
  /\ ~tick[k].busy
  /\ tick' = [tick EXCEPT ![k] = IF Due = {} THEN Idle ELSE [busy |-> TRUE, list |-> Due, now |-> None]]
  /\ shared' = shared \union {t \in Due : \E other \in Ticks : Holds(other, t)}
  /\ UNCHANGED <<rows, servers, up, served, twice, unsaved, edits, failures>>

\* execute: the task as it was listed, with the rights of the system user.
Execute(k, t) ==
  /\ t \in tick[k].list /\ tick[k].now = None
  /\ tick' = [tick EXCEPT ![k].list = @ \ {t}, ![k].now = t]
  /\ served' = served \union {t}
  /\ twice' = IF t \in served THEN twice \union {t} ELSE twice
  /\ UNCHANGED <<rows, servers, up, cron, shared, unsaved, edits, failures>>

\* The tasks cannot be listed: the tick throws, and the next one lists them.
ListFails ==
  /\ cron /\ cron' = FALSE
  /\ Failure
  /\ UNCHANGED <<rows, servers, up, tick, served, twice, shared, unsaved, edits>>

\* Mutant: a task that throws is not given its next run.
RescheduleOnSuccess(k) ==
  LET t == tick[k].now
  IN  /\ t # None
      /\ tick' = [tick EXCEPT ![k] = IF tick[k].list = {} \/ ~Exists(t) THEN Idle
                                     ELSE [tick[k] EXCEPT !.now = None]]
      /\ \/ UNCHANGED rows
         \/ /\ Exists(t)
            /\ \E left \in 1 .. MaxPeriod : rows' = [rows EXCEPT ![t].left = left]
      /\ UNCHANGED <<servers, up, cron, served, twice, shared, unsaved, edits, failures>>

\* Mutant: the error of a task is not caught, and leaves the loop after "finally".
RescheduleUncaught(k) ==
  LET t == tick[k].now
  IN  /\ t # None
      /\ IF Exists(t) THEN \E left \in 1 .. MaxPeriod : rows' = [rows EXCEPT ![t].left = left]
                      ELSE UNCHANGED rows
      /\ tick' = [tick EXCEPT ![k] = Idle]
      /\ UNCHANGED <<servers, up, cron, served, twice, shared, unsaved, edits, failures>>

\* finally: the next run is computed from now, on success and failure; the update of a
\* row that is gone throws out of the loop.
Reschedule(k) ==
  LET t == tick[k].now
  IN  /\ t # None
      /\ IF Exists(t)
         THEN /\ \E left \in 1 .. MaxPeriod : rows' = [rows EXCEPT ![t].left = left]
              /\ tick' = [tick EXCEPT ![k] = IF tick[k].list = {} THEN Idle
                                             ELSE [tick[k] EXCEPT !.now = None]]
         ELSE tick' = [tick EXCEPT ![k] = Idle] /\ UNCHANGED rows
      /\ UNCHANGED <<servers, up, cron, served, twice, shared, unsaved, edits, failures>>

\* The update fails though the row is there, or its answer is lost: the tick throws.
RescheduleFails(k) ==
  LET t == tick[k].now
  IN  /\ t # None /\ Exists(t)
      /\ Failure
      /\ tick' = [tick EXCEPT ![k] = Idle]
      /\ \/ UNCHANGED rows /\ unsaved' = unsaved \union {t}
         \/ /\ \E left \in 1 .. MaxPeriod : rows' = [rows EXCEPT ![t].left = left]
            /\ UNCHANGED unsaved
      /\ UNCHANGED <<servers, up, cron, served, twice, shared, edits>>

ProcessStops ==
  /\ up /\ up' = FALSE
  /\ Failure
  /\ cron' = FALSE
  /\ tick' = [k \in Ticks |-> Idle]
  /\ shared' = shared \union {t \in Tasks : \E k \in Ticks : tick[k].now = t}
  /\ UNCHANGED <<rows, servers, served, twice, unsaved, edits>>

ProcessStarts ==
  /\ ~up /\ up' = TRUE
  /\ UNCHANGED <<rows, servers, cron, tick, served, twice, shared, unsaved, edits, failures>>

Tick(k) == Begin(k) \/ (\E t \in Tasks : Execute(k, t)) \/ Reschedule(k) \/ RescheduleFails(k)

TasksNext ==
  \/ ScheduledTasksPanel \/ (\E s \in Servers : DeleteServer(s))
  \/ Minute \/ ListFails \/ (\E k \in Ticks : Tick(k))
  \/ ProcessStops \/ ProcessStarts

TasksSpec == TasksInit /\ [][TasksNext]_taskVars

\* Time passes, a Backend that stopped is started again (systemd), and what a task
\* calls answers in the end.
FairTasksSpec ==
  /\ TasksSpec
  /\ WF_taskVars(Minute) /\ WF_taskVars(ProcessStarts)
  /\ \A k \in Ticks : WF_taskVars(Tick(k))

-----------------------------------------------------------------------------
(* Properties *)

\* A task that exists belongs to a server that does, a tick that is busy has something
\* to do.
TasksTypeOK ==
  /\ rows \in [Tasks -> Row]
  /\ \A t \in Tasks : Exists(t) => ServerOf[t] \in servers
  /\ tick \in [Ticks -> [busy: BOOLEAN, list: SUBSET Tasks, now: Tasks \union {None}]]
  /\ \A k \in Ticks : tick[k].busy <=> tick[k].list # {} \/ tick[k].now # None
  /\ cron \in BOOLEAN /\ (~up => \A k \in Ticks : ~tick[k].busy)

\* A task runs once for each time it falls due, failed executions included, unless two
\* ticks had listed it, the Backend stopped while it ran, or the database refused to write
\* its next run (runDueTasks, whose update of the row is outside any try).
OncePerOccurrence == twice \subseteq shared \union unsaved

\* Types, and one execution for each time a task falls due (runDueTasks).
SchedulerInv == TasksTypeOK /\ OncePerOccurrence

\* No occurrence is passed over: a due task is given its next run after it was executed
\* for this one.  Two ticks that overlap may pass one over, the slower one by writing the
\* next run after the task fell due again.
NoneSkipped ==
  [][\A t \in Tasks : Exists(t) /\ rows[t].left = 0 /\ rows'[t].left # 0 => t \in served \union shared]_taskVars

\* A task that is due runs, or is disabled or deleted first: an execution that throws,
\* a tick cut short by a deletion or the database and a stop of the Backend delay it and
\* lose nothing.
DueServed ==
  \A t \in Tasks : t \in Due ~> (t \in served \/ ~Exists(t) \/ ~rows[t].enabled)
=============================================================================
