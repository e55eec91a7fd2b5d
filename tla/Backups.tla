------------------------------- MODULE Backups -------------------------------
(***************************************************************************)
(* The backups of one server: the rows that BackupsService writes, the     *)
(* requests that write them (the detached runBackup of each backup,        *)
(* restore and delete), the calls they make to the daemon, and the         *)
(* archives the daemon keeps on its disk or in a bucket.                   *)
(*                                                                         *)
(* A request is one process with a step per await; its call is a goroutine *)
(* of the daemon with a step per file operation (work).  As everywhere, a  *)
(* call answers success or Success:false (refused), or ends in a gRPC      *)
(* error (failed).  The status of the server that a restore also writes is *)
(* in ServerLifecycle.                                                     *)
(***************************************************************************)
EXTENDS Naturals

CONSTANTS
  Archives,    \* ids of backups; the id is also the name of the archive
  Requests,    \* restore and delete requests the Backend serves at the same time
  MaxFaults,   \* bound: how often a file operation, the network, the database or a process fails
  None

ASSUME ProcessAssumption == Archives \cap Requests = {} /\ None \notin Archives
ASSUME FaultsAssumption == MaxFaults \in Nat

Processes == Archives \cup Requests   \* runBackup of b is process b

VARIABLES
  status,   \* backups.status; "none" before the row exists, "gone" after
  remote,   \* whether backups.driver is a bucket (S3, R2, B2, MINIO), not LOCAL; SFTP and FTP end up as LOCAL
  req,      \* per process: operation, backup, where it stands
  work,     \* per process: the next file operation of its call, the backup, the outcome so far
  answer,   \* per process: how its call ended, "none" before
  disk,     \* per backup: the file of the daemon's backup directory
  bucket,   \* per backup: the object of the bucket
  faults,   \* failures so far
  cut,      \* whether a stop of the Backend or a database error cut a request short
  spoiled   \* history: backups asked to be deleted, or to be restored before they were COMPLETED

store == <<disk, bucket>>
vars == <<status, remote, req, work, answer, disk, bucket, faults, cut, spoiled>>

Statuses == {"none", "PENDING", "IN_PROGRESS", "COMPLETED", "FAILED", "RESTORING", "gone"}
Steps == {"idle", "open", "close", "put", "extract", "get", "drop", "remove", "removeObject"}

RequestStates == [op : {"none", "create", "restore", "delete"}, backup : Archives \cup {None},
                  pc : {"idle", "begin", "call"}]
Calls == [step : Steps, backup : Archives \cup {None}, outcome : {"ok", "refused"}]

State(operation, b, pc) == [op |-> operation, backup |-> b, pc |-> pc]
Idle == State("none", None, "idle")
At(step, b) == [step |-> step, backup |-> b, outcome |-> "ok"]
Nothing == At("idle", None)

Exists(b) == status[b] \notin {"none", "gone"}

Init ==
  /\ status = [b \in Archives |-> "none"]
  /\ remote \in [Archives -> BOOLEAN]
  /\ req = [p \in Processes |-> Idle]
  /\ work = [p \in Processes |-> Nothing]
  /\ answer = [p \in Processes |-> "none"]
  /\ disk = [b \in Archives |-> "none"]
  /\ bucket = [b \in Archives |-> "none"]
  /\ faults = 0
  /\ cut = FALSE
  /\ spoiled = {}

\* Something fails, within the bound.
Fault == faults < MaxFaults /\ faults' = faults + 1

-----------------------------------------------------------------------------
(* The Backend *)

\* The first file operation of CreateBackup, RestoreBackup and DeleteBackup.
FirstStep(operation, b) ==
  CASE operation = "create"  -> "open"
    [] operation = "restore" -> IF remote[b] THEN "get" ELSE "extract"
    [] operation = "delete"  -> IF remote[b] THEN "removeObject" ELSE "remove"

Call(p, operation, b) ==
  /\ req' = [req EXCEPT ![p] = State(operation, b, "call")]
  /\ work' = [work EXCEPT ![p] = At(FirstStep(operation, b), b)]

Finish(p) ==
  /\ req' = [req EXCEPT ![p] = Idle]
  /\ answer' = [answer EXCEPT ![p] = "none"]

Answered(p, operation) ==
  req[p].pc = "call" /\ req[p].op = operation /\ answer[p] # "none"

\* create inserts the row and starts runBackup without waiting for it.
Create(b) ==
  /\ status[b] = "none"
  /\ status' = [status EXCEPT ![b] = "PENDING"]
  /\ req' = [req EXCEPT ![b] = State("create", b, "begin")]
  /\ UNCHANGED <<remote, work, answer, store, faults, cut, spoiled>>

\* The update to IN_PROGRESS, outside the try block, then the call.
BeginBackup(b) ==
  /\ req[b].pc = "begin"
  /\ \/ /\ Exists(b)
        /\ status' = [status EXCEPT ![b] = "IN_PROGRESS"]
        /\ Call(b, "create", b)
        /\ UNCHANGED answer
     \/ /\ ~Exists(b)
        /\ Finish(b)
        /\ UNCHANGED <<status, work>>
  /\ UNCHANGED <<remote, store, faults, cut, spoiled>>

\* Mutant: a gRPC error is not caught.
BackedUpUncaught(b) ==
  /\ Answered(b, "create")
  /\ status' = [status EXCEPT ![b] = IF ~Exists(b) \/ answer[b] = "failed" THEN @
                                     ELSE IF answer[b] = "ok" THEN "COMPLETED" ELSE "FAILED"]
  /\ Finish(b)
  /\ UNCHANGED <<remote, work, store, faults, cut, spoiled>>

\* COMPLETED for success, FAILED for the rest; an update to COMPLETED that
\* fails is caught and ends in FAILED too.
BackedUp(b) ==
  /\ Answered(b, "create")
  /\ \/ /\ Exists(b)
        /\ status' = [status EXCEPT ![b] = IF answer[b] = "ok" THEN "COMPLETED" ELSE "FAILED"]
        /\ UNCHANGED faults
     \/ /\ Exists(b) /\ answer[b] = "ok"
        /\ Fault
        /\ status' = [status EXCEPT ![b] = "FAILED"]
     \/ ~Exists(b) /\ UNCHANGED <<status, faults>>
  /\ Finish(b)
  /\ UNCHANGED <<remote, work, store, cut, spoiled>>

\* A request arrives; it is a fresh process: no call of it is left.
Free(h) == req[h] = Idle /\ work[h] = Nothing

\* restore reads the row, in any status.
Restore(h, b) ==
  /\ Free(h) /\ Exists(b)
  /\ req' = [req EXCEPT ![h] = State("restore", b, "begin")]
  /\ spoiled' = IF status[b] \in {"COMPLETED", "RESTORING"} THEN spoiled ELSE spoiled \cup {b}
  /\ UNCHANGED <<status, remote, work, answer, store, faults, cut>>

BeginRestore(h) ==
  LET b == req[h].backup IN
  /\ req[h].op = "restore" /\ req[h].pc = "begin"
  /\ \/ /\ Exists(b)
        /\ status' = [status EXCEPT ![b] = "RESTORING"]
        /\ Call(h, "restore", b)
        /\ UNCHANGED answer
     \/ /\ ~Exists(b)
        /\ Finish(h)
        /\ UNCHANGED <<status, work>>
  /\ UNCHANGED <<remote, store, faults, cut, spoiled>>

\* Mutant: a restoration that the daemon refused marks the backup as FAILED.
RestoredOrFailed(h) ==
  LET b == req[h].backup IN
  /\ Answered(h, "restore")
  /\ status' = [status EXCEPT ![b] = IF ~Exists(b) \/ answer[h] = "failed" THEN @
                                     ELSE IF answer[h] = "ok" THEN "COMPLETED" ELSE "FAILED"]
  /\ Finish(h)
  /\ UNCHANGED <<remote, work, store, faults, cut, spoiled>>

\* COMPLETED whatever the daemon answered; a gRPC error is thrown on, and the
\* row keeps its status.
Restored(h) ==
  LET b == req[h].backup IN
  /\ Answered(h, "restore")
  /\ status' = [status EXCEPT ![b] = IF Exists(b) /\ answer[h] # "failed" THEN "COMPLETED" ELSE @]
  /\ Finish(h)
  /\ UNCHANGED <<remote, work, store, faults, cut, spoiled>>

\* delete reads the row and calls the daemon.
Delete(h, b) ==
  /\ Free(h) /\ Exists(b)
  /\ Call(h, "delete", b)
  /\ spoiled' = spoiled \cup {b}
  /\ UNCHANGED <<status, remote, answer, store, faults, cut>>

\* The row goes for success and Success:false alike; a gRPC error keeps it.
Deleted(h) ==
  LET b == req[h].backup IN
  /\ Answered(h, "delete")
  /\ status' = [status EXCEPT ![b] = IF answer[h] = "failed" THEN @ ELSE "gone"]
  /\ Finish(h)
  /\ UNCHANGED <<remote, work, store, faults, cut, spoiled>>

\* The server is deleted: its rows go with it (ON DELETE CASCADE).
ServerDeleted ==
  /\ \E b \in Archives : Exists(b)
  /\ status' = [b \in Archives |-> "gone"]
  /\ UNCHANGED <<remote, req, work, answer, store, faults, cut, spoiled>>

-----------------------------------------------------------------------------
(* The daemon: a step per file operation on the archive of work[p].backup   *)

\* Nobody waits for the call of p any more: its context is canceled.
Canceled(p) == ~(req[p].pc = "call" /\ answer[p] = "none")

\* The call of p ends with answer a, if the Backend still waits for it.
Return(p, a) ==
  /\ work' = [work EXCEPT ![p] = Nothing]
  /\ answer' = IF Canceled(p) THEN answer ELSE [answer EXCEPT ![p] = a]

\* The call of p goes on with another step.
GoOn(p, w) == work' = [work EXCEPT ![p] = w] /\ UNCHANGED answer

Doing(p, step) == work[p].step = step
File(p, content) == disk' = [disk EXCEPT ![work[p].backup] = content]
Object(p, content) == bucket' = [bucket EXCEPT ![work[p].backup] = content]

\* A file operation fails, or the bucket refuses, also because of the context.
FileFails == Fault
BucketFails(p) == Fault \/ (Canceled(p) /\ UNCHANGED faults)

\* Create makes the file, then fills it.
OpenArchive(p) ==
  /\ Doing(p, "open")
  /\ \/ File(p, "partial") /\ GoOn(p, At("close", work[p].backup)) /\ UNCHANGED faults
     \/ FileFails /\ Return(p, "refused") /\ UNCHANGED disk
  /\ UNCHANGED <<status, remote, req, bucket, cut, spoiled>>

\* The walk ends, tar and gzip are closed, and the file is looked up by its
\* name.  A failed walk removes the file; a failed close leaves the part that
\* was written.
CloseArchive(p) ==
  LET b == work[p].backup IN
  /\ Doing(p, "close")
  /\ \/ /\ disk[b] # "none"
        /\ File(p, "whole")
        /\ IF remote[b] THEN GoOn(p, At("put", b)) ELSE Return(p, "ok")
        /\ UNCHANGED faults
     \/ disk[b] = "none" /\ Return(p, "refused") /\ UNCHANGED <<disk, faults>>
     \/ FileFails /\ Return(p, "refused") /\ (File(p, "none") \/ UNCHANGED disk)
  /\ UNCHANGED <<status, remote, req, bucket, cut, spoiled>>

\* CreateRemote sends the file, and drops it whether or not the bucket took it.
PutObject(p) ==
  LET b == work[p].backup IN
  /\ Doing(p, "put")
  /\ \/ disk[b] # "none" /\ Object(p, disk[b]) /\ GoOn(p, At("drop", b)) /\ UNCHANGED faults
     \/ /\ (disk[b] = "none" /\ UNCHANGED faults) \/ BucketFails(p)
        /\ GoOn(p, [At("drop", b) EXCEPT !.outcome = "refused"])
        /\ UNCHANGED bucket
  /\ UNCHANGED <<status, remote, req, disk, cut, spoiled>>

\* Mutant: the answer does not wait for the outcome of the upload.
DropCopyAnsweringOk(p) ==
  /\ Doing(p, "drop")
  /\ File(p, "none")
  /\ Return(p, "ok")
  /\ UNCHANGED <<status, remote, req, bucket, faults, cut, spoiled>>

\* os.Remove of the local copy, its error ignored, and the answer.
DropCopy(p) ==
  /\ Doing(p, "drop")
  /\ File(p, "none")
  /\ Return(p, work[p].outcome)
  /\ UNCHANGED <<status, remote, req, bucket, faults, cut, spoiled>>

\* RestoreRemote fetches the object into the file of the backup.
GetObject(p) ==
  LET b == work[p].backup IN
  /\ Doing(p, "get")
  /\ \/ /\ bucket[b] # "none"
        /\ File(p, bucket[b])
        /\ GoOn(p, At("extract", b))
        /\ UNCHANGED faults
     \/ /\ (bucket[b] = "none" /\ UNCHANGED faults) \/ BucketFails(p)
        /\ Return(p, "refused")
        /\ UNCHANGED disk
  /\ UNCHANGED <<status, remote, req, bucket, cut, spoiled>>

\* Restore reads the file to its end; a remote one then drops its copy.
Extract(p) ==
  LET b == work[p].backup IN
  /\ Doing(p, "extract")
  /\ \E outcome \in {"ok", "refused"} :
       /\ \/ outcome = "ok" /\ disk[b] = "whole" /\ UNCHANGED faults
          \/ outcome = "refused" /\ disk[b] # "whole" /\ UNCHANGED faults
          \/ outcome = "refused" /\ FileFails
       /\ IF remote[b] THEN GoOn(p, [At("drop", b) EXCEPT !.outcome = outcome])
          ELSE Return(p, outcome)
  /\ UNCHANGED <<status, remote, req, store, cut, spoiled>>

\* Delete: os.Remove, which fails when there is no file.
RemoveFile(p) ==
  LET b == work[p].backup IN
  /\ Doing(p, "remove")
  /\ \/ disk[b] # "none" /\ File(p, "none") /\ Return(p, "ok") /\ UNCHANGED faults
     \/ /\ (disk[b] = "none" /\ UNCHANGED faults) \/ FileFails
        /\ Return(p, "refused")
        /\ UNCHANGED disk
  /\ UNCHANGED <<status, remote, req, bucket, cut, spoiled>>

\* DeleteRemote: RemoveObject, which succeeds when there is no object.
RemoveObject(p) ==
  /\ Doing(p, "removeObject")
  /\ \/ Object(p, "none") /\ Return(p, "ok") /\ UNCHANGED faults
     \/ BucketFails(p) /\ Return(p, "refused") /\ UNCHANGED bucket
  /\ UNCHANGED <<status, remote, req, disk, cut, spoiled>>

Work(p) ==
  \/ OpenArchive(p) \/ CloseArchive(p) \/ PutObject(p) \/ DropCopy(p)
  \/ GetObject(p) \/ Extract(p) \/ RemoveFile(p) \/ RemoveObject(p)

-----------------------------------------------------------------------------
(* Failures *)

\* The connection breaks (a call has no deadline): the caller gets an error, and
\* the call goes on in the daemon, or never reached it.
Lost(p) ==
  /\ req[p].pc = "call" /\ answer[p] = "none"
  /\ Fault
  /\ answer' = [answer EXCEPT ![p] = "failed"]
  /\ \/ UNCHANGED work
     \/ /\ work[p].step = FirstStep(req[p].op, req[p].backup)
        /\ work' = [work EXCEPT ![p] = Nothing]
  /\ UNCHANGED <<status, remote, req, store, cut, spoiled>>

\* The next write of a request fails, in runBackup the write of FAILED too:
\* the request ends there.
DatabaseFails(p) ==
  /\ req[p].pc = "begin" \/ (req[p].pc = "call" /\ answer[p] # "none")
  /\ Fault
  /\ Finish(p)
  /\ cut' = TRUE
  /\ UNCHANGED <<status, remote, work, store, spoiled>>

\* The Backend restarts: its requests are gone, and nothing resumes them.
BackendRestart ==
  /\ \E p \in Processes : req[p] # Idle
  /\ Fault
  /\ req' = [p \in Processes |-> Idle]
  /\ answer' = [p \in Processes |-> "none"]
  /\ cut' = TRUE
  /\ UNCHANGED <<status, remote, work, store, spoiled>>

\* The daemon restarts: its calls stop between two file operations.
DaemonRestart ==
  /\ \E p \in Processes : work[p] # Nothing
  /\ Fault
  /\ work' = [p \in Processes |-> Nothing]
  /\ answer' = [p \in Processes |-> IF Canceled(p) THEN answer[p] ELSE "failed"]
  /\ UNCHANGED <<status, remote, req, store, cut, spoiled>>

-----------------------------------------------------------------------------
Backup(b) == BeginBackup(b) \/ BackedUp(b)

\* What the backups panel sends: its form, and the two buttons of a row.
BackupsPanel(h) == \E b \in Archives : Create(b) \/ Restore(h, b) \/ Delete(h, b)

Request(h) == BackupsPanel(h) \/ BeginRestore(h) \/ Restored(h) \/ Deleted(h)

Next ==
  \/ \E b \in Archives : Backup(b)
  \/ \E h \in Requests : Request(h)
  \/ \E p \in Processes : Work(p) \/ Lost(p) \/ DatabaseFails(p)
  \/ ServerDeleted
  \/ BackendRestart
  \/ DaemonRestart

Spec == Init /\ [][Next]_vars

\* A promise of the Backend goes on, and so does a goroutine of the daemon.
Fairness ==
  /\ \A b \in Archives : WF_vars(BeginBackup(b) \/ BackedUp(b))
  /\ \A p \in Processes : WF_vars(Work(p))

FairSpec == Spec /\ Fairness

-----------------------------------------------------------------------------
(* Properties *)

\* Types of the variables.
TypeOK ==
  /\ status \in [Archives -> Statuses]
  /\ remote \in [Archives -> BOOLEAN]
  /\ req \in [Processes -> RequestStates]
  /\ work \in [Processes -> Calls]
  /\ answer \in [Processes -> {"none", "ok", "refused", "failed"}]
  /\ disk \in [Archives -> {"none", "partial", "whole"}]
  /\ bucket \in [Archives -> {"none", "partial", "whole"}]
  /\ faults \in 0 .. MaxFaults
  /\ cut \in BOOLEAN
  /\ spoiled \subseteq Archives

\* What the driver of a backup keeps of it.
Stored(b) == IF remote[b] THEN bucket[b] ELSE disk[b]

\* A backup shown as COMPLETED has its whole archive where its driver keeps
\* it, through lost calls, restarts of either process, a full disk, a bucket
\* that refuses, and any restore of it that was asked for once it was
\* COMPLETED, even one that failed half way (runBackup, restore, CreateRemote,
\* RestoreRemote).  A restore asked for earlier, or a deletion, spoils it.
CompletedBacked ==
  \A b \in Archives : status[b] = "COMPLETED" /\ b \notin spoiled => Stored(b) = "whole"

\* A backup shown as under way is under way: its runBackup still runs, unless
\* a stop of the Backend or a database error cut one short (nothing resumes
\* it: hence the exception).
BusyExplained ==
  \A b \in Archives : status[b] \in {"PENDING", "IN_PROGRESS"} => req[b].op = "create" \/ cut

\* Types, and a run behind every backup that is shown as under way.
BusyOK == TypeOK /\ BusyExplained

\* What a backup shows as: its restoration is one of a backup that is kept.
Shown(b) ==
  CASE status[b] \in {"PENDING", "IN_PROGRESS"} -> "busy"
    [] status[b] \in {"COMPLETED", "RESTORING"} -> "kept"
    [] status[b] = "FAILED"                     -> "failed"
    [] status[b] \in {"none", "gone"}           -> status[b]

Vault == INSTANCE BackupVault
  WITH shown <- [b \in Archives |-> Shown(b)],
       whole <- {b \in Archives : Stored(b) = "whole"},
       released <- spoiled

\* The rows, the calls and the files together are a vault: a backup becomes
\* COMPLETED of a whole archive only, and no failed restoration, lost call or
\* restart takes back what it shows or loses its archive, until somebody asks
\* for its deletion, or asked for a restoration too early; a row goes for a
\* deletion, or with the server, and none comes back.
KeepsVault == Vault!Spec

\* A backup that is asked for leaves PENDING and IN_PROGRESS, unless a request
\* was cut short: whatever the daemon answers, and when it stops, the row says so.
BackupSettles ==
  \A b \in Archives : status[b] = "PENDING" ~> (cut \/ status[b] \notin {"PENDING", "IN_PROGRESS"})
=============================================================================
