--------------------------- MODULE ServerLifecycle ---------------------------
(***************************************************************************)
(* The life of one game server after its row was created: the requests of  *)
(* the Backend (provisionOnNode, powerAction, suspend, unsuspend,          *)
(* reinstall, delete, and the restore of a backup, which writes the same   *)
(* status), the calls they make to the daemon of its node, and the Docker  *)
(* objects these calls work on.  The console (sendCommand and the stdin    *)
(* attachments of the daemon) is another module's.                         *)
(*                                                                         *)
(* A request is one process with a step per await.  Its call to the daemon *)
(* is a goroutine that makes a sequence of Docker calls (todo); calls of   *)
(* several requests interleave, no lock orders them.  A call answers       *)
(* success, or Success:false (refused), or ends in a gRPC error (failed).  *)
(***************************************************************************)
EXTENDS Naturals, Sequences

CONSTANTS
  Requests,       \* requests the Backend serves at the same time
  Provisioning,   \* the detached provisionOnNode of the create
  MaxFaults       \* bound: how often Docker, the network, the database or a process fails

ASSUME ProcessAssumption == Provisioning \notin Requests
ASSUME FaultsAssumption == MaxFaults \in Nat

Processes == Requests \cup {Provisioning}

VARIABLES
  status,      \* servers.status, "gone" once the row is deleted
  suspended,   \* servers.suspended
  req,         \* per process: what it does and where it stands
  todo,        \* per process: the Docker calls its daemon call has left to make
  answer,      \* per process: how its daemon call ended, "none" before
  container,   \* the server's container
  network,     \* whether its isolated network exists
  faults,      \* failures so far
  cut          \* whether a stop of the Backend or a database error cut a request short

backend == <<status, suspended, req, cut>>
docker == <<container, network>>
vars == <<status, suspended, req, todo, answer, container, network, faults, cut>>

Powers == {"start", "stop", "kill"}   \* "start" stands for restart too: same writes, same end
Operations == Powers \cup {"provision", "reinstall", "restore", "delete"}
Statuses == {"INSTALLING", "INSTALL_FAILED", "OFFLINE", "STARTING", "STOPPING",
             "SUSPENDED", "RESTORING", "gone"}
DockerCalls == {"network", "create", "remove", "removeNetwork", "start", "stop", "kill", "extract"}

State(operation, pc) == [op |-> operation, pc |-> pc]
Idle == State("none", "idle")

Exists == status # "gone"

\* What the status becomes before the daemon is called.
Optimistic(operation) ==
  CASE operation = "start"   -> "STARTING"
    [] operation = "stop"    -> "STOPPING"
    [] operation = "kill"    -> "OFFLINE"
    [] operation = "restore" -> "RESTORING"

\* Mutant: the daemon starts what it reinstalled.
PlanRestarting(operation) ==
  CASE operation = "provision" -> <<"network", "create">>
    [] operation = "reinstall" -> <<"remove", "network", "create", "start">>
    [] operation = "delete"    -> <<"remove", "removeNetwork">>
    [] operation = "restore"   -> <<"extract">>
    [] OTHER                   -> <<operation>>

\* The Docker calls each method of the daemon makes, in order.  Without an
\* effect here: the image pull (part of "create") and the attachment of stdin
\* (after "start"), whose failure nobody reads.
Plan(operation) ==
  CASE operation = "provision" -> <<"network", "create">>
    [] operation = "reinstall" -> <<"remove", "network", "create">>
    [] operation = "delete"    -> <<"remove", "removeNetwork">>
    [] operation = "restore"   -> <<"extract">>
    [] OTHER                   -> <<operation>>   \* start, stop, kill

Init ==
  /\ status = "INSTALLING"
  /\ suspended = FALSE
  /\ req = [h \in Processes |-> IF h = Provisioning THEN State("provision", "read") ELSE Idle]
  /\ todo = [h \in Processes |-> <<>>]
  /\ answer = [h \in Processes |-> "none"]
  /\ container = "none"
  /\ network = FALSE
  /\ faults = 0
  /\ cut = FALSE

\* Something fails, within the bound.
Fault == faults < MaxFaults /\ faults' = faults + 1

-----------------------------------------------------------------------------
(* The Backend *)

Call(h, operation) ==
  /\ req' = [req EXCEPT ![h] = State(operation, "call")]
  /\ todo' = [todo EXCEPT ![h] = Plan(operation)]

Finish(h) ==
  /\ req' = [req EXCEPT ![h] = Idle]
  /\ answer' = [answer EXCEPT ![h] = "none"]

\* findUniqueOrThrow, outside the try block, then CreateServer.
Provision ==
  /\ req[Provisioning].pc = "read"
  /\ \/ Exists /\ Call(Provisioning, "provision") /\ UNCHANGED answer
     \/ ~Exists /\ Finish(Provisioning) /\ UNCHANGED todo
  /\ UNCHANGED <<status, suspended, docker, faults, cut>>

\* Mutant: a failed call leaves the status alone.
ProvisionedSilently ==
  /\ req[Provisioning].pc = "call" /\ answer[Provisioning] # "none"
  /\ status' \in IF answer[Provisioning] = "failed" THEN {status}
                 ELSE IF Exists THEN {"OFFLINE"} ELSE {"gone"}
  /\ Finish(Provisioning)
  /\ UNCHANGED <<suspended, todo, docker, faults, cut>>

\* The try block ends in OFFLINE whatever the daemon answered; a gRPC error,
\* or a first update that fails, is caught and ends in INSTALL_FAILED.
Provisioned ==
  /\ req[Provisioning].pc = "call" /\ answer[Provisioning] # "none"
  /\ \/ /\ Exists /\ answer[Provisioning] # "failed"
        /\ status' = "OFFLINE"
        /\ UNCHANGED faults
     \/ /\ Exists
        /\ \/ answer[Provisioning] = "failed" /\ UNCHANGED faults
           \/ answer[Provisioning] # "failed" /\ Fault
        /\ status' = "INSTALL_FAILED"
     \/ ~Exists /\ UNCHANGED <<status, faults>>
  /\ Finish(Provisioning)
  /\ UNCHANGED <<suspended, todo, docker, cut>>

\* A request arrives; it is a fresh process: no daemon call of it is left.
Free(h) == h \in Requests /\ req[h] = Idle /\ todo[h] = <<>>

\* powerAction reads the row and checks the suspension on what it read.
Power(h, operation) ==
  /\ Free(h) /\ Exists /\ ~suspended
  /\ req' = [req EXCEPT ![h] = State(operation, "write")]
  /\ UNCHANGED <<status, suspended, todo, answer, docker, faults, cut>>

\* Backups restore: no check of the suspension.
Restore(h) ==
  /\ Free(h) /\ Exists
  /\ req' = [req EXCEPT ![h] = State("restore", "write")]
  /\ UNCHANGED <<status, suspended, todo, answer, docker, faults, cut>>

\* The status is written before the daemon is called, over whatever it is now.
WriteStatus(h) ==
  /\ req[h].pc = "write"
  /\ \/ /\ Exists
        /\ status' = Optimistic(req[h].op)
        /\ Call(h, req[h].op)
        /\ UNCHANGED answer
     \/ ~Exists /\ Finish(h) /\ UNCHANGED <<status, todo>>
  /\ UNCHANGED <<suspended, docker, faults, cut>>

\* restore writes the backup's row too before it calls; if that fails, the
\* server's status was written all the same.
RestoreInterrupted(h) ==
  /\ Fault
  /\ req[h].pc = "write" /\ req[h].op = "restore" /\ Exists
  /\ status' = "RESTORING"
  /\ Finish(h)
  /\ UNCHANGED <<suspended, todo, docker, cut>>

\* reinstall and delete read the row and call the daemon.
Order(h, operation) ==
  /\ operation \in {"reinstall", "delete"}
  /\ Free(h) /\ Exists
  /\ Call(h, operation)
  /\ UNCHANGED <<status, suspended, answer, docker, faults, cut>>

\* powerAction writes nothing more, whatever was answered.
Answered(h) ==
  /\ req[h].pc = "call" /\ answer[h] # "none"
  /\ req[h].op \in Powers
  /\ Finish(h)
  /\ UNCHANGED <<status, suspended, todo, docker, faults, cut>>

\* reinstall and restore: OFFLINE for success and Success:false alike; a gRPC
\* error is thrown on, and the status stays what it was.
Settled(h) ==
  /\ req[h].pc = "call" /\ answer[h] # "none"
  /\ req[h].op \in {"reinstall", "restore"}
  /\ status' = IF Exists /\ answer[h] # "failed" THEN "OFFLINE" ELSE status
  /\ Finish(h)
  /\ UNCHANGED <<suspended, todo, docker, faults, cut>>

\* Mutant: an unreachable daemon keeps the server from being deleted.
DeletedIfAnswered(h) ==
  /\ req[h].pc = "call" /\ answer[h] # "none" /\ req[h].op = "delete"
  /\ status' = IF answer[h] = "failed" THEN status ELSE "gone"
  /\ Finish(h)
  /\ UNCHANGED <<suspended, todo, docker, faults, cut>>

\* delete: an error of the daemon is logged and the row goes anyway.
Deleted(h) ==
  /\ req[h].pc = "call" /\ answer[h] # "none" /\ req[h].op = "delete"
  /\ status' = "gone"
  /\ Finish(h)
  /\ UNCHANGED <<suspended, todo, docker, faults, cut>>

Suspend ==
  /\ Exists
  /\ suspended' = TRUE /\ status' = "SUSPENDED"
  /\ UNCHANGED <<req, todo, answer, docker, faults, cut>>

Unsuspend ==
  /\ Exists
  /\ suspended' = FALSE /\ status' = "OFFLINE"
  /\ UNCHANGED <<req, todo, answer, docker, faults, cut>>

-----------------------------------------------------------------------------
(* The daemon and Docker *)

\* What Docker accepts.
Accepts(call) ==
  CASE call = "create"        -> container = "none"
    [] call = "removeNetwork" -> network /\ container # "running"
    [] call = "start"         -> network /\ container # "none"
    [] call = "stop"          -> container # "none"
    [] call = "kill"          -> container = "running"
    [] OTHER                  -> TRUE

ContainerAfter(call) ==
  CASE call \in {"create", "stop", "kill"} -> "stopped"
    [] call = "remove"                     -> "none"
    [] call = "start"                      -> "running"
    [] OTHER                               -> container

NetworkAfter(call) ==
  CASE call = "network" -> TRUE [] call = "removeNetwork" -> FALSE [] OTHER -> network

\* The next call of the goroutine; the last one answers success, if the
\* request still waits for it.
Advance(h) ==
  /\ todo' = [todo EXCEPT ![h] = Tail(todo[h])]
  /\ answer' = [answer EXCEPT ![h] = IF /\ req[h].pc = "call" /\ answer[h] = "none"
                                        /\ Len(todo[h]) = 1
                                     THEN "ok" ELSE answer[h]]

DockerStep(h) ==
  LET call == Head(todo[h]) IN
  /\ todo[h] # <<>>
  /\ Accepts(call)
  /\ container' = ContainerAfter(call)
  /\ network' = NetworkAfter(call)
  /\ Advance(h)
  /\ UNCHANGED <<backend, faults>>

\* Docker refuses the call: Success:false and no further call.  The daemon
\* ignores the error when DeleteServer removes the container.
DockerRefuses(h) ==
  LET call == Head(todo[h]) IN
  /\ todo[h] # <<>>
  /\ \/ ~Accepts(call) /\ UNCHANGED faults
     \/ Accepts(call) /\ Fault
  /\ \/ /\ req[h].op = "delete" /\ call = "remove"
        /\ Advance(h)
     \/ /\ ~(req[h].op = "delete" /\ call = "remove")
        /\ todo' = [todo EXCEPT ![h] = <<>>]
        /\ answer' = [answer EXCEPT ![h] = IF req[h].pc = "call" /\ answer[h] = "none"
                                           THEN "refused" ELSE answer[h]]
  /\ UNCHANGED <<backend, docker>>

-----------------------------------------------------------------------------
(* What fails *)

\* What a canceled goroutine still does: the Docker call it is in, or nothing.
Canceled(calls) == {<<>>} \cup {<<Head(calls)>> : c \in {calls} \ {<<>>}}

\* The daemon is not reached, or the connection breaks before its answer.
Lost(h) ==
  /\ Fault
  /\ req[h].pc = "call" /\ answer[h] # "failed"
  /\ \E rest \in Canceled(todo[h]) : todo' = [todo EXCEPT ![h] = rest]
  /\ answer' = [answer EXCEPT ![h] = "failed"]
  /\ UNCHANGED <<backend, docker>>

\* A statement of the request fails: it ends without writing.
DatabaseFails(h) ==
  /\ Fault
  /\ req[h].pc \in {"read", "write"} \/ (req[h].pc = "call" /\ answer[h] # "none")
  /\ Finish(h)
  /\ cut' = TRUE
  /\ UNCHANGED <<status, suspended, todo, docker>>

\* The Backend stops: its requests are forgotten, its calls are canceled.
BackendRestart ==
  /\ Fault
  /\ \E h \in Processes : req[h].pc # "idle"
  /\ req' = [h \in Processes |-> Idle]
  /\ answer' = [h \in Processes |-> "none"]
  /\ \E inside \in SUBSET {h \in Processes : todo[h] # <<>>} :
       todo' = [h \in Processes |-> IF h \in inside THEN <<Head(todo[h])>> ELSE <<>>]
  /\ cut' = TRUE
  /\ UNCHANGED <<status, suspended, docker>>

\* The daemon stops: its calls end in errors; the containers go on.
DaemonRestart ==
  /\ Fault
  /\ todo' = [h \in Processes |-> <<>>]
  /\ answer' = [h \in Processes |-> IF req[h].pc = "call" /\ answer[h] = "none"
                                    THEN "failed" ELSE answer[h]]
  /\ UNCHANGED <<backend, docker>>

Serve(h) == WriteStatus(h) \/ Answered(h) \/ Settled(h) \/ Deleted(h)
Daemon(h) == DockerStep(h) \/ DockerRefuses(h)

\* What the panel's two cards send, one request per button.
PowerActions(h) == \E operation \in Powers : Power(h, operation)
DangerZone(h) == Suspend \/ Unsuspend \/ Order(h, "delete")

Arrive(h) == PowerActions(h) \/ DangerZone(h) \/ Order(h, "reinstall") \/ Restore(h)

Next ==
  \/ Provision \/ Provisioned
  \/ \E h \in Requests : Arrive(h) \/ Serve(h) \/ RestoreInterrupted(h)
  \/ \E h \in Processes : Daemon(h) \/ Lost(h) \/ DatabaseFails(h)
  \/ BackendRestart \/ DaemonRestart

Spec == Init /\ [][Next]_vars

\* The event loop runs every continuation, and a Docker call returns: the
\* Backend sets no deadline, a daemon that hangs would keep its caller.
FairSpec ==
  /\ Spec
  /\ WF_vars(Provision) /\ WF_vars(Provisioned)
  /\ \A h \in Requests : WF_vars(Serve(h))
  /\ \A h \in Processes : WF_vars(Daemon(h))

-----------------------------------------------------------------------------
(* Properties *)

TypeOK ==
  /\ status \in Statuses
  /\ suspended \in BOOLEAN
  /\ req \in [Processes -> [op: Operations \cup {"none"},
                            pc: {"idle", "read", "write", "call"}]]
  /\ todo \in [Processes -> Seq(DockerCalls)]
  /\ answer \in [Processes -> {"none", "ok", "refused", "failed"}]
  /\ container \in {"none", "stopped", "running"}
  /\ network \in BOOLEAN
  /\ faults \in Nat
  /\ cut \in BOOLEAN

\* A server that says INSTALLING is being provisioned: no request of another
\* kind writes that status back, and only a stop of the Backend or a database
\* error can leave it there for ever.
InstallingExplained ==
  status = "INSTALLING" => req[Provisioning].op = "provision" \/ cut

\* A request that is still to start the container, whether its status write,
\* its daemon call or what is left of a canceled call.
WillStart(h) ==
  \/ req[h].op = "start" /\ req[h].pc = "write"
  \/ \E i \in 1 .. Len(todo[h]) : todo[h][i] = "start"
Down == container # "running" /\ \A h \in Processes : ~WillStart(h)

\* A suspended server that is down stays down: once the start requests that
\* passed the check before the suspension have ended, no request (of a user,
\* the scheduler, a reinstallation, a restore) brings the container up.
SuspensionHolds == [][suspended /\ suspended' /\ Down => Down']_vars

\* Provisioning ends: the status leaves INSTALLING, unless a stop of the
\* Backend or a database error cut the provisioning.
ProvisioningSettles == status = "INSTALLING" ~> status # "INSTALLING" \/ cut

\* A deletion ends with the row gone, also when the daemon is out of reach or
\* Docker refuses: the panel can always get rid of a server.
DeletionEnds ==
  \A h \in Requests : req[h].op = "delete" ~> status = "gone" \/ cut

-----------------------------------------------------------------------------
(* The inductive invariant behind the safety properties                     *)
(* (ServerLifecycleProofs).                                                 *)

\* Only powerAction and restore write a status before their call, only the
\* detached process provisions, and it does nothing else.
ProcessesOK ==
  /\ \A h \in Processes : req[h].pc = "write" => req[h].op \in Powers \cup {"restore"}
  /\ \A h \in Processes : req[h].op = "provision" => h = Provisioning
  /\ req[Provisioning].op \in {"provision", "none"}

LifecycleInv == TypeOK /\ ProcessesOK /\ InstallingExplained

-----------------------------------------------------------------------------
(* What the source says of itself, and does not do *)

\* "Suppression complete (conteneur + reseau)": when the row is gone and
\* nothing is in flight, nothing is left on the node.  A deletion that
\* overtakes the provisioning leaves a container behind.
Quiet == \A h \in Processes : req[h] = Idle /\ todo[h] = <<>>
DeletionComplete == status = "gone" /\ Quiet => container = "none" /\ ~network
=============================================================================
