---------------------------- MODULE GameContainer ----------------------------
(***************************************************************************)
(* What runs inside a game server's container, and the daemon's hold on    *)
(* its console.  The entry point of the image installs the game into the   *)
(* server's data directory at the first start and launches it; Docker      *)
(* starts the container again whenever the process ends by itself          *)
(* (restart policy unless-stopped); the daemon starts, restarts, stops,    *)
(* deletes and recreates the container and keeps one connection to its     *)
(* standard input in a map, through which commands are sent.               *)
(*                                                                         *)
(* The data directory outlives the container and the process, which can    *)
(* end between any two steps: by an error of its own (set -e), a kill, or  *)
(* a stop.  The calls of the daemon are goroutines, a step per Docker call *)
(* or locked section; the mutex covers the map only.                       *)
(***************************************************************************)
EXTENDS Naturals, Sequences

CONSTANTS
  Direct,      \* TYPEs whose jar curl writes in place: PAPER, PURPUR, VANILLA
  Launcher,    \* TYPEs whose installer's jar is moved in place: FABRIC, QUILT
  Scripted,    \* TYPEs whose installer makes run.sh: FORGE, NEOFORGE
  Archived,    \* the Bedrock image: an archive unpacked in place
  Calls,       \* calls the daemon serves at the same time
  MaxCalls,    \* bound: calls the daemon receives
  MaxFaults,   \* bound: failures of the network, of Docker and of processes
  None

Types == Direct \cup Launcher \cup Scripted \cup Archived

ASSUME TypesAssumption ==
  /\ None \notin Types
  /\ Direct \cap Launcher = {} /\ Direct \cap Scripted = {} /\ Direct \cap Archived = {}
  /\ Launcher \cap Scripted = {} /\ Launcher \cap Archived = {} /\ Scripted \cap Archived = {}
ASSUME BoundsAssumption == MaxCalls \in Nat /\ MaxFaults \in Nat

VARIABLES
  config,    \* environment of the container: TYPE, FORCE_REDOWNLOAD, EULA; NoContainer without one
  wanted,    \* Docker restarts the process when it ends
  proc,      \* where the entry point stands
  files,     \* the launchable files of the data directory
  stdin,     \* stdinAttachments[uuid]: "none", "live", or "dead" when its process has ended
  call,      \* per goroutine: the Docker calls left to make, its connection
  received,  \* calls so far
  excused,   \* history: the process was restarted behind the daemon's back, or two starts overlapped
  faults

vars == <<config, wanted, proc, files, stdin, call, received, excused, faults>>

Configs == [type: Types, force: BOOLEAN, eula: BOOLEAN]
NoContainer == [type |-> None, force |-> FALSE, eula |-> FALSE]
Names == {"server.jar", "run.sh", "bedrock_server"}
Contents == [type: Types, whole: BOOLEAN]
Missing == [type |-> None, whole |-> FALSE]

Whole(type) == [type |-> type, whole |-> TRUE]
Torn(type) == [type |-> type, whole |-> FALSE]

\* The Docker calls of each method of dockermgr, in order.
Plan == [start    |-> <<"start", "attach", "store">>,
         restart  |-> <<"restart", "attach", "store">>,
         stop     |-> <<"stop">>,                       \* StopServer and KillServer
         delete   |-> <<"detach", "remove">>,
         recreate |-> <<"detach", "remove", "create">>]

Idle == [todo |-> <<>>, conn |-> "none"]

Init ==
  /\ config \in Configs     \* CreateServer has made the container, on an empty directory
  /\ wanted = FALSE
  /\ proc = "down"
  /\ files = [n \in Names |-> Missing]
  /\ stdin = "none"
  /\ call = [c \in Calls |-> Idle]
  /\ received = 0
  /\ excused = FALSE
  /\ faults = 0

Fault == faults < MaxFaults /\ faults' = faults + 1
Up == proc # "down"

\* The process has ended, or another one begins: what was attached to it is dead.
Cut(conn) == IF conn = "live" THEN "dead" ELSE conn
CutAll(calls) == [c \in Calls |-> [calls[c] EXCEPT !.conn = Cut(@)]]

-----------------------------------------------------------------------------
(* The entry point of the image *)

LaunchFile == IF config.type \in Archived THEN "bedrock_server"
              ELSE IF files["run.sh"] # Missing THEN "run.sh" ELSE "server.jar"

Installed == IF config.type \in Archived THEN files["bedrock_server"] # Missing
             ELSE files["server.jar"] # Missing \/ files["run.sh"] # Missing

\* Mutant: an installation is fetched again whenever the TYPE has changed.
BootOnTypeChange ==
  /\ proc = "boot" /\ config.eula
  /\ IF Installed /\ files[LaunchFile].type = config.type /\ ~config.force
     THEN proc' = "launch" /\ UNCHANGED files
     ELSE /\ proc' = "fetch"
          /\ files' = [files EXCEPT !["server.jar"] = Missing, !["run.sh"] = Missing]
  /\ UNCHANGED <<config, wanted, stdin, call, excused, faults, received>>

\* Mutant: FORCE_REDOWNLOAD removes nothing, and what is there is launched.
BootOverOld ==
  /\ proc = "boot" /\ config.eula
  /\ proc' = IF Installed /\ ~(config.force /\ config.type \in Archived) THEN "launch" ELSE "fetch"
  /\ UNCHANGED <<config, wanted, files, stdin, call, excused, faults, received>>

\* EULA accepted; what is there is kept unless FORCE_REDOWNLOAD, which removes
\* the Java files (the Bedrock script overwrites its own).
Boot ==
  /\ proc = "boot" /\ config.eula
  /\ IF Installed /\ ~config.force
     THEN proc' = "launch" /\ UNCHANGED files
     ELSE /\ proc' = "fetch"
          /\ files' = IF config.type \in Archived THEN files
                      ELSE [files EXCEPT !["server.jar"] = Missing, !["run.sh"] = Missing]
  /\ UNCHANGED <<config, wanted, stdin, call, excused, faults, received>>

\* Mutant: Fabric and Quilt install in place.
FetchInPlace ==
  /\ proc = "fetch"
  /\ proc' = "install"
  /\ files' = [files EXCEPT ![IF config.type \in Archived THEN "bedrock_server" ELSE "server.jar"] =
                              Torn(config.type)]
  /\ UNCHANGED <<config, wanted, stdin, call, excused, faults, received>>

\* Versions and URLs are resolved and the transfer begins.  From here on the
\* target of a direct download, or of an archive being unpacked, is torn; an
\* installer may have written a run.sh that cannot work yet; a launcher's jar
\* is not in place.
Fetch ==
  /\ proc = "fetch"
  /\ proc' = "install"
  /\ \E torn \in CASE config.type \in Direct   -> {{"server.jar"}}
                   [] config.type \in Archived -> {{"bedrock_server"}}
                   [] config.type \in Scripted -> {{}, {"run.sh"}}
                   [] OTHER                    -> {{}} :
       files' = [n \in Names |-> IF n \in torn THEN Torn(config.type) ELSE files[n]]
  /\ UNCHANGED <<config, wanted, stdin, call, excused, faults, received>>

\* The transfer or the installer succeeds.
InPlace(n) ==
  /\ proc = "install"
  /\ proc' = "launch"
  /\ files' = [files EXCEPT ![n] = Whole(config.type)]
  /\ UNCHANGED <<config, wanted, stdin, call, excused, faults, received>>

InstallDirect == config.type \in Direct /\ InPlace("server.jar")
InstallLauncher == config.type \in Launcher /\ InPlace("server.jar")     \* mv server.jar
InstallArchived == config.type \in Archived /\ InPlace("bedrock_server")
\* Forge before 1.17 leaves a universal jar, moved in place, and no run.sh.
InstallScripted ==
  /\ config.type \in Scripted
  /\ \/ InPlace("run.sh")
     \/ files["run.sh"] = Missing /\ InPlace("server.jar")

Install == InstallDirect \/ InstallLauncher \/ InstallScripted \/ InstallArchived

\* exec of what is there: a torn file ends the process at once.
Launch ==
  /\ proc = "launch" /\ files[LaunchFile].whole
  /\ proc' = "serving"
  /\ UNCHANGED <<config, wanted, files, stdin, call, excused, faults, received>>

Dies ==
  /\ proc' = "down"
  /\ stdin' = Cut(stdin)
  /\ call' = CutAll(call)

\* set -e, a missing EULA, a torn file.
Refuses ==
  /\ \/ proc = "boot" /\ ~config.eula
     \/ proc = "launch" /\ ~files[LaunchFile].whole
  /\ Dies
  /\ UNCHANGED <<config, wanted, files, excused, faults, received>>

\* curl, the installer or the game fails, or somebody types "stop".
Exits ==
  /\ proc \in {"fetch", "install", "serving"} /\ Fault
  /\ Dies
  /\ UNCHANGED <<config, wanted, files, excused, received>>

-----------------------------------------------------------------------------
(* Docker *)

\* Mutant: a restart policy that gives up.
AutoRestartOnce ==
  /\ wanted /\ ~Up /\ config # NoContainer /\ ~excused
  /\ proc' = "boot"
  /\ excused' = TRUE
  /\ UNCHANGED <<config, wanted, files, stdin, call, faults, received>>

\* RestartPolicyUnlessStopped
AutoRestart ==
  /\ wanted /\ ~Up /\ config # NoContainer
  /\ proc' = "boot"
  /\ excused' = TRUE
  /\ UNCHANGED <<config, wanted, files, stdin, call, faults, received>>

-----------------------------------------------------------------------------
(* The daemon *)

Attaching(c) == call[c].todo # <<>> /\ Head(call[c].todo) \in {"attach", "store"}
Starting == \E c \in Calls : call[c].todo # <<>> /\ call[c].todo[Len(call[c].todo)] = "store"

Receive(c, method) ==
  /\ call[c].todo = <<>> /\ received < MaxCalls
  /\ received' = received + 1
  /\ call' = [call EXCEPT ![c].todo = Plan[method]]
  /\ UNCHANGED <<config, wanted, proc, files, stdin, excused, faults>>

Doing(c, step) == call[c].todo # <<>> /\ Head(call[c].todo) = step
Done(c) == [call EXCEPT ![c].todo = Tail(@)]
Fails(c) == [call EXCEPT ![c] = Idle]

\* ContainerStart (nothing to do on a running one) and ContainerRestart; the
\* process begins anew, and another call may be about to store its connection.
StartContainer(c) ==
  /\ Doing(c, "start") \/ Doing(c, "restart")
  /\ config # NoContainer
  /\ wanted' = TRUE
  /\ IF Up /\ Doing(c, "start")
     THEN call' = Done(c) /\ UNCHANGED <<proc, stdin, excused>>
     ELSE /\ proc' = "boot"
          /\ stdin' = Cut(stdin)
          /\ call' = CutAll(Done(c))
          /\ excused' = (\E d \in Calls \ {c} : Attaching(d))
  /\ UNCHANGED <<config, files, faults, received>>

\* Without a container every call of this kind is an error.
NoSuchContainer(c) ==
  /\ \E step \in {"start", "restart", "stop", "attach"} : Doing(c, step)
  /\ config = NoContainer
  /\ call' = Fails(c)
  /\ UNCHANGED <<config, wanted, proc, files, stdin, excused, faults, received>>

\* ContainerAttach: a connection to the process that runs now.
Attach(c) ==
  /\ Doing(c, "attach") /\ config # NoContainer
  /\ call' = [call EXCEPT ![c].todo = Tail(@), ![c].conn = IF Up THEN "live" ELSE "dead"]
  /\ UNCHANGED <<config, wanted, proc, files, stdin, excused, faults, received>>

AttachFails(c) ==
  /\ Doing(c, "attach") /\ Fault
  /\ call' = Fails(c)
  /\ excused' = TRUE
  /\ UNCHANGED <<config, wanted, proc, files, stdin, received>>

\* Mutant: the connection that is in the map stays.
StoreOnce(c) ==
  /\ Doing(c, "store")
  /\ stdin' = IF stdin = "none" THEN call[c].conn ELSE stdin
  /\ call' = Fails(c)
  /\ UNCHANGED <<config, wanted, proc, files, excused, faults, received>>

\* The map takes the connection, over the one that is there, which stays open.
Store(c) ==
  /\ Doing(c, "store")
  /\ stdin' = call[c].conn
  /\ call' = Fails(c)
  /\ UNCHANGED <<config, wanted, proc, files, excused, faults, received>>

StopContainer(c) ==
  /\ Doing(c, "stop") /\ config # NoContainer
  /\ wanted' = FALSE
  /\ proc' = "down"
  /\ stdin' = Cut(stdin)
  /\ call' = CutAll(Done(c))
  /\ UNCHANGED <<config, files, excused, faults, received>>

Detach(c) ==
  /\ Doing(c, "detach")
  /\ stdin' = "none"
  /\ call' = Done(c)
  /\ UNCHANGED <<config, wanted, proc, files, excused, faults, received>>

\* ContainerRemove with Force; an absent container is no error.
RemoveContainer(c) ==
  /\ Doing(c, "remove")
  /\ config' = NoContainer
  /\ wanted' = FALSE
  /\ proc' = "down"
  /\ stdin' = Cut(stdin)
  /\ call' = CutAll(Done(c))
  /\ UNCHANGED <<files, excused, faults, received>>

\* ContainerCreate with the ServerSpec of the call, whatever it asks for; a
\* name that is taken is an error.
CreateContainer(c) ==
  /\ Doing(c, "create")
  /\ IF config = NoContainer THEN config' \in Configs ELSE UNCHANGED config
  /\ call' = Fails(c)
  /\ UNCHANGED <<wanted, proc, files, stdin, excused, faults, received>>

\* The map is in memory; the containers go on without the daemon.
DaemonRestarts ==
  /\ Fault
  /\ stdin' = "none"
  /\ call' = [c \in Calls |-> Idle]
  /\ UNCHANGED <<config, wanted, proc, files, excused, received>>

Entrypoint == Boot \/ Fetch \/ Install \/ Launch \/ Refuses
DaemonStep(c) ==
  StartContainer(c) \/ NoSuchContainer(c) \/ Attach(c) \/ Store(c) \/ StopContainer(c)
    \/ Detach(c) \/ RemoveContainer(c) \/ CreateContainer(c)

Next ==
  \/ Entrypoint \/ Exits \/ AutoRestart \/ DaemonRestarts
  \/ \E c \in Calls : DaemonStep(c) \/ AttachFails(c) \/ \E m \in DOMAIN Plan : Receive(c, m)

Spec == Init /\ [][Next]_vars

\* Docker restarts what ends, and a script that runs goes on.
FairSpec == Spec /\ WF_vars(Entrypoint) /\ WF_vars(AutoRestart)

-----------------------------------------------------------------------------
(* Properties *)

TypeOK ==
  /\ config \in Configs \cup {NoContainer}
  /\ wanted \in BOOLEAN
  /\ proc \in {"down", "boot", "fetch", "install", "launch", "serving"}
  /\ files \in [Names -> Contents \cup {Missing}]
  /\ stdin \in {"none", "live", "dead"}
  /\ call \in [Calls -> [todo: Seq({"start", "restart", "attach", "store", "stop", "detach",
                                    "remove", "create"}),
                         conn: {"none", "live", "dead"}]]
  /\ received \in 0 .. MaxCalls
  /\ excused \in BOOLEAN
  /\ faults \in 0 .. MaxFaults

\* The moved-in-place installations (Fabric, Quilt) never leave a launch file
\* that is incomplete, whenever their container is killed and whatever type the
\* directory held before.
MovedInPlaceWhole ==
  \A n \in Names : files[n].type \in Launcher => files[n].whole

\* Types, and launch files that are whole (entrypoint.sh: download to a temporary place, then mv).
ContainerInv == TypeOK /\ MovedInPlaceWhole

\* What is served is complete, and with FORCE_REDOWNLOAD it is what the
\* container asks for: nothing of an earlier TYPE survives, over any number of
\* recreations, kills and restarts.
ServesWhatIsAsked ==
  proc = "serving" =>
    /\ files[LaunchFile].whole
    /\ config.force => files[LaunchFile].type = config.type

\* A complete installation is only ever replaced by a boot with
\* FORCE_REDOWNLOAD: no restart, reinstallation or failure loses it.
InstallationKept ==
  [][\A n \in Names : files[n].whole /\ files'[n] # files[n] => config.force]_vars

\* Unless Docker restarted the process by itself, or two starts overlapped, the
\* connection in the map is to the process that runs once no start is under
\* way: commands reach the game.
ConsoleFollows ==
  stdin = "dead" /\ Up /\ ~Starting => excused

\* A container that is to run ends up serving, whatever failed on the way,
\* unless somebody stops it or its data directory holds a torn installation
\* that nothing fetches again.
ComesUp ==
  (wanted /\ config.eula) ~>
    \/ proc = "serving" \/ ~wanted
    \/ ~config.force /\ Installed /\ ~files[LaunchFile].whole
=============================================================================
