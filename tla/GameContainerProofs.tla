------------------------ MODULE GameContainerProofs ------------------------
(***************************************************************************)
(* What is installed and served in a container, and where the daemon's     *)
(* connection to its standard input leads, for any sets of TYPEs and calls *)
(* and any number of calls and failures.                                   *)
(***************************************************************************)
EXTENDS GameContainer, TLAPS

-----------------------------------------------------------------------------
(* The installation                                                         *)

\* A process runs in a container.
Contained == Up => config \in Configs

\* While the entry point installs, nothing complete is where it installs to, except an
\* archive's earlier content under FORCE_REDOWNLOAD.
Emptied ==
  proc \in {"fetch", "install"} =>
    IF config.type \in Archived
    THEN config.force \/ ~files["bedrock_server"].whole
    ELSE \A n \in {"server.jar", "run.sh"} : files[n] \in {Missing, Torn(config.type)}

\* With FORCE_REDOWNLOAD what is launched is of the container's TYPE; what is served is
\* complete.
Chosen ==
  /\ proc \in {"launch", "serving"} /\ config.force => files[LaunchFile].type = config.type
  /\ proc = "serving" => files[LaunchFile].whole

Installation == Contained /\ Emptied /\ Chosen /\ MovedInPlaceWhole

\* The entry point's files, and everything the installation is about.
InstallVars == <<config, proc, files>>

LEMMA FileFacts ==
  /\ Missing.type \notin Launcher /\ Missing.type = None /\ ~Missing.whole
  /\ \A type \in Types : /\ Whole(type).type = type /\ Whole(type).whole /\ Whole(type) \in Contents
                         /\ Torn(type).type = type /\ ~Torn(type).whole /\ Torn(type) \in Contents
  /\ \A f \in Contents : f.type \in Types /\ f # Missing
BY TypesAssumption DEF Missing, Whole, Torn, Contents, Types

LEMMA InitInstallation == Init => Installation
BY FileFacts
   DEF Init, Installation, Contained, Emptied, Chosen, MovedInPlaceWhole, Up

\* A step that the entry point does not make.
Elsewhere ==
  \/ UNCHANGED InstallVars
  \/ proc' = "down" /\ files' = files
  \/ proc' = "boot" /\ files' = files /\ config' \in Configs

\* Every step but the entry point's ends the process, begins it anew, or leaves it alone.
LEMMA OutsideEntrypoint ==
  ASSUME config \in Configs \cup {NoContainer}, Contained, [Next]_vars
  PROVE  Entrypoint \/ Elsewhere
<1>1. ASSUME NEW c \in Calls, DaemonStep(c)
      PROVE  Elsewhere
  <2>1. CASE StartContainer(c)
    BY <2>1 DEF StartContainer, InstallVars, Elsewhere
  <2>2. CASE NoSuchContainer(c) \/ Attach(c) \/ Store(c) \/ Detach(c)
    BY <2>2 DEF NoSuchContainer, Attach, Store, Detach, InstallVars, Elsewhere
  <2>3. CASE StopContainer(c) \/ RemoveContainer(c)
    BY <2>3 DEF StopContainer, RemoveContainer, Elsewhere
  <2>4. CASE CreateContainer(c)
    <3>1. config = NoContainer => config \notin Configs
      BY TypesAssumption DEF NoContainer, Configs
    <3>. QED
      BY <2>4, <3>1 DEF CreateContainer, Contained, Up, InstallVars, Elsewhere
  <2>. QED
    BY <1>1, <2>1, <2>2, <2>3, <2>4 DEF DaemonStep
<1>2. ASSUME NEW c \in Calls, AttachFails(c) \/ \E m \in DOMAIN Plan : Receive(c, m)
      PROVE  Elsewhere
  BY <1>2 DEF AttachFails, Receive, InstallVars, Elsewhere
<1>3. Exits \/ AutoRestart \/ DaemonRestarts \/ UNCHANGED vars => Elsewhere
  BY DEF Exits, Dies, AutoRestart, DaemonRestarts, InstallVars, vars, Elsewhere
<1>. QED
  BY <1>1, <1>2, <1>3 DEF Next

LEMMA InstallationStep == TypeOK /\ Installation /\ [Next]_vars => Installation'
<1>. SUFFICES ASSUME TypeOK, Installation, [Next]_vars
              PROVE  Installation'
  OBVIOUS
<1>. USE DEF Installation
<1>files. files \in [Names -> Contents \cup {Missing}] /\ config \in Configs \cup {NoContainer}
  BY DEF TypeOK
<1>up. ASSUME Up
       PROVE  config \in Configs /\ config.type \in Types /\ config.force \in BOOLEAN
  BY <1>up DEF Contained, Configs
<1>names. {"server.jar", "run.sh", "bedrock_server"} = Names
  BY DEF Names
<1>1. CASE UNCHANGED InstallVars
  BY <1>1 DEF InstallVars, Contained, Emptied, Chosen, MovedInPlaceWhole, LaunchFile, Up
<1>2. CASE proc' = "down" /\ files' = files
  BY <1>2 DEF Contained, Emptied, Chosen, MovedInPlaceWhole, Up
<1>3. CASE proc' = "boot" /\ files' = files /\ config' \in Configs
  BY <1>3 DEF Contained, Emptied, Chosen, MovedInPlaceWhole, Up
<1>4. CASE Boot
  <2>1. MovedInPlaceWhole' /\ Contained'
    BY <1>4, <1>files, FileFacts DEF Boot, MovedInPlaceWhole, Contained, Up
  <2>2. CASE Installed /\ ~config.force
    BY <1>4, <2>1, <2>2 DEF Boot, Emptied, Chosen
  <2>3. CASE ~(Installed /\ ~config.force)
    <3>1. proc' = "fetch" /\ config' = config
      BY <1>4, <2>3 DEF Boot
    <3>2. CASE config.type \in Archived
      BY <1>4, <2>1, <2>3, <3>1, <3>2, FileFacts DEF Boot, Installed, Emptied, Chosen
    <3>3. CASE config.type \notin Archived
      BY <1>4, <2>1, <2>3, <3>1, <3>3, <1>files, <1>names DEF Boot, Installed, Emptied, Chosen
    <3>. QED
      BY <3>2, <3>3
  <2>. QED
    BY <2>2, <2>3
<1>5. CASE Fetch
  <2>0. Up /\ proc' = "install" /\ config' = config
    BY <1>5 DEF Fetch, Up
  <2>1. PICK torn \in SUBSET Names :
          /\ files' = [n \in Names |-> IF n \in torn THEN Torn(config.type) ELSE files[n]]
          /\ config.type \in Launcher => torn = {}
          /\ config.type \in Archived <=> "bedrock_server" \in torn
    BY <1>5, TypesAssumption DEF Fetch, Names
  <2>2. Contained'
    BY <1>up, <2>0 DEF Contained
  <2>3. MovedInPlaceWhole'
    BY <1>up, <2>0, <2>1, FileFacts DEF MovedInPlaceWhole
  <2>4. Emptied'
    BY <1>up, <1>names, <1>5, <2>0, <2>1, FileFacts DEF Emptied, Fetch
  <2>. QED
    BY <2>0, <2>2, <2>3, <2>4 DEF Chosen
<1>6. CASE Install
  <2>0. PICK n \in Names : InPlace(n) /\ (config.type \in Archived <=> n = "bedrock_server")
    BY <1>6, TypesAssumption
       DEF Install, InstallDirect, InstallLauncher, InstallArchived, InstallScripted, Names
  <2>1. Up /\ proc' = "launch" /\ config' = config /\ files' = [files EXCEPT ![n] = Whole(config.type)]
    BY <2>0 DEF InPlace, Up
  <2>2. Contained' /\ Emptied'
    BY <1>up, <2>1 DEF Contained, Emptied
  <2>3. MovedInPlaceWhole'
    BY <1>up, <1>files, <2>1, FileFacts DEF MovedInPlaceWhole
  <2>4. files'[LaunchFile'].type = config.type
    <3>1. CASE config.type \in Archived
      BY <1>up, <1>files, <1>names, <2>0, <2>1, <3>1, FileFacts DEF LaunchFile
    <3>2. CASE config.type \notin Archived
      <4>1. n \in {"server.jar", "run.sh"}
        BY <2>0, <3>2 DEF Names
      <4>2. files["run.sh"] = Missing \/ files["run.sh"].type = config.type
        BY <1>up, <2>0, <2>1, <3>2, FileFacts DEF Emptied, InPlace
      <4>. QED
        BY <1>up, <1>files, <1>names, <2>1, <3>2, <4>1, <4>2, FileFacts DEF LaunchFile
    <3>. QED
      BY <3>1, <3>2
  <2>. QED
    BY <2>1, <2>2, <2>3, <2>4 DEF Chosen
<1>7. CASE Launch
  BY <1>7 DEF Launch, Contained, Emptied, Chosen, MovedInPlaceWhole, LaunchFile, Up
<1>. QED
  BY <1>1, <1>2, <1>3, <1>4, <1>5, <1>6, <1>7, <1>files, OutsideEntrypoint
     DEF Entrypoint, Elsewhere, Refuses, Dies

\* A step that changes a complete file is one of a container with FORCE_REDOWNLOAD.
LEMMA InstallationKeptStep ==
  ASSUME TypeOK, Installation, [Next]_vars,
         NEW n \in Names, files[n].whole, files'[n] # files[n]
  PROVE  config.force
<1>. USE DEF Installation
<1>files. files \in [Names -> Contents \cup {Missing}] /\ config \in Configs \cup {NoContainer}
  BY DEF TypeOK
<1>names. Names = {"server.jar", "run.sh", "bedrock_server"}
  BY DEF Names
<1>1. CASE Boot
  BY <1>1, <1>files, <1>names, FileFacts DEF Boot, Installed
<1>2. CASE Fetch
  <2>1. config \in Configs /\ config.type \in Types
    BY <1>2 DEF Fetch, Contained, Up, Configs
  <2>2. \/ config.type \in Archived /\ n = "bedrock_server"
        \/ config.type \notin Archived /\ n \in {"server.jar", "run.sh"}
    BY <1>2, TypesAssumption DEF Fetch, Names
  <2>. QED
    BY <1>2, <2>1, <2>2, FileFacts DEF Fetch, Emptied
<1>3. CASE Install
  <2>1. config \in Configs /\ config.type \in Types
    BY <1>3
       DEF Install, InstallDirect, InstallLauncher, InstallArchived, InstallScripted, InPlace,
           Contained, Up, Configs
  <2>2. \/ config.type \in Archived /\ n = "bedrock_server"
        \/ config.type \notin Archived /\ n \in {"server.jar", "run.sh"}
    BY <1>3, <1>files, TypesAssumption
       DEF Install, InstallDirect, InstallLauncher, InstallArchived, InstallScripted, InPlace, Names
  <2>3. proc = "install"
    BY <1>3
       DEF Install, InstallDirect, InstallLauncher, InstallArchived, InstallScripted, InPlace
  <2>. QED
    BY <2>1, <2>2, <2>3, FileFacts DEF Emptied
<1>. QED
  BY <1>1, <1>2, <1>3, <1>files, OutsideEntrypoint
     DEF Entrypoint, Elsewhere, Launch, Refuses, InstallVars

-----------------------------------------------------------------------------
(* The daemon's calls                                                       *)

StepNames == {"start", "restart", "attach", "store", "stop", "detach", "remove", "create"}

\* What a call may have left to do.
Remaining ==
  {<<>>, <<"start", "attach", "store">>, <<"restart", "attach", "store">>, <<"attach", "store">>,
   <<"store">>, <<"stop">>, <<"detach", "remove">>, <<"detach", "remove", "create">>,
   <<"remove">>, <<"remove", "create">>, <<"create">>}

Connections == {"none", "live", "dead"}

CallRecord == [todo: Remaining, conn: Connections]

\* Every call is at a step of its plan.
CallsPlanned == call \in [Calls -> CallRecord]

EndsInStore(todo) == todo # <<>> /\ todo[Len(todo)] = "store"

LEMMA TailOfOne ==
  ASSUME NEW a \in StepNames
  PROVE  /\ <<a>> \in Seq(StepNames) /\ Head(<<a>>) = a /\ Tail(<<a>>) = <<>>
         /\ EndsInStore(<<a>>) <=> a = "store"
BY DEF EndsInStore

LEMMA TailOfTwo ==
  ASSUME NEW a \in StepNames, NEW b \in StepNames
  PROVE  /\ <<a, b>> \in Seq(StepNames) /\ Head(<<a, b>>) = a /\ Tail(<<a, b>>) = <<b>>
         /\ EndsInStore(<<a, b>>) <=> b = "store"
BY DEF EndsInStore

LEMMA TailOfThree ==
  ASSUME NEW a \in StepNames, NEW b \in StepNames, NEW d \in StepNames
  PROVE  /\ <<a, b, d>> \in Seq(StepNames) /\ Head(<<a, b, d>>) = a
         /\ Tail(<<a, b, d>>) = <<b, d>>
         /\ EndsInStore(<<a, b, d>>) <=> d = "store"
BY DEF EndsInStore

LEMMA RemainingFacts ==
  ASSUME NEW todo \in Remaining, todo # <<>>
  PROVE  /\ todo \in Seq(StepNames)
         /\ Head(todo) \in StepNames
         /\ Tail(todo) \in Remaining
         /\ EndsInStore(todo) <=> Head(todo) \in {"start", "restart", "attach", "store"}
         /\ Head(todo) # "store" => (EndsInStore(Tail(todo)) <=> EndsInStore(todo))
         /\ Head(todo) \in {"start", "restart"} => Tail(todo) = <<"attach", "store">>
<1>0. ~EndsInStore(<<>>)
  BY DEF EndsInStore
<1>1. CASE todo \in {<<"store">>, <<"stop">>, <<"remove">>, <<"create">>}
  <2>1. PICK a \in {"store", "stop", "remove", "create"} : todo = <<a>> /\ a \in StepNames
    BY <1>1 DEF StepNames
  <2>2. /\ todo \in Seq(StepNames) /\ Head(todo) = a /\ Tail(todo) = <<>>
        /\ EndsInStore(todo) <=> a = "store"
    BY <2>1, TailOfOne
  <2>3. <<>> \in Remaining
    BY DEF Remaining
  <2>. QED
    BY <1>0, <2>1, <2>2, <2>3
<1>2. CASE todo \in {<<"attach", "store">>, <<"detach", "remove">>, <<"remove", "create">>}
  <2>1. PICK a \in {"attach", "detach", "remove"}, b \in {"store", "remove", "create"} :
          /\ todo = <<a, b>> /\ a \in StepNames /\ b \in StepNames
          /\ (b = "store" <=> a = "attach")
    BY <1>2 DEF StepNames
  <2>2. /\ todo \in Seq(StepNames) /\ Head(todo) = a /\ Tail(todo) = <<b>>
        /\ EndsInStore(todo) <=> b = "store"
    BY <2>1, TailOfTwo
  <2>3. <<b>> \in Remaining /\ (EndsInStore(<<b>>) <=> b = "store")
    BY <2>1, TailOfOne DEF Remaining
  <2>. QED
    BY <2>1, <2>2, <2>3
<1>3. CASE todo \in {<<"start", "attach", "store">>, <<"restart", "attach", "store">>,
                     <<"detach", "remove", "create">>}
  <2>1. PICK a \in {"start", "restart", "detach"}, b \in {"attach", "remove"},
             d \in {"store", "create"} :
          /\ todo = <<a, b, d>> /\ a \in StepNames /\ b \in StepNames /\ d \in StepNames
          /\ (d = "store" <=> a # "detach") /\ (b = "attach" <=> d = "store")
    BY <1>3 DEF StepNames
  <2>2. /\ todo \in Seq(StepNames) /\ Head(todo) = a /\ Tail(todo) = <<b, d>>
        /\ EndsInStore(todo) <=> d = "store"
    BY <2>1, TailOfThree
  <2>3. <<b, d>> \in Remaining /\ (EndsInStore(<<b, d>>) <=> d = "store")
    BY <2>1, TailOfTwo DEF Remaining
  <2>. QED
    BY <2>1, <2>2, <2>3
<1>. QED
  BY <1>1, <1>2, <1>3 DEF Remaining

LEMMA PlansRemain ==
  /\ Idle \in CallRecord
  /\ \A m \in DOMAIN Plan : Plan[m] \in Remaining
BY DEF Idle, Plan, Remaining, Connections, CallRecord

LEMMA CallUpdates ==
  ASSUME NEW r \in CallRecord, NEW x
  PROVE  /\ [r EXCEPT !.todo = x] = [todo |-> x, conn |-> r.conn]
         /\ [r EXCEPT !.conn = x] = [todo |-> r.todo, conn |-> x]
         /\ r.todo \in Remaining /\ r.conn \in Connections
BY DEF CallRecord

LEMMA RecordUpdate ==
  ASSUME NEW t, NEW x, NEW y, NEW r, r = [todo |-> t, conn |-> x]
  PROVE  [r EXCEPT !.conn = y] = [todo |-> t, conn |-> y]
OBVIOUS

\* What a call has left to do after its step.
Rest(c) == Tail(call[c].todo)

\* What the ways to change the calls do to them.
LEMMA CallChanges ==
  ASSUME CallsPlanned, NEW c \in Calls
  PROVE  /\ Fails(c) = [d \in Calls |-> IF d = c THEN Idle ELSE call[d]]
         /\ Done(c) = [d \in Calls |-> IF d = c THEN [todo |-> Rest(c), conn |-> call[c].conn] ELSE call[d]]
         /\ CutAll(call) = [d \in Calls |-> [todo |-> call[d].todo, conn |-> Cut(call[d].conn)]]
         /\ CutAll(Done(c)) = [d \in Calls |->
              [todo |-> IF d = c THEN Rest(c) ELSE call[d].todo, conn |-> Cut(call[d].conn)]]
<1>1. \A d \in Calls : call[d] \in CallRecord
  BY DEF CallsPlanned
<1>2. Done(c) = [d \in Calls |-> IF d = c THEN [todo |-> Rest(c), conn |-> call[c].conn] ELSE call[d]]
  <2>1. [call[c] EXCEPT !.todo = Rest(c)] = [todo |-> Rest(c), conn |-> call[c].conn]
    BY <1>1, CallUpdates
  <2>2. Done(c) = [d \in Calls |-> IF d = c THEN [call[c] EXCEPT !.todo = Rest(c)] ELSE call[d]]
    BY DEF Done, CallsPlanned, Rest
  <2>. QED
    BY <2>1, <2>2
<1>3. CutAll(call) = [d \in Calls |-> [todo |-> call[d].todo, conn |-> Cut(call[d].conn)]]
  <2>1. ASSUME NEW d \in Calls
        PROVE  [call[d] EXCEPT !.conn = Cut(call[d].conn)] = [todo |-> call[d].todo, conn |-> Cut(call[d].conn)]
    <3>1. PICK r \in CallRecord : r = call[d]
      BY <1>1
    <3>2. PICK x : x = Cut(r.conn)
      OBVIOUS
    <3>3. [r EXCEPT !.conn = x] = [todo |-> r.todo, conn |-> x]
      BY CallUpdates
    <3>. QED
      BY <3>1, <3>2, <3>3
  <2>2. CutAll(call) = [d \in Calls |-> [call[d] EXCEPT !.conn = Cut(call[d].conn)]]
    BY DEF CutAll
  <2>. QED
    BY <2>1, <2>2
<1>4. CutAll(Done(c)) = [d \in Calls |->
        [todo |-> IF d = c THEN Rest(c) ELSE call[d].todo, conn |-> Cut(call[d].conn)]]
  <2>1. \A d \in Calls : d # c => [Done(c)[d] EXCEPT !.conn = Cut(@)] = [todo |-> call[d].todo, conn |-> Cut(call[d].conn)]
    BY <1>1, <1>2, CallUpdates
  <2>2. [Done(c)[c] EXCEPT !.conn = Cut(@)] = [todo |-> Rest(c), conn |-> Cut(call[c].conn)]
    <3>1. Done(c)[c] = [todo |-> Rest(c), conn |-> call[c].conn]
      BY <1>2
    <3>2. Done(c)[c].conn = call[c].conn
      BY <3>1
    <3>. QED
      BY <3>1, <3>2, RecordUpdate
  <2>. QED
    BY <1>2, <2>1, <2>2 DEF CutAll
<1>. QED
  BY <1>2, <1>3, <1>4 DEF Fails, CallsPlanned

\* The fields of the calls after a step of c.
LEMMA CallFields ==
  ASSUME CallsPlanned, NEW c \in Calls, NEW d \in Calls
  PROVE  /\ Fails(c)[d] = IF d = c THEN Idle ELSE call[d]
         /\ Done(c)[d].todo = IF d = c THEN Rest(c) ELSE call[d].todo
         /\ Done(c)[d].conn = call[d].conn
         /\ CutAll(Done(c))[d].todo = IF d = c THEN Rest(c) ELSE call[d].todo
         /\ CutAll(Done(c))[d].conn = Cut(call[d].conn)
BY CallChanges

LEMMA CallsStep ==
  ASSUME CallsPlanned, [Next]_vars
  PROVE  CallsPlanned'
<1>call. \A d \in Calls : call[d] \in CallRecord /\ call[d].todo \in Remaining /\ call[d].conn \in Connections
  BY CallUpdates DEF CallsPlanned
<1>tail. \A d \in Calls : call[d].todo # <<>> => Tail(call[d].todo) \in Remaining
  BY <1>call, RemainingFacts
<1>record. \A todo \in Remaining, conn \in Connections :
             /\ [todo |-> todo, conn |-> conn] \in CallRecord
             /\ Cut(conn) \in Connections
  BY DEF CallRecord, Cut, Connections
<1>dies. ASSUME call' = CutAll(call)
         PROVE  CallsPlanned'
  <2>1. ASSUME NEW d \in Calls
        PROVE  [todo |-> call[d].todo, conn |-> Cut(call[d].conn)] \in CallRecord
    BY <1>call, <1>record
  <2>2. CutAll(call) = [d \in Calls |-> [todo |-> call[d].todo, conn |-> Cut(call[d].conn)]]
    <3>. \A d \in Calls : [call[d] EXCEPT !.conn = Cut(@)] = [todo |-> call[d].todo, conn |-> Cut(call[d].conn)]
      BY <1>call, CallUpdates
    <3>. QED
      BY DEF CutAll
  <2>. QED
    BY <1>dies, <2>1, <2>2 DEF CallsPlanned
<1>1. CASE Entrypoint \/ Exits
  <2>1. UNCHANGED call \/ call' = CutAll(call)
    BY <1>1
       DEF Entrypoint, Boot, Fetch, Install, InstallDirect, InstallLauncher, InstallScripted,
           InstallArchived, InPlace, Launch, Refuses, Exits, Dies
  <2>. QED
    BY <1>dies, <2>1 DEF CallsPlanned
<1>2. CASE AutoRestart \/ DaemonRestarts \/ UNCHANGED vars
  BY <1>2, PlansRemain DEF AutoRestart, DaemonRestarts, vars, CallsPlanned
<1>3. ASSUME NEW c \in Calls, Attach(c)
      PROVE  CallsPlanned'
  <2>1. PICK t \in Remaining : t = Rest(c)
    BY <1>3, <1>tail DEF Attach, Doing, Rest
  <2>2. PICK x \in Connections : x = IF Up THEN "live" ELSE "dead"
    BY DEF Connections
  <2>3. call' = [call EXCEPT ![c].todo = t, ![c].conn = x]
    BY <1>3, <2>1, <2>2 DEF Attach, Rest
  <2>. QED
    BY <1>call, <2>3 DEF CallsPlanned, CallRecord
<1>4. ASSUME NEW c \in Calls, NEW m \in DOMAIN Plan, Receive(c, m)
      PROVE  CallsPlanned'
  <2>1. PICK t \in Remaining : t = Plan[m]
    BY PlansRemain
  <2>2. call' = [call EXCEPT ![c].todo = t]
    BY <1>4, <2>1 DEF Receive
  <2>. QED
    BY <1>call, <2>2 DEF CallsPlanned, CallRecord
<1>5. ASSUME NEW c \in Calls, call' = Fails(c)
      PROVE  CallsPlanned'
  BY <1>5, PlansRemain DEF Fails, CallsPlanned
<1>6. ASSUME NEW c \in Calls, call[c].todo # <<>>, call' = Done(c) \/ call' = CutAll(Done(c))
      PROVE  CallsPlanned'
  <2>1. PICK t \in Remaining : t = Rest(c)
    BY <1>6, <1>tail DEF Rest
  <2>2. ASSUME NEW d \in Calls
        PROVE  /\ (IF d = c THEN [todo |-> t, conn |-> call[c].conn] ELSE call[d]) \in CallRecord
               /\ [todo |-> IF d = c THEN t ELSE call[d].todo, conn |-> Cut(call[d].conn)] \in CallRecord
    BY <1>call, <1>record
  <2>3. CASE call' = Done(c)
    <3>1. call' = [d \in Calls |-> IF d = c THEN [todo |-> t, conn |-> call[c].conn] ELSE call[d]]
      BY <2>1, <2>3, CallChanges
    <3>. QED
      BY <2>2, <3>1 DEF CallsPlanned
  <2>4. CASE call' = CutAll(Done(c))
    <3>1. call' = [d \in Calls |->
             [todo |-> IF d = c THEN t ELSE call[d].todo, conn |-> Cut(call[d].conn)]]
      BY <2>1, <2>4, CallChanges
    <3>. QED
      BY <2>2, <3>1 DEF CallsPlanned
  <2>. QED
    BY <1>6, <2>3, <2>4
<1>7. ASSUME NEW c \in Calls, DaemonStep(c) \/ AttachFails(c)
      PROVE  CallsPlanned'
  BY <1>3, <1>5, <1>6, <1>7
     DEF DaemonStep, StartContainer, NoSuchContainer, Store, StopContainer, Detach,
         RemoveContainer, CreateContainer, AttachFails, Doing
<1>. QED
  BY <1>1, <1>2, <1>4, <1>7 DEF Next

-----------------------------------------------------------------------------
(* The connection                                                           *)

\* A call is about to store a connection that is dead only if the process began anew
\* behind its back.
StaleStores ==
  \A c \in Calls : Doing(c, "store") /\ call[c].conn = "dead" /\ Up => excused

LEMMA StartingEnds == Starting <=> \E c \in Calls : EndsInStore(call[c].todo)
BY DEF Starting, EndsInStore

LEMMA PlansBegin ==
  \A m \in DOMAIN Plan : Head(Plan[m]) # "store"
BY DEF Plan

\* The last step of a call decides, and goes with a connection in the map.
LEMMA ConsoleStep ==
  ASSUME CallsPlanned, Contained, config \in Configs \cup {NoContainer}, stdin \in Connections,
         StaleStores, ConsoleFollows, [Next]_vars
  PROVE  StaleStores' /\ ConsoleFollows'
<1>call. \A d \in Calls : call[d].todo \in Remaining /\ call[d].conn \in Connections
  BY CallUpdates DEF CallsPlanned
<1>1. CASE ~Up' \/ excused'
  BY <1>1 DEF StaleStores, ConsoleFollows
<1>2. CASE UNCHANGED <<call, stdin, excused>> /\ (Up' => Up)
  BY <1>2 DEF StaleStores, ConsoleFollows, Doing, Starting
<1>3. CASE DaemonRestarts
  <2>1. stdin' = "none" /\ \A c \in Calls : call'[c].todo = <<>>
    BY <1>3 DEF DaemonRestarts, Idle
  <2>. QED
    BY <2>1 DEF StaleStores, ConsoleFollows, Doing
<1>4. ASSUME NEW c \in Calls, NEW m \in DOMAIN Plan, Receive(c, m)
      PROVE  StaleStores' /\ ConsoleFollows'
  <2>1. PICK t : t = Plan[m]
    OBVIOUS
  <2>2. \A d \in Calls : /\ call'[d].conn = call[d].conn
                         /\ call'[d].todo = IF d = c THEN t ELSE call[d].todo
    BY <1>4, <2>1 DEF Receive, CallsPlanned, CallRecord
  <2>3. UNCHANGED <<proc, excused, stdin>> /\ call[c].todo = <<>> /\ Head(t) # "store"
    BY <1>4, <2>1, PlansBegin DEF Receive
  <2>4. StaleStores'
    BY <2>2, <2>3 DEF StaleStores, Doing, Up
  <2>5. Starting => Starting'
    BY <2>2, <2>3 DEF Starting
  <2>. QED
    BY <2>3, <2>4, <2>5 DEF ConsoleFollows, Up
<1>5. ASSUME NEW c \in Calls, StartContainer(c)
      PROVE  StaleStores' /\ ConsoleFollows'
  <2>1. /\ call[c].todo \in Remaining /\ call[c].todo # <<>>
        /\ Head(call[c].todo) \in {"start", "restart"}
    BY <1>call, <1>5 DEF StartContainer, Doing
  <2>2. PICK t : t = Rest(c)
    OBVIOUS
  <2>3. t = <<"attach", "store">>
    BY <2>1, <2>2, RemainingFacts DEF Rest
  <2>4. t # <<>> /\ Head(t) = "attach" /\ EndsInStore(t) /\ EndsInStore(call[c].todo)
    BY <2>1, <2>3, RemainingFacts, TailOfTwo DEF StepNames
  <2>5. CASE Up /\ Doing(c, "start")
    <3>1. \A d \in Calls : /\ call'[d].conn = call[d].conn
                           /\ call'[d].todo = IF d = c THEN t ELSE call[d].todo
      BY <1>5, <2>2, <2>5, CallFields DEF StartContainer
    <3>2. UNCHANGED <<proc, excused, stdin>>
      BY <1>5, <2>5 DEF StartContainer
    <3>3. Starting'
      BY <2>4, <3>1 DEF Starting, EndsInStore
    <3>. QED
      BY <2>4, <3>1, <3>2, <3>3 DEF StaleStores, ConsoleFollows, Doing, Up
  <2>6. CASE ~(Up /\ Doing(c, "start"))
    <3>1. \A d \in Calls : call'[d].todo = IF d = c THEN t ELSE call[d].todo
      <4>1. call' = CutAll(Done(c))
        BY <1>5, <2>6 DEF StartContainer
      <4>. QED
        BY <2>2, <4>1, CallFields
    <3>2. excused' = \E d \in Calls \ {c} : Attaching(d)
      BY <1>5, <2>6 DEF StartContainer
    <3>3. Starting'
      BY <2>4, <3>1 DEF Starting, EndsInStore
    <3>4. StaleStores'
      BY <2>4, <3>1, <3>2 DEF StaleStores, Doing, Attaching
    <3>. QED
      BY <3>3, <3>4 DEF ConsoleFollows
  <2>. QED
    BY <2>5, <2>6
<1>6. ASSUME NEW c \in Calls, Attach(c)
      PROVE  StaleStores' /\ ConsoleFollows'
  <2>1. PICK t : t = Rest(c)
    OBVIOUS
  <2>2. call[c].todo # <<>> /\ Head(call[c].todo) = "attach"
    BY <1>6 DEF Attach, Doing
  <2>3. EndsInStore(t)
    BY <1>call, <2>1, <2>2, RemainingFacts DEF Rest
  <2>4. \A d \in Calls : /\ call'[d].conn = IF d = c THEN (IF Up THEN "live" ELSE "dead") ELSE call[d].conn
                         /\ call'[d].todo = IF d = c THEN t ELSE call[d].todo
    BY <1>6, <2>1 DEF Attach, CallsPlanned, CallRecord, Rest
  <2>5. UNCHANGED <<proc, excused, stdin>>
    BY <1>6 DEF Attach
  <2>6. Starting'
    BY <2>3, <2>4 DEF Starting, EndsInStore
  <2>. QED
    BY <2>4, <2>5, <2>6 DEF StaleStores, ConsoleFollows, Doing, Up
<1>7. ASSUME NEW c \in Calls, Store(c)
      PROVE  StaleStores' /\ ConsoleFollows'
  <2>1. \A d \in Calls : call'[d] = IF d = c THEN Idle ELSE call[d]
    BY <1>7, CallFields DEF Store
  <2>2. UNCHANGED <<proc, excused>> /\ stdin' = call[c].conn /\ Doing(c, "store")
    BY <1>7 DEF Store
  <2>3. ConsoleFollows'
    BY <2>2 DEF StaleStores, ConsoleFollows, Up
  <2>. QED
    BY <2>1, <2>2, <2>3 DEF StaleStores, Doing, Up, Idle
<1>8. ASSUME NEW c \in Calls, Detach(c)
      PROVE  StaleStores' /\ ConsoleFollows'
  <2>1. PICK t : t = Rest(c)
    OBVIOUS
  <2>2. call[c].todo # <<>> /\ Head(call[c].todo) = "detach"
    BY <1>8 DEF Detach, Doing
  <2>3. ~EndsInStore(t)
    BY <1>call, <2>1, <2>2, RemainingFacts DEF Rest
  <2>4. \A d \in Calls : /\ call'[d].conn = call[d].conn
                         /\ call'[d].todo = IF d = c THEN t ELSE call[d].todo
    BY <1>8, <2>1, CallFields DEF Detach
  <2>5. UNCHANGED <<proc, excused>> /\ stdin' = "none"
    BY <1>8 DEF Detach
  <2>6. t # <<>> => Head(t) # "store"
    BY <1>call, <2>1, <2>2, <2>3, RemainingFacts DEF Rest
  <2>. QED
    BY <2>4, <2>5, <2>6 DEF StaleStores, ConsoleFollows, Doing, Up
<1>9. ASSUME NEW c \in Calls, CreateContainer(c)
      PROVE  StaleStores' /\ ConsoleFollows'
  <2>1. \A d \in Calls : call'[d] = IF d = c THEN Idle ELSE call[d]
    BY <1>9, CallFields DEF CreateContainer
  <2>2. UNCHANGED <<proc, excused, stdin>> /\ call[c].todo # <<>> /\ Head(call[c].todo) = "create"
    BY <1>9 DEF CreateContainer, Doing
  <2>3. ~EndsInStore(call[c].todo)
    BY <1>call, <2>2, RemainingFacts
  <2>4. Starting => Starting'
    BY <2>1, <2>3 DEF Starting, EndsInStore
  <2>. QED
    BY <2>1, <2>2, <2>4 DEF StaleStores, ConsoleFollows, Doing, Up, Idle
<1>10. ASSUME NEW c \in Calls, NoSuchContainer(c) \/ StopContainer(c) \/ RemoveContainer(c) \/ AttachFails(c)
       PROVE  ~Up' \/ excused'
  <2>1. config = NoContainer => ~Up
    BY TypesAssumption DEF Contained, NoContainer, Configs
  <2>. QED
    BY <1>10, <2>1 DEF NoSuchContainer, StopContainer, RemoveContainer, AttachFails, Up
<1>11. Entrypoint \/ Exits \/ AutoRestart \/ UNCHANGED vars =>
         \/ ~Up' \/ excused'
         \/ UNCHANGED <<call, stdin, excused>> /\ (Up' => Up)
  BY DEF Entrypoint, Boot, Fetch, Install, InstallDirect, InstallLauncher, InstallScripted,
         InstallArchived, InPlace, Launch, Refuses, Exits, Dies, AutoRestart, vars, Up
<1>. QED
  BY <1>1, <1>2, <1>3, <1>4, <1>5, <1>6, <1>7, <1>8, <1>9, <1>10, <1>11 DEF Next, DaemonStep

-----------------------------------------------------------------------------
(* Types, and the theorems                                                  *)

\* The types but those of the calls, which CallsPlanned bounds more tightly.
StateTypeOK ==
  /\ config \in Configs \cup {NoContainer}
  /\ wanted \in BOOLEAN
  /\ proc \in {"down", "boot", "fetch", "install", "launch", "serving"}
  /\ files \in [Names -> Contents \cup {Missing}]
  /\ stdin \in Connections
  /\ received \in 0 .. MaxCalls
  /\ excused \in BOOLEAN
  /\ faults \in 0 .. MaxFaults

LEMMA TypeParts == StateTypeOK /\ CallsPlanned => TypeOK
<1>1. Remaining \subseteq Seq(StepNames)
  <2>1. <<>> \in Seq(StepNames)
    OBVIOUS
  <2>. QED
    BY <2>1, RemainingFacts
<1>2. CallRecord \subseteq [todo: Seq(StepNames), conn: Connections]
  BY <1>1 DEF CallRecord
<1>. QED
  BY <1>2 DEF StateTypeOK, CallsPlanned, TypeOK, StepNames, Connections

LEMMA StateTypeStep ==
  ASSUME StateTypeOK, CallsPlanned, Contained, [Next]_vars
  PROVE  StateTypeOK'
<1>cut. Cut(stdin) \in Connections /\ \A c \in Calls : call[c].conn \in Connections
  BY CallUpdates DEF Cut, Connections, StateTypeOK, CallsPlanned
<1>up. Up => config.type \in Types
  BY DEF Contained, Configs
<1>fault. Fault => faults' \in 0 .. MaxFaults
  BY BoundsAssumption DEF Fault, StateTypeOK
<1>1. CASE Boot \/ Launch \/ Refuses \/ Exits \/ AutoRestart
  BY <1>1, <1>cut, <1>fault DEF Boot, Launch, Refuses, Exits, Dies, AutoRestart, StateTypeOK
<1>2. CASE Fetch
  <2>1. PICK torn \in SUBSET Names :
          files' = [n \in Names |-> IF n \in torn THEN Torn(config.type) ELSE files[n]]
    BY <1>2 DEF Fetch, Names
  <2>2. Torn(config.type) \in Contents
    BY <1>2, <1>up, FileFacts DEF Fetch, Up
  <2>3. files' \in [Names -> Contents \cup {Missing}]
    BY <2>1, <2>2 DEF StateTypeOK
  <2>. QED
    BY <1>2, <2>3 DEF Fetch, StateTypeOK
<1>3. CASE Install
  <2>1. PICK n : InPlace(n)
    BY <1>3 DEF Install, InstallDirect, InstallLauncher, InstallArchived, InstallScripted
  <2>2. Whole(config.type) \in Contents
    BY <2>1, <1>up, FileFacts DEF InPlace, Up
  <2>. QED
    BY <2>1, <2>2 DEF InPlace, StateTypeOK
<1>4. CASE DaemonRestarts
  BY <1>4, <1>fault DEF DaemonRestarts, StateTypeOK, Connections
<1>5. ASSUME NEW c \in Calls, DaemonStep(c)
      PROVE  StateTypeOK'
  BY <1>5, <1>cut
     DEF DaemonStep, StartContainer, NoSuchContainer, Attach, Store, StopContainer, Detach,
         RemoveContainer, CreateContainer, StateTypeOK, Connections
<1>6. ASSUME NEW c \in Calls, AttachFails(c)
      PROVE  StateTypeOK'
  BY <1>6, <1>fault DEF AttachFails, StateTypeOK
<1>7. ASSUME NEW c \in Calls, NEW m \in DOMAIN Plan, Receive(c, m)
      PROVE  StateTypeOK'
  BY <1>7, BoundsAssumption DEF Receive, StateTypeOK
<1>8. CASE UNCHANGED vars
  BY <1>8 DEF vars, StateTypeOK
<1>. QED
  BY <1>1, <1>2, <1>3, <1>4, <1>5, <1>6, <1>7, <1>8 DEF Next, Entrypoint

\* What every reachable state satisfies, and each step preserves.
Inv == StateTypeOK /\ CallsPlanned /\ Installation /\ StaleStores /\ ConsoleFollows

LEMMA InitInv == Init => Inv
<1>. SUFFICES ASSUME Init
              PROVE  Inv
  OBVIOUS
<1>1. StateTypeOK
  <2>1. 0 \in 0 .. MaxCalls /\ 0 \in 0 .. MaxFaults
    BY BoundsAssumption
  <2>2. wanted \in BOOLEAN /\ excused \in BOOLEAN
    BY DEF Init
  <2>3. files \in [Names -> Contents \cup {Missing}] /\ stdin \in Connections
    BY DEF Init, Connections
  <2>. QED
    BY <2>1, <2>2, <2>3 DEF Init, StateTypeOK
<1>2. CallsPlanned
  BY PlansRemain DEF Init, CallsPlanned
<1>3. StaleStores /\ ConsoleFollows
  BY DEF Init, StaleStores, ConsoleFollows, Up
<1>. QED
  BY <1>1, <1>2, <1>3, InitInstallation DEF Inv

LEMMA InvStep == Inv /\ [Next]_vars => Inv'
BY TypeParts, StateTypeStep, CallsStep, InstallationStep, ConsoleStep
   DEF Inv, Installation, StateTypeOK

\* Types; and an installation that is moved in place is whole in every state, whenever
\* the container is killed, recreated or given another TYPE.
THEOREM ContainerCorrect == Spec => []ContainerInv
<1>1. Inv => ContainerInv
  BY TypeParts DEF Inv, Installation, ContainerInv
<1>. QED
  BY <1>1, InitInv, InvStep, PTL DEF Spec

\* What is served is complete, and with FORCE_REDOWNLOAD it is of the container's TYPE.
THEOREM ServedCorrect == Spec => []ServesWhatIsAsked
<1>1. Inv => ServesWhatIsAsked
  BY DEF Inv, Installation, Chosen, ServesWhatIsAsked
<1>. QED
  BY <1>1, InitInv, InvStep, PTL DEF Spec

\* Only a container with FORCE_REDOWNLOAD replaces an installation that is complete.
THEOREM InstallationCorrect == Spec => InstallationKept
<1>1. Inv /\ [Next]_vars => [\A n \in Names : files[n].whole /\ files'[n] # files[n] => config.force]_vars
  BY TypeParts, InstallationKeptStep DEF Inv
<1>. QED
  BY <1>1, InitInv, InvStep, PTL DEF Spec, InstallationKept

\* The connection in the map is to the process that runs, once no start is under way,
\* unless Docker restarted the process or two starts overlapped.
THEOREM ConsoleCorrect == Spec => []ConsoleFollows
<1>1. Inv => ConsoleFollows
  BY DEF Inv
<1>. QED
  BY <1>1, InitInv, InvStep, PTL DEF Spec
=============================================================================
