----------------------------- MODULE ServerProofs -----------------------------
(***************************************************************************)
(* One server: its life cycle, for any number of concurrent requests and   *)
(* any number of failures, and its settings, for any number of pages,      *)
(* edits and reinstallations.                                              *)
(***************************************************************************)
EXTENDS ServerLifecycle, ServerSettings, TLAPS

-----------------------------------------------------------------------------
(* The life cycle                                                           *)

\* Every method of the daemon is a sequence of Docker calls, and only start
\* has a start among them: the plan of another operation brings nothing up.
LEMMA PlanFacts ==
  ASSUME NEW operation \in Operations
  PROVE  /\ Plan(operation) \in Seq(DockerCalls)
         /\ operation # "start" =>
              \A i \in 1 .. Len(Plan(operation)) : Plan(operation)[i] # "start"
<1>1. CASE operation = "provision"
  <2>1. Plan(operation) = <<"network", "create">>  BY <1>1 DEF Plan
  <2>2. <<"network", "create">> \in Seq(DockerCalls)  BY DEF DockerCalls
  <2>. QED  BY <2>1, <2>2
<1>2. CASE operation = "reinstall"
  <2>1. Plan(operation) = <<"remove", "network", "create">>  BY <1>2 DEF Plan
  <2>2. <<"remove", "network", "create">> \in Seq(DockerCalls)  BY DEF DockerCalls
  <2>. QED  BY <2>1, <2>2
<1>3. CASE operation = "delete"
  <2>1. Plan(operation) = <<"remove", "removeNetwork">>  BY <1>3 DEF Plan
  <2>2. <<"remove", "removeNetwork">> \in Seq(DockerCalls)  BY DEF DockerCalls
  <2>. QED  BY <2>1, <2>2
<1>4. CASE operation = "restore"
  <2>1. Plan(operation) = <<"extract">>  BY <1>4 DEF Plan
  <2>2. <<"extract">> \in Seq(DockerCalls)  BY DEF DockerCalls
  <2>. QED  BY <2>1, <2>2
<1>5. CASE operation \in Powers
  <2>1. Plan(operation) = <<operation>>  BY <1>5 DEF Plan, Powers
  <2>2. <<operation>> \in Seq(DockerCalls)  BY <1>5 DEF DockerCalls, Powers
  <2>. QED  BY <2>1, <2>2
<1>. QED  BY <1>1, <1>2, <1>3, <1>4, <1>5 DEF Operations

\* What a goroutine has left after its first call is a part of what it had.
LEMMA TailFacts ==
  ASSUME NEW calls \in Seq(DockerCalls), calls # <<>>
  PROVE  /\ Head(calls) \in DockerCalls
         /\ Head(calls) = calls[1] /\ 1 \in 1 .. Len(calls)
         /\ Tail(calls) \in Seq(DockerCalls)
         /\ \A i \in 1 .. Len(Tail(calls)) :
              /\ i + 1 \in 1 .. Len(calls)
              /\ Tail(calls)[i] = calls[i + 1]
         /\ <<Head(calls)>> \in Seq(DockerCalls)
  OBVIOUS

\* A canceled goroutine does nothing it would not have done.
LEMMA CanceledFacts ==
  ASSUME NEW calls \in Seq(DockerCalls), NEW rest \in Canceled(calls)
  PROVE  /\ rest \in Seq(DockerCalls)
         /\ \A i \in 1 .. Len(rest) : \E j \in 1 .. Len(calls) : rest[i] = calls[j]
<1>1. CASE rest = <<>>
  BY <1>1
<1>2. CASE rest = <<Head(calls)>> /\ calls # <<>>
  BY <1>2, TailFacts
<1>. QED
  BY <1>1, <1>2 DEF Canceled

\* The invariant holds of a server whose creation was just committed.
LEMMA InitLifecycle == Init => LifecycleInv
<1>. SUFFICES ASSUME Init PROVE LifecycleInv
  OBVIOUS
<1>1. TypeOK
  <2>1. <<>> \in Seq(DockerCalls)  OBVIOUS
  <2>. QED
    BY <2>1 DEF Init, TypeOK, Statuses, Operations, State, Idle
<1>2. ProcessesOK /\ InstallingExplained
  BY ProcessAssumption DEF Init, ProcessesOK, InstallingExplained, State, Idle, Processes
<1>. QED
  BY <1>1, <1>2 DEF LifecycleInv

\* Every step of a request, of a goroutine or of a failure keeps it.
LEMMA NextLifecycle == LifecycleInv /\ [Next]_vars => LifecycleInv'
<1>. SUFFICES ASSUME LifecycleInv, [Next]_vars
              PROVE  LifecycleInv'
  OBVIOUS
<1>. USE DEF LifecycleInv
<1>typ. TypeOK /\ ProcessesOK /\ InstallingExplained
  OBVIOUS
<1>prov. Provisioning \in Processes
  BY DEF Processes
<1>idle. Idle = [op |-> "none", pc |-> "idle"]
  BY DEF Idle, State
\* What two ways of writing req and answer keep, whoever writes them.
<1>fin. ASSUME NEW h \in Processes, Finish(h)
        PROVE  /\ req' \in [Processes -> [op: Operations \cup {"none"},
                                          pc: {"idle", "read", "write", "call"}]]
               /\ answer' \in [Processes -> {"none", "ok", "refused", "failed"}]
               /\ ProcessesOK'
  <2>1. /\ req' = [req EXCEPT ![h] = [op |-> "none", pc |-> "idle"]]
        /\ answer' = [answer EXCEPT ![h] = "none"]
    BY <1>fin, <1>idle DEF Finish
  <2>2. req' \in [Processes -> [op: Operations \cup {"none"},
                                pc: {"idle", "read", "write", "call"}]]
    BY <2>1, <1>typ DEF TypeOK
  <2>3. \A k \in Processes : k # h => req'[k] = req[k]
    BY <2>1, <1>typ DEF TypeOK
  <2>4. req'[h] = [op |-> "none", pc |-> "idle"]
    BY <2>1, <1>typ DEF TypeOK
  <2>5. ProcessesOK'
    BY <2>3, <2>4, <1>typ, <1>prov DEF ProcessesOK
  <2>. QED
    BY <2>1, <2>2, <2>5, <1>typ DEF TypeOK
<1>call. ASSUME NEW h \in Processes, NEW operation \in Operations, Call(h, operation),
                operation = "provision" <=> h = Provisioning
         PROVE  /\ req' \in [Processes -> [op: Operations \cup {"none"},
                                           pc: {"idle", "read", "write", "call"}]]
                /\ todo' \in [Processes -> Seq(DockerCalls)]
                /\ ProcessesOK'
                /\ req'[h].op = operation
                /\ \A k \in Processes : k # h => req'[k] = req[k]
  <2>1. /\ req' = [req EXCEPT ![h] = [op |-> operation, pc |-> "call"]]
        /\ todo' = [todo EXCEPT ![h] = Plan(operation)]
    BY <1>call DEF Call, State
  <2>2. req' \in [Processes -> [op: Operations \cup {"none"},
                                pc: {"idle", "read", "write", "call"}]]
    BY <2>1, <1>typ DEF TypeOK
  <2>3. \A k \in Processes : k # h => req'[k] = req[k]
    BY <2>1, <1>typ DEF TypeOK
  <2>4. req'[h] = [op |-> operation, pc |-> "call"]
    BY <2>1, <1>typ DEF TypeOK
  <2>5. ProcessesOK'
    BY <2>3, <2>4, <1>call, <1>typ, <1>prov DEF ProcessesOK
  <2>6. todo' \in [Processes -> Seq(DockerCalls)]
    BY <2>1, <1>typ, PlanFacts DEF TypeOK
  <2>. QED
    BY <2>2, <2>3, <2>4, <2>5, <2>6
<1>adv. ASSUME NEW h \in Processes, todo[h] # <<>>, Advance(h)
        PROVE  /\ todo' \in [Processes -> Seq(DockerCalls)]
               /\ answer' \in [Processes -> {"none", "ok", "refused", "failed"}]
  <2>1. todo[h] \in Seq(DockerCalls)  BY <1>typ DEF TypeOK
  <2>2. Tail(todo[h]) \in Seq(DockerCalls)  BY <2>1, <1>adv, TailFacts
  <2>. QED
    BY <2>2, <1>adv, <1>typ DEF Advance, TypeOK
<1>1. CASE Provision
  <2>1. CASE Exists /\ Call(Provisioning, "provision") /\ UNCHANGED answer
    <3>1. "provision" \in Operations  BY DEF Operations
    <3>2. TypeOK'
      BY <1>1, <2>1, <3>1, <1>call, <1>prov, <1>typ DEF Provision, TypeOK, docker
    <3>3. ProcessesOK' /\ req'[Provisioning].op = "provision"
      BY <2>1, <3>1, <1>call, <1>prov
    <3>. QED
      BY <3>2, <3>3 DEF InstallingExplained
  <2>2. CASE ~Exists /\ Finish(Provisioning) /\ UNCHANGED todo
    BY <1>1, <2>2, <1>fin, <1>prov, <1>typ
    DEF Provision, TypeOK, docker, InstallingExplained, Exists
  <2>. QED
    BY <1>1, <2>1, <2>2 DEF Provision
<1>2. CASE Provisioned
  <2>1. status' \in Statuses /\ status' # "INSTALLING" /\ faults' \in Nat
    BY <1>2, <1>typ DEF Provisioned, Fault, TypeOK, Statuses, Exists
  <2>. QED
    BY <1>2, <2>1, <1>fin, <1>prov, <1>typ
    DEF Provisioned, TypeOK, docker, InstallingExplained
<1>3. ASSUME Suspend \/ Unsuspend
      PROVE  LifecycleInv'
  BY <1>3, <1>typ DEF Suspend, Unsuspend, TypeOK, Statuses, docker, ProcessesOK,
                      InstallingExplained
<1>4. ASSUME NEW h \in Requests, Arrive(h) \/ Serve(h) \/ RestoreInterrupted(h)
      PROVE  LifecycleInv'
  <2>h. h \in Processes /\ h # Provisioning
    BY ProcessAssumption DEF Processes
  <2>1. ASSUME NEW operation \in Powers \cup {"restore"},
               Free(h), req' = [req EXCEPT ![h] = State(operation, "write")],
               UNCHANGED <<status, suspended, todo, answer, docker, faults, cut>>
        PROVE  LifecycleInv'
    <3>1. req' = [req EXCEPT ![h] = [op |-> operation, pc |-> "write"]]
      BY <2>1 DEF State
    <3>2. operation \in Operations /\ operation # "provision"
      BY DEF Operations, Powers
    <3>3. TypeOK'
      <4>1. req' \in [Processes -> [op: Operations \cup {"none"},
                                    pc: {"idle", "read", "write", "call"}]]
        BY <3>1, <3>2, <1>typ DEF TypeOK
      <4>. QED
        BY <2>1, <4>1, <1>typ DEF TypeOK, docker
    <3>4. \A k \in Processes : k # h => req'[k] = req[k]
      BY <3>1, <1>typ DEF TypeOK
    <3>5. req'[h] = [op |-> operation, pc |-> "write"]
      BY <3>1, <2>h, <1>typ DEF TypeOK
    <3>6. ProcessesOK'
      BY <3>2, <3>4, <3>5, <2>h, <1>typ, <1>prov DEF ProcessesOK
    <3>. QED
      BY <2>1, <3>3, <3>4, <3>6, <2>h, <1>typ, <1>prov DEF InstallingExplained
  <2>2. ASSUME NEW operation \in Powers, Power(h, operation)
        PROVE  LifecycleInv'
    BY <2>1, <2>2 DEF Power
  <2>3. CASE Restore(h)
    BY <2>1, <2>3 DEF Restore
  <2>4. ASSUME NEW operation \in {"reinstall", "delete"}, Order(h, operation)
        PROVE  LifecycleInv'
    <3>1. operation \in Operations /\ operation # "provision"
      BY DEF Operations
    <3>2. Call(h, operation)
      BY <2>4 DEF Order
    <3>3. TypeOK'
      BY <2>4, <3>1, <3>2, <2>h, <1>call, <1>typ DEF Order, TypeOK, docker
    <3>4. ProcessesOK' /\ req'[Provisioning] = req[Provisioning]
      BY <3>1, <3>2, <2>h, <1>call, <1>prov
    <3>. QED
      BY <2>4, <3>3, <3>4, <1>typ DEF Order, InstallingExplained
  <2>5. CASE WriteStatus(h)
    <3>1. req[h].op \in Powers \cup {"restore"}
      BY <2>5, <2>h, <1>typ DEF WriteStatus, ProcessesOK
    <3>2. req[h].op \in Operations /\ req[h].op # "provision"
      BY <3>1 DEF Operations, Powers
    <3>3. CASE Exists /\ status' = Optimistic(req[h].op) /\ Call(h, req[h].op)
               /\ UNCHANGED answer
      <4>1. status' \in Statuses /\ status' # "INSTALLING"
        BY <3>1, <3>3 DEF Optimistic, Statuses, Powers
      <4>2. TypeOK'
        BY <2>5, <3>2, <3>3, <4>1, <2>h, <1>call, <1>typ DEF WriteStatus, TypeOK, docker
      <4>. QED
        BY <3>2, <3>3, <4>1, <4>2, <2>h, <1>call DEF InstallingExplained
    <3>4. CASE ~Exists /\ Finish(h) /\ UNCHANGED <<status, todo>>
      BY <2>5, <3>4, <2>h, <1>fin, <1>typ
      DEF WriteStatus, TypeOK, docker, InstallingExplained, Exists
    <3>. QED
      BY <2>5, <3>3, <3>4 DEF WriteStatus
  <2>6. CASE Answered(h)
    <3>1. req'[Provisioning] = req[Provisioning]
      BY <2>6, <2>h, <1>typ, <1>prov DEF Answered, Finish, TypeOK
    <3>. QED
      BY <2>6, <3>1, <2>h, <1>fin, <1>typ DEF Answered, TypeOK, docker, InstallingExplained
  <2>7. CASE Settled(h)
    <3>1. req'[Provisioning] = req[Provisioning]
      BY <2>7, <2>h, <1>typ, <1>prov DEF Settled, Finish, TypeOK
    <3>2. status' \in {status, "OFFLINE"}
      BY <2>7 DEF Settled
    <3>3. status' \in Statuses
      BY <3>2, <1>typ DEF TypeOK, Statuses
    <3>. QED
      BY <2>7, <3>1, <3>2, <3>3, <2>h, <1>fin, <1>typ
      DEF Settled, TypeOK, docker, InstallingExplained
  <2>8. CASE Deleted(h)
    BY <2>8, <2>h, <1>fin, <1>typ DEF Deleted, TypeOK, Statuses, docker, InstallingExplained
  <2>9. CASE RestoreInterrupted(h)
    BY <2>9, <2>h, <1>fin, <1>typ
    DEF RestoreInterrupted, Fault, TypeOK, Statuses, docker, InstallingExplained
  <2>. QED
    BY <1>3, <1>4, <2>2, <2>3, <2>4, <2>5, <2>6, <2>7, <2>8, <2>9
    DEF Arrive, PowerActions, DangerZone, Serve
<1>5. ASSUME NEW h \in Processes, Daemon(h) \/ Lost(h) \/ DatabaseFails(h)
      PROVE  LifecycleInv'
  <2>1. CASE DockerStep(h)
    <3>1. container' \in {"none", "stopped", "running"} /\ network' \in BOOLEAN
      BY <2>1, <1>typ DEF DockerStep, ContainerAfter, NetworkAfter, TypeOK
    <3>2. todo[h] # <<>> /\ Advance(h) /\ UNCHANGED <<status, suspended, req, cut, faults>>
      BY <2>1 DEF DockerStep, backend
    <3>. QED
      BY <3>1, <3>2, <1>adv, <1>typ DEF TypeOK, ProcessesOK, InstallingExplained
  <2>2. CASE DockerRefuses(h)
    <3>1. todo[h] # <<>> /\ UNCHANGED <<status, suspended, req, cut, container, network>>
      BY <2>2 DEF DockerRefuses, backend, docker
    <3>2. faults' \in Nat
      BY <2>2, <1>typ DEF DockerRefuses, Fault, TypeOK
    <3>3. /\ todo' \in [Processes -> Seq(DockerCalls)]
          /\ answer' \in [Processes -> {"none", "ok", "refused", "failed"}]
      <4>1. CASE Advance(h)
        BY <4>1, <3>1, <1>adv
      <4>2. CASE /\ todo' = [todo EXCEPT ![h] = <<>>]
                 /\ answer' = [answer EXCEPT ![h] = IF req[h].pc = "call" /\ answer[h] = "none"
                                                    THEN "refused" ELSE answer[h]]
        <5>1. <<>> \in Seq(DockerCalls)  OBVIOUS
        <5>. QED
          BY <4>2, <5>1, <1>typ DEF TypeOK
      <4>. QED
        BY <2>2, <4>1, <4>2 DEF DockerRefuses
    <3>. QED
      BY <3>1, <3>2, <3>3, <1>typ DEF TypeOK, ProcessesOK, InstallingExplained
  <2>3. CASE Lost(h)
    <3>1. PICK rest \in Canceled(todo[h]) : todo' = [todo EXCEPT ![h] = rest]
      BY <2>3 DEF Lost
    <3>2. rest \in Seq(DockerCalls)
      BY CanceledFacts, <1>typ DEF TypeOK
    <3>3. todo' \in [Processes -> Seq(DockerCalls)]
      BY <3>1, <3>2, <1>typ DEF TypeOK
    <3>. QED
      BY <2>3, <3>3, <1>typ
      DEF Lost, Fault, TypeOK, ProcessesOK, InstallingExplained, backend, docker
  <2>4. CASE DatabaseFails(h)
    BY <2>4, <1>fin, <1>typ DEF DatabaseFails, Fault, TypeOK, docker, InstallingExplained
  <2>. QED
    BY <1>5, <2>1, <2>2, <2>3, <2>4 DEF Daemon
<1>6. CASE BackendRestart
  <2>1. PICK inside \in SUBSET {h \in Processes : todo[h] # <<>>} :
          todo' = [h \in Processes |-> IF h \in inside THEN <<Head(todo[h])>> ELSE <<>>]
    BY <1>6 DEF BackendRestart
  <2>2. \A h \in Processes : todo[h] # <<>> => <<Head(todo[h])>> \in Seq(DockerCalls)
    BY TailFacts, <1>typ DEF TypeOK
  <2>3. todo' \in [Processes -> Seq(DockerCalls)]
    BY <2>1, <2>2
  <2>4. req' = [h \in Processes |-> [op |-> "none", pc |-> "idle"]]
    BY <1>6, <1>idle DEF BackendRestart
  <2>5. ProcessesOK'
    BY <2>4, <1>prov DEF ProcessesOK
  <2>. QED
    BY <1>6, <2>3, <2>4, <2>5, <1>typ
    DEF BackendRestart, Fault, TypeOK, docker, InstallingExplained
<1>7. CASE DaemonRestart
  <2>1. <<>> \in Seq(DockerCalls)  OBVIOUS
  <2>. QED
    BY <1>7, <2>1, <1>typ
    DEF DaemonRestart, Fault, TypeOK, ProcessesOK, InstallingExplained, backend, docker
<1>8. CASE UNCHANGED vars
  BY <1>8, <1>typ DEF vars, TypeOK, ProcessesOK, InstallingExplained
<1>. QED
  BY <1>1, <1>2, <1>3, <1>4, <1>5, <1>6, <1>7, <1>8 DEF Next

\* LifecycleInv is inductive.
THEOREM LifecycleInvariant == Spec => []LifecycleInv
BY InitLifecycle, NextLifecycle, PTL DEF Spec

\* Every variable keeps its type.
THEOREM LifecycleTypeCorrect == Spec => []TypeOK
<1>1. LifecycleInv => TypeOK
  BY DEF LifecycleInv
<1>. QED
  BY <1>1, LifecycleInvariant, PTL

\* A server says INSTALLING only while provisionOnNode is at work, or after a
\* failure cut a request short.
THEOREM InstallingCorrect == Spec => []InstallingExplained
<1>1. LifecycleInv => InstallingExplained
  BY DEF LifecycleInv
<1>. QED
  BY <1>1, LifecycleInvariant, PTL

\* No step brings a suspended server up that was down.
LEMMA StepHolds ==
  LifecycleInv /\ [Next]_vars /\ suspended /\ suspended' /\ Down => Down'
<1>. SUFFICES ASSUME LifecycleInv, [Next]_vars, suspended, suspended', Down
              PROVE  Down'
  OBVIOUS
<1>typ. /\ TypeOK /\ ProcessesOK
        /\ container # "running"
        /\ \A h \in Processes : /\ ~(req[h].op = "start" /\ req[h].pc = "write")
                               /\ \A i \in 1 .. Len(todo[h]) : todo[h][i] # "start"
  BY DEF LifecycleInv, Down, WillStart
<1>idle. Idle = [op |-> "none", pc |-> "idle"]
  BY DEF Idle, State
<1>prov. Provisioning \in Processes /\ Requests \subseteq Processes
  BY DEF Processes
\* It is enough that no process gains a start.
<1>down. ASSUME container' # "running",
                \A h \in Processes : ~(req'[h].op = "start" /\ req'[h].pc = "write"),
                \A h \in Processes : \A i \in 1 .. Len(todo'[h]) : todo'[h][i] # "start"
         PROVE  Down'
  BY <1>down DEF Down, WillStart
<1>fin. ASSUME NEW h \in Processes, Finish(h)
        PROVE  \A k \in Processes : ~(req'[k].op = "start" /\ req'[k].pc = "write")
  BY <1>fin, <1>typ, <1>idle DEF Finish, TypeOK
<1>call. ASSUME NEW h \in Processes, NEW operation \in Operations \ {"start"},
                Call(h, operation)
         PROVE  /\ \A k \in Processes : ~(req'[k].op = "start" /\ req'[k].pc = "write")
                /\ \A k \in Processes : \A i \in 1 .. Len(todo'[k]) : todo'[k][i] # "start"
  <2>1. /\ req' = [req EXCEPT ![h] = [op |-> operation, pc |-> "call"]]
        /\ todo' = [todo EXCEPT ![h] = Plan(operation)]
    BY <1>call DEF Call, State
  <2>2. \A i \in 1 .. Len(Plan(operation)) : Plan(operation)[i] # "start"
    BY PlanFacts
  <2>3. \A k \in Processes : ~(req'[k].op = "start" /\ req'[k].pc = "write")
    BY <2>1, <1>typ DEF TypeOK
  <2>4. \A k \in Processes : todo'[k] = todo[k] \/ todo'[k] = Plan(operation)
    BY <2>1, <1>typ DEF TypeOK
  <2>. QED
    BY <2>2, <2>3, <2>4, <1>typ
<1>tail. ASSUME NEW h \in Processes, todo[h] # <<>>, todo' = [todo EXCEPT ![h] = Tail(todo[h])]
         PROVE  \A k \in Processes : \A i \in 1 .. Len(todo'[k]) : todo'[k][i] # "start"
  <2>1. todo[h] \in Seq(DockerCalls)
    BY <1>typ DEF TypeOK
  <2>2. \A i \in 1 .. Len(Tail(todo[h])) : Tail(todo[h])[i] # "start"
    BY <2>1, <1>tail, <1>typ, TailFacts
  <2>3. \A k \in Processes : todo'[k] = todo[k] \/ todo'[k] = Tail(todo[h])
    BY <1>tail, <1>typ DEF TypeOK
  <2>. QED
    BY <2>2, <2>3, <1>typ
<1>1. CASE Provision
  <2>1. container' = container  BY <1>1 DEF Provision, docker
  <2>2. CASE Exists /\ Call(Provisioning, "provision") /\ UNCHANGED answer
    <3>1. "provision" \in Operations \ {"start"}  BY DEF Operations
    <3>. QED  BY <2>1, <2>2, <3>1, <1>call, <1>prov, <1>down, <1>typ
  <2>3. CASE ~Exists /\ Finish(Provisioning) /\ UNCHANGED todo
    BY <2>1, <2>3, <1>fin, <1>prov, <1>down, <1>typ
  <2>. QED
    BY <1>1, <2>2, <2>3 DEF Provision
<1>2. CASE Provisioned
  BY <1>2, <1>fin, <1>prov, <1>down, <1>typ DEF Provisioned, docker
<1>3. ASSUME Suspend \/ Unsuspend
      PROVE  Down'
  BY <1>3, <1>down, <1>typ DEF Suspend, Unsuspend, docker
<1>4. ASSUME NEW h \in Requests, Arrive(h) \/ Serve(h) \/ RestoreInterrupted(h)
      PROVE  Down'
  <2>h. h \in Processes
    BY <1>prov
  <2>1. ASSUME NEW operation \in Powers, Power(h, operation)
        PROVE  Down'
    BY <2>1 DEF Power
  <2>2. CASE Restore(h)
    <3>1. req' = [req EXCEPT ![h] = [op |-> "restore", pc |-> "write"]]
      BY <2>2 DEF Restore, State
    <3>2. \A k \in Processes : ~(req'[k].op = "start" /\ req'[k].pc = "write")
      BY <3>1, <1>typ DEF TypeOK
    <3>. QED
      BY <2>2, <3>2, <1>down, <1>typ DEF Restore, docker
  <2>3. ASSUME NEW operation \in {"reinstall", "delete"}, Order(h, operation)
        PROVE  Down'
    <3>1. operation \in Operations \ {"start"}  BY DEF Operations
    <3>. QED
      BY <2>3, <2>h, <3>1, <1>call, <1>down, <1>typ DEF Order, docker
  <2>4. CASE WriteStatus(h)
    <3>1. req[h].op \in Operations \ {"start"}
      BY <2>4, <2>h, <1>typ DEF WriteStatus, ProcessesOK, Operations, Powers
    <3>. QED
      BY <2>4, <2>h, <3>1, <1>call, <1>fin, <1>down, <1>typ DEF WriteStatus, docker
  <2>5. CASE Answered(h) \/ Settled(h) \/ Deleted(h) \/ RestoreInterrupted(h)
    <3>1. Finish(h) /\ UNCHANGED <<todo, container>>
      BY <2>5 DEF Answered, Settled, Deleted, RestoreInterrupted, docker
    <3>. QED
      BY <2>h, <3>1, <1>fin, <1>down, <1>typ
  <2>. QED
    BY <1>3, <1>4, <2>1, <2>2, <2>3, <2>4, <2>5 DEF Arrive, PowerActions, DangerZone, Serve
<1>5. ASSUME NEW h \in Processes, Daemon(h) \/ Lost(h) \/ DatabaseFails(h)
      PROVE  Down'
  <2>1. CASE DockerStep(h)
    <3>1. todo[h] # <<>> /\ todo[h] \in Seq(DockerCalls) /\ req' = req
          /\ todo' = [todo EXCEPT ![h] = Tail(todo[h])]
      BY <2>1, <1>typ DEF DockerStep, Advance, backend, TypeOK
    <3>2. Head(todo[h]) # "start"
      BY <3>1, <1>typ, TailFacts
    <3>3. container' = ContainerAfter(Head(todo[h]))
      BY <2>1 DEF DockerStep
    <3>4. container' # "running"
      BY <3>2, <3>3, <1>typ DEF ContainerAfter
    <3>. QED
      BY <3>1, <3>4, <1>tail, <1>down, <1>typ
  <2>2. CASE DockerRefuses(h)
    <3>1. todo[h] # <<>> /\ req' = req /\ container' = container
      BY <2>2 DEF DockerRefuses, backend, docker
    <3>2. CASE Advance(h)
      <4>1. todo' = [todo EXCEPT ![h] = Tail(todo[h])]
        BY <3>2 DEF Advance
      <4>. QED
        BY <3>1, <4>1, <1>tail, <1>down, <1>typ
    <3>3. CASE todo' = [todo EXCEPT ![h] = <<>>]
      <4>1. \A k \in Processes : todo'[k] = todo[k] \/ todo'[k] = <<>>
        BY <3>3, <1>typ DEF TypeOK
      <4>2. \A k \in Processes : \A i \in 1 .. Len(todo'[k]) : todo'[k][i] # "start"
        BY <4>1, <1>typ
      <4>. QED
        BY <3>1, <4>2, <1>down, <1>typ
    <3>. QED
      BY <2>2, <3>2, <3>3 DEF DockerRefuses
  <2>3. CASE Lost(h)
    <3>1. PICK rest \in Canceled(todo[h]) : todo' = [todo EXCEPT ![h] = rest]
      BY <2>3 DEF Lost
    <3>2. \A i \in 1 .. Len(rest) : rest[i] # "start"
      BY CanceledFacts, <1>typ DEF TypeOK
    <3>3. \A k \in Processes : todo'[k] = todo[k] \/ todo'[k] = rest
      BY <3>1, <1>typ DEF TypeOK
    <3>4. \A k \in Processes : \A i \in 1 .. Len(todo'[k]) : todo'[k][i] # "start"
      BY <3>2, <3>3, <1>typ
    <3>. QED
      BY <2>3, <3>4, <1>down, <1>typ DEF Lost, backend, docker
  <2>4. CASE DatabaseFails(h)
    BY <2>4, <1>fin, <1>down, <1>typ DEF DatabaseFails, docker
  <2>. QED
    BY <1>5, <2>1, <2>2, <2>3, <2>4 DEF Daemon
<1>6. CASE BackendRestart
  <2>1. PICK inside \in SUBSET {h \in Processes : todo[h] # <<>>} :
          todo' = [h \in Processes |-> IF h \in inside THEN <<Head(todo[h])>> ELSE <<>>]
    BY <1>6 DEF BackendRestart
  <2>2. ASSUME NEW h \in Processes
        PROVE  \A i \in 1 .. Len(todo'[h]) : todo'[h][i] # "start"
    <3>1. todo'[h] \in Canceled(todo[h])
      BY <2>1 DEF Canceled
    <3>2. todo[h] \in Seq(DockerCalls)
      BY <1>typ DEF TypeOK
    <3>3. PICK rest \in Canceled(todo[h]) : todo'[h] = rest
      BY <3>1
    <3>4. \A i \in 1 .. Len(rest) : \E j \in 1 .. Len(todo[h]) : rest[i] = todo[h][j]
      BY <3>2, CanceledFacts
    <3>. QED
      BY <3>3, <3>4, <1>typ
  <2>3. \A h \in Processes : ~(req'[h].op = "start" /\ req'[h].pc = "write")
    BY <1>6, <1>idle DEF BackendRestart
  <2>. QED
    BY <1>6, <2>2, <2>3, <1>down, <1>typ DEF BackendRestart, docker
<1>7. CASE DaemonRestart
  BY <1>7, <1>down, <1>typ DEF DaemonRestart, backend, docker
<1>8. CASE UNCHANGED vars
  BY <1>8, <1>down, <1>typ DEF vars
<1>. QED
  BY <1>1, <1>2, <1>3, <1>4, <1>5, <1>6, <1>7, <1>8 DEF Next

\* A suspended server that is down stays down.
THEOREM SuspensionCorrect == Spec => SuspensionHolds
<1>1. LifecycleInv /\ [Next]_vars => [suspended /\ suspended' /\ Down => Down']_vars
  BY StepHolds
<1>. QED
  BY <1>1, LifecycleInvariant, PTL DEF Spec, SuspensionHolds

-----------------------------------------------------------------------------
(* The settings: the form and the row, the reinstallation and the container *)

\* Per field a value in the row and one that was saved, per page at most one
\* reinstallation, and a PATCH is what the form it came from sends.
Settings ==
  /\ row = [f \in Fields |-> row[f]]
  /\ wanted = [f \in Fields |-> wanted[f]]
  /\ \A p \in Pages : saving[p] # None => saving[p] = Sent(submitted[p].typed)
  /\ saving = [p \in Pages |-> saving[p]]
  /\ submitted = [p \in Pages |-> submitted[p]]

\* Unless it has met another or failed, a reinstallation is alone, and carries the
\* configuration that the settings show until that changes.
Reinstallation(x) ==
  /\ x = [stage |-> x.stage, config |-> x.config]
  /\ x.stage \in {"idle", "read", "removed"}
  /\ x.stage = "idle" <=> x = NoReinstall
Reinstallations ==
  /\ reinstalling = [p \in Pages |-> reinstalling[p]]
  /\ \A p \in Pages : Reinstallation(reinstalling[p])
  /\ crossed \/ \A p, q \in Pages : reinstalling[p] # NoReinstall /\ reinstalling[q] # NoReinstall => p = q
  /\ crossed \/ changed \/ \A p \in Pages : reinstalling[p] # NoReinstall => reinstalling[p].config = Config

SettingsInv == Settings /\ SavedValuesKept /\ Reinstallations /\ ReinstallApplies

LEMMA SettingsInitInv == SettingsInit => SettingsInv
<1>. SUFFICES ASSUME SettingsInit
              PROVE  SettingsInv
  OBVIOUS
<1>1. Settings
  BY DEF SettingsInit, Settings
<1>2. SavedValuesKept
  BY DEF SettingsInit, SavedValuesKept
<1>3. Reinstallations
  BY DEF SettingsInit, Reinstallations, Reinstallation, NoReinstall
<1>4. ReinstallApplies
  BY DEF SettingsInit, ReinstallApplies
<1>. QED
  BY <1>1, <1>2, <1>3, <1>4 DEF SettingsInv

\* The form and the row.
LEMMA RowKept ==
  ASSUME Settings, SavedValuesKept, UNCHANGED <<row, wanted, excused, saving, submitted>>
  PROVE  Settings' /\ SavedValuesKept'
BY DEF Settings, SavedValuesKept

LEMMA SaveKeeps ==
  ASSUME Settings, SavedValuesKept, NEW p \in Pages, Save(p)
  PROVE  Settings' /\ SavedValuesKept'
<1>1. PICK sent : sent = Sent(form[p])
  OBVIOUS
<1>2. PICK values : values = form[p]
  OBVIOUS
<1>3. PICK copy : copy = [from |-> opened[p], typed |-> values]
  OBVIOUS
<1>4. /\ saving' = [saving EXCEPT ![p] = sent] /\ submitted' = [submitted EXCEPT ![p] = copy]
      /\ UNCHANGED <<row, wanted, excused>>
  BY <1>1, <1>2, <1>3 DEF Save, data
<1>5. sent = Sent(copy.typed)
  BY <1>1, <1>2, <1>3
<1>6. \A q \in Pages : saving'[q] # None => saving'[q] = Sent(submitted'[q].typed)
  BY <1>4, <1>5 DEF Settings
<1>7. /\ saving' = [q \in Pages |-> saving'[q]]
      /\ submitted' = [q \in Pages |-> submitted'[q]]
  BY <1>4 DEF Settings
<1>8. SavedValuesKept'
  BY <1>4 DEF SavedValuesKept
<1>. QED
  BY <1>4, <1>6, <1>7, <1>8 DEF Settings

\* The end of a PATCH.
LEMMA SubmittedEnds ==
  ASSUME Settings, NEW p \in Pages,
         saving' = [saving EXCEPT ![p] = None], submitted' = [submitted EXCEPT ![p] = None]
  PROVE  /\ \A q \in Pages : saving'[q] # None => saving'[q] = Sent(submitted'[q].typed)
         /\ saving' = [q \in Pages |-> saving'[q]]
         /\ submitted' = [q \in Pages |-> submitted'[q]]
BY DEF Settings

LEMMA RefusedKeeps ==
  ASSUME Settings, SavedValuesKept, NEW p \in Pages, Refused(p)
  PROVE  Settings' /\ SavedValuesKept'
<1>1. /\ saving' = [saving EXCEPT ![p] = None] /\ submitted' = [submitted EXCEPT ![p] = None]
      /\ UNCHANGED <<row, wanted, excused>>
  BY DEF Refused, data
<1>2. SavedValuesKept'
  BY <1>1 DEF SavedValuesKept
<1>. QED
  BY <1>1, <1>2, SubmittedEnds DEF Settings

\* The form gives back an environment of which it alters and drops no line.
LEMMA FaithfulHeld ==
  ASSUME NEW text, Faithful(text)
  PROVE  TextToEnvironment(text) = text
<1>1. \A line \in text : line.written \notin Altered /\ line.written \notin Dropped
  BY DEF Faithful
<1>2. {l \in text : l.written \notin Dropped} = text
  BY <1>1
<1>. QED
  BY <1>1, <1>2 DEF TextToEnvironment

\* A field of a form whose loss nothing accounts for: it is as typed, and as before
\* unless it was typed.
LEMMA UpdateWrites ==
  ASSUME Settings, NEW p \in Pages, Update(p), NEW f \in Fields \ Losses(p)
  PROVE  /\ row'[f] = submitted[p].typed[f]
         /\ submitted[p].from[f] = row[f]
<1>1. PICK typed : typed = submitted[p].typed
  OBVIOUS
<1>2. /\ submitted[p].from[f] = row[f]
      /\ f # "description" \/ typed[f] # Empty
      /\ f # "environment" \/ Faithful(typed[f])
  BY <1>1 DEF Losses
<1>3. saving[p] = Sent(typed) /\ row' = Written(Sent(typed))
  BY <1>1 DEF Update, Settings
<1>4. f \in DOMAIN Sent(typed) /\ Sent(typed)[f] = typed[f]
  <2>1. CASE f = "environment"
    BY <1>2, <2>1, FaithfulHeld DEF Sent
  <2>2. CASE f # "environment"
    BY <1>2, <2>2 DEF Sent
  <2>. QED
    BY <2>1, <2>2
<1>5. row'[f] = Sent(typed)[f]
  BY <1>3, <1>4 DEF Written
<1>. QED
  BY <1>1, <1>2, <1>4, <1>5

LEMMA UpdateKeeps ==
  ASSUME Settings, SavedValuesKept, NEW p \in Pages, Update(p)
  PROVE  Settings' /\ SavedValuesKept'
<1>1. /\ saving' = [saving EXCEPT ![p] = None] /\ submitted' = [submitted EXCEPT ![p] = None]
      /\ row' = Written(saving[p])
      /\ wanted' = [f \in Fields |-> IF f \in TypedIn(p) THEN submitted[p].typed[f] ELSE wanted[f]]
      /\ excused' = (excused \ TypedIn(p)) \cup Losses(p)
  BY DEF Update
<1>2. row' = [f \in Fields |-> row'[f]] /\ wanted' = [f \in Fields |-> wanted'[f]]
  BY <1>1 DEF Written
<1>3. ASSUME NEW f \in Fields, f \notin excused'
      PROVE  row'[f] = wanted'[f]
  <2>1. f \notin Losses(p)
    BY <1>1, <1>3
  <2>2. row'[f] = submitted[p].typed[f] /\ submitted[p].from[f] = row[f]
    BY <2>1, UpdateWrites
  <2>3. CASE f \in TypedIn(p)
    BY <1>1, <2>2, <2>3
  <2>4. CASE f \notin TypedIn(p)
    <3>1. row'[f] = row[f]
      BY <2>2, <2>4 DEF TypedIn
    <3>2. row[f] = wanted[f]
      BY <1>1, <1>3, <2>4 DEF SavedValuesKept
    <3>. QED
      BY <1>1, <2>4, <3>1, <3>2
  <2>. QED
    BY <2>3, <2>4
<1>4. SavedValuesKept'
  BY <1>3 DEF SavedValuesKept
<1>. QED
  BY <1>1, <1>2, <1>4, SubmittedEnds DEF Settings

LEMMA ApiKeeps ==
  ASSUME Settings, SavedValuesKept, NEW v, UpdateByApi(v)
  PROVE  Settings' /\ SavedValuesKept'
<1>1. /\ row' = [row EXCEPT !["environment"] = v]
      /\ wanted' = [wanted EXCEPT !["environment"] = v]
      /\ excused' = excused \ {"environment"} /\ UNCHANGED <<saving, submitted>>
  BY DEF UpdateByApi, edited
<1>2. \A f \in Fields : IF f = "environment" THEN row'[f] = v /\ wanted'[f] = v
                                             ELSE row'[f] = row[f] /\ wanted'[f] = wanted[f]
  BY <1>1 DEF Settings
<1>3. SavedValuesKept'
  BY <1>1, <1>2 DEF SavedValuesKept
<1>. QED
  BY <1>1, <1>3 DEF Settings

\* The reinstallation and the container.
LEMMA ReinstallKept ==
  ASSUME Reinstallations, ReinstallApplies, UNCHANGED <<reinstalling, deployed, crossed>>,
         changed => changed', changed' \/ Config' = Config
  PROVE  Reinstallations' /\ ReinstallApplies'
BY DEF Reinstallations, ReinstallApplies, Reinstallation

\* Fields and ports are what a configuration is made of.
LEMMA ConfigKept ==
  ASSUME UNCHANGED allocations, \A f \in ConfigFields : row'[f] = row[f]
  PROVE  Config' = Config
BY DEF Config

LEMMA ReinstallKeeps ==
  ASSUME Reinstallations, ReinstallApplies, NEW p \in Pages, Reinstall(p)
  PROVE  Reinstallations' /\ ReinstallApplies'
<1>1. PICK x : x = [stage |-> "read", config |-> Config]
  OBVIOUS
<1>2. /\ reinstalling' = [reinstalling EXCEPT ![p] = x]
      /\ crossed' = \E q \in Pages : reinstalling[q] # NoReinstall
      /\ UNCHANGED <<row, allocations, deployed>>
  BY <1>1 DEF Reinstall
<1>3. Config' = Config
  BY <1>2 DEF Config
<1>4. x # NoReinstall /\ x.config = Config /\ Reinstallation(x)
  BY <1>1 DEF Reinstallation, NoReinstall
<1>5. /\ reinstalling' = [q \in Pages |-> reinstalling'[q]]
      /\ \A q \in Pages : reinstalling'[q] = IF q = p THEN x ELSE reinstalling[q]
  BY <1>2 DEF Reinstallations
<1>6. Reinstallations'
  BY <1>2, <1>3, <1>4, <1>5 DEF Reinstallations, Reinstallation
<1>7. ReinstallApplies'
  BY <1>4, <1>5 DEF ReinstallApplies
<1>. QED
  BY <1>6, <1>7

LEMMA RemoveKeeps ==
  ASSUME Reinstallations, ReinstallApplies, NEW p \in Pages, ContainerRemove(p)
  PROVE  Reinstallations' /\ ReinstallApplies'
<1>1. PICK x : x = [reinstalling[p] EXCEPT !.stage = "removed"]
  OBVIOUS
<1>2. /\ reinstalling' = [reinstalling EXCEPT ![p] = x] /\ reinstalling[p].stage = "read"
      /\ UNCHANGED <<row, allocations, crossed, changed>>
  BY <1>1 DEF ContainerRemove, data, Reinstallations
<1>3. Config' = Config
  BY <1>2 DEF Config
<1>4. reinstalling[p] = [stage |-> reinstalling[p].stage, config |-> reinstalling[p].config]
  BY DEF Reinstallations, Reinstallation
<1>5. x = [stage |-> "removed", config |-> reinstalling[p].config]
  BY <1>1, <1>4
<1>6. x # NoReinstall /\ x.config = reinstalling[p].config /\ Reinstallation(x)
  BY <1>5 DEF Reinstallation, NoReinstall
<1>7. reinstalling[p] # NoReinstall
  BY <1>2 DEF NoReinstall
<1>8. /\ reinstalling' = [q \in Pages |-> reinstalling'[q]]
      /\ \A q \in Pages : reinstalling'[q] = IF q = p THEN x ELSE reinstalling[q]
  BY <1>2 DEF Reinstallations
<1>9. Reinstallations'
  BY <1>2, <1>3, <1>6, <1>7, <1>8 DEF Reinstallations, Reinstallation
<1>10. ReinstallApplies'
  BY <1>6, <1>8 DEF ReinstallApplies
<1>. QED
  BY <1>9, <1>10

\* A reinstallation ends.
LEMMA EndKeeps ==
  ASSUME Reinstallations, NEW p \in Pages, reinstalling' = [reinstalling EXCEPT ![p] = NoReinstall],
         crossed' \/ ~crossed, UNCHANGED <<row, allocations, changed>>
  PROVE  /\ Reinstallations' /\ Config' = Config
         /\ \A q \in Pages : reinstalling'[q] = IF q = p THEN NoReinstall ELSE reinstalling[q]
<1>1. /\ reinstalling' = [q \in Pages |-> reinstalling'[q]]
      /\ \A q \in Pages : reinstalling'[q] = IF q = p THEN NoReinstall ELSE reinstalling[q]
  BY DEF Reinstallations
<1>2. Config' = Config
  BY DEF Config
<1>3. Reinstallation(NoReinstall)
  BY DEF Reinstallation, NoReinstall
<1>4. Reinstallations'
  BY <1>1, <1>2, <1>3 DEF Reinstallations, Reinstallation
<1>. QED
  BY <1>1, <1>2, <1>4

LEMMA CreateServerKeeps ==
  ASSUME Reinstallations, ReinstallApplies, NEW p \in Pages, CreateServer(p)
  PROVE  Reinstallations' /\ ReinstallApplies'
<1>1. /\ reinstalling' = [reinstalling EXCEPT ![p] = NoReinstall] /\ reinstalling[p].stage = "removed"
      /\ deployed' = reinstalling[p].config /\ UNCHANGED <<row, allocations, crossed, changed>>
  BY DEF CreateServer, data
<1>2. reinstalling[p] # NoReinstall
  BY <1>1 DEF NoReinstall
<1>3. Reinstallations' /\ Config' = Config
  BY <1>1, EndKeeps
<1>4. crossed \/ changed \/ reinstalling[p].config = Config
  BY <1>2 DEF Reinstallations
<1>. QED
  BY <1>1, <1>3, <1>4 DEF ReinstallApplies

LEMMA ReinstallFailsKeeps ==
  ASSUME Reinstallations, NEW p \in Pages, ReinstallFails(p)
  PROVE  Reinstallations' /\ ReinstallApplies'
<1>1. /\ reinstalling' = [reinstalling EXCEPT ![p] = NoReinstall] /\ crossed'
      /\ UNCHANGED <<row, allocations, changed>>
  BY DEF ReinstallFails, data
<1>. QED
  BY <1>1, EndKeeps DEF ReinstallApplies

LEMMA SettingsNextInv == SettingsInv /\ [SettingsNext]_settingsVars => SettingsInv'
<1>. SUFFICES ASSUME SettingsInv, [SettingsNext]_settingsVars
              PROVE  SettingsInv'
  OBVIOUS
<1>. USE DEF SettingsInv
\* A step that touches neither the row, a PATCH on its way nor a reinstallation.
<1>1. ASSUME UNCHANGED <<data, saving, submitted, built>>
      PROVE  SettingsInv'
  <2>1. UNCHANGED <<row, wanted, excused, saving, submitted>>
    BY <1>1 DEF data
  <2>2. UNCHANGED <<row, allocations, changed, reinstalling, deployed, crossed>>
    BY <1>1 DEF data, built
  <2>. QED
    BY <2>1, <2>2, RowKept, ReinstallKept, ConfigKept
<1>2. ASSUME NEW p \in Pages, GeneralSettings(p)
      PROVE  SettingsInv'
  <2>1. CASE Update(p)
    <3>1. UNCHANGED <<allocations, reinstalling, deployed, crossed>>
      BY <2>1 DEF Update, built
    <3>2. changed' = (changed \/ \E f \in ConfigFields : row'[f] # row[f])
      BY <2>1 DEF Update
    <3>3. changed' \/ Config' = Config
      BY <3>1, <3>2, ConfigKept
    <3>. QED
      BY <2>1, <3>1, <3>2, <3>3, UpdateKeeps, ReinstallKept
  <2>2. CASE Save(p) \/ Refused(p)
    <3>1. UNCHANGED <<row, allocations, changed, reinstalling, deployed, crossed>>
      BY <2>2 DEF Save, Refused, data, built
    <3>. QED
      BY <2>2, <3>1, SaveKeeps, RefusedKeeps, ReinstallKept, ConfigKept
  <2>3. CASE Open(p) \/ Close(p) \/ \E f \in Fields : \E v \in Typed(f) : Type(p, f, v)
    BY <1>1, <2>3 DEF Open, Close, Type
  <2>. QED
    BY <1>2, <2>1, <2>2, <2>3 DEF GeneralSettings
<1>3. ASSUME NEW p \in Pages, AllocationsSettings(p)
      PROVE  SettingsInv'
  <2>1. /\ UNCHANGED <<row, wanted, excused, saving, submitted, reinstalling, deployed, crossed>>
        /\ changed' = TRUE
    BY <1>3 DEF AllocationsSettings, AddAllocation, RemoveAllocation, edited, built
  <2>. QED
    BY <2>1, RowKept, ReinstallKept
<1>4. ASSUME NEW p \in Pages, ReinstallSettings(p)
      PROVE  SettingsInv'
  <2>1. UNCHANGED <<row, wanted, excused, saving, submitted>>
    BY <1>4 DEF ReinstallSettings, Reinstall, ContainerRemove, CreateServer, ReinstallFails, data, edited
  <2>2. Reinstallations' /\ ReinstallApplies'
    BY <1>4, ReinstallKeeps, RemoveKeeps, CreateServerKeeps, ReinstallFailsKeeps DEF ReinstallSettings
  <2>. QED
    BY <2>1, <2>2, RowKept
<1>5. CASE \E v \in ApiEnvironments : UpdateByApi(v)
  <2>1. UNCHANGED <<reinstalling, deployed, crossed>> /\ changed' = TRUE
    BY <1>5 DEF UpdateByApi, built
  <2>. QED
    BY <1>5, <2>1, ApiKeeps, ReinstallKept
<1>6. CASE SubUsersSettings
  <2>1. /\ UNCHANGED <<row, wanted, excused, saving, submitted>>
        /\ UNCHANGED <<allocations, changed, reinstalling, deployed, crossed>>
    BY <1>6 DEF SubUsersSettings, AddSubUser, RemoveSubUser, edited, built
  <2>. QED
    BY <2>1, RowKept, ReinstallKept, ConfigKept
<1>7. ASSUME NEW p \in Pages, Fetch(p)
      PROVE  SettingsInv'
  BY <1>1, <1>7 DEF Fetch, edited
<1>8. CASE UNCHANGED settingsVars
  BY <1>1, <1>8 DEF settingsVars, edited
<1>. QED
  BY <1>2, <1>3, <1>4, <1>5, <1>6, <1>7, <1>8 DEF SettingsNext, SettingsPanel

LEMMA SettingsSpecInv == SettingsSpec => []SettingsInv
BY SettingsInitInv, SettingsNextInv, PTL DEF SettingsSpec

\* Whatever is typed, saved, fetched and reinstalled in whatever order, a value that was
\* saved stays in the row (PATCH /servers/:id), but for the forms filled before, the
\* emptied description and the environment of several lines.
THEOREM SettingsCorrect == SettingsSpec => []SavedValuesKept
<1>1. SettingsInv => SavedValuesKept
  BY DEF SettingsInv
<1>. QED
  BY <1>1, SettingsSpecInv, PTL

\* A reinstallation that met no other and did not fail (POST /servers/:id/reinstall) leaves
\* a container with the configuration that the settings show, unless they changed since.
THEOREM ReinstallCorrect == SettingsSpec => []ReinstallApplies
<1>1. SettingsInv => ReinstallApplies
  BY DEF SettingsInv
<1>. QED
  BY <1>1, SettingsSpecInv, PTL
=============================================================================
