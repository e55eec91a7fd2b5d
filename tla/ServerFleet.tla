----------------------------- MODULE ServerFleet -----------------------------
(***************************************************************************)
(* Placement of game servers on nodes, as the Backend's ServersService and *)
(* NodesService do it against PostgreSQL: servers.create / delete,         *)
(* addAllocation / removeAllocation, and nodes.create / setMaintenance /   *)
(* healthCheck / delete.                                                   *)
(*                                                                         *)
(* Every HTTP request in flight is a handler.  A handler runs one step per *)
(* await: what it read before an await may be stale when it writes.        *)
(* PostgreSQL runs at READ COMMITTED: a statement sees the rows committed  *)
(* before it, an UPDATE of a node row holds the row until the transaction  *)
(* ends, and an INSERT that breaks a unique index or a foreign key rolls   *)
(* its transaction back.                                                   *)
(***************************************************************************)
EXTENDS Integers, FiniteSets

CONSTANTS
  Nodes,           \* ids of nodes; an id is used once
  Servers,         \* ids of servers; an id is used once
  Handlers,        \* requests the Backend serves at the same time
  Resources,       \* {"cpu", "memory", "disk"} in the code
  Memory,          \* the resource findEligibleNode sorts by
  Physical,        \* [Nodes -> [Resources -> Nat]]: cpuCores*100, memoryMb, diskMb
  Overallocate,    \* [Nodes -> [Resources -> Nat]]: overallocate...Pct
  Demand,          \* [Servers -> [Resources -> Nat]]: the limits the client asks for
  MaxDemand,       \* the largest limit CreateServerDto admits
  FirstPort,       \* PORT_RANGE_START
  LastPort,        \* PORT_RANGE_END
  None             \* SQL NULL, and "no such thing"

Ports == FirstPort .. LastPort
Generations == 0 .. Cardinality(Handlers)

ASSUME FiniteAssumption ==
  IsFiniteSet(Nodes) /\ IsFiniteSet(Servers) /\ IsFiniteSet(Handlers) /\ Handlers # {}
ASSUME ResourceAssumption ==
  /\ Memory \in Resources
  /\ Physical \in [Nodes -> [Resources -> Nat]]
  /\ Overallocate \in [Nodes -> [Resources -> Nat]]
  /\ MaxDemand \in Nat
  /\ Demand \in [Servers -> [Resources -> 0 .. MaxDemand]]
ASSUME PortAssumption == FirstPort \in Nat /\ LastPort \in Nat
ASSUME NoneAssumption ==
  /\ None \notin Nodes \cup Servers \cup Handlers \cup Ports
  /\ None \notin Nodes \X Ports

VARIABLES
  present,   \* nodes that have a row
  status,    \* nodes.status
  maint,     \* nodes.maintenanceMode
  alloc,     \* nodes.{cpuAllocatedPct, memoryAllocatedMb, diskAllocatedMb}
  host,      \* servers.nodeId; None when the server has no row
  rows,      \* network_allocations
  lock,      \* the handler whose transaction holds the node's row, or None
  used,      \* server and node ids that were handed out
  req        \* per handler: its request, what it read, where it stands

vars == <<present, status, maint, alloc, host, rows, lock, used, req>>

(***************************************************************************)
(* A row of network_allocations.  Its uuid is <<node, port, gen>>: rows    *)
(* that follow one another on the same port are told apart by gen as long  *)
(* as a request in flight refers to the older one.                         *)
(***************************************************************************)
Row == [node: Nodes, port: Ports, gen: Generations,
        server: Servers \cup {None}, primary: BOOLEAN]

Allocation(n, p, g, s, primary) ==
  [node |-> n, port |-> p, gen |-> g, server |-> s, primary |-> primary]
Orphan(row) == Allocation(row.node, row.port, row.gen, None, row.primary)

Ask(pc, s, n, p, g) == [pc |-> pc, server |-> s, node |-> n, port |-> p, gen |-> g]
Idle == Ask("idle", None, None, None, 0)

Request ==
  [pc: {"idle", "createLock", "createPort", "createCommit", "delete",
        "addPort", "addCommit", "remove", "nodeDelete"},
   server: Servers \cup {None}, node: Nodes \cup {None},
   port: Ports \cup {None}, gen: Generations]

Live == {s \in Servers : host[s] # None}
Hosted(n) == {s \in Servers : host[s] = n}

Respond(h) == req' = [req EXCEPT ![h] = Idle]
Begin(h, pc, s, n) == req' = [req EXCEPT ![h] = Ask(pc, s, n, None, 0)]
Goto(h, pc, p) == req' = [req EXCEPT ![h] = Ask(pc, req[h].server, req[h].node, p, 0)]

Init ==
  /\ present = {}
  /\ status = [n \in Nodes |-> "OFFLINE"]
  /\ maint = [n \in Nodes |-> FALSE]
  /\ alloc = [n \in Nodes |-> [r \in Resources |-> 0]]
  /\ host = [s \in Servers |-> None]
  /\ rows = {}
  /\ lock = [n \in Nodes |-> None]
  /\ used = {}
  /\ req = [h \in Handlers |-> Idle]

-----------------------------------------------------------------------------
(* Nodes *)

CreateNode(n) ==
  /\ n \notin used
  /\ used' = used \cup {n}
  /\ present' = present \cup {n}
  /\ UNCHANGED <<status, maint, alloc, host, rows, lock, req>>

\* setMaintenance and healthCheck are one UPDATE each, which waits for the row.
SetMaintenance(n, enabled) ==
  /\ n \in present /\ lock[n] = None
  /\ maint' = [maint EXCEPT ![n] = enabled]
  /\ status' = [status EXCEPT ![n] = IF enabled THEN "MAINTENANCE" ELSE "ONLINE"]
  /\ UNCHANGED <<present, alloc, host, rows, lock, used, req>>

\* The UPDATE follows the ping: what happened meanwhile is overwritten.
HealthCheck(n, reachable) ==
  /\ n \in present /\ lock[n] = None
  /\ status' = [status EXCEPT ![n] = IF reachable THEN "ONLINE" ELSE "OFFLINE"]
  /\ UNCHANGED <<present, maint, alloc, host, rows, lock, used, req>>

DeleteNodeCount(h, n) ==
  /\ req[h].pc = "idle"
  /\ n \in present /\ Hosted(n) = {}
  /\ Begin(h, "nodeDelete", None, n)
  /\ UNCHANGED <<present, status, maint, alloc, host, rows, lock, used>>

\* servers.nodeId is ON DELETE RESTRICT, network_allocations.nodeId CASCADE.
DeleteNodeRow(h) ==
  LET n == req[h].node IN
  /\ req[h].pc = "nodeDelete"
  /\ lock[n] = None
  /\ \/ /\ n \in present /\ Hosted(n) = {}
        /\ present' = present \ {n}
        /\ rows' = {row \in rows : row.node # n}
        /\ status' = [status EXCEPT ![n] = "OFFLINE"]
        /\ maint' = [maint EXCEPT ![n] = FALSE]
     \/ /\ n \notin present \/ Hosted(n) # {}
        /\ UNCHANGED <<present, rows, status, maint>>
  /\ Respond(h)
  /\ UNCHANGED <<alloc, host, lock, used>>

Limit(n, r) == (Physical[n][r] * (100 + Overallocate[n][r])) \div 100

\* Mutant: maintenance is forgotten.
EligibleByStatus(s) ==
  {n \in present : /\ status[n] = "ONLINE"
                   /\ \A r \in Resources : alloc[n][r] + Demand[s][r] <= Limit(n, r)}

Eligible(s) ==
  {n \in present : /\ status[n] = "ONLINE" /\ ~maint[n]
                   /\ \A r \in Resources : alloc[n][r] + Demand[s][r] <= Limit(n, r)}

\* memoryAllocatedMb / memoryMb, compared without dividing
LeastLoaded(candidates) ==
  {n \in candidates : \A m \in candidates :
     alloc[n][Memory] * Physical[m][Memory] <= alloc[m][Memory] * Physical[n][Memory]}

-----------------------------------------------------------------------------
(* Servers.create: choose a node, then one transaction, then fire and      *)
(* forget the provisioning (module ServerLifecycle).                       *)

CreatePlace(h, s) ==
  /\ req[h].pc = "idle" /\ s \notin used
  /\ \E n \in LeastLoaded(Eligible(s)) : Begin(h, "createLock", s, n)
  /\ used' = used \cup {s}
  /\ UNCHANGED <<present, status, maint, alloc, host, rows, lock>>

\* INSERT of the server (its foreign key needs the node), UPDATE of the node.
CreateLock(h) ==
  LET n == req[h].node IN
  /\ req[h].pc = "createLock"
  /\ lock[n] = None
  /\ \/ /\ n \in present
        /\ lock' = [lock EXCEPT ![n] = h]
        /\ Goto(h, "createPort", None)
     \/ /\ n \notin present
        /\ Respond(h)
        /\ UNCHANGED lock
  /\ UNCHANGED <<present, status, maint, alloc, host, rows, used>>

UsedPorts(n) == {row.port : row \in {r \in rows : r.node = n}}
FreePorts(n) == Ports \ UsedPorts(n)
FirstFreePort(n) == {p \in FreePorts(n) : \A q \in FreePorts(n) : p <= q}

\* Mutant: the error path forgets to roll back.
CreatePortKeepsLock(h) ==
  LET n == req[h].node IN
  /\ req[h].pc = "createPort"
  /\ \/ \E p \in FirstFreePort(n) : Goto(h, "createCommit", p)
     \/ FreePorts(n) = {} /\ Respond(h)
  /\ UNCHANGED <<present, status, maint, alloc, host, rows, lock, used>>

\* allocatePort inside the transaction of h; with no port left it rolls back.
CreatePort(h) ==
  LET n == req[h].node IN
  /\ req[h].pc = "createPort"
  /\ \/ /\ \E p \in FirstFreePort(n) : Goto(h, "createCommit", p)
        /\ UNCHANGED lock
     \/ /\ FreePorts(n) = {}
        /\ lock' = [lock EXCEPT ![n] = None]
        /\ Respond(h)
  /\ UNCHANGED <<present, status, maint, alloc, host, rows, used>>

\* The generation of a new row: the first no request in flight refers to.
FreshGen(n, p, g) ==
  LET held == {req[h].gen : h \in {k \in Handlers : /\ req[k].pc = "remove"
                                                    /\ req[k].node = n /\ req[k].port = p}}
  IN  g \notin held /\ 0 .. (g - 1) \subseteq held

Insert(h, primary) ==
  \E g \in Generations :
    /\ FreshGen(req[h].node, req[h].port, g)
    /\ rows' = rows \cup {Allocation(req[h].node, req[h].port, g, req[h].server, primary)}

\* INSERT of the allocation and COMMIT, or the unique index rolls all back.
CreateCommit(h) ==
  LET n == req[h].node
      s == req[h].server
  IN
  /\ req[h].pc = "createCommit"
  /\ \/ /\ req[h].port \notin UsedPorts(n)
        /\ Insert(h, TRUE)
        /\ host' = [host EXCEPT ![s] = n]
        /\ alloc' = [alloc EXCEPT ![n] = [r \in Resources |-> alloc[n][r] + Demand[s][r]]]
     \/ /\ req[h].port \in UsedPorts(n)
        /\ UNCHANGED <<rows, host, alloc>>
  /\ lock' = [lock EXCEPT ![n] = None]
  /\ Respond(h)
  /\ UNCHANGED <<present, status, maint, used>>

-----------------------------------------------------------------------------
(* Servers.delete: read the row, ask the daemon (best effort), then one    *)
(* batch transaction.                                                      *)

DeleteRead(h, s) ==
  /\ req[h].pc = "idle" /\ s \in Live
  /\ Begin(h, "delete", s, host[s])
  /\ UNCHANGED <<present, status, maint, alloc, host, rows, lock, used>>

\* Mutant: deleteMany, which does not fail on a missing row.
DeleteCommitTwice(h) ==
  LET s == req[h].server
      n == req[h].node
  IN
  /\ req[h].pc = "delete"
  /\ lock[n] = None
  /\ alloc' = [alloc EXCEPT ![n] = [r \in Resources |-> alloc[n][r] - Demand[s][r]]]
  /\ host' = [host EXCEPT ![s] = None]
  /\ rows' = {IF row.server = s THEN Orphan(row) ELSE row : row \in rows}
  /\ Respond(h)
  /\ UNCHANGED <<present, status, maint, lock, used>>

\* The decrement comes first; DELETE of a row that is gone rolls it back.
\* network_allocations.serverId is ON DELETE SET NULL.
DeleteCommit(h) ==
  LET s == req[h].server
      n == req[h].node
  IN
  /\ req[h].pc = "delete"
  /\ lock[n] = None
  /\ \/ /\ s \in Live
        /\ alloc' = [alloc EXCEPT ![n] = [r \in Resources |-> alloc[n][r] - Demand[s][r]]]
        /\ host' = [host EXCEPT ![s] = None]
        /\ rows' = {IF row.server = s THEN Orphan(row) ELSE row : row \in rows}
     \/ /\ s \notin Live
        /\ UNCHANGED <<alloc, host, rows>>
  /\ Respond(h)
  /\ UNCHANGED <<present, status, maint, lock, used>>

-----------------------------------------------------------------------------
(* Servers.addAllocation and removeAllocation                              *)

AddRead(h, s) ==
  /\ req[h].pc = "idle" /\ s \in Live
  /\ Begin(h, "addPort", s, host[s])
  /\ UNCHANGED <<present, status, maint, alloc, host, rows, lock, used>>

AddPort(h) ==
  /\ req[h].pc = "addPort"
  /\ \/ \E p \in FirstFreePort(req[h].node) : Goto(h, "addCommit", p)
     \/ /\ FreePorts(req[h].node) = {}
        /\ Respond(h)
  /\ UNCHANGED <<present, status, maint, alloc, host, rows, lock, used>>

\* Mutant: no foreign key to the server.
AddCommitUnlinked(h) ==
  /\ req[h].pc = "addCommit"
  /\ \/ req[h].port \notin UsedPorts(req[h].node) /\ Insert(h, FALSE)
     \/ req[h].port \in UsedPorts(req[h].node) /\ UNCHANGED rows
  /\ Respond(h)
  /\ UNCHANGED <<present, status, maint, alloc, host, lock, used>>

\* No node row is locked: the unique index decides, and the foreign keys.
AddCommit(h) ==
  /\ req[h].pc = "addCommit"
  /\ \/ /\ req[h].port \notin UsedPorts(req[h].node)
        /\ req[h].server \in Live
        /\ Insert(h, FALSE)
     \/ /\ req[h].port \in UsedPorts(req[h].node) \/ req[h].server \notin Live
        /\ UNCHANGED rows
  /\ Respond(h)
  /\ UNCHANGED <<present, status, maint, alloc, host, lock, used>>

\* Mutant: the primary allocation is not protected.
RemoveReadAny(h, row) ==
  /\ req[h].pc = "idle"
  /\ row.server # None
  /\ req' = [req EXCEPT ![h] = Ask("remove", row.server, row.node, row.port, row.gen)]
  /\ UNCHANGED <<present, status, maint, alloc, host, rows, lock, used>>

RemoveRead(h, row) ==
  /\ req[h].pc = "idle"
  /\ row.server # None /\ ~row.primary
  /\ req' = [req EXCEPT ![h] = Ask("remove", row.server, row.node, row.port, row.gen)]
  /\ UNCHANGED <<present, status, maint, alloc, host, rows, lock, used>>

\* DELETE by id, whatever became of the row; a missing row is an error.
RemoveCommit(h) ==
  /\ req[h].pc = "remove"
  /\ rows' = {row \in rows : ~(/\ row.node = req[h].node /\ row.port = req[h].port
                               /\ row.gen = req[h].gen)}
  /\ Respond(h)
  /\ UNCHANGED <<present, status, maint, alloc, host, lock, used>>

-----------------------------------------------------------------------------
(* What fails                                                              *)

Unlocked(hs) == [n \in Nodes |-> IF lock[n] \in hs THEN None ELSE lock[n]]

\* A statement or the transaction times out, or the connection is lost:
\* the transaction rolls back and the request ends in an error.
Abort(h) ==
  /\ req[h].pc # "idle"
  /\ lock' = Unlocked({h})
  /\ Respond(h)
  /\ UNCHANGED <<present, status, maint, alloc, host, rows, used>>

\* The Backend process stops: every open transaction rolls back.
Crash ==
  /\ \E h \in Handlers : req[h].pc # "idle"
  /\ lock' = Unlocked(Handlers)
  /\ req' = [h \in Handlers |-> Idle]
  /\ UNCHANGED <<present, status, maint, alloc, host, rows, used>>

\* The next await of the request of h.
Step(h) ==
  \/ CreateLock(h) \/ CreatePort(h) \/ CreateCommit(h)
  \/ DeleteCommit(h) \/ AddPort(h) \/ AddCommit(h) \/ RemoveCommit(h) \/ DeleteNodeRow(h)

NodesController(n) ==
  \/ CreateNode(n)
  \/ \E enabled \in BOOLEAN : SetMaintenance(n, enabled)
  \/ \E reachable \in BOOLEAN : HealthCheck(n, reachable)

\* The requests the panel sends: its server list, and the card of the ports.
ServersPage(h) == \E s \in Servers : CreatePlace(h, s)
AllocationsSettings(h) ==
  \/ \E s \in Servers : AddRead(h, s)
  \/ \E row \in rows : RemoveRead(h, row)

Arrive(h) ==
  \/ ServersPage(h) \/ AllocationsSettings(h)
  \/ \E s \in Servers : DeleteRead(h, s)
  \/ \E n \in Nodes : DeleteNodeCount(h, n)

Next ==
  \/ \E n \in Nodes : NodesController(n)
  \/ \E h \in Handlers : Arrive(h) \/ Step(h) \/ Abort(h)
  \/ Crash

Spec == Init /\ [][Next]_vars

\* A request that waits for a row is queued by PostgreSQL first come first
\* served, so a step that is enabled again and again is taken.
FairSpec == Spec /\ \A h \in Handlers : SF_vars(Step(h))
-----------------------------------------------------------------------------
(* Properties *)

TypeOK ==
  /\ present \subseteq Nodes
  /\ status \in [Nodes -> {"ONLINE", "OFFLINE", "MAINTENANCE"}]
  /\ maint \in [Nodes -> BOOLEAN]
  /\ alloc \in [Nodes -> [Resources -> Int]]
  /\ host \in [Servers -> Nodes \cup {None}]
  /\ rows \subseteq Row
  /\ lock \in [Nodes -> Handlers \cup {None}]
  /\ used \subseteq Nodes \cup Servers
  /\ req \in [Handlers -> Request]

Creating(h) == req[h].pc \in {"createLock", "createPort", "createCommit"}
InTransaction(h) == req[h].pc \in {"createPort", "createCommit"}

\* What a set of servers asks of a resource, as a set of units and a number.
Units(ss, r) == {u \in ss \X (1 .. MaxDemand) : u[2] <= Demand[u[1]][r]}
Load(ss, r) == Cardinality(Units(ss, r))

\* The counters of a node are the sum of what the servers placed on it ask
\* for: create and delete keep server rows and node counters in step through
\* races of two deletes, rollbacks and crashes.
AccountingExact ==
  \A n \in Nodes, r \in Resources : alloc[n][r] = Load(Hosted(n), r)

\* findEligibleNode reads outside the transaction that increments: each other
\* request in flight can add one server to what it read, and no more.
OvershootBounded ==
  \A n \in Nodes, r \in Resources :
    alloc[n][r] <= Limit(n, r) + (Cardinality(Handlers) - 1) * MaxDemand

\* A server has exactly one primary allocation as long as it exists, on the
\* node it is placed on: no removal, deletion or rollback takes it away.
PrimaryRows(s) == {row \in rows : row.server = s /\ row.primary}
OnePrimary ==
  \A s \in Live : \E row \in rows : PrimaryRows(s) = {row} /\ row.node = host[s]

\* An allocation that names a server names one that exists, on its own node,
\* also when the server was deleted between addAllocation's read and insert.
AllocationsFollowServer ==
  \A row \in rows : row.server # None => host[row.server] = row.node

\* The count of NodesService.delete may be stale when the node's row goes:
\* a server placed in between still has its node.
HostsExist == \A s \in Live : host[s] \in present

\* The node's row is locked before create reads the used ports, so two
\* creates never pick the same port: only addAllocation, which locks
\* nothing, can make a create fail on the unique index.
PortLostOnlyToAdd ==
  \A h \in Handlers : req[h].pc = "createCommit" =>
    \A row \in rows : row.node = req[h].node /\ row.port = req[h].port => ~row.primary

\* Once a node is in maintenance and the creates that chose it before have
\* ended, none chooses it and it gains no server, although a health check
\* writes ONLINE over its status: an operator who drains a node can rely on it.
Inbound(n) == \E h \in Handlers : Creating(h) /\ req[h].node = n
MaintenanceDrains ==
  [][\A n \in Nodes : maint[n] /\ maint'[n] /\ ~Inbound(n) =>
       ~Inbound(n)' /\ Hosted(n)' \subseteq Hosted(n)]_vars

\* Every request ends, in a result or an error: nobody keeps a node's row.
RequestCompletes ==
  \A h \in Handlers : req[h].pc # "idle" ~> req[h].pc = "idle"

-----------------------------------------------------------------------------
(* The inductive invariant behind the safety properties (ServerFleetProofs) *)

\* What a request in flight knows of the rows it read.
RequestsOK ==
  \A h \in Handlers :
    /\ req[h].pc # "idle" => req[h].node \in Nodes
    /\ req[h].server \in used \cup {None}
    /\ req[h].pc \notin {"idle", "nodeDelete"} => req[h].server # None
    /\ req[h].pc \in {"createCommit", "addCommit", "remove"} => req[h].port \in Ports
    /\ req[h].pc \in {"delete", "addPort", "addCommit"} =>
         host[req[h].server] \in {None, req[h].node}
    /\ Creating(h) => /\ host[req[h].server] = None
                      /\ \A k \in Handlers \ {h} : req[k].server # req[h].server

\* A transaction holds the row of its node, which stays.
LockOK ==
  \A h \in Handlers : InTransaction(h) => /\ lock[req[h].node] = h
                                          /\ req[h].node \in present

\* The unique index on (node, port).
RowsUnique ==
  \A row1, row2 \in rows : row1.node = row2.node /\ row1.port = row2.port => row1 = row2

\* A removal in flight refers to no primary allocation, not even of later.
RemovalsOK ==
  \A h \in Handlers : req[h].pc = "remove" =>
    \A row \in rows : /\ row.node = req[h].node /\ row.port = req[h].port
                      /\ row.gen = req[h].gen
                      => ~row.primary

\* Servers that the requests in flight will add to a node.
Pending(n) == {s \in Servers : \E h \in Handlers : /\ Creating(h) /\ req[h].node = n
                                                  /\ req[h].server = s}
PendingBounded ==
  \A n \in Nodes, r \in Resources :
    alloc[n][r] + Load(Pending(n), r) <= Limit(n, r) + (Cardinality(Handlers) - 1) * MaxDemand

BaseInv == TypeOK /\ Live \subseteq used /\ RequestsOK
SafetyInv == /\ BaseInv /\ AllocationsFollowServer /\ AccountingExact /\ LockOK
             /\ RowsUnique /\ RemovalsOK
             /\ PendingBounded /\ PortLostOnlyToAdd /\ OnePrimary /\ HostsExist

-----------------------------------------------------------------------------
(* The fleet implements the ledger of placements.                           *)

\* Where a server is, for its owner: its node and its primary port.
Primary(s) == CHOOSE row \in PrimaryRows(s) : TRUE
Placement ==
  [s \in Servers |-> IF host[s] = None THEN None ELSE <<host[s], Primary(s).port>>]

Ledger == INSTANCE PlacementLedger WITH nodes <- present, place <- Placement, load <- alloc

\* Create, delete and the deletion of a node are each one step of the ledger,
\* and no other statement of any request, no rollback and no stop of the
\* Backend shows: no server changes its address, and none is half placed.
KeepsLedger == Ledger!Spec
=============================================================================
