-------------------------- MODULE ServerFleetProofs --------------------------
(***************************************************************************)
(* Proofs about ServerFleet, for every fleet: any number of nodes, servers *)
(* and concurrent requests, any capacities, demands and port range.        *)
(***************************************************************************)
EXTENDS ServerFleet, FiniteSetTheorems, TLAPS

USE NoneAssumption

LEMMA GenerationsInt == Generations \subseteq Int
  BY FiniteAssumption, FS_CardinalityType DEF Generations

LEMMA ZeroGeneration == 0 \in Generations
  BY FiniteAssumption, FS_CardinalityType DEF Generations

LEMMA IdleRequest == Idle \in Request
  BY ZeroGeneration DEF Idle, Request, Ask

-----------------------------------------------------------------------------
(* The types, and what requests in flight know: one lemma per action.      *)

LEMMA InitBase == Init => BaseInv
  BY IdleRequest DEF Init, BaseInv, TypeOK, Live, RequestsOK, Creating, Idle, Ask

LEMMA BaseCreateNode ==
  ASSUME BaseInv, NEW n \in Nodes, CreateNode(n)
  PROVE  BaseInv'
BY DEF BaseInv, TypeOK, Live, RequestsOK, Creating, CreateNode

LEMMA BaseSetMaintenance ==
  ASSUME BaseInv, NEW n \in Nodes, NEW e \in BOOLEAN, SetMaintenance(n, e)
  PROVE  BaseInv'
BY DEF BaseInv, TypeOK, Live, RequestsOK, Creating, SetMaintenance

LEMMA BaseHealthCheck ==
  ASSUME BaseInv, NEW n \in Nodes, NEW e \in BOOLEAN, HealthCheck(n, e)
  PROVE  BaseInv'
BY DEF BaseInv, TypeOK, Live, RequestsOK, Creating, HealthCheck

\* A request that ends forgets what it read.
LEMMA BaseRespond ==
  ASSUME BaseInv, NEW h \in Handlers, Respond(h), UNCHANGED <<used, host>>
  PROVE  /\ req' \in [Handlers -> Request]
         /\ (Live \subseteq used /\ RequestsOK)'
BY IdleRequest DEF BaseInv, TypeOK, Live, RequestsOK, Creating, Respond, Idle, Ask

\* A request that moves on stays a request.
LEMMA GotoRequest ==
  ASSUME BaseInv, NEW h \in Handlers,
         NEW pc \in {"createPort", "createCommit", "addCommit"},
         NEW p \in Ports \cup {None}, Goto(h, pc, p)
  PROVE  req' \in [Handlers -> Request]
BY ZeroGeneration DEF BaseInv, TypeOK, Goto, Request, Ask

LEMMA BeginRequest ==
  ASSUME BaseInv, NEW h \in Handlers,
         NEW pc \in {"createLock", "delete", "addPort", "nodeDelete"},
         NEW s \in Servers \cup {None}, NEW n \in Nodes, Begin(h, pc, s, n)
  PROVE  req' \in [Handlers -> Request]
BY ZeroGeneration DEF BaseInv, TypeOK, Begin, Request, Ask

LEMMA BaseDeleteNodeCount ==
  ASSUME BaseInv, NEW h \in Handlers, NEW n \in Nodes, DeleteNodeCount(h, n)
  PROVE  BaseInv'
<1>1. req' \in [Handlers -> Request]
  BY BeginRequest DEF DeleteNodeCount
<1>. QED  BY <1>1 DEF BaseInv, TypeOK, Live, RequestsOK, Creating, DeleteNodeCount, Begin, Ask

LEMMA BaseDeleteNodeRow ==
  ASSUME BaseInv, NEW h \in Handlers, DeleteNodeRow(h)
  PROVE  BaseInv'
<1>1. /\ req' \in [Handlers -> Request]
      /\ (Live \subseteq used /\ RequestsOK)'
  BY BaseRespond DEF DeleteNodeRow
<1>. QED  BY <1>1 DEF BaseInv, TypeOK, DeleteNodeRow

LEMMA BaseCreatePlace ==
  ASSUME BaseInv, NEW h \in Handlers, NEW s \in Servers, CreatePlace(h, s)
  PROVE  BaseInv'
<1>1. PICK n \in Nodes : Begin(h, "createLock", s, n)
  BY DEF CreatePlace, LeastLoaded, Eligible, BaseInv, TypeOK
<1>2. req' \in [Handlers -> Request]
  BY <1>1, BeginRequest
<1>3. RequestsOK'
  BY <1>1 DEF BaseInv, TypeOK, Live, RequestsOK, Creating, CreatePlace, Begin, Ask, Request
<1>. QED  BY <1>2, <1>3 DEF BaseInv, TypeOK, Live, CreatePlace

LEMMA BaseCreateLock ==
  ASSUME BaseInv, NEW h \in Handlers, CreateLock(h)
  PROVE  BaseInv'
<1>1. CASE Respond(h) /\ UNCHANGED lock
  BY <1>1, BaseRespond DEF BaseInv, TypeOK, CreateLock
<1>2. CASE Goto(h, "createPort", None) /\ lock' = [lock EXCEPT ![req[h].node] = h]
  <2>1. req' \in [Handlers -> Request]
    BY <1>2, GotoRequest
  <2>. QED  BY <2>1, <1>2
       DEF BaseInv, TypeOK, Live, RequestsOK, Creating, CreateLock, Goto, Ask
<1>. QED  BY <1>1, <1>2 DEF CreateLock

LEMMA BaseCreatePort ==
  ASSUME BaseInv, NEW h \in Handlers, CreatePort(h)
  PROVE  BaseInv'
<1>1. CASE Respond(h) /\ lock' = [lock EXCEPT ![req[h].node] = None]
  BY <1>1, BaseRespond DEF BaseInv, TypeOK, CreatePort
<1>2. CASE \E p \in FirstFreePort(req[h].node) : Goto(h, "createCommit", p) /\ UNCHANGED lock
  <2>1. PICK p \in Ports : Goto(h, "createCommit", p) /\ UNCHANGED lock
    BY <1>2 DEF FirstFreePort, FreePorts
  <2>2. req' \in [Handlers -> Request]
    BY <2>1, GotoRequest
  <2>. QED  BY <2>1, <2>2
       DEF BaseInv, TypeOK, Live, RequestsOK, Creating, CreatePort, Goto, Ask
<1>. QED  BY <1>1, <1>2 DEF CreatePort

\* The row an insert adds is a row of its request's server and node.
LEMMA InsertRow ==
  ASSUME BaseInv, NEW h \in Handlers, NEW primary \in BOOLEAN, Insert(h, primary),
         req[h].pc \in {"createCommit", "addCommit"}
  PROVE  \E g \in Generations :
           /\ FreshGen(req[h].node, req[h].port, g)
           /\ Allocation(req[h].node, req[h].port, g, req[h].server, primary) \in Row
           /\ rows' = rows \cup {Allocation(req[h].node, req[h].port, g, req[h].server, primary)}
BY DEF Insert, BaseInv, TypeOK, RequestsOK, Row, Request, Allocation

LEMMA BaseCreateCommit ==
  ASSUME BaseInv, NEW h \in Handlers, CreateCommit(h)
  PROVE  BaseInv'
<1>. DEFINE s == req[h].server
            n == req[h].node
<1>1. s \in Servers /\ n \in Nodes /\ s \in used
  BY DEF BaseInv, TypeOK, RequestsOK, CreateCommit, Request
<1>2. req' \in [Handlers -> Request]
  BY IdleRequest DEF BaseInv, TypeOK, CreateCommit, Respond
<1>3. lock' \in [Nodes -> Handlers \cup {None}]
  BY DEF BaseInv, TypeOK, CreateCommit
<1>4. CASE UNCHANGED <<rows, host, alloc>>
  <2>1. (Live \subseteq used /\ RequestsOK)'
    BY <1>4, BaseRespond DEF CreateCommit
  <2>. QED  BY <1>2, <1>3, <1>4, <2>1 DEF BaseInv, TypeOK, CreateCommit
<1>5. CASE /\ Insert(h, TRUE)
           /\ host' = [host EXCEPT ![s] = n]
           /\ alloc' = [alloc EXCEPT ![n] = [r \in Resources |-> alloc[n][r] + Demand[s][r]]]
  <2>1. rows' \subseteq Row
    <3>1. req[h].pc \in {"createCommit", "addCommit"}
      BY DEF CreateCommit
    <3>2. PICK row \in Row : rows' = rows \cup {row}
      BY <1>5, <3>1, InsertRow
    <3>. QED  BY <3>2 DEF BaseInv, TypeOK
  <2>2. \A r \in Resources : alloc[n][r] + Demand[s][r] \in Int
    BY <1>1, ResourceAssumption DEF BaseInv, TypeOK
  <2>3. alloc' \in [Nodes -> [Resources -> Int]]
    <3>1. [r \in Resources |-> alloc[n][r] + Demand[s][r]] \in [Resources -> Int]
      BY <2>2
    <3>. QED  BY <1>1, <1>5, <3>1 DEF BaseInv, TypeOK
  <2>4. host' \in [Servers -> Nodes \cup {None}]
    BY <1>1, <1>5 DEF BaseInv, TypeOK
  <2>5. (Live \subseteq used)'
    BY <1>1, <1>5 DEF BaseInv, TypeOK, Live, CreateCommit
  <2>6. RequestsOK'
    BY <1>1, <1>5 DEF BaseInv, TypeOK, RequestsOK, Creating, CreateCommit, Respond, Idle, Ask,
                      Request
  <2>. QED  BY <1>2, <1>3, <2>1, <2>3, <2>4, <2>5, <2>6 DEF BaseInv, TypeOK, CreateCommit
<1>. QED  BY <1>4, <1>5 DEF CreateCommit

LEMMA BaseDeleteRead ==
  ASSUME BaseInv, NEW h \in Handlers, NEW s \in Servers, DeleteRead(h, s)
  PROVE  BaseInv'
<1>1. req' \in [Handlers -> Request]
  BY BeginRequest DEF DeleteRead, Live, BaseInv, TypeOK
<1>. QED  BY <1>1 DEF BaseInv, TypeOK, Live, RequestsOK, Creating, DeleteRead, Begin, Ask, Request

LEMMA BaseDeleteCommit ==
  ASSUME BaseInv, NEW h \in Handlers, DeleteCommit(h)
  PROVE  BaseInv'
<1>1. req' \in [Handlers -> Request]
  BY IdleRequest DEF BaseInv, TypeOK, DeleteCommit, Respond
<1>2. (Live \subseteq used /\ RequestsOK)'
  BY DEF BaseInv, TypeOK, Live, RequestsOK, Creating, DeleteCommit, Respond, Idle, Ask, Request
<1>3. rows' \subseteq Row
  BY DEF BaseInv, TypeOK, DeleteCommit, Orphan, Allocation, Row
<1>4. host' \in [Servers -> Nodes \cup {None}]
  BY DEF BaseInv, TypeOK, DeleteCommit
<1>5. alloc' \in [Nodes -> [Resources -> Int]]
  <2>1. req[h].server \in Servers /\ req[h].node \in Nodes
    BY DEF BaseInv, TypeOK, RequestsOK, DeleteCommit, Request
  <2>2. \A r \in Resources : alloc[req[h].node][r] - Demand[req[h].server][r] \in Int
    BY <2>1, ResourceAssumption DEF BaseInv, TypeOK
  <2>. QED  BY <2>1, <2>2 DEF BaseInv, TypeOK, DeleteCommit
<1>. QED  BY <1>1, <1>2, <1>3, <1>4, <1>5 DEF BaseInv, TypeOK, DeleteCommit

LEMMA BaseAddRead ==
  ASSUME BaseInv, NEW h \in Handlers, NEW s \in Servers, AddRead(h, s)
  PROVE  BaseInv'
<1>1. req' \in [Handlers -> Request]
  BY BeginRequest DEF AddRead, Live, BaseInv, TypeOK
<1>. QED  BY <1>1 DEF BaseInv, TypeOK, Live, RequestsOK, Creating, AddRead, Begin, Ask, Request

LEMMA BaseAddPort ==
  ASSUME BaseInv, NEW h \in Handlers, AddPort(h)
  PROVE  BaseInv'
<1>1. CASE Respond(h)
  BY <1>1, BaseRespond DEF BaseInv, TypeOK, AddPort
<1>2. CASE \E p \in FirstFreePort(req[h].node) : Goto(h, "addCommit", p)
  <2>1. PICK p \in Ports : Goto(h, "addCommit", p)
    BY <1>2 DEF FirstFreePort, FreePorts
  <2>2. req' \in [Handlers -> Request]
    BY <2>1, GotoRequest
  <2>. QED  BY <2>1, <2>2 DEF BaseInv, TypeOK, Live, RequestsOK, Creating, AddPort, Goto, Ask
<1>. QED  BY <1>1, <1>2 DEF AddPort

LEMMA BaseAddCommit ==
  ASSUME BaseInv, NEW h \in Handlers, AddCommit(h)
  PROVE  BaseInv'
<1>1. rows' \subseteq Row
  <2>1. rows \subseteq Row /\ req[h].pc = "addCommit"
    BY DEF BaseInv, TypeOK, AddCommit
  <2>2. CASE Insert(h, FALSE)
    <3>1. PICK row \in Row : rows' = rows \cup {row}
      BY <2>1, <2>2, InsertRow
    <3>. QED  BY <2>1, <3>1
  <2>3. CASE rows' = rows
    BY <2>1, <2>3
  <2>. QED  BY <2>2, <2>3 DEF AddCommit
<1>2. /\ req' \in [Handlers -> Request]
      /\ (Live \subseteq used /\ RequestsOK)'
  BY BaseRespond DEF AddCommit
<1>. QED  BY <1>1, <1>2 DEF BaseInv, TypeOK, AddCommit

LEMMA BaseRemoveRead ==
  ASSUME BaseInv, AllocationsFollowServer, NEW h \in Handlers, NEW row \in rows, RemoveRead(h, row)
  PROVE  BaseInv'
<1>1. row \in Row
  BY DEF BaseInv, TypeOK
<1>2. row.server \in Servers /\ host[row.server] \in Nodes
  BY <1>1 DEF RemoveRead, AllocationsFollowServer, Row
<1>3. req' \in [Handlers -> Request]
  BY <1>1 DEF BaseInv, TypeOK, RemoveRead, Ask, Row, Request
<1>4. RequestsOK'
  BY <1>1, <1>2 DEF BaseInv, TypeOK, Live, RequestsOK, Creating, RemoveRead, Ask, Request, Row
<1>. QED  BY <1>3, <1>4 DEF BaseInv, TypeOK, Live, RemoveRead

LEMMA BaseRemoveCommit ==
  ASSUME BaseInv, NEW h \in Handlers, RemoveCommit(h)
  PROVE  BaseInv'
<1>1. /\ req' \in [Handlers -> Request]
      /\ (Live \subseteq used /\ RequestsOK)'
  BY BaseRespond DEF RemoveCommit
<1>. QED  BY <1>1 DEF BaseInv, TypeOK, RemoveCommit

LEMMA BaseAbort ==
  ASSUME BaseInv, NEW h \in Handlers, Abort(h)
  PROVE  BaseInv'
<1>1. /\ req' \in [Handlers -> Request]
      /\ (Live \subseteq used /\ RequestsOK)'
  BY BaseRespond DEF Abort
<1>. QED  BY <1>1 DEF BaseInv, TypeOK, Abort, Unlocked

LEMMA BaseCrash ==
  ASSUME BaseInv, Crash
  PROVE  BaseInv'
BY IdleRequest DEF BaseInv, TypeOK, Live, RequestsOK, Creating, Crash, Unlocked, Idle, Ask

LEMMA BaseStutter ==
  ASSUME BaseInv, UNCHANGED vars
  PROVE  BaseInv'
BY DEF BaseInv, TypeOK, Live, RequestsOK, Creating, vars

-----------------------------------------------------------------------------
(* Load: what a set of servers asks for.                                   *)

LEMMA UnitsFinite ==
  ASSUME NEW ss \in SUBSET Servers, NEW r \in Resources
  PROVE  /\ IsFiniteSet(ss)
         /\ IsFiniteSet(ss \X (1 .. MaxDemand))
         /\ Cardinality(ss \X (1 .. MaxDemand)) = Cardinality(ss) * MaxDemand
         /\ IsFiniteSet(Units(ss, r))
         /\ Load(ss, r) \in Nat
<1>1. IsFiniteSet(ss)
  BY FiniteAssumption, FS_Subset
<1>2. IsFiniteSet(1 .. MaxDemand) /\ Cardinality(1 .. MaxDemand) = MaxDemand
  BY ResourceAssumption, FS_Interval
<1>3. /\ IsFiniteSet(ss \X (1 .. MaxDemand))
      /\ Cardinality(ss \X (1 .. MaxDemand)) = Cardinality(ss) * MaxDemand
  BY <1>1, <1>2, FS_Product
<1>4. Units(ss, r) \in SUBSET (ss \X (1 .. MaxDemand))
  BY DEF Units
<1>5. IsFiniteSet(Units(ss, r))
  BY <1>3, <1>4, FS_Subset
<1>6. Load(ss, r) \in Nat
  BY <1>5, FS_CardinalityType DEF Load
<1>. QED  BY <1>1, <1>3, <1>5, <1>6

LEMMA LoadEmpty ==
  ASSUME NEW r \in Resources
  PROVE  Load({}, r) = 0
<1>1. Units({}, r) = {}
  BY DEF Units
<1>. QED  BY <1>1, FS_EmptySet DEF Load

LEMMA DemandBounded ==
  ASSUME NEW s \in Servers, NEW r \in Resources
  PROVE  Demand[s][r] \in Nat /\ Demand[s][r] <= MaxDemand /\ MaxDemand \in Nat
<1>1. Demand[s][r] \in 0 .. MaxDemand
  BY ResourceAssumption
<1>. QED  BY <1>1, ResourceAssumption

LEMMA ColumnCardinality ==
  ASSUME NEW s, NEW d \in Nat
  PROVE  IsFiniteSet({s} \X (1 .. d)) /\ Cardinality({s} \X (1 .. d)) = d
<1>1. IsFiniteSet({s}) /\ Cardinality({s}) = 1
  BY FS_Singleton
<1>2. IsFiniteSet(1 .. d) /\ Cardinality(1 .. d) = d
  BY FS_Interval
<1>3. /\ IsFiniteSet({s} \X (1 .. d))
      /\ Cardinality({s} \X (1 .. d)) = Cardinality({s}) * Cardinality(1 .. d)
  BY <1>1, <1>2, FS_Product
<1>. QED  BY <1>1, <1>2, <1>3

LEMMA LoadOne ==
  ASSUME NEW s \in Servers, NEW r \in Resources
  PROVE  Load({s}, r) = Demand[s][r]
<1>1. Demand[s][r] \in Nat /\ Demand[s][r] <= MaxDemand /\ MaxDemand \in Nat
  BY DemandBounded
<1>2. Units({s}, r) = {s} \X (1 .. Demand[s][r])
  BY <1>1 DEF Units
<1>. QED  BY <1>1, <1>2, ColumnCardinality DEF Load

\* Loads of disjoint sets of servers add up.
LEMMA LoadAdd ==
  ASSUME NEW ss \in SUBSET Servers, NEW s \in Servers, s \notin ss, NEW r \in Resources
  PROVE  Load(ss \cup {s}, r) = Load(ss, r) + Demand[s][r]
<1>1. Units(ss \cup {s}, r) = Units(ss, r) \cup Units({s}, r)
  BY DEF Units
<1>2. Units(ss, r) \cap Units({s}, r) = {}
  BY DEF Units
<1>3. IsFiniteSet(Units(ss, r)) /\ IsFiniteSet(Units({s}, r))
  BY UnitsFinite, {s} \in SUBSET Servers
<1>4. Cardinality(Units(ss \cup {s}, r))
        = Cardinality(Units(ss, r)) + Cardinality(Units({s}, r)) - Cardinality({})
  BY <1>1, <1>2, <1>3, FS_Union
<1>5. Load(ss, r) \in Nat /\ Demand[s][r] \in Nat
  BY UnitsFinite, DemandBounded
<1>6. Load(ss \cup {s}, r) = Load(ss, r) + Load({s}, r) - 0
  BY <1>4, FS_EmptySet DEF Load
<1>7. Load({s}, r) = Demand[s][r]
  BY LoadOne
<1>. QED  BY <1>5, <1>6, <1>7

LEMMA LoadRemove ==
  ASSUME NEW ss \in SUBSET Servers, NEW s \in ss, NEW r \in Resources
  PROVE  Load(ss \ {s}, r) = Load(ss, r) - Demand[s][r]
<1>1. (ss \ {s}) \cup {s} = ss
  OBVIOUS
<1>2. Load((ss \ {s}) \cup {s}, r) = Load(ss \ {s}, r) + Demand[s][r]
  BY LoadAdd, ss \ {s} \in SUBSET Servers, s \in Servers, s \notin ss \ {s}
<1>3. Load(ss \ {s}, r) \in Nat /\ Demand[s][r] \in Nat
  BY UnitsFinite, DemandBounded, ss \ {s} \in SUBSET Servers, s \in Servers
<1>4. Load(ss, r) = Load(ss \ {s}, r) + Demand[s][r]
  BY <1>1, <1>2
<1>. QED  BY <1>3, <1>4

LEMMA LoadMonotone ==
  ASSUME NEW ss \in SUBSET Servers, NEW tt \in SUBSET ss, NEW r \in Resources
  PROVE  Load(tt, r) <= Load(ss, r)
<1>1. Units(tt, r) \in SUBSET Units(ss, r)
  BY DEF Units
<1>. QED  BY <1>1, UnitsFinite, FS_Subset DEF Load

\* Each server asks for at most MaxDemand.
LEMMA LoadBounded ==
  ASSUME NEW ss \in SUBSET Servers, NEW r \in Resources
  PROVE  Load(ss, r) <= Cardinality(ss) * MaxDemand
<1>1. Units(ss, r) \in SUBSET (ss \X (1 .. MaxDemand))
  BY DEF Units
<1>2. Cardinality(Units(ss, r)) <= Cardinality(ss \X (1 .. MaxDemand))
  BY <1>1, UnitsFinite, FS_Subset
<1>. QED  BY <1>2, UnitsFinite DEF Load

-----------------------------------------------------------------------------
(* The counters of the nodes.                                              *)

\* The two transactions that touch counters and placement; the rest frames.
LEMMA PlacementFrame ==
  ASSUME [Next]_vars
  PROVE  \/ UNCHANGED <<alloc, host>>
         \/ \E h \in Handlers : CreateCommit(h) \/ DeleteCommit(h)
BY DEF Next, NodesController, Arrive, ServersPage, AllocationsSettings, Step, vars, CreateNode, SetMaintenance, HealthCheck,
       DeleteNodeCount, DeleteNodeRow, CreatePlace, CreateLock, CreatePort, DeleteRead, AddRead,
       AddPort, AddCommit, RemoveRead, RemoveCommit, Abort, Crash

LEMMA CreateCommitPlacement ==
  ASSUME BaseInv, NEW h \in Handlers, CreateCommit(h)
  PROVE  \/ UNCHANGED <<alloc, host>>
         \/ \E s \in Servers, n \in Nodes :
              /\ s = req[h].server /\ n = req[h].node /\ host[s] = None
              /\ host' = [host EXCEPT ![s] = n]
              /\ alloc' = [alloc EXCEPT ![n] = [r \in Resources |-> alloc[n][r] + Demand[s][r]]]
<1>1. /\ req[h].server \in Servers /\ req[h].node \in Nodes
      /\ host[req[h].server] = None
  BY DEF BaseInv, TypeOK, RequestsOK, CreateCommit, Creating, Request
<1>. QED  BY <1>1 DEF CreateCommit

LEMMA DeleteCommitPlacement ==
  ASSUME BaseInv, NEW h \in Handlers, DeleteCommit(h)
  PROVE  \/ UNCHANGED <<alloc, host>>
         \/ \E s \in Servers, n \in Nodes :
              /\ host[s] = n
              /\ host' = [host EXCEPT ![s] = None]
              /\ alloc' = [alloc EXCEPT ![n] = [r \in Resources |-> alloc[n][r] - Demand[s][r]]]
<1>1. /\ req[h].server \in Servers /\ req[h].node \in Nodes
      /\ host[req[h].server] \in {None, req[h].node}
  BY DEF BaseInv, TypeOK, RequestsOK, DeleteCommit, Request
<1>. QED  BY <1>1 DEF DeleteCommit, Live

LEMMA AccountingStep ==
  ASSUME BaseInv, AccountingExact, [Next]_vars
  PROVE  AccountingExact'
<1>1. CASE UNCHANGED <<alloc, host>>
  BY <1>1 DEF AccountingExact, Hosted
<1>2. ASSUME NEW s \in Servers, NEW n \in Nodes, host[s] = None,
             host' = [host EXCEPT ![s] = n],
             alloc' = [alloc EXCEPT ![n] = [r \in Resources |-> alloc[n][r] + Demand[s][r]]]
      PROVE  AccountingExact'
  <2>1. /\ Hosted(n)' = Hosted(n) \cup {s} /\ s \notin Hosted(n)
        /\ \A m \in Nodes \ {n} : Hosted(m)' = Hosted(m)
    BY <1>2 DEF Hosted, BaseInv, TypeOK
  <2>2. \A r \in Resources : Load(Hosted(n) \cup {s}, r) = Load(Hosted(n), r) + Demand[s][r]
    BY <2>1, LoadAdd DEF Hosted
  <2>3. \A r \in Resources : alloc'[n][r] = Load(Hosted(n)', r)
    BY <1>2, <2>1, <2>2 DEF AccountingExact, BaseInv, TypeOK
  <2>4. \A m \in Nodes \ {n} : alloc'[m] = alloc[m]
    BY <1>2 DEF BaseInv, TypeOK
  <2>5. \A m \in Nodes \ {n}, r \in Resources : alloc'[m][r] = Load(Hosted(m)', r)
    BY <2>1, <2>4 DEF AccountingExact
  <2>. QED  BY <2>3, <2>5 DEF AccountingExact, Load, Units
<1>3. ASSUME NEW s \in Servers, NEW n \in Nodes, host[s] = n,
             host' = [host EXCEPT ![s] = None],
             alloc' = [alloc EXCEPT ![n] = [r \in Resources |-> alloc[n][r] - Demand[s][r]]]
      PROVE  AccountingExact'
  <2>1. /\ Hosted(n)' = Hosted(n) \ {s} /\ s \in Hosted(n)
        /\ \A m \in Nodes \ {n} : Hosted(m)' = Hosted(m)
    BY <1>3 DEF Hosted, BaseInv, TypeOK
  <2>2. \A r \in Resources : Load(Hosted(n) \ {s}, r) = Load(Hosted(n), r) - Demand[s][r]
    BY <2>1, LoadRemove DEF Hosted
  <2>3. \A r \in Resources : alloc'[n][r] = Load(Hosted(n)', r)
    BY <1>3, <2>1, <2>2 DEF AccountingExact, BaseInv, TypeOK
  <2>4. \A m \in Nodes \ {n} : alloc'[m] = alloc[m]
    BY <1>3 DEF BaseInv, TypeOK
  <2>5. \A m \in Nodes \ {n}, r \in Resources : alloc'[m][r] = Load(Hosted(m)', r)
    BY <2>1, <2>4 DEF AccountingExact
  <2>. QED  BY <2>3, <2>5 DEF AccountingExact, Load, Units
<1>. QED
  BY <1>1, <1>2, <1>3, PlacementFrame, CreateCommitPlacement, DeleteCommitPlacement

-----------------------------------------------------------------------------
(* The allocations, the node locks and the removals in flight.             *)

\* The five steps that change network_allocations; the rest frames.
LEMMA RowsFrame ==
  ASSUME [Next]_vars
  PROVE  \/ UNCHANGED <<rows, host>>
         \/ \E h \in Handlers : \/ CreateCommit(h) \/ DeleteCommit(h) \/ AddCommit(h)
                                \/ RemoveCommit(h) \/ DeleteNodeRow(h)
BY DEF Next, NodesController, Arrive, ServersPage, AllocationsSettings, Step, vars, CreateNode, SetMaintenance, HealthCheck,
       DeleteNodeCount, CreatePlace, CreateLock, CreatePort, DeleteRead, AddRead,
       AddPort, RemoveRead, Abort, Crash

LEMMA AllocationsStep ==
  ASSUME BaseInv, AllocationsFollowServer, [Next]_vars
  PROVE  AllocationsFollowServer'
<1>1. CASE UNCHANGED <<rows, host>>
  BY <1>1 DEF AllocationsFollowServer
<1>2. ASSUME NEW h \in Handlers, CreateCommit(h)
      PROVE  AllocationsFollowServer'
  <2>1. /\ req[h].server \in Servers /\ req[h].node \in Nodes
        /\ host[req[h].server] = None /\ req[h].pc \in {"createCommit", "addCommit"}
    BY <1>2 DEF BaseInv, TypeOK, RequestsOK, CreateCommit, Creating, Request
  <2>2. CASE UNCHANGED <<rows, host, alloc>>
    BY <2>2 DEF AllocationsFollowServer
  <2>3. CASE Insert(h, TRUE) /\ host' = [host EXCEPT ![req[h].server] = req[h].node]
    <3>1. PICK g \in Generations : rows' = rows \cup
            {Allocation(req[h].node, req[h].port, g, req[h].server, TRUE)}
      BY <2>1, <2>3, InsertRow
    <3>2. \A row \in rows : row.server # req[h].server \/ row.server = None
      BY <2>1 DEF AllocationsFollowServer, BaseInv, TypeOK, Row
    <3>. QED  BY <2>1, <2>3, <3>1, <3>2
              DEF AllocationsFollowServer, BaseInv, TypeOK, Row, Allocation
  <2>. QED  BY <1>2, <2>2, <2>3 DEF CreateCommit
<1>3. ASSUME NEW h \in Handlers, DeleteCommit(h)
      PROVE  AllocationsFollowServer'
  <2>1. CASE UNCHANGED <<alloc, host, rows>>
    BY <2>1 DEF AllocationsFollowServer
  <2>2. CASE /\ host' = [host EXCEPT ![req[h].server] = None]
             /\ rows' = {IF row.server = req[h].server THEN Orphan(row) ELSE row : row \in rows}
    BY <2>2 DEF AllocationsFollowServer, BaseInv, TypeOK, Row, Orphan, Allocation
  <2>. QED  BY <1>3, <2>1, <2>2 DEF DeleteCommit
<1>4. ASSUME NEW h \in Handlers, AddCommit(h)
      PROVE  AllocationsFollowServer'
  <2>1. CASE UNCHANGED rows
    BY <1>4, <2>1 DEF AllocationsFollowServer, AddCommit
  <2>2. CASE Insert(h, FALSE) /\ req[h].server \in Live
    <3>1. host[req[h].server] = req[h].node /\ req[h].pc \in {"createCommit", "addCommit"}
      BY <1>4, <2>2 DEF BaseInv, RequestsOK, AddCommit, Live
    <3>2. PICK g \in Generations : rows' = rows \cup
            {Allocation(req[h].node, req[h].port, g, req[h].server, FALSE)}
      BY <2>2, <3>1, InsertRow
    <3>. QED  BY <1>4, <3>1, <3>2 DEF AllocationsFollowServer, Allocation, AddCommit
  <2>. QED  BY <1>4, <2>1, <2>2 DEF AddCommit
<1>5. ASSUME NEW h \in Handlers, RemoveCommit(h) \/ DeleteNodeRow(h)
      PROVE  AllocationsFollowServer'
  BY <1>5 DEF AllocationsFollowServer, RemoveCommit, DeleteNodeRow
<1>. QED  BY <1>1, <1>2, <1>3, <1>4, <1>5, RowsFrame

\* A handler in its create transaction holds its node's row, and only it
\* releases it; a node whose row is held is not deleted.
LEMMA LockStep ==
  ASSUME BaseInv, LockOK, [Next]_vars
  PROVE  LockOK'
<1>1. CASE UNCHANGED vars
  BY <1>1 DEF LockOK, InTransaction, vars
<1>2. ASSUME NEW n \in Nodes, NodesController(n)
      PROVE  LockOK'
  BY <1>2 DEF LockOK, InTransaction, NodesController, CreateNode, SetMaintenance, HealthCheck
<1>3. ASSUME NEW h \in Handlers, Arrive(h)
      PROVE  LockOK'
  BY <1>3 DEF LockOK, InTransaction, Arrive, ServersPage, AllocationsSettings, DeleteNodeCount, CreatePlace, DeleteRead, AddRead,
              RemoveRead, Begin, Ask, BaseInv, TypeOK
<1>4. ASSUME NEW h \in Handlers, CreateLock(h)
      PROVE  LockOK'
  BY <1>4 DEF LockOK, InTransaction, CreateLock, Goto, Respond, Idle, Ask, BaseInv, TypeOK,
              RequestsOK
<1>5. ASSUME NEW h \in Handlers, CreatePort(h)
      PROVE  LockOK'
  BY <1>5 DEF LockOK, InTransaction, CreatePort, Goto, Respond, Idle, Ask, BaseInv, TypeOK,
              RequestsOK
<1>6. ASSUME NEW h \in Handlers, CreateCommit(h)
      PROVE  LockOK'
  BY <1>6 DEF LockOK, InTransaction, CreateCommit, Respond, Idle, Ask, BaseInv, TypeOK, RequestsOK
<1>7. ASSUME NEW h \in Handlers, DeleteNodeRow(h)
      PROVE  LockOK'
  BY <1>7 DEF LockOK, InTransaction, DeleteNodeRow, Respond, Idle, Ask, BaseInv, TypeOK, RequestsOK
<1>8. ASSUME NEW h \in Handlers, DeleteCommit(h) \/ AddPort(h) \/ AddCommit(h) \/ RemoveCommit(h)
      PROVE  LockOK'
  <2>1. UNCHANGED <<lock, present>>
    BY <1>8 DEF DeleteCommit, AddPort, AddCommit, RemoveCommit
  <2>2. Respond(h) \/ \E p \in Ports : Goto(h, "addCommit", p)
    BY <1>8 DEF DeleteCommit, AddPort, AddCommit, RemoveCommit, FirstFreePort, FreePorts
  <2>3. /\ \A k \in Handlers \ {h} : req'[k] = req[k]
        /\ req'[h].pc \in {"idle", "addCommit"}
    BY <2>2 DEF Goto, Respond, Idle, Ask, BaseInv, TypeOK
  <2>. QED  BY <2>1, <2>3 DEF LockOK, InTransaction
<1>9. ASSUME NEW h \in Handlers, Abort(h)
      PROVE  LockOK'
  <2>1. \A k \in Handlers \ {h} : req'[k] = req[k]
    BY <1>9 DEF Abort, Respond, BaseInv, TypeOK
  <2>2. req'[h].pc = "idle"
    BY <1>9 DEF Abort, Respond, Idle, Ask, BaseInv, TypeOK
  <2>3. \A k \in Handlers \ {h} : InTransaction(k) => lock'[req[k].node] = lock[req[k].node]
    BY <1>9 DEF Abort, Unlocked, LockOK, InTransaction, BaseInv, TypeOK, RequestsOK
  <2>. QED  BY <1>9, <2>1, <2>2, <2>3 DEF LockOK, InTransaction, Abort
<1>10. CASE Crash
  BY <1>10 DEF LockOK, InTransaction, Crash, Idle, Ask
<1>. QED
  BY <1>1, <1>2, <1>3, <1>4, <1>5, <1>6, <1>7, <1>8, <1>9, <1>10 DEF Next, Step

\* Two transactions on one node exclude one another.
LEMMA OneTransaction ==
  ASSUME LockOK, NEW h \in Handlers, NEW k \in Handlers,
         InTransaction(h), InTransaction(k), req[h].node = req[k].node
  PROVE  h = k
BY DEF LockOK

LEMMA HostsStep ==
  ASSUME BaseInv, LockOK, HostsExist, [Next]_vars
  PROVE  HostsExist'
<1>1. ASSUME NEW h \in Handlers, CreateCommit(h)
      PROVE  HostsExist'
  <2>1. req[h].node \in present /\ present' = present
    BY <1>1 DEF CreateCommit, LockOK, InTransaction
  <2>2. \A s \in Servers : host'[s] = host[s] \/ host'[s] = req[h].node
    BY <1>1 DEF CreateCommit, BaseInv, TypeOK
  <2>. QED  BY <2>1, <2>2 DEF HostsExist, Live
<1>2. ASSUME NEW h \in Handlers, DeleteCommit(h)
      PROVE  HostsExist'
  BY <1>2 DEF HostsExist, Live, DeleteCommit, BaseInv, TypeOK
<1>3. ASSUME NEW h \in Handlers, DeleteNodeRow(h)
      PROVE  HostsExist'
  BY <1>3 DEF HostsExist, Live, Hosted, DeleteNodeRow, BaseInv, TypeOK
<1>4. CASE UNCHANGED host /\ present \subseteq present'
  BY <1>4 DEF HostsExist, Live
<1>. QED
  BY <1>1, <1>2, <1>3, <1>4
  DEF Next, NodesController, Arrive, ServersPage, AllocationsSettings, Step, vars, CreateNode, SetMaintenance, HealthCheck,
      DeleteNodeCount, CreatePlace, CreateLock, CreatePort, DeleteRead, AddRead, AddPort,
      AddCommit, RemoveRead, RemoveCommit, Abort, Crash

LEMMA UniqueStep ==
  ASSUME BaseInv, RowsUnique, [Next]_vars
  PROVE  RowsUnique'
<1>1. ASSUME NEW h \in Handlers, NEW primary \in BOOLEAN, Insert(h, primary),
             req[h].pc \in {"createCommit", "addCommit"}, req[h].port \notin UsedPorts(req[h].node)
      PROVE  RowsUnique'
  <2>1. PICK g \in Generations : rows' = rows \cup
          {Allocation(req[h].node, req[h].port, g, req[h].server, primary)}
    BY <1>1, InsertRow
  <2>. QED  BY <1>1, <2>1 DEF RowsUnique, UsedPorts, Allocation
<1>2. ASSUME NEW h \in Handlers, DeleteCommit(h)
      PROVE  RowsUnique'
  <2>1. CASE rows' = rows
    BY <2>1 DEF RowsUnique
  <2>2. CASE rows' = {IF row.server = req[h].server THEN Orphan(row) ELSE row : row \in rows}
    BY <2>2 DEF RowsUnique, Orphan, Allocation
  <2>. QED  BY <1>2, <2>1, <2>2 DEF DeleteCommit
<1>3. CASE rows' \subseteq rows
  BY <1>3 DEF RowsUnique
<1>. QED
  BY <1>1, <1>2, <1>3, RowsFrame DEF CreateCommit, AddCommit, RemoveCommit, DeleteNodeRow

\* A removal refers to the row it read, or to none: a later row on the same
\* port has another id.
LEMMA RemovalsStep ==
  ASSUME BaseInv, RowsUnique, RemovalsOK, [Next]_vars
  PROVE  RemovalsOK'
<1>1. ASSUME NEW h \in Handlers, NEW primary \in BOOLEAN, Insert(h, primary), Respond(h),
             req[h].pc \in {"createCommit", "addCommit"}
      PROVE  RemovalsOK'
  <2>1. PICK g \in Generations :
          /\ FreshGen(req[h].node, req[h].port, g)
          /\ rows' = rows \cup {Allocation(req[h].node, req[h].port, g, req[h].server, primary)}
    BY <1>1, InsertRow
  <2>2. \A k \in Handlers : req'[k].pc = "remove" => k # h /\ req'[k] = req[k]
    BY <1>1 DEF Respond, Idle, Ask, BaseInv, TypeOK
  <2>. QED  BY <2>1, <2>2 DEF RemovalsOK, FreshGen, Allocation
<1>2. ASSUME NEW h \in Handlers, DeleteCommit(h)
      PROVE  RemovalsOK'
  <2>1. \A k \in Handlers : req'[k].pc = "remove" => k # h /\ req'[k] = req[k]
    BY <1>2 DEF DeleteCommit, Respond, Idle, Ask, BaseInv, TypeOK
  <2>2. CASE rows' = rows
    BY <2>1, <2>2 DEF RemovalsOK
  <2>3. CASE rows' = {IF row.server = req[h].server THEN Orphan(row) ELSE row : row \in rows}
    BY <2>1, <2>3 DEF RemovalsOK, Orphan, Allocation
  <2>. QED  BY <1>2, <2>2, <2>3 DEF DeleteCommit
<1>3. ASSUME NEW h \in Handlers, NEW row \in rows, RemoveRead(h, row)
      PROVE  RemovalsOK'
  <2>1. \A k \in Handlers : k # h => req'[k] = req[k]
    BY <1>3 DEF RemoveRead, BaseInv, TypeOK
  <2>2. req'[h] = Ask("remove", row.server, row.node, row.port, row.gen)
    BY <1>3 DEF RemoveRead, BaseInv, TypeOK
  <2>3. \A row2 \in rows : row2.node = row.node /\ row2.port = row.port => ~row2.primary
    BY <1>3 DEF RemoveRead, RowsUnique
  <2>4. rows' = rows
    BY <1>3 DEF RemoveRead
  <2>. QED  BY <2>1, <2>2, <2>3, <2>4 DEF RemovalsOK, Ask
<1>4. CASE /\ rows' \subseteq rows
           /\ \A k \in Handlers : req'[k].pc = "remove" => req'[k] = req[k]
  BY <1>4 DEF RemovalsOK
<1>5. ASSUME NEW h \in Handlers, \/ RemoveCommit(h) \/ DeleteNodeRow(h) \/ AddPort(h)
                                 \/ CreateLock(h) \/ CreatePort(h) \/ Abort(h)
      PROVE  RemovalsOK'
  <2>1. rows' \subseteq rows
    BY <1>5 DEF RemoveCommit, DeleteNodeRow, AddPort, CreateLock, CreatePort, Abort
  <2>2. \/ Respond(h)
        \/ \E p \in Ports \cup {None}, pc \in {"createPort", "createCommit", "addCommit"} :
             Goto(h, pc, p)
    BY <1>5 DEF RemoveCommit, DeleteNodeRow, AddPort, CreateLock, CreatePort, Abort, FirstFreePort,
                FreePorts
  <2>3. \A k \in Handlers : req'[k].pc = "remove" => req'[k] = req[k]
    BY <2>2 DEF Respond, Goto, Idle, Ask, BaseInv, TypeOK
  <2>. QED  BY <2>1, <2>3, <1>4
<1>6. ASSUME NEW h \in Handlers, CreateCommit(h) \/ AddCommit(h)
      PROVE  RemovalsOK'
  <2>1. CASE UNCHANGED rows
    <3>1. \A k \in Handlers : req'[k].pc = "remove" => req'[k] = req[k]
      <4>1. Respond(h)
        BY <1>6 DEF CreateCommit, AddCommit
      <4>. QED  BY <4>1 DEF Respond, Idle, Ask, BaseInv, TypeOK
    <3>. QED  BY <2>1, <3>1, <1>4
  <2>2. CASE Insert(h, TRUE) \/ Insert(h, FALSE)
    BY <1>1, <1>6, <2>2 DEF CreateCommit, AddCommit
  <2>. QED  BY <1>6, <2>1, <2>2 DEF CreateCommit, AddCommit
<1>7. ASSUME NEW h \in Handlers,
             \/ \E n \in Nodes : DeleteNodeCount(h, n)
             \/ \E s \in Servers : CreatePlace(h, s) \/ DeleteRead(h, s) \/ AddRead(h, s)
      PROVE  RemovalsOK'
  <2>1. rows' = rows
    BY <1>7 DEF DeleteNodeCount, CreatePlace, DeleteRead, AddRead
  <2>2. \A k \in Handlers : req'[k].pc = "remove" => req'[k] = req[k]
    <3>1. \E s, n, pc : /\ pc \in {"createLock", "delete", "addPort", "nodeDelete"}
                        /\ req' = [req EXCEPT ![h] = Ask(pc, s, n, None, 0)]
      BY <1>7 DEF DeleteNodeCount, CreatePlace, DeleteRead, AddRead, Begin
    <3>. QED  BY <3>1 DEF Ask, BaseInv, TypeOK
  <2>. QED  BY <2>1, <2>2, <1>4
<1>8. CASE Crash
  BY <1>8 DEF RemovalsOK, Crash, Idle, Ask
<1>9. ASSUME NEW n \in Nodes, NodesController(n)
      PROVE  RemovalsOK'
  BY <1>9 DEF RemovalsOK, NodesController, CreateNode, SetMaintenance, HealthCheck
<1>10. CASE UNCHANGED vars
  BY <1>10 DEF RemovalsOK, vars
<1>. QED
  BY <1>2, <1>3, <1>5, <1>6, <1>7, <1>8, <1>9, <1>10 DEF Next, Arrive, ServersPage, AllocationsSettings, Step

LEMMA PortLostStep ==
  ASSUME BaseInv, LockOK, PortLostOnlyToAdd, [Next]_vars
  PROVE  PortLostOnlyToAdd'
<1>1. ASSUME NEW h \in Handlers, Insert(h, FALSE), AddCommit(h)
      PROVE  PortLostOnlyToAdd'
  <2>1. PICK g \in Generations : rows' = rows \cup
          {Allocation(req[h].node, req[h].port, g, req[h].server, FALSE)}
    BY <1>1 DEF Insert
  <2>2. \A k \in Handlers : req'[k].pc = "createCommit" => req'[k] = req[k]
    BY <1>1 DEF AddCommit, Respond, Idle, Ask, BaseInv, TypeOK
  <2>. QED  BY <2>1, <2>2 DEF PortLostOnlyToAdd, Allocation
<1>2. ASSUME NEW h \in Handlers, Insert(h, TRUE), CreateCommit(h)
      PROVE  PortLostOnlyToAdd'
  <2>1. PICK g \in Generations : rows' = rows \cup
          {Allocation(req[h].node, req[h].port, g, req[h].server, TRUE)}
    BY <1>2 DEF Insert
  <2>2. \A k \in Handlers : req'[k].pc = "createCommit" => k # h /\ req'[k] = req[k]
    BY <1>2 DEF CreateCommit, Respond, Idle, Ask, BaseInv, TypeOK
  <2>3. \A k \in Handlers \ {h} : req[k].pc = "createCommit" => req[k].node # req[h].node
    BY <1>2, OneTransaction DEF CreateCommit, InTransaction
  <2>. QED  BY <2>1, <2>2, <2>3 DEF PortLostOnlyToAdd, Allocation
<1>3. ASSUME NEW h \in Handlers, DeleteCommit(h)
      PROVE  PortLostOnlyToAdd'
  <2>1. \A k \in Handlers : req'[k].pc = "createCommit" => req'[k] = req[k]
    BY <1>3 DEF DeleteCommit, Respond, Idle, Ask, BaseInv, TypeOK
  <2>2. CASE rows' = rows
    BY <2>1, <2>2 DEF PortLostOnlyToAdd
  <2>3. CASE rows' = {IF row.server = req[h].server THEN Orphan(row) ELSE row : row \in rows}
    BY <2>1, <2>3 DEF PortLostOnlyToAdd, Orphan, Allocation
  <2>. QED  BY <1>3, <2>2, <2>3 DEF DeleteCommit
<1>4. CASE /\ rows' \subseteq rows
           /\ \A k \in Handlers : req'[k].pc = "createCommit" => req'[k] = req[k]
  BY <1>4 DEF PortLostOnlyToAdd
<1>5. ASSUME NEW h \in Handlers, CreatePort(h)
      PROVE  PortLostOnlyToAdd'
  <2>1. CASE Respond(h)
    BY <1>4, <1>5, <2>1 DEF CreatePort, Respond, Idle, Ask, BaseInv, TypeOK
  <2>2. CASE \E p \in FirstFreePort(req[h].node) : Goto(h, "createCommit", p)
    <3>1. PICK p \in FreePorts(req[h].node) : Goto(h, "createCommit", p)
      BY <2>2 DEF FirstFreePort
    <3>2. \A row \in rows : row.node = req[h].node => row.port # p
      BY DEF FreePorts, UsedPorts
    <3>3. req'[h].node = req[h].node /\ req'[h].port = p
      BY <3>1 DEF Goto, Ask, BaseInv, TypeOK
    <3>4. \A k \in Handlers \ {h} : req'[k] = req[k]
      BY <3>1 DEF Goto, BaseInv, TypeOK
    <3>5. rows' = rows
      BY <1>5 DEF CreatePort
    <3>. QED  BY <3>2, <3>3, <3>4, <3>5 DEF PortLostOnlyToAdd
  <2>. QED  BY <1>5, <2>1, <2>2 DEF CreatePort
<1>6. ASSUME NEW h \in Handlers, \/ RemoveCommit(h) \/ DeleteNodeRow(h) \/ AddPort(h)
                                 \/ CreateLock(h) \/ Abort(h)
                                 \/ (CreateCommit(h) \/ AddCommit(h)) /\ UNCHANGED rows
      PROVE  PortLostOnlyToAdd'
  <2>1. rows' \subseteq rows
    BY <1>6 DEF RemoveCommit, DeleteNodeRow, AddPort, CreateLock, Abort
  <2>2. Respond(h) \/ \E p, pc : pc \in {"createPort", "addCommit"} /\ Goto(h, pc, p)
    BY <1>6 DEF RemoveCommit, DeleteNodeRow, AddPort, CreateLock, Abort, CreateCommit, AddCommit
  <2>3. \A k \in Handlers : req'[k].pc = "createCommit" => req'[k] = req[k]
    BY <2>2 DEF Respond, Goto, Idle, Ask, BaseInv, TypeOK
  <2>. QED  BY <2>1, <2>3, <1>4
<1>7. ASSUME NEW h \in Handlers, Arrive(h)
      PROVE  PortLostOnlyToAdd'
  <2>1. rows' = rows
    BY <1>7 DEF Arrive, ServersPage, AllocationsSettings, DeleteNodeCount, CreatePlace, DeleteRead, AddRead, RemoveRead
  <2>2. \E s, n, p, g, pc : /\ pc \in {"createLock", "delete", "addPort", "nodeDelete", "remove"}
                            /\ req' = [req EXCEPT ![h] = Ask(pc, s, n, p, g)]
    BY <1>7 DEF Arrive, ServersPage, AllocationsSettings, DeleteNodeCount, CreatePlace, DeleteRead, AddRead, RemoveRead, Begin
  <2>3. \A k \in Handlers : req'[k].pc = "createCommit" => req'[k] = req[k]
    BY <2>2 DEF Ask, BaseInv, TypeOK
  <2>. QED  BY <2>1, <2>3, <1>4
<1>8. CASE Crash
  BY <1>8 DEF PortLostOnlyToAdd, Crash, Idle, Ask
<1>9. ASSUME NEW n \in Nodes, NodesController(n)
      PROVE  PortLostOnlyToAdd'
  BY <1>9 DEF PortLostOnlyToAdd, NodesController, CreateNode, SetMaintenance, HealthCheck
<1>10. CASE UNCHANGED vars
  BY <1>10 DEF PortLostOnlyToAdd, vars
<1>11. ASSUME NEW h \in Handlers, CreateCommit(h) \/ AddCommit(h)
       PROVE  PortLostOnlyToAdd'
  BY <1>1, <1>2, <1>6, <1>11 DEF CreateCommit, AddCommit
<1>. QED
  BY <1>3, <1>5, <1>6, <1>7, <1>8, <1>9, <1>10, <1>11 DEF Next, Step

\* What an insert adds, field by field.
LEMMA InsertedRow ==
  ASSUME NEW h \in Handlers, NEW primary \in BOOLEAN, Insert(h, primary)
  PROVE  \E new : /\ rows' = rows \cup {new}
                  /\ new.server = req[h].server /\ new.node = req[h].node
                  /\ new.port = req[h].port /\ new.primary = primary
<1>1. PICK g \in Generations : rows' = rows \cup
        {Allocation(req[h].node, req[h].port, g, req[h].server, primary)}
  BY DEF Insert
<1>2. PICK new : new = Allocation(req[h].node, req[h].port, g, req[h].server, primary)
  OBVIOUS
<1>3. /\ new.server = req[h].server /\ new.node = req[h].node
      /\ new.port = req[h].port /\ new.primary = primary
  BY <1>2 DEF Allocation
<1>. QED  BY <1>1, <1>2, <1>3

\* A step that neither places nor removes a server leaves its primary rows alone.
LEMMA PrimaryKept ==
  ASSUME BaseInv, AllocationsFollowServer, RemovalsOK, [Next]_vars,
         NEW t \in Servers, host[t] # None, host'[t] # None
  PROVE  /\ host'[t] = host[t]
         /\ PrimaryRows(t)' = PrimaryRows(t)
<1>. DEFINE Kept == host'[t] = host[t] /\ \A row : row \in PrimaryRows(t)' <=> row \in PrimaryRows(t)
<1>1. ASSUME NEW h \in Handlers, CreateCommit(h)
      PROVE  Kept
  <2>1. CASE UNCHANGED <<rows, host, alloc>>
    BY <2>1 DEF PrimaryRows
  <2>2. CASE Insert(h, TRUE) /\ host' = [host EXCEPT ![req[h].server] = req[h].node]
    <3>1. req[h].server \in Servers /\ req[h].server # t
      BY <1>1 DEF BaseInv, TypeOK, RequestsOK, CreateCommit, Creating, Request
    <3>2. PICK new : rows' = rows \cup {new} /\ new.server # t
      BY <2>2, <3>1, InsertedRow
    <3>3. host'[t] = host[t]
      BY <2>2, <3>1 DEF BaseInv, TypeOK
    <3>. QED  BY <3>2, <3>3 DEF PrimaryRows
  <2>. QED  BY <1>1, <2>1, <2>2 DEF CreateCommit
<1>2. ASSUME NEW h \in Handlers, DeleteCommit(h)
      PROVE  Kept
  <2>1. CASE UNCHANGED <<alloc, host, rows>>
    BY <2>1 DEF PrimaryRows
  <2>2. CASE /\ host' = [host EXCEPT ![req[h].server] = None]
             /\ rows' = {IF row.server = req[h].server THEN Orphan(row) ELSE row : row \in rows}
    <3>1. PICK s : s = req[h].server
      OBVIOUS
    <3>2. t # s /\ host'[t] = host[t]
      BY <2>2, <3>1 DEF BaseInv, TypeOK
    <3>3. t # None
      BY NoneAssumption
    <3>. QED  BY <2>2, <3>1, <3>2, <3>3 DEF PrimaryRows, Orphan, Allocation
  <2>. QED  BY <1>2, <2>1, <2>2 DEF DeleteCommit
<1>3. ASSUME NEW h \in Handlers, AddCommit(h)
      PROVE  Kept
  <2>1. CASE UNCHANGED rows
    BY <1>3, <2>1 DEF PrimaryRows, AddCommit
  <2>2. CASE Insert(h, FALSE)
    <3>1. PICK new : rows' = rows \cup {new} /\ ~new.primary
      BY <2>2, InsertedRow
    <3>. QED  BY <1>3, <3>1 DEF PrimaryRows, AddCommit
  <2>. QED  BY <1>3, <2>1, <2>2 DEF AddCommit
<1>4. ASSUME NEW h \in Handlers, RemoveCommit(h)
      PROVE  Kept
  BY <1>4 DEF PrimaryRows, RemovalsOK, RemoveCommit
<1>5. ASSUME NEW h \in Handlers, DeleteNodeRow(h)
      PROVE  Kept
  <2>1. CASE UNCHANGED rows
    BY <1>5, <2>1 DEF PrimaryRows, DeleteNodeRow
  <2>2. CASE Hosted(req[h].node) = {} /\ rows' = {row \in rows : row.node # req[h].node}
    <3>1. host[t] # req[h].node
      BY <2>2 DEF Hosted
    <3>2. \A row \in PrimaryRows(t) : row.node = host[t]
      BY DEF PrimaryRows, AllocationsFollowServer
    <3>. QED  BY <1>5, <2>2, <3>1, <3>2 DEF PrimaryRows, DeleteNodeRow
  <2>. QED  BY <1>5, <2>1, <2>2 DEF DeleteNodeRow
<1>6. CASE UNCHANGED <<rows, host>>
  BY <1>6 DEF PrimaryRows
<1>7. Kept
  BY <1>1, <1>2, <1>3, <1>4, <1>5, <1>6, RowsFrame
<1>. QED  BY <1>7

\* A create that commits gives its server one primary row, on a port of its
\* node that no row had.
LEMMA PrimaryBorn ==
  ASSUME BaseInv, AllocationsFollowServer, NEW h \in Handlers, CreateCommit(h), host' # host
  PROVE  \E s \in Servers, n \in Nodes, new \in rows' :
           /\ s = req[h].server /\ n = req[h].node /\ host[s] = None
           /\ host' = [host EXCEPT ![s] = n]
           /\ alloc' = [alloc EXCEPT ![n] = [r \in Resources |-> alloc[n][r] + Demand[s][r]]]
           /\ PrimaryRows(s)' = {new} /\ new.node = n /\ new.port \in Ports \ UsedPorts(n)
<1>1. PICK s \in Servers, n \in Nodes :
        /\ s = req[h].server /\ n = req[h].node
        /\ host[s] = None /\ req[h].port \in Ports /\ req[h].pc = "createCommit"
  BY DEF BaseInv, TypeOK, RequestsOK, CreateCommit, Creating, Request
<1>2. /\ req[h].port \notin UsedPorts(n)
      /\ Insert(h, TRUE)
      /\ host' = [host EXCEPT ![s] = n]
      /\ alloc' = [alloc EXCEPT ![n] = [r \in Resources |-> alloc[n][r] + Demand[s][r]]]
  BY <1>1 DEF CreateCommit
<1>3. PICK new : /\ rows' = rows \cup {new}
                 /\ new.server = req[h].server /\ new.node = req[h].node
                 /\ new.port = req[h].port /\ new.primary = TRUE
  BY <1>2, InsertedRow
<1>4. \A row \in rows : row.server # s
  BY <1>1 DEF AllocationsFollowServer, BaseInv, TypeOK, Row
<1>5. PrimaryRows(s)' = {new}
  BY <1>1, <1>3, <1>4 DEF PrimaryRows
<1>6. new \in rows' /\ new.node = n /\ new.port \in Ports \ UsedPorts(n)
  BY <1>1, <1>2, <1>3
<1>. QED  BY <1>1, <1>2, <1>5, <1>6

\* A server becomes live by a create only.
LEMMA OnlyCreatePlaces ==
  ASSUME BaseInv, [Next]_vars, NEW t \in Servers, host[t] = None, host'[t] # None
  PROVE  \E h \in Handlers : CreateCommit(h) /\ host' # host /\ req[h].server = t
<1>1. ASSUME NEW h \in Handlers, DeleteCommit(h)
      PROVE  FALSE
  BY <1>1, DeleteCommitPlacement DEF BaseInv, TypeOK
<1>2. ASSUME NEW h \in Handlers, CreateCommit(h)
      PROVE  host' # host /\ req[h].server = t
  BY <1>2, CreateCommitPlacement DEF BaseInv, TypeOK
<1>. QED  BY <1>1, <1>2, PlacementFrame

LEMMA PrimaryStep ==
  ASSUME BaseInv, AllocationsFollowServer, RemovalsOK, OnePrimary, [Next]_vars
  PROVE  OnePrimary'
<1>. SUFFICES ASSUME NEW t \in Servers, host'[t] # None
              PROVE  \E row \in rows' : PrimaryRows(t)' = {row} /\ row.node = host'[t]
  BY DEF OnePrimary, Live
<1>1. CASE host[t] # None
  <2>1. PICK row \in rows : PrimaryRows(t) = {row} /\ row.node = host[t]
    BY <1>1 DEF OnePrimary, Live
  <2>2. PrimaryRows(t)' = {row} /\ row.node = host'[t]
    BY <1>1, <2>1, PrimaryKept
  <2>3. row \in rows'
    BY <2>2 DEF PrimaryRows
  <2>. QED  BY <2>2, <2>3
<1>2. CASE host[t] = None
  <2>1. PICK h \in Handlers : CreateCommit(h) /\ host' # host /\ req[h].server = t
    BY <1>2, OnlyCreatePlaces
  <2>2. PICK n \in Nodes, new \in rows' : /\ host' = [host EXCEPT ![t] = n]
                                          /\ PrimaryRows(t)' = {new} /\ new.node = n
    BY <2>1, PrimaryBorn
  <2>. QED  BY <2>2 DEF BaseInv, TypeOK
<1>. QED  BY <1>1, <1>2

-----------------------------------------------------------------------------
(* Capacity: what requests in flight can add to a node.                    *)

LEMMA LimitInt ==
  ASSUME NEW n \in Nodes, NEW r \in Resources
  PROVE  Limit(n, r) \in Int
<1>1. Physical[n][r] \in Nat /\ Overallocate[n][r] \in Nat
  BY ResourceAssumption
<1>2. \A a, b \in Nat : (a * (100 + b)) \div 100 \in Int
  OBVIOUS
<1>. QED  BY <1>1, <1>2 DEF Limit

LEMMA PendingServers ==
  ASSUME NEW n \in Nodes
  PROVE  Pending(n) \in SUBSET Servers
BY DEF Pending

\* A request that is not a create leaves room for one of the others.
LEMMA PendingFew ==
  ASSUME BaseInv, NEW h \in Handlers, ~Creating(h), NEW n \in Nodes
  PROVE  Cardinality(Pending(n)) <= Cardinality(Handlers) - 1
<1>. DEFINE others == Handlers \ {h}
            asker == [s \in Pending(n) |-> CHOOSE k \in others : Creating(k) /\ req[k].server = s]
<1>1. \A s \in Pending(n) : \E k \in others : Creating(k) /\ req[k].server = s
  BY DEF Pending
<1>2. \A s \in Pending(n) : asker[s] \in others /\ req[asker[s]].server = s
  BY <1>1
<1>3. asker \in Injection(Pending(n), others)
  BY <1>2 DEF Injection, IsInjective
<1>4. IsFiniteSet(others) /\ Cardinality(others) = Cardinality(Handlers) - 1
  BY FiniteAssumption, FS_RemoveElement
<1>. HIDE DEF asker, others
<1>. QED  BY <1>3, <1>4, FS_Injection

\* Neither the counters nor the pending servers grew.
LEMMA PendingShrinks ==
  ASSUME BaseInv, BaseInv', PendingBounded, NEW n \in Nodes, NEW r \in Resources,
         alloc'[n][r] <= alloc[n][r], Pending(n)' \subseteq Pending(n)
  PROVE  alloc'[n][r] + Load(Pending(n)', r)
           <= Limit(n, r) + (Cardinality(Handlers) - 1) * MaxDemand
<1>. DEFINE bound == Limit(n, r) + (Cardinality(Handlers) - 1) * MaxDemand
<1>1. Cardinality(Handlers) \in Nat /\ MaxDemand \in Nat
  BY FiniteAssumption, FS_CardinalityType, ResourceAssumption
<1>2. bound \in Int
  BY <1>1, LimitInt
<1>3. /\ alloc[n][r] \in Int /\ alloc'[n][r] \in Int
      /\ Load(Pending(n), r) \in Nat /\ Load(Pending(n)', r) \in Nat
  <2>1. alloc[n][r] \in Int /\ alloc'[n][r] \in Int
    BY DEF BaseInv, TypeOK
  <2>2. Pending(n) \in SUBSET Servers /\ Pending(n)' \in SUBSET Servers
    BY PendingServers
  <2>. QED  BY <2>1, <2>2, UnitsFinite
<1>4. Load(Pending(n)', r) <= Load(Pending(n), r)
  BY LoadMonotone, PendingServers
<1>5. alloc[n][r] + Load(Pending(n), r) <= bound
  BY DEF PendingBounded
<1>. HIDE DEF bound
<1>6. alloc'[n][r] + Load(Pending(n)', r) <= bound
  BY <1>2, <1>3, <1>4, <1>5
<1>. QED  BY <1>6 DEF bound

\* A request that answers, or moves on, adds nothing.
LEMMA PendingFrame ==
  ASSUME BaseInv,
         \A h \in Handlers : Creating(h)' => /\ Creating(h)
                                             /\ req'[h].server = req[h].server
                                             /\ req'[h].node = req[h].node,
         NEW n \in Nodes
  PROVE  Pending(n)' \subseteq Pending(n)
BY DEF Pending

LEMMA PendingStep ==
  ASSUME BaseInv, BaseInv', PendingBounded, [Next]_vars
  PROVE  PendingBounded'
<1>. SUFFICES ASSUME NEW m \in Nodes, NEW r \in Resources
              PROVE  alloc'[m][r] + Load(Pending(m)', r)
                       <= Limit(m, r) + (Cardinality(Handlers) - 1) * MaxDemand
  BY DEF PendingBounded, Load, Units, Limit
<1>. DEFINE K == Cardinality(Handlers)
<1>1. ASSUME UNCHANGED alloc,
             \A k \in Handlers : Creating(k)' => /\ Creating(k)
                                                 /\ req'[k].server = req[k].server
                                                 /\ req'[k].node = req[k].node
      PROVE  alloc'[m][r] + Load(Pending(m)', r) <= Limit(m, r) + (K - 1) * MaxDemand
  <2>1. Pending(m)' \subseteq Pending(m)
    BY <1>1, PendingFrame
  <2>2. alloc'[m][r] <= alloc[m][r]
    BY <1>1 DEF BaseInv, TypeOK
  <2>. QED  BY <2>1, <2>2, PendingShrinks
<1>2. ASSUME NEW h \in Handlers, NEW s \in Servers, CreatePlace(h, s)
      PROVE  alloc'[m][r] + Load(Pending(m)', r) <= Limit(m, r) + (K - 1) * MaxDemand
  <2>1. PICK n \in Eligible(s) : Begin(h, "createLock", s, n)
    BY <1>2 DEF CreatePlace, LeastLoaded
  <2>2. alloc' = alloc /\ ~Creating(h) /\ n \in Nodes
    BY <1>2, <2>1 DEF CreatePlace, Creating, Eligible, BaseInv, TypeOK
  <2>3. /\ \A k \in Handlers \ {h} : req'[k] = req[k]
        /\ req'[h].server = s /\ req'[h].node = n
    BY <2>1 DEF Begin, Ask, BaseInv, TypeOK
  <2>4. CASE m # n
    <3>1. Pending(m)' \subseteq Pending(m)
      BY <2>3, <2>4 DEF Pending, Creating
    <3>2. alloc'[m][r] <= alloc[m][r]
      BY <2>2 DEF BaseInv, TypeOK
    <3>. QED  BY <3>1, <3>2, PendingShrinks
  <2>5. CASE m = n
    <3>1. Pending(m)' \subseteq Pending(m) \cup {s} /\ s \notin Pending(m)
      <4>1. \A k \in Handlers : req[k].server # s
        BY <1>2 DEF CreatePlace, BaseInv, RequestsOK
      <4>. QED  BY <2>2, <2>3, <2>5, <4>1 DEF Pending, Creating
    <3>2. Load(Pending(m)', r) <= Load(Pending(m) \cup {s}, r)
      <4>1. PICK ss \in SUBSET Servers : ss = Pending(m) \cup {s}
        BY PendingServers
      <4>2. PICK tt \in SUBSET ss : tt = Pending(m)'
        BY <3>1, <4>1
      <4>3. Load(tt, r) <= Load(ss, r)
        BY LoadMonotone
      <4>. QED  BY <4>1, <4>2, <4>3
    <3>3. Load(Pending(m) \cup {s}, r) = Load(Pending(m), r) + Demand[s][r]
      <4>1. PICK ss \in SUBSET Servers : ss = Pending(m)
        BY PendingServers
      <4>2. s \notin ss
        BY <3>1, <4>1
      <4>3. Load(ss \cup {s}, r) = Load(ss, r) + Demand[s][r]
        BY <4>2, LoadAdd
      <4>. QED  BY <4>1, <4>3
    <3>4. Load(Pending(m), r) <= (K - 1) * MaxDemand
      <4>1. Cardinality(Pending(m)) <= K - 1
        BY <2>2, PendingFew
      <4>2. Load(Pending(m), r) <= Cardinality(Pending(m)) * MaxDemand
        BY LoadBounded, PendingServers
      <4>3. /\ K \in Nat /\ MaxDemand \in Nat /\ Cardinality(Pending(m)) \in Nat
            /\ Load(Pending(m), r) \in Nat
        BY FiniteAssumption, FS_CardinalityType, UnitsFinite, PendingServers, ResourceAssumption
      <4>4. \A a, c \in Nat, b \in Int : a <= b => a * c <= b * c
        OBVIOUS
      <4>5. Cardinality(Pending(m)) * MaxDemand <= (K - 1) * MaxDemand
        BY <4>1, <4>3, <4>4, K - 1 \in Int
      <4>. QED  BY <4>2, <4>3, <4>5
    <3>5. alloc[m][r] + Demand[s][r] <= Limit(m, r)
      BY <2>1, <2>5 DEF Eligible
    <3>6. /\ alloc[m][r] \in Int /\ Demand[s][r] \in Nat /\ Limit(m, r) \in Int
          /\ Load(Pending(m), r) \in Nat /\ Load(Pending(m)', r) \in Nat
      <4>1. Pending(m) \in SUBSET Servers /\ Pending(m)' \in SUBSET Servers
        BY <3>1, PendingServers
      <4>2. alloc[m][r] \in Int
        BY DEF BaseInv, TypeOK
      <4>. QED  BY <4>1, <4>2, DemandBounded, LimitInt, UnitsFinite
    <3>7. (K - 1) * MaxDemand \in Int
      BY FiniteAssumption, FS_CardinalityType, ResourceAssumption
    <3>. HIDE DEF K
    <3>. QED  BY <2>2, <3>2, <3>3, <3>4, <3>5, <3>6, <3>7
  <2>. QED  BY <2>4, <2>5
<1>3. ASSUME NEW h \in Handlers, CreateCommit(h)
      PROVE  alloc'[m][r] + Load(Pending(m)', r) <= Limit(m, r) + (K - 1) * MaxDemand
  <2>1. Respond(h)
    BY <1>3 DEF CreateCommit
  <2>2. /\ \A k \in Handlers \ {h} : req'[k] = req[k]
        /\ ~Creating(h)'
    BY <2>1 DEF Respond, Idle, Ask, Creating, BaseInv, TypeOK
  <2>3. CASE UNCHANGED <<alloc, host>>
    BY <1>1, <2>2, <2>3 DEF Creating
  <2>4. CASE \E s \in Servers, n \in Nodes :
               /\ s = req[h].server /\ n = req[h].node /\ host[s] = None
               /\ alloc' = [alloc EXCEPT ![n] = [q \in Resources |-> alloc[n][q] + Demand[s][q]]]
    <3>1. PICK s \in Servers, n \in Nodes :
            /\ s = req[h].server /\ n = req[h].node
            /\ alloc' = [alloc EXCEPT ![n] = [q \in Resources |-> alloc[n][q] + Demand[s][q]]]
      BY <2>4
    <3>2. CASE m # n
      <4>1. alloc'[m] = alloc[m]
        BY <3>1, <3>2 DEF BaseInv, TypeOK
      <4>2. Pending(m)' \subseteq Pending(m)
        BY <2>2 DEF Pending, Creating
      <4>3. alloc'[m][r] <= alloc[m][r]
        BY <4>1 DEF BaseInv, TypeOK
      <4>. QED  BY <4>2, <4>3, PendingShrinks
    <3>3. CASE m = n
      <4>1. s \in Pending(m)
        BY <1>3, <3>1, <3>3 DEF Pending, Creating, CreateCommit
      <4>2. Pending(m)' \subseteq Pending(m) \ {s}
        <5>1. Creating(h)
          BY <1>3 DEF CreateCommit, Creating
        <5>2. \A k \in Handlers \ {h} : req[k].server # s
          BY <3>1, <5>1 DEF BaseInv, RequestsOK
        <5>. QED  BY <2>2, <5>2 DEF Pending, Creating
      <4>3. alloc'[m][r] = alloc[m][r] + Demand[s][r]
        BY <3>1, <3>3 DEF BaseInv, TypeOK
      <4>4. Load(Pending(m) \ {s}, r) = Load(Pending(m), r) - Demand[s][r]
        BY <4>1, LoadRemove, PendingServers
      <4>5. Load(Pending(m)', r) <= Load(Pending(m) \ {s}, r)
        BY <4>2, LoadMonotone, PendingServers, Pending(m) \ {s} \in SUBSET Servers
      <4>6. alloc[m][r] + Load(Pending(m), r) <= Limit(m, r) + (K - 1) * MaxDemand
        BY DEF PendingBounded
      <4>7. /\ alloc[m][r] \in Int /\ Demand[s][r] \in Nat /\ Limit(m, r) \in Int
            /\ Load(Pending(m), r) \in Nat /\ Load(Pending(m)', r) \in Nat
        <5>1. Pending(m) \in SUBSET Servers /\ Pending(m)' \in SUBSET Servers
          BY <4>2, PendingServers
        <5>2. alloc[m][r] \in Int
          BY DEF BaseInv, TypeOK
        <5>. QED  BY <5>1, <5>2, DemandBounded, LimitInt, UnitsFinite
      <4>8. (K - 1) * MaxDemand \in Int
        BY FiniteAssumption, FS_CardinalityType, ResourceAssumption
      <4>. HIDE DEF K
      <4>. QED  BY <4>3, <4>4, <4>5, <4>6, <4>7, <4>8
    <3>. QED  BY <3>2, <3>3
  <2>. QED  BY <1>3, <2>3, <2>4, CreateCommitPlacement
<1>4. ASSUME NEW h \in Handlers, DeleteCommit(h)
      PROVE  alloc'[m][r] + Load(Pending(m)', r) <= Limit(m, r) + (K - 1) * MaxDemand
  <2>1. Respond(h)
    BY <1>4 DEF DeleteCommit
  <2>2. /\ \A k \in Handlers \ {h} : req'[k] = req[k]
        /\ ~Creating(h)'
    BY <2>1 DEF Respond, Idle, Ask, Creating, BaseInv, TypeOK
  <2>3. Pending(m)' \subseteq Pending(m)
    BY <2>2 DEF Pending, Creating
  <2>4. alloc'[m][r] <= alloc[m][r]
    <3>1. CASE UNCHANGED <<alloc, host>>
      BY <3>1 DEF BaseInv, TypeOK
    <3>2. CASE \E s \in Servers, n \in Nodes :
            alloc' = [alloc EXCEPT ![n] = [q \in Resources |-> alloc[n][q] - Demand[s][q]]]
      <4>1. PICK s \in Servers, n \in Nodes :
              alloc' = [alloc EXCEPT ![n] = [q \in Resources |-> alloc[n][q] - Demand[s][q]]]
        BY <3>2
      <4>2. \/ alloc'[m] = alloc[m]
            \/ alloc'[m][r] = alloc[m][r] - Demand[s][r]
        BY <4>1 DEF BaseInv, TypeOK
      <4>3. alloc[m][r] \in Int /\ Demand[s][r] \in Nat
        BY DemandBounded DEF BaseInv, TypeOK
      <4>. QED  BY <4>2, <4>3
    <3>. QED  BY <1>4, <3>1, <3>2, DeleteCommitPlacement
  <2>. QED  BY <2>3, <2>4, PendingShrinks
<1>5. ASSUME NEW h \in Handlers, \/ CreateLock(h) \/ CreatePort(h) \/ AddPort(h) \/ AddCommit(h)
                                 \/ RemoveCommit(h) \/ DeleteNodeRow(h) \/ Abort(h)
      PROVE  alloc'[m][r] + Load(Pending(m)', r) <= Limit(m, r) + (K - 1) * MaxDemand
  <2>1. UNCHANGED alloc
    BY <1>5 DEF CreateLock, CreatePort, AddPort, AddCommit, RemoveCommit, DeleteNodeRow, Abort
  <2>2. \/ Respond(h)
        \/ Creating(h) /\ \E p, pc : Goto(h, pc, p)
        \/ \E p : Goto(h, "addCommit", p)
    BY <1>5 DEF CreateLock, CreatePort, AddPort, AddCommit, RemoveCommit, DeleteNodeRow, Abort,
                Creating
  <2>3. \A k \in Handlers : Creating(k)' => /\ Creating(k)
                                            /\ req'[k].server = req[k].server
                                            /\ req'[k].node = req[k].node
    BY <2>2 DEF Respond, Goto, Idle, Ask, Creating, BaseInv, TypeOK
  <2>. QED  BY <1>1, <2>1, <2>3
<1>6. ASSUME NEW h \in Handlers,
             \/ \E n \in Nodes : DeleteNodeCount(h, n)
             \/ \E s \in Servers : DeleteRead(h, s) \/ AddRead(h, s)
             \/ \E row \in rows : RemoveRead(h, row)
      PROVE  alloc'[m][r] + Load(Pending(m)', r) <= Limit(m, r) + (K - 1) * MaxDemand
  <2>1. UNCHANGED alloc
    BY <1>6 DEF DeleteNodeCount, DeleteRead, AddRead, RemoveRead
  <2>2. \E s, n, p, g, pc : /\ pc \in {"delete", "addPort", "nodeDelete", "remove"}
                            /\ req' = [req EXCEPT ![h] = Ask(pc, s, n, p, g)]
    BY <1>6 DEF DeleteNodeCount, DeleteRead, AddRead, RemoveRead, Begin
  <2>3. \A k \in Handlers : Creating(k)' => Creating(k) /\ req'[k] = req[k]
    BY <2>2 DEF Ask, Creating, BaseInv, TypeOK
  <2>. QED  BY <1>1, <2>1, <2>3
<1>7. CASE Crash
  <2>1. UNCHANGED alloc /\ \A k \in Handlers : ~Creating(k)'
    BY <1>7 DEF Crash, Creating, Idle, Ask
  <2>. QED  BY <1>1, <2>1
<1>8. ASSUME NEW n \in Nodes, NodesController(n)
      PROVE  alloc'[m][r] + Load(Pending(m)', r) <= Limit(m, r) + (K - 1) * MaxDemand
  <2>1. UNCHANGED <<alloc, req>>
    BY <1>8 DEF NodesController, CreateNode, SetMaintenance, HealthCheck
  <2>. QED  BY <1>1, <2>1 DEF Creating
<1>9. CASE UNCHANGED vars
  BY <1>1, <1>9 DEF vars, Creating
<1>. HIDE DEF K
<1>. QED
  BY <1>2, <1>3, <1>4, <1>5, <1>6, <1>7, <1>8, <1>9 DEF Next, Arrive, ServersPage, AllocationsSettings, Step, K

-----------------------------------------------------------------------------
(* The theorems.                                                           *)

LEMMA InitSafety == Init => SafetyInv
<1>. SUFFICES ASSUME Init PROVE SafetyInv
  OBVIOUS
<1>1. BaseInv
  BY InitBase
<1>2. /\ AllocationsFollowServer /\ LockOK /\ RowsUnique /\ RemovalsOK /\ PortLostOnlyToAdd
      /\ OnePrimary /\ HostsExist
  BY DEF Init, AllocationsFollowServer, LockOK, InTransaction, RowsUnique, RemovalsOK,
         PortLostOnlyToAdd, OnePrimary, HostsExist, Live, Idle, Ask
<1>3. ASSUME NEW n \in Nodes, NEW r \in Resources
      PROVE  Hosted(n) = {} /\ Pending(n) = {} /\ alloc[n][r] = 0
  BY DEF Init, Hosted, Pending, Creating, Idle, Ask
<1>4. AccountingExact
  BY <1>3, LoadEmpty DEF AccountingExact
<1>5. PendingBounded
  <2>. SUFFICES ASSUME NEW n \in Nodes, NEW r \in Resources
                PROVE  alloc[n][r] + Load(Pending(n), r)
                         <= Limit(n, r) + (Cardinality(Handlers) - 1) * MaxDemand
    BY DEF PendingBounded
  <2>1. alloc[n][r] + Load(Pending(n), r) = 0
    <3>1. Load(Pending(n), r) = 0
      BY <1>3, LoadEmpty
    <3>2. alloc[n][r] = 0
      BY <1>3
    <3>. QED  BY <3>1, <3>2
  <2>2. Limit(n, r) >= 0
    <3>1. Physical[n][r] \in Nat /\ Overallocate[n][r] \in Nat
      BY ResourceAssumption
    <3>2. \A a, b \in Nat : a * (100 + b) \in Nat
      OBVIOUS
    <3>3. \A c \in Nat : c \div 100 >= 0
      OBVIOUS
    <3>. QED  BY <3>1, <3>2, <3>3 DEF Limit
  <2>3. (Cardinality(Handlers) - 1) * MaxDemand >= 0
    <3>1. Cardinality(Handlers) \in Nat /\ Cardinality(Handlers) # 0 /\ MaxDemand \in Nat
      BY FiniteAssumption, FS_CardinalityType, FS_EmptySet, ResourceAssumption
    <3>2. \A a, b \in Nat : a * b >= 0
      OBVIOUS
    <3>. QED  BY <3>1, <3>2, Cardinality(Handlers) - 1 \in Nat
  <2>4. Limit(n, r) \in Int /\ (Cardinality(Handlers) - 1) * MaxDemand \in Int
    BY LimitInt, FiniteAssumption, FS_CardinalityType, ResourceAssumption
  <2>. QED  BY <2>1, <2>2, <2>3, <2>4
<1>. QED  BY <1>1, <1>2, <1>4, <1>5 DEF SafetyInv

LEMMA BaseStep ==
  ASSUME BaseInv, AllocationsFollowServer, [Next]_vars
  PROVE  BaseInv'
<1>1. CASE UNCHANGED vars
  BY <1>1, BaseStutter
<1>2. ASSUME NEW n \in Nodes, NodesController(n)
      PROVE  BaseInv'
  BY <1>2, BaseCreateNode, BaseSetMaintenance, BaseHealthCheck DEF NodesController
<1>3. ASSUME NEW h \in Handlers, Arrive(h)
      PROVE  BaseInv'
  BY <1>3, BaseDeleteNodeCount, BaseCreatePlace, BaseDeleteRead, BaseAddRead, BaseRemoveRead
     DEF Arrive, ServersPage, AllocationsSettings
<1>4. ASSUME NEW h \in Handlers, Step(h)
      PROVE  BaseInv'
  BY <1>4, BaseCreateLock, BaseCreatePort, BaseCreateCommit, BaseDeleteCommit, BaseAddPort,
     BaseAddCommit, BaseRemoveCommit, BaseDeleteNodeRow DEF Step
<1>5. ASSUME NEW h \in Handlers, Abort(h)
      PROVE  BaseInv'
  BY <1>5, BaseAbort
<1>6. CASE Crash
  BY <1>6, BaseCrash
<1>. QED  BY <1>1, <1>2, <1>3, <1>4, <1>5, <1>6 DEF Next

LEMMA SafetyStep == SafetyInv /\ [Next]_vars => SafetyInv'
<1>. SUFFICES ASSUME SafetyInv, [Next]_vars PROVE SafetyInv'
  OBVIOUS
<1>1. BaseInv'
  BY BaseStep DEF SafetyInv
<1>2. AllocationsFollowServer' /\ AccountingExact' /\ LockOK' /\ RowsUnique' /\ RemovalsOK'
  BY AllocationsStep, AccountingStep, LockStep, UniqueStep, RemovalsStep DEF SafetyInv
<1>3. PendingBounded' /\ PortLostOnlyToAdd' /\ OnePrimary' /\ HostsExist'
  BY <1>1, PendingStep, PortLostStep, PrimaryStep, HostsStep DEF SafetyInv
<1>. QED  BY <1>1, <1>2, <1>3 DEF SafetyInv

THEOREM SafetyInvariant == Spec => []SafetyInv
BY InitSafety, SafetyStep, PTL DEF Spec

\* Every variable keeps its type, in a fleet of any size.
THEOREM TypeCorrect == Spec => []TypeOK
<1>1. SafetyInv => TypeOK
  BY DEF SafetyInv, BaseInv
<1>. QED  BY <1>1, SafetyInvariant, PTL

\* The counters of every node stay the sum of its servers' limits, whatever
\* creates and deletes race, roll back or crash.
THEOREM AccountingCorrect == Spec => []AccountingExact
<1>1. SafetyInv => AccountingExact
  BY DEF SafetyInv
<1>. QED  BY <1>1, SafetyInvariant, PTL

\* With K requests in flight a node is overcommitted by less than K servers
\* of the largest size; one request at a time keeps every capacity.
THEOREM OvershootCorrect == Spec => []OvershootBounded
<1>1. SafetyInv => OvershootBounded
  <2>. SUFFICES ASSUME SafetyInv, NEW n \in Nodes, NEW r \in Resources
                PROVE  alloc[n][r] <= Limit(n, r) + (Cardinality(Handlers) - 1) * MaxDemand
    BY DEF OvershootBounded
  <2>. DEFINE bound == Limit(n, r) + (Cardinality(Handlers) - 1) * MaxDemand
  <2>1. alloc[n][r] + Load(Pending(n), r) <= bound
    BY DEF SafetyInv, PendingBounded
  <2>2. alloc[n][r] \in Int
    BY DEF SafetyInv, BaseInv, TypeOK
  <2>3. Load(Pending(n), r) \in Nat
    BY UnitsFinite, PendingServers
  <2>4. bound \in Int
    BY LimitInt, FiniteAssumption, FS_CardinalityType, ResourceAssumption
  <2>. HIDE DEF bound
  <2>5. alloc[n][r] <= bound
    BY <2>1, <2>2, <2>3, <2>4
  <2>. QED  BY <2>5 DEF bound
<1>. QED  BY <1>1, SafetyInvariant, PTL

\* Every live server keeps exactly one primary allocation, on its own node.
THEOREM PrimaryCorrect == Spec => []OnePrimary
<1>1. SafetyInv => OnePrimary
  BY DEF SafetyInv
<1>. QED  BY <1>1, SafetyInvariant, PTL

\* Every allocation that names a server names a live one, on its own node.
THEOREM AllocationsCorrect == Spec => []AllocationsFollowServer
<1>1. SafetyInv => AllocationsFollowServer
  BY DEF SafetyInv
<1>. QED  BY <1>1, SafetyInvariant, PTL

\* No node is deleted under a server.
THEOREM HostsCorrect == Spec => []HostsExist
<1>1. SafetyInv => HostsExist
  BY DEF SafetyInv
<1>. QED  BY <1>1, SafetyInvariant, PTL

\* A create loses the port it picked only to addAllocation, never to
\* another create.
THEOREM PortLossCorrect == Spec => []PortLostOnlyToAdd
<1>1. SafetyInv => PortLostOnlyToAdd
  BY DEF SafetyInv
<1>. QED  BY <1>1, SafetyInvariant, PTL

\* A request that creates a server after a step created it before, unless the
\* step chose the node.
LEMMA CreatesFrame ==
  ASSUME BaseInv, [Next]_vars, \A k \in Handlers, s \in Servers : ~CreatePlace(k, s)
  PROVE  \A k \in Handlers : Creating(k)' => Creating(k) /\ req'[k].node = req[k].node
<1>1. ASSUME NEW h \in Handlers, Step(h) \/ Abort(h)
      PROVE  \A k \in Handlers : Creating(k)' => Creating(k) /\ req'[k].node = req[k].node
  <2>1. \/ Respond(h)
        \/ Creating(h) /\ \E p, pc : Goto(h, pc, p)
        \/ \E p : Goto(h, "addCommit", p)
    BY <1>1 DEF Step, CreateLock, CreatePort, CreateCommit, DeleteCommit, AddPort, AddCommit,
                RemoveCommit, DeleteNodeRow, Abort, Creating
  <2>. QED  BY <2>1 DEF Respond, Goto, Idle, Ask, Creating, BaseInv, TypeOK
<1>2. ASSUME NEW h \in Handlers, Arrive(h)
      PROVE  \A k \in Handlers : Creating(k)' => Creating(k) /\ req'[k].node = req[k].node
  <2>1. \E s, n, p, g, pc : /\ pc \in {"delete", "addPort", "nodeDelete", "remove"}
                            /\ req' = [req EXCEPT ![h] = Ask(pc, s, n, p, g)]
    BY <1>2 DEF Arrive, ServersPage, AllocationsSettings, DeleteNodeCount, DeleteRead, AddRead, RemoveRead, Begin
  <2>. QED  BY <2>1 DEF Ask, Creating, BaseInv, TypeOK
<1>3. CASE Crash
  BY <1>3 DEF Crash, Creating, Idle, Ask
<1>4. CASE UNCHANGED req
  BY <1>4 DEF Creating
<1>5. ASSUME NEW n \in Nodes, NodesController(n)
      PROVE  UNCHANGED req
  BY <1>5 DEF NodesController, CreateNode, SetMaintenance, HealthCheck
<1>. QED
  BY <1>1, <1>2, <1>3, <1>4, <1>5 DEF Next, vars

\* A node in maintenance that no create in flight chose is chosen by none and
\* only loses servers.
THEOREM MaintenanceCorrect == Spec => MaintenanceDrains
<1>1. SafetyInv /\ [Next]_vars =>
        [\A n \in Nodes : maint[n] /\ maint'[n] /\ ~Inbound(n) =>
           ~Inbound(n)' /\ Hosted(n)' \subseteq Hosted(n)]_vars
  <2>. SUFFICES ASSUME SafetyInv, [Next]_vars, NEW n \in Nodes, maint[n], ~Inbound(n)
                PROVE  ~Inbound(n)' /\ Hosted(n)' \subseteq Hosted(n)
    OBVIOUS
  <2>. USE DEF SafetyInv
  <2>1. ~Inbound(n)'
    <3>1. CASE \A k \in Handlers, s \in Servers : ~CreatePlace(k, s)
      BY <3>1, CreatesFrame DEF Inbound
    <3>2. ASSUME NEW h \in Handlers, NEW s \in Servers, CreatePlace(h, s)
          PROVE  ~Inbound(n)'
      <4>1. PICK m \in Eligible(s) : Begin(h, "createLock", s, m)
        BY <3>2 DEF CreatePlace, LeastLoaded
      <4>2. m # n
        BY DEF Eligible
      <4>. QED  BY <4>1, <4>2 DEF Begin, Ask, Inbound, Creating, BaseInv, TypeOK
    <3>. QED  BY <3>1, <3>2
  <2>2. CASE UNCHANGED <<alloc, host>>
    BY <2>1, <2>2 DEF Hosted
  <2>3. ASSUME NEW h \in Handlers, CreateCommit(h)
        PROVE  Hosted(n)' \subseteq Hosted(n)
    <3>1. req[h].node # n
      BY <2>3 DEF Inbound, Creating, CreateCommit
    <3>2. \A s \in Servers : host'[s] = n => host[s] = n
      BY <2>3, <3>1, CreateCommitPlacement DEF BaseInv, TypeOK
    <3>. QED  BY <3>2 DEF Hosted
  <2>4. ASSUME NEW h \in Handlers, DeleteCommit(h)
        PROVE  Hosted(n)' \subseteq Hosted(n)
    BY <2>4, DeleteCommitPlacement DEF Hosted, BaseInv, TypeOK
  <2>. QED  BY <2>1, <2>2, <2>3, <2>4, PlacementFrame
<1>. QED  BY <1>1, SafetyInvariant, PTL DEF Spec, MaintenanceDrains

-----------------------------------------------------------------------------
(* The fleet implements the ledger of placements.                          *)

LEMMA ChooseOne ==
  ASSUME NEW x
  PROVE  (CHOOSE y \in {x} : TRUE) = x
OBVIOUS

\* Where a live server is.
LEMMA PlacedAt ==
  ASSUME OnePrimary, NEW t \in Servers, host[t] # None
  PROVE  \E row \in rows : /\ row.server = t /\ row.node = host[t]
                           /\ Placement[t] = <<host[t], row.port>>
<1>1. PICK row \in rows : PrimaryRows(t) = {row} /\ row.node = host[t]
  BY DEF OnePrimary, Live
<1>2. Primary(t) = row
  BY <1>1, ChooseOne DEF Primary
<1>3. row.server = t
  BY <1>1 DEF PrimaryRows
<1>. QED  BY <1>1, <1>2, <1>3 DEF Placement

\* The place of a server changes with its node only.
LEMMA PlacementKept ==
  ASSUME BaseInv, AllocationsFollowServer, RemovalsOK, [Next]_vars,
         NEW t \in Servers, host'[t] = host[t]
  PROVE  Placement'[t] = Placement[t]
<1>1. CASE host[t] = None
  BY <1>1 DEF Placement
<1>2. CASE host[t] # None
  <2>1. PrimaryRows(t)' = PrimaryRows(t)
    BY <1>2, PrimaryKept
  <2>2. Primary(t)' = Primary(t)
    BY <2>1 DEF Primary
  <2>. QED  BY <1>2, <2>2 DEF Placement
<1>. QED  BY <1>1, <1>2

\* Who is on a node of the ledger is on the node.
LEMMA LedgerOn ==
  ASSUME SafetyInv, NEW n \in Nodes
  PROVE  Ledger!On(n) = Hosted(n)
<1>1. ASSUME NEW t \in Servers, host[t] # None
      PROVE  \E p \in Ports : Placement[t] = <<host[t], p>>
  BY <1>1, PlacedAt DEF SafetyInv, BaseInv, TypeOK, Row
<1>2. ASSUME NEW t \in Servers, NEW p \in Ports, Placement[t] = <<n, p>>
      PROVE  host[t] = n
  <2>1. host[t] # None
    BY <1>2 DEF Placement
  <2>. QED  BY <1>2, <2>1, PlacedAt DEF SafetyInv
<1>. QED  BY <1>1, <1>2 DEF Ledger!On, Hosted

LEMMA LedgerInit == Init => Ledger!Init
BY DEF Init, Ledger!Init, Placement

\* Only a create or a deletion of a server moves it.
LEMMA LedgerPlacementStep ==
  ASSUME SafetyInv, [Next]_vars, present' = present
  PROVE  [Ledger!Next]_(Ledger!vars)
<1>. USE DEF SafetyInv
<1>1. CASE UNCHANGED <<alloc, host>>
  <2>1. Placement' = Placement
    BY <1>1, PlacementKept DEF Placement
  <2>. QED  BY <1>1, <2>1 DEF Ledger!vars
<1>2. ASSUME NEW h \in Handlers, CreateCommit(h), host' # host
      PROVE  Ledger!Next
  <2>1. PICK s \in Servers, n \in Nodes, new \in rows' :
           /\ s = req[h].server /\ n = req[h].node /\ host[s] = None
           /\ host' = [host EXCEPT ![s] = n]
           /\ alloc' = [alloc EXCEPT ![n] = [r \in Resources |-> alloc[n][r] + Demand[s][r]]]
           /\ PrimaryRows(s)' = {new} /\ new.node = n /\ new.port \in Ports \ UsedPorts(n)
    BY <1>2, PrimaryBorn
  <2>2. Placement[s] = None /\ n \in present
    BY <1>2, <2>1 DEF Placement, LockOK, InTransaction, CreateCommit
  <2>3. \A t \in Servers : Placement[t] # <<n, new.port>>
    <3>1. ASSUME NEW t \in Servers, Placement[t] = <<n, new.port>>
          PROVE  FALSE
      <4>1. host[t] # None
        BY <2>1, <3>1 DEF Placement
      <4>2. PICK row \in rows : row.node = host[t] /\ Placement[t] = <<host[t], row.port>>
        BY <4>1, PlacedAt
      <4>3. row.node = n /\ row.port = new.port
        BY <3>1, <4>2
      <4>. QED  BY <2>1, <4>3 DEF UsedPorts
    <3>. QED  BY <3>1
  <2>4. Placement' = [Placement EXCEPT ![s] = <<n, new.port>>]
    <3>1. ASSUME NEW t \in Servers, t # s
          PROVE  Placement'[t] = Placement[t]
      BY <2>1, <3>1, PlacementKept DEF BaseInv, TypeOK
    <3>2. Placement'[s] = <<n, new.port>>
      <4>1. Primary(s)' = new
        BY <2>1, ChooseOne DEF Primary
      <4>2. host'[s] = n /\ n # None
        BY <2>1, NoneAssumption DEF BaseInv, TypeOK
      <4>. QED  BY <4>1, <4>2 DEF Placement
    <3>. QED  BY <3>1, <3>2 DEF Placement
  <2>5. Ledger!Place(s, n, new.port)
    BY <2>1, <2>2, <2>3, <2>4 DEF Ledger!Place
  <2>. QED  BY <2>1, <2>5 DEF Ledger!Next
<1>3. ASSUME NEW h \in Handlers, DeleteCommit(h)
      PROVE  [Ledger!Next]_(Ledger!vars)
  <2>1. CASE UNCHANGED <<alloc, host>>
    BY <1>1, <2>1
  <2>2. ASSUME NEW s \in Servers, NEW n \in Nodes, host[s] = n,
               host' = [host EXCEPT ![s] = None],
               alloc' = [alloc EXCEPT ![n] = [r \in Resources |-> alloc[n][r] - Demand[s][r]]]
        PROVE  Ledger!Next
    <3>1. s \in Ledger!On(n)
      BY <2>2, LedgerOn DEF Hosted
    <3>2. Placement' = [Placement EXCEPT ![s] = None]
      <4>1. ASSUME NEW t \in Servers, t # s
            PROVE  Placement'[t] = Placement[t]
        BY <2>2, <4>1, PlacementKept DEF BaseInv, TypeOK
      <4>2. Placement'[s] = None
        BY <2>2 DEF Placement, BaseInv, TypeOK
      <4>. QED  BY <4>1, <4>2 DEF Placement
    <3>3. Ledger!Remove(s, n)
      BY <2>2, <3>1, <3>2 DEF Ledger!Remove
    <3>. QED  BY <3>3 DEF Ledger!Next
  <2>. QED  BY <1>3, <2>1, <2>2, DeleteCommitPlacement
<1>4. ASSUME NEW h \in Handlers, CreateCommit(h), host' = host
      PROVE  UNCHANGED <<alloc, host>>
  BY <1>4, CreateCommitPlacement, NoneAssumption DEF BaseInv, TypeOK
<1>. QED  BY <1>1, <1>2, <1>3, <1>4, PlacementFrame

\* Nodes come and go alone.
LEMMA NodesStep ==
  ASSUME SafetyInv, [Next]_vars, present' # present
  PROVE  /\ UNCHANGED <<alloc, host>>
         /\ \E n \in Nodes : \/ n \notin present /\ present' = present \cup {n}
                             \/ n \in present /\ Hosted(n) = {} /\ present' = present \ {n}
<1>1. \/ \E n \in Nodes : CreateNode(n)
      \/ \E h \in Handlers : DeleteNodeRow(h)
  BY DEF Next, NodesController, Arrive, ServersPage, AllocationsSettings, Step, vars,
         SetMaintenance, HealthCheck, DeleteNodeCount, CreatePlace, CreateLock, CreatePort,
         CreateCommit, DeleteRead, DeleteCommit, AddRead, AddPort, AddCommit, RemoveRead,
         RemoveCommit, Abort, Crash
<1>2. ASSUME NEW h \in Handlers, DeleteNodeRow(h)
      PROVE  req[h].node \in Nodes
  BY <1>2 DEF DeleteNodeRow, SafetyInv, BaseInv, RequestsOK
<1>. QED  BY <1>1, <1>2 DEF CreateNode, DeleteNodeRow

LEMMA LedgerStep == SafetyInv /\ [Next]_vars => [Ledger!Next]_(Ledger!vars)
<1>. SUFFICES ASSUME SafetyInv, [Next]_vars
              PROVE  [Ledger!Next]_(Ledger!vars)
  OBVIOUS
<1>1. CASE present' = present
  BY <1>1, LedgerPlacementStep
<1>2. CASE present' # present
  <2>1. UNCHANGED <<alloc, host>>
    BY <1>2, NodesStep
  <2>2. Placement' = Placement
    BY <2>1, PlacementKept DEF Placement, SafetyInv
  <2>3. PICK n \in Nodes : \/ n \notin present /\ present' = present \cup {n}
                           \/ n \in present /\ Hosted(n) = {} /\ present' = present \ {n}
    BY <1>2, NodesStep
  <2>4. Ledger!AddNode(n) \/ Ledger!DropNode(n)
    BY <2>1, <2>2, <2>3, LedgerOn DEF Ledger!AddNode, Ledger!DropNode
  <2>. QED  BY <2>4 DEF Ledger!Next
<1>. QED  BY <1>1, <1>2

\* For every fleet, whatever races, is rolled back or stops: the requests of
\* create, delete and node deletion are single steps of the ledger, and
\* nothing else is a step of it.
THEOREM LedgerCorrect == Spec => KeepsLedger
BY LedgerInit, LedgerStep, SafetyInvariant, PTL DEF Spec, KeepsLedger, Ledger!Spec
=============================================================================
