--------------------------- MODULE PlacementLedger ---------------------------
(***************************************************************************)
(* What the fleet promises of its placement, whatever happens inside: a    *)
(* server appears at once with its node, its address there and its share   *)
(* of the node's counters; it keeps that address as long as it exists; it  *)
(* disappears at once with its share; and a node leaves only when it is    *)
(* empty.  ServerFleet, where each of these is a request of several        *)
(* statements that race, fail and are rolled back, implements it.          *)
(***************************************************************************)
EXTENDS Integers

CONSTANTS Nodes, Servers, Resources, Demand, Ports, None

VARIABLES
  nodes,   \* the nodes that exist
  place,   \* per server: <<its node, its primary port>>, or None
  load     \* per node and resource: what is allocated

vars == <<nodes, place, load>>

Init ==
  /\ nodes = {}
  /\ place = [s \in Servers |-> None]
  /\ load = [n \in Nodes |-> [r \in Resources |-> 0]]

On(n) == {s \in Servers : \E p \in Ports : place[s] = <<n, p>>}

AddNode(n) ==
  /\ n \in Nodes \ nodes
  /\ nodes' = nodes \cup {n}
  /\ UNCHANGED <<place, load>>

DropNode(n) ==
  /\ n \in nodes /\ On(n) = {}
  /\ nodes' = nodes \ {n}
  /\ UNCHANGED <<place, load>>

\* No other server has the address.
Place(s, n, p) ==
  /\ place[s] = None /\ n \in nodes
  /\ \A t \in Servers : place[t] # <<n, p>>
  /\ place' = [place EXCEPT ![s] = <<n, p>>]
  /\ load' = [load EXCEPT ![n] = [r \in Resources |-> load[n][r] + Demand[s][r]]]
  /\ UNCHANGED nodes

Remove(s, n) ==
  /\ s \in On(n)
  /\ place' = [place EXCEPT ![s] = None]
  /\ load' = [load EXCEPT ![n] = [r \in Resources |-> load[n][r] - Demand[s][r]]]
  /\ UNCHANGED nodes

Next ==
  \/ \E n \in Nodes : AddNode(n) \/ DropNode(n)
  \/ \E s \in Servers, n \in Nodes : Remove(s, n) \/ \E p \in Ports : Place(s, n, p)

Spec == Init /\ [][Next]_vars
=============================================================================
