--------------------------- MODULE MCServerFleet ---------------------------
(* Small fleets for TLC: the nodes have room for one and a half servers, so *)
(* that capacity is contended; ports run from 25565.                       *)
EXTENDS ServerFleet

CONSTANTS n1, n2, s1, s2

MCResources == {"cpu", "memory"}
MCPhysical == [n \in Nodes |-> [r \in Resources |-> IF r = "cpu" THEN 3 ELSE 2]]
MCOverallocate == [n \in Nodes |-> [r \in Resources |-> IF r = "cpu" THEN 0 ELSE 50]]
MCDemand == [s \in Servers |-> [r \in Resources |-> IF s = s1 /\ r = "memory" THEN 1 ELSE 2]]
=============================================================================
