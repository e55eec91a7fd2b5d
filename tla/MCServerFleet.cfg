\* Two nodes with room for one and a half servers, two servers, two requests at once.
\* No symmetry, for the liveness property.
SPECIFICATION FairSpec
CONSTANTS
  n1 = n1  n2 = n2  s1 = s1  s2 = s2
  Nodes = {n1, n2}
  Servers = {s1, s2}
  Handlers = {h1, h2}
  Resources <- MCResources
  Memory = "memory"
  Physical <- MCPhysical
  Overallocate <- MCOverallocate
  Demand <- MCDemand
  MaxDemand = 2
  FirstPort = 25565
  LastPort = 25566
  None = None
INVARIANT SafetyInv
PROPERTIES KeepsLedger MaintenanceDrains RequestCompletes
CHECK_DEADLOCK FALSE
