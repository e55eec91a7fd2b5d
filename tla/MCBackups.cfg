\* One backup of either driver, two requests at once to race each other and the
\* backup, three failures; no symmetry, for the liveness property.
SPECIFICATION FairSpec
CONSTANTS
  Archives = {b1}
  Requests = {h1, h2}
  MaxFaults = 3
  None = none
INVARIANTS BusyOK CompletedBacked
PROPERTIES KeepsVault BackupSettles
CHECK_DEADLOCK FALSE
