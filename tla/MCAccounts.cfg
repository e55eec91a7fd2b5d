\* Two users, one permission beside "manage", one API key, two requests at once of five.
\* No deadlock check: the requests of the bound may all be over.
SPECIFICATION Spec
CONSTANTS
  Users = {u1, u2}
  Enrolled = u1
  Permissions = {"manage", "use"}
  Keys = {k1}
  Calls = {c1, c2}
  MaxRequests = 5
  MaxSecrets = 2
  MaxBatches = 2
INVARIANTS AccountsInv NoExcessRights FactorConfirmed CodeOnce
CHECK_DEADLOCK FALSE
