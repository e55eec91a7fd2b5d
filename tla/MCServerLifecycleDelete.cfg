\* Nothing fails: a deletion beside the provisioning.
SPECIFICATION Spec
CONSTANTS
  Requests = {r1}
  Provisioning = provisioning
  MaxFaults = 0
INVARIANT DeletionComplete
CHECK_DEADLOCK FALSE
