\* Two concurrent requests beside the provisioning, with every failure.
SPECIFICATION FairSpec
CONSTANTS
  Requests = {r1, r2}
  Provisioning = provisioning
  MaxFaults = 1
INVARIANTS LifecycleInv
PROPERTIES SuspensionHolds ProvisioningSettles DeletionEnds
CHECK_DEADLOCK FALSE
