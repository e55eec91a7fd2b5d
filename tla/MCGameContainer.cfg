\* One type per kind, two calls at once, two failures.
SPECIFICATION FairSpec
CONSTANTS
  paper = paper  fabric = fabric  forge = forge  bedrock = bedrock
  Direct = {paper}
  Launcher = {fabric}
  Scripted = {forge}
  Archived = {bedrock}
  Calls = {c1, c2}
  MaxCalls = 3
  MaxFaults = 2
  None = none
INVARIANTS ContainerInv ServesWhatIsAsked ConsoleFollows
PROPERTIES InstallationKept ComesUp
CHECK_DEADLOCK FALSE
