\* No deadlock check: nothing happens once the requests of the bound are done.
SPECIFICATION FilesSpec
CONSTANTS
  Servers <- MCServers
  RelPaths <- MCRelPaths
  Releases <- MCReleases
  Packs <- MCPacks
  Calls = {c1, c2}
  MaxRequests = 3
  MaxFaults = 1
INVARIANTS  PackComplete ReadOnlyKept
CHECK_DEADLOCK FALSE
