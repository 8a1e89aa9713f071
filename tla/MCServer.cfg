SPECIFICATION FairSpec
CONSTANTS
  s1 = s1
  s2 = s2
  s3 = s3
  p1 = p1
  p2 = p2
  Servers <- MCServers
  Processes = {p1, p2}
  ProcOf <- MCProcOf
  NoServer = NoServer
  FirstPort = 2
  LastPort = 4
INVARIANTS ServerInv NamesNeverReused
PROPERTIES ListenTerminates
