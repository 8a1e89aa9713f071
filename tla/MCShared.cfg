SPECIFICATION FairSpec
CONSTANTS
  t1 = t1
  t2 = t2
  None = None
  Tests = {t1, t2}
  MaxServers = 2
  MaxOps = 2
INVARIANTS SharedInv ClientsFollow ExitTold
CHECK_DEADLOCK FALSE
PROPERTY PackageEnds
