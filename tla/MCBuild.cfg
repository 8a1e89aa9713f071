SPECIFICATION FairSpec
CONSTANTS
  r1 = r1
  r2 = r2
  r3 = r3
  NoRun = NoRun
  Runs = {r1, r2, r3}
  NumHS = 2
  MaxAttempts = 3
  Environments <- MCEnvironments
CHECK_DEADLOCK FALSE
INVARIANTS DeploysWholeBlueprint CleanEnd StartsWithoutRemains TestKeepsNetwork
PROPERTIES ConstructTerminates
