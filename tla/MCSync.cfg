SPECIFICATION FairSpec
CONSTANTS
  alice = alice
  bob = bob
  Me = alice
  Users <- MCUsers
  Anyone = Anyone
  StateAfterKeys = {"org.matrix.msc4222.state_after"}
  Limit = 1
  Timeout = 0
  AllChecks <- MCAllChecks
  Scenarios <- MCScenarios
INVARIANTS SyncInv TokenMeansDelivered JudgedRight
PROPERTIES CallEnds
