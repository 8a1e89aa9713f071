SPECIFICATION Spec
CONSTANTS
  hs1 = hs1
  hs2 = hs2
  alice = alice
  bob = bob
  Procs = {p1, p2}
  Resident = hs1
  Creator = alice
  Guests = {bob}
  ServerOf <- MCServerOf
  Configs <- MCConfigs
  Changes <- MCChanges
  Batches <- MCBatches
  MaxPDUs = 2
INVARIANTS JoinInv ChainsClosed PanicsExplained JoinedView
SYMMETRY Symmetry
CHECK_DEADLOCK FALSE
