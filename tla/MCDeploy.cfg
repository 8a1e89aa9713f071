SPECIFICATION FairSpec
CONSTANTS
  Images = {hs1, hs2}
INVARIANTS DeployInv NamesDistinct NoStrayContainer
PROPERTIES DeployTerminates
