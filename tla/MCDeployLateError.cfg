SPECIFICATION Spec
CONSTANTS
  Images = {hs1, hs2}
INVARIANTS OkMeansComplete
