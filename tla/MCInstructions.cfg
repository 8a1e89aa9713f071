SPECIFICATION FairSpec
CONSTANTS
  Homeservers <- MCHomeservers
  Custom <- MCCustom
  UserConcurrency = 2
  RoomConcurrency = 2
  UserHash <- MCUserHash
  RoomHash <- MCRoomHash
  NoKey = NoKey
  Phases <- MCPhases
  MaxSets = 2
  Keys <- MCKeys
  Values <- MCValues
  Absent = Absent
  Empty = Empty
  Unformable <- MCUnformable
INVARIANTS RunnerInv QuietBetweenPhases OneLateRequest NoErrorMeansAllDone RequestsInOrder
PROPERTIES RunReturns
