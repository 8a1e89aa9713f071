SPECIFICATION Spec
CONSTANTS
  Homeservers <- MCJoinLater
  Custom <- MCNoCustom
  UserConcurrency = 2
  RoomConcurrency = 2
  UserHash <- MCUserHash
  RoomHash <- MCRoomHash
  NoKey = NoKey
  Phases <- MCPhases
  MaxSets = 2
  Keys <- MCKeys
  Values <- MCValues
  Absent = Absent
  Empty = Empty
  Unformable = {}
INVARIANTS RequestsReachRoom
