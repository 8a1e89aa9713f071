SPECIFICATION FairSpec
CONSTANTS
  e1 = e1
  e2 = e2
  e3 = e3
  k1 = k1
  NotState = NotState
  None = None
  Tuples <- MCTuples
  Events <- MCEvents
  DepthOf <- MCDepthOf
  TupleOf <- MCTupleOf
  Threads = {t1, t2}
  Waiters = {w1, w2}
  MaxCalls = 2
INVARIANTS RoomInv RoomReflectsTimeline CreatedAbovePrev
PROPERTIES WaiterFinishes ImplementsSignal
