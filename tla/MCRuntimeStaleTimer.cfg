SPECIFICATION Spec
CONSTANTS
  c1 = c1
  c2 = c2
  c3 = c3
  c4 = c4
  n1 = n1
  n2 = n2
  None = None
  Client = Client
  Creates <- MCCreates
  Names = {n1, n2}
  NameOf <- MCNameOf
CHECK_DEADLOCK FALSE
INVARIANTS EndedByOwnTimer
