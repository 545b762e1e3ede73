SPECIFICATION Spec
CONSTANTS
  u1 = u1  u2 = u2  r1 = r1  r2 = r2
  Users = {u1, u2}
  Rooms = {r1, r2}
  None = None
  Backlog = 0
  Low = 1
  High = 2
  MaxPages = 2
  MaxInputs = 3
SYMMETRY Perms
CHECK_DEADLOCK FALSE
INVARIANTS TypeOK NothingMissed MessagesKept
