SPECIFICATION FairSpec
CONSTANTS
  u1 = u1  z1 = z1  h1 = h1  h2 = h2
  Users = {u1}
  Others = {z1}
  Handlers = {h1, h2}
  Chat = Chat
  None = None
  MaxClicks = 2
  MaxLogins = 1
  MaxNeeds = 1
  MaxFailures = 1
CHECK_DEADLOCK FALSE
INVARIANTS TypeOK CacheCurrent ChatCurrent
PROPERTIES UpdatesDone
