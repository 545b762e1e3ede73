SPECIFICATION FairSpec
CONSTANTS
  c1 = c1  c2 = c2  u1 = u1  h1 = h1  h2 = h2
  Conns = {c1, c2}
  Users = {u1}
  Account <- OneAccount
  Credentials = {"pass"}
  Handlers = {h1}
  Selector = Selector
  Janitor = Janitor
  None = None
  MaxCommands <- OneEach
CHECK_DEADLOCK FALSE
INVARIANTS TypeOK LoginKept
PROPERTY DeadGo
