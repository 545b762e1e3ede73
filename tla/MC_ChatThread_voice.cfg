SPECIFICATION Spec
CONSTANTS
  Users = {u1, u2}
  Admins = {u1}
  Channels = {1}
  Threads = {t1}
  MaxCalls = 4
INVARIANT CopyIsOwn
