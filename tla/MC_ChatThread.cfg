SPECIFICATION FairSpec
CONSTANTS
  Users = {u1}
  Admins = {u1}
  Channels = {1, 2}
  Threads = {t1, t2}
  MaxCalls = 3
INVARIANTS ConnectionsInRooms
           IndexExact StatisticsExact
           JoinNotLost LeaveHonoured GlobalNeverAhead
PROPERTIES EventsDrain JoinSettles
