SPECIFICATION FairSpec
CONSTANTS
  s1 = s1  s2 = s2  f1 = f1  f2 = f2  w1 = w1  w2 = w2
  Sockets = {s1, s2}
  Dialed = {}
  Fds = {f1, f2}
  NoFd = NoFd
  Nobody = Nobody
  Writers = {w1, w2}
  MaxWrites = 2

INVARIANTS NoStuckData
PROPERTIES ImplementsPipes DataIsSent
