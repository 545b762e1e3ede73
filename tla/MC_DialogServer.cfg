SPECIFICATION FairSpec
CONSTANTS
  s1 = s1  s2 = s2  f1 = f1  h1 = h1  h2 = h2
  Socks = {s1, s2}
  Fds = {f1}
  NoFd = NoFd
  Nobody = Nobody
  Handlers = {h1, h2}
  ZeroReads = 1
  MaxSent <- TwoFromFirst
CHECK_DEADLOCK FALSE
INVARIANTS TypeOK OwnBytesOnly DeletedOnce NoLineForgotten
PROPERTIES LinesProcessed DeadForgotten
