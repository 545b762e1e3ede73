SPECIFICATION FairServerSpec
CONSTANTS
  c1 = c1  c2 = c2  c3 = c3  l1 = l1  l2 = l2  h1 = h1  h2 = h2  h3 = h3
  Conns = {c1, c2, c3}
  Listeners = {l1, l2}
  Handlers = {h1, h2, h3}
  NoConn = NoConn
  MaxHandlers = 1
  UintSize = 256
CHECK_DEADLOCK FALSE
INVARIANTS LimitKept QueueHasHandler
PROPERTY EveryoneServed
