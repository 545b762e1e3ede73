SPECIFICATION Spec
CONSTANTS
  a = a  b = b  c = c  d = d
  Table = 12
  Casts <- FewLeft
  None = None
  MaxAway = 1
CHECK_DEADLOCK FALSE
INVARIANTS TypeOK TimerPending DaySound OrdersCurrent
PROPERTIES DeathsExplained DaysEnd
