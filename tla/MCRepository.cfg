SPECIFICATION Spec
CONSTANTS
  Threads = {t1, t2}
  Ids = {1, 2}
  Generations = {1, 2}
  Contents = {x, y}
  Capacities = {0, 2, 3}
  MaxCalls = 4
  Nobody = Nobody
  None = None
INVARIANTS
  TypeOK
  AcceptedIsHeld
  ListIsSnapshot
  GreatestAreHeld
PROPERTIES
  NothingBelowBound
  LockReleased
  ImplementsStore
CHECK_DEADLOCK FALSE
