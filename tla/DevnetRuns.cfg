SPECIFICATION FairSpec
CONSTANTS
  Executors = {e1, e2}
  Rounds = 2
  MaxID = 2
  PageSize = 1
  MaxFaults = 2
INVARIANTS TypeOK SetUpInOrder
PROPERTIES EventuallyClean
CHECK_DEADLOCK FALSE
