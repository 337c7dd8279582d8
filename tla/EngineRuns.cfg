SPECIFICATION FairSpec
CONSTANTS
  Workers = {w1}
  Validators = {v1, v2, v3}
  Delegators = {}
  Seeds = {v1, v2}
  FlushStatus = 1
  MaxBlockProposers = 1
  MinQueued = 1
  MaxHeight = 2
INVARIANTS TypeOK FlushReached ValidatorsBounded  BlocksInOrder
  
CHECK_DEADLOCK FALSE
