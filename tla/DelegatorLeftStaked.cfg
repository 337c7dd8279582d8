SPECIFICATION Spec
CONSTANTS
  MaxUint32 = 255
  Slots = {j1, j2}
  Expiration = 1
  QueueBlock = 1
  StakingPeriods = 1
  WithdrawDelay = 1
  PeriodLength = 2
  MaxHeight = 8
  MaxTx = 3
  LossUntil = 2
  MaxFailures = 0
  BlocksWait = FALSE
INVARIANTS WithdrawnIsClean
