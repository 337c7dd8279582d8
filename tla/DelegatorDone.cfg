SPECIFICATION FairSpec
CONSTANTS
  MaxUint32 = 255
  Slots = {j1, j2}
  Expiration = 1
  QueueBlock = 1
  StakingPeriods = 1
  WithdrawDelay = 1
  PeriodLength = 4
  MaxHeight = 32
  MaxTx = 4
  LossUntil = 10
  MaxFailures = 0
  BlocksWait = TRUE
INVARIANTS WithdrawnOnChain
PROPERTIES EventuallyReleased
