SPECIFICATION FairSpec
CONSTANTS
  MaxUint32 = 255
  Validators = {v1, v2}
  PeriodLength = 2
  CooldownPeriod = 1
  MaxHeight = 16
  LossUntil = 3
  Others = 1
  MaxFaults = 1
  MaxWorkers = 2
  QueueBlock = 1
  StakingPeriods = 1
  WithdrawDelay = 0
  BlocksWait = TRUE
INVARIANTS TypeOK StatusWasTrue StaysItsPeriods WithdrawInTime 
PROPERTIES LookupNeverBack EventuallyWithdrawn
CHECK_DEADLOCK FALSE
