SPECIFICATION Spec
CONSTANTS
  MaxUint32 = 255
  Validators = {v1, v2}
  PeriodLength = 2
  CooldownPeriod = 1
  MaxHeight = 10
  LossUntil = 3
  Others = 0
  MaxFaults = 0
  MaxWorkers = 2
  QueueBlock = 1
  StakingPeriods = 1
  WithdrawDelay = 0
  BlocksWait = TRUE
SYMMETRY ValidatorSymmetry
INVARIANTS MinimumStays
CHECK_DEADLOCK FALSE
