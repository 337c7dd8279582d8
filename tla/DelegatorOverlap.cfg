SPECIFICATION Spec
CONSTANTS
  MaxUint32 = 255
  Slots = {j1, j2}
  Expiration = 1
  QueueBlock = 0
  StakingPeriods = 0
  WithdrawDelay = 1
  PeriodLength = 2
  MaxHeight = 6
  MaxTx = 4
  LossUntil = 6
  MaxFailures = 1
  BlocksWait = FALSE
SYMMETRY JobSymmetry
INVARIANTS TypeOK  ReleasedIsStopping
PROPERTIES StatusNeverBack ReceiptsStay
