SPECIFICATION Spec
CONSTANTS
  v1 = v1
  d1 = d1
  d2 = d2
  d3 = d3
  Validators = {v1}
  Delegators = {d1, d2, d3}
  Value <- MCValue
  Multiplier <- MCMultiplier
  DelegatorsRewards <- MCDelegatorsRewards
  MaxPeriod = 4
CHECK_DEADLOCK FALSE
PROPERTY PopulatedOnce
