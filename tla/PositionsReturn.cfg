SPECIFICATION Spec
CONSTANTS
  v1 = v1
  v2 = v2
  p1 = p1
  p2 = p2
  Validators <- MCValidators
  PositionNames <- MCPositionNames
  DelegationIDs = {d1, d2, d3, d4}
  MainnetUsed <- MCMainnetUsed
  lastByte <- MClastByte
  score <- MCscore
  ScoreScale = 2
  maxLeaderGroupLength = 2
  distributionType = "skewed"
  MayReturn = TRUE
INVARIANTS NoSlotLost TotalIsSumOfUsed
