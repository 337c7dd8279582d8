SPECIFICATION FairSpec
CONSTANTS
  n1 = n1
  n2 = n2
  t1 = t1
  t2 = t2
  Networks = {n1, n2}
  Names = {t1, t2}
  Name <- NetworkNames
  Ports = {1, 2, 3}
  PortsPerNode = 1
  Nodes = 1
  Extended = {n1}
INVARIANTS TypeOK PortsExclusive ListeningIsReserved
PROPERTIES CancelReleases CallsReturn
CHECK_DEADLOCK FALSE
