SPECIFICATION Spec
CONSTANTS
  Calls <- MCCalls
  Socks <- MCSocks
  k1 = k1
  k2 = k2
  MaxLogins = 2
  None = None
SYMMETRY MCSymmetry
INVARIANTS TypeOK QueueHasRefresh FormIsHonest LiveSessionReconnects
