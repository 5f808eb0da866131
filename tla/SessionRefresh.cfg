SPECIFICATION Spec
CONSTANTS
  Calls <- MCCalls
  Socks <- MCSocks
  k1 = k1
  k2 = k2
  MaxLogins = 1
  None = None
PROPERTY SeamlessRefresh
