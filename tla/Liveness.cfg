SPECIFICATION Spec
CONSTANTS
  c1 = c1
  c2 = c2
  m1 = m1
  m3 = m3
  s1 = s1
  k1 = k1
  k2 = k2
  None = None
PROPERTIES
  NoConnectionHangs
  TeardownCompletes
  FanOutFinishes
  BreakerDrops
  EveryCallSettles
  DeadSocketNoticed
\* Clients and peers may stay silent: a quiet server has no next step.
CHECK_DEADLOCK FALSE
