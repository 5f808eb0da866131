SPECIFICATION Spec
CONSTANTS
  c1 = c1
  c2 = c2
  c3 = c3
  s1 = s1
  s2 = s2
  Clients <- MCClients
  Sessions <- MCSessions
  SessionOf <- MCSessionOf
  ChanCap = 1
  SendCap = 1
  MaxSends = 1
  MaxKicks = 1
SYMMETRY MCSymmetry
INVARIANTS
  TypeOK
  KickedIsUnregistered
\* Peers may stay silent: a server without events has no next step.
CHECK_DEADLOCK FALSE
