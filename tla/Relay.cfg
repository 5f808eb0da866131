SPECIFICATION Spec
CONSTANTS
  c1 = c1
  c2 = c2
  m1 = m1
  m2 = m2
  m3 = m3
  Conns <- MCConns
  Frames <- MCFrames
  StanzaOf <- MCStanzaOf
  NoStanza = ""
  WindowCap = 1
  QueueCap = 2
  FanOutMayFail = TRUE
  MaxSeq = 3
  MaxCrashes = 1
SYMMETRY ConnSymmetry
INVARIANTS
  TypeOK
  AckAgreement
  PushedIsAckedAndDurable
PROPERTY
  ImplementsDelivery
  NoSecondPush
\* Clients may fall silent: a quiet server has no next step.
CHECK_DEADLOCK FALSE
