SPECIFICATION FairSpec
CONSTANTS
  c1 = c1
  c2 = c2
  m1 = m1
  m2 = m2
  m3 = m3
  Conns <- MCConns
  Frames <- OneFrame
  StanzaOf <- MCStanzaOf
  NoStanza = ""
  WindowCap = 1
  QueueCap = 1
  FanOutMayFail = FALSE
  MaxSeq = 2
  MaxCrashes = 0
PROPERTY
  AckedIsPushed
\* Clients may fall silent: a quiet server has no next step.
CHECK_DEADLOCK FALSE
