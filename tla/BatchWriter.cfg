SPECIFICATION Spec
CONSTANTS
  Calls <- MCCalls
  Async <- MCAsync
  StanzaOf <- MCStanzaOf
  EmptyStanza = ""
  BlankStanza = " "
  QueueCap = 2
  BatchMax = 2
  MayStop = TRUE
  MaxCrashes = 1
INVARIANTS
  TypeOK
  StopDrains
PROPERTIES
  ImplementsStore
  AcceptedIsAnswered
CHECK_DEADLOCK FALSE
