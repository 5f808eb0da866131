SPECIFICATION Spec
CONSTANTS
  Threads = {t1, t2, t3}
  Step = 2
  ReadFaults = FALSE
  MaxWatermark = 3
INVARIANTS
  TypeOK
  WatermarkCoversIssued
  ReserveBounded
PROPERTY
  ImplementsService
