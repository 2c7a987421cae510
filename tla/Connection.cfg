SPECIFICATION FairSpec
CONSTANTS
  Clients = {c1}
  Service = service
  Nobody = nobody
  MaxThreads = 2
  MaxCalls = 1
  MaxControls = 2
  MaxStarts = 2
  MaxCrashes = 1
INVARIANTS
  TypeOK
  CallsHandledOnce
  PausedAsSaid
  OneThread
PROPERTIES
  LossIsNoticed
  ServiceEnds
CHECK_DEADLOCK FALSE
