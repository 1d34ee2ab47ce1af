CONSTANTS
  Request = {r1, r2}
  WorkerCount = 3
  QueueCap = 2
  WorkerCap = 2
  MaxSubmitted = 5
SPECIFICATION MCFairSpec
INVARIANTS
  TypeOK
  InOrder
PROPERTIES
  ImplementsSerialExecutor
  EveryAcceptedCompletes
