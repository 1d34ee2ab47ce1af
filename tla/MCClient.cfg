SPECIFICATION MCFairSpec
CONSTANTS
  b1 = b1
  b2 = b2
  k1 = k1
  k2 = k2
  Server = {b1, b2}
  Topic = {"t1"}
  Consumer = {k1, k2}
  Mappings <- MCMappings
  Arrangements <- MCArrangements
  MaxBatch = 2
  DispatchCap = 1
  RegisterCap = 1
  ResponseCap = 1
  PoolCap = 1
  ConsumerCap = 1
  MaxRequests = 4
  MaxNotices = 2
  MaxEvents = 5
INVARIANTS
  TypeOK
  RequestsInOrder
  OnePlaceEach
PROPERTIES
  ImplementsRpc
  LostInARace
  CallReturnsOrIsStranded
