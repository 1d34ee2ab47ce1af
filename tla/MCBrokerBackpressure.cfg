CONSTANTS
  c1 = c1
  c2 = c2
  t1 = t1
  g1 = g1
  g2 = g2
  k1 = k1
  k2 = k2
  Client = {c1, c2}
  Topic = {t1}
  ShardOf <- MCShardOf
  Group = {g1, g2}
  Consumer = {k1, k2}
  MaxPartitions = 2
  Scenarios <- BackpressureScenarios
  Operation <- MCOperation
  Faults = {}
  RequestWorkers = 2
  RequestBacklog = 4
  PartitionBacklog = 4
  ConsumerBacklog = 1
  RegistrationCap = 2
  ResponseCap = 8
SPECIFICATION MCFairSpec
PROPERTIES
  EveryRequestAnswered
CHECK_DEADLOCK FALSE
