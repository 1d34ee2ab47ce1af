CONSTANTS
  c1 = c1
  c2 = c2
  t1 = t1
  g1 = g1
  g2 = g2
  k1 = k1
  k2 = k2
  Client = {c1, c2}
  Topic = {t1}
  ShardOf <- MCShardOf
  Group = {g1, g2}
  Consumer = {k1, k2}
  MaxPartitions = 2
  Scenarios <- BrokerScenarios
  Operation <- MCOperation
  Faults = {"create", "write"}
  RequestWorkers = 2
  RequestBacklog = 2
  PartitionBacklog = 1
  ConsumerBacklog = 1
  RegistrationCap = 1
  ResponseCap = 1
SPECIFICATION MCFairSpec
INVARIANTS
  TypeOK
  OneAnswer
  FileFollowsAnswers
  NotificationsFollowAcks
  RunsKeepOrder
  ListBounded
  GroupShares
  AckedIsWritten
PROPERTIES
  StaysAssigned
  AnsweredUnlessBlocked
