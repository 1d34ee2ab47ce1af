SPECIFICATION MCFairSpec
CONSTANTS
  Job <- MCJob
  ProgramOf <- MCProgramOf
  Topic <- MCTopic
  Shard <- MCShard
  Partition <- MCPartition
  ShardOf <- MCShardOf
  PartitionsOf <- MCPartitionsOf
  ConsumersOf <- MCConsumersOf
  Connection <- MCConnection
  Deaf = {"controller"}
  Ends <- MCEnds
  ResponseCap = 8
  SocketCap = 1
INVARIANTS
  TypeOK
  StuckOnlyInCycle
PROPERTIES
  EverybodyEndsUnlessInCycle
