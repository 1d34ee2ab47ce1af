SPECIFICATION MCFairSpec
CONSTANTS
  c1 = c1
  c2 = c2
  Client = {c1, c2}
  BrokerNo = 3
  Topic = {"t1", "t2"}
  Group = {}
  Counts = {0, 1, 4, 5}
  Faulty = {1}
  MaxCalls = 2
  Scenarios <- MCScenarios
INVARIANTS
  TypeOK
  SharesAreWhole
  MappedIsMade
PROPERTIES
  CreateIsAnswered
