SPECIFICATION MCSpec
CONSTANTS
  c1 = c1
  c2 = c2
  g1 = g1
  g2 = g2
  Client = {c1, c2}
  BrokerNo = 1
  Topic = {"t1"}
  Group = {g1, g2}
  Counts = {1, 2}
  Faulty = {}
  MaxCalls = 4
SYMMETRY MCSymmetry
INVARIANTS
  LastSubscriberIsListed
  IdsUnique
  GroupsAreEven
PROPERTIES
  GroupKeepsPartitions
