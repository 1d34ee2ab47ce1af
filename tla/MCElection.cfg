CONSTANTS
  c1 = c1
  c2 = c2
  c3 = c3
  Controller = {c1, c2, c3}
  None = None
  MaxTerm = 2
  Broker = {"b1"}
  Scenarios <- ThreeControllers
SPECIFICATION MCFairSpec
INVARIANTS
  TypeOK
  VoteOnce
  MajorityUnique
  DeposedKnowsALeader
  MembersOfTheElected
PROPERTIES
  TermMonotonic
  LeaderIsFound
  EveryBrokerJoins
