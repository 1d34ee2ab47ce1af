CONSTANTS
  c1 = c1
  c2 = c2
  c3 = c3
  c4 = c4
  c5 = c5
  Controller = {c1, c2, c3, c4, c5}
  None = None
  MaxTerm = 2
  Broker = {}
  Scenarios <- FiveControllers
SPECIFICATION MCSpec
INVARIANTS
  CountsItsVotes
