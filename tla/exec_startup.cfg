\* The pair of MCExecution; the constants are those of the fork, which rests.
CONSTANTS
  n1 = n1
  n2 = n2
  n3 = n3
  x = x
  y = y
  Nodes = {n1, n2, n3}
  Order <- ThreeNodes
  Edges <- ForkEdges
  AgentOf <- ThreeAgents
  MaxConcurrency = 2
  MaxAttempts = 2
  MaxRev = 2
  MaxResults = 1
  Controls = {}
  Messages = FALSE
  Drift = TRUE
  Failures = TRUE
SPECIFICATION PairSpec
PROPERTIES
  StartupEnds
CHECK_DEADLOCK FALSE
