\* A fork with edits, failures and two revisions, and the parts of MCExecution.
CONSTANTS
  n1 = n1
  n2 = n2
  n3 = n3
  x = x
  y = y
  Nodes = {n1, n2, n3}
  Order <- ThreeNodes
  Edges <- ForkEdges
  AgentOf <- ThreeAgents
  MaxConcurrency = 2
  MaxAttempts = 2
  MaxRev = 2
  MaxResults = 1
  Controls = {}
  Messages = FALSE
  Drift = TRUE
  Failures = TRUE
SPECIFICATION PartSpec
INVARIANTS
  GatesKept
  OneAttemptPerTask
PROPERTIES
  PlanRuns
CHECK_DEADLOCK FALSE
