SPECIFICATION PartSpec
CONSTANTS
  a1 = a1
  a2 = a2
  a3 = a3
  op1 = op1
  op2 = op2
  None = None
  Agents = {a1}
  Operations = {op1}
  AllowAgentMentions = FALSE
  MaxMentionDepth = 1
  CompatibilityPatch = FALSE
  MaxRuns = 2
  MaxResults = 2
  MaxRevision = 5
  MaxAttempts = 2
CHECK_DEADLOCK FALSE
INVARIANTS
  TaskKept
  HandoffsSound
PROPERTIES
  ClosedTaskStays
  RoutedAfterRestart
