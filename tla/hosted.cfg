\* Two Runs of one Agent with a free slot for each, and the part of MCHosted.
CONSTANTS
  r1 = r1
  r2 = r2
  Runs = {r1, r2}
  AgentOf <- OneAgent
  maximumConcurrency = 2
  MaxCrashes = 1
  MaxFailures = 1
SPECIFICATION PartSpec
INVARIANTS
  ProviderCalledOnce
  SchedulerConsistent
PROPERTIES
  RunsEnd
CHECK_DEADLOCK FALSE
