\* Four callers at each gate.
CONSTANTS
  c1 = c1
  c2 = c2
  c3 = c3
  c4 = c4
  a1 = a1
  a2 = a2
  Callers = {c1, c2, c3, c4}
  Agents = {a1, a2}
  AgentOf <- MCAgentOf
  Claims = {c1, c2, c3, c4}
  ClaimAgent <- MCClaimAgent
  WorkspaceOf <- MCWorkspaceOf
  Contains <- MCContains
SPECIFICATION BothSpec
INVARIANTS
  AgentGateKept
  ResourceGateKept
PROPERTIES
  FirstComeFirstServed
  NoOvertaking
  WaitersServed
