\* A peer joins and leaves, executes a Run, and exports an Agent.
SPECIFICATION PartSpec
CONSTANTS
  o1 = o1
  o2 = o2
  e1 = e1
  s1 = s1
  s2 = s2
  r1 = r1
  r2 = r2
  c1 = c1
  c2 = c2
  None = None
  Ops = {o1, o2}
  Entries = {e1}
  Socks = {s1, s2}
  MaxEmits = 1
  MaxDeaths = 1
  MayLeave = TRUE
  Rooms = {r1, r2}
  Configs = {c1, c2}
  MaxGrants = 2
  MaxAccepts = 2
  MaxTrust = 1
  MaxLapses = 1
  MaxEpochs = 1
  MaxRevokes = 1
  Absent = Absent
INVARIANTS
  MembershipKept
  PeerRunFaithful
  ExportsBilateral
PROPERTIES
  PeerStepsKept
CHECK_DEADLOCK FALSE
SYMMETRY Symmetry
