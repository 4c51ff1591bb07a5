SPECIFICATION PartSpec
SYMMETRY Interchangeable
CONSTANTS
  s1 = s1
  j1 = j1
  i1 = i1
  b1 = b1
  b2 = b2
  a1 = a1
  a2 = a2
  w1 = w1
  w2 = w2
  m1 = m1
  u1 = u1
  e1 = e1
  k1 = k1
  ci1 = ci1
  at1 = at1
  d1 = d1
  c1 = c1
  c2 = c2
  x = x
  r1 = r1
  g1 = g1
  g2 = g2
  g3 = g3
  g4 = g4
  None = None
  Sessions = {s1}
  Bound = {s1}
  Private = {}
  Joins = {j1}
  Invites = {i1}
  Bridges = {b1, b2}
  Trusted = {b1}
  Attempts = {a1, a2}
  MaxFaults = 1
  Nil = Nil
  Callers = {c1, c2}
  CommitOps = {k1}
  CIOps = {ci1}
  AttestOps = {at1}
  Checks = {x}
  SourceOf <- Source
  CheckOf <- Check
  AdoptOps = {d1}
  HasInputs = TRUE
  MaxCalls = 2
  MaxControl = 2
  MaxTime = 1
  NoAddress = NoAddress
  Requests = {r1}
  Public = {g1, g2}
  Blocked = {g3}
  Loopback = {g4}
  MaxAnswers = 2
  TestLoopback = TRUE
  Rooms = {m1}
  Workers = {w1, w2}
  MaxMessages = 4
  Size <- Bytes4
  ByteLimit = 2
  Limit = 2
  RebaseLimit = 3
  SweepLimit = 1
  MaxGenerations = 5
  Rebases = TRUE
INVARIANTS
  PairingSound
  MemoryLossless
  RemoteSound
PROPERTIES
  CentralStepsKept
CHECK_DEADLOCK FALSE
