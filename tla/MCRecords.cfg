\* Three requests on a mission and an audit row.
SPECIFICATION Spec
CONSTANTS
  r1 = r1
  r2 = r2
  r3 = r3
  m1 = m1
  a1 = a1
  None = None
  Requests = {r1, r2, r3}
  Missions = {m1}
  Alchemists = {}
  Audits = {a1}
  Seed <- MCSeed
  Words = {"PENDING", "COMPLETED", "lost"}
  Texts = {1, 2}
SYMMETRY Symmetry
CHECK_DEADLOCK FALSE
INVARIANTS
  CompletedWasClosed
  ClosedOnce
  LastRequestStands
PROPERTIES
  DeletionIsFinal
