\* Any two failures strike while two requests and the worker share one row of
\* init.sql and one new row.
SPECIFICATION Spec
CONSTANTS
  r1 = r1
  r2 = r2
  t1 = t1
  t2 = t2
  None = None
  Requests = {r1, r2}
  Transmutations = {t1, t2}
  Seeded = {t1}
  SeedStatuses = {"PROCESSING"}
  EditStatuses = {"PENDING", "completed"}
  Failures = {"db", "push", "pop", "hang", "crash", "redis"}
  MaxFaults = 2
SYMMETRY RequestSymmetry
CHECK_DEADLOCK FALSE
INVARIANTS
  NothingForgotten
  AtMostOnce
  OpenRowHasTask
  ChangeWillBeAnnounced
  SettledLeavesTrace
PROPERTIES
  CompletionIsFinal
  DeletionIsFinal
  JobsAreKept
