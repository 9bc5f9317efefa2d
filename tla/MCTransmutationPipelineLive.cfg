\* Progress with at most one failure and no restart of Redis.
SPECIFICATION FairSpec
CONSTANTS
  r1 = r1
  r2 = r2
  t1 = t1
  t2 = t2
  None = None
  Requests = {r1, r2}
  Transmutations = {t1, t2}
  Seeded = {t1}
  SeedStatuses = {"PROCESSING"}
  EditStatuses = {"PENDING", "completed"}
  Failures = {"db", "push", "pop", "hang", "crash"}
  MaxFaults = 1
CHECK_DEADLOCK FALSE
PROPERTIES
  OperationIsAudited
  AcceptedIsCompleted
