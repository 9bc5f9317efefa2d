\* One row of each table, one change of a row and any two failures.
SPECIFICATION FairSpec
CONSTANTS
  t1 = t1
  m1 = m1
  c1 = c1
  Transmutations = {t1}
  Missions = {m1}
  Materials = {c1}
  Seed <- MCSeed
  MaxListed = 2
  MaxOthers = 1
  MaxChanges = 1
  MaxFaults = 2
CHECK_DEADLOCK FALSE
INVARIANTS
  ReportIsTrue
PROPERTIES
  FindingIsReported
  ScheduleGoesOn
