\* One row of each table, no failures.
SPECIFICATION Spec
CONSTANTS
  t1 = t1
  m1 = m1
  c1 = c1
  Transmutations = {t1}
  Missions = {m1}
  Materials = {c1}
  Seed <- MCSeed
  MaxListed = 1
  MaxOthers = 0
  MaxChanges = 1
  MaxFaults = 0
PROPERTIES
  OnlyFindingsAreReported
