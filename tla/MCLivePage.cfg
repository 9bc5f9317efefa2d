\* All pages and roles, two changes, a stream for one event, one failure.
SPECIFICATION FairSpec
CONSTANTS
  Pages = {"dashboard", "transmutations", "audits"}
  Roles = {"alchemist", "supervisor"}
  Capacity = 1
  MaxChanges = 2
  MaxFailures = 1
CHECK_DEADLOCK FALSE
INVARIANTS
  StaleHasReason
PROPERTIES
  CatchesUp
