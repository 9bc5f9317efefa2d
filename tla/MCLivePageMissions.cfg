\* The Dashboard, without failures.
SPECIFICATION FairSpec
CONSTANTS
  Pages = {"dashboard"}
  Roles = {"supervisor"}
  Capacity = 2
  MaxChanges = 1
  MaxFailures = 0
CHECK_DEADLOCK FALSE
PROPERTIES
  MissionsAreFollowed
