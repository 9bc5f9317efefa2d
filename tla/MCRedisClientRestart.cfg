\* Recovery when Redis is restarted and connections end by EOF.
SPECIFICATION FairSpec
CONSTANTS
  t1 = t1
  t2 = t2
  Tasks = {t1, t2}
  Worker = Worker
  Endings = {"eof", "reset"}
  MaxFaults = 1
CHECK_DEADLOCK FALSE
PROPERTIES
  ListedIsTaken
