\* Two tasks and any two failures; connections end either way.
SPECIFICATION FairSpec
CONSTANTS
  t1 = t1
  t2 = t2
  Tasks = {t1, t2}
  Worker = Worker
  Endings = {"eof", "reset"}
  MaxFaults = 2
CHECK_DEADLOCK FALSE
INVARIANTS
  TypeOK
  OnceInOrder
PROPERTIES
  TakenUnlessEOF
  PushReturns
  KeepsPromise
