\* Three requests on one stocked material and one still to be created.
SPECIFICATION FairSpec
CONSTANTS
  r1 = r1
  r2 = r2
  r3 = r3
  m1 = m1
  m2 = m2
  None = None
  Requests = {r1, r2, r3}
  Materials = {m1, m2}
  Stocked = {m1}
  Quantities = {0, 2, 3}
CHECK_DEADLOCK FALSE
INVARIANTS
  Ledger
PROPERTIES
  DeletionIsFinal
  StatementsEnd
  DrawsAreAtomic
