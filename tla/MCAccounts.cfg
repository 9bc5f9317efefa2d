\* Two registrations with two addresses, two seeded accounts, two tabs.
SPECIFICATION Spec
CONSTANTS
  r1 = r1
  r2 = r2
  s1 = s1
  s2 = s2
  e1 = e1
  e2 = e2
  t1 = t1
  t2 = t2
  k1 = k1
  k2 = k2
  None = None
  Registrations = {r1, r2}
  Seeded = {s1, s2}
  SeededRole <- MCSeededRole
  Addresses = {e1, e2}
  Tabs = {t1, t2}
  Tokens = {k1, k2}
SYMMETRY Symmetry
INVARIANTS
  OneAccount
  ConfirmedExists
  PagesWork
