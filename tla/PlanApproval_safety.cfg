SPECIFICATION Spec
CONSTANTS
  s1 = s1  s2 = s2
  t1 = t1  t2 = t2
  c1 = c1  c2 = c2  c3 = c3
  r1 = r1  r2 = r2
  p1 = p1  p2 = p2
  Sessions = {s1, s2}
  Tabs = {t1}
  Calls = {c1, c2}
  Requirements = {r1, r2}
  Plans = {p1}
  None = None
  Blank = Blank
  MaxPrepared = 2
  MaxCrashes = 1
SYMMETRY Symmetric
INVARIANTS TypeOK StoreIsCurrent RejectedDraftNotExplained
PROPERTIES ImplementsGate
CHECK_DEADLOCK FALSE
