SPECIFICATION Spec
CONSTANTS
  t1 = t1
  t2 = t2
  f1 = f1
  f2 = f2
  Postings = {p1}
  Texts = {t1, t2}
  Forms = {f1, f2}
  NotListed = NotListed
  Bodies <- ListedOrNot
  Workers = {w1}
  ClosureThreshold = 2
  MaxPolls = 5
  MaxReparses = 0
INVARIANTS
  ClosedAfterAbsentPolls
CHECK_DEADLOCK FALSE
