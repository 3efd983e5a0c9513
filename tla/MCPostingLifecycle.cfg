SPECIFICATION MCSpec
CONSTANTS
  t1 = t1
  t2 = t2
  f1 = f1
  f2 = f2
  Postings = {p1}
  Texts = {t1, t2}
  Forms = {f1, f2}
  NotListed = NotListed
  Bodies <- AllFeeds
  Workers = {w1, w2}
  ClosureThreshold = 2
  MaxPolls = 4
  MaxReparses = 1
SYMMETRY WorkerSymmetry
INVARIANTS
  LifecycleFollowsHistory
  ObservationsMatchSnapshots
  OneEventPerObservation
  EventsTellLifecycle
PROPERTIES
  HistoryIsAppendOnly
CHECK_DEADLOCK FALSE
