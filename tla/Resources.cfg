\* Each component of MCResources on a small instance: three threads, a DAGPool
\* of two keys and two greenthreads of its own, two calls and two workers,
\* three Timeouts of which one is not silent.
CONSTANTS
  t1 = t1
  t2 = t2
  t3 = t3
  Threads = {t1, t2, t3}
  Kinds = {"pool", "db"}
  Sizes = {1, 2}
  MinSize = 0
  MaxLost = 1
  k1 = k1
  k2 = k2
  Keys = {k1, k2}
  g1 = g1
  g2 = g2
  Coros = {g1, g2}
  o1 = o1
  Outsiders = {o1}
  c1 = c1
  c2 = c2
  Calls = {c1, c2}
  w1 = w1
  w2 = w2
  Workers = {w1, w2}
  MaxSetups = 2
  Limit = 1
  MaxTimers = 3
  MaxTasks = 2
  MaxWakes = 2
  Size = 2
  Items = 4
  Sleepers = {t1, t2}
  x1 = x1
  x2 = x2
  x3 = x3
  Timeouts = {x1, x2, x3}
  Silent = {x1, x2}
  None = None
  Delays = {1, None}
  MaxTime = 1
  Off = Off
SPECIFICATION Spec
INVARIANTS PoolsExact DagExact TpoolRepliesSeen CountsExact TimeoutsExact
PROPERTIES PoolServes CallsEnd
CHECK_DEADLOCK FALSE
