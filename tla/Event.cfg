\* Event with one reset, three threads, one of which survives exceptions and
\* one of which waits without a timeout.
CONSTANTS
  t1 = t1
  t2 = t2
  t3 = t3
  Threads = {t1, t2, t3}
  Patient = {t1}
  Survivors = {t2}
  MaxResets = 1
  MaxTimers = 2
SPECIFICATION EventSpec
INVARIANTS NobodyForgotten
PROPERTIES ImplementsFuture
CHECK_DEADLOCK FALSE
