\* Three timers, one of them local, a list rebuilt from two entries on, aborts
\* and one escaping system exception.
CONSTANTS
  t1 = t1
  t2 = t2
  t3 = t3
  Timers = {t1, t2, t3}
  LocalTimers = {t3}
  Delays = {0, 1}
  CleanAbove = 1
  DefaultSleep = 2
  Abortable = TRUE
  MaxReady = 1
  MaxTime = 1
  MaxEscapes = 1
  MaxDrift = 1
SPECIFICATION Spec
INVARIANTS NoTimerLost NeverOversleeps
PROPERTIES FiresInOrder ImplementsTimerService ReachesWait
