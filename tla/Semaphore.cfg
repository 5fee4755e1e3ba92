\* Four threads on Semaphore(1): two can be queued while two race for permits.
CONSTANTS
  t1 = t1
  t2 = t2
  t3 = t3
  t4 = t4
  Threads = {t1, t2, t3, t4}
  Value = 1
  Bounded = FALSE
  MaxCounter = 4
  MaxTimers = 4
SPECIFICATION Spec
INVARIANTS NoLostWakeup
PROPERTIES ImplementsPermitPool
