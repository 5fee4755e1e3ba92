\* A thread that survives the interruption of wait(timeout), then calls wait().
CONSTANTS
  t1 = t1
  t2 = t2
  Threads = {t1, t2}
  Patient = {t1}
  Survivors = {t2}
  MaxResets = 0
  MaxTimers = 1
SPECIFICATION EventSafety
PROPERTIES PatientWaitGetsResult
CHECK_DEADLOCK FALSE
