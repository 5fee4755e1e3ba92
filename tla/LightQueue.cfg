\* Two threads and the callbacks of the hub; a channel (maxsize 0) that may become
\* a queue of one, and back.
CONSTANTS
  t1 = t1
  t2 = t2
  QueueUsers = {t1, t2}
  Hub = Hub
  NoOne = NoOne
  MaxSizes = {0, 1}
  MaxPending = 1
SPECIFICATION QueueSpec
INVARIANTS UnlockIsDue
PROPERTIES NeverOverfull IsBuffer BringsTogether
