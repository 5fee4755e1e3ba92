\* One thread waits for a pool of one slot while another spawns.
CONSTANTS
  c1 = c1
  c2 = c2
  Callers = {c1, c2}
  k1 = k1
  k2 = k2
  Tasks = {k1, k2}
  NoTask = NoTask
  Sizes = {1}
  MaxWakes = 3
SPECIFICATION PoolSafety
INVARIANTS WaitallEnds
CHECK_DEADLOCK FALSE
