\* Two callers and three tasks that may spawn one another, in a pool of up to two
\* slots that is resized at any moment.
CONSTANTS
  c1 = c1
  c2 = c2
  Callers = {c1, c2}
  k1 = k1
  k2 = k2
  k3 = k3
  k4 = k4
  Tasks = {k1, k2, k3, k4}
  NoTask = NoTask
  Sizes = {0, 1, 2}
  MaxWakes = 3
SPECIFICATION PoolSpec
INVARIANTS SlotsConserved SentMeansIdle
PROPERTIES SpawnersProceed WaitersProceed
CHECK_DEADLOCK FALSE
