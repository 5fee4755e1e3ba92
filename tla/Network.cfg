\* Each component of MCNetwork on a small instance: two threads and two numbers
\* of descriptors, or three threads and one; one sender and two receivers on a
\* zmq socket.
CONSTANTS
  t1 = t1
  t2 = t2
  t3 = t3
  Threads = {t1, t2}
  d1 = d1
  d2 = d2
  Fds = {d1, d2}
  Crowd = {t1, t2, t3}
  Lone = {d1}
  Watched = t1
  a1 = a1
  a2 = a2
  Tasks = {a1, a2}
  MaxFiles = 2
  MaxSerial = 2
  MaxTime = 1
  MaxOpens = 1
  Hub = Hub
  Away = Away
  Dead = Dead
  Kinds = {"plain", "tls", "pipe"}
  Buffer = 2
  Size = 4
  MaxRecord = 2
  s1 = s1
  Senders = {s1}
  r1 = r1
  r2 = r2
  Receivers = {r1, r2}
  Parts = {1, 2}
  HighWater = 1
  MaxSent = 1
  Transports = {"udp", "tcp"}
  Timeout = 3
  Pause = 1
  Bytes = 3
  MaxGrams = 3
  Requests = {"v4", "v6", "any", "mapped", "all"}
  Answers = {"addr", "nodata", "nxdomain", "timeout", "servfail"}
  MaxEdits = 1
  None = None
  Off = Off
SPECIFICATION Spec
INVARIANTS ListenersExact AwaitExact StreamIntact  DnsSound
PROPERTIES EventReachesWaiter ExchangeEnds
CHECK_DEADLOCK FALSE
