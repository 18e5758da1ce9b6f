\* Two threads, two messages for two queues, two expiries.
CONSTANTS
  Threads = {t1, t2}
  QueueIds = {q1, q2}
  Messages = {m1, m2}
  MaxExpires = 2
SPECIFICATION ManagerFairSpec
INVARIANTS HeapMatchesList LateStampQueues
PROPERTIES CallsReturn ImplementsContract
\* Each message is enqueued and stamped once: the calls end.
CHECK_DEADLOCK FALSE
