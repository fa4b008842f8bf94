\* Four clients on a queue of max_requests = 1, which holds two; one of them
\* destroys the device when no call is in progress.
CONSTANTS
  Clients = {c1, c2, c3, c4}
  Stoppers = {c1}
  Buffers = {b1, b2}
  MaxRequests = 1
  Restart = FALSE
  Worker = cmp
  Nobody = free
  MaxAccepted = 3
SPECIFICATION HSpec
SYMMETRY HistorySymmetry
INVARIANTS LockOwnership QueueBound NoLostWakeup SleepersAreServed ExactlyOnceInOrder
PROPERTIES ImplementsService StopIsFinal
CHECK_DEADLOCK FALSE
