\* Liveness under the fairness of the threads and of the mutex.
CONSTANTS
  Clients = {c1, c2, c3}
  Stoppers = {c1}
  Buffers = {b1}
  MaxRequests = 1
  Restart = FALSE
  Worker = cmp
  Nobody = free
SPECIFICATION FairSpec
PROPERTIES QueueDrains QuiescentCallsReturn StopReturns
CHECK_DEADLOCK FALSE
