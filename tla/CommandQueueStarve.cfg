\* A client that keeps enqueuing keeps another one in waitForDeviceIdle.
CONSTANTS
  Clients = {c1, c2}
  Stoppers = {}
  Buffers = {b1}
  MaxRequests = 1
  Restart = FALSE
  Worker = cmp
  Nobody = free
SPECIFICATION FairSpec
PROPERTIES WaitReturns
