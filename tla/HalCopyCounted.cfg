\* One thread copies memory and reads the counters of its device.
CONSTANTS
  Threads = {t1}
  Devices = {probe, d1}
  Probe = probe
  Blocks = {b1, b2, b3}
  Null = null
  Nobody = nobody
SPECIFICATION HalSpec
INVARIANT CopiesAreNotCounted
CHECK_DEADLOCK FALSE
