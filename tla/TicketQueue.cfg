\* The loops end, and main() returns.
CHECK_DEADLOCK FALSE
SPECIFICATION Spec
CONSTANTS
  Threads = {p1, p2, c1, c2}
  Producers = {p1, p2}
  Consumers = {c1, c2}
  SizeMax = 3
  Iterations = 2
INVARIANTS
  MutualExclusion
  NothingLost
PROPERTIES
  ImplementsFifoLock
  Termination
