\* main() returns.
CHECK_DEADLOCK FALSE
SPECIFICATION Spec
CONSTANTS
  Counters = {thread0}
  Waiters = {thread1}
INVARIANTS
  WaitsForAll
