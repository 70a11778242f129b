\* The programs end.
CHECK_DEADLOCK FALSE
SPECIFICATION Spec
CONSTANTS
  Counters = {c1, c2}
  Waiters = {w1, w2}
  Transfers = {10, 20, 40}
  Initial = 100
  Limit = 3
  Size = 8
  Count = 3
INVARIANTS
  LatchSafe
  OverlapLoses
  CallbackOnce
PROPERTIES
  ImplementsAtomicCounter
  Completes
