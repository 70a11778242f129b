\* The programs end, and main() really stops in t2.join() of cpp_sem_example.cpp.
CHECK_DEADLOCK FALSE
SPECIFICATION Spec
CONSTANTS
  Limit = 16
  WordMax = 3
  FlagLimit = 6
  FlagMax = 7
  COUNT_LIMIT = 6
  ShortMax = 12
  UIntMax = 3
INVARIANTS
  OneTurn
  ConsumerNeverReturns
  Swing
  FlagExcludes
PROPERTIES
  HandoffOneSlot
  SemaphoreOneSlot
  AllConsumed
  FlagLoopsEnd
  SemaphoreLoopsEnd
