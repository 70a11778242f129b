\* The last run of a program ends, or leaves somebody waiting.
CHECK_DEADLOCK FALSE
SPECIFICATION Spec
CONSTANTS
  Chunks = 3
  MaxMsg = 2
  MaxRolls = 2
  Answers = {0, 1, 3}
  Clients = {c1, c2, c3}
  Backlog = 1
  Nobody = Nobody
  Runs = 3
INVARIANTS
  CleanRun
  OldFirst
  HandedOver
  OneInFlight
  ClientsKept
PROPERTIES
  LeftWaiting
  Completes
