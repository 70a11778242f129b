\* A client whose request was lost waits for ever; so does an orphaned server.
CHECK_DEADLOCK FALSE
SPECIFICATION Spec
CONSTANTS
  MaxRolls = 2
  Answers = {0, 1, 3}
  Runs = 1
INVARIANTS
  AtMostMaxRolls
