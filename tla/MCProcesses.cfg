\* The programs end; a child of a named pipe can be left in read().
CHECK_DEADLOCK FALSE
SPECIFICATION Spec
CONSTANT Runs = 3
INVARIANTS
  PipesBalanced
  LostWithProcess
  ReportsRight
PROPERTIES
  Completes
