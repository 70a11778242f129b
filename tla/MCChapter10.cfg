\* The programs end, and a class need not be used any more.
CHECK_DEADLOCK FALSE
SPECIFICATION Spec
CONSTANTS
  Rounds = 4
  Objects = {o1, o2, o3}
  Frames = {f1, f2}
  Guards = {g1, g2, g3}
  Fds = {d1, d2}
INVARIANTS
  ResumedSafely
  ShownInOrder
PROPERTIES
  ImplementsUniqueOwner
  LostByAssignment
  Returns
