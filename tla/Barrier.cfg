SPECIFICATION Spec
CONSTANTS
  Rooms = {living_room, bedroom, kitchen, closet}
  UIntMax = 6
INVARIANTS
  Undisturbed
  FourReports
PROPERTIES
  Termination
