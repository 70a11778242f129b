\* The programs end, and waiting() may sleep for ever.
CHECK_DEADLOCK FALSE
SPECIFICATION Spec
CONSTANTS
  Readers = {yearFilter1, reversed, reversed_and_filtered, dropFirstElements, yearFilter2}
  Writers = {addBook1, addBook2}
INVARIANTS
  BooksSafe
  OwnMessage
PROPERTIES
  Completes
