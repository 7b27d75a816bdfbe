\* Three names and two places; one client leaves.
CONSTANTS
  Names = {0, 1, 2}
  Twice = {}
  Leavers = {0}
  Capacity = 2
SPECIFICATION Spec
INVARIANT PlaceIsEmpty
CHECK_DEADLOCK FALSE
