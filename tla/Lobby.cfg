\* Two names, a second client under the first one, which may leave the first time.
CONSTANTS
  Names = {0, 1}
  Twice = {0}
  Leavers = {0}
  Capacity = 2
SPECIFICATION FairSpec
INVARIANTS TypeOK NamesUnique NoOneLeftBehind
PROPERTIES LoginsEnd StartsRoles
CHECK_DEADLOCK FALSE
