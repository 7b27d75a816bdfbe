\* Two players, the room's capacity, and two roles; the second player may leave
\* and come back once, the first starts the game.
CONSTANTS
  PlayerCount = 2
  RoleNames = {Warrior, Rogue}
  Warrior = Warrior
  Rogue = Rogue
  Selections = 2
  Starts = 2
  Starters = {0}
  Quitters = {1}
SPECIFICATION Spec
INVARIANTS TypeOK RolesDistinctAtFirst EveryoneHasRole RoleKept ShownAgrees
SYMMETRY RoleSymmetry
CHECK_DEADLOCK FALSE
