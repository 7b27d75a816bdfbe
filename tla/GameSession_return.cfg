\* The second player leaves at any moment and may come back once, and before the
\* first move twice.
CONSTANTS
  PlayerCount = 2
  MaxConns = 3
  PressesPerTurn = 1
  Chatters = {}
  Quitters = {1}
  PlayedPhases = {"DropAbility"}
SPECIFICATION TaskSpec
INVARIANTS TypeOK RequestsMatchWaits IdentityKept StayersAgree
PROPERTIES MoveMatchesPhase ReturnsToSeat
CHECK_DEADLOCK FALSE
