\* The second player leaves at any moment.
CONSTANTS
  PlayerCount = 2
  MaxConns = 1
  PressesPerTurn = 1
  Chatters = {}
  Quitters = {1}
  PlayedPhases = {"DropAbility"}
SPECIFICATION Spec
INVARIANTS GameServerSurvives
CHECK_DEADLOCK FALSE
