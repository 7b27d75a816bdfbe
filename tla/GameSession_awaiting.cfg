\* Two keys per Turn message.
CONSTANTS
  PlayerCount = 2
  MaxConns = 1
  PressesPerTurn = 2
  Chatters = {}
  Quitters = {}
  PlayedPhases = {"DropAbility"}
SPECIFICATION Spec
INVARIANTS NoCircularWait
CHECK_DEADLOCK FALSE
