\* Two keys per Turn message in two phases, the second of which may refuse a
\* move: its actor ends in the middle of it and the player is out of the game.
\* The turn of such a player never ends, and tasks may wait for each other for
\* ever, so the game may stop.
CONSTANTS
  PlayerCount = 2
  MaxConns = 1
  PressesPerTurn = 2
  Chatters = {}
  Quitters = {}
  PlayedPhases = {"DropAbility", "AttachMonster"}
SPECIFICATION Spec
INVARIANTS RequestsMatchWaits StayersAgree
PROPERTIES TurnIntegrity
CHECK_DEADLOCK FALSE
