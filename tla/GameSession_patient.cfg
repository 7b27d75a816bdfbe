\* Two players, the room's capacity, one key per Turn message, all phases, and
\* chat lines of the second player.
CONSTANTS
  PlayerCount = 2
  MaxConns = 1
  PressesPerTurn = 1
  Chatters = {1}
  Quitters = {}
  PlayedPhases = {"DropAbility", "SelectAbility", "AttachMonster", "Defend"}
SPECIFICATION FairSpec
INVARIANTS RequestsMatchWaits ViewsAgree
PROPERTIES MoveMatchesPhase TurnsGoRound
