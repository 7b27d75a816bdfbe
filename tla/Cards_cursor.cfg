\* Two players; hands of two out of three abilities; two of four monsters.
CONSTANTS
  PlayerCount = 2
  MonstersPerLine = 2
  DeckSize = 4
  HandSize = 2
  RankCount = 3
  Unread = 2
  Hasty = {}
  LateConfirms = 0
  LateKeys = 0
SPECIFICATION Spec
INVARIANT ClientsSurvive
CHECK_DEADLOCK FALSE
