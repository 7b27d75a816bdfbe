\* Two players, the second of whom confirms twice for one Turn message, at any
\* time; hands of two out of three abilities; two monsters, attacked in the first
\* cycle, and the second begins without any.
CONSTANTS
  PlayerCount = 2
  MonstersPerLine = 2
  DeckSize = 2
  HandSize = 2
  RankCount = 3
  Unread = 1
  Hasty = {1}
  LateConfirms = 1
  LateKeys = 0
SPECIFICATION Spec
INVARIANTS TypeOK ClientsAgree MovesAccepted DealtBeforeDiscard CursorDrawn
PROPERTY KeysFindCards
CHECK_DEADLOCK FALSE
