\* Three players and a deck of six monsters, two on the table: the round has a
\* first, a middle and a last player, and the deck runs out.
CONSTANTS
  PlayerCount = 3
  MonstersPerLine = 2
  DeckSize = 6
SPECIFICATION Spec
INVARIANTS TypeOK ActivePlayerExists
PROPERTIES ImplementsRounds DealtBetweenRounds
