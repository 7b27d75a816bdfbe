\* A player's hand: three slots over the nine ranks of an ability deck.
CONSTANTS
  ActiveCount = 3
  ItemCount = 9
SPECIFICATION Spec
INVARIANTS TypeOK NoSharedItem
PROPERTY NoRedeal
