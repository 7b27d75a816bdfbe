------------------------------ MODULE TurnsProofs ------------------------------
(***************************************************************************)
(* What the operators of Turns return, for every number of players and      *)
(* every deck: lemmas that TurnOrderProofs and CardProofs rest on.          *)
(***************************************************************************)
EXTENDS Turns, TLAPS

LEMMA OneSlot == Peers!Slots = {0}
BY DEF Peers!Slots

LEMMA FirstOfOne == Peers!First({0}) = 0
BY DEF Peers!First

(* The window over the players always is one slot. *)
LEMMA PeersShape ==
  ASSUME NEW t, t.peers \in Peers!Window(PlayerCount)
  PROVE  /\ Active(t) \in Players
         /\ t.peers = [s \in {0} |-> [on |-> HasActive(t), at |-> Active(t)]]
<1>1. t.peers \in [{0} -> [on : BOOLEAN, at : Players]]
  BY OneSlot DEF Peers!Window, Players
<1>2. t.peers[0] \in [on : BOOLEAN, at : Players]
  BY <1>1
<1>3. t.peers[0] = [on |-> HasActive(t), at |-> Active(t)]
  BY <1>2 DEF HasActive, Active
<1> QED
  BY <1>1, <1>2, <1>3 DEF Active

(* One switch of players: on to the next one, or from the last to the first. *)
LEMMA SwitchPeers ==
  ASSUME NEW t, t.peers \in Peers!Window(PlayerCount)
  PROVE  /\ WasLast(t) <=> Active(t) = PlayerCount - 1
         /\ NextPeers(t) =
              [s \in {0} |-> [on |-> TRUE,
                              at |-> IF Active(t) = PlayerCount - 1
                                     THEN 0 ELSE Active(t) + 1]]
<1> DEFINE a == Active(t)
           d == [s \in {0} |-> [on |-> FALSE, at |-> a]]
<1>1. a \in Players /\ PlayerCount \in Nat \ {0} /\ a \in Nat /\ a < PlayerCount
  BY PeersShape, PlayerCountAssumption DEF Players
<1>2. Finished(t) = d
  <2>1. Peers!Holders(t.peers, a) = {0}
    BY OneSlot DEF Peers!Holders, Active
  <2>2. Finished(t) = [t.peers EXCEPT ![0] = [on |-> FALSE, at |-> a]]
    BY <2>1, FirstOfOne DEF Finished, Peers!DeactivateByIndex, Peers!Disable
  <2> QED
    BY <2>2, PeersShape
<1>3. Peers!NextIndex(d, 0) = a + 1
  BY <1>1 DEF Peers!NextIndex
<1>4. Peers!Exhausted(d, PlayerCount) = IF a = PlayerCount - 1 THEN {0} ELSE {}
  BY <1>1, <1>3, OneSlot DEF Peers!Exhausted
<1>5. WasLast(t) <=> a = PlayerCount - 1
  BY <1>2, <1>4 DEF WasLast, Peers!EndOfItems
<1>6. CASE a = PlayerCount - 1
  <2>1. Peers!Eof(d, PlayerCount) = 0
    BY <1>4, <1>6, FirstOfOne DEF Peers!Eof
  <2>2. Peers!Restarted(0) = {0}
    BY DEF Peers!Restarted
  <2>3. NextPeers(t) = Peers!RepeatAfterEof(Peers!NextActives(d, PlayerCount), 0)
    BY <1>2, <1>5, <1>6, <2>1 DEF NextPeers
  <2>4. NextPeers(t) = [s \in {0} |-> [on |-> TRUE, at |-> s]]
    BY <2>2, <2>3, OneSlot DEF Peers!RepeatAfterEof, Peers!Enable
  <2> QED
    BY <1>5, <1>6, <2>4
<1>7. CASE a # PlayerCount - 1
  <2>1. Peers!NextActives(d, PlayerCount) = [s \in {0} |-> [on |-> TRUE, at |-> a + 1]]
    BY <1>3, <1>4, <1>7, OneSlot DEF Peers!NextActives, Peers!Enable
  <2> QED
    BY <1>2, <1>5, <1>7, <2>1 DEF NextPeers
<1> QED
  BY <1>6, <1>7

(* What the two calls on the monsters of the line return is again a line. *)
LEMMA LineTypes ==
  ASSUME NEW m \in Line!Window(DeckSize), NEW i \in 0 .. (DeckSize - 1)
  PROVE  /\ Line!NextActives(m, DeckSize) \in Line!Window(DeckSize)
         /\ Line!DeactivateByIndex(m, i) \in Line!Window(DeckSize)
<1>1. /\ MonstersPerLine \in Nat \ {0}
      /\ DeckSize \in Nat
      /\ Line!Slots \subseteq Nat
  BY DeckAssumption DEF Line!Slots
<1>2. ASSUME NEW s \in Line!Slots
      PROVE  Line!NextActives(m, DeckSize)[s] \in [on : BOOLEAN, at : 0 .. (DeckSize - 1)]
  <2>1. m[s] \in [on : BOOLEAN, at : 0 .. (DeckSize - 1)]
    BY <1>1 DEF Line!Window
  <2>2. CASE \A e \in Line!Exhausted(m, DeckSize) : s < e
    <3>1. s \notin Line!Exhausted(m, DeckSize)
      BY <2>2, <1>1
    <3>2. Line!NextIndex(m, s) \in 0 .. (DeckSize - 1)
      BY <2>1, <3>1, <1>1 DEF Line!Exhausted, Line!NextIndex
    <3> QED
      BY <2>2, <3>2 DEF Line!NextActives, Line!Enable
  <2>3. CASE ~ \A e \in Line!Exhausted(m, DeckSize) : s < e
    BY <2>1, <2>3 DEF Line!NextActives
  <2> QED
    BY <2>2, <2>3
<1>3. Line!NextActives(m, DeckSize) \in Line!Window(DeckSize)
  BY <1>1, <1>2 DEF Line!NextActives, Line!Window
<1>4. Line!DeactivateByIndex(m, i) \in Line!Window(DeckSize)
  BY <1>1 DEF Line!DeactivateByIndex, Line!Disable, Line!Window
<1> QED
  BY <1>3, <1>4

-------------------------------------------------------------------------------
(* A game starts with a player to play. *)
LEMMA StartFacts ==
  StartTurn \in Turn /\ HasActive(StartTurn) /\ Active(StartTurn) = 0
<1>1. Peers!WithItems = [s \in {0} |-> [on |-> TRUE, at |-> s]]
  BY OneSlot DEF Peers!WithItems, Peers!Enable
<1>2. Peers!WithItems \in Peers!Window(PlayerCount)
  BY <1>1, OneSlot, PlayerCountAssumption DEF Peers!Window
<1>3. Line!WithItems \in Line!Window(DeckSize)
  BY DeckAssumption DEF Line!WithItems, Line!Window, Line!Enable, Line!Slots
<1> QED
  BY <1>1, <1>2, <1>3 DEF StartTurn, Turn, Phases, HasActive, Active

(* Where a switch leads, phase by phase. *)
LEMMA SwitchFacts ==
  ASSUME NEW t \in Turn, HasActive(t)
  PROVE  LET n == SwitchToNextPlayer(t)
             last == Active(t) = PlayerCount - 1
         IN  /\ n \in Turn /\ HasActive(n)
             /\ Active(t) \in Players /\ Active(n) \in Players
             /\ t.phase = "DropAbility" =>
                  IF last THEN n.phase = "SelectAbility" /\ Active(n) = 0
                          ELSE n.phase = "DropAbility" /\ Active(n) = Active(t) + 1
             /\ t.phase = "SelectAbility" =>
                  n.phase = "AttachMonster" /\ Active(n) = Active(t)
             /\ t.phase = "AttachMonster" =>
                  IF last THEN n.phase = "Defend" /\ Active(n) = 0
                          ELSE n.phase = "SelectAbility" /\ Active(n) = Active(t) + 1
             /\ t.phase = "Defend" =>
                  IF last THEN n.phase = "DropAbility" /\ Active(n) = 0
                          ELSE n.phase = "Defend" /\ Active(n) = Active(t) + 1
             /\ n.phase # "DropAbility" \/ Active(n) # 0 => n.monsters = t.monsters
<1> DEFINE n == SwitchToNextPlayer(t)
           last == Active(t) = PlayerCount - 1
           next == IF last THEN 0 ELSE Active(t) + 1
<1>1. /\ t.phase \in Phases
      /\ t.peers \in Peers!Window(PlayerCount)
      /\ t.monsters \in Line!Window(DeckSize)
  BY DEF Turn
<1>2. /\ Active(t) \in Players
      /\ WasLast(t) <=> last
      /\ NextPeers(t) = [s \in {0} |-> [on |-> TRUE, at |-> next]]
  BY <1>1, PeersShape, SwitchPeers
<1>3. next \in 0 .. (PlayerCount - 1)
  BY <1>2, PlayerCountAssumption DEF Players
<1>4. NextPeers(t) \in Peers!Window(PlayerCount)
  BY <1>2, <1>3, OneSlot DEF Peers!Window
<1>5. Line!NextActives(t.monsters, DeckSize) \in Line!Window(DeckSize)
  <2>1. 0 \in 0 .. (DeckSize - 1)
    BY DeckAssumption
  <2> QED
    BY <1>1, <2>1, LineTypes
<1>6. /\ n.phase = NextPhase(t)
      /\ n.peers = IF t.phase = "SelectAbility" THEN t.peers ELSE NextPeers(t)
      /\ n.monsters = IF EndsCycle(t) THEN Line!NextActives(t.monsters, DeckSize)
                                      ELSE t.monsters
      /\ n = [phase |-> n.phase, peers |-> n.peers, monsters |-> n.monsters]
  BY DEF SwitchToNextPlayer
<1>7. n \in Turn
  BY <1>1, <1>4, <1>5, <1>6 DEF Turn, NextPhase, Phases
<1>8. /\ HasActive(n)
      /\ Active(n) = IF t.phase = "SelectAbility" THEN Active(t) ELSE next
  BY <1>2, <1>6 DEF HasActive, Active
<1>9. Active(n) \in Players
  BY <1>2, <1>3, <1>8 DEF Players
<1>10. Active(t) \in Nat /\ Active(t) + 1 # 0
  BY <1>2, PlayerCountAssumption DEF Players
<1> QED
  BY <1>1, <1>2, <1>6, <1>7, <1>8, <1>9, <1>10 DEF NextPhase, EndsCycle, Phases
===============================================================================
