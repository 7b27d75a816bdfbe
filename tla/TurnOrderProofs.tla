--------------------------- MODULE TurnOrderProofs ----------------------------
(***************************************************************************)
(* For every number of players and every deck: the turn state is well      *)
(* typed, there is always an active player, and the server's turn order    *)
(* implements the abstract round.                                          *)
(*                                                                         *)
(* The argument: the window over the players has a single slot, so a       *)
(* switch either moves it to the next player or, after the last one, back   *)
(* to the first (lemma SwitchPeers).  With that, what Completed says is    *)
(* finished grows by exactly the turn that ended, and the next player is   *)
(* one whose turn is pending.                                              *)
(***************************************************************************)
EXTENDS TurnOrder, TurnsProofs, TLAPS

(* The inductive invariant. *)
IInv == TypeOK /\ ActivePlayerExists

LEMMA InitInv == Init => IInv
<1> SUFFICES ASSUME Init PROVE IInv
  OBVIOUS
<1>1. turn = [phase |-> "DropAbility", peers |-> Peers!WithItems,
              monsters |-> Line!WithItems]
  BY DEF Init, StartTurn
<1>2. Peers!WithItems = [s \in {0} |-> [on |-> TRUE, at |-> s]]
  BY OneSlot DEF Peers!WithItems, Peers!Enable
<1>3. Peers!WithItems \in Peers!Window(PlayerCount)
  BY <1>2, OneSlot, PlayerCountAssumption DEF Peers!Window
<1>4. Line!WithItems \in Line!Window(DeckSize)
  BY DeckAssumption DEF Line!WithItems, Line!Window, Line!Enable, Line!Slots
<1>5. TypeOK
  BY <1>1, <1>3, <1>4 DEF TypeOK, Turn, Phases
<1>6. ActivePlayerExists
  BY <1>1, <1>2 DEF ActivePlayerExists, HasActive
<1> QED
  BY <1>5, <1>6 DEF IInv

(* The fields of the turn after a switch, one by one. *)
LEMMA SwitchFields ==
  ASSUME TypeOK, SwitchPlayer
  PROVE  /\ turn'.phase = NextPhase(turn)
         /\ turn'.peers = IF turn.phase = "SelectAbility" THEN turn.peers
                                                          ELSE NextPeers(turn)
         /\ turn'.monsters = IF EndsCycle(turn)
                             THEN Line!NextActives(turn.monsters, DeckSize)
                             ELSE turn.monsters
         /\ turn' = [phase |-> turn'.phase, peers |-> turn'.peers,
                     monsters |-> turn'.monsters]
BY DEF SwitchPlayer, SwitchToNextPlayer

LEMMA StepInv == IInv /\ [Next]_vars => IInv'
<1> SUFFICES ASSUME IInv, [Next]_vars PROVE IInv'
  OBVIOUS
<1>1. /\ turn.phase \in Phases
      /\ turn.peers \in Peers!Window(PlayerCount)
      /\ turn.monsters \in Line!Window(DeckSize)
      /\ turn = [phase |-> turn.phase, peers |-> turn.peers,
                 monsters |-> turn.monsters]
  BY DEF IInv, TypeOK, Turn
<1>2. CASE SwitchPlayer
  <2>1. turn'.phase \in Phases
    BY <1>1, <1>2, SwitchFields DEF IInv, NextPhase, Phases
  <2>2. turn'.peers \in Peers!Window(PlayerCount) /\ turn'.peers[0].on
    <3>1. Active(turn) \in Players
      BY <1>1, PeersShape
    <3>2. CASE turn.phase = "SelectAbility"
      BY <1>1, <1>2, <3>2, SwitchFields DEF IInv, ActivePlayerExists, HasActive
    <3>3. CASE turn.phase # "SelectAbility"
      <4> DEFINE next == IF Active(turn) = PlayerCount - 1 THEN 0
                                                           ELSE Active(turn) + 1
      <4>1. turn'.peers = [s \in {0} |-> [on |-> TRUE, at |-> next]]
        BY <1>1, <1>2, <3>3, SwitchFields, SwitchPeers DEF IInv
      <4>2. next \in 0 .. (PlayerCount - 1)
        BY <3>1, PlayerCountAssumption DEF Players
      <4> QED
        BY <4>1, <4>2, OneSlot DEF Peers!Window
    <3> QED
      BY <3>2, <3>3
  <2>3. turn'.monsters \in Line!Window(DeckSize)
    <3>1. \A i \in Monsters :
            Line!NextActives(turn.monsters, DeckSize) \in Line!Window(DeckSize)
      BY <1>1, LineTypes DEF Monsters
    <3>2. 0 \in Monsters
      BY DeckAssumption DEF Monsters
    <3> QED
      BY <1>1, <1>2, <3>1, <3>2, SwitchFields DEF IInv
  <2>4. TypeOK'
    BY <1>2, <2>1, <2>2, <2>3, SwitchFields DEF IInv, TypeOK, Turn
  <2> QED
    BY <2>2, <2>4 DEF IInv, ActivePlayerExists, HasActive
<1>3. ASSUME NEW m \in Monsters, DropMonster(m)
      PROVE  IInv'
  <2>1. turn' = [phase |-> turn.phase, peers |-> turn.peers,
                 monsters |-> Line!DeactivateByIndex(turn.monsters, m)]
    BY <1>1, <1>3 DEF DropMonster
  <2>2. Line!DeactivateByIndex(turn.monsters, m) \in Line!Window(DeckSize)
    BY <1>1, LineTypes DEF Monsters
  <2> QED
    BY <1>1, <2>1, <2>2 DEF IInv, TypeOK, Turn, ActivePlayerExists, HasActive
<1>4. CASE UNCHANGED vars
  BY <1>4 DEF vars, IInv, TypeOK, ActivePlayerExists
<1> QED
  BY <1>2, <1>3, <1>4 DEF Next

(* The turn state is well typed, for every room and every deck. *)
THEOREM TurnTypeOK == Spec => []TypeOK
<1>1. IInv => TypeOK
  BY DEF IInv
<1> QED
  BY <1>1, InitInv, StepInv, PTL DEF Spec

(* There is an active player in every reachable state: the expect calls of  *)
(* GetActivePlayer and of switch_to_next_player never panic.               *)
THEOREM AlwaysActivePlayer == Spec => []ActivePlayerExists
<1>1. IInv => ActivePlayerExists
  BY DEF IInv
<1> QED
  BY <1>1, InitInv, StepInv, PTL DEF Spec

-------------------------------------------------------------------------------
(* The players before the next one, and before the first and after the last. *)
LEMMA BeforeFacts ==
  /\ \A a \in Players : Before(a + 1) = Before(a) \cup {a} /\ a \notin Before(a)
  /\ Before(0) = {}
  /\ Before(PlayerCount) = Players
  /\ \A a \in Players : a # PlayerCount - 1 => a + 1 \in Players
  /\ 0 \in Players
  /\ \A a \in Players : a = PlayerCount - 1 => a + 1 = PlayerCount
BY PlayerCountAssumption DEF Before, Players

(* The same for what Completed collects of one phase. *)
LEMMA CompletedByPhase ==
  ASSUME NEW t
  PROVE  /\ t.phase = "DropAbility" =>
              Completed(t) = Before(Active(t)) \X {"DropAbility"}
         /\ t.phase = "SelectAbility" =>
              Completed(t) = (Players \X {"DropAbility"})
                               \cup (Before(Active(t)) \X {"SelectAbility"})
                               \cup (Before(Active(t)) \X {"AttachMonster"})
         /\ t.phase = "AttachMonster" =>
              Completed(t) = (Players \X {"DropAbility"})
                               \cup (Before(Active(t)) \X {"SelectAbility"})
                               \cup {<<Active(t), "SelectAbility">>}
                               \cup (Before(Active(t)) \X {"AttachMonster"})
         /\ t.phase = "Defend" =>
              Completed(t) = (Players \X {"DropAbility"})
                               \cup (Players \X {"SelectAbility"})
                               \cup (Players \X {"AttachMonster"})
                               \cup (Before(Active(t)) \X {"Defend"})
BY DEF Completed

(* A switch of players is one turn of the abstract round. *)
LEMMA SwitchIsATurn == IInv /\ SwitchPlayer => Abstract!Next
<1> SUFFICES ASSUME IInv, SwitchPlayer PROVE Abstract!Next
  OBVIOUS
<1> DEFINE a == Active(turn)
           b == Active(turn')
<1>1. /\ turn.phase \in Phases
      /\ a \in Players
      /\ turn'.phase = NextPhase(turn)
      /\ turn.phase = "SelectAbility" => b = a
      /\ turn.phase # "SelectAbility" => b = IF a = PlayerCount - 1 THEN 0 ELSE a + 1
      /\ WasLast(turn) <=> a = PlayerCount - 1
  <2>1. turn.phase \in Phases /\ turn.peers \in Peers!Window(PlayerCount)
    BY DEF IInv, TypeOK, Turn
  <2>2. a \in Players
    BY <2>1, PeersShape
  <2>3. turn.phase = "SelectAbility" => b = a
    BY SwitchFields DEF IInv, Active
  <2>4. turn.phase # "SelectAbility" => b = IF a = PlayerCount - 1 THEN 0 ELSE a + 1
    BY <2>1, SwitchFields, SwitchPeers DEF IInv, Active
  <2> QED
    BY <2>1, <2>2, <2>3, <2>4, SwitchFields, SwitchPeers DEF IInv
<1>2. Active(turn)' = b /\ Completed(turn)' = Completed(turn')
  BY DEF Active, Completed
<1> HIDE DEF a, b
<1>3. CASE turn.phase = "DropAbility" /\ a # PlayerCount - 1
  <2>1. turn'.phase = "DropAbility" /\ b = a + 1
    BY <1>1, <1>3 DEF NextPhase
  <2>2. Completed(turn') = Completed(turn) \cup {<<a, "DropAbility">>}
    BY <1>1, <1>3, <2>1, CompletedByPhase, BeforeFacts DEF a, b
  <2>3. b \in Abstract!Pending("DropAbility", Completed(turn'))
    <3>1. b \in Players /\ b # a /\ b \notin Before(a)
      BY <1>1, <1>3, <2>1, BeforeFacts, PlayerCountAssumption DEF Before, Players
    <3>2. Completed(turn) = Before(a) \X {"DropAbility"}
      BY <1>3, CompletedByPhase DEF a
    <3> QED
      BY <3>1, <3>2, <2>2 DEF Abstract!Pending
  <2>4. Abstract!DropTurn
    BY <1>2, <1>3, <2>1, <2>2, <2>3
    DEF Abstract!DropTurn, Abstract!EndTurn, Abstract!PassTo, a
  <2> QED
    BY <2>4 DEF Abstract!Next
<1>4. CASE turn.phase = "DropAbility" /\ a = PlayerCount - 1
  <2>1. turn'.phase = "SelectAbility" /\ b = 0
    BY <1>1, <1>4 DEF NextPhase
  <2>2. Completed(turn') = Players \X {"DropAbility"}
    BY <2>1, CompletedByPhase, BeforeFacts DEF b
  <2>3. Completed(turn') = Completed(turn) \cup {<<a, "DropAbility">>}
    <3>1. Players = Before(a) \cup {a}
      BY <1>1, <1>4, BeforeFacts
    <3> QED
      BY <1>4, <2>2, <3>1, CompletedByPhase DEF a
  <2>4. /\ Abstract!Pending("DropAbility", Completed(turn')) = {}
        /\ b \in Abstract!Pending("SelectAbility", Completed(turn'))
    BY <2>1, <2>2, BeforeFacts DEF Abstract!Pending
  <2>5. Abstract!DropTurn
    BY <1>2, <1>4, <2>1, <2>3, <2>4
    DEF Abstract!DropTurn, Abstract!EndTurn, Abstract!PassTo, a
  <2> QED
    BY <2>5 DEF Abstract!Next
<1>5. CASE turn.phase = "SelectAbility"
  <2>1. turn'.phase = "AttachMonster" /\ b = a
    BY <1>1, <1>5 DEF NextPhase
  <2>2. Completed(turn') = Completed(turn) \cup {<<a, "SelectAbility">>}
    <3>1. Completed(turn') = (Players \X {"DropAbility"})
                               \cup (Before(a) \X {"SelectAbility"})
                               \cup {<<a, "SelectAbility">>}
                               \cup (Before(a) \X {"AttachMonster"})
      BY <2>1, CompletedByPhase DEF b
    <3>2. Completed(turn) = (Players \X {"DropAbility"})
                               \cup (Before(a) \X {"SelectAbility"})
                               \cup (Before(a) \X {"AttachMonster"})
      BY <1>5, CompletedByPhase DEF a
    <3> QED
      BY <3>1, <3>2
  <2>3. Abstract!SelectTurn
    BY <1>2, <1>5, <2>1, <2>2 DEF Abstract!SelectTurn, Abstract!EndTurn, a
  <2> QED
    BY <2>3 DEF Abstract!Next
<1>6. CASE turn.phase = "AttachMonster" /\ a # PlayerCount - 1
  <2>1. turn'.phase = "SelectAbility" /\ b = a + 1
    BY <1>1, <1>6 DEF NextPhase
  <2>2. /\ b \in Players /\ b # a /\ b \notin Before(a)
        /\ Before(b) = Before(a) \cup {a}
    BY <1>1, <1>6, <2>1, BeforeFacts, PlayerCountAssumption DEF Before, Players
  <2>3. Completed(turn') = (Players \X {"DropAbility"})
                             \cup (Before(b) \X {"SelectAbility"})
                             \cup (Before(b) \X {"AttachMonster"})
    BY <2>1, CompletedByPhase DEF b
  <2>4. Completed(turn) = (Players \X {"DropAbility"})
                             \cup (Before(a) \X {"SelectAbility"})
                             \cup {<<a, "SelectAbility">>}
                             \cup (Before(a) \X {"AttachMonster"})
    BY <1>6, CompletedByPhase DEF a
  <2>5. Completed(turn') = Completed(turn) \cup {<<a, "AttachMonster">>}
    BY <2>2, <2>3, <2>4
  <2>6. /\ b \in Abstract!Pending("AttachMonster", Completed(turn'))
        /\ b \in Abstract!Pending("SelectAbility", Completed(turn'))
    BY <2>2, <2>3 DEF Abstract!Pending
  <2>7. Abstract!AttackTurn
    BY <1>2, <1>6, <2>1, <2>5, <2>6
    DEF Abstract!AttackTurn, Abstract!EndTurn, Abstract!PassTo, a
  <2> QED
    BY <2>7 DEF Abstract!Next
<1>7. CASE turn.phase = "AttachMonster" /\ a = PlayerCount - 1
  <2>1. turn'.phase = "Defend" /\ b = 0
    BY <1>1, <1>7 DEF NextPhase
  <2>2. Completed(turn') = (Players \X {"DropAbility"})
                             \cup (Players \X {"SelectAbility"})
                             \cup (Players \X {"AttachMonster"})
    BY <2>1, CompletedByPhase, BeforeFacts DEF b
  <2>3. Completed(turn) = (Players \X {"DropAbility"})
                             \cup (Before(a) \X {"SelectAbility"})
                             \cup {<<a, "SelectAbility">>}
                             \cup (Before(a) \X {"AttachMonster"})
    BY <1>7, CompletedByPhase DEF a
  <2>4. Players = Before(a) \cup {a}
    BY <1>1, <1>7, BeforeFacts
  <2>5. Completed(turn') = Completed(turn) \cup {<<a, "AttachMonster">>}
    BY <2>2, <2>3, <2>4
  <2>6. /\ Abstract!Pending("AttachMonster", Completed(turn')) = {}
        /\ b \in Abstract!Pending("Defend", Completed(turn'))
    BY <2>1, <2>2, BeforeFacts DEF Abstract!Pending
  <2>7. Abstract!AttackTurn
    BY <1>2, <1>7, <2>1, <2>5, <2>6
    DEF Abstract!AttackTurn, Abstract!EndTurn, Abstract!PassTo, a
  <2> QED
    BY <2>7 DEF Abstract!Next
<1>8. CASE turn.phase = "Defend" /\ a # PlayerCount - 1
  <2>1. turn'.phase = "Defend" /\ b = a + 1
    BY <1>1, <1>8 DEF NextPhase
  <2>2. /\ b \in Players /\ b # a /\ b \notin Before(a) /\ b \notin Before(b)
        /\ Before(b) = Before(a) \cup {a}
    BY <1>1, <1>8, <2>1, BeforeFacts, PlayerCountAssumption DEF Before, Players
  <2>3. Completed(turn') = (Players \X {"DropAbility"})
                             \cup (Players \X {"SelectAbility"})
                             \cup (Players \X {"AttachMonster"})
                             \cup (Before(b) \X {"Defend"})
    BY <2>1, CompletedByPhase DEF b
  <2>4. Completed(turn) = (Players \X {"DropAbility"})
                             \cup (Players \X {"SelectAbility"})
                             \cup (Players \X {"AttachMonster"})
                             \cup (Before(a) \X {"Defend"})
    BY <1>8, CompletedByPhase DEF a
  <2>5. Completed(turn') = Completed(turn) \cup {<<a, "Defend">>}
    BY <2>2, <2>3, <2>4
  <2>6. b \in Abstract!Pending("Defend", Completed(turn'))
    BY <2>2, <2>3 DEF Abstract!Pending
  <2>7. Abstract!DefendTurn
    BY <1>2, <1>8, <2>1, <2>5, <2>6
    DEF Abstract!DefendTurn, Abstract!EndTurn, Abstract!PassTo, a
  <2> QED
    BY <2>7 DEF Abstract!Next
<1>9. CASE turn.phase = "Defend" /\ a = PlayerCount - 1
  <2>1. turn'.phase = "DropAbility" /\ b = 0
    BY <1>1, <1>9 DEF NextPhase
  <2>2. Completed(turn') = {}
    BY <2>1, CompletedByPhase, BeforeFacts DEF b
  <2>3. Completed(turn) = (Players \X {"DropAbility"})
                             \cup (Players \X {"SelectAbility"})
                             \cup (Players \X {"AttachMonster"})
                             \cup (Before(a) \X {"Defend"})
    BY <1>9, CompletedByPhase DEF a
  <2>4. Players = Before(a) \cup {a}
    BY <1>1, <1>9, BeforeFacts
  <2>5. Abstract!Pending("Defend", Completed(turn) \cup {<<a, "Defend">>}) = {}
    BY <2>3, <2>4 DEF Abstract!Pending
  <2>6. Abstract!NewRound
    BY <1>2, <1>9, <2>1, <2>2, <2>5, BeforeFacts DEF Abstract!NewRound, a
  <2> QED
    BY <2>6 DEF Abstract!Next
<1> QED
  BY <1>1, <1>3, <1>4, <1>5, <1>6, <1>7, <1>8, <1>9 DEF Phases

(* A killed monster is no turn: the abstract round stutters. *)
LEMMA DropIsAStutter ==
  ASSUME IInv, NEW m \in Monsters, DropMonster(m)
  PROVE  UNCHANGED Abstract!vars
<1>1. turn' = [turn EXCEPT !.monsters = Line!DeactivateByIndex(@, m)]
  BY DEF DropMonster
<1>2. turn'.phase = turn.phase /\ turn'.peers = turn.peers
  BY <1>1 DEF IInv, TypeOK, Turn
<1>3. Active(turn)' = Active(turn)
  BY <1>2 DEF Active
<1>4. Completed(turn)' = Completed(turn)
  BY <1>2, <1>3 DEF Completed, Active
<1> QED
  BY <1>2, <1>3, <1>4 DEF Abstract!vars

LEMMA StartOfARound == Init => Abstract!Init
<1> SUFFICES ASSUME Init PROVE Abstract!Init
  OBVIOUS
<1>1. turn.phase = "DropAbility" /\ Active(turn) = 0
  BY OneSlot DEF Init, StartTurn, Active, Peers!WithItems, Peers!Enable
<1>2. Completed(turn) = {}
  BY <1>1, CompletedByPhase, BeforeFacts
<1> QED
  BY <1>1, <1>2, BeforeFacts DEF Abstract!Init

(* The server's turn order implements the abstract round, for every number   *)
(* of players: no player is skipped and no one plays a phase twice.         *)
THEOREM TurnOrderImplementsRounds == Spec => ImplementsRounds
<1>1. IInv /\ [Next]_vars => [Abstract!Next]_(Abstract!vars)
  <2> SUFFICES ASSUME IInv, [Next]_vars
               PROVE  Abstract!Next \/ UNCHANGED Abstract!vars
    OBVIOUS
  <2>1. CASE SwitchPlayer
    BY <2>1, SwitchIsATurn
  <2>2. ASSUME NEW m \in Monsters, DropMonster(m)
        PROVE  UNCHANGED Abstract!vars
    BY <2>2, DropIsAStutter
  <2>3. CASE UNCHANGED vars
    BY <2>3 DEF vars, Abstract!vars, Active, Completed
  <2> QED
    BY <2>1, <2>2, <2>3 DEF Next
<1> QED
  BY <1>1, InitInv, StepInv, StartOfARound, PTL DEF Spec, ImplementsRounds, Abstract!Spec

-------------------------------------------------------------------------------
(* An attack leaves every slot of the line as it was or empties it. *)
LEMMA AttackDealsNothing ==
  ASSUME NEW a \in Line!Window(DeckSize), NEW m \in Monsters
  PROVE  Line!ActiveItems(Line!DeactivateByIndex(a, m)) \subseteq Line!ActiveItems(a)
<1> DEFINE b == Line!DeactivateByIndex(a, m)
<1>1. ASSUME NEW s \in Line!Slots
      PROVE  b[s] = a[s] \/ ~ b[s].on
  BY DEF Line!DeactivateByIndex, Line!Disable, Line!Window
<1> HIDE DEF b
<1>2. ASSUME NEW s \in Line!Slots
      PROVE  Line!ActiveItem(b, s) \subseteq Line!ActiveItem(a, s)
  BY <1>1 DEF Line!ActiveItem
<1>3. Line!ActiveItems(b) \subseteq Line!ActiveItems(a)
  BY <1>2 DEF Line!ActiveItems
<1> QED
  BY <1>3 DEF b

(* A switch deals monsters only where it closes the round. *)
LEMMA SwitchDealsAtTheEnd ==
  ASSUME IInv, SwitchPlayer
  PROVE  \/ turn'.monsters = turn.monsters
         \/ /\ turn.phase = "Defend"
            /\ turn'.phase = "DropAbility"
            /\ Active(turn) = PlayerCount - 1
<1>1. turn.peers \in Peers!Window(PlayerCount)
  BY DEF IInv, TypeOK, Turn
<1>2. WasLast(turn) <=> Active(turn) = PlayerCount - 1
  BY <1>1, SwitchPeers DEF IInv
<1>3. CASE EndsCycle(turn)
  <2>1. turn.phase = "Defend" /\ WasLast(turn)
    BY <1>3 DEF EndsCycle
  <2>2. turn'.phase = "DropAbility"
    BY <2>1, SwitchFields DEF IInv, NextPhase
  <2> QED
    BY <1>2, <2>1, <2>2
<1>4. CASE ~ EndsCycle(turn)
  BY <1>4, SwitchFields DEF IInv
<1> QED
  BY <1>3, <1>4

(* Whatever the players do, a monster that was not on the table comes to it  *)
(* only when the last player has defended and the next round begins.        *)
THEOREM NoMonsterMidRound == Spec => DealtBetweenRounds
<1> DEFINE Dealt == \/ Line!ActiveItems(turn'.monsters) \subseteq Line!ActiveItems(turn.monsters)
                    \/ /\ turn.phase = "Defend"
                       /\ turn'.phase = "DropAbility"
                       /\ Active(turn) = PlayerCount - 1
<1>1. IInv /\ [Next]_vars => [Dealt]_vars
  <2> SUFFICES ASSUME IInv, [Next]_vars PROVE Dealt \/ UNCHANGED vars
    OBVIOUS
  <2>1. CASE SwitchPlayer
    BY <2>1, SwitchDealsAtTheEnd
  <2>2. ASSUME NEW m \in Monsters, DropMonster(m)
        PROVE  Dealt
    <3>1. turn.monsters \in Line!Window(DeckSize)
      BY DEF IInv, TypeOK, Turn
    <3>2. turn'.monsters = Line!DeactivateByIndex(turn.monsters, m)
      BY <2>2 DEF DropMonster, IInv, TypeOK, Turn
    <3> QED
      BY <3>1, <3>2, AttackDealsNothing
  <2> QED
    BY <2>1, <2>2 DEF Next
<1> QED
  BY <1>1, InitInv, StepInv, PTL DEF Spec, DealtBetweenRounds
===============================================================================
