-------------------------------- MODULE Turns ---------------------------------
(***************************************************************************)
(* Whose turn it is and in which phase: GameServer::switch_to_next_player, *)
(* server/states.rs:1276-1328.                                             *)
(*                                                                         *)
(* The players of a room are told apart by their slot, 0 .. PlayerCount-1; *)
(* the active player is the one enabled item of a Stateble of one slot.    *)
(* The monsters on the table are a Stateble of MonstersPerLine slots.      *)
(***************************************************************************)
EXTENDS Integers, FiniteSets

CONSTANTS PlayerCount,        \* players in the room when the game started
          MonstersPerLine,    \* MONSTERS_PER_LINE_COUNT
          DeckSize            \* monsters in the deck

ASSUME PlayerCountAssumption == PlayerCount \in Nat \ {0}
ASSUME DeckAssumption == /\ MonstersPerLine \in Nat \ {0}
                         /\ DeckSize \in Nat
                         /\ MonstersPerLine <= DeckSize

Peers == INSTANCE Stateble WITH ActiveCount <- 1
Line  == INSTANCE Stateble WITH ActiveCount <- MonstersPerLine

Players == 0 .. (PlayerCount - 1)

(* GamePhaseKind *)
Phases == {"DropAbility", "SelectAbility", "AttachMonster", "Defend"}

(* The part of GameServer that a switch of players reads and writes. *)
Turn == [phase : Phases, peers : Peers!Window(PlayerCount),
         monsters : Line!Window(DeckSize)]

StartTurn == [phase |-> "DropAbility", peers |-> Peers!WithItems,
              monsters |-> Line!WithItems]

(* peers.actives[0].unwrap_index(): the player the switch starts from, and  *)
(* peers.active_items()[0], `None` when the slot is disabled.              *)
Active(turn)    == turn.peers[0].at
HasActive(turn) == turn.peers[0].on

(* deactivate_item_by_index of the active player, then next_actives; on     *)
(* EndOfItems the first player is the next one.                            *)
Finished(turn) == Peers!DeactivateByIndex(turn.peers, Active(turn))
WasLast(turn)  == Peers!EndOfItems(Finished(turn), PlayerCount)
(* Mutated: the first player does not follow the last. *)
NextWithoutRepeat(turn) == Peers!NextActives(Finished(turn), PlayerCount)

NextPeers(turn) ==
  LET moved == Peers!NextActives(Finished(turn), PlayerCount)
  IN  IF WasLast(turn)
      THEN Peers!RepeatAfterEof(moved, Peers!Eof(Finished(turn), PlayerCount))
      ELSE moved

(* Mutated: the second attacker has no ability to attack with. *)
AttackAtOnce(turn) ==
  CASE turn.phase = "DropAbility"   ->
         IF WasLast(turn) THEN "SelectAbility" ELSE "DropAbility"
    [] turn.phase = "SelectAbility" -> "AttachMonster"
    [] turn.phase = "AttachMonster" ->
         IF WasLast(turn) THEN "Defend" ELSE "AttachMonster"
    [] turn.phase = "Defend"        ->
         IF WasLast(turn) THEN "DropAbility" ELSE "Defend"

NextPhase(turn) ==
  CASE turn.phase = "DropAbility"   ->
         IF WasLast(turn) THEN "SelectAbility" ELSE "DropAbility"
    [] turn.phase = "SelectAbility" -> "AttachMonster"
    [] turn.phase = "AttachMonster" ->
         IF WasLast(turn) THEN "Defend" ELSE "SelectAbility"
    [] turn.phase = "Defend"        ->
         IF WasLast(turn) THEN "DropAbility" ELSE "Defend"

(* Mutated: every defender ends the cycle. *)
EveryDefend(turn) == turn.phase = "Defend"

(* The last player to defend ends the cycle: new monsters for the killed.  *)
EndsCycle(turn) == turn.phase = "Defend" /\ WasLast(turn)

(* Mutated: monsters are dealt past the end of the deck. *)
DealUnchecked(turn) ==
  [phase    |-> NextPhase(turn),
   peers    |-> IF turn.phase = "SelectAbility" THEN turn.peers
                                                ELSE NextPeers(turn),
   monsters |-> [s \in Line!Slots |->
                   IF EndsCycle(turn) THEN Line!Enable(turn.monsters[s].at + MonstersPerLine)
                                      ELSE turn.monsters[s]]]

SwitchToNextPlayer(turn) ==
  [phase    |-> NextPhase(turn),
   peers    |-> IF turn.phase = "SelectAbility" THEN turn.peers
                                                ELSE NextPeers(turn),
   monsters |-> IF EndsCycle(turn) THEN Line!NextActives(turn.monsters, DeckSize)
                                   ELSE turn.monsters]
===============================================================================
