------------------------------ MODULE TurnOrder -------------------------------
(***************************************************************************)
(* The turn state of the game server under the commands that change it:    *)
(* SwitchToNextPlayer and DropMonster (server/states.rs:1175-1198).  The    *)
(* game server runs one command at a time, so an action is a command.      *)
(*                                                                         *)
(* NextMonsters (states.rs:1199-1201) is in the server's API and nothing   *)
(* calls it; it is not a step of this specification.                       *)
(***************************************************************************)
EXTENDS Turns

VARIABLE turn

vars == turn

Monsters == 0 .. (DeckSize - 1)

Init == turn = StartTurn

SwitchPlayer == turn' = SwitchToNextPlayer(turn)

(* deactivate_item; an attack on a monster that no slot holds is answered   *)
(* with an error and changes nothing.                                      *)
DropMonster(m) ==
  /\ ~ Line!AlreadyNotActive(turn.monsters, m)
  /\ turn' = [turn EXCEPT !.monsters = Line!DeactivateByIndex(@, m)]

Next == SwitchPlayer \/ \E m \in Monsters : DropMonster(m)

Spec == Init /\ [][Next]_vars

-------------------------------------------------------------------------------
TypeOK == turn \in Turn

(* There is always an active player: the `expect`s of states.rs:1170, 1326  *)
(* and of the broadcasts that follow never panic.  It needs EndOfItems to   *)
(* be followed by repeat_after_eof in every phase that deactivates.        *)
ActivePlayerExists == HasActive(turn)

(* The round as the rules mean it: the turns finished in the current round. *)
(* Every player discards; then each in turn selects an ability and attacks; *)
(* then every player defends.                                              *)
Before(a) == 0 .. (a - 1)

Completed(t) ==
  LET a == Active(t)
      All(ph) == Players \X {ph}
      Some(ph) == Before(a) \X {ph}
  IN CASE t.phase = "DropAbility"   -> Some("DropAbility")
       [] t.phase = "SelectAbility" ->
            All("DropAbility") \cup Some("SelectAbility") \cup Some("AttachMonster")
       [] t.phase = "AttachMonster" ->
            All("DropAbility") \cup Some("SelectAbility")
              \cup {<<a, "SelectAbility">>} \cup Some("AttachMonster")
       [] t.phase = "Defend"        ->
            All("DropAbility") \cup All("SelectAbility") \cup All("AttachMonster")
              \cup Some("Defend")

(* The abstract round, Rounds, with what this server keeps.  The property   *)
(* Rounds!Spec says that whatever the commands, no player is skipped, none  *)
(* plays a phase twice in a round, an attack follows the same player's      *)
(* selection, and no one defends before everyone has attacked.             *)
Abstract == INSTANCE Rounds WITH
              Players <- Players,
              who     <- Active(turn),
              phase   <- turn.phase,
              done    <- Completed(turn)

ImplementsRounds == Abstract!Spec

(* Monsters are dealt only between two rounds: a slot emptied by an attack  *)
(* stays empty until the last player has defended.                         *)
DealtBetweenRounds ==
  [][ Line!ActiveItems(turn'.monsters) \subseteq Line!ActiveItems(turn.monsters)
      \/ /\ turn.phase = "Defend"
         /\ turn'.phase = "DropAbility"
         /\ Active(turn) = PlayerCount - 1 ]_vars
===============================================================================
