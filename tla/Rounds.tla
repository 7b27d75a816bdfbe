-------------------------------- MODULE Rounds --------------------------------
(***************************************************************************)
(* What a round of the game promises, without an order of the players.     *)
(*                                                                         *)
(* In a round every player drops an ability; when all have, they attack    *)
(* one after another, each selecting an ability and then attaching a       *)
(* monster; when all have attacked, every player defends and a new round   *)
(* starts.  `done` is the set of turns finished in this round.             *)
(***************************************************************************)
CONSTANT Players

VARIABLES who,                \* the player whose turn it is
          phase,              \* the turn it takes
          done                \* <<player, phase>> finished in this round

vars == <<who, phase, done>>

Turns4 == {"DropAbility", "SelectAbility", "AttachMonster", "Defend"}

Pending(ph, finished) == {p \in Players : <<p, ph>> \notin finished}

Init ==
  /\ who \in Players
  /\ phase = "DropAbility"
  /\ done = {}

(* The turn passes to a player who has not taken turn ph in this round. *)
PassTo(ph) ==
  /\ phase' = ph
  /\ who' \in Pending(ph, done')

EndTurn == done' = done \cup {<<who, phase>>}

DropTurn ==
  /\ phase = "DropAbility"
  /\ EndTurn
  /\ IF Pending("DropAbility", done') # {} THEN PassTo("DropAbility")
                                           ELSE PassTo("SelectAbility")

(* Whoever has selected an ability attacks next. *)
SelectTurn ==
  /\ phase = "SelectAbility"
  /\ EndTurn
  /\ phase' = "AttachMonster"
  /\ who' = who

AttackTurn ==
  /\ phase = "AttachMonster"
  /\ EndTurn
  /\ IF Pending("AttachMonster", done') # {} THEN PassTo("SelectAbility")
                                             ELSE PassTo("Defend")

DefendTurn ==
  /\ phase = "Defend"
  /\ Pending("Defend", done \cup {<<who, phase>>}) # {}
  /\ EndTurn
  /\ PassTo("Defend")

NewRound ==
  /\ phase = "Defend"
  /\ Pending("Defend", done \cup {<<who, phase>>}) = {}
  /\ done' = {}
  /\ phase' = "DropAbility"
  /\ who' \in Players

Next == DropTurn \/ SelectTurn \/ AttackTurn \/ DefendTurn \/ NewRound

Spec == Init /\ [][Next]_vars
===============================================================================
