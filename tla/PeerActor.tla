------------------------------ MODULE PeerActor -------------------------------
(***************************************************************************)
(* A peer actor in the Game state: run_state! over Peer<Game>,             *)
(* server/peer.rs:393-444 and 1093-1200.                                   *)
(*                                                                         *)
(* The connection task spawns it and keeps a handle; the slot in the room   *)
(* holds the other.  So it outlives its connection, until a send to the     *)
(* client's closed socket makes a command fail, which ends the actor.      *)
(***************************************************************************)
EXTENDS Session

(* The client's channel is open while its connection task runs. *)
SocketOpen(c) == conn[c].pc \notin Over

Handles(c, msg) ==
  /\ Running
  /\ actor[c] = "idle"
  /\ aq[c] # <<>>
  /\ Head(aq[c]).msg = msg

PopTo(c, state) ==
  /\ actor' = [actor EXCEPT ![c] = state]
  /\ aq' = [aq EXCEPT ![c] = Tail(@)]

(* The loop breaks: the mailbox is dropped with what it holds. *)
FailAndDie(c) ==
  /\ actor' = [actor EXCEPT ![c] = "dead"]
  /\ aq' = [aq EXCEPT ![c] = <<>>]
  /\ crashed' = LossOfMailbox(c)

(* GetUsername, of the game server or of the own connection's chat line. *)
AnswerGetUsername(c) ==
  /\ Handles(c, "GetUsername")
  /\ PopTo(c, "idle")
  /\ LET asker == Head(aq[c]).asker
     IN  IF asker = NoConn
         THEN /\ gwait' = [gwait EXCEPT !.got = name[c]]
              /\ UNCHANGED conn
         ELSE /\ conn' = [conn EXCEPT ![asker].pc = "chat"]
              /\ UNCHANGED gwait
  /\ UNCHANGED <<turn, slots, gq, introVars, name, sock, clientVars, crashed>>

(* TakePeer: the state moves to the new connection of the same player; what  *)
(* is left has the default username.                                       *)
AnswerTakePeer(c) ==
  /\ Handles(c, "TakePeer")
  /\ PopTo(c, "idle")
  /\ LET new == Head(aq[c]).asker
     IN  /\ name' = [name EXCEPT ![new] = name[c], ![c] = NoName]
         /\ conn' = [conn EXCEPT ![new].pc = "taken"]
  /\ UNCHANGED <<serverVars, introVars, sock, clientVars, crashed>>

(* SendTcp: to the client's channel.  Only turn statuses are kept in it. *)
ForwardTcp(c) ==
  /\ Handles(c, "SendTcp")
  /\ IF SocketOpen(c)
     THEN /\ PopTo(c, "idle")
          /\ sock' = IF Head(aq[c]).what \in Statuses
                     THEN [sock EXCEPT ![c] = Append(@, Head(aq[c]).what)]
                     ELSE sock
          /\ UNCHANGED crashed
     ELSE FailAndDie(c) /\ UNCHANGED sock
  /\ UNCHANGED <<serverVars, introVars, name, conn, clientVars>>

(* DropAbility, SelectAbility, Attack, ContinueGame: the first request of    *)
(* the move to the server.                                                 *)
MoveState(kind) == CASE kind = "AttachMonster" -> "w_monster"
                     [] kind = "Defend"        -> "w_monster"
                     [] OTHER                  -> "w_switch"
MoveCommand(kind) == CASE kind = "AttachMonster" -> "DropMonster"
                       [] kind = "Defend"        -> "ContinueGameCycle"
                       [] OTHER                  -> "SwitchToNextPlayer"

(* Mutated: the answer of the server is not awaited. *)
StartMoveNoAwait(c) ==
  /\ Handles(c, "Move")
  /\ PopTo(c, "idle")
  /\ gq' = Append(gq, Command(MoveCommand(Head(aq[c]).what), c))
  /\ UNCHANGED <<turn, slots, gwait, introVars, name, connVars, clientVars, crashed>>

StartMove(c) ==
  /\ Handles(c, "Move")
  /\ PopTo(c, MoveState(Head(aq[c]).what))
  /\ gq' = Append(gq, Command(MoveCommand(Head(aq[c]).what), c))
  /\ UNCHANGED <<turn, slots, gwait, introVars, name, connVars, clientVars, crashed>>

(* DropAbility of a card that is not in the hand, Attack without a selected   *)
(* ability or on a monster that is not in the line: the command fails and    *)
(* ends the actor, and its answer is lost.  The cards are left out here;     *)
(* CardGame shows that no move is refused before a client has pressed twice  *)
(* for one Turn message (CardProofs, MovesNeverRefused).                   *)
MayFail(c) ==
  \/ Handles(c, "Move") /\ Head(aq[c]).what \in {"DropAbility", "AttachMonster"}
  \/ Running /\ actor[c] = "may_switch" /\ conn[c].move = "AttachMonster"

RefuseMove(c) ==
  /\ MayFail(c)
  /\ eager
  /\ FailAndDie(c)
  /\ conn' = [conn EXCEPT ![c].pc = "refused"]
  /\ UNCHANGED <<serverVars, introVars, name, sock, clientVars>>

(* Attack and ContinueGame go on with the switch of players. *)
GoOnToSwitch(c) ==
  /\ Running
  /\ actor[c] = "may_switch"
  /\ actor' = [actor EXCEPT ![c] = "w_switch"]
  /\ gq' = Append(gq, Command("SwitchToNextPlayer", c))
  /\ UNCHANGED <<turn, slots, gwait, introVars, name, aq, connVars, clientVars, crashed>>

(* The move is over: answer to the connection's handle. *)
FinishMove(c) ==
  /\ Running
  /\ actor[c] = "switched"
  /\ actor' = [actor EXCEPT ![c] = "idle"]
  /\ conn' = [conn EXCEPT ![c].pc = "answer_turn"]
  /\ UNCHANGED <<serverVars, introVars, name, aq, sock, clientVars, crashed>>

(* SyncWithClient: ask for the monsters, then send. *)
StartSync(c) ==
  /\ Handles(c, "SyncWithClient")
  /\ PopTo(c, "w_monsters")
  /\ gq' = Append(gq, Command("GetMonsters", c))
  /\ UNCHANGED <<turn, slots, gwait, introVars, name, connVars, clientVars, crashed>>

FinishSync(c) ==
  /\ Running
  /\ actor[c] = "got_monsters"
  /\ IF SocketOpen(c)
     THEN /\ actor' = [actor EXCEPT ![c] = "idle"]
          /\ UNCHANGED <<aq, crashed>>
     ELSE FailAndDie(c)
  /\ UNCHANGED <<serverVars, introVars, name, connVars, clientVars>>

(* The connection has ended, the room holds another one in its slot and the   *)
(* intro server is not about to hand this one over: the last handle is gone, *)
(* and the actor ends when its mailbox is empty.                           *)
EndWithoutHandles(c) ==
  /\ Running
  /\ actor[c] = "idle"
  /\ aq[c] = <<>>
  /\ conn[c].pc \in Over
  /\ c \notin Seated /\ c # iwait.from
  /\ actor' = [actor EXCEPT ![c] = "dead"]
  /\ UNCHANGED <<serverVars, introVars, name, aq, connVars, clientVars, crashed>>

PeerActorNext(c) ==
  \/ AnswerGetUsername(c) \/ AnswerTakePeer(c) \/ ForwardTcp(c) \/ StartMove(c)
  \/ RefuseMove(c) \/ GoOnToSwitch(c) \/ FinishMove(c) \/ StartSync(c) \/ FinishSync(c)
  \/ EndWithoutHandles(c)
===============================================================================
