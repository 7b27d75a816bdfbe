------------------------------ MODULE GameServer ------------------------------
(***************************************************************************)
(* The game server: run_state over GameServer, server/states.rs.           *)
(*                                                                         *)
(* It takes one command at a time.  A command that needs a username asks    *)
(* the actor of a connection for it and waits; `gwait` is the command it is *)
(* in the middle of.  A command that expects an open mailbox panics when    *)
(* the actor behind it is dead, and the panic ends the server's task.      *)
(***************************************************************************)
EXTENDS Session

Receive(cmd) ==
  /\ Running
  /\ gwait.op = "idle"
  /\ gq # <<>>
  /\ Head(gq).cmd = cmd

(* The next command has been taken and answered. *)
Taken == gq' = Tail(gq) /\ UNCHANGED gwait

Panic(what) == crashed' = what

-------------------------------------------------------------------------------
(* Commands of the GameCmd API.                                            *)

GetActivePlayer ==
  /\ Receive("GetActivePlayer")
  /\ Taken
  /\ conn' = [conn EXCEPT ![Head(gq).from].pc = "got_active",
                          ![Head(gq).from].val = ActiveConn(turn)]
  /\ UNCHANGED <<turn, slots, introVars, actorVars, sock, clientVars, crashed>>

(* Asked by an actor that synchronises its client, or by a connection that  *)
(* is entering the game and has no actor yet.                              *)
GetMonsters ==
  /\ Receive("GetMonsters")
  /\ Taken
  /\ LET c == Head(gq).from
     IN  IF conn[c].pc = "w_boot"
         THEN /\ conn' = [conn EXCEPT ![c].pc = "booted"]
              /\ UNCHANGED actor
         ELSE /\ actor' = [actor EXCEPT ![c] = "got_monsters"]
              /\ UNCHANGED conn
  /\ UNCHANGED <<turn, slots, introVars, name, aq, sock, clientVars, crashed>>

(* drop_monster of an attack, and continue_game_cycle, which does nothing. *)
DropMonsterOrContinue ==
  /\ Receive("DropMonster") \/ Receive("ContinueGameCycle")
  /\ Taken
  /\ actor' = [actor EXCEPT ![Head(gq).from] = "may_switch"]
  /\ UNCHANGED <<turn, slots, introVars, name, aq, connVars, clientVars, crashed>>

(* switch_to_next_player, then Wait to the others that are online and Ready *)
(* to the next player, online or not.                                      *)
(* Mutated: whose turn has ended is not told; the next player is told both.  *)
OnlyReady(q, next, phase) == Post(q, {next}, SendTcp(phase))
WaitToAll(q, next, phase) ==
  Post(Post(q, {next}, SendTcp(phase)), OnlineSeats, SendTcp(Wait))

TurnMessages(q, next, phase) ==
  Post(Post(q, OnlineSeats \ {next}, SendTcp(Wait)), {next}, SendTcp(phase))

(* Mutated: Ready carries the phase that is over; the phase changes and the  *)
(* player stays.                                                           *)
AnnounceOldPhase ==
  /\ Receive("SwitchToNextPlayer")
  /\ Taken
  /\ turn' = T!SwitchToNextPlayer(turn)
  /\ aq' = TurnMessages(aq, ActiveConn(turn'), turn.phase)
  /\ actor' = [actor EXCEPT ![Head(gq).from] = "switched"]
  /\ UNCHANGED <<slots, introVars, name, connVars, clientVars, crashed>>
KeepPlayer ==
  /\ Receive("SwitchToNextPlayer")
  /\ Taken
  /\ turn' = [T!SwitchToNextPlayer(turn) EXCEPT !.peers = turn.peers]
  /\ aq' = TurnMessages(aq, ActiveConn(turn'), turn'.phase)
  /\ actor' = [actor EXCEPT ![Head(gq).from] = "switched"]
  /\ UNCHANGED <<slots, introVars, name, connVars, clientVars, crashed>>

SwitchPlayer ==
  /\ Receive("SwitchToNextPlayer")
  /\ Taken
  /\ turn' = T!SwitchToNextPlayer(turn)
  /\ aq' = TurnMessages(aq, ActiveConn(turn'), turn'.phase)
  /\ actor' = [actor EXCEPT ![Head(gq).from] = "switched"]
  /\ UNCHANGED <<slots, introVars, name, connVars, clientVars, crashed>>

(* sync_with_client of every other peer, whatever its status; the expect of  *)
(* the handle panics when the actor is dead.                               *)
BroadcastGameState ==
  /\ Receive("BroadcastGameState")
  /\ LET others == Seated \ {Head(gq).from}
     IN  IF \A c \in others : Open(c)
         THEN /\ Taken
              /\ aq' = Post(aq, others, SyncWithClient)
              /\ UNCHANGED crashed
         ELSE /\ Panic("game")
              /\ UNCHANGED <<gq, gwait, aq>>
  /\ UNCHANGED <<turn, slots, introVars, actor, name, connVars, clientVars>>

(* A chat line, to the other peers that are online. *)
Broadcast ==
  /\ Receive("Broadcast")
  /\ Taken
  /\ aq' = Post(aq, OnlineSeats \ {Head(gq).from}, SendTcp(Chat))
  /\ conn' = [conn EXCEPT ![Head(gq).from].pc = "read"]
  /\ UNCHANGED <<turn, slots, introVars, actor, name, sock, clientVars, crashed>>

IsPeerConnected ==
  /\ Receive("IsPeerConnected")
  /\ Taken
  /\ iwait' = [iwait EXCEPT !.got = IF Head(gq).arg \in OnlineSeats
                                    THEN "online" ELSE "offline"]
  /\ UNCHANGED <<turn, slots, lobby, here, entering, iq, actorVars, connVars,
                 clientVars, crashed>>

(* The slot gets the address and the handle of the new connection. *)
ReconnectPeer ==
  /\ Receive("ReconnectPeer")
  /\ Taken
  /\ slots' = [p \in Players |-> IF slots[p].conn = Head(gq).arg
                                 THEN [conn |-> Head(gq).from, online |-> TRUE]
                                 ELSE slots[p]]
  /\ iwait' = [iwait EXCEPT !.got = "done"]
  /\ UNCHANGED <<turn, lobby, here, entering, iq, actorVars, connVars,
                 clientVars, crashed>>

-------------------------------------------------------------------------------
(* Commands of the SharedCmd API, which ask actors for usernames.  The       *)
(* command stays at the head of the mailbox until it is answered.          *)

(* get_username of the actor of c, in the middle of command op. *)
Ask(op, c, found) ==
  IF Open(c)
  THEN /\ aq' = [aq EXCEPT ![c] = Append(@, GetUsername(NoConn))]
       /\ gwait' = Asking(op, c, found)
       /\ UNCHANGED crashed
  ELSE /\ Panic("game")
       /\ UNCHANGED <<aq, gwait>>

(* The username of whoever was active a moment ago: its seat may have been   *)
(* taken by another connection since, and the unwrap of get_peer panics.   *)
GetPeerUsername ==
  /\ Receive("GetPeerUsername")
  /\ IF Head(gq).arg \in Seated
     THEN Ask("GetPeerUsername", Head(gq).arg, NoConn)
     ELSE Panic("game") /\ UNCHANGED <<aq, gwait>>
  /\ UNCHANGED <<turn, slots, gq, introVars, actor, name, connVars, clientVars>>

DropPeer ==
  /\ Receive("DropPeer")
  /\ IF Head(gq).from \in Seated
     THEN Ask("DropPeer", Head(gq).from, NoConn) /\ UNCHANGED gq
     ELSE Taken /\ UNCHANGED <<aq, crashed>>
  /\ UNCHANGED <<turn, slots, introVars, actor, name, connVars, clientVars>>

(* The actors are asked one after another, in the order of the slots. *)
Searches == {"GetPeerIdByName", "GetPeerHandleByUsername"}

SearchByName ==
  /\ \E op \in Searches : Receive(op)
  /\ Ask(Head(gq).cmd, slots[0].conn, NoConn)
  /\ UNCHANGED <<turn, slots, gq, introVars, actor, name, connVars, clientVars>>

-------------------------------------------------------------------------------
(* The actor has answered with its username.                               *)

Came(op) ==
  /\ Running
  /\ gwait.op = op
  /\ gwait.got # Pending

Finished == gq' = Tail(gq) /\ gwait' = ServerIdle

AnswerUsername ==
  /\ Came("GetPeerUsername")
  /\ Finished
  /\ conn' = [conn EXCEPT ![Head(gq).from].pc = "answer_turn"]
  /\ UNCHANGED <<turn, slots, introVars, actorVars, sock, clientVars, crashed>>

(* The Disconnection line goes to the others that are online, then the slot  *)
(* is marked offline: it stays in the room for a reconnection.             *)
MarkOffline ==
  /\ Came("DropPeer")
  /\ Finished
  /\ aq' = Post(aq, OnlineSeats \ {gwait.asked}, SendTcp(Chat))
  /\ slots' = [p \in Players |-> IF slots[p].conn = gwait.asked
                                 THEN [slots[p] EXCEPT !.online = FALSE]
                                 ELSE slots[p]]
  /\ UNCHANGED <<turn, introVars, actor, name, connVars, clientVars, crashed>>

(* The search for an id goes through all slots and keeps the last match; the *)
(* search for a handle stops at the first.                                 *)
SlotOf(c)  == CHOOSE p \in Players : slots[p].conn = c
AnyMatches == TRUE                       \* mutated: every name matches
Matches    == gwait.got = Owner(Head(gq).from)
FoundSoFar == IF Matches THEN gwait.asked ELSE gwait.found
SearchOver ==
  \/ SlotOf(gwait.asked) = PlayerCount - 1
  \/ gwait.op = "GetPeerHandleByUsername" /\ Matches

SearchOn ==
  /\ \E op \in Searches : Came(op)
  /\ ~ SearchOver
  /\ Ask(gwait.op, slots[SlotOf(gwait.asked) + 1].conn, FoundSoFar)
  /\ UNCHANGED <<turn, slots, gq, introVars, actor, name, connVars, clientVars>>

AnswerSearch ==
  /\ \E op \in Searches : Came(op)
  /\ SearchOver
  /\ Finished
  /\ iwait' = [iwait EXCEPT !.old = FoundSoFar,
                            !.got = IF FoundSoFar = NoConn THEN "none" ELSE "some"]
  /\ UNCHANGED <<turn, slots, lobby, here, entering, iq, actorVars, connVars,
                 clientVars, crashed>>

GameServerNext ==
  \/ GetActivePlayer \/ GetMonsters \/ DropMonsterOrContinue \/ SwitchPlayer
  \/ BroadcastGameState \/ Broadcast \/ IsPeerConnected \/ ReconnectPeer
  \/ GetPeerUsername \/ DropPeer \/ SearchByName
  \/ AnswerUsername \/ MarkOffline \/ SearchOn \/ AnswerSearch
===============================================================================
