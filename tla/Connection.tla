------------------------------ MODULE Connection ------------------------------
(***************************************************************************)
(* A connection task: accept_connection, server/peer.rs:388-709.           *)
(*                                                                         *)
(* In the Intro state it logs in and asks to enter the game; on a           *)
(* reconnection it takes the peer over from the old actor; in the Game      *)
(* state it forwards the actor's messages to the client and turns the       *)
(* client's messages into requests.  While it waits for the answer to one   *)
(* it neither reads nor forwards.                                          *)
(*                                                                         *)
(* `conn[c].pc` is where the task waits:                                   *)
(*   none login w_login logged entering     the Intro state                *)
(*   take w_take taken                      reconnection                   *)
(*   boot w_boot booted                     run_peer! before the actor     *)
(*   read                                   the loop of run_state_handle!  *)
(*   w_active got_active w_name w_move answer_turn   the turn! macro       *)
(*   w_chatname chat w_chat                 the broadcast_chat! macro      *)
(*   refused                               the actor has ended on its move *)
(*   ended, or failed before its actor was there                           *)
(***************************************************************************)
EXTENDS Session

At(c, pc) == Running /\ conn[c].pc = pc
Goto(c, pc) == conn' = [conn EXCEPT ![c].pc = pc]

ToGame(request)  == gq' = Append(gq, request)
ToIntro(command) == iq' = Append(iq, command)

-------------------------------------------------------------------------------
(* The Intro state.                                                        *)

Login(c) ==
  /\ At(c, "login")
  /\ Goto(c, "w_login")
  /\ ToIntro(IntroCommand("LoginPlayer", c))
  /\ UNCHANGED <<serverVars, lobby, here, entering, iwait, actorVars, sock,
                 clientVars, crashed>>

EnterGame(c) ==
  /\ At(c, "logged")
  /\ client[c] = "on"
  /\ Goto(c, "entering")
  /\ ToIntro(IntroCommand("EnterGame", c))
  /\ UNCHANGED <<serverVars, lobby, here, entering, iwait, actorVars, sock,
                 clientVars, crashed>>

(* The client is gone: DropPeer to the intro server, and the task is over.   *)
(* A rejected login ends the same way.                                     *)
EndInIntro(c) ==
  /\ \/ At(c, "logged") /\ client[c] = "off"
     \/ At(c, "entering") /\ client[c] = "off"
     \/ At(c, "rejected")
  /\ Goto(c, "ended")
  /\ ToIntro(IntroCommand("DropPeer", c))
  /\ client' = [client EXCEPT ![c] = "off"]
  /\ UNCHANGED <<serverVars, lobby, here, entering, iwait, actorVars, sock,
                 view, presses, eager, chats, cin, crashed>>

-------------------------------------------------------------------------------
(* Reconnection: take the peer from the old actor; then the new mailbox and  *)
(* its handle, which the intro server waits for.                           *)

TakeOver(c) ==
  /\ At(c, "take")
  /\ IF Open(conn[c].val)
     THEN /\ aq' = [aq EXCEPT ![conn[c].val] = Append(@, TakePeer(c))]
          /\ Goto(c, "w_take")
          /\ UNCHANGED crashed
     ELSE /\ crashed' = "intro"
          /\ UNCHANGED <<aq, conn>>
  /\ UNCHANGED <<serverVars, introVars, actor, name, sock, clientVars>>

OpenMailbox(c) ==
  /\ At(c, "taken")
  /\ Goto(c, "boot")
  /\ actor' = [actor EXCEPT ![c] = "boot"]
  /\ iwait' = [iwait EXCEPT !.got = "done"]
  /\ UNCHANGED <<serverVars, lobby, here, entering, iq, name, aq, sock,
                 clientVars, crashed>>

-------------------------------------------------------------------------------
(* The start block of the Game state: get_monsters, StartGame to the client, *)
(* then spawn the actor.                                                   *)

AskMonsters(c) ==
  /\ At(c, "boot")
  /\ Goto(c, "w_boot")
  /\ ToGame(Command("GetMonsters", c))
  /\ UNCHANGED <<turn, slots, gwait, introVars, actorVars, sock, clientVars, crashed>>

SpawnActor(c) ==
  /\ At(c, "booted")
  /\ Goto(c, "read")
  /\ actor' = [actor EXCEPT ![c] = "idle"]
  /\ UNCHANGED <<serverVars, introVars, name, aq, sock, clientVars, crashed>>

(* Writing to a client that has gone may fail: the task ends before it has   *)
(* spawned the actor, without a DropPeer to the game server.               *)
StartFails(c) ==
  /\ At(c, "booted")
  /\ client[c] = "off"
  /\ Goto(c, "failed")
  /\ actor' = [actor EXCEPT ![c] = "dead"]
  /\ aq' = [aq EXCEPT ![c] = <<>>]
  /\ crashed' = LossOfMailbox(c)
  /\ ToIntro(IntroCommand("DropPeer", c))
  /\ UNCHANGED <<serverVars, lobby, here, entering, iwait, name, sock, clientVars>>

-------------------------------------------------------------------------------
(* The loop of run_state_handle!.                                          *)

(* A message of the actor goes to the client, which shows the turn. *)
ForwardToClient(c) ==
  /\ At(c, "read")
  /\ sock[c] # <<>>
  /\ sock' = [sock EXCEPT ![c] = Tail(@)]
  /\ IF client[c] = "on"
     THEN /\ view' = [view EXCEPT ![c] = Head(sock[c])]
          /\ presses' = [presses EXCEPT ![c] = 0]
     ELSE UNCHANGED <<view, presses>>
  /\ UNCHANGED <<serverVars, introVars, actorVars, conn, client, eager, chats, cin,
                 crashed>>

Reads(c) ==
  /\ At(c, "read")
  /\ cin[c] # <<>>
  /\ cin' = [cin EXCEPT ![c] = Tail(@)]

(* turn!: who is active? *)
ReadMove(c) ==
  /\ Reads(c)
  /\ Head(cin[c]) # Chat
  /\ conn' = [conn EXCEPT ![c].pc = "w_active", ![c].move = Head(cin[c])]
  /\ ToGame(Command("GetActivePlayer", c))
  /\ UNCHANGED <<turn, slots, gwait, introVars, actorVars, sock, client, view,
                 presses, eager, chats, crashed>>

(* Mutated: the move is not awaited. *)
TurnOkNoAwait(c) ==
  /\ At(c, "got_active")
  /\ conn[c].val = c
  /\ Goto(c, "read")
  /\ aq' = [aq EXCEPT ![c] = Append(@, Move(conn[c].move, c))]
  /\ UNCHANGED <<serverVars, introVars, actor, name, sock, clientVars, crashed>>

(* This client: its actor makes the move. *)
TurnOk(c) ==
  /\ At(c, "got_active")
  /\ conn[c].val = c
  /\ Goto(c, "w_move")
  /\ aq' = [aq EXCEPT ![c] = Append(@, Move(conn[c].move, c))]
  /\ UNCHANGED <<serverVars, introVars, actor, name, sock, clientVars, crashed>>

(* Another one: the client is told its name. *)
TurnErr(c) ==
  /\ At(c, "got_active")
  /\ conn[c].val # c
  /\ Goto(c, "w_name")
  /\ ToGame(Request("GetPeerUsername", c, conn[c].val))
  /\ UNCHANGED <<turn, slots, gwait, introVars, actorVars, sock, clientVars, crashed>>

(* Either way the others and then this client are synchronised. *)
EndOfTurn(c) ==
  /\ At(c, "answer_turn")
  /\ Goto(c, "read")
  /\ ToGame(Command("BroadcastGameState", c))
  /\ aq' = [aq EXCEPT ![c] = Append(@, SyncWithClient)]
  /\ UNCHANGED <<turn, slots, gwait, introVars, actor, name, sock, clientVars, crashed>>

(* broadcast_chat!: the name of the author, then the line to the others. *)
ReadChat(c) ==
  /\ Reads(c)
  /\ Head(cin[c]) = Chat
  /\ Goto(c, "w_chatname")
  /\ aq' = [aq EXCEPT ![c] = Append(@, GetUsername(c))]
  /\ UNCHANGED <<serverVars, introVars, actor, name, sock, client, view, presses,
                 eager, chats, crashed>>

(* Mutated: the broadcast is not awaited. *)
SendChatNoAwait(c) ==
  /\ At(c, "chat")
  /\ Goto(c, "read")
  /\ ToGame(Command("Broadcast", c))
  /\ UNCHANGED <<turn, slots, gwait, introVars, actorVars, sock, clientVars, crashed>>

SendChat(c) ==
  /\ At(c, "chat")
  /\ Goto(c, "w_chat")
  /\ ToGame(Command("Broadcast", c))
  /\ UNCHANGED <<turn, slots, gwait, introVars, actorVars, sock, clientVars, crashed>>

(* End of the client's stream, or an error on it that may lose what the      *)
(* client had sent: DropPeer to the game server, and the client's channel is *)
(* dropped; at last DropPeer to the intro server.                          *)
EndInGame(c) ==
  /\ At(c, "read")
  /\ client[c] = "off"
  /\ Goto(c, "ended")
  /\ sock' = [sock EXCEPT ![c] = <<>>]
  /\ cin' = [cin EXCEPT ![c] = <<>>]
  /\ ToGame(Command("DropPeer", c))
  /\ ToIntro(IntroCommand("DropPeer", c))
  /\ UNCHANGED <<turn, slots, gwait, lobby, here, entering, iwait, actorVars,
                 client, view, presses, eager, chats, crashed>>

(* The move was refused: the actor's end and the lost answer both end the     *)
(* task, and only the answer, when it is seen first, sends DropPeer to the   *)
(* game server.  The client sees its stream close.                         *)
MoveLost(c) ==
  /\ At(c, "refused")
  /\ Goto(c, "ended")
  /\ sock' = [sock EXCEPT ![c] = <<>>]
  /\ cin' = [cin EXCEPT ![c] = <<>>]
  /\ client' = [client EXCEPT ![c] = "off"]
  /\ view' = [view EXCEPT ![c] = Wait]
  /\ presses' = [presses EXCEPT ![c] = 0]
  /\ ToGame(Command("DropPeer", c)) \/ UNCHANGED gq
  /\ ToIntro(IntroCommand("DropPeer", c))
  /\ UNCHANGED <<turn, slots, gwait, lobby, here, entering, iwait, actorVars,
                 eager, chats, crashed>>

ConnectionNext(c) ==
  \/ Login(c) \/ EnterGame(c) \/ EndInIntro(c)
  \/ TakeOver(c) \/ OpenMailbox(c)
  \/ AskMonsters(c) \/ SpawnActor(c) \/ StartFails(c)
  \/ ForwardToClient(c) \/ ReadMove(c) \/ TurnOk(c) \/ TurnErr(c) \/ EndOfTurn(c)
  \/ ReadChat(c) \/ SendChat(c) \/ EndInGame(c) \/ MoveLost(c)
===============================================================================
