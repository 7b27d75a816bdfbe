------------------------------ MODULE IntroServer -----------------------------
(***************************************************************************)
(* The intro server while a game is running: run_intro_server and           *)
(* IntroServer, server/states.rs:53-166, 407-476 and 928-992.              *)
(*                                                                         *)
(* It keeps a slot for every connection that is logged in or in the game,   *)
(* and the handle of those that are logged in only.  `iwait` is the login   *)
(* or the reconnection for which it waits on another task.                 *)
(***************************************************************************)
EXTENDS Session

Free == Running /\ iwait.op = "idle"

IntroReceive(cmd) ==
  /\ Free
  /\ iq # <<>>
  /\ Head(iq).cmd = cmd

(* LoginStatus to the connection: Logged, or a rejection. *)
Logged(c)   == conn' = [conn EXCEPT ![c].pc = "logged"]
Rejected(c) == conn' = [conn EXCEPT ![c].pc = "rejected"]

-------------------------------------------------------------------------------
(* login_player                                                            *)

RoomIsFull == Cardinality(lobby) >= PlayerCount

(* The same name among those that are logged in and not in the game. *)
NameIsHere(c) == \E d \in here \ {c} : Owner(d) = Owner(c)

RejectLogin ==
  /\ IntroReceive("LoginPlayer")
  /\ RoomIsFull \/ NameIsHere(Head(iq).from)
  /\ iq' = Tail(iq)
  /\ Rejected(Head(iq).from)
  /\ UNCHANGED <<serverVars, lobby, here, entering, iwait, actorVars, sock,
                 clientVars, crashed>>

AskIdByName ==
  /\ IntroReceive("LoginPlayer")
  /\ ~ RoomIsFull
  /\ ~ NameIsHere(Head(iq).from)
  /\ iq' = Tail(iq)
  /\ iwait' = Serving("id", Head(iq).from, NoConn)
  /\ gq' = Append(gq, Command("GetPeerIdByName", Head(iq).from))
  /\ UNCHANGED <<turn, slots, gwait, lobby, here, entering, actorVars, connVars,
                 clientVars, crashed>>

AskConnected ==
  /\ Running
  /\ iwait.op = "id"
  /\ iwait.got = "some"
  /\ iwait' = Serving("connected", iwait.from, iwait.old)
  /\ gq' = Append(gq, Request("IsPeerConnected", iwait.from, iwait.old))
  /\ UNCHANGED <<turn, slots, gwait, lobby, here, entering, iq, actorVars,
                 connVars, clientVars, crashed>>

(* The game does not know the name, or knows it as offline. *)
AcceptLogin ==
  /\ Running
  /\ \/ iwait.op = "id" /\ iwait.got = "none"
     \/ iwait.op = "connected" /\ iwait.got = "offline"
  /\ iwait' = IntroIdle
  /\ lobby' = lobby \cup {iwait.from}
  /\ here' = here \cup {iwait.from}
  /\ Logged(iwait.from)
  /\ UNCHANGED <<serverVars, entering, iq, actorVars, sock, clientVars, crashed>>

AlreadyLogged ==
  /\ Running
  /\ iwait.op = "connected"
  /\ iwait.got = "online"
  /\ iwait' = IntroIdle
  /\ Rejected(iwait.from)
  /\ UNCHANGED <<serverVars, lobby, here, entering, iq, actorVars, sock,
                 clientVars, crashed>>

-------------------------------------------------------------------------------
(* EnterGame: the address goes through the oneshot `cancel`, which the loop  *)
(* of run_intro_server takes in its own time; commands that come before are  *)
(* still served, and a second EnterGame panics.                            *)
ReceiveEnterGame ==
  /\ IntroReceive("EnterGame")
  /\ IF entering = NoConn
     THEN /\ iq' = Tail(iq)
          /\ entering' = Head(iq).from
          /\ UNCHANGED crashed
     ELSE /\ crashed' = "intro"
          /\ UNCHANGED <<iq, entering>>
  /\ UNCHANGED <<serverVars, lobby, here, iwait, actorVars, connVars, clientVars>>

(* The reconnection: the handle of the old actor, by name.  A slot dropped   *)
(* meanwhile is PeerNotFound, which ends run_intro_server.                 *)
StartReconnection ==
  /\ Free
  /\ entering # NoConn
  /\ IF entering \in lobby
     THEN /\ entering' = NoConn
          /\ iwait' = Serving("handle", entering, NoConn)
          /\ gq' = Append(gq, Command("GetPeerHandleByUsername", entering))
          /\ UNCHANGED crashed
     ELSE /\ crashed' = "intro"
          /\ UNCHANGED <<entering, iwait, gq>>
  /\ UNCHANGED <<turn, slots, gwait, lobby, here, iq, actorVars, connVars, clientVars>>

(* Its connection gets the old handle and answers with a new one; when its   *)
(* task is over already, no answer comes and the intro server panics.  So   *)
(* it does when the game has no peer of that name.                         *)
HandOver ==
  /\ Running
  /\ iwait.op = "handle"
  /\ iwait.got # Nothing
  /\ IF iwait.got = "some" /\ conn[iwait.from].pc = "entering"
     THEN /\ iwait' = Serving("answer", iwait.from, iwait.old)
          /\ conn' = [conn EXCEPT ![iwait.from].pc = "take",
                                  ![iwait.from].val = iwait.old]
          /\ UNCHANGED crashed
     ELSE /\ crashed' = "intro"
          /\ UNCHANGED <<iwait, conn>>
  /\ UNCHANGED <<serverVars, lobby, here, entering, iq, actorVars, sock, clientVars>>

(* Mutated: the game server is not told of the new connection. *)
KeepSeat ==
  /\ Running
  /\ iwait.op = "answer"
  /\ iwait.got = "done"
  /\ iwait' = IntroIdle
  /\ UNCHANGED <<serverVars, lobby, here, entering, iq, actorVars, connVars,
                 clientVars, crashed>>

ReplaceSeat ==
  /\ Running
  /\ iwait.op = "answer"
  /\ iwait.got = "done"
  /\ iwait' = Serving("reconnect", iwait.from, iwait.old)
  /\ gq' = Append(gq, Request("ReconnectPeer", iwait.from, iwait.old))
  /\ UNCHANGED <<turn, slots, gwait, lobby, here, entering, iq, actorVars,
                 connVars, clientVars, crashed>>

EndReconnection ==
  /\ Running
  /\ iwait.op = "reconnect"
  /\ iwait.got = "done"
  /\ iwait' = IntroIdle
  /\ here' = here \ {iwait.from}
  /\ UNCHANGED <<serverVars, lobby, entering, iq, actorVars, connVars,
                 clientVars, crashed>>

(* Mutated: the slot goes and the handle stays. *)
DropSlotOnly ==
  /\ IntroReceive("DropPeer")
  /\ iq' = Tail(iq)
  /\ lobby' = lobby \ {Head(iq).from}
  /\ crashed' = IF lobby' = {} THEN "over" ELSE crashed
  /\ UNCHANGED <<serverVars, here, entering, iwait, actorVars, connVars, clientVars>>

(* DropPeer; the last one to leave shuts the game server down. *)
IntroDropPeer ==
  /\ IntroReceive("DropPeer")
  /\ iq' = Tail(iq)
  /\ lobby' = lobby \ {Head(iq).from}
  /\ here' = here \ {Head(iq).from}
  /\ crashed' = IF lobby' = {} THEN "over" ELSE crashed
  /\ UNCHANGED <<serverVars, entering, iwait, actorVars, connVars, clientVars>>

IntroServerNext ==
  \/ RejectLogin \/ AskIdByName \/ AskConnected \/ AcceptLogin \/ AlreadyLogged
  \/ ReceiveEnterGame \/ StartReconnection \/ HandOver \/ ReplaceSeat
  \/ EndReconnection \/ IntroDropPeer
===============================================================================
