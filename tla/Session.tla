------------------------------- MODULE Session --------------------------------
(***************************************************************************)
(* The state of a running game, shared by the modules of its tasks.        *)
(*                                                                         *)
(* Every task of the server is an actor: it owns its state, takes commands *)
(* from a mailbox one at a time and, in the middle of a command, may send  *)
(* a request to another actor and wait for the answer.  While it waits it  *)
(* takes no other command.  The tasks are                                  *)
(*                                                                         *)
(*   the game server    GameServer.tla   server/states.rs  run_state       *)
(*   the intro server   IntroServer.tla  server/states.rs  run_intro_server*)
(*   a peer actor       PeerActor.tla    server/peer.rs    run_state!      *)
(*   a connection task  Connection.tla   server/peer.rs    run_state_handle*)
(*                                                                         *)
(* and, outside the server, the client programs.  A connection is named    *)
(* <<player, number>>; it stands for the socket address, the connection    *)
(* task and the actor that the task spawns.                                *)
(*                                                                         *)
(* The mailboxes have room for 32 messages (MPSC_CHANNEL_CAPACITY); here    *)
(* they never fill up.  A request and its oneshot answer are a message and *)
(* a change of the state of the task that waits for it.                    *)
(***************************************************************************)
EXTENDS Integers, Sequences, FiniteSets

CONSTANTS PlayerCount,        \* players of the game, MAX_PLAYER_COUNT
          MaxConns,           \* bound: connections a quitter makes in all
          PressesPerTurn,     \* bound: keys pressed per Turn message
          Chatters,           \* bound: players who send a chat line, one each time
          Quitters,           \* bound: players whose clients may disconnect
          PlayedPhases        \* bound: phases in which keys are pressed

ASSUME SessionAssumption ==
  /\ PlayerCount \in Nat \ {0}
  /\ MaxConns \in Nat \ {0}
  /\ PressesPerTurn \in Nat \ {0}
  /\ Chatters \subseteq 0 .. (PlayerCount - 1)
  /\ Quitters \subseteq 0 .. (PlayerCount - 1)

(* The session leaves the monsters out: one line, one deck. *)
T == INSTANCE Turns WITH MonstersPerLine <- 1, DeckSize <- 1

Players == T!Players
Phases  == T!Phases

ASSUME PlayedPhasesAssumption == PlayedPhases \subseteq Phases

Conns   == {c \in Players \X (1 .. MaxConns) : c[1] \in Quitters \/ c[2] = 1}
Owner(c) == c[1]

NoName == -1
NoConn == <<NoName, 0>>

(* TurnStatus: Ready(phase) or Wait. *)
Wait     == "Wait"
Statuses == Phases \cup {Wait}

VARIABLES
  \* the game server
  turn,       \* phase and active player
  slots,      \* player -> its connection in the room and whether online
  gq,         \* mailbox
  gwait,      \* the command it is in the middle of
  \* the intro server
  lobby,      \* connections with a slot in its room
  here,       \* those whose handle it still holds: logged in, not in the game
  entering,   \* what was sent on `cancel` and not yet received
  iq,         \* mailbox
  iwait,      \* the login or reconnection it is in the middle of
  \* peer actors of the Game state
  actor,      \* connection -> what the actor is doing
  name,       \* connection -> its username, NoName when it has none
  aq,         \* connection -> mailbox of the actor
  \* connection tasks
  conn,       \* connection -> [pc, val, move]: where it is, the connection
              \* it has been told of, the move it handles
  sock,       \* connection -> Turn messages on their way to the client
  \* clients
  client,     \* connection -> not started, running, gone
  view,       \* connection -> the turn status the client shows
  presses,    \* connection -> keys pressed since the last Turn message
  eager,      \* whether a client has pressed twice for one Turn message
  chats,      \* connection -> whether a chat line has been sent
  cin,        \* connection -> messages on their way to the server
  \* the server process
  crashed     \* "no", or what has ended it

serverVars == <<turn, slots, gq, gwait>>
introVars  == <<lobby, here, entering, iq, iwait>>
actorVars  == <<actor, name, aq>>
connVars   == <<conn, sock>>
clientVars == <<client, view, presses, eager, chats, cin>>
vars == <<serverVars, introVars, actorVars, connVars, clientVars, crashed>>

-------------------------------------------------------------------------------
(* Messages.  `arg` is a connection where the command has one.             *)

(* To the game server. *)
Commands == {"GetActivePlayer", "GetMonsters", "DropMonster",
             "ContinueGameCycle", "SwitchToNextPlayer", "GetPeerUsername",
             "Broadcast", "BroadcastGameState", "DropPeer", "GetPeerIdByName",
             "IsPeerConnected", "GetPeerHandleByUsername", "ReconnectPeer"}
Request(cmd, from, arg) == [cmd |-> cmd, from |-> from, arg |-> arg]
Command(cmd, from)      == Request(cmd, from, NoConn)
Requests == [cmd : Commands, from : Conns, arg : Conns \cup {NoConn}]

(* To a peer actor: a message to forward to the client, a move or a request; *)
(* `asker` is the connection that waits for the answer, NoConn when the game *)
(* server does.                                                            *)
ToActor(msg, what, asker) == [msg |-> msg, what |-> what, asker |-> asker]
Nothing          == "Nothing"
Chat             == "Chat"
SendTcp(status)  == ToActor("SendTcp", status, NoConn)
SyncWithClient   == ToActor("SyncWithClient", Nothing, NoConn)
Move(kind, c)    == ToActor("Move", kind, c)
GetUsername(c)   == ToActor("GetUsername", Nothing, c)
TakePeer(c)      == ToActor("TakePeer", Nothing, c)
ActorMessages ==
  [msg   : {"SendTcp", "Move", "GetUsername", "TakePeer", "SyncWithClient"},
   what  : Statuses \cup {Chat, Nothing},
   asker : Conns \cup {NoConn}]

(* To the intro server. *)
IntroCommand(cmd, c) == [cmd |-> cmd, from |-> c]
IntroCommands == [cmd : {"LoginPlayer", "EnterGame", "DropPeer"}, from : Conns]

(* A mailbox is open while its actor is there to receive, or will be. *)
Open(c) == actor[c] \notin {"none", "dead"}

(* Whoever waits for an answer from a mailbox when it is dropped gets a       *)
(* RecvError.  The game server panics on it; a connection that was to take   *)
(* the peer over ends, and the intro server that waits for it panics.      *)
Queued(c, msg) == \E i \in DOMAIN aq[c] : aq[c][i].msg = msg
LossOfMailbox(c) ==
  IF Queued(c, "GetUsername") THEN "game"
  ELSE IF Queued(c, "TakePeer") THEN "intro" ELSE crashed

(* Where a connection task ends: as it should, or before it has an actor. *)
Over == {"ended", "failed"}

(* The mailboxes q with a message for each connection of C; one for a closed *)
(* mailbox is lost.                                                        *)
Post(q, C, m) ==
  [c \in Conns |-> IF c \in C /\ Open(c) THEN Append(q[c], m) ELSE q[c]]

-------------------------------------------------------------------------------
(* What the two servers are in the middle of.                              *)

(* The game server asked the actor of `asked` for its username and `got` it  *)
(* when it is not Pending; `found` is the connection a search has found.    *)
Pending == -2
Names   == Players \cup {NoName}
ServerIdle == [op |-> "idle", asked |-> NoConn, got |-> Pending, found |-> NoConn]
Asking(op, asked, found) ==
  [op |-> op, asked |-> asked, got |-> Pending, found |-> found]

(* The intro server serves connection `from`; `old` is the connection of the *)
(* same player that the game server holds.                                 *)
IntroIdle == [op |-> "idle", from |-> NoConn, old |-> NoConn, got |-> Nothing]
Serving(op, from, old) ==
  [op |-> op, from |-> from, old |-> old, got |-> Nothing]

(* The connections in the room, and the one whose turn it is. *)
Seated        == {slots[p].conn : p \in Players}
OnlineSeats   == {slots[p].conn : p \in {q \in Players : slots[q].online}}
ActiveConn(t) == slots[T!Active(t)].conn

Running == crashed = "no"
===============================================================================
