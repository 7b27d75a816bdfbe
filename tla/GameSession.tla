----------------------------- MODULE GameSession ------------------------------
(***************************************************************************)
(* A running game: the game server, the intro server, the connections and  *)
(* actors of the players, and the clients, from the moment the game starts. *)
(*                                                                         *)
(* A step is one task's work between two points where it waits.  Messages   *)
(* of one mailbox are taken in the order they were sent; everything else    *)
(* interleaves.                                                            *)
(***************************************************************************)
EXTENDS GameServer, PeerActor, Connection, IntroServer

First1(p) == <<p, 1>>
StartConns == {First1(p) : p \in Players}

(* async_from(ServerConverter<RolesServer>): every slot is online with the   *)
(* mailbox of an actor that its connection is about to spawn; Ready to the  *)
(* first player and Wait to the others are already in the mailboxes.       *)
Init ==
  /\ turn = T!StartTurn
  /\ slots = [p \in Players |-> [conn |-> First1(p), online |-> TRUE]]
  /\ gq = <<>>
  /\ gwait = ServerIdle
  /\ lobby = StartConns
  /\ here = {}
  /\ entering = NoConn
  /\ iq = <<>>
  /\ iwait = IntroIdle
  /\ actor = [c \in Conns |-> IF c \in StartConns THEN "boot" ELSE "none"]
  /\ name = [c \in Conns |-> IF c \in StartConns THEN Owner(c) ELSE NoName]
  /\ aq = [c \in Conns |->
             IF c \notin StartConns THEN <<>>
             ELSE <<SendTcp(IF c = ActiveConn(turn) THEN turn.phase ELSE Wait)>>]
  /\ conn = [c \in Conns |->
               [pc   |-> IF c \in StartConns THEN "boot" ELSE "none",
                val  |-> NoConn,
                move |-> Nothing]]
  /\ sock = [c \in Conns |-> <<>>]
  /\ client = [c \in Conns |-> IF c \in StartConns THEN "on" ELSE "none"]
  /\ view = [c \in Conns |-> Wait]
  /\ presses = [c \in Conns |-> 0]
  /\ eager = FALSE
  /\ chats = [c \in Conns |-> FALSE]
  /\ cin = [c \in Conns |-> <<>>]
  /\ crashed = "no"

-------------------------------------------------------------------------------
(* The clients.                                                            *)

(* ConfirmSelected while the client shows Ready(phase): the message of that  *)
(* phase.  The client goes on showing it until the next Turn comes, so the   *)
(* key can be pressed again.  Bound: not after a third client has come.     *)
ThirdClient == \E c \in Conns : c[2] > 2 /\ client[c] # "none"

Press(c) ==
  /\ Running
  /\ client[c] = "on"
  /\ view[c] \in PlayedPhases
  /\ presses[c] < PressesPerTurn
  /\ ~ ThirdClient
  /\ presses' = [presses EXCEPT ![c] = @ + 1]
  /\ eager' = (eager \/ presses[c] > 0)
  /\ cin' = [cin EXCEPT ![c] = Append(@, view[c])]
  /\ UNCHANGED <<serverVars, introVars, actorVars, connVars, client, view, chats,
                 crashed>>

(* Where a client that is in the game can be, as the server sees it. *)
InGame(c) == conn[c].pc \notin {"none", "login", "w_login", "logged", "entering",
                                "rejected", "take", "w_take", "taken"} \cup Over

TypeChat(c) ==
  /\ Running
  /\ client[c] = "on"
  /\ InGame(c)
  /\ Owner(c) \in Chatters
  /\ ~ chats[c]
  /\ chats' = [chats EXCEPT ![c] = TRUE]
  /\ cin' = [cin EXCEPT ![c] = Append(@, Chat)]
  /\ UNCHANGED <<serverVars, introVars, actorVars, connVars, client, view,
                 presses, eager, crashed>>

(* The program is closed or the network fails. *)
Quit(c) ==
  /\ Running
  /\ Owner(c) \in Quitters
  /\ client[c] = "on"
  /\ client' = [client EXCEPT ![c] = "off"]
  /\ view' = [view EXCEPT ![c] = Wait]
  /\ presses' = [presses EXCEPT ![c] = 0]
  /\ UNCHANGED <<serverVars, introVars, actorVars, connVars, eager, chats, cin, crashed>>

(* A player starts the program again under the same name.  Bound: a third     *)
(* time only before the first move.                                        *)
Reconnect(c) ==
  /\ Running
  /\ client[c] = "none"
  /\ c[2] > 1
  /\ client[<<c[1], c[2] - 1>>] = "off"
  /\ c[2] > 2 => turn = T!StartTurn /\ \A d \in Conns : presses[d] = 0
  /\ client' = [client EXCEPT ![c] = "on"]
  /\ conn' = [conn EXCEPT ![c].pc = "login"]
  /\ UNCHANGED <<serverVars, introVars, actorVars, sock, view, presses, eager,
                 chats, cin, crashed>>

ClientNext(c) == Press(c) \/ TypeChat(c) \/ Quit(c) \/ Reconnect(c)

Next ==
  \/ GameServerNext
  \/ IntroServerNext
  \/ \E c \in Conns : PeerActorNext(c) \/ ConnectionNext(c) \/ ClientNext(c)

Spec == Init /\ [][Next]_vars

(* Every task is a tokio task that runs when it can. *)
TaskFairness ==
  /\ WF_vars(GameServerNext)
  /\ WF_vars(IntroServerNext)
  /\ \A c \in Conns : WF_vars(PeerActorNext(c)) /\ WF_vars(ConnectionNext(c))

(* And players do make their move when it is their turn. *)
Fairness == TaskFairness /\ \A c \in Conns : WF_vars(Press(c))

TaskSpec == Spec /\ TaskFairness

FairSpec == Spec /\ Fairness

-------------------------------------------------------------------------------
ActorStates == {"none", "boot", "idle", "w_monster", "may_switch", "w_switch",
                "switched", "w_monsters", "got_monsters", "dead"}
ConnPlaces == {"none", "login", "w_login", "logged", "entering", "rejected",
               "take", "w_take", "taken", "boot", "w_boot", "booted", "read",
               "w_active", "got_active", "w_name", "w_move", "answer_turn",
               "w_chatname", "chat", "w_chat", "refused"} \cup Over

TypeOK ==
  /\ turn \in T!Turn
  /\ slots \in [Players -> [conn : Conns, online : BOOLEAN]]
  /\ gq \in Seq(Requests)
  /\ gwait \in [op : Searches \cup {"idle", "GetPeerUsername", "DropPeer"},
                asked : Conns \cup {NoConn}, got : Names \cup {Pending},
                found : Conns \cup {NoConn}]
  /\ lobby \subseteq Conns
  /\ here \subseteq lobby
  /\ entering \in Conns \cup {NoConn}
  /\ iq \in Seq(IntroCommands)
  /\ iwait \in [op : {"idle", "id", "connected", "handle", "answer", "reconnect"},
                from : Conns \cup {NoConn}, old : Conns \cup {NoConn},
                got : {Nothing, "some", "none", "online", "offline", "done"}]
  /\ actor \in [Conns -> ActorStates]
  /\ name \in [Conns -> Names]
  /\ aq \in [Conns -> Seq(ActorMessages)]
  /\ conn \in [Conns -> [pc : ConnPlaces, val : Conns \cup {NoConn},
                         move : Phases \cup {Nothing}]]
  /\ sock \in [Conns -> Seq(Statuses)]
  /\ client \in [Conns -> {"none", "on", "off"}]
  /\ view \in [Conns -> Statuses]
  /\ presses \in [Conns -> 0 .. PressesPerTurn]
  /\ eager \in BOOLEAN
  /\ chats \in [Conns -> BOOLEAN]
  /\ cin \in [Conns -> Seq(Phases \cup {Chat})]
  /\ crashed \in {"no", "game", "intro", "over"}

(* Only the player whose turn it is ends it.  The connection asks who is     *)
(* active first and makes the move later, so the answer could be stale by    *)
(* then; it is not, because a connection has one move at a time under way    *)
(* and only a move of the active player switches (server/peer.rs:867-882). *)
TurnIntegrity ==
  [][ turn' # turn => Head(gq).from = ActiveConn(turn) ]_vars

(* A move is made in the phase it was meant for.  No one checks this: the    *)
(* server takes any of the four moves in any phase (server/peer.rs:886-909),*)
(* and it holds only as long as a player presses once per turn.            *)
MoveMatchesPhase ==
  [][ turn' # turn => conn[Head(gq).from].move = turn.phase ]_vars

(* Nothing is under way. *)
Quiet ==
  /\ Running
  /\ gq = <<>> /\ gwait.op = "idle"
  /\ iq = <<>> /\ iwait.op = "idle" /\ entering = NoConn
  /\ \A c \in Conns : /\ aq[c] = <<>> /\ sock[c] = <<>> /\ cin[c] = <<>>
                      /\ actor[c] \in {"none", "idle", "dead"}
                      /\ conn[c].pc \in {"none", "read"} \cup Over

(* When nothing is under way, the client of the active player shows its      *)
(* phase and the other clients show Wait: the Turn messages of successive    *)
(* switches reach each client in order and none is left out.               *)
ViewsAgree ==
  Quiet => \A c \in OnlineSeats :
             client[c] = "on" =>
               view[c] = IF c = ActiveConn(turn) THEN turn.phase ELSE Wait

(* And so for a player who stays, whatever the others do: it has its seat, is *)
(* online, and its client shows its turn when nothing is under way.  Only a  *)
(* refused move, after a key pressed twice, can end its connection.        *)
Stays(c) == Owner(c) \notin Quitters

StayersAgree ==
  Quiet => \A c \in Conns : Stays(c) =>
             \/ eager /\ conn[c].pc = "ended" /\ client[c] = "off"
             \/ /\ c \in OnlineSeats /\ client[c] = "on"
                /\ view[c] = IF c = ActiveConn(turn) THEN turn.phase ELSE Wait

(* The game server waits for the username from an actor that waits for the   *)
(* game server, or that will not be spawned before the game server answers. *)
CircularWait ==
  /\ gwait.op # "idle"
  /\ gwait.got = Pending
  /\ \/ actor[gwait.asked] \in {"w_monster", "w_switch", "w_monsters"}
     \/ conn[gwait.asked].pc = "w_boot"

(* README.md:51 says that the way messages are directed "helps prevent        *)
(* potential infinite awaiting leaks": no two tasks await each other.      *)
NoCircularWait == ~ CircularWait

(* Every task that waits for an answer has exactly one request under way,    *)
(* and no request is under way of a task that does not wait for it: no        *)
(* answer is lost, and none comes twice or to someone who has gone on.     *)
Sent(cmds, c) ==
  Cardinality({i \in DOMAIN gq : gq[i].cmd \in cmds /\ gq[i].from = c})
ToOwnActor(msg, c) ==
  Cardinality({i \in DOMAIN aq[c] : aq[c][i].msg = msg /\ aq[c][i].asker = c})
OneIf(waits) == IF waits THEN 1 ELSE 0
MoveUnderWay(c) == actor[c] \in {"w_monster", "may_switch", "w_switch", "switched"}

RequestsMatchWaits ==
  Running => \A c \in Conns :
    LET At1(pc) == OneIf(conn[c].pc = pc)
        Is(state) == OneIf(actor[c] = state)
    IN  /\ Sent({"GetActivePlayer"}, c) = At1("w_active")
        /\ Sent({"GetPeerUsername"}, c) = At1("w_name")
        /\ Sent({"Broadcast"}, c) = At1("w_chat")
        /\ Sent({"GetMonsters"}, c) = At1("w_boot") + Is("w_monsters")
        /\ Sent({"SwitchToNextPlayer"}, c) = Is("w_switch")
        /\ Sent({"DropMonster", "ContinueGameCycle"}, c) = Is("w_monster")
        /\ ToOwnActor("GetUsername", c) = At1("w_chatname")
        /\ ToOwnActor("Move", c) + OneIf(MoveUnderWay(c)) = At1("w_move")

(* The seat of a player is never given to another, and the actor behind it    *)
(* has the player's name, except while a reconnection moves the name on.     *)
(* Slots have no owner in the code: the intro server finds them by asking    *)
(* every actor for its name (server/states.rs:116-141, 1028-1042).         *)
IdentityKept ==
  \A p \in Players :
    LET c == slots[p].conn
    IN  /\ Owner(c) = p
        /\ (Running /\ Open(c) /\ name[c] # p)
              => iwait.op \in {"answer", "reconnect"} /\ iwait.old = c

(* A player who comes back and enters the game gets the seat, unless the      *)
(* player leaves again, the server's task ends or it waits for ever.       *)
ReturnsToSeat ==
  \A c \in Conns \ StartConns :
    conn[c].pc = "entering"
      ~> (c \in Seated \/ client[c] = "off" \/ ~ Running \/ CircularWait)

(* The turn goes round: every player is active again and again. *)
TurnsGoRound == \A p \in Players : []<>(T!Active(turn) = p)

(* server/states.rs:48 says of every answer a server expects from a peer     *)
(* "Peer actor is connected", and server/details.rs:188 of every mailbox     *)
(* that it is "Open": no panic ends the game server while a game goes on.   *)
GameServerSurvives == crashed # "game"
===============================================================================
