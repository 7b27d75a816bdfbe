--------------------------------- MODULE Lobby --------------------------------
(***************************************************************************)
(* From the first login to the choice of roles: run_intro_server while its  *)
(* state server is Home, run_state over HomeServer and its transition to    *)
(* Roles, server/states.rs; the Intro and Home states of the connections    *)
(* and actors, server/peer.rs; the Intro and Home contexts of the clients.  *)
(*                                                                         *)
(* A connection is <<name, number>>: two clients may come with one name.    *)
(* Requests, answers and mailboxes are as in Session.  A server that panics *)
(* ends the model; what the Roles server does is modelled in RolesRoom.     *)
(***************************************************************************)
EXTENDS Integers, Sequences, FiniteSets, SequencesExt

CONSTANTS Names,      \* usernames
          Twice,      \* names with which a second client comes
          Leavers,    \* names whose clients may leave before the roles
          Capacity    \* MAX_PLAYER_COUNT, of the intro room and of the home room

ASSUME LobbyAssumption ==
  /\ Names \subseteq Nat
  /\ Twice \subseteq Names /\ Leavers \subseteq Names
  /\ Capacity \in Nat \ {0}

Conns   == {c \in Names \X {1, 2} : c[2] = 1 \/ c[1] \in Twice}
Name(c) == c[1]
NoConn  == <<-1, 0>>

VARIABLES
  \* the intro server
  slot,      \* connection -> "none", "here" (with its handle) or "away"
  iq,        \* mailbox
  iwait,     \* the login or the entering it is in the middle of
  entering,  \* who was sent on `cancel` and not yet received
  server,    \* its handle of the state server: "none", "Home" or "Roles"
  news,      \* the new state server that it has not received yet
  \* the home server
  home,      \* "none", "run", "moving" to Roles, "Roles"
  room,      \* its connections
  hq,        \* mailbox
  hwait,     \* the search or the disconnection it is in the middle of
  starting,  \* who was sent on `cancel` and not yet received
  started,   \* connections that have answered start_roles
  \* connections
  pc,        \* connection -> where its task is
  actor,     \* connection -> "none", "intro", "boot", "home", "over", "dead"
  aq,        \* connection -> mailbox of its actor in the Home state
  sock,      \* connection -> channel to its client
  \* clients
  client,    \* connection -> "off", "Intro", "Logged", "Home", "Roles", "gone"
  keys,      \* connection -> what was pressed
  cin,       \* connection -> messages on their way to the server
  crashed    \* "no", or what has ended the server

introVars  == <<slot, iq, iwait, entering, server, news>>
homeVars   == <<home, room, hq, hwait, starting, started>>
peerVars   == <<pc, actor, aq, sock>>
clientVars == <<client, keys, cin>>
vars == <<introVars, homeVars, peerVars, clientVars, crashed>>

Running == crashed = "no"
Seats   == ToSet(room)
Goto(c, place) == pc' = [pc EXCEPT ![c] = place]

IntroCommand(cmd, c) == [cmd |-> cmd, from |-> c]
IntroIdle     == [op |-> "idle", from |-> NoConn, got |-> "no"]
Serving(op, c) == [op |-> op, from |-> c, got |-> "no"]

HomeCommand(cmd, c) == [cmd |-> cmd, from |-> c]
Unknown == -2
HomeIdle == [op |-> "idle", at |-> 1, got |-> Unknown, found |-> FALSE]

Init ==
  /\ slot = [c \in Conns |-> "none"]
  /\ iq = <<>> /\ iwait = IntroIdle /\ entering = NoConn
  /\ server = "none" /\ news = "none"
  /\ home = "none" /\ room = <<>> /\ hq = <<>> /\ hwait = HomeIdle
  /\ starting = NoConn /\ started = {}
  /\ pc = [c \in Conns |-> "none"]
  /\ actor = [c \in Conns |-> "none"]
  /\ aq = [c \in Conns |-> <<>>]
  /\ sock = [c \in Conns |-> <<>>]
  /\ client = [c \in Conns |-> "off"]
  /\ keys = [c \in Conns |-> {}]
  /\ cin = [c \in Conns |-> <<>>]
  /\ crashed = "no"

-------------------------------------------------------------------------------
(* Clients.  Login is the first message of the Intro context.              *)

Connect(c) ==
  /\ Running
  /\ client[c] = "off"
  /\ client' = [client EXCEPT ![c] = "Intro"]
  /\ cin' = [cin EXCEPT ![c] = <<"Login">>]
  /\ Goto(c, "intro")
  /\ actor' = [actor EXCEPT ![c] = "intro"]
  /\ UNCHANGED <<introVars, homeVars, aq, sock, keys, crashed>>

(* Enter, in the Intro context and in the Home context: the same key.  Each   *)
(* is pressed once, and in the Intro context when the client is logged.    *)
KeyOf(context) == IF context = "Logged" THEN "EnterGame" ELSE "StartRoles"

PressEnter(c) ==
  /\ Running
  /\ client[c] \in {"Logged", "Home"}
  /\ KeyOf(client[c]) \notin keys[c]
  /\ keys' = [keys EXCEPT ![c] = @ \cup {KeyOf(client[c])}]
  /\ cin' = [cin EXCEPT ![c] = Append(@, KeyOf(client[c]))]
  /\ UNCHANGED <<introVars, homeVars, peerVars, client, crashed>>

Leave(c) ==
  /\ Running
  /\ Name(c) \in Leavers
  /\ client[c] \in {"Intro", "Logged", "Home"}
  /\ client' = [client EXCEPT ![c] = "gone"]
  /\ cin' = [cin EXCEPT ![c] = <<>>]
  /\ UNCHANGED <<introVars, homeVars, peerVars, keys, crashed>>

-------------------------------------------------------------------------------
(* Connections.                                                            *)

Loops == {"intro", "home", "roles"}
Reads(c, places, msg) ==
  /\ Running
  /\ pc[c] \in places
  /\ cin[c] # <<>> /\ Head(cin[c]) = msg
  /\ cin' = [cin EXCEPT ![c] = Tail(@)]

ReadLogin(c) ==
  /\ Reads(c, {"intro"}, "Login")
  /\ Goto(c, "w_login")
  /\ iq' = Append(iq, IntroCommand("LoginPlayer", c))
  /\ UNCHANGED <<slot, iwait, entering, server, news, homeVars, actor, aq, sock,
                 client, keys, crashed>>

ReadEnterGame(c) ==
  /\ Reads(c, {"intro"}, "EnterGame")
  /\ iq' = Append(iq, IntroCommand("EnterGame", c))
  /\ UNCHANGED <<slot, iwait, entering, server, news, homeVars, peerVars, client,
                 keys, crashed>>

(* To the home server that the connection knows: its mailbox is there before  *)
(* it runs, and no longer read when it has gone on to Roles.               *)
HomeReads == home \in {"none", "run"}

ReadStartRoles(c) ==
  /\ Reads(c, {"home"}, "StartRoles")
  /\ hq' = IF HomeReads THEN Append(hq, HomeCommand("StartRoles", c)) ELSE hq
  /\ UNCHANGED <<introVars, home, room, hwait, starting, started, peerVars,
                 client, keys, crashed>>

(* The channel to the client: the status of the login. *)
Forward(c) ==
  /\ Running
  /\ pc[c] \in Loops \cup {"rejected"}
  /\ sock[c] # <<>>
  /\ sock' = [sock EXCEPT ![c] = Tail(@)]
  /\ client' = IF client[c] = "gone" THEN client
               ELSE [client EXCEPT ![c] = Head(sock[c])]
  /\ UNCHANGED <<introVars, homeVars, pc, actor, aq, keys, cin, crashed>>

(* Why the loop of a connection ends: the client has gone, its login was      *)
(* rejected or not answered, or a StartRoles comes in the Roles state, which *)
(* has no such message.                                                    *)
Ends(c) ==
  \/ pc[c] \in Loops /\ client[c] = "gone"
  \/ pc[c] = "rejected" /\ sock[c] = <<>>
  \/ pc[c] = "failed"
  \/ pc[c] = "roles" /\ cin[c] # <<>>

(* DropPeer to the server of its state, then to the intro server.  The actor *)
(* stays while a server holds its handle.                                  *)
End(c) ==
  /\ Running
  /\ Ends(c)
  /\ Goto(c, "ended")
  /\ client' = [client EXCEPT ![c] = "gone"]
  /\ sock' = [sock EXCEPT ![c] = <<>>]
  /\ cin' = [cin EXCEPT ![c] = <<>>]
  /\ hq' = IF pc[c] = "home" /\ HomeReads
           THEN Append(hq, HomeCommand("DropPeer", c)) ELSE hq
  /\ iq' = Append(iq, IntroCommand("DropPeer", c))
  /\ UNCHANGED <<slot, iwait, entering, server, news, home, room, hwait, starting,
                 started, actor, aq, keys, crashed>>

(* The state of the peer is over: a new mailbox and its handle for the server *)
(* that waits for it.  What was in the old channel to the client is lost.   *)
OpenHome(c) ==
  /\ Running
  /\ pc[c] = "toHome"
  /\ Goto(c, "startHome")
  /\ actor' = [actor EXCEPT ![c] = "boot"]
  /\ sock' = [sock EXCEPT ![c] = <<>>]
  /\ iwait' = [iwait EXCEPT !.got = "done"]
  /\ UNCHANGED <<slot, iq, entering, server, news, homeVars, aq, clientVars, crashed>>

OpenRoles(c) ==
  /\ Running
  /\ pc[c] = "toRoles"
  /\ Goto(c, "startRoles")
  /\ sock' = [sock EXCEPT ![c] = <<>>]
  /\ started' = started \cup {c}
  /\ UNCHANGED <<introVars, home, room, hq, hwait, starting, actor, aq, clientVars,
                 crashed>>

(* The start block, StartHome or StartRoles to the client; then the actor. *)
NextPlace(place) == IF place = "startHome" THEN "home" ELSE "roles"
NextContext(place) == IF place = "startHome" THEN "Home" ELSE "Roles"

StartState(c) ==
  /\ Running
  /\ pc[c] \in {"startHome", "startRoles"}
  /\ Goto(c, NextPlace(pc[c]))
  /\ actor' = IF pc[c] = "startHome" THEN [actor EXCEPT ![c] = "home"] ELSE actor
  /\ client' = IF client[c] = "gone" THEN client
               ELSE [client EXCEPT ![c] = NextContext(pc[c])]
  /\ UNCHANGED <<introVars, homeVars, aq, sock, keys, cin, crashed>>

(* An actor is dead: whoever waits for an answer of it panics. *)
LossOfMailbox(c) ==
  IF \E i \in DOMAIN aq[c] : aq[c][i] # "SendTcp" THEN "home" ELSE crashed

(* Writing to a client that has gone fails: no actor, no DropPeer to Home. *)
StartFails(c) ==
  /\ Running
  /\ pc[c] \in {"startHome", "startRoles"}
  /\ client[c] = "gone"
  /\ Goto(c, "ended")
  /\ actor' = [actor EXCEPT ![c] = "dead"]
  /\ aq' = [aq EXCEPT ![c] = <<>>]
  /\ crashed' = LossOfMailbox(c)
  /\ iq' = Append(iq, IntroCommand("DropPeer", c))
  /\ UNCHANGED <<slot, iwait, entering, server, news, homeVars, sock, clientVars>>

-------------------------------------------------------------------------------
(* Actors.                                                                 *)

(* EnterGame ends the Intro state of the peer.  When its connection is over   *)
(* already, no one answers the intro server.                               *)
AnswerEnterGame(c) ==
  /\ Running
  /\ iwait = Serving("enter", c)
  /\ actor[c] = "intro"
  /\ actor' = [actor EXCEPT ![c] = "over"]
  /\ IF pc[c] = "intro"
     THEN Goto(c, "toHome") /\ UNCHANGED crashed
     ELSE crashed' = "intro" /\ UNCHANGED pc
  /\ UNCHANGED <<introVars, homeVars, aq, sock, clientVars>>

(* The Home actor: a username, a chat line for the client's channel, which is *)
(* closed when the connection is over, or the start of the Roles.           *)
HomeActor(c) ==
  /\ Running
  /\ actor[c] = "home"
  /\ aq[c] # <<>>
  /\ LET msg  == Head(aq[c])
         dies == msg = "SendTcp" /\ pc[c] # "home"
     IN  /\ aq' = [aq EXCEPT ![c] = IF dies THEN <<>> ELSE Tail(@)]
         /\ actor' = IF dies THEN [actor EXCEPT ![c] = "dead"]
                     ELSE IF msg = "StartRoles" THEN [actor EXCEPT ![c] = "over"]
                     ELSE actor
         /\ hwait' = IF msg = "GetUsername" THEN [hwait EXCEPT !.got = Name(c)]
                     ELSE hwait
         /\ pc' = IF msg = "StartRoles" /\ pc[c] = "home"
                  THEN [pc EXCEPT ![c] = "toRoles"] ELSE pc
         /\ crashed' = IF dies THEN LossOfMailbox(c)
                       ELSE IF msg = "StartRoles" /\ pc[c] # "home" THEN "home"
                       ELSE crashed
  /\ UNCHANGED <<introVars, home, room, hq, starting, started, sock, clientVars>>

-------------------------------------------------------------------------------
(* The home server.                                                        *)

Receive(cmd) ==
  /\ Running
  /\ home = "run"
  /\ hwait.op = "idle"
  /\ hq # <<>> /\ Head(hq).cmd = cmd

HomeMailbox(c) == actor[c] \in {"boot", "home"}

(* try_push; a full room would panic the intro server, "Peer slot must be     *)
(* empty".                                                                 *)
AddPeer ==
  /\ Receive("AddPeer")
  /\ hq' = Tail(hq)
  /\ IF Len(room) < Capacity
     THEN /\ room' = Append(room, Head(hq).from)
          /\ iwait' = [iwait EXCEPT !.got = "done"]
          /\ UNCHANGED crashed
     ELSE /\ crashed' = "full"
          /\ UNCHANGED <<room, iwait>>
  /\ UNCHANGED <<slot, iq, entering, server, news, home, hwait, starting, started,
                 peerVars, clientVars>>

(* Only in a full room.  The cancel of run_state is taken once. *)
RoomReady == Len(room) = Capacity

StartRoles ==
  /\ Receive("StartRoles")
  /\ hq' = Tail(hq)
  /\ starting' = IF RoomReady /\ starting = NoConn THEN Head(hq).from ELSE starting
  /\ crashed' = IF RoomReady /\ starting # NoConn THEN "home" ELSE crashed
  /\ UNCHANGED <<introVars, home, room, hwait, started, peerVars, clientVars>>

(* get_username of the actor at position i of the room. *)
Ask(op, i, found) ==
  IF HomeMailbox(room[i])
  THEN /\ aq' = [aq EXCEPT ![room[i]] = Append(@, "GetUsername")]
       /\ hwait' = [op |-> op, at |-> i, got |-> Unknown, found |-> found]
       /\ UNCHANGED crashed
  ELSE /\ crashed' = "home"
       /\ UNCHANGED <<aq, hwait>>

PlaceOf(c) == CHOOSE i \in DOMAIN room : room[i] = c

(* Home's mailbox outlives its peers, the room may be empty. *)
SearchId ==
  /\ Receive("GetPeerIdByName")
  /\ IF room = <<>>
     THEN /\ hq' = Tail(hq)
          /\ iwait' = [iwait EXCEPT !.got = "free"]
          /\ UNCHANGED <<aq, hwait, crashed>>
     ELSE Ask("id", 1, FALSE) /\ UNCHANGED <<hq, iwait>>
  /\ UNCHANGED <<slot, iq, entering, server, news, home, room, starting, started,
                 pc, actor, sock, clientVars>>

SearchNext ==
  /\ Running
  /\ hwait.op = "id" /\ hwait.got # Unknown
  /\ LET found == hwait.found \/ hwait.got = Name(Head(hq).from)
     IN  IF hwait.at < Len(room)
         THEN Ask("id", hwait.at + 1, found) /\ UNCHANGED <<hq, iwait>>
         ELSE /\ hq' = Tail(hq)
              /\ hwait' = HomeIdle
              /\ iwait' = [iwait EXCEPT !.got = IF found THEN "taken" ELSE "free"]
              /\ UNCHANGED <<aq, crashed>>
  /\ UNCHANGED <<slot, iq, entering, server, news, home, room, starting, started,
                 pc, actor, sock, clientVars>>

DropPeer ==
  /\ Receive("DropPeer")
  /\ IF Head(hq).from \in Seats
     THEN Ask("drop", PlaceOf(Head(hq).from), FALSE) /\ UNCHANGED hq
     ELSE hq' = Tail(hq) /\ UNCHANGED <<aq, hwait, crashed>>
  /\ UNCHANGED <<introVars, home, room, starting, started, pc, actor, sock, clientVars>>

(* The Disconnection line to the others, then swap_pop. *)
(* Mutated: the last is copied and not popped.          *)
SwapOnly(s, i) == [s EXCEPT ![i] = s[Len(s)]]

SwapPop(s, i) == [j \in 1 .. Len(s) - 1 |-> IF j = i THEN s[Len(s)] ELSE s[j]]

Dropped ==
  /\ Running
  /\ hwait.op = "drop" /\ hwait.got # Unknown
  /\ hq' = Tail(hq)
  /\ hwait' = HomeIdle
  /\ room' = SwapPop(room, hwait.at)
  /\ aq' = [c \in Conns |-> IF c \in ToSet(room') /\ HomeMailbox(c)
                            THEN Append(aq[c], "SendTcp") ELSE aq[c]]
  /\ UNCHANGED <<introVars, home, starting, started, pc, actor, sock, clientVars, crashed>>

(* Mutated: the sender of StartRoles is not asked. *)
AskedButSender == Seats \ {starting}
Asked == Seats

(* The loop takes the cancel, before or after the commands that are in the    *)
(* mailbox: the rest is never read.  The intro server is notified and every *)
(* peer asked to start the Roles.                                          *)
TakeStart ==
  /\ Running
  /\ home = "run" /\ hwait.op = "idle"
  /\ starting # NoConn
  /\ home' = "moving"
  /\ news' = "Roles"
  /\ hq' = <<>>
  /\ IF \A c \in Asked : HomeMailbox(c)
     THEN /\ aq' = [c \in Conns |-> IF c \in Asked THEN Append(aq[c], "StartRoles")
                                    ELSE aq[c]]
          /\ UNCHANGED crashed
     ELSE crashed' = "home" /\ UNCHANGED aq
  /\ UNCHANGED <<slot, iq, iwait, entering, server, room, hwait, starting, started,
                 pc, actor, sock, clientVars>>

(* Mutated: one answer is enough.            *)
SomeStarted == started # {}
AllStarted == Seats \subseteq started

RunRoles ==
  /\ Running
  /\ home = "moving"
  /\ AllStarted
  /\ home' = "Roles"
  /\ UNCHANGED <<introVars, room, hq, hwait, starting, started, peerVars,
                 clientVars, crashed>>
===============================================================================
