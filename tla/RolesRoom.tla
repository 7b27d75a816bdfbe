------------------------------- MODULE RolesRoom ------------------------------
(***************************************************************************)
(* The choice of roles: run_state over RolesServer and its transition to     *)
(* the Game, server/states.rs:753-805, 1043-1126 and 1233-1275; the actors   *)
(* and connections of the Roles state, server/peer.rs.                      *)
(*                                                                         *)
(* The server keeps no roles.  It asks the actor of every seat for its role, *)
(* one after another or all at once, and waits; an actor that is dead makes  *)
(* it panic.  Connections, mailboxes and answers are as in Session.         *)
(***************************************************************************)
EXTENDS Integers, Sequences, FiniteSets

CONSTANTS PlayerCount,   \* MAX_PLAYER_COUNT
          RoleNames,     \* Role::all
          Selections,    \* bound: Select messages of all clients
          Starts,        \* bound: StartGame messages of all clients
          Starters,      \* bound: players who send them
          Quitters       \* bound: players who may leave, and come back once

Players == 0 .. (PlayerCount - 1)
Conns   == {c \in Players \X {1, 2} : c[2] = 1 \/ c[1] \in Quitters}
Owner(c) == c[1]
NoConn  == <<-1, 0>>
None    == "None"
Pending == "Pending"

ASSUME RolesAssumption ==
  /\ PlayerCount \in Nat \ {0}
  /\ Selections \in Nat /\ Starts \in Nat
  /\ Starters \cup Quitters \subseteq Players
  /\ RoleNames \cap {None, Pending, "done", "StartGame"} = {}

VARIABLES
  \* the roles server
  stage,     \* "roles", "moving" to the game, "Game"
  slots,     \* player -> its connection and whether online
  gq,        \* mailbox
  gwait,     \* the command it is in the middle of
  starting,  \* who was sent on `cancel` and not yet received
  started,   \* connections that have answered start_game
  \* the intro server, serving a reconnection
  iwait,
  \* actors
  actor,     \* connection -> "none", "boot", "on", "over", "dead"
  role,      \* connection -> its selected_role
  aq,        \* connection -> mailbox
  \* connections
  pc,        \* connection -> where its task is
  sock,      \* connection -> channel to its client
  \* clients
  client,    \* connection -> "none", "on", "off"
  items,     \* connection -> the roles it shows as not available
  chosen,    \* connection -> the role it shows as selected
  left,      \* Select and StartGame messages still to be sent
  cin,       \* connection -> messages on their way to the server
  crashed

serverVars == <<stage, slots, gq, gwait, starting, started>>
actorVars  == <<actor, role, aq>>
connVars   == <<pc, sock>>
clientVars == <<client, items, chosen, left, cin>>
vars == <<serverVars, iwait, actorVars, connVars, clientVars, crashed>>

Running   == crashed = "no"
Seated    == {slots[p].conn : p \in Players}
OnlineSeats == {slots[p].conn : p \in {q \in Players : slots[q].online}}
SeatOf(c) == CHOOSE p \in Players : slots[p].conn = c
Open(c)   == actor[c] \notin {"none", "dead"}
Goto(c, place) == pc' = [pc EXCEPT ![c] = place]

(* To the server: of whom, with a role (Select) or an old connection. *)
Request(cmd, from, what, old) == [cmd |-> cmd, from |-> from, what |-> what, old |-> old]
Command(cmd, from) == Request(cmd, from, None, NoConn)

(* To an actor, and from it to the client: SelectedStatus carries the role or *)
(* nothing, AvailableRoles the roles that are taken.                       *)
ToActor(msg, what, conn) == [msg |-> msg, what |-> what, conn |-> conn]
Ask(msg)     == ToActor(msg, {}, NoConn)
Status(what) == ToActor("SelectedStatus", what, NoConn)
Available(taken) == ToActor("AvailableRoles", taken, NoConn)
ForClient    == {"SelectedStatus", "AvailableRoles", "Chat"}

Post(q, C, m) == [c \in Conns |-> IF c \in C /\ Open(c) THEN Append(q[c], m) ELSE q[c]]

(* The server asks the seats of P, and has the answers of some. *)
NoAnswers  == [p \in Players |-> Pending]
ServerIdle == [op |-> "idle", of |-> {}, got |-> NoAnswers]
IntroIdle  == [op |-> "idle", from |-> NoConn, old |-> NoConn, got |-> "no"]
Serving(op, from, old) == [op |-> op, from |-> from, old |-> old, got |-> "no"]

-------------------------------------------------------------------------------
(* Requests of the server to actors.                                       *)

Receive(cmd) ==
  /\ Running
  /\ stage = "roles" /\ gwait.op = "idle"
  /\ gq # <<>> /\ Head(gq).cmd = cmd

(* After the messages already in q, ask the seats of P: all mailboxes must be *)
(* open, "Peer actor is connected".                                        *)
AskSeats(op, q, P, m) ==
  LET C == {slots[p].conn : p \in P}
  IN  IF \A c \in C : Open(c)
      THEN /\ aq' = Post(q, C, m)
           /\ gwait' = [op |-> op, of |-> P, got |-> NoAnswers]
           /\ UNCHANGED crashed
      ELSE crashed' = "roles" /\ UNCHANGED <<aq, gwait>>

Answered(op) ==
  /\ Running
  /\ gwait.op = op
  /\ \A p \in gwait.of : gwait.got[p] # Pending

Finished == gq' = Tail(gq) /\ gwait' = ServerIdle
Panic    == crashed' = "roles" /\ UNCHANGED <<gq, gwait, aq>>

(* When one seat after another is asked: the one asked, and the next. *)
Asked == CHOOSE p \in gwait.of : TRUE
Answer == gwait.got[Asked]

rest == <<stage, slots, starting, started, actor, role, connVars, clientVars>>

-------------------------------------------------------------------------------
(* SelectRole: set_role_for_peer looks for the role in the seats up to the     *)
(* first that has it; then the status to the sender, a line to the others    *)
(* with the sender's name, and all roles to everyone who is online.        *)
SelectRole ==
  /\ Receive("SelectRole")
  /\ AskSeats("search", aq, {0}, Ask("GetRole"))
  /\ UNCHANGED <<gq, iwait, rest>>

(* Mutated: the last seat is not asked. *)
SearchedAllButLast == Asked >= PlayerCount - 2
SearchedAll == Asked = PlayerCount - 1

SearchOn ==
  /\ Answered("search")
  /\ Answer # Head(gq).what
  /\ ~ SearchedAll
  /\ AskSeats("search", aq, {Asked + 1}, Ask("GetRole"))
  /\ UNCHANGED <<gq, iwait, rest>>

(* Busy or AlreadySelected. *)
RoleIsTaken ==
  /\ Answered("search")
  /\ Answer = Head(gq).what
  /\ IF Head(gq).from \in Seated /\ Open(Head(gq).from)
     THEN /\ Finished
          /\ aq' = Post(aq, {Head(gq).from}, Status({}))
          /\ UNCHANGED crashed
     ELSE Panic
  /\ UNCHANGED <<iwait, rest>>

(* The sender must have a seat, "Must exists". *)
RoleIsFree ==
  /\ Answered("search")
  /\ Answer # Head(gq).what
  /\ SearchedAll
  /\ IF Head(gq).from \in Seated
     THEN /\ AskSeats("set", aq, {SeatOf(Head(gq).from)},
                      ToActor("SelectRole", {Head(gq).what}, NoConn))
          /\ UNCHANGED gq
     ELSE Panic
  /\ UNCHANGED <<iwait, rest>>

RoleIsSet ==
  /\ Answered("set")
  /\ AskSeats("name", Post(aq, {Head(gq).from}, Status({Head(gq).what})), gwait.of,
              Ask("GetUsername"))
  /\ UNCHANGED <<gq, iwait, rest>>

TellOthers ==
  /\ Answered("name")
  /\ AskSeats("collect", Post(aq, OnlineSeats \ {Head(gq).from}, Ask("Chat")), Players,
              Ask("GetRole"))
  /\ UNCHANGED <<gq, iwait, rest>>

(* collect_roles *)
(* Mutated: a seat without a role is not left out. *)
CollectedOfAll == {gwait.got[p] : p \in Players}
Collected == {gwait.got[p] : p \in Players} \ {None}

(* Mutated: only the others are told. *)
TellRolesToOthers ==
  /\ Answered("collect")
  /\ Finished
  /\ aq' = Post(aq, OnlineSeats \ {Head(gq).from}, Available(Collected))
  /\ UNCHANGED <<iwait, crashed, rest>>

TellRoles ==
  /\ Answered("collect")
  /\ Finished
  /\ aq' = Post(aq, OnlineSeats, Available(Collected))
  /\ UNCHANGED <<iwait, crashed, rest>>

-------------------------------------------------------------------------------
(* StartGame: are_all_have_roles, online or not, up to the first without.     *)
(* The cancel of run_state is taken once.                                  *)
(* Mutated: the last seat is not asked.                                    *)
RolesUpToLast == Asked >= PlayerCount - 2
RolesUpToAll  == Asked = PlayerCount - 1

StartGame ==
  /\ Receive("StartGame")
  /\ AskSeats("all", aq, {0}, Ask("GetRole"))
  /\ UNCHANGED <<gq, iwait, rest>>

NextHasRole ==
  /\ Answered("all")
  /\ Answer # None /\ ~ RolesUpToAll
  /\ AskSeats("all", aq, {Asked + 1}, Ask("GetRole"))
  /\ UNCHANGED <<gq, iwait, rest>>

NotAllHaveRoles ==
  /\ Answered("all")
  /\ Answer = None
  /\ Finished
  /\ UNCHANGED <<aq, iwait, crashed, rest>>

AllHaveRoles ==
  /\ Answered("all")
  /\ Answer # None /\ RolesUpToAll
  /\ Finished
  /\ starting' = IF starting = NoConn THEN Head(gq).from ELSE starting
  /\ crashed' = IF starting = NoConn THEN crashed ELSE "roles"
  /\ UNCHANGED <<aq, iwait, stage, slots, started, actor, role, connVars, clientVars>>

(* The loop takes the cancel, before or after the commands that are in the    *)
(* mailbox; then every peer is asked to start, offline or not.             *)
TakeStart ==
  /\ Running
  /\ stage = "roles" /\ gwait.op = "idle"
  /\ starting # NoConn
  /\ stage' = "moving"
  /\ gq' = <<>>
  /\ AskSeats("start", aq, Players, Ask("StartGame"))
  /\ UNCHANGED <<iwait, slots, starting, started, actor, role, connVars, clientVars>>

RunGame ==
  /\ Running
  /\ stage = "moving"
  /\ \A p \in gwait.of : slots[p].conn \in started
  /\ stage' = "Game"
  /\ gwait' = ServerIdle
  /\ UNCHANGED <<gq, slots, starting, started, iwait, actorVars, connVars, clientVars,
                 crashed>>

-------------------------------------------------------------------------------
(* A peer leaves; another connection takes its seat.                       *)

DropPeer ==
  /\ Receive("DropPeer")
  /\ IF Head(gq).from \in Seated
     THEN /\ AskSeats("drop", aq, {SeatOf(Head(gq).from)}, Ask("GetUsername"))
          /\ UNCHANGED gq
     ELSE Finished /\ UNCHANGED <<aq, crashed>>
  /\ UNCHANGED <<iwait, rest>>

MarkOffline ==
  /\ Answered("drop")
  /\ Finished
  /\ aq' = Post(aq, OnlineSeats \ {Head(gq).from}, Ask("Chat"))
  /\ slots' = [slots EXCEPT ![Asked].online = FALSE]
  /\ UNCHANGED <<iwait, crashed, stage, starting, started, actor, role, connVars,
                 clientVars>>

(* The names of the seats, up to the one that matches. *)
SearchHandle ==
  /\ Receive("GetPeerHandleByUsername")
  /\ AskSeats("handle", aq, {0}, Ask("GetUsername"))
  /\ UNCHANGED <<gq, iwait, rest>>

SearchHandleOn ==
  /\ Answered("handle")
  /\ Asked # Owner(Head(gq).from)
  /\ AskSeats("handle", aq, {Asked + 1}, Ask("GetUsername"))
  /\ UNCHANGED <<gq, iwait, rest>>

HandleFound ==
  /\ Answered("handle")
  /\ Asked = Owner(Head(gq).from)
  /\ Finished
  /\ iwait' = [iwait EXCEPT !.old = slots[Asked].conn, !.got = "done"]
  /\ UNCHANGED <<aq, crashed, rest>>

(* The roles are collected before the seat is taken; then the new connection  *)
(* is told them.                                                           *)
ReconnectPeer ==
  /\ Receive("ReconnectPeer")
  /\ AskSeats("rejoin", aq, Players, Ask("GetRole"))
  /\ UNCHANGED <<gq, iwait, rest>>

Rejoined ==
  /\ Answered("rejoin")
  /\ Finished
  /\ slots' = [slots EXCEPT ![SeatOf(Head(gq).old)] = [conn |-> Head(gq).from, online |-> TRUE]]
  /\ aq' = Post(aq, {Head(gq).from}, Available(Collected))
  /\ iwait' = [iwait EXCEPT !.got = "done"]
  /\ UNCHANGED <<crashed, stage, starting, started, actor, role, connVars, clientVars>>

RolesServerNext ==
  \/ SelectRole \/ SearchOn \/ RoleIsTaken \/ RoleIsFree \/ RoleIsSet \/ TellOthers
  \/ TellRoles \/ StartGame \/ NextHasRole \/ NotAllHaveRoles \/ AllHaveRoles
  \/ TakeStart \/ RunGame \/ DropPeer \/ MarkOffline
  \/ SearchHandle \/ SearchHandleOn \/ HandleFound \/ ReconnectPeer \/ Rejoined
===============================================================================
