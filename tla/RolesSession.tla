------------------------------ MODULE RolesSession ----------------------------
(***************************************************************************)
(* The peers and clients of the Roles state, server/peer.rs and              *)
(* client/states.rs, and the intro server's part in a reconnection, with the *)
(* roles server of RolesRoom; and what they promise together.              *)
(*                                                                         *)
(* A player who leaves may come back once.  The login is modelled in         *)
(* IntroServer: here the server knows that the seat is offline.            *)
(***************************************************************************)
EXTENDS RolesRoom

First1(p) == <<p, 1>>
StartConns == {First1(p) : p \in Players}

(* The start of the Roles: every peer has its actor, no one a role. *)
Init ==
  /\ stage = "roles"
  /\ slots = [p \in Players |-> [conn |-> First1(p), online |-> TRUE]]
  /\ gq = <<>> /\ gwait = ServerIdle
  /\ starting = NoConn /\ started = {}
  /\ iwait = IntroIdle
  /\ actor = [c \in Conns |-> IF c \in StartConns THEN "on" ELSE "none"]
  /\ role = [c \in Conns |-> None]
  /\ aq = [c \in Conns |-> <<>>]
  /\ pc = [c \in Conns |-> IF c \in StartConns THEN "roles" ELSE "none"]
  /\ sock = [c \in Conns |-> <<>>]
  /\ client = [c \in Conns |-> IF c \in StartConns THEN "on" ELSE "none"]
  /\ items = [c \in Conns |-> {}]
  /\ chosen = [c \in Conns |-> None]
  /\ left = [select |-> Selections, start |-> Starts]
  /\ cin = [c \in Conns |-> <<>>]
  /\ crashed = "no"

-------------------------------------------------------------------------------
(* Clients.                                                                *)

(* ConfirmRole, on a role that the client shows as available. *)
Confirm(c, r) ==
  /\ Running
  /\ client[c] = "on" /\ pc[c] \in {"roles", "toGame", "startGame"}
  /\ r \notin items[c]
  /\ left.select > 0
  /\ left' = [left EXCEPT !.select = @ - 1]
  /\ cin' = [cin EXCEPT ![c] = Append(@, r)]
  /\ UNCHANGED <<serverVars, iwait, actorVars, connVars, client, items, chosen, crashed>>

(* StartGame, at any time, with a role or without.  Bound: by Starters. *)
PressStart(c) ==
  /\ Running
  /\ Owner(c) \in Starters
  /\ client[c] = "on" /\ pc[c] \in {"roles", "toGame", "startGame"}
  /\ left.start > 0
  /\ left' = [left EXCEPT !.start = @ - 1]
  /\ cin' = [cin EXCEPT ![c] = Append(@, "StartGame")]
  /\ UNCHANGED <<serverVars, iwait, actorVars, connVars, client, items, chosen, crashed>>

Quit(c) ==
  /\ Running
  /\ Owner(c) \in Quitters
  /\ client[c] = "on"
  /\ client' = [client EXCEPT ![c] = "off"]
  /\ UNCHANGED <<serverVars, iwait, actorVars, connVars, items, chosen, left, cin, crashed>>

Return(c) ==
  /\ Running
  /\ c[2] = 2 /\ client[c] = "none"
  /\ ~ slots[Owner(c)].online
  /\ client' = [client EXCEPT ![c] = "on"]
  /\ Goto(c, "entering")
  /\ UNCHANGED <<serverVars, iwait, actorVars, sock, items, chosen, left, cin, crashed>>

-------------------------------------------------------------------------------
(* The intro server.                                                       *)

ToServer(request) == gq' = IF stage = "roles" THEN Append(gq, request) ELSE gq

introRest == <<stage, slots, gwait, starting, started, actorVars, sock, clientVars>>

EnterGame(c) ==
  /\ Running
  /\ iwait.op = "idle" /\ stage = "roles"
  /\ pc[c] = "entering"
  /\ Goto(c, "w_handle")
  /\ iwait' = Serving("handle", c, NoConn)
  /\ ToServer(Command("GetPeerHandleByUsername", c))
  /\ UNCHANGED <<crashed, introRest>>

HandOver ==
  /\ Running
  /\ iwait.op = "handle" /\ iwait.got = "done"
  /\ IF pc[iwait.from] = "w_handle"
     THEN Goto(iwait.from, "take") /\ UNCHANGED crashed
     ELSE crashed' = "intro" /\ UNCHANGED pc
  /\ iwait' = Serving("answer", iwait.from, iwait.old)
  /\ UNCHANGED <<gq, introRest>>

ReplaceSeat ==
  /\ Running
  /\ iwait.op = "answer" /\ iwait.got = "done"
  /\ iwait' = Serving("reconnect", iwait.from, iwait.old)
  /\ ToServer(Request("ReconnectPeer", iwait.from, None, iwait.old))
  /\ UNCHANGED <<pc, crashed, introRest>>

EndReconnection ==
  /\ Running
  /\ iwait.op = "reconnect" /\ iwait.got = "done"
  /\ iwait' = IntroIdle
  /\ UNCHANGED <<gq, pc, crashed, introRest>>

-------------------------------------------------------------------------------
(* Connections.                                                            *)

TakeOver(c) ==
  /\ Running
  /\ pc[c] = "take"
  /\ IF Open(iwait.old)
     THEN /\ aq' = [aq EXCEPT ![iwait.old] = Append(@, ToActor("TakePeer", {}, c))]
          /\ Goto(c, "w_take")
          /\ UNCHANGED crashed
     ELSE crashed' = "intro" /\ UNCHANGED <<aq, pc>>
  /\ UNCHANGED <<serverVars, iwait, actor, role, sock, clientVars>>

OpenMailbox(c) ==
  /\ Running
  /\ pc[c] = "taken"
  /\ Goto(c, "boot")
  /\ actor' = [actor EXCEPT ![c] = "boot"]
  /\ iwait' = [iwait EXCEPT !.got = "done"]
  /\ UNCHANGED <<serverVars, role, aq, sock, clientVars, crashed>>

(* ReconnectRoles(selected_role) to the client; then the actor. *)
SpawnActor(c) ==
  /\ Running
  /\ pc[c] = "boot"
  /\ Goto(c, "roles")
  /\ actor' = [actor EXCEPT ![c] = "on"]
  /\ chosen' = IF client[c] = "on" THEN [chosen EXCEPT ![c] = role[c]] ELSE chosen
  /\ UNCHANGED <<serverVars, iwait, role, aq, sock, client, items, left, cin, crashed>>

(* An actor is dead: the server that waits for it panics, and so does the     *)
(* intro server when the connection that was to take the peer over ends.    *)
LossOfMailbox(c) ==
  IF \E i \in DOMAIN aq[c] : aq[c][i].msg \notin ForClient \cup {"TakePeer"} THEN "roles"
  ELSE IF \E i \in DOMAIN aq[c] : aq[c][i].msg = "TakePeer" THEN "intro" ELSE crashed

Die(c) ==
  /\ actor' = [actor EXCEPT ![c] = "dead"]
  /\ aq' = [aq EXCEPT ![c] = <<>>]
  /\ crashed' = LossOfMailbox(c)

StartFails(c) ==
  /\ Running
  /\ pc[c] = "boot"
  /\ client[c] = "off"
  /\ Goto(c, "ended")
  /\ Die(c)
  /\ UNCHANGED <<serverVars, iwait, role, sock, clientVars>>

Forward(c) ==
  /\ Running
  /\ pc[c] = "roles"
  /\ sock[c] # <<>>
  /\ sock' = [sock EXCEPT ![c] = Tail(@)]
  /\ LET m == Head(sock[c])
     IN  /\ chosen' = IF client[c] = "on" /\ m.msg = "SelectedStatus" /\ m.what # {}
                      THEN [chosen EXCEPT ![c] = CHOOSE r \in m.what : TRUE] ELSE chosen
         /\ items' = IF client[c] = "on" /\ m.msg = "AvailableRoles"
                     THEN [items EXCEPT ![c] = m.what] ELSE items
  /\ UNCHANGED <<serverVars, iwait, actorVars, pc, client, left, cin, crashed>>

Read(c) ==
  /\ Running
  /\ pc[c] = "roles"
  /\ cin[c] # <<>>
  /\ cin' = [cin EXCEPT ![c] = Tail(@)]
  /\ ToServer(IF Head(cin[c]) = "StartGame" THEN Command("StartGame", c)
              ELSE Request("SelectRole", c, Head(cin[c]), NoConn))
  /\ UNCHANGED <<stage, slots, gwait, starting, started, iwait, actorVars, connVars,
                 client, items, chosen, left, crashed>>

(* The client has gone; or a message of the Roles state comes in the Game     *)
(* state, where it cannot be decoded.                                      *)
End(c) ==
  /\ Running
  /\ \/ pc[c] \in {"entering", "w_handle", "roles", "game"} /\ client[c] = "off"
     \/ pc[c] = "game" /\ cin[c] # <<>>
  /\ Goto(c, "ended")
  /\ client' = [client EXCEPT ![c] = "off"]
  /\ sock' = [sock EXCEPT ![c] = <<>>]
  /\ cin' = [cin EXCEPT ![c] = <<>>]
  /\ IF pc[c] = "roles" THEN ToServer(Command("DropPeer", c)) ELSE UNCHANGED gq
  /\ UNCHANGED <<stage, slots, gwait, starting, started, iwait, actorVars, items, chosen,
                 left, crashed>>

(* Peer<Game>::from expects a role; then the new mailbox, get_monsters of the *)
(* game server that is not running yet, and StartGame to the client.        *)
OpenGame(c) ==
  /\ Running
  /\ pc[c] = "toGame"
  /\ Goto(c, "startGame")
  /\ IF role[c] # None
     THEN started' = started \cup {c} /\ UNCHANGED crashed
     ELSE crashed' = "norole" /\ UNCHANGED started
  /\ UNCHANGED <<stage, slots, gq, gwait, starting, iwait, actorVars, sock, clientVars>>

EnterTheGame(c) ==
  /\ Running
  /\ stage = "Game"
  /\ pc[c] = "startGame"
  /\ Goto(c, "game")
  /\ UNCHANGED <<serverVars, iwait, actorVars, sock, clientVars, crashed>>

-------------------------------------------------------------------------------
(* Actors.                                                                 *)

Handles(c, msgs) ==
  /\ Running
  /\ actor[c] = "on"
  /\ aq[c] # <<>> /\ Head(aq[c]).msg \in msgs

Reply(c, answer) == gwait' = [gwait EXCEPT !.got[SeatOf(c)] = answer]

(* GetRole, SelectRole and GetUsername, of the server. *)
AnswerServer(c) ==
  /\ Handles(c, {"GetRole", "SelectRole", "GetUsername"})
  /\ LET m == Head(aq[c])
     IN  /\ role' = IF m.msg = "SelectRole"
                    THEN [role EXCEPT ![c] = CHOOSE r \in m.what : TRUE] ELSE role
         /\ Reply(c, IF m.msg = "GetRole" THEN role[c] ELSE "done")
  /\ aq' = [aq EXCEPT ![c] = Tail(@)]
  /\ UNCHANGED <<stage, slots, gq, starting, started, iwait, actor, connVars,
                 clientVars, crashed>>

(* The peer moves to the new connection; no role is left. *)
(* Mutated: the new connection starts without a role.    *)
TakenWithoutRole(c, new) == role' = [role EXCEPT ![c] = None]
MovesTo(c, new) == role' = [role EXCEPT ![new] = role[c], ![c] = None]

AnswerTakePeer(c) ==
  /\ Handles(c, {"TakePeer"})
  /\ LET new == Head(aq[c]).conn
     IN  MovesTo(c, new) /\ Goto(new, "taken")
  /\ aq' = [aq EXCEPT ![c] = Tail(@)]
  /\ UNCHANGED <<serverVars, iwait, actor, sock, clientVars, crashed>>

(* To the client's channel, which is closed when the connection is over. *)
SendTcp(c) ==
  /\ Handles(c, ForClient)
  /\ IF pc[c] = "ended"
     THEN Die(c) /\ UNCHANGED sock
     ELSE /\ aq' = [aq EXCEPT ![c] = Tail(@)]
          /\ sock' = IF Head(aq[c]).msg = "Chat" THEN sock
                     ELSE [sock EXCEPT ![c] = Append(@, Head(aq[c]))]
          /\ UNCHANGED <<actor, crashed>>
  /\ UNCHANGED <<serverVars, iwait, role, pc, clientVars>>

(* The Roles state of the peer is over; what is in the client's channel is    *)
(* lost.  When its connection is over already, no one answers the server.   *)
BeginGame(c) ==
  /\ Handles(c, {"StartGame"})
  /\ actor' = [actor EXCEPT ![c] = "over"]
  /\ aq' = [aq EXCEPT ![c] = Tail(@)]
  /\ sock' = [sock EXCEPT ![c] = <<>>]
  /\ IF pc[c] = "roles"
     THEN Goto(c, "toGame") /\ UNCHANGED crashed
     ELSE crashed' = "roles" /\ UNCHANGED pc
  /\ UNCHANGED <<serverVars, iwait, role, clientVars>>

(* The last handle is gone and the mailbox is empty. *)
EndWithoutHandles(c) ==
  /\ Running
  /\ actor[c] = "on" /\ aq[c] = <<>>
  /\ pc[c] = "ended" /\ c \notin Seated /\ c # iwait.from
  /\ actor' = [actor EXCEPT ![c] = "dead"]
  /\ UNCHANGED <<serverVars, iwait, role, aq, connVars, clientVars, crashed>>

-------------------------------------------------------------------------------
IntroNext == (\E c \in Conns : EnterGame(c)) \/ HandOver \/ ReplaceSeat \/ EndReconnection

PeerNext(c) ==
  \/ TakeOver(c) \/ OpenMailbox(c) \/ SpawnActor(c) \/ StartFails(c)
  \/ Forward(c) \/ Read(c) \/ End(c) \/ OpenGame(c) \/ EnterTheGame(c)
  \/ AnswerServer(c) \/ AnswerTakePeer(c) \/ SendTcp(c) \/ BeginGame(c)
  \/ EndWithoutHandles(c)

ClientNext(c) ==
  (\E r \in RoleNames : Confirm(c, r)) \/ PressStart(c) \/ Quit(c) \/ Return(c)

Next ==
  \/ RolesServerNext
  \/ IntroNext
  \/ \E c \in Conns : PeerNext(c) \/ ClientNext(c)

Spec == Init /\ [][Next]_vars

-------------------------------------------------------------------------------
Maybe == Conns \cup {NoConn}
MaybeRole == RoleNames \cup {None}
Messages == [msg  : ForClient \cup {"GetRole", "SelectRole", "GetUsername", "TakePeer",
                                    "StartGame"},
             what : SUBSET RoleNames, conn : Maybe]

TypeOK ==
  /\ stage \in {"roles", "moving", "Game"}
  /\ slots \in [Players -> [conn : Conns, online : BOOLEAN]]
  /\ gq \in Seq([cmd : {"SelectRole", "StartGame", "DropPeer", "ReconnectPeer",
                        "GetPeerHandleByUsername"},
                 from : Conns, what : MaybeRole, old : Maybe])
  /\ gwait.op \in {"idle", "search", "set", "name", "collect", "all", "start", "drop",
                   "handle", "rejoin"}
  /\ gwait.of \subseteq Players
  /\ gwait.got \in [Players -> MaybeRole \cup {Pending, "done"}]
  /\ starting \in Maybe /\ started \subseteq Conns
  /\ iwait \in [op : {"idle", "handle", "answer", "reconnect"}, from : Maybe,
                old : Maybe, got : {"no", "done"}]
  /\ actor \in [Conns -> {"none", "boot", "on", "over", "dead"}]
  /\ role \in [Conns -> MaybeRole]
  /\ aq \in [Conns -> Seq(Messages)]
  /\ pc \in [Conns -> {"none", "entering", "w_handle", "take", "w_take", "taken", "boot",
                       "roles", "toGame", "startGame", "game", "ended"}]
  /\ sock \in [Conns -> Seq(Messages)]
  /\ client \in [Conns -> {"none", "on", "off"}]
  /\ items \in [Conns -> SUBSET RoleNames]
  /\ chosen \in [Conns -> MaybeRole]
  /\ left \in [select : 0 .. Selections, start : 0 .. Starts]
  /\ cin \in [Conns -> Seq(RoleNames \cup {"StartGame"})]
  /\ crashed \in {"no", "roles", "intro", "norole"}

RoleOf(p) == role[slots[p].conn]
NoOneReturned == \A p \in Players : slots[p].conn[2] = 1

(* No two players have the same role. *)
RolesDistinct ==
  \A p, q \in Players : p # q /\ RoleOf(p) # None => RoleOf(p) # RoleOf(q)

(* README.md:237 says that a role is set "if Role is available".  As long as  *)
(* no one has come back, no two players have the same: between the search    *)
(* and the selection, which ask several actors one after another, no other   *)
(* selection comes in between (server/states.rs:1250-1267).  After a return  *)
(* two can have it: while the role moves on, the actor in the seat has none  *)
(* any more and the new actor has no seat yet.                              *)
RolesDistinctAtFirst == NoOneReturned => RolesDistinct

(* The game starts with a role for everyone, "Role must be selected" (server/  *)
(* peer.rs:191): the roles were checked some time before, and players may     *)
(* have left and come back since.                                          *)
EveryoneHasRole ==
  /\ crashed # "norole"
  /\ stage = "Game" => \A p \in Players : RoleOf(p) # None

(* A player who was shown a role of its own still has one after it has left    *)
(* and come back: the peer moves from actor to actor (server/peer.rs:547).  *)
RoleKept ==
  \A p \in Players :
    slots[p].conn[2] = 2 /\ chosen[First1(p)] # None => RoleOf(p) # None

Quiet ==
  /\ Running
  /\ stage = "roles" /\ gq = <<>> /\ gwait.op = "idle" /\ starting = NoConn
  /\ iwait.op = "idle"
  /\ \A c \in Conns : aq[c] = <<>> /\ sock[c] = <<>> /\ cin[c] = <<>>

(* When nothing is under way, a client shows as its own the role that the     *)
(* server has for it, after a reconnection too; and as not available the     *)
(* roles that are taken, as long as no one has come back.                  *)
ShownAgrees ==
  Quiet => \A c \in OnlineSeats :
    client[c] = "on" =>
      /\ chosen[c] = role[c]
      /\ NoOneReturned => items[c] = {RoleOf(p) : p \in Players} \ {None}
===============================================================================
