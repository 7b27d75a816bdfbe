----------------------------- MODULE LobbySession -----------------------------
(***************************************************************************)
(* The intro server before a game, run_intro_server and login_player,       *)
(* server/states.rs:53-166, 407-476 and 928-992, with the clients, the      *)
(* connections and the home server of Lobby; and what they promise together. *)
(***************************************************************************)
EXTENDS Lobby

Slotted == {c \in Conns : slot[c] # "none"}

IntroReceive(cmd) ==
  /\ Running
  /\ iwait.op = "idle"
  /\ iq # <<>> /\ Head(iq).cmd = cmd

-------------------------------------------------------------------------------
(* LoginPlayer: the room, the names of those still here, then those of the    *)
(* state server.  The actors that are here always answer.                  *)

RoomIsFull    == Cardinality(Slotted) >= Capacity
NameIsHere(c) == \E d \in Conns \ {c} : slot[d] = "here" /\ Name(d) = Name(c)

(* Names the Roles server holds as online. *)
InRoles(c) == \E d \in Seats : Name(d) = Name(c) /\ pc[d] # "ended"

Accept(c) ==
  /\ slot' = [slot EXCEPT ![c] = "here"]
  /\ Goto(c, "intro")
  /\ sock' = [sock EXCEPT ![c] = <<"Logged">>]

Reject(c) ==
  /\ Goto(c, "rejected")
  /\ sock' = [sock EXCEPT ![c] = <<"gone">>]
  /\ UNCHANGED slot

LoginRejected ==
  /\ IntroReceive("LoginPlayer")
  /\ LET c == Head(iq).from
     IN  /\ \/ RoomIsFull
            \/ NameIsHere(c)
            \/ server = "Roles" /\ home = "Roles" /\ InRoles(c)
         /\ Reject(c)
  /\ iq' = Tail(iq)
  /\ UNCHANGED <<iwait, entering, server, news, homeVars, actor, aq, clientVars, crashed>>

LoginAccepted ==
  /\ IntroReceive("LoginPlayer")
  /\ LET c == Head(iq).from
     IN  /\ ~ RoomIsFull /\ ~ NameIsHere(c)
         /\ \/ server = "none"
            \/ server = "Roles" /\ home = "Roles" /\ ~ InRoles(c)
         /\ Accept(c)
  /\ iq' = Tail(iq)
  /\ UNCHANGED <<iwait, entering, server, news, homeVars, actor, aq, clientVars, crashed>>

(* A request to a home server that has gone on to Roles is never read. *)
ToHome(cmd, c) == hq' = IF HomeReads THEN Append(hq, HomeCommand(cmd, c)) ELSE hq

AskHome ==
  /\ IntroReceive("LoginPlayer")
  /\ LET c == Head(iq).from
     IN  /\ ~ RoomIsFull /\ ~ NameIsHere(c)
         /\ server = "Home"
         /\ iwait' = Serving("id", c)
         /\ ToHome("GetPeerIdByName", c)
  /\ iq' = Tail(iq)
  /\ UNCHANGED <<slot, entering, server, news, home, room, hwait, starting, started,
                 peerVars, clientVars, crashed>>

(* Mutated: what the home server answers does not matter. *)
AcceptAnyway ==
  /\ Running
  /\ iwait.op = "id" /\ iwait.got # "no"
  /\ Accept(iwait.from)
  /\ iwait' = IntroIdle
  /\ UNCHANGED <<iq, entering, server, news, homeVars, actor, aq, clientVars, crashed>>

LoginAnswered ==
  /\ Running
  /\ iwait.op = "id" /\ iwait.got # "no"
  /\ IF iwait.got = "free" THEN Accept(iwait.from) ELSE Reject(iwait.from)
  /\ iwait' = IntroIdle
  /\ UNCHANGED <<iq, entering, server, news, homeVars, actor, aq, clientVars, crashed>>

-------------------------------------------------------------------------------
(* EnterGame leaves its sender on `cancel`, once; a second one before the     *)
(* loop has taken the first panics.                                        *)
ReceiveEnterGame ==
  /\ IntroReceive("EnterGame")
  /\ iq' = Tail(iq)
  /\ entering' = IF entering = NoConn THEN Head(iq).from ELSE entering
  /\ crashed' = IF entering = NoConn THEN crashed ELSE "intro"
  /\ UNCHANGED <<slot, iwait, server, news, homeVars, peerVars, clientVars>>

(* The first to enter starts the home server, the others connect to it.  A    *)
(* sender without a slot, or of a name the Roles server does not know, ends  *)
(* the intro server.                                                       *)
TakeEntering ==
  /\ Running
  /\ iwait.op = "idle"
  /\ entering # NoConn
  /\ entering' = NoConn
  /\ IF slot[entering] = "here" /\ server # "Roles"
     THEN iwait' = Serving("enter", entering) /\ UNCHANGED crashed
     ELSE crashed' = "intro" /\ UNCHANGED iwait
  /\ UNCHANGED <<slot, iq, server, news, homeVars, peerVars, clientVars>>

(* Peer moved to the home server: its handle here goes. *)
StartHomeServer ==
  /\ Running
  /\ iwait.op = "enter" /\ iwait.got = "done"
  /\ server = "none"
  /\ server' = "Home"
  /\ home' = "run"
  /\ room' = <<iwait.from>>
  /\ slot' = [slot EXCEPT ![iwait.from] = "away"]
  /\ iwait' = IntroIdle
  /\ UNCHANGED <<iq, entering, news, hq, hwait, starting, started, peerVars,
                 clientVars, crashed>>

AddToHome ==
  /\ Running
  /\ iwait.op = "enter" /\ iwait.got = "done"
  /\ server = "Home"
  /\ iwait' = Serving("add", iwait.from)
  /\ ToHome("AddPeer", iwait.from)
  /\ UNCHANGED <<slot, iq, entering, server, news, home, room, hwait, starting,
                 started, peerVars, clientVars, crashed>>

AddedToHome ==
  /\ Running
  /\ iwait.op = "add" /\ iwait.got = "done"
  /\ slot' = [slot EXCEPT ![iwait.from] = "away"]
  /\ iwait' = IntroIdle
  /\ UNCHANGED <<iq, entering, server, news, homeVars, peerVars, clientVars, crashed>>

(* The new state server comes while the commands are served: the select!      *)
(* drops the login in service, whose connection gets no answer and ends, and *)
(* who was on `cancel`.  A peer that is entering is not interrupted.        *)
(* Mutated: the command in service is finished first.                      *)
SetServerWhenIdle ==
  /\ Running
  /\ news # "none"
  /\ iwait.op = "idle"
  /\ server' = news /\ news' = "none"
  /\ entering' = NoConn
  /\ UNCHANGED <<slot, iq, iwait, homeVars, peerVars, clientVars, crashed>>

SetServer ==
  /\ Running
  /\ news # "none"
  /\ iwait.op \in {"idle", "id"}
  /\ server' = news /\ news' = "none"
  /\ entering' = NoConn
  /\ iwait' = IntroIdle
  /\ IF iwait.op = "id" THEN Goto(iwait.from, "failed") ELSE UNCHANGED pc
  /\ UNCHANGED <<slot, iq, homeVars, actor, aq, sock, clientVars, crashed>>

(* DropPeer.  The last to leave shuts the state server down. *)
IntroDropPeer ==
  /\ IntroReceive("DropPeer")
  /\ iq' = Tail(iq)
  /\ slot' = [slot EXCEPT ![Head(iq).from] = "none"]
  /\ crashed' = IF server # "none" /\ \A c \in Conns : slot'[c] = "none"
                THEN "over" ELSE crashed
  /\ UNCHANGED <<iwait, entering, server, news, homeVars, peerVars, clientVars>>

-------------------------------------------------------------------------------
IntroServerNext ==
  \/ LoginRejected \/ LoginAccepted \/ AskHome \/ LoginAnswered
  \/ ReceiveEnterGame \/ TakeEntering \/ StartHomeServer \/ AddToHome \/ AddedToHome
  \/ SetServer \/ IntroDropPeer

HomeServerNext ==
  \/ AddPeer \/ StartRoles \/ SearchId \/ SearchNext \/ DropPeer \/ Dropped
  \/ TakeStart \/ RunRoles

PeerNext(c) ==
  \/ ReadLogin(c) \/ ReadEnterGame(c) \/ ReadStartRoles(c) \/ Forward(c) \/ End(c)
  \/ OpenHome(c) \/ OpenRoles(c) \/ StartState(c) \/ StartFails(c)
  \/ AnswerEnterGame(c) \/ HomeActor(c)

ClientNext(c) == Connect(c) \/ PressEnter(c) \/ Leave(c)

Next ==
  \/ IntroServerNext
  \/ HomeServerNext
  \/ \E c \in Conns : PeerNext(c) \/ ClientNext(c)

Spec == Init /\ [][Next]_vars

(* Every task runs when it can.  A select! takes one of its ready branches at *)
(* random, so that it does not serve commands for ever and never look at the *)
(* other branch: the commands here are finitely many.                      *)
Fairness ==
  /\ WF_vars(IntroServerNext)
  /\ WF_vars(HomeServerNext)
  /\ \A c \in Conns : WF_vars(PeerNext(c))

FairSpec == Spec /\ Fairness

-------------------------------------------------------------------------------
Maybe == Conns \cup {NoConn}

TypeOK ==
  /\ slot \in [Conns -> {"none", "here", "away"}]
  /\ iq \in Seq([cmd : {"LoginPlayer", "EnterGame", "DropPeer"}, from : Conns])
  /\ iwait \in [op : {"idle", "id", "enter", "add"}, from : Maybe,
                got : {"no", "free", "taken", "done"}]
  /\ entering \in Maybe
  /\ server \in {"none", "Home", "Roles"}
  /\ news \in {"none", "Roles"}
  /\ home \in {"none", "run", "moving", "Roles"}
  /\ room \in Seq(Conns) /\ Len(room) <= Capacity /\ IsInjective(room)
  /\ hq \in Seq([cmd : {"AddPeer", "StartRoles", "GetPeerIdByName", "DropPeer"},
                 from : Conns])
  /\ hwait \in [op : {"idle", "id", "drop"}, at : 1 .. Capacity,
                got : Names \cup {Unknown}, found : BOOLEAN]
  /\ starting \in Maybe /\ started \subseteq Conns
  /\ pc \in [Conns -> Loops \cup {"none", "w_login", "rejected", "failed", "toHome",
                                  "startHome", "toRoles", "startRoles", "ended"}]
  /\ actor \in [Conns -> {"none", "intro", "boot", "home", "over", "dead"}]
  /\ aq \in [Conns -> Seq({"GetUsername", "SendTcp", "StartRoles"})]
  /\ sock \in [Conns -> Seq({"Logged", "gone"})]
  /\ client \in [Conns -> {"off", "Intro", "Logged", "Home", "Roles", "gone"}]
  /\ keys \in [Conns -> SUBSET {"EnterGame", "StartRoles"}]
  /\ cin \in [Conns -> Seq({"Login", "EnterGame", "StartRoles"})]
  /\ crashed \in {"no", "intro", "home", "full", "over"}

(* Two peers never sit under one name: the names are asked of two servers one *)
(* after the other, while peers move from the first to the second and leave  *)
(* both at different times (server/states.rs:419-469).  The Roles server      *)
(* gives a peer that has gone away its name back when it returns.           *)
SittingHere == {c \in Conns : slot[c] = "here"} \cup Seats
NamesUnique ==
  \A c, d \in SittingHere :
    Name(c) = Name(d) /\ c # d =>
      home \in {"moving", "Roles"} /\ \E e \in {c, d} : e \in Seats /\ pc[e] = "ended"

(* A peer that enters finds a place, "Peer slot must be empty" (server/       *)
(* states.rs:148): the home room counts its peers apart from the intro room, *)
(* and a peer leaves the two by two messages.  It does not: the DropPeer of a *)
(* peer that leaves at once overtakes the AddPeer, and it stays in the room.  *)
PlaceIsEmpty == crashed # "full"

(* Those in the room start the Roles together, and no one else: once the      *)
(* Roles server runs, a peer is in the Home state only when it came in after *)
(* the home server had stopped to read, and then the intro server waits for  *)
(* the answer to its AddPeer.                                              *)
NoOneLeftBehind ==
  Running /\ home = "Roles" =>
    \A c \in Conns :
      pc[c] \in {"toHome", "startHome", "home"} =>
        iwait.from = c /\ c \notin Seats

(* The intro server serves a login, or the connection ends, in spite of the   *)
(* select! that may drop it half-way (server/states.rs:64).  It does not      *)
(* when it waits for a home server that no longer reads.                   *)
Waits(op) == iwait.op = op /\ home \in {"moving", "Roles"}
LoginsEnd ==
  \A c \in Conns : pc[c] = "w_login" ~> (pc[c] # "w_login" \/ ~ Running \/ Waits("add"))

(* A start of the Roles that was accepted comes to its end for everyone in    *)
(* the room, or the home server has panicked.                              *)
StartsRoles ==
  starting # NoConn
    ~> (~ Running \/ (home = "Roles" /\ \A c \in Seats : pc[c] \in {"roles", "ended"}))
===============================================================================
