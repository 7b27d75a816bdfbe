----------------------------- MODULE SessionProofs -----------------------------
(***************************************************************************)
(* Proofs about GameSession, for any number of players, connections, keys   *)
(* per turn, chatters and quitters: types, every request answered once, no  *)
(* seat given to another player, no turn ended by one who is not active,     *)
(* moves made in the phase they were meant for, and clients that show the    *)
(* turn of the server.                                                     *)
(*                                                                         *)
(* Whoever waits for an answer has one request on its way, and whoever does  *)
(* not has none: TaskMail, LobbyMail, ActorMail and IntroMail count them in  *)
(* every mailbox.  What a task knows while it waits stays true although the  *)
(* others go on: ServerWait of the search by names, Seen, HandingOver and    *)
(* HereKept of the login and the reconnection, ActiveMoves of the answer to  *)
(* who is active.  They lean on each other, so the invariant IInv has them   *)
(* all, and each step is shown to keep it in a lemma of its own, one lemma   *)
(* for each action.                                                        *)
(*                                                                         *)
(* Two more invariants rest on it.  OneChance: of what lets a client that     *)
(* presses once per turn make a move, there is at most one in all, wherever  *)
(* it is, and only for the active player.  AllTold: the last turn status on  *)
(* its way to a client, or the one it shows when there is none, is right.    *)
(***************************************************************************)
EXTENDS GameSession, QueueProofs, FiniteSetTheorems, TLAPS

TP == INSTANCE TurnsProofs WITH MonstersPerLine <- 1, DeckSize <- 1

-------------------------------------------------------------------------------
(* What a mailbox holds: the messages to a server from c with a command of    *)
(* cmds, and the messages to an actor for which d waits.                    *)
Asked(q, cmds, c) ==
  Cardinality({i \in DOMAIN q : q[i].cmd \in cmds /\ q[i].from = c})
Addressed(q, msg, d) ==
  Cardinality({i \in DOMAIN q : q[i].msg = msg /\ q[i].asker = d})

(* The places of a connection: before the game, when it takes a peer over,   *)
(* between the two states, and in the game's loop; and a living actor.      *)
Taking  == {"take", "w_take", "taken"}
Early   == {"none", "login", "w_login", "logged", "entering", "rejected"} \cup Taking
Booting == {"boot", "w_boot", "booted"}
Loop    == {"read", "w_active", "got_active", "w_name", "w_move", "answer_turn",
            "w_chatname", "chat", "w_chat"}
Busy    == {"idle", "w_monster", "may_switch", "w_switch", "switched",
            "w_monsters", "got_monsters"}

SeatOf(c) == slots[Owner(c)]

(* A slot is its player's, whatever has happened. *)
SeatOwners == \A p \in Players : Owner(slots[p].conn) = p

(* A connection has an actor when it boots, a living one in its loop, and a   *)
(* dead one when its move has been refused.                                *)
ActorOfConn == \A c \in Conns :
  /\ conn[c].pc \in Early => actor[c] = "none"
  /\ conn[c].pc \in Booting <=> actor[c] = "boot"
  /\ conn[c].pc \in Loop => actor[c] \in Busy
  /\ conn[c].pc = "refused" => actor[c] = "dead"

(* A slot that is offline is that of a connection that has ended. *)
SeatKept == \A p \in Players :
  /\ actor[slots[p].conn] # "none"
  /\ ~ slots[p].online => conn[slots[p].conn].pc = "ended"

(* An actor has its player's name or none; the one in a slot has the name     *)
(* unless a reconnection has taken it.                                     *)
NameKept == \A c \in Conns : name[c] \in {Owner(c), NoName}
SeatNamed == \A p \in Players :
  LET c == slots[p].conn
  IN  Open(c) /\ name[c] # p => iwait.op \in {"answer", "reconnect"} /\ iwait.old = c

(* The game server in the middle of a command: it asks an actor that has a    *)
(* slot, and a search has found the slot of the name once it is past it.   *)
ServerWait ==
  gwait.op # "idle" =>
    /\ gq # <<>>
    /\ Head(gq).cmd = gwait.op
    /\ gwait.asked \in Conns
    /\ SeatOf(gwait.asked).conn = gwait.asked
    /\ gwait.op = "DropPeer" => gwait.asked = Head(gq).from
    /\ gwait.op \in Searches =>
         /\ gwait.found = IF Owner(gwait.asked) > Owner(Head(gq).from)
                          THEN SeatOf(Head(gq).from).conn ELSE NoConn
         /\ gwait.got # Pending => gwait.got = Owner(gwait.asked)
         /\ gwait.op = "GetPeerHandleByUsername" =>
              Owner(gwait.asked) <= Owner(Head(gq).from)

(* One request in the mailbox of the game server for each task that waits,   *)
(* for connections and actors as RequestsMatchWaits says.                  *)
TaskMailOf(c) ==
  /\ Asked(gq, {"GetActivePlayer"}, c) = OneIf(conn[c].pc = "w_active")
  /\ Asked(gq, {"GetPeerUsername"}, c) = OneIf(conn[c].pc = "w_name")
  /\ Asked(gq, {"Broadcast"}, c) = OneIf(conn[c].pc = "w_chat")
  /\ Asked(gq, {"GetMonsters"}, c) =
       OneIf(conn[c].pc = "w_boot") + OneIf(actor[c] = "w_monsters")
  /\ Asked(gq, {"SwitchToNextPlayer"}, c) = OneIf(actor[c] = "w_switch")
  /\ Asked(gq, {"DropMonster", "ContinueGameCycle"}, c) = OneIf(actor[c] = "w_monster")
  /\ Asked(gq, {"DropPeer"}, c) <= OneIf(conn[c].pc = "ended")
TaskMail == \A c \in Conns : TaskMailOf(c)

(* ... and for the intro server. *)
IntroAsks(op, c) == iwait.op = op /\ iwait.got = Nothing /\ iwait.from = c
LobbyMail ==
  /\ \A c \in Conns :
       /\ Asked(gq, {"GetPeerIdByName"}, c) = OneIf(IntroAsks("id", c))
       /\ Asked(gq, {"IsPeerConnected"}, c) = OneIf(IntroAsks("connected", c))
       /\ Asked(gq, {"GetPeerHandleByUsername"}, c) = OneIf(IntroAsks("handle", c))
       /\ Asked(gq, {"ReconnectPeer"}, c) = OneIf(IntroAsks("reconnect", c))
  /\ \A i \in DOMAIN gq :
       gq[i].cmd \in {"IsPeerConnected", "ReconnectPeer"} => gq[i].arg = iwait.old

(* The mailbox of an actor: what the connection, the game server and the     *)
(* connection that takes the peer over wait for.                          *)
ServerAsks(x) == gwait.op # "idle" /\ gwait.got = Pending /\ gwait.asked = x
MoversWait == \A x \in Conns : MoveUnderWay(x) => conn[x].pc = "w_move"
MailOf(x, d) ==
  /\ Addressed(aq[x], "Move", d) =
       OneIf(d = x /\ conn[x].pc = "w_move" /\ ~ MoveUnderWay(x))
  /\ Addressed(aq[x], "GetUsername", d) =
       OneIf(\/ d = x /\ conn[x].pc = "w_chatname"
             \/ d = NoConn /\ ServerAsks(x))
  /\ Addressed(aq[x], "TakePeer", d) =
       OneIf(iwait.op = "answer" /\ iwait.old = x /\ iwait.from = d
               /\ conn[iwait.from].pc = "w_take")
ActorMail == \A x \in Conns : \A d \in Conns \cup {NoConn} : MailOf(x, d)

(* The mailbox of the intro server. *)
IntroMailOf(c) ==
  /\ iwait.op \in {"id", "connected"} /\ iwait.from = c => conn[c].pc = "w_login"
  /\ Asked(iq, {"LoginPlayer"}, c) =
       OneIf(conn[c].pc = "w_login" /\ ~ (iwait.op \in {"id", "connected"} /\ iwait.from = c))
  /\ Asked(iq, {"EnterGame"}, c) + OneIf(entering = c)
       + OneIf(iwait.op = "handle" /\ iwait.from = c)
       <= OneIf(conn[c].pc \in {"entering", "ended"} /\ actor[c] = "none")
  /\ Asked(iq, {"DropPeer"}, c) <= OneIf(conn[c].pc \in Over)
IntroMail == \A c \in Conns : IntroMailOf(c)

(* What the intro server knows while it waits.  Until the slot is given to    *)
(* the new connection, the connection it has found keeps the slot.         *)
Answers ==
  /\ iwait.op # "idle" => iwait.from \in Conns
  /\ iwait.op \in {"id", "handle"} => iwait.got \in {Nothing, "some"}
  /\ iwait.op = "connected" => iwait.got \in {Nothing, "online", "offline"}
  /\ iwait.op \in {"answer", "reconnect"} => iwait.got \in {Nothing, "done"}
Found ==
  \/ iwait.op \in {"id", "handle"} /\ iwait.got # Nothing
  \/ iwait.op \in {"connected", "answer"}
  \/ iwait.op = "reconnect" /\ iwait.got = Nothing
Seen ==
  /\ Found => iwait.old = SeatOf(iwait.from).conn
  /\ iwait.op = "connected" /\ iwait.got = "offline" => ~ SeatOf(iwait.from).online
  /\ iwait.op = "reconnect" /\ iwait.got = "done" => SeatOf(iwait.from).conn = iwait.from
HandingOver ==
  iwait.op \in {"answer", "reconnect"} =>
    /\ iwait.from \in here
    /\ iwait.old \in Conns
    /\ Owner(iwait.old) = Owner(iwait.from)
    /\ iwait.op = "answer" /\ iwait.got = Nothing => conn[iwait.from].pc \in Taking
    /\ iwait.op = "reconnect" \/ iwait.got = "done" => actor[iwait.from] # "none"
    /\ IF conn[iwait.from].pc \in {"take", "w_take"}
       THEN Open(iwait.old) => name[iwait.old] = Owner(iwait.old)
       ELSE name[iwait.from] = Owner(iwait.from)
OneTaking == \A c \in Conns : conn[c].pc \in Taking =>
  /\ iwait.op = "answer" /\ iwait.got = Nothing
  /\ iwait.from = c /\ conn[c].val = iwait.old

(* A player is logged in once, and only while the slot in the game is         *)
(* offline.                                                                *)
HereKept ==
  /\ \A c \in here :
       \/ ~ SeatOf(c).online
       \/ iwait.op = "reconnect" /\ iwait.got = "done" /\ iwait.from = c
  /\ \A c, d \in here : Owner(c) = Owner(d) => c = d
  /\ \A c \in Conns : conn[c].pc \in {"logged", "entering"} => c \in here
  /\ iwait.op \in {"id", "connected"} =>
       \A d \in here : d # iwait.from => Owner(d) # Owner(iwait.from)

(* Whoever has been told that it is its turn, or makes its move, is active. *)
ActiveMoves == \A c \in Conns :
  \/ conn[c].pc = "got_active" /\ conn[c].val = c
  \/ conn[c].pc = "w_move" /\ actor[c] # "switched"
  => c = ActiveConn(turn)

Inner ==
  /\ ActorOfConn /\ SeatKept /\ NameKept /\ SeatNamed
  /\ ServerWait /\ TaskMail /\ LobbyMail
  /\ MoversWait /\ ActorMail
  /\ IntroMail /\ Answers /\ Seen /\ HandingOver /\ OneTaking /\ HereKept
  /\ ActiveMoves

IInv == TypeOK /\ T!HasActive(turn) /\ SeatOwners /\ (Running => Inner)

-------------------------------------------------------------------------------
(* Counting in a mailbox.                                                   *)

LEMMA AskedSent ==
  ASSUME NEW M, NEW q \in Seq(M), NEW m \in M, NEW cmds, NEW c
  PROVE  /\ Asked(q, cmds, c) \in Nat
         /\ Asked(Append(q, m), cmds, c) =
              Asked(q, cmds, c) + (IF m.cmd \in cmds /\ m.from = c THEN 1 ELSE 0)
<1> DEFINE S == {x \in M : x.cmd \in cmds /\ x.from = c}
<1>1. Append(q, m) \in Seq(M)  BY LastSent
<1>2. \A r \in Seq(M) : Asked(r, cmds, c) = Cardinality(PlacesOf(r, S))
  <2>1. SUFFICES ASSUME NEW r \in Seq(M)
                 PROVE  {i \in DOMAIN r : r[i].cmd \in cmds /\ r[i].from = c} = PlacesOf(r, S)
    BY DEF Asked
  <2>2. \A i \in DOMAIN r : r[i] \in M  OBVIOUS
  <2> QED  BY <2>2 DEF PlacesOf
<1>3. m \in S <=> m.cmd \in cmds /\ m.from = c  OBVIOUS
<1> HIDE DEF S
<1>4. Cardinality(PlacesOf(q, S)) \in Nat  BY PlacesFinite
<1>5. Cardinality(PlacesOf(Append(q, m), S)) =
        Cardinality(PlacesOf(q, S)) + (IF m \in S THEN 1 ELSE 0)
  BY PlacesAppend
<1> QED  BY <1>1, <1>2, <1>3, <1>4, <1>5

LEMMA AskedTaken ==
  ASSUME NEW M, NEW q \in Seq(M), q # <<>>, NEW cmds, NEW c
  PROVE  /\ Asked(Tail(q), cmds, c) \in Nat
         /\ Asked(q, cmds, c) = Asked(Tail(q), cmds, c)
              + (IF Head(q).cmd \in cmds /\ Head(q).from = c THEN 1 ELSE 0)
<1> DEFINE S == {x \in M : x.cmd \in cmds /\ x.from = c}
<1>1. Tail(q) \in Seq(M) /\ Head(q) \in M  BY FirstTaken
<1>2. \A r \in Seq(M) : Asked(r, cmds, c) = Cardinality(PlacesOf(r, S))
  <2>1. SUFFICES ASSUME NEW r \in Seq(M)
                 PROVE  {i \in DOMAIN r : r[i].cmd \in cmds /\ r[i].from = c} = PlacesOf(r, S)
    BY DEF Asked
  <2>2. \A i \in DOMAIN r : r[i] \in M  OBVIOUS
  <2> QED  BY <2>2 DEF PlacesOf
<1>3. Head(q) \in S <=> Head(q).cmd \in cmds /\ Head(q).from = c  BY <1>1
<1> HIDE DEF S
<1>4. Cardinality(PlacesOf(Tail(q), S)) \in Nat  BY <1>1, PlacesFinite
<1>5. Cardinality(PlacesOf(q, S)) =
        Cardinality(PlacesOf(Tail(q), S)) + (IF Head(q) \in S THEN 1 ELSE 0)
  BY PlacesTail
<1> QED  BY <1>1, <1>2, <1>3, <1>4, <1>5

LEMMA AskedNone ==
  ASSUME NEW cmds, NEW c
  PROVE  Asked(<<>>, cmds, c) = 0
<1>1. {i \in DOMAIN <<>> : <<>>[i].cmd \in cmds /\ <<>>[i].from = c} = {}
  OBVIOUS
<1> QED  BY <1>1, FS_EmptySet DEF Asked

LEMMA AskedNat ==
  ASSUME NEW M, NEW q \in Seq(M), NEW cmds, NEW c
  PROVE  Asked(q, cmds, c) \in Nat
<1>1. q = <<>> \/ (q # <<>> /\ Head(q) \in M)  BY FirstTaken
<1> QED  BY <1>1, AskedNone, AskedSent

LEMMA AddressedSent ==
  ASSUME NEW M, NEW q \in Seq(M), NEW m \in M, NEW msg, NEW d
  PROVE  /\ Addressed(q, msg, d) \in Nat
         /\ Addressed(Append(q, m), msg, d) =
              Addressed(q, msg, d) + (IF m.msg = msg /\ m.asker = d THEN 1 ELSE 0)
<1> DEFINE S == {x \in M : x.msg = msg /\ x.asker = d}
<1>1. Append(q, m) \in Seq(M)  BY LastSent
<1>2. \A r \in Seq(M) : Addressed(r, msg, d) = Cardinality(PlacesOf(r, S))
  <2>1. SUFFICES ASSUME NEW r \in Seq(M)
                 PROVE  {i \in DOMAIN r : r[i].msg = msg /\ r[i].asker = d} = PlacesOf(r, S)
    BY DEF Addressed
  <2>2. \A i \in DOMAIN r : r[i] \in M  OBVIOUS
  <2> QED  BY <2>2 DEF PlacesOf
<1>3. m \in S <=> m.msg = msg /\ m.asker = d  OBVIOUS
<1> HIDE DEF S
<1>4. Cardinality(PlacesOf(q, S)) \in Nat  BY PlacesFinite
<1>5. Cardinality(PlacesOf(Append(q, m), S)) =
        Cardinality(PlacesOf(q, S)) + (IF m \in S THEN 1 ELSE 0)
  BY PlacesAppend
<1> QED  BY <1>1, <1>2, <1>3, <1>4, <1>5

LEMMA AddressedTaken ==
  ASSUME NEW M, NEW q \in Seq(M), q # <<>>, NEW msg, NEW d
  PROVE  /\ Addressed(Tail(q), msg, d) \in Nat
         /\ Addressed(q, msg, d) = Addressed(Tail(q), msg, d)
              + (IF Head(q).msg = msg /\ Head(q).asker = d THEN 1 ELSE 0)
<1> DEFINE S == {x \in M : x.msg = msg /\ x.asker = d}
<1>1. Tail(q) \in Seq(M) /\ Head(q) \in M  BY FirstTaken
<1>2. \A r \in Seq(M) : Addressed(r, msg, d) = Cardinality(PlacesOf(r, S))
  <2>1. SUFFICES ASSUME NEW r \in Seq(M)
                 PROVE  {i \in DOMAIN r : r[i].msg = msg /\ r[i].asker = d} = PlacesOf(r, S)
    BY DEF Addressed
  <2>2. \A i \in DOMAIN r : r[i] \in M  OBVIOUS
  <2> QED  BY <2>2 DEF PlacesOf
<1>3. Head(q) \in S <=> Head(q).msg = msg /\ Head(q).asker = d  BY <1>1
<1> HIDE DEF S
<1>4. Cardinality(PlacesOf(Tail(q), S)) \in Nat  BY <1>1, PlacesFinite
<1>5. Cardinality(PlacesOf(q, S)) =
        Cardinality(PlacesOf(Tail(q), S)) + (IF Head(q) \in S THEN 1 ELSE 0)
  BY PlacesTail
<1> QED  BY <1>1, <1>2, <1>3, <1>4, <1>5

LEMMA AddressedNone ==
  ASSUME NEW msg, NEW d
  PROVE  Addressed(<<>>, msg, d) = 0
<1>1. {i \in DOMAIN <<>> : <<>>[i].msg = msg /\ <<>>[i].asker = d} = {}  OBVIOUS
<1> QED  BY <1>1, FS_EmptySet DEF Addressed

LEMMA AddressedSome ==
  ASSUME NEW M, NEW q \in Seq(M), NEW msg, NEW d,
         \A i \in DOMAIN q : q[i].msg # msg
  PROVE  Addressed(q, msg, d) = 0
<1>1. {i \in DOMAIN q : q[i].msg = msg /\ q[i].asker = d} = {}  OBVIOUS
<1> QED  BY <1>1, FS_EmptySet DEF Addressed

-------------------------------------------------------------------------------
(* The turns of a session are those of Turns with one monster: what is proved  *)
(* of these in TurnsProofs holds of them.                                  *)
LEMMA SameTurns ==
  /\ T!StartTurn = TP!StartTurn
  /\ T!Turn = TP!Turn
  /\ \A t : T!Active(t) = TP!Active(t)
  /\ \A t : T!HasActive(t) <=> TP!HasActive(t)
  /\ T!Players = TP!Players
<1>1. T!StartTurn = TP!StartTurn
  BY DEF T!StartTurn, TP!StartTurn, T!Peers!WithItems, TP!Peers!WithItems,
         T!Line!WithItems, TP!Line!WithItems, T!Peers!Slots, TP!Peers!Slots,
         T!Line!Slots, TP!Line!Slots, T!Peers!Enable, TP!Peers!Enable,
         T!Line!Enable, TP!Line!Enable
<1>2. T!Turn = TP!Turn
  BY DEF T!Turn, TP!Turn, T!Peers!Window, TP!Peers!Window, T!Line!Window,
         TP!Line!Window, T!Peers!Slots, TP!Peers!Slots, T!Line!Slots,
         TP!Line!Slots, T!Phases, TP!Phases
<1>3. \A t : T!Active(t) = TP!Active(t)  BY DEF T!Active, TP!Active
<1>4. \A t : T!HasActive(t) <=> TP!HasActive(t)
  BY DEF T!HasActive, TP!HasActive
<1>5. T!Players = TP!Players  BY DEF T!Players, TP!Players
<1> QED  BY <1>1, <1>2, <1>3, <1>4, <1>5

LEMMA SameSwitch ==
  ASSUME NEW t
  PROVE  T!SwitchToNextPlayer(t) = TP!SwitchToNextPlayer(t)
BY DEF T!SwitchToNextPlayer, TP!SwitchToNextPlayer, T!NextPhase,
       TP!NextPhase, T!NextPeers, TP!NextPeers, T!EndsCycle, TP!EndsCycle,
       T!WasLast, TP!WasLast, T!Finished, TP!Finished, T!Active, TP!Active,
       T!Peers!NextActives, TP!Peers!NextActives, T!Peers!EndOfItems,
       TP!Peers!EndOfItems, T!Peers!Eof, TP!Peers!Eof,
       T!Peers!RepeatAfterEof, TP!Peers!RepeatAfterEof,
       T!Peers!DeactivateByIndex, TP!Peers!DeactivateByIndex,
       T!Peers!Exhausted, TP!Peers!Exhausted, T!Peers!NextIndex,
       TP!Peers!NextIndex, T!Peers!Holders, TP!Peers!Holders, T!Peers!First,
       TP!Peers!First, T!Peers!Slots, TP!Peers!Slots, T!Peers!Enable,
       TP!Peers!Enable, T!Peers!Disable, TP!Peers!Disable, T!Peers!Restarted,
       TP!Peers!Restarted, T!Line!NextActives, TP!Line!NextActives,
       T!Line!Exhausted, TP!Line!Exhausted, T!Line!NextIndex,
       TP!Line!NextIndex, T!Line!Slots, TP!Line!Slots, T!Line!Enable,
       TP!Line!Enable

-------------------------------------------------------------------------------
(* Players, connections and turns.                                          *)

LEMMA ConnFacts ==
  /\ Players = 0 .. (PlayerCount - 1) /\ 0 \in Players
  /\ NoConn \notin Conns
  /\ \A c \in Conns : Owner(c) \in Players /\ Owner(c) \in Nat
                      /\ Owner(c) # NoName /\ Owner(c) # Pending
  /\ StartConns \subseteq Conns
  /\ \A p \in Players : First1(p) \in Conns /\ Owner(First1(p)) = p
<1>1. /\ Players = 0 .. (PlayerCount - 1)
      /\ PlayerCount \in Nat \ {0} /\ MaxConns \in Nat \ {0}
  BY SessionAssumption DEF Players, T!Players
<1>2. 0 \in Players /\ -1 \notin Players /\ -2 \notin Players /\ Players \subseteq Nat
  BY <1>1
<1>3. \A c \in Conns : c[1] \in Players  BY DEF Conns
<1>4. NoConn \notin Conns  BY <1>2, <1>3 DEF NoConn, NoName
<1>5. \A p \in Players : First1(p) \in Conns /\ Owner(First1(p)) = p
  BY <1>1 DEF First1, Conns, Owner
<1> QED  BY <1>1, <1>2, <1>3, <1>4, <1>5 DEF Owner, NoName, Pending, StartConns

LEMMA TurnsAssumptions == TP!PlayerCountAssumption /\ TP!DeckAssumption
BY SessionAssumption DEF TP!PlayerCountAssumption, TP!DeckAssumption

LEMMA ActiveFacts ==
  ASSUME TypeOK, T!HasActive(turn)
  PROVE  T!Active(turn) \in Players
<1>1. turn \in TP!Turn /\ TP!HasActive(turn)  BY SameTurns DEF TypeOK
<1>2. TP!Active(turn) \in TP!Players  BY <1>1, TurnsAssumptions, TP!SwitchFacts
<1> QED  BY <1>2, SameTurns DEF Players

LEMMA SwitchFacts ==
  ASSUME TypeOK, T!HasActive(turn)
  PROVE  /\ T!SwitchToNextPlayer(turn) \in T!Turn
         /\ T!HasActive(T!SwitchToNextPlayer(turn))
         /\ T!Active(T!SwitchToNextPlayer(turn)) \in Players
<1>1. turn \in TP!Turn /\ TP!HasActive(turn)  BY SameTurns DEF TypeOK
<1>2. /\ TP!SwitchToNextPlayer(turn) \in TP!Turn
      /\ TP!HasActive(TP!SwitchToNextPlayer(turn))
      /\ TP!Active(TP!SwitchToNextPlayer(turn)) \in TP!Players
  BY <1>1, TurnsAssumptions, TP!SwitchFacts
<1> QED  BY <1>2, SameTurns, SameSwitch DEF Players

(* Where what is taken from the mailboxes comes from. *)
LEMMA HeadFacts ==
  ASSUME TypeOK
  PROVE  /\ gq # <<>> => Head(gq) \in Requests /\ Tail(gq) \in Seq(Requests)
                         /\ Head(gq).from \in Conns
                         /\ Head(gq).arg \in Conns \cup {NoConn}
                         /\ Head(gq).cmd \in Commands
         /\ iq # <<>> => Head(iq) \in IntroCommands /\ Tail(iq) \in Seq(IntroCommands)
                         /\ Head(iq).from \in Conns
         /\ \A c \in Conns : aq[c] # <<>> =>
              /\ Head(aq[c]) \in ActorMessages /\ Tail(aq[c]) \in Seq(ActorMessages)
              /\ Head(aq[c]).what \in Statuses \cup {Chat, Nothing}
              /\ Head(aq[c]).asker \in Conns \cup {NoConn}
         /\ \A p \in Players : slots[p].conn \in Conns /\ slots[p].online \in BOOLEAN
<1>1. gq \in Seq(Requests) /\ iq \in Seq(IntroCommands) /\ aq \in [Conns -> Seq(ActorMessages)]
      /\ slots \in [Players -> [conn : Conns, online : BOOLEAN]]
  BY DEF TypeOK
<1>2. gq # <<>> => Head(gq) \in Requests /\ Tail(gq) \in Seq(Requests)
  BY <1>1, FirstTaken
<1>3. iq # <<>> => Head(iq) \in IntroCommands /\ Tail(iq) \in Seq(IntroCommands)
  BY <1>1, FirstTaken
<1>4. \A c \in Conns : aq[c] # <<>> =>
        Head(aq[c]) \in ActorMessages /\ Tail(aq[c]) \in Seq(ActorMessages)
  BY <1>1, FirstTaken
<1>5. gq # <<>> => /\ Head(gq).from \in Conns /\ Head(gq).arg \in Conns \cup {NoConn}
                   /\ Head(gq).cmd \in Commands
  BY <1>2 DEF Requests
<1>6. iq # <<>> => Head(iq).from \in Conns  BY <1>3 DEF IntroCommands
<1>7. \A c \in Conns : aq[c] # <<>> =>
        /\ Head(aq[c]).what \in Statuses \cup {Chat, Nothing}
        /\ Head(aq[c]).asker \in Conns \cup {NoConn}
  BY <1>4 DEF ActorMessages
<1> QED  BY <1>1, <1>2, <1>3, <1>4, <1>5, <1>6, <1>7

(* A command at the head of the game server's mailbox is one that is counted. *)
LEMMA HeadAsked ==
  ASSUME TypeOK, gq # <<>>, NEW cmds, Head(gq).cmd \in cmds
  PROVE  Asked(gq, cmds, Head(gq).from) >= 1
<1>1. gq \in Seq(Requests)  BY DEF TypeOK
<1> DEFINE c == Head(gq).from
<1>2. /\ Asked(Tail(gq), cmds, c) \in Nat
      /\ Asked(gq, cmds, c) = Asked(Tail(gq), cmds, c)
           + (IF Head(gq).cmd \in cmds /\ Head(gq).from = c THEN 1 ELSE 0)
  BY <1>1, AskedTaken
<1> QED  BY <1>2

LEMMA HeadAddressed ==
  ASSUME TypeOK, NEW c \in Conns, aq[c] # <<>>
  PROVE  Addressed(aq[c], Head(aq[c]).msg, Head(aq[c]).asker) >= 1
<1>1. aq[c] \in Seq(ActorMessages)  BY DEF TypeOK
<1> QED  BY <1>1, AddressedTaken

-------------------------------------------------------------------------------
(* What a step keeps.                                                       *)

Playing == Booting \cup Loop \cup {"refused"}
Alive   == Busy \cup {"boot"}

(* Connections that move about in the game or leave it, and living actors     *)
(* that go on or die.                                                      *)
GoesOn ==
  /\ \A d \in Conns : conn'[d] = conn[d]
                      \/ (conn[d].pc \in Playing /\ conn'[d].pc \in Playing \cup Over)
  /\ \A d \in Conns : actor'[d] = actor[d]
                      \/ (actor[d] \in Alive /\ actor'[d] \in Alive \cup {"dead"})

LEMMA SeatsGoOn ==
  ASSUME IInv, Inner, GoesOn, UNCHANGED <<slots, name, iwait, here>>
  PROVE  SeatOwners' /\ SeatKept' /\ NameKept' /\ SeatNamed'
<1>1. /\ \A p \in Players : slots[p].conn \in Conns
      /\ slots' = slots /\ name' = name /\ iwait' = iwait /\ here' = here
  BY HeadFacts DEF IInv
<1>2. SeatOwners'  BY <1>1 DEF IInv, SeatOwners
<1>3. SeatKept'
  BY <1>1 DEF Inner, SeatKept, GoesOn, Playing, Booting, Loop, Over, Alive, Busy
<1>4. NameKept'  BY <1>1 DEF Inner, NameKept
<1>5. SeatNamed'  BY <1>1 DEF Inner, SeatNamed, GoesOn, Alive, Busy, Open
<1> QED  BY <1>2, <1>3, <1>4, <1>5

LEMMA IntroGoesOn ==
  ASSUME IInv, Inner, GoesOn, UNCHANGED <<slots, name, iwait, here>>
  PROVE  Answers' /\ Seen' /\ HandingOver' /\ OneTaking' /\ HereKept'
<1>1. /\ slots' = slots /\ name' = name /\ iwait' = iwait /\ here' = here
      /\ here \subseteq Conns
  BY DEF IInv, TypeOK
<1>2. Answers'  BY <1>1 DEF Inner, Answers
<1>3. Seen'  BY <1>1 DEF Inner, Seen, Found, SeatOf
<1>4. HandingOver'
  <2>1. SUFFICES ASSUME iwait.op \in {"answer", "reconnect"}
                 PROVE  HandingOver'
    BY <1>1 DEF HandingOver
  <2>2. iwait.from \in Conns /\ iwait.old \in Conns
    BY <2>1 DEF Inner, HandingOver, Answers
  <2>3. conn'[iwait.from] = conn[iwait.from]
        \/ (conn[iwait.from].pc \notin Taking /\ conn'[iwait.from].pc \notin Taking)
    BY <2>2 DEF GoesOn, Playing, Booting, Loop, Over, Taking
  <2>4. /\ actor[iwait.from] # "none" => actor'[iwait.from] # "none"
        /\ actor'[iwait.old] \notin {"none", "dead"} => actor[iwait.old] \notin {"none", "dead"}
    BY <2>2 DEF GoesOn, Alive, Busy
  <2> QED  BY <1>1, <2>1, <2>2, <2>3, <2>4 DEF Inner, HandingOver, Open, Taking
<1>5. OneTaking'
  BY <1>1 DEF Inner, OneTaking, GoesOn, Playing, Booting, Loop, Over, Taking
<1>6. HereKept'
  BY <1>1 DEF Inner, HereKept, SeatOf, GoesOn, Playing, Booting, Loop, Over
<1> QED  BY <1>2, <1>3, <1>4, <1>5, <1>6

LEMMA IntroMailGoesOn ==
  ASSUME IInv, Inner, GoesOn, UNCHANGED <<iwait, iq, entering>>
  PROVE  IntroMail'
<1>1. iwait' = iwait /\ iq' = iq /\ entering' = entering  OBVIOUS
<1>2. ASSUME NEW c \in Conns
      PROVE  /\ conn'[c].pc = "w_login" <=> conn[c].pc = "w_login"
             /\ conn'[c].pc \in {"entering", "ended"} /\ actor'[c] = "none"
                  <=> conn[c].pc \in {"entering", "ended"} /\ actor[c] = "none"
             /\ conn[c].pc \in Over => conn'[c].pc \in Over
  <2>1. conn[c].pc \in Playing => actor[c] # "none"
    BY DEF Inner, ActorOfConn, Playing, Booting, Busy
  <2>2. actor'[c] = "none" <=> actor[c] = "none"  BY DEF GoesOn, Alive, Busy
  <2> QED  BY <2>1, <2>2 DEF GoesOn, Playing, Booting, Loop, Over
<1>3. \A c \in Conns : Asked(iq, {"DropPeer"}, c) \in Nat
  <2>1. iq \in Seq(IntroCommands)  BY DEF IInv, TypeOK
  <2> QED  BY <2>1, AskedNat
<1>4. ASSUME NEW c \in Conns
      PROVE  Asked(iq, {"DropPeer"}, c) <= OneIf(conn'[c].pc \in Over)
  BY <1>2, <1>3 DEF Inner, IntroMail, IntroMailOf, OneIf
<1> QED  BY <1>1, <1>2, <1>4 DEF Inner, IntroMail, IntroMailOf, OneIf

LEMMA TakeKept ==
  ASSUME Inner, GoesOn, UNCHANGED iwait
  PROVE  \A x, d : (iwait.op = "answer" /\ iwait.old = x /\ iwait.from = d
                      /\ conn[iwait.from].pc = "w_take")'
                  <=> (iwait.op = "answer" /\ iwait.old = x /\ iwait.from = d
                      /\ conn[iwait.from].pc = "w_take")
BY DEF Inner, Answers, GoesOn, Playing, Booting, Loop, Over

LEMMA ServerWaitSent ==
  ASSUME IInv, Inner, NEW m \in Requests, gq' = Append(gq, m), UNCHANGED <<gwait, slots>>
  PROVE  ServerWait'
<1>1. gq \in Seq(Requests)  BY DEF IInv, TypeOK
<1>2. gq # <<>> => gq' # <<>> /\ Head(gq') = Head(gq)  BY <1>1
<1> QED  BY <1>2 DEF Inner, ServerWait, SeatOf

LEMMA ServerWaitIdle ==
  ASSUME gwait.op = "idle", UNCHANGED gwait
  PROVE  ServerWait'
BY DEF ServerWait

IntroCmds == {"GetPeerIdByName", "IsPeerConnected", "GetPeerHandleByUsername", "ReconnectPeer"}

LEMMA LobbyMailSent ==
  ASSUME IInv, Inner, NEW m \in Requests, m.cmd \notin IntroCmds,
         gq' = Append(gq, m), UNCHANGED iwait
  PROVE  LobbyMail'
<1>1. gq \in Seq(Requests)  BY DEF IInv, TypeOK
<1>2. \A cmd \in IntroCmds : \A c \in Conns : Asked(gq', {cmd}, c) = Asked(gq, {cmd}, c)
  BY <1>1, AskedSent DEF IntroCmds
<1>3. \A i \in DOMAIN gq' : gq'[i].cmd \in {"IsPeerConnected", "ReconnectPeer"}
                              => i \in DOMAIN gq /\ gq'[i] = gq[i]
  BY <1>1, LastSent DEF IntroCmds
<1> QED  BY <1>2, <1>3 DEF Inner, LobbyMail, IntroAsks, OneIf, IntroCmds

LEMMA LobbyMailTaken ==
  ASSUME IInv, Inner, gq # <<>>, Head(gq).cmd \notin IntroCmds,
         gq' = Tail(gq), UNCHANGED iwait
  PROVE  LobbyMail'
<1>1. gq \in Seq(Requests)  BY DEF IInv, TypeOK
<1>2. ASSUME NEW cmd \in IntroCmds, NEW c \in Conns
      PROVE  Asked(gq', {cmd}, c) = Asked(gq, {cmd}, c)
  <2>1. /\ Asked(Tail(gq), {cmd}, c) \in Nat
        /\ Asked(gq, {cmd}, c) = Asked(Tail(gq), {cmd}, c)
             + (IF Head(gq).cmd \in {cmd} /\ Head(gq).from = c THEN 1 ELSE 0)
    BY <1>1, AskedTaken
  <2> QED  BY <2>1
<1>3. \A i \in DOMAIN gq' : i + 1 \in DOMAIN gq /\ gq'[i] = gq[i + 1]
  BY <1>1, FirstTaken
<1> QED  BY <1>2, <1>3 DEF Inner, LobbyMail, IntroAsks, OneIf, IntroCmds

-------------------------------------------------------------------------------
(* The mailboxes after one message.                                         *)

LEMMA AskedAfterSend ==
  ASSUME TypeOK, NEW m \in Requests, gq' = Append(gq, m)
  PROVE  /\ gq' \in Seq(Requests)
         /\ \A cmds, d : Asked(gq', cmds, d) = Asked(gq, cmds, d)
              + (IF m.cmd \in cmds /\ m.from = d THEN 1 ELSE 0)
         /\ \A cmds, d : Asked(gq, cmds, d) \in Nat
<1>1. gq \in Seq(Requests)  BY DEF TypeOK
<1> QED  BY <1>1, AskedSent, LastSent

LEMMA AskedAfterTake ==
  ASSUME TypeOK, gq # <<>>, gq' = Tail(gq)
  PROVE  /\ gq' \in Seq(Requests)
         /\ \A cmds, d : Asked(gq, cmds, d) = Asked(gq', cmds, d)
              + (IF Head(gq).cmd \in cmds /\ Head(gq).from = d THEN 1 ELSE 0)
         /\ \A cmds, d : Asked(gq', cmds, d) \in Nat
<1>1. gq \in Seq(Requests)  BY DEF TypeOK
<1>2. ASSUME NEW cmds, NEW d
      PROVE  /\ Asked(Tail(gq), cmds, d) \in Nat
             /\ Asked(gq, cmds, d) = Asked(Tail(gq), cmds, d)
                  + (IF Head(gq).cmd \in cmds /\ Head(gq).from = d THEN 1 ELSE 0)
  BY <1>1, AskedTaken
<1> QED  BY <1>1, <1>2, FirstTaken

LEMMA ToldAfterSend ==
  ASSUME TypeOK, NEW m \in IntroCommands, iq' = Append(iq, m)
  PROVE  /\ iq' \in Seq(IntroCommands)
         /\ \A cmds, d : Asked(iq', cmds, d) = Asked(iq, cmds, d)
              + (IF m.cmd \in cmds /\ m.from = d THEN 1 ELSE 0)
         /\ \A cmds, d : Asked(iq, cmds, d) \in Nat
<1>1. iq \in Seq(IntroCommands)  BY DEF TypeOK
<1> QED  BY <1>1, AskedSent, LastSent

LEMMA ToldAfterTake ==
  ASSUME TypeOK, iq # <<>>, iq' = Tail(iq)
  PROVE  /\ iq' \in Seq(IntroCommands)
         /\ \A cmds, d : Asked(iq, cmds, d) = Asked(iq', cmds, d)
              + (IF Head(iq).cmd \in cmds /\ Head(iq).from = d THEN 1 ELSE 0)
         /\ \A cmds, d : Asked(iq', cmds, d) \in Nat
<1>1. iq \in Seq(IntroCommands)  BY DEF TypeOK
<1>2. ASSUME NEW cmds, NEW d
      PROVE  /\ Asked(Tail(iq), cmds, d) \in Nat
             /\ Asked(iq, cmds, d) = Asked(Tail(iq), cmds, d)
                  + (IF Head(iq).cmd \in cmds /\ Head(iq).from = d THEN 1 ELSE 0)
  BY <1>1, AskedTaken
<1> QED  BY <1>1, <1>2, FirstTaken

(* Of the messages for which someone waits, r holds those of q and m. *)
OneMoreTo(r, q, m, d) ==
  /\ Addressed(r, "Move", d) = Addressed(q, "Move", d)
       + OneIf(m.msg = "Move" /\ m.asker = d)
  /\ Addressed(r, "GetUsername", d) = Addressed(q, "GetUsername", d)
       + OneIf(m.msg = "GetUsername" /\ m.asker = d)
  /\ Addressed(r, "TakePeer", d) = Addressed(q, "TakePeer", d)
       + OneIf(m.msg = "TakePeer" /\ m.asker = d)
  /\ Addressed(q, "Move", d) \in Nat /\ Addressed(q, "GetUsername", d) \in Nat
  /\ Addressed(q, "TakePeer", d) \in Nat

(* ... or the same. *)
SameFor(r, q, d) ==
  /\ Addressed(r, "Move", d) = Addressed(q, "Move", d)
  /\ Addressed(r, "GetUsername", d) = Addressed(q, "GetUsername", d)
  /\ Addressed(r, "TakePeer", d) = Addressed(q, "TakePeer", d)
SameAsks == \A x \in Conns : \A d : SameFor(aq'[x], aq[x], d)

(* One message into one mailbox, out of one, a mailbox dropped. *)
LEMMA PutFacts ==
  ASSUME TypeOK, NEW x \in Conns, NEW m \in ActorMessages,
         aq' = [aq EXCEPT ![x] = Append(@, m)]
  PROVE  /\ aq' \in [Conns -> Seq(ActorMessages)]
         /\ \A d : OneMoreTo(aq'[x], aq[x], m, d)
         /\ \A y \in Conns : y # x => aq'[y] = aq[y]
<1>1. /\ aq \in [Conns -> Seq(ActorMessages)] /\ aq[x] \in Seq(ActorMessages)
      /\ aq'[x] = Append(aq[x], m) /\ \A y \in Conns : y # x => aq'[y] = aq[y]
  BY DEF TypeOK
<1>2. ASSUME NEW msg, NEW d
      PROVE  /\ Addressed(aq'[x], msg, d) = Addressed(aq[x], msg, d)
                  + (IF m.msg = msg /\ m.asker = d THEN 1 ELSE 0)
             /\ Addressed(aq[x], msg, d) \in Nat
  BY <1>1, AddressedSent
<1>3. Append(aq[x], m) \in Seq(ActorMessages)  BY <1>1, LastSent
<1>4. aq' \in [Conns -> Seq(ActorMessages)]  BY <1>1, <1>3
<1>5. \A d : OneMoreTo(aq'[x], aq[x], m, d)  BY <1>2 DEF OneMoreTo, OneIf
<1> QED  BY <1>1, <1>4, <1>5

LEMMA PopFacts ==
  ASSUME TypeOK, NEW x \in Conns, aq[x] # <<>>, aq' = [aq EXCEPT ![x] = Tail(@)]
  PROVE  /\ aq' \in [Conns -> Seq(ActorMessages)]
         /\ \A d : OneMoreTo(aq[x], aq'[x], Head(aq[x]), d)
         /\ \A y \in Conns : y # x => aq'[y] = aq[y]
<1>1. /\ aq \in [Conns -> Seq(ActorMessages)] /\ aq[x] \in Seq(ActorMessages)
      /\ aq'[x] = Tail(aq[x]) /\ \A y \in Conns : y # x => aq'[y] = aq[y]
  BY DEF TypeOK
<1>2. ASSUME NEW msg, NEW d
      PROVE  /\ Addressed(aq[x], msg, d) = Addressed(aq'[x], msg, d)
                  + (IF Head(aq[x]).msg = msg /\ Head(aq[x]).asker = d THEN 1 ELSE 0)
             /\ Addressed(aq'[x], msg, d) \in Nat
  BY <1>1, AddressedTaken
<1>3. Tail(aq[x]) \in Seq(ActorMessages)  BY <1>1, FirstTaken
<1>4. aq' \in [Conns -> Seq(ActorMessages)]  BY <1>1, <1>3
<1>5. \A d : OneMoreTo(aq[x], aq'[x], Head(aq[x]), d)
  BY <1>2 DEF OneMoreTo, OneIf
<1> QED  BY <1>1, <1>4, <1>5

LEMMA DropFacts ==
  ASSUME TypeOK, NEW x \in Conns, aq' = [aq EXCEPT ![x] = <<>>]
  PROVE  /\ aq' \in [Conns -> Seq(ActorMessages)]
         /\ \A msg, d : Addressed(aq'[x], msg, d) = 0
         /\ \A y \in Conns : y # x => aq'[y] = aq[y]
<1>1. /\ aq \in [Conns -> Seq(ActorMessages)]
      /\ aq'[x] = <<>> /\ \A y \in Conns : y # x => aq'[y] = aq[y]
  BY DEF TypeOK
<1>2. aq' \in [Conns -> Seq(ActorMessages)]  BY <1>1
<1> QED  BY <1>1, <1>2, AddressedNone

(* Messages for clients and synchronisations are for no one who waits. *)
Counted == {"Move", "GetUsername", "TakePeer"}

LEMMA SameCounts ==
  ASSUME TypeOK, UNCHANGED aq
  PROVE  SameAsks
BY DEF SameAsks, SameFor

LEMMA PutSame ==
  ASSUME TypeOK, NEW x \in Conns, NEW m \in ActorMessages, m.msg \notin Counted,
         aq' = [aq EXCEPT ![x] = Append(@, m)]
  PROVE  SameAsks
<1>1. /\ \A d : OneMoreTo(aq'[x], aq[x], m, d)
      /\ \A y \in Conns : y # x => aq'[y] = aq[y]
  BY PutFacts
<1>2. \A d : SameFor(aq'[x], aq[x], d)
  BY <1>1 DEF OneMoreTo, SameFor, OneIf, Counted
<1>3. \A y \in Conns : y # x => \A d : SameFor(aq'[y], aq[y], d)
  BY <1>1 DEF SameFor
<1> QED  BY <1>2, <1>3 DEF SameAsks

LEMMA PopSame ==
  ASSUME TypeOK, NEW x \in Conns, aq[x] # <<>>, Head(aq[x]).msg \notin Counted,
         aq' = [aq EXCEPT ![x] = Tail(@)]
  PROVE  SameAsks
<1>1. /\ \A d : OneMoreTo(aq[x], aq'[x], Head(aq[x]), d)
      /\ \A y \in Conns : y # x => aq'[y] = aq[y]
  BY PopFacts
<1>2. \A d : SameFor(aq'[x], aq[x], d)
  BY <1>1 DEF OneMoreTo, SameFor, OneIf, Counted
<1>3. \A y \in Conns : y # x => \A d : SameFor(aq'[y], aq[y], d)
  BY <1>1 DEF SameFor
<1> QED  BY <1>2, <1>3 DEF SameAsks

LEMMA PostFacts ==
  ASSUME NEW q \in [Conns -> Seq(ActorMessages)], NEW C,
         NEW m \in ActorMessages, m.msg \notin Counted
  PROVE  /\ Post(q, C, m) \in [Conns -> Seq(ActorMessages)]
         /\ \A y \in Conns : \A d : SameFor(Post(q, C, m)[y], q[y], d)
<1>1. \A y \in Conns : q[y] \in Seq(ActorMessages)  OBVIOUS
<1>2. \A y \in Conns : Append(q[y], m) \in Seq(ActorMessages)  BY <1>1, LastSent
<1>3. \A y \in Conns : Post(q, C, m)[y] = q[y] \/ Post(q, C, m)[y] = Append(q[y], m)
  BY DEF Post
<1>4. Post(q, C, m) \in [Conns -> Seq(ActorMessages)]  BY <1>1, <1>2 DEF Post
<1>5. ASSUME NEW y \in Conns, NEW d
      PROVE  SameFor(Append(q[y], m), q[y], d)
  <2>1. ASSUME NEW msg
        PROVE  /\ Addressed(q[y], msg, d) \in Nat
               /\ Addressed(Append(q[y], m), msg, d) =
                    Addressed(q[y], msg, d) + (IF m.msg = msg /\ m.asker = d THEN 1 ELSE 0)
    BY <1>1, AddressedSent
  <2> QED  BY <2>1 DEF SameFor, Counted
<1>6. \A y \in Conns : \A d : SameFor(q[y], q[y], d)  BY DEF SameFor
<1> QED  BY <1>3, <1>4, <1>5, <1>6

(* What messages are made of. *)
LEMMA MessageFacts ==
  /\ \A s \in Statuses \cup {Chat} :
       SendTcp(s) \in ActorMessages /\ SendTcp(s).msg = "SendTcp" /\ SendTcp(s).what = s
  /\ SyncWithClient \in ActorMessages /\ SyncWithClient.msg = "SyncWithClient"
  /\ \A k \in Phases \cup {Nothing}, c \in Conns :
       Move(k, c) \in ActorMessages /\ Move(k, c).msg = "Move"
       /\ Move(k, c).asker = c /\ Move(k, c).what = k
  /\ \A c \in Conns \cup {NoConn} :
       /\ GetUsername(c) \in ActorMessages /\ GetUsername(c).msg = "GetUsername"
       /\ GetUsername(c).asker = c
  /\ \A c \in Conns :
       TakePeer(c) \in ActorMessages /\ TakePeer(c).msg = "TakePeer" /\ TakePeer(c).asker = c
  /\ \A cmd \in Commands, c \in Conns, a \in Conns \cup {NoConn} :
       /\ Request(cmd, c, a) \in Requests /\ Request(cmd, c, a).cmd = cmd
       /\ Request(cmd, c, a).from = c /\ Request(cmd, c, a).arg = a
  /\ \A cmd \in Commands, c \in Conns :
       /\ Command(cmd, c) \in Requests /\ Command(cmd, c).cmd = cmd
       /\ Command(cmd, c).from = c /\ Command(cmd, c).arg = NoConn
  /\ \A cmd \in {"LoginPlayer", "EnterGame", "DropPeer"}, c \in Conns :
       /\ IntroCommand(cmd, c) \in IntroCommands
       /\ IntroCommand(cmd, c).cmd = cmd /\ IntroCommand(cmd, c).from = c
<1>1. \A s \in Statuses \cup {Chat} :
        SendTcp(s) \in ActorMessages /\ SendTcp(s).msg = "SendTcp" /\ SendTcp(s).what = s
  BY DEF SendTcp, ToActor, ActorMessages
<1>2. SyncWithClient \in ActorMessages /\ SyncWithClient.msg = "SyncWithClient"
  BY DEF SyncWithClient, ToActor, ActorMessages
<1>3. \A k \in Phases \cup {Nothing}, c \in Conns :
        Move(k, c) \in ActorMessages /\ Move(k, c).msg = "Move"
        /\ Move(k, c).asker = c /\ Move(k, c).what = k
  BY DEF Move, ToActor, ActorMessages, Statuses
<1>4. \A c \in Conns \cup {NoConn} :
        /\ GetUsername(c) \in ActorMessages /\ GetUsername(c).msg = "GetUsername"
        /\ GetUsername(c).asker = c
  BY DEF GetUsername, ToActor, ActorMessages
<1>5. \A c \in Conns :
        TakePeer(c) \in ActorMessages /\ TakePeer(c).msg = "TakePeer" /\ TakePeer(c).asker = c
  BY DEF TakePeer, ToActor, ActorMessages
<1>6. \A cmd \in Commands, c \in Conns, a \in Conns \cup {NoConn} :
        /\ Request(cmd, c, a) \in Requests /\ Request(cmd, c, a).cmd = cmd
        /\ Request(cmd, c, a).from = c /\ Request(cmd, c, a).arg = a
  BY DEF Request, Requests
<1>7. \A cmd \in Commands, c \in Conns :
        /\ Command(cmd, c) \in Requests /\ Command(cmd, c).cmd = cmd
        /\ Command(cmd, c).from = c /\ Command(cmd, c).arg = NoConn
  BY <1>6 DEF Command
<1>8. \A cmd \in {"LoginPlayer", "EnterGame", "DropPeer"}, c \in Conns :
        /\ IntroCommand(cmd, c) \in IntroCommands
        /\ IntroCommand(cmd, c).cmd = cmd /\ IntroCommand(cmd, c).from = c
  BY DEF IntroCommand, IntroCommands
<1> QED  BY <1>1, <1>2, <1>3, <1>4, <1>5, <1>6, <1>7, <1>8

LEMMA EndPlaces == "ended" \in ConnPlaces /\ "failed" \in ConnPlaces
BY DEF ConnPlaces, Over

(* A connection that goes to another place and keeps what it knows. *)
LEMMA GotoFacts ==
  ASSUME TypeOK, NEW c \in Conns, NEW pc \in ConnPlaces,
         conn' = [conn EXCEPT ![c].pc = pc]
  PROVE  /\ conn' \in [Conns -> [pc : ConnPlaces, val : Conns \cup {NoConn},
                                 move : Phases \cup {Nothing}]]
         /\ conn'[c].pc = pc /\ conn'[c].val = conn[c].val /\ conn'[c].move = conn[c].move
         /\ \A d \in Conns : d # c => conn'[d] = conn[d]
<1>1. conn \in [Conns -> [pc : ConnPlaces, val : Conns \cup {NoConn},
                          move : Phases \cup {Nothing}]]
  BY DEF TypeOK
<1>2. conn[c] \in [pc : ConnPlaces, val : Conns \cup {NoConn}, move : Phases \cup {Nothing}]
  BY <1>1
<1>3. conn' = [conn EXCEPT ![c] = [conn[c] EXCEPT !.pc = pc]]  OBVIOUS
<1>4. /\ [conn[c] EXCEPT !.pc = pc]
           \in [pc : ConnPlaces, val : Conns \cup {NoConn}, move : Phases \cup {Nothing}]
      /\ [conn[c] EXCEPT !.pc = pc].pc = pc
      /\ [conn[c] EXCEPT !.pc = pc].val = conn[c].val
      /\ [conn[c] EXCEPT !.pc = pc].move = conn[c].move
  BY <1>2
<1> QED  BY <1>1, <1>3, <1>4

-------------------------------------------------------------------------------
(* The types, task by task. *)
ServerTypes ==
  /\ turn \in T!Turn
  /\ slots \in [Players -> [conn : Conns, online : BOOLEAN]]
  /\ gq \in Seq(Requests)
  /\ gwait \in [op : Searches \cup {"idle", "GetPeerUsername", "DropPeer"},
                asked : Conns \cup {NoConn}, got : Names \cup {Pending},
                found : Conns \cup {NoConn}]
IntroTypes ==
  /\ lobby \subseteq Conns
  /\ here \subseteq lobby
  /\ entering \in Conns \cup {NoConn}
  /\ iq \in Seq(IntroCommands)
  /\ iwait \in [op : {"idle", "id", "connected", "handle", "answer", "reconnect"},
                from : Conns \cup {NoConn}, old : Conns \cup {NoConn},
                got : {Nothing, "some", "none", "online", "offline", "done"}]
ActorTypes ==
  /\ actor \in [Conns -> ActorStates]
  /\ name \in [Conns -> Names]
  /\ aq \in [Conns -> Seq(ActorMessages)]
ConnTypes ==
  /\ conn \in [Conns -> [pc : ConnPlaces, val : Conns \cup {NoConn},
                         move : Phases \cup {Nothing}]]
  /\ sock \in [Conns -> Seq(Statuses)]
ClientTypes ==
  /\ client \in [Conns -> {"none", "on", "off"}]
  /\ view \in [Conns -> Statuses]
  /\ presses \in [Conns -> 0 .. PressesPerTurn]
  /\ eager \in BOOLEAN
  /\ chats \in [Conns -> BOOLEAN]
  /\ cin \in [Conns -> Seq(Phases \cup {Chat})]

LEMMA TypeGroups ==
  ASSUME TypeOK
  PROVE  ServerTypes /\ IntroTypes /\ ActorTypes /\ ConnTypes /\ ClientTypes
BY DEF TypeOK, ServerTypes, IntroTypes, ActorTypes, ConnTypes, ClientTypes

LEMMA TypesNext ==
  ASSUME ServerTypes', IntroTypes', ActorTypes', ConnTypes', ClientTypes',
         crashed' \in {"no", "game", "intro", "over"}
  PROVE  TypeOK'
BY DEF TypeOK, ServerTypes, IntroTypes, ActorTypes, ConnTypes, ClientTypes

LEMMA SameTypes ==
  ASSUME TypeOK
  PROVE  /\ (UNCHANGED serverVars) => ServerTypes'
         /\ (UNCHANGED introVars) => IntroTypes'
         /\ (UNCHANGED actorVars) => ActorTypes'
         /\ (UNCHANGED connVars) => ConnTypes'
         /\ (UNCHANGED clientVars) => ClientTypes'
         /\ (UNCHANGED crashed) => crashed' \in {"no", "game", "intro", "over"}
<1>1. ServerTypes /\ IntroTypes /\ ActorTypes /\ ConnTypes /\ ClientTypes
  BY TypeGroups
<1>2. (UNCHANGED serverVars) => ServerTypes'
  BY <1>1 DEF ServerTypes, serverVars
<1>3. (UNCHANGED introVars) => IntroTypes'  BY <1>1 DEF IntroTypes, introVars
<1>4. (UNCHANGED actorVars) => ActorTypes'  BY <1>1 DEF ActorTypes, actorVars
<1>5. (UNCHANGED connVars) => ConnTypes'  BY <1>1 DEF ConnTypes, connVars
<1>6. (UNCHANGED clientVars) => ClientTypes'
  BY <1>1 DEF ClientTypes, clientVars
<1>7. (UNCHANGED crashed) => crashed' \in {"no", "game", "intro", "over"}
  BY DEF TypeOK
<1> QED  BY <1>2, <1>3, <1>4, <1>5, <1>6, <1>7

(* The counts of the requests of tasks: r is q and the message m of d. *)
OneMore(r, q, m, d) ==
  /\ Asked(r, {"GetActivePlayer"}, d) = Asked(q, {"GetActivePlayer"}, d)
       + OneIf(m.cmd = "GetActivePlayer" /\ m.from = d)
  /\ Asked(r, {"GetPeerUsername"}, d) = Asked(q, {"GetPeerUsername"}, d)
       + OneIf(m.cmd = "GetPeerUsername" /\ m.from = d)
  /\ Asked(r, {"Broadcast"}, d) = Asked(q, {"Broadcast"}, d)
       + OneIf(m.cmd = "Broadcast" /\ m.from = d)
  /\ Asked(r, {"GetMonsters"}, d) = Asked(q, {"GetMonsters"}, d)
       + OneIf(m.cmd = "GetMonsters" /\ m.from = d)
  /\ Asked(r, {"SwitchToNextPlayer"}, d) = Asked(q, {"SwitchToNextPlayer"}, d)
       + OneIf(m.cmd = "SwitchToNextPlayer" /\ m.from = d)
  /\ Asked(r, {"DropMonster", "ContinueGameCycle"}, d)
       = Asked(q, {"DropMonster", "ContinueGameCycle"}, d)
         + OneIf((m.cmd = "DropMonster" \/ m.cmd = "ContinueGameCycle") /\ m.from = d)
  /\ Asked(r, {"DropPeer"}, d) = Asked(q, {"DropPeer"}, d)
       + OneIf(m.cmd = "DropPeer" /\ m.from = d)
  /\ Asked(q, {"GetActivePlayer"}, d) \in Nat /\ Asked(q, {"GetPeerUsername"}, d) \in Nat
  /\ Asked(q, {"Broadcast"}, d) \in Nat /\ Asked(q, {"GetMonsters"}, d) \in Nat
  /\ Asked(q, {"SwitchToNextPlayer"}, d) \in Nat
  /\ Asked(q, {"DropMonster", "ContinueGameCycle"}, d) \in Nat
  /\ Asked(q, {"DropPeer"}, d) \in Nat

LEMMA SendCounts ==
  ASSUME TypeOK, NEW m \in Requests, gq' = Append(gq, m), NEW d
  PROVE  OneMore(gq', gq, m, d)
<1>1. /\ \A cmds : Asked(gq', cmds, d) = Asked(gq, cmds, d)
           + (IF m.cmd \in cmds /\ m.from = d THEN 1 ELSE 0)
      /\ \A cmds : Asked(gq, cmds, d) \in Nat
  BY AskedAfterSend
<1> QED  BY <1>1 DEF OneMore, OneIf

LEMMA TakeCounts ==
  ASSUME TypeOK, gq # <<>>, gq' = Tail(gq), NEW d
  PROVE  OneMore(gq, gq', Head(gq), d)
<1>1. /\ \A cmds : Asked(gq, cmds, d) = Asked(gq', cmds, d)
           + (IF Head(gq).cmd \in cmds /\ Head(gq).from = d THEN 1 ELSE 0)
      /\ \A cmds : Asked(gq', cmds, d) \in Nat
  BY AskedAfterTake
<1> QED  BY <1>1 DEF OneMore, OneIf

-------------------------------------------------------------------------------
(* Steps of the game's loop: no slot, login or reconnection is touched, and     *)
(* what is left to show is about turns and requests.                       *)

StaysOn ==
  /\ \A d \in Conns : \/ conn'[d] = conn[d]
                      \/ conn[d].pc \in Loop /\ conn'[d].pc \in Loop
                      \/ conn[d].pc \in Booting /\ conn'[d].pc \in Booting
  /\ \A d \in Conns : actor'[d] = actor[d] \/ (actor[d] \in Busy /\ actor'[d] \in Busy)

LEMMA StaysGoesOn == StaysOn => GoesOn
BY DEF StaysOn, GoesOn, Playing, Alive

LEMMA ActorsStay ==
  ASSUME Inner, StaysOn
  PROVE  ActorOfConn'
BY DEF Inner, ActorOfConn, StaysOn, Early, Taking, Booting, Loop, Busy

LEMMA MailKept ==
  ASSUME Inner, GoesOn, UNCHANGED iwait, SameAsks,
         \A x \in Conns : /\ conn'[x].pc = "w_move" <=> conn[x].pc = "w_move"
                          /\ conn'[x].pc = "w_chatname" <=> conn[x].pc = "w_chatname"
                          /\ MoveUnderWay(x)' <=> MoveUnderWay(x)
                          /\ ServerAsks(x)' <=> ServerAsks(x)
  PROVE  MoversWait' /\ ActorMail'
<1>1. MoversWait'  BY DEF Inner, MoversWait
<1>2. ASSUME NEW x \in Conns, NEW d \in Conns \cup {NoConn}
      PROVE  MailOf(x, d)'
  <2>1. MailOf(x, d) /\ SameFor(aq'[x], aq[x], d)
    BY DEF Inner, ActorMail, SameAsks
  <2> QED  BY <2>1, TakeKept DEF MailOf, SameFor, OneIf
<1> QED  BY <1>1, <1>2 DEF ActorMail

LEMMA OutOfTheGame ==
  ASSUME IInv, Inner, GoesOn, UNCHANGED <<slots, name, here, iwait>>,
         TypeOK', T!HasActive(turn'), ActorOfConn', ServerWait', TaskMail', LobbyMail',
         MoversWait', ActorMail', IntroMail', ActiveMoves'
  PROVE  IInv'
<1>1. SeatOwners' /\ SeatKept' /\ NameKept' /\ SeatNamed'  BY SeatsGoOn
<1>2. Answers' /\ Seen' /\ HandingOver' /\ OneTaking' /\ HereKept'
  BY IntroGoesOn
<1> QED  BY <1>1, <1>2 DEF IInv, Inner

LEMMA InTheGame ==
  ASSUME IInv, Inner, GoesOn, UNCHANGED <<slots, name, lobby, here, entering, iq, iwait>>,
         TypeOK', T!HasActive(turn'), ActorOfConn', ServerWait', TaskMail', LobbyMail',
         MoversWait', ActorMail', ActiveMoves'
  PROVE  IInv'
BY IntroMailGoesOn, OutOfTheGame
(* An actor that goes to another state. *)
LEMMA ActFacts ==
  ASSUME TypeOK, NEW c \in Conns, NEW st \in ActorStates,
         actor' = [actor EXCEPT ![c] = st]
  PROVE  /\ actor' \in [Conns -> ActorStates]
         /\ actor'[c] = st
         /\ \A d \in Conns : d # c => actor'[d] = actor[d]
BY DEF TypeOK

(* A request that has come from c, and why c waits. *)
LEMMA HeadTask ==
  ASSUME IInv, Inner, gq # <<>>
  PROVE  LET h == Head(gq).from
         IN  /\ h \in Conns
             /\ Head(gq).cmd = "GetActivePlayer" => conn[h].pc = "w_active"
             /\ Head(gq).cmd = "GetPeerUsername" => conn[h].pc = "w_name"
             /\ Head(gq).cmd = "Broadcast" => conn[h].pc = "w_chat"
             /\ Head(gq).cmd = "GetMonsters" =>
                  \/ conn[h].pc = "w_boot" /\ actor[h] = "boot"
                  \/ conn[h].pc # "w_boot" /\ actor[h] = "w_monsters"
             /\ Head(gq).cmd = "SwitchToNextPlayer" => actor[h] = "w_switch"
             /\ Head(gq).cmd \in {"DropMonster", "ContinueGameCycle"} => actor[h] = "w_monster"
             /\ Head(gq).cmd = "DropPeer" => conn[h].pc = "ended"
<1> DEFINE h == Head(gq).from
<1>1. TypeOK /\ h \in Conns /\ TaskMailOf(h) /\ ActorOfConn
  BY HeadFacts DEF IInv, Inner, TaskMail
<1>2. \A cmds : Head(gq).cmd \in cmds => Asked(gq, cmds, h) >= 1
  BY <1>1, HeadAsked
<1>3. \A cmds : Asked(gq, cmds, h) \in Nat  BY <1>1, AskedNat DEF TypeOK
<1>4. \A b \in BOOLEAN : OneIf(b) >= 1 => b  BY DEF OneIf
<1>5. Head(gq).cmd = "GetActivePlayer" => conn[h].pc = "w_active"
  BY <1>1, <1>2, <1>4 DEF TaskMailOf
<1>6. Head(gq).cmd = "GetPeerUsername" => conn[h].pc = "w_name"
  BY <1>1, <1>2, <1>4 DEF TaskMailOf
<1>7. Head(gq).cmd = "Broadcast" => conn[h].pc = "w_chat"
  BY <1>1, <1>2, <1>4 DEF TaskMailOf
<1>8. conn[h].pc = "w_boot" => actor[h] = "boot"
  BY <1>1 DEF ActorOfConn, Booting
<1>9. Head(gq).cmd = "GetMonsters" =>
        \/ conn[h].pc = "w_boot" /\ actor[h] = "boot"
        \/ conn[h].pc # "w_boot" /\ actor[h] = "w_monsters"
  <2>1. Head(gq).cmd = "GetMonsters" => Asked(gq, {"GetMonsters"}, h) >= 1
    BY <1>2
  <2>2. Asked(gq, {"GetMonsters"}, h) = OneIf(conn[h].pc = "w_boot") + OneIf(actor[h] = "w_monsters")
    BY <1>1 DEF TaskMailOf
  <2> QED  BY <1>8, <2>1, <2>2 DEF OneIf
<1>10. Head(gq).cmd = "SwitchToNextPlayer" => actor[h] = "w_switch"
  BY <1>1, <1>2, <1>4 DEF TaskMailOf
<1>11. Head(gq).cmd \in {"DropMonster", "ContinueGameCycle"} => actor[h] = "w_monster"
  BY <1>1, <1>2, <1>4 DEF TaskMailOf
<1>12. Head(gq).cmd = "DropPeer" => conn[h].pc = "ended"
  <2>1. Head(gq).cmd = "DropPeer" => Asked(gq, {"DropPeer"}, h) >= 1  BY <1>2
  <2>2. Asked(gq, {"DropPeer"}, h) <= OneIf(conn[h].pc = "ended")
    BY <1>1 DEF TaskMailOf
  <2> QED  BY <1>3, <2>1, <2>2 DEF OneIf
<1> QED  BY <1>1, <1>5, <1>6, <1>7, <1>9, <1>10, <1>11, <1>12

(* ... and the intro server. *)
LEMMA HeadLobby ==
  ASSUME IInv, Inner, gq # <<>>
  PROVE  LET h == Head(gq).from
         IN  /\ Head(gq).cmd = "GetPeerIdByName" => IntroAsks("id", h)
             /\ Head(gq).cmd = "IsPeerConnected" =>
                  IntroAsks("connected", h) /\ Head(gq).arg = iwait.old
             /\ Head(gq).cmd = "GetPeerHandleByUsername" => IntroAsks("handle", h)
             /\ Head(gq).cmd = "ReconnectPeer" =>
                  IntroAsks("reconnect", h) /\ Head(gq).arg = iwait.old
<1> DEFINE h == Head(gq).from
<1>1. TypeOK /\ h \in Conns /\ LobbyMail  BY HeadFacts DEF IInv, Inner
<1>2. \A cmds : Head(gq).cmd \in cmds => Asked(gq, cmds, h) >= 1
  BY <1>1, HeadAsked
<1>3. ASSUME NEW cmd \in {"IsPeerConnected", "ReconnectPeer"}, Head(gq).cmd = cmd
      PROVE  Head(gq).arg = iwait.old
  <2>1. gq \in Seq(Requests) /\ 1 \in DOMAIN gq /\ Head(gq) = gq[1]
    BY <1>1 DEF TypeOK
  <2> QED  BY <1>1, <1>3, <2>1 DEF LobbyMail
<1>4. Head(gq).cmd = "GetPeerIdByName" => IntroAsks("id", h)
  BY <1>1, <1>2 DEF LobbyMail, OneIf
<1>5. Head(gq).cmd = "IsPeerConnected" => IntroAsks("connected", h)
  BY <1>1, <1>2 DEF LobbyMail, OneIf
<1>6. Head(gq).cmd = "GetPeerHandleByUsername" => IntroAsks("handle", h)
  BY <1>1, <1>2 DEF LobbyMail, OneIf
<1>7. Head(gq).cmd = "ReconnectPeer" => IntroAsks("reconnect", h)
  BY <1>1, <1>2 DEF LobbyMail, OneIf
<1> QED  BY <1>3, <1>4, <1>5, <1>6, <1>7

(* A message in the mailbox of an actor, and why its asker waits. *)
LEMMA HeadMail ==
  ASSUME IInv, Inner, NEW c \in Conns, aq[c] # <<>>
  PROVE  LET d == Head(aq[c]).asker
         IN  /\ d \in Conns \cup {NoConn}
             /\ Head(aq[c]).msg = "Move" =>
                  d = c /\ conn[c].pc = "w_move" /\ ~ MoveUnderWay(c)
             /\ Head(aq[c]).msg = "GetUsername" =>
                  \/ d = c /\ conn[c].pc = "w_chatname"
                  \/ d = NoConn /\ ServerAsks(c)
             /\ Head(aq[c]).msg = "TakePeer" =>
                  /\ iwait.op = "answer" /\ iwait.old = c /\ iwait.from = d
                  /\ conn[iwait.from].pc = "w_take"
<1> DEFINE d == Head(aq[c]).asker
<1>1. TypeOK /\ d \in Conns \cup {NoConn}  BY HeadFacts DEF IInv
<1>2. MailOf(c, d)  BY <1>1 DEF Inner, ActorMail
<1>3. \A msg : Head(aq[c]).msg = msg => Addressed(aq[c], msg, d) >= 1
  BY <1>1, HeadAddressed
<1>4. Head(aq[c]).msg = "Move" => d = c /\ conn[c].pc = "w_move" /\ ~ MoveUnderWay(c)
  BY <1>2, <1>3 DEF MailOf, OneIf
<1>5. Head(aq[c]).msg = "GetUsername" =>
        \/ d = c /\ conn[c].pc = "w_chatname"
        \/ d = NoConn /\ ServerAsks(c)
  BY <1>2, <1>3 DEF MailOf, OneIf
<1>6. Head(aq[c]).msg = "TakePeer" =>
        /\ iwait.op = "answer" /\ iwait.old = c /\ iwait.from = d
        /\ conn[iwait.from].pc = "w_take"
  BY <1>2, <1>3 DEF MailOf, OneIf
<1> QED  BY <1>1, <1>4, <1>5, <1>6

-------------------------------------------------------------------------------
(* The steps of a connection in the game.                                   *)

LEMMA ReadMoveStep ==
  ASSUME IInv, NEW c \in Conns, ReadMove(c)
  PROVE  IInv'
<1> DEFINE m == Command("GetActivePlayer", c)
<1>1. /\ Running /\ conn[c].pc = "read" /\ cin[c] # <<>> /\ Head(cin[c]) # Chat
      /\ gq' = Append(gq, m)
  BY DEF ReadMove, Reads, At, ToGame
<1>2. UNCHANGED <<turn, slots, gwait, lobby, here, entering, iq, iwait, actor, name,
                  aq, sock, client, view, presses, eager, chats, crashed>>
  BY DEF ReadMove, introVars, actorVars
<1>3. /\ conn' = [conn EXCEPT ![c].pc = "w_active", ![c].move = Head(cin[c])]
      /\ cin' = [cin EXCEPT ![c] = Tail(cin[c])]
  BY DEF ReadMove, Reads
<1>4. TypeOK /\ Inner  BY <1>1 DEF IInv
<1>5. m \in Requests /\ m.cmd = "GetActivePlayer" /\ m.from = c
  BY MessageFacts DEF Commands
<1> HIDE DEF m
<1>6. ConnTypes /\ ClientTypes /\ ServerTypes  BY <1>4, TypeGroups
<1>7. Head(cin[c]) \in Phases /\ Tail(cin[c]) \in Seq(Phases \cup {Chat})
  <2>1. cin[c] \in Seq(Phases \cup {Chat})  BY <1>6 DEF ClientTypes
  <2> QED  BY <1>1, <2>1, FirstTaken
<1>8. /\ ConnTypes'
      /\ conn'[c].pc = "w_active"
      /\ \A d \in Conns : d # c => conn'[d] = conn[d]
  <2>1. conn' = [conn EXCEPT ![c] = [conn[c] EXCEPT !.pc = "w_active", !.move = Head(cin[c])]]
    BY <1>3
  <2>2. conn[c] \in [pc : ConnPlaces, val : Conns \cup {NoConn}, move : Phases \cup {Nothing}]
    BY <1>6 DEF ConnTypes
  <2>3. /\ [conn[c] EXCEPT !.pc = "w_active", !.move = Head(cin[c])]
             \in [pc : ConnPlaces, val : Conns \cup {NoConn}, move : Phases \cup {Nothing}]
        /\ [conn[c] EXCEPT !.pc = "w_active", !.move = Head(cin[c])].pc = "w_active"
    BY <2>2, <1>7 DEF ConnPlaces
  <2> QED  BY <1>2, <1>6, <2>1, <2>3 DEF ConnTypes
<1>9. StaysOn  BY <1>1, <1>2, <1>8 DEF StaysOn, Loop
<1>10. TypeOK'
  <2>1. gq' \in Seq(Requests)  BY <1>1, <1>4, <1>5, AskedAfterSend
  <2>2. ServerTypes'  BY <1>2, <1>6, <2>1 DEF ServerTypes
  <2>3. ClientTypes'  BY <1>2, <1>3, <1>6, <1>7 DEF ClientTypes
  <2> QED
    BY <1>2, <1>4, <1>8, <2>2, <2>3, SameTypes, TypesNext DEF introVars, actorVars
<1>11. ServerWait' /\ LobbyMail'
  BY <1>1, <1>2, <1>4, <1>5, ServerWaitSent, LobbyMailSent DEF IntroCmds
<1>12. TaskMail'
  <2> SUFFICES ASSUME NEW d \in Conns
               PROVE  TaskMailOf(d)'
    BY DEF TaskMail
  <2>1. TaskMailOf(d) /\ OneMore(gq', gq, m, d)
    BY <1>1, <1>4, <1>5, SendCounts DEF Inner, TaskMail
  <2>2. actor'[d] = actor[d] /\ (d # c => conn'[d] = conn[d])  BY <1>2, <1>8
  <2> QED  BY <1>1, <1>5, <1>8, <2>1, <2>2 DEF TaskMailOf, OneMore, OneIf
<1>13. MoversWait' /\ ActorMail'
  BY <1>1, <1>2, <1>4, <1>8, <1>9, StaysGoesOn, SameCounts, MailKept DEF MoveUnderWay, ServerAsks
<1>14. ActiveMoves'
  BY <1>1, <1>2, <1>4, <1>8 DEF Inner, ActiveMoves, ActiveConn
<1>15. T!HasActive(turn')  BY <1>2 DEF IInv
<1> QED
  BY <1>2, <1>4, <1>9, <1>10, <1>11, <1>12, <1>13, <1>14, <1>15,
     StaysGoesOn, ActorsStay, InTheGame

(* Whoever has been told that it is its turn is the active player. *)
LEMMA TurnOkStep ==
  ASSUME IInv, NEW c \in Conns, TurnOk(c)
  PROVE  IInv'
<1> DEFINE n == Move(conn[c].move, c)
<1>1. /\ Running /\ conn[c].pc = "got_active" /\ conn[c].val = c
      /\ aq' = [aq EXCEPT ![c] = Append(@, n)]
      /\ conn' = [conn EXCEPT ![c].pc = "w_move"]
  BY DEF TurnOk, At, Goto, ToGame
<1>2. UNCHANGED <<turn, slots, gq, gwait, lobby, here, entering, iq, iwait,
                  actor, name, sock, client, view, presses, eager, chats, cin,
                  crashed>>
  BY DEF TurnOk, serverVars, introVars, actorVars, clientVars
<1>3. TypeOK /\ Inner /\ ServerTypes /\ ActorTypes /\ ConnTypes
  BY <1>1, TypeGroups DEF IInv
<1>4. conn[c].move \in Phases \cup {Nothing}  BY <1>3 DEF ConnTypes
<1>5. /\ n \in ActorMessages /\ n.msg = "Move" /\ n.asker = c
  BY <1>4, MessageFacts
<1> HIDE DEF n
<1>6. /\ ConnTypes' /\ conn'[c].pc = "w_move" /\ conn'[c].val = conn[c].val
      /\ \A d \in Conns : d # c => conn'[d] = conn[d]
  BY <1>1, <1>2, <1>3, GotoFacts DEF ConnTypes, ConnPlaces
<1>7. StaysOn  BY <1>1, <1>2, <1>6 DEF StaysOn, Loop, Booting, Busy
<1>8. TypeOK'
  <2>1. aq' \in [Conns -> Seq(ActorMessages)]  BY <1>1, <1>3, <1>5, PutFacts
  <2>2. ActorTypes'  BY <1>2, <1>3, <2>1 DEF ActorTypes
  <2> QED
    BY <1>2, <1>3, <1>6, <2>2, SameTypes, TypesNext DEF serverVars, introVars, clientVars
<1>9. ServerWait' /\ LobbyMail'
  BY <1>2, <1>3 DEF Inner, ServerWait, SeatOf, LobbyMail, IntroAsks
<1>10. TaskMail'
  <2> SUFFICES ASSUME NEW d \in Conns
               PROVE  TaskMailOf(d)'
    BY DEF TaskMail
  <2>1. TaskMailOf(d)  BY <1>3 DEF Inner, TaskMail
  <2>2. (d # c => conn'[d] = conn[d]) /\ actor' = actor /\ gq' = gq
    BY <1>2, <1>6
  <2>3. CASE d = c
    <3>1. /\ conn'[d].pc = "w_move"
          /\ actor'[d] = actor[d]
          /\ conn[d].pc = "got_active"
          /\ gq' = gq
      BY <1>1, <1>5, <1>6, <2>2, <2>3
    <3> QED  BY <2>1, <3>1 DEF TaskMailOf, OneIf
  <2>4. CASE d # c
    <3>1. conn'[d] = conn[d] /\ actor'[d] = actor[d] /\ gq' = gq
      BY <1>5, <2>2, <2>4
    <3> QED  BY <2>1, <3>1 DEF TaskMailOf, OneIf
  <2> QED  BY <2>3, <2>4
<1>11. /\ \A d : OneMoreTo(aq'[c], aq[c], n, d)
       /\ \A y \in Conns : y # c => aq'[y] = aq[y]
  BY <1>1, <1>3, <1>5, PutFacts
<1>12. MoversWait' /\ ActorMail'
  <2>1. \A x \in Conns : x # c => /\ MoveUnderWay(x)' <=> MoveUnderWay(x)
                                  /\ conn'[x] = conn[x]
    BY <1>2, <1>6 DEF MoveUnderWay
  <2>2. \A x \in Conns : ServerAsks(x)' <=> ServerAsks(x)
    BY <1>2 DEF ServerAsks
  <2>3. /\ conn[c].pc = "got_active" /\ conn'[c].pc = "w_move"
        /\ ~ MoveUnderWay(c) /\ ~ MoveUnderWay(c)'
    BY <1>1, <1>2, <1>3, <1>6 DEF Inner, MoversWait, MoveUnderWay
  <2>4. MoversWait'  BY <1>3, <2>1, <2>3 DEF Inner, MoversWait
  <2>5. ASSUME NEW x \in Conns, NEW d \in Conns \cup {NoConn}
        PROVE  MailOf(x, d)'
    <3>1. MailOf(x, d)  BY <1>3 DEF Inner, ActorMail
    <3>2. (iwait.op = "answer" /\ iwait.old = x /\ iwait.from = d
             /\ conn[iwait.from].pc = "w_take")'
          <=> (iwait.op = "answer" /\ iwait.old = x /\ iwait.from = d
             /\ conn[iwait.from].pc = "w_take")
      BY <1>2, <1>3, <1>7, StaysGoesOn, TakeKept
    <3>3. CASE x = c
      <4>1. OneMoreTo(aq'[c], aq[c], n, d)  BY <1>11
      <4>2. c # NoConn  BY ConnFacts
      <4> QED
        BY <1>5, <2>2, <2>3, <3>1, <3>2, <3>3, <4>1, <4>2 DEF MailOf, OneMoreTo, OneIf
    <3>4. CASE x # c
      <4>1. aq'[x] = aq[x] /\ conn'[x] = conn[x] /\ (MoveUnderWay(x)' <=> MoveUnderWay(x))
        BY <1>11, <2>1, <3>4
      <4> QED  BY <2>2, <3>1, <3>2, <4>1 DEF MailOf, OneIf
    <3> QED  BY <3>3, <3>4
  <2> QED  BY <2>4, <2>5 DEF ActorMail
<1>13. ActiveMoves'
  BY <1>1, <1>2, <1>3, <1>6 DEF Inner, ActiveMoves, ActiveConn
<1>14. T!HasActive(turn')  BY <1>2 DEF IInv
<1> QED
  BY <1>2, <1>3, <1>7, <1>8, <1>9, <1>10, <1>12, <1>13, <1>14,
     StaysGoesOn, ActorsStay, InTheGame

LEMMA TurnErrStep ==
  ASSUME IInv, NEW c \in Conns, TurnErr(c)
  PROVE  IInv'
<1> DEFINE m == Request("GetPeerUsername", c, conn[c].val)
<1>1. /\ Running /\ conn[c].pc = "got_active"
      /\ gq' = Append(gq, m)
      /\ conn' = [conn EXCEPT ![c].pc = "w_name"]
  BY DEF TurnErr, At, Goto, ToGame
<1>2. UNCHANGED <<turn, slots, gwait, lobby, here, entering, iq, iwait, actor,
                  name, aq, sock, client, view, presses, eager, chats, cin, crashed>>
  BY DEF TurnErr, serverVars, introVars, actorVars, clientVars
<1>3. TypeOK /\ Inner /\ ServerTypes /\ ActorTypes /\ ConnTypes
  BY <1>1, TypeGroups DEF IInv
<1>4. conn[c].val \in Conns \cup {NoConn}  BY <1>3 DEF ConnTypes
<1>5. /\ m \in Requests /\ m.cmd = "GetPeerUsername" /\ m.from = c
  BY <1>4, MessageFacts DEF Commands
<1> HIDE DEF m
<1>6. /\ ConnTypes' /\ conn'[c].pc = "w_name" /\ conn'[c].val = conn[c].val
      /\ \A d \in Conns : d # c => conn'[d] = conn[d]
  BY <1>1, <1>2, <1>3, GotoFacts DEF ConnTypes, ConnPlaces
<1>7. StaysOn  BY <1>1, <1>2, <1>6 DEF StaysOn, Loop, Booting, Busy
<1>8. TypeOK'
  <2>1. gq' \in Seq(Requests)  BY <1>1, <1>3, <1>5, AskedAfterSend
  <2>2. ServerTypes'  BY <1>2, <1>3, <2>1 DEF ServerTypes
  <2> QED
    BY <1>2, <1>3, <1>6, <2>2, SameTypes, TypesNext DEF introVars, actorVars, clientVars
<1>9. ServerWait' /\ LobbyMail'
  BY <1>1, <1>2, <1>3, <1>5, ServerWaitSent, LobbyMailSent DEF IntroCmds
<1>10. TaskMail'
  <2> SUFFICES ASSUME NEW d \in Conns
               PROVE  TaskMailOf(d)'
    BY DEF TaskMail
  <2>1. TaskMailOf(d) /\ OneMore(gq', gq, m, d)
    BY <1>1, <1>3, <1>5, SendCounts DEF Inner, TaskMail
  <2>2. (d # c => conn'[d] = conn[d]) /\ actor' = actor  BY <1>2, <1>6
  <2>3. CASE d = c
    <3>1. /\ conn'[d].pc = "w_name"
          /\ actor'[d] = actor[d]
          /\ m.cmd = "GetPeerUsername"
          /\ m.from = d
          /\ conn[d].pc = "got_active"
      BY <1>1, <1>5, <1>6, <2>2, <2>3
    <3> QED  BY <2>1, <3>1 DEF TaskMailOf, OneMore, OneIf
  <2>4. CASE d # c
    <3>1. conn'[d] = conn[d] /\ actor'[d] = actor[d] /\ m.from # d
      BY <1>5, <2>2, <2>4
    <3> QED  BY <2>1, <3>1 DEF TaskMailOf, OneMore, OneIf
  <2> QED  BY <2>3, <2>4
<1>11. SameAsks  BY <1>1, <1>2, <1>3, SameCounts
<1>12. MoversWait' /\ ActorMail'
  BY <1>1, <1>2, <1>3, <1>6, <1>7, <1>11, StaysGoesOn, MailKept DEF MoveUnderWay, ServerAsks
<1>13. ActiveMoves'
  BY <1>1, <1>2, <1>3, <1>6 DEF Inner, ActiveMoves, ActiveConn
<1>14. T!HasActive(turn')  BY <1>2 DEF IInv
<1> QED
  BY <1>2, <1>3, <1>7, <1>8, <1>9, <1>10, <1>12, <1>13, <1>14,
     StaysGoesOn, ActorsStay, InTheGame

LEMMA EndOfTurnStep ==
  ASSUME IInv, NEW c \in Conns, EndOfTurn(c)
  PROVE  IInv'
<1> DEFINE m == Command("BroadcastGameState", c)
<1> DEFINE n == SyncWithClient
<1>1. /\ Running /\ conn[c].pc = "answer_turn"
      /\ gq' = Append(gq, m)
      /\ aq' = [aq EXCEPT ![c] = Append(@, n)]
      /\ conn' = [conn EXCEPT ![c].pc = "read"]
  BY DEF EndOfTurn, At, Goto, ToGame
<1>2. UNCHANGED <<turn, slots, gwait, lobby, here, entering, iq, iwait, actor,
                  name, sock, client, view, presses, eager, chats, cin, crashed>>
  BY DEF EndOfTurn, serverVars, introVars, actorVars, clientVars
<1>3. TypeOK /\ Inner /\ ServerTypes /\ ActorTypes /\ ConnTypes
  BY <1>1, TypeGroups DEF IInv
<1>4. /\ m \in Requests /\ m.cmd = "BroadcastGameState" /\ m.from = c
      /\ n \in ActorMessages /\ n.msg = "SyncWithClient"
  BY MessageFacts DEF Commands
<1> HIDE DEF m
<1> HIDE DEF n
<1>5. /\ ConnTypes' /\ conn'[c].pc = "read" /\ conn'[c].val = conn[c].val
      /\ \A d \in Conns : d # c => conn'[d] = conn[d]
  BY <1>1, <1>2, <1>3, GotoFacts DEF ConnTypes, ConnPlaces
<1>6. StaysOn  BY <1>1, <1>2, <1>5 DEF StaysOn, Loop, Booting, Busy
<1>7. TypeOK'
  <2>1. gq' \in Seq(Requests)  BY <1>1, <1>3, <1>4, AskedAfterSend
  <2>2. ServerTypes'  BY <1>2, <1>3, <2>1 DEF ServerTypes
  <2>3. aq' \in [Conns -> Seq(ActorMessages)]  BY <1>1, <1>3, <1>4, PutFacts
  <2>4. ActorTypes'  BY <1>2, <1>3, <2>3 DEF ActorTypes
  <2> QED
    BY <1>2, <1>3, <1>5, <2>2, <2>4, SameTypes, TypesNext DEF introVars, clientVars
<1>8. ServerWait' /\ LobbyMail'
  BY <1>1, <1>2, <1>3, <1>4, ServerWaitSent, LobbyMailSent DEF IntroCmds
<1>9. TaskMail'
  <2> SUFFICES ASSUME NEW d \in Conns
               PROVE  TaskMailOf(d)'
    BY DEF TaskMail
  <2>1. TaskMailOf(d) /\ OneMore(gq', gq, m, d)
    BY <1>1, <1>3, <1>4, SendCounts DEF Inner, TaskMail
  <2>2. (d # c => conn'[d] = conn[d]) /\ actor' = actor  BY <1>2, <1>5
  <2>3. CASE d = c
    <3>1. /\ conn'[d].pc = "read"
          /\ actor'[d] = actor[d]
          /\ m.cmd = "BroadcastGameState"
          /\ m.from = d
          /\ conn[d].pc = "answer_turn"
      BY <1>1, <1>4, <1>5, <2>2, <2>3
    <3> QED  BY <2>1, <3>1 DEF TaskMailOf, OneMore, OneIf
  <2>4. CASE d # c
    <3>1. conn'[d] = conn[d] /\ actor'[d] = actor[d] /\ m.from # d
      BY <1>4, <2>2, <2>4
    <3> QED  BY <2>1, <3>1 DEF TaskMailOf, OneMore, OneIf
  <2> QED  BY <2>3, <2>4
<1>10. SameAsks  BY <1>1, <1>3, <1>4, PutSame DEF Counted
<1>11. MoversWait' /\ ActorMail'
  BY <1>1, <1>2, <1>3, <1>5, <1>6, <1>10, StaysGoesOn, MailKept DEF MoveUnderWay, ServerAsks
<1>12. ActiveMoves'
  BY <1>1, <1>2, <1>3, <1>5 DEF Inner, ActiveMoves, ActiveConn
<1>13. T!HasActive(turn')  BY <1>2 DEF IInv
<1> QED
  BY <1>2, <1>3, <1>6, <1>7, <1>8, <1>9, <1>11, <1>12, <1>13,
     StaysGoesOn, ActorsStay, InTheGame

LEMMA ReadChatStep ==
  ASSUME IInv, NEW c \in Conns, ReadChat(c)
  PROVE  IInv'
<1> DEFINE n == GetUsername(c)
<1>1. /\ Running /\ conn[c].pc = "read"
      /\ aq' = [aq EXCEPT ![c] = Append(@, n)]
      /\ conn' = [conn EXCEPT ![c].pc = "w_chatname"]
  BY DEF ReadChat, At, Goto, ToGame, Reads
<1>2. UNCHANGED <<turn, slots, gq, gwait, lobby, here, entering, iq, iwait,
                  actor, name, sock, client, view, presses, eager, chats, crashed>>
  BY DEF ReadChat, serverVars, introVars, actorVars, clientVars
<1>3. TypeOK /\ Inner /\ ServerTypes /\ ActorTypes /\ ConnTypes
  BY <1>1, TypeGroups DEF IInv
<1>4. /\ n \in ActorMessages /\ n.msg = "GetUsername" /\ n.asker = c
  BY MessageFacts
<1> HIDE DEF n
<1>5. cin[c] # <<>> /\ cin' = [cin EXCEPT ![c] = Tail(cin[c])]
  BY DEF ReadChat, Reads
<1>6. /\ ConnTypes' /\ conn'[c].pc = "w_chatname" /\ conn'[c].val = conn[c].val
      /\ \A d \in Conns : d # c => conn'[d] = conn[d]
  BY <1>1, <1>2, <1>3, GotoFacts DEF ConnTypes, ConnPlaces
<1>7. StaysOn  BY <1>1, <1>2, <1>6 DEF StaysOn, Loop, Booting, Busy
<1>8. TypeOK'
  <2>1. aq' \in [Conns -> Seq(ActorMessages)]  BY <1>1, <1>3, <1>4, PutFacts
  <2>2. ActorTypes'  BY <1>2, <1>3, <2>1 DEF ActorTypes
  <2>3. ClientTypes'
    <3>1. cin \in [Conns -> Seq(Phases \cup {Chat})] /\ ClientTypes
      BY <1>3, TypeGroups DEF ClientTypes
    <3>2. Tail(cin[c]) \in Seq(Phases \cup {Chat})  BY <1>5, <3>1, FirstTaken
    <3> QED  BY <1>2, <1>5, <3>1, <3>2 DEF ClientTypes
  <2> QED
    BY <1>2, <1>3, <1>6, <2>2, <2>3, SameTypes, TypesNext DEF serverVars, introVars
<1>9. ServerWait' /\ LobbyMail'
  BY <1>2, <1>3 DEF Inner, ServerWait, SeatOf, LobbyMail, IntroAsks
<1>10. TaskMail'
  <2> SUFFICES ASSUME NEW d \in Conns
               PROVE  TaskMailOf(d)'
    BY DEF TaskMail
  <2>1. TaskMailOf(d)  BY <1>3 DEF Inner, TaskMail
  <2>2. (d # c => conn'[d] = conn[d]) /\ actor' = actor /\ gq' = gq
    BY <1>2, <1>6
  <2>3. CASE d = c
    <3>1. /\ conn'[d].pc = "w_chatname"
          /\ actor'[d] = actor[d]
          /\ conn[d].pc = "read"
          /\ gq' = gq
      BY <1>1, <1>4, <1>6, <2>2, <2>3
    <3> QED  BY <2>1, <3>1 DEF TaskMailOf, OneIf
  <2>4. CASE d # c
    <3>1. conn'[d] = conn[d] /\ actor'[d] = actor[d] /\ gq' = gq
      BY <1>4, <2>2, <2>4
    <3> QED  BY <2>1, <3>1 DEF TaskMailOf, OneIf
  <2> QED  BY <2>3, <2>4
<1>11. /\ \A d : OneMoreTo(aq'[c], aq[c], n, d)
       /\ \A y \in Conns : y # c => aq'[y] = aq[y]
  BY <1>1, <1>3, <1>4, PutFacts
<1>12. MoversWait' /\ ActorMail'
  <2>1. \A x \in Conns : x # c => /\ MoveUnderWay(x)' <=> MoveUnderWay(x)
                                  /\ conn'[x] = conn[x]
    BY <1>2, <1>6 DEF MoveUnderWay
  <2>2. \A x \in Conns : ServerAsks(x)' <=> ServerAsks(x)
    BY <1>2 DEF ServerAsks
  <2>3. /\ conn[c].pc = "read" /\ conn'[c].pc = "w_chatname"
        /\ ~ MoveUnderWay(c) /\ ~ MoveUnderWay(c)'
    BY <1>1, <1>2, <1>3, <1>6 DEF Inner, MoversWait, MoveUnderWay
  <2>4. MoversWait'  BY <1>3, <2>1, <2>3 DEF Inner, MoversWait
  <2>5. ASSUME NEW x \in Conns, NEW d \in Conns \cup {NoConn}
        PROVE  MailOf(x, d)'
    <3>1. MailOf(x, d)  BY <1>3 DEF Inner, ActorMail
    <3>2. (iwait.op = "answer" /\ iwait.old = x /\ iwait.from = d
             /\ conn[iwait.from].pc = "w_take")'
          <=> (iwait.op = "answer" /\ iwait.old = x /\ iwait.from = d
             /\ conn[iwait.from].pc = "w_take")
      BY <1>2, <1>3, <1>7, StaysGoesOn, TakeKept
    <3>3. CASE x = c
      <4>1. OneMoreTo(aq'[c], aq[c], n, d)  BY <1>11
      <4>2. c # NoConn  BY ConnFacts
      <4> QED
        BY <1>4, <2>2, <2>3, <3>1, <3>2, <3>3, <4>1, <4>2 DEF MailOf, OneMoreTo, OneIf
    <3>4. CASE x # c
      <4>1. aq'[x] = aq[x] /\ conn'[x] = conn[x] /\ (MoveUnderWay(x)' <=> MoveUnderWay(x))
        BY <1>11, <2>1, <3>4
      <4> QED  BY <2>2, <3>1, <3>2, <4>1 DEF MailOf, OneIf
    <3> QED  BY <3>3, <3>4
  <2> QED  BY <2>4, <2>5 DEF ActorMail
<1>13. ActiveMoves'
  BY <1>1, <1>2, <1>3, <1>6 DEF Inner, ActiveMoves, ActiveConn
<1>14. T!HasActive(turn')  BY <1>2 DEF IInv
<1> QED
  BY <1>2, <1>3, <1>7, <1>8, <1>9, <1>10, <1>12, <1>13, <1>14,
     StaysGoesOn, ActorsStay, InTheGame

LEMMA SendChatStep ==
  ASSUME IInv, NEW c \in Conns, SendChat(c)
  PROVE  IInv'
<1> DEFINE m == Command("Broadcast", c)
<1>1. /\ Running /\ conn[c].pc = "chat"
      /\ gq' = Append(gq, m)
      /\ conn' = [conn EXCEPT ![c].pc = "w_chat"]
  BY DEF SendChat, At, Goto, ToGame
<1>2. UNCHANGED <<turn, slots, gwait, lobby, here, entering, iq, iwait, actor,
                  name, aq, sock, client, view, presses, eager, chats, cin, crashed>>
  BY DEF SendChat, serverVars, introVars, actorVars, clientVars
<1>3. TypeOK /\ Inner /\ ServerTypes /\ ActorTypes /\ ConnTypes
  BY <1>1, TypeGroups DEF IInv
<1>4. /\ m \in Requests /\ m.cmd = "Broadcast" /\ m.from = c
  BY MessageFacts DEF Commands
<1> HIDE DEF m
<1>5. /\ ConnTypes' /\ conn'[c].pc = "w_chat" /\ conn'[c].val = conn[c].val
      /\ \A d \in Conns : d # c => conn'[d] = conn[d]
  BY <1>1, <1>2, <1>3, GotoFacts DEF ConnTypes, ConnPlaces
<1>6. StaysOn  BY <1>1, <1>2, <1>5 DEF StaysOn, Loop, Booting, Busy
<1>7. TypeOK'
  <2>1. gq' \in Seq(Requests)  BY <1>1, <1>3, <1>4, AskedAfterSend
  <2>2. ServerTypes'  BY <1>2, <1>3, <2>1 DEF ServerTypes
  <2> QED
    BY <1>2, <1>3, <1>5, <2>2, SameTypes, TypesNext DEF introVars, actorVars, clientVars
<1>8. ServerWait' /\ LobbyMail'
  BY <1>1, <1>2, <1>3, <1>4, ServerWaitSent, LobbyMailSent DEF IntroCmds
<1>9. TaskMail'
  <2> SUFFICES ASSUME NEW d \in Conns
               PROVE  TaskMailOf(d)'
    BY DEF TaskMail
  <2>1. TaskMailOf(d) /\ OneMore(gq', gq, m, d)
    BY <1>1, <1>3, <1>4, SendCounts DEF Inner, TaskMail
  <2>2. (d # c => conn'[d] = conn[d]) /\ actor' = actor  BY <1>2, <1>5
  <2>3. CASE d = c
    <3>1. /\ conn'[d].pc = "w_chat"
          /\ actor'[d] = actor[d]
          /\ m.cmd = "Broadcast"
          /\ m.from = d
          /\ conn[d].pc = "chat"
      BY <1>1, <1>4, <1>5, <2>2, <2>3
    <3> QED  BY <2>1, <3>1 DEF TaskMailOf, OneMore, OneIf
  <2>4. CASE d # c
    <3>1. conn'[d] = conn[d] /\ actor'[d] = actor[d] /\ m.from # d
      BY <1>4, <2>2, <2>4
    <3> QED  BY <2>1, <3>1 DEF TaskMailOf, OneMore, OneIf
  <2> QED  BY <2>3, <2>4
<1>10. SameAsks  BY <1>1, <1>2, <1>3, SameCounts
<1>11. MoversWait' /\ ActorMail'
  BY <1>1, <1>2, <1>3, <1>5, <1>6, <1>10, StaysGoesOn, MailKept DEF MoveUnderWay, ServerAsks
<1>12. ActiveMoves'
  BY <1>1, <1>2, <1>3, <1>5 DEF Inner, ActiveMoves, ActiveConn
<1>13. T!HasActive(turn')  BY <1>2 DEF IInv
<1> QED
  BY <1>2, <1>3, <1>6, <1>7, <1>8, <1>9, <1>11, <1>12, <1>13,
     StaysGoesOn, ActorsStay, InTheGame

LEMMA AskMonstersStep ==
  ASSUME IInv, NEW c \in Conns, AskMonsters(c)
  PROVE  IInv'
<1> DEFINE m == Command("GetMonsters", c)
<1>1. /\ Running /\ conn[c].pc = "boot"
      /\ gq' = Append(gq, m)
      /\ conn' = [conn EXCEPT ![c].pc = "w_boot"]
  BY DEF AskMonsters, At, Goto, ToGame
<1>2. UNCHANGED <<turn, slots, gwait, lobby, here, entering, iq, iwait, actor,
                  name, aq, sock, client, view, presses, eager, chats, cin, crashed>>
  BY DEF AskMonsters, serverVars, introVars, actorVars, clientVars
<1>3. TypeOK /\ Inner /\ ServerTypes /\ ActorTypes /\ ConnTypes
  BY <1>1, TypeGroups DEF IInv
<1>4. /\ m \in Requests /\ m.cmd = "GetMonsters" /\ m.from = c
  BY MessageFacts DEF Commands
<1> HIDE DEF m
<1>5. /\ ConnTypes' /\ conn'[c].pc = "w_boot" /\ conn'[c].val = conn[c].val
      /\ \A d \in Conns : d # c => conn'[d] = conn[d]
  BY <1>1, <1>2, <1>3, GotoFacts DEF ConnTypes, ConnPlaces
<1>6. StaysOn  BY <1>1, <1>2, <1>5 DEF StaysOn, Loop, Booting, Busy
<1>7. TypeOK'
  <2>1. gq' \in Seq(Requests)  BY <1>1, <1>3, <1>4, AskedAfterSend
  <2>2. ServerTypes'  BY <1>2, <1>3, <2>1 DEF ServerTypes
  <2> QED
    BY <1>2, <1>3, <1>5, <2>2, SameTypes, TypesNext DEF introVars, actorVars, clientVars
<1>8. ServerWait' /\ LobbyMail'
  BY <1>1, <1>2, <1>3, <1>4, ServerWaitSent, LobbyMailSent DEF IntroCmds
<1>9. TaskMail'
  <2> SUFFICES ASSUME NEW d \in Conns
               PROVE  TaskMailOf(d)'
    BY DEF TaskMail
  <2>1. TaskMailOf(d) /\ OneMore(gq', gq, m, d)
    BY <1>1, <1>3, <1>4, SendCounts DEF Inner, TaskMail
  <2>2. (d # c => conn'[d] = conn[d]) /\ actor' = actor  BY <1>2, <1>5
  <2>3. CASE d = c
    <3>1. /\ conn'[d].pc = "w_boot"
          /\ actor'[d] = actor[d]
          /\ m.cmd = "GetMonsters"
          /\ m.from = d
          /\ conn[d].pc = "boot"
      BY <1>1, <1>4, <1>5, <2>2, <2>3
    <3> QED  BY <2>1, <3>1 DEF TaskMailOf, OneMore, OneIf
  <2>4. CASE d # c
    <3>1. conn'[d] = conn[d] /\ actor'[d] = actor[d] /\ m.from # d
      BY <1>4, <2>2, <2>4
    <3> QED  BY <2>1, <3>1 DEF TaskMailOf, OneMore, OneIf
  <2> QED  BY <2>3, <2>4
<1>10. SameAsks  BY <1>1, <1>2, <1>3, SameCounts
<1>11. MoversWait' /\ ActorMail'
  BY <1>1, <1>2, <1>3, <1>5, <1>6, <1>10, StaysGoesOn, MailKept DEF MoveUnderWay, ServerAsks
<1>12. ActiveMoves'
  BY <1>1, <1>2, <1>3, <1>5 DEF Inner, ActiveMoves, ActiveConn
<1>13. T!HasActive(turn')  BY <1>2 DEF IInv
<1> QED
  BY <1>2, <1>3, <1>6, <1>7, <1>8, <1>9, <1>11, <1>12, <1>13,
     StaysGoesOn, ActorsStay, InTheGame

LEMMA SpawnActorStep ==
  ASSUME IInv, NEW c \in Conns, SpawnActor(c)
  PROVE  IInv'
<1>1. /\ Running /\ conn[c].pc = "booted"
      /\ conn' = [conn EXCEPT ![c].pc = "read"]
      /\ actor' = [actor EXCEPT ![c] = "idle"]
  BY DEF SpawnActor, At, Goto
<1>2. UNCHANGED <<turn, slots, gq, gwait, lobby, here, entering, iq, iwait,
                  name, aq, sock, client, view, presses, eager, chats, cin, crashed>>
  BY DEF SpawnActor, serverVars, introVars, actorVars, clientVars
<1>3. TypeOK /\ Inner /\ ServerTypes /\ ActorTypes /\ ConnTypes
  BY <1>1, TypeGroups DEF IInv
<1>4. actor[c] = "boot"  BY <1>1, <1>3 DEF Inner, ActorOfConn, Booting
<1>5. /\ ConnTypes' /\ conn'[c].pc = "read" /\ conn'[c].val = conn[c].val
      /\ \A d \in Conns : d # c => conn'[d] = conn[d]
  BY <1>1, <1>2, <1>3, <1>4, GotoFacts DEF ConnTypes, ConnPlaces
<1>6. /\ actor' \in [Conns -> ActorStates] /\ actor'[c] = "idle"
      /\ \A d \in Conns : d # c => actor'[d] = actor[d]
  BY <1>1, <1>2, <1>3, <1>4, ActFacts DEF ActorStates
<1>7. GoesOn
  BY <1>1, <1>4, <1>5, <1>6 DEF GoesOn, Playing, Loop, Booting, Alive, Busy
<1>8. TypeOK'
  <2>1. ActorTypes'  BY <1>2, <1>3, <1>6 DEF ActorTypes
  <2> QED
    BY <1>2, <1>3, <1>5, <2>1, SameTypes, TypesNext DEF serverVars, introVars, clientVars
<1>9. ServerWait' /\ LobbyMail'
  BY <1>2, <1>3 DEF Inner, ServerWait, SeatOf, LobbyMail, IntroAsks
<1>10. TaskMail'
  <2> SUFFICES ASSUME NEW d \in Conns
               PROVE  TaskMailOf(d)'
    BY DEF TaskMail
  <2>1. TaskMailOf(d)  BY <1>3 DEF Inner, TaskMail
  <2>2. (d # c => conn'[d] = conn[d] /\ actor'[d] = actor[d]) /\ gq' = gq
    BY <1>2, <1>5, <1>6
  <2>3. CASE d = c
    <3>1. /\ conn'[d].pc = "read"
          /\ actor'[d] = "idle"
          /\ conn[d].pc = "booted"
          /\ actor[d] = "boot"
          /\ gq' = gq
      BY <1>1, <1>4, <1>5, <1>6, <2>2, <2>3
    <3> QED  BY <2>1, <3>1 DEF TaskMailOf, OneIf
  <2>4. CASE d # c
    <3>1. conn'[d] = conn[d] /\ actor'[d] = actor[d] /\ gq' = gq  BY <2>2, <2>4
    <3> QED  BY <2>1, <3>1 DEF TaskMailOf, OneIf
  <2> QED  BY <2>3, <2>4
<1>11. SameAsks  BY <1>1, <1>2, <1>3, SameCounts
<1>12. MoversWait' /\ ActorMail'
  BY <1>1, <1>2, <1>3, <1>4, <1>5, <1>6, <1>7, <1>11, MailKept DEF MoveUnderWay, ServerAsks
<1>13. ActiveMoves'
  BY <1>1, <1>2, <1>3, <1>4, <1>5, <1>6 DEF Inner, ActiveMoves, ActiveConn
<1>14. T!HasActive(turn')  BY <1>2 DEF IInv
<1>15. ActorOfConn'
  BY <1>1, <1>3, <1>4, <1>5, <1>6
     DEF Inner, ActorOfConn, Early, Taking, Booting, Loop, Busy
<1> QED
  BY <1>2, <1>3, <1>7, <1>8, <1>9, <1>10, <1>12, <1>13, <1>14, <1>15,
     InTheGame

-------------------------------------------------------------------------------
(* Steps that no server and no actor sees: of the clients, and of a connection *)
(* that forwards to its client.                                            *)

LEMMA ClientSide ==
  ASSUME IInv, ServerTypes, IntroTypes, ActorTypes, ConnTypes', ClientTypes',
         UNCHANGED <<serverVars, introVars, actorVars, conn, crashed>>
  PROVE  IInv'
<1>1. TypeOK /\ (crashed' = crashed)  BY DEF IInv
<1>2. TypeOK'  BY <1>1, SameTypes, TypesNext
<1>3. /\ turn' = turn /\ slots' = slots /\ gq' = gq /\ gwait' = gwait
      /\ here' = here /\ entering' = entering /\ iq' = iq /\ iwait' = iwait
      /\ actor' = actor /\ name' = name /\ aq' = aq /\ conn' = conn
  BY DEF serverVars, introVars, actorVars
<1>4. T!HasActive(turn') /\ SeatOwners'  BY <1>3 DEF IInv, SeatOwners
<1>5. ASSUME Running'
      PROVE  Inner'
  <2>1. Inner  BY <1>1, <1>5 DEF IInv, Running
  <2>2. ActorOfConn' /\ SeatKept' /\ NameKept' /\ SeatNamed'
    BY <1>3, <2>1 DEF Inner, ActorOfConn, SeatKept, NameKept, SeatNamed, Open
  <2>3. ServerWait' /\ LobbyMail'
    BY <1>3, <2>1 DEF Inner, ServerWait, SeatOf, LobbyMail, IntroAsks
  <2>4. TaskMail'  BY <1>3, <2>1 DEF Inner, TaskMail, TaskMailOf
  <2>5. MoversWait' /\ ActorMail'
    <3>1. GoesOn /\ SameAsks  BY <1>1, <1>3, SameCounts DEF GoesOn
    <3> QED  BY <1>3, <2>1, <3>1, MailKept DEF MoveUnderWay, ServerAsks
  <2>6. IntroMail' /\ Answers' /\ Seen'
    BY <1>3, <2>1 DEF Inner, IntroMail, IntroMailOf, Answers, Seen, Found, SeatOf
  <2>7. HandingOver' /\ OneTaking' /\ HereKept'
    BY <1>3, <2>1 DEF Inner, HandingOver, OneTaking, HereKept, SeatOf, Open
  <2>8. ActiveMoves'  BY <1>3, <2>1 DEF Inner, ActiveMoves, ActiveConn
  <2> QED  BY <2>2, <2>3, <2>4, <2>5, <2>6, <2>7, <2>8 DEF Inner
<1> QED  BY <1>2, <1>4, <1>5 DEF IInv

LEMMA PressStep ==
  ASSUME IInv, NEW c \in Conns, Press(c)
  PROVE  IInv'
<1>1. /\ presses[c] < PressesPerTurn /\ view[c] \in PlayedPhases
      /\ presses' = [presses EXCEPT ![c] = @ + 1]
      /\ cin' = [cin EXCEPT ![c] = Append(@, view[c])]
      /\ eager' = (eager \/ presses[c] > 0)
  BY DEF Press
<1>2. UNCHANGED <<serverVars, introVars, actorVars, connVars, client, view, chats, crashed>>
  BY DEF Press
<1>3. /\ TypeOK /\ ServerTypes /\ IntroTypes /\ ActorTypes /\ ConnTypes /\ ClientTypes
  BY TypeGroups DEF IInv
<1>4. presses[c] \in 0 .. PressesPerTurn /\ PressesPerTurn \in Nat /\ view[c] \in Phases
  BY <1>1, <1>3, SessionAssumption, PlayedPhasesAssumption DEF ClientTypes
<1>5. presses' \in [Conns -> 0 .. PressesPerTurn]
  <2>1. presses[c] + 1 \in 0 .. PressesPerTurn  BY <1>1, <1>4
  <2> QED  BY <1>1, <1>3, <2>1 DEF ClientTypes
<1>6. cin' \in [Conns -> Seq(Phases \cup {Chat})]
  <2>1. Append(cin[c], view[c]) \in Seq(Phases \cup {Chat})
    BY <1>3, <1>4, LastSent DEF ClientTypes
  <2> QED  BY <1>1, <1>3, <2>1 DEF ClientTypes
<1>7. ClientTypes' /\ ConnTypes'
  BY <1>1, <1>2, <1>3, <1>5, <1>6 DEF ClientTypes, ConnTypes, connVars
<1> QED  BY <1>2, <1>3, <1>7, ClientSide DEF connVars

LEMMA TypeChatStep ==
  ASSUME IInv, NEW c \in Conns, TypeChat(c)
  PROVE  IInv'
<1>1. /\ chats' = [chats EXCEPT ![c] = TRUE]
      /\ cin' = [cin EXCEPT ![c] = Append(@, Chat)]
  BY DEF TypeChat
<1>2. UNCHANGED <<serverVars, introVars, actorVars, connVars, client, view, presses,
                  eager, crashed>>
  BY DEF TypeChat
<1>3. /\ TypeOK /\ ServerTypes /\ IntroTypes /\ ActorTypes /\ ConnTypes /\ ClientTypes
  BY TypeGroups DEF IInv
<1>4. cin' \in [Conns -> Seq(Phases \cup {Chat})]
  <2>1. Append(cin[c], Chat) \in Seq(Phases \cup {Chat})
    BY <1>3, LastSent DEF ClientTypes
  <2> QED  BY <1>1, <1>3, <2>1 DEF ClientTypes
<1>5. ClientTypes' /\ ConnTypes'
  BY <1>1, <1>2, <1>3, <1>4 DEF ClientTypes, ConnTypes, connVars
<1> QED  BY <1>2, <1>3, <1>5, ClientSide DEF connVars

LEMMA QuitStep ==
  ASSUME IInv, NEW c \in Conns, Quit(c)
  PROVE  IInv'
<1>1. /\ client' = [client EXCEPT ![c] = "off"]
      /\ view' = [view EXCEPT ![c] = Wait]
      /\ presses' = [presses EXCEPT ![c] = 0]
  BY DEF Quit
<1>2. UNCHANGED <<serverVars, introVars, actorVars, connVars, eager, chats, cin,
                  crashed>>
  BY DEF Quit
<1>3. /\ TypeOK /\ ServerTypes /\ IntroTypes /\ ActorTypes /\ ConnTypes /\ ClientTypes
      /\ 0 \in 0 .. PressesPerTurn /\ Wait \in Statuses
  BY TypeGroups, SessionAssumption DEF IInv, Statuses
<1>4. ClientTypes' /\ ConnTypes'
  BY <1>1, <1>2, <1>3 DEF ClientTypes, ConnTypes, connVars
<1> QED  BY <1>2, <1>3, <1>4, ClientSide DEF connVars

LEMMA ForwardToClientStep ==
  ASSUME IInv, NEW c \in Conns, ForwardToClient(c)
  PROVE  IInv'
<1>1. /\ sock[c] # <<>>
      /\ sock' = [sock EXCEPT ![c] = Tail(@)]
      /\ \/ view' = [view EXCEPT ![c] = Head(sock[c])] /\ presses' = [presses EXCEPT ![c] = 0]
         \/ UNCHANGED <<view, presses>>
  BY DEF ForwardToClient
<1>2. UNCHANGED <<serverVars, introVars, actorVars, conn, client, eager, chats, cin,
                  crashed>>
  BY DEF ForwardToClient
<1>3. /\ TypeOK /\ ServerTypes /\ IntroTypes /\ ActorTypes /\ ConnTypes /\ ClientTypes
      /\ 0 \in 0 .. PressesPerTurn
  BY TypeGroups, SessionAssumption DEF IInv
<1>4. Head(sock[c]) \in Statuses /\ Tail(sock[c]) \in Seq(Statuses)
  BY <1>1, <1>3, FirstTaken DEF ConnTypes
<1>5. ClientTypes' /\ ConnTypes'
  BY <1>1, <1>2, <1>3, <1>4 DEF ClientTypes, ConnTypes
<1> QED  BY <1>2, <1>3, <1>5, ClientSide

-------------------------------------------------------------------------------
(* The commands of the game server.                                         *)

LEMMA GetActivePlayerStep ==
  ASSUME IInv, GetActivePlayer
  PROVE  IInv'
<1> DEFINE h == Head(gq).from
<1>1. /\ Running /\ gwait.op = "idle" /\ gq # <<>> /\ Head(gq).cmd = "GetActivePlayer"
      /\ gq' = Tail(gq)
      /\ conn' = [conn EXCEPT ![h].pc = "got_active", ![h].val = ActiveConn(turn)]
  BY DEF GetActivePlayer, Receive, Taken
<1>2. UNCHANGED <<turn, slots, gwait, lobby, here, entering, iq, iwait, actor,
                  name, aq, sock, client, view, presses, eager, chats, cin, crashed>>
  BY DEF GetActivePlayer, Taken, serverVars, introVars, actorVars, connVars, clientVars
<1>3. TypeOK /\ Inner /\ ServerTypes /\ ActorTypes /\ ConnTypes
  BY <1>1, TypeGroups DEF IInv
<1>4. h \in Conns /\ conn[h].pc = "w_active"  BY <1>1, <1>3, HeadTask
<1>5. Head(gq).cmd = "GetActivePlayer"  BY <1>1
<1>6. ActiveConn(turn) \in Conns  BY ActiveFacts, HeadFacts DEF IInv, ActiveConn
<1>7. /\ ConnTypes' /\ conn'[h].pc = "got_active" /\ conn'[h].val = ActiveConn(turn)
      /\ \A d \in Conns : d # h => conn'[d] = conn[d]
  <2> DEFINE r == [conn[h] EXCEPT !.pc = "got_active", !.val = ActiveConn(turn)]
  <2>1. conn' = [conn EXCEPT ![h] = r]  BY <1>1
  <2>2. conn[h] \in [pc : ConnPlaces, val : Conns \cup {NoConn}, move : Phases \cup {Nothing}]
    BY <1>4, <1>3 DEF ConnTypes
  <2>3. /\ r \in [pc : ConnPlaces, val : Conns \cup {NoConn}, move : Phases \cup {Nothing}]
        /\ r.pc = "got_active" /\ r.val = ActiveConn(turn)
    BY <2>2, <1>6 DEF ConnPlaces
  <2> HIDE DEF r
  <2> QED  BY <1>4, <1>2, <1>3, <2>1, <2>3 DEF ConnTypes
<1>8. StaysOn  BY <1>1, <1>2, <1>4, <1>7 DEF StaysOn, Loop, Booting, Busy
<1>9. TypeOK'
  <2>1. gq' \in Seq(Requests)  BY <1>1, <1>3, <1>4, AskedAfterTake
  <2>2. ServerTypes'  BY <1>2, <1>3, <2>1 DEF ServerTypes
  <2> QED
    BY <1>2, <1>3, <1>7, <2>2, SameTypes, TypesNext DEF introVars, actorVars, clientVars
<1>10. ServerWait' /\ LobbyMail'
  BY <1>1, <1>2, <1>3, ServerWaitIdle, LobbyMailTaken DEF IntroCmds
<1>11. TaskMail'
  <2> SUFFICES ASSUME NEW d \in Conns
               PROVE  TaskMailOf(d)'
    BY DEF TaskMail
  <2>1. TaskMailOf(d) /\ OneMore(gq, gq', Head(gq), d)
    BY <1>1, <1>3, <1>4, TakeCounts DEF Inner, TaskMail
  <2>2. (d # h => conn'[d] = conn[d]) /\ actor' = actor  BY <1>2, <1>7
  <2>3. CASE d = h
    <3>1. /\ conn'[d].pc = "got_active"
          /\ actor'[d] = actor[d]
          /\ Head(gq).cmd = "GetActivePlayer"
          /\ Head(gq).from = d
          /\ conn[d].pc = "w_active"
      BY <1>5, <1>4, <1>7, <2>2, <2>3
    <3> QED  BY <2>1, <3>1 DEF TaskMailOf, OneMore, OneIf
  <2>4. CASE d # h
    <3>1. conn'[d] = conn[d] /\ actor'[d] = actor[d] /\ Head(gq).from # d
      BY <2>2, <2>4
    <3> QED  BY <2>1, <3>1 DEF TaskMailOf, OneMore, OneIf
  <2> QED  BY <2>3, <2>4
<1>12. SameAsks  BY <1>1, <1>2, <1>3, SameCounts
<1>13. MoversWait' /\ ActorMail'
  BY <1>1, <1>2, <1>3, <1>4, <1>7, <1>8, <1>12, StaysGoesOn, MailKept DEF MoveUnderWay, ServerAsks
<1>14. ActiveMoves'
  BY <1>1, <1>2, <1>3, <1>4, <1>7 DEF Inner, ActiveMoves, ActiveConn
<1>15. T!HasActive(turn')  BY <1>2 DEF IInv
<1> QED
  BY <1>2, <1>3, <1>8, <1>9, <1>10, <1>11, <1>13, <1>14, <1>15,
     StaysGoesOn, ActorsStay, InTheGame

LEMMA GetMonstersConnStep ==
  ASSUME IInv, GetMonsters, conn[Head(gq).from].pc = "w_boot"
  PROVE  IInv'
<1> DEFINE h == Head(gq).from
<1>1. /\ Running /\ gwait.op = "idle" /\ gq # <<>> /\ Head(gq).cmd = "GetMonsters"
      /\ gq' = Tail(gq)
      /\ conn' = [conn EXCEPT ![h].pc = "booted"]
  BY DEF GetMonsters, Receive, Taken
<1>2. UNCHANGED <<turn, slots, gwait, lobby, here, entering, iq, iwait, actor,
                  name, aq, sock, client, view, presses, eager, chats, cin, crashed>>
  BY DEF GetMonsters, Taken, serverVars, introVars, actorVars, connVars, clientVars
<1>3. TypeOK /\ Inner /\ ServerTypes /\ ActorTypes /\ ConnTypes
  BY <1>1, TypeGroups DEF IInv
<1>4. h \in Conns /\ conn[h].pc = "w_boot" /\ actor[h] = "boot"
  BY <1>1, <1>3, HeadTask
<1>5. Head(gq).cmd = "GetMonsters"  BY <1>1
<1>6. /\ ConnTypes' /\ conn'[h].pc = "booted" /\ conn'[h].val = conn[h].val
      /\ \A d \in Conns : d # h => conn'[d] = conn[d]
  BY <1>1, <1>2, <1>3, <1>4, GotoFacts DEF ConnTypes, ConnPlaces
<1>7. StaysOn  BY <1>1, <1>2, <1>4, <1>6 DEF StaysOn, Loop, Booting, Busy
<1>8. TypeOK'
  <2>1. gq' \in Seq(Requests)  BY <1>1, <1>3, <1>4, AskedAfterTake
  <2>2. ServerTypes'  BY <1>2, <1>3, <2>1 DEF ServerTypes
  <2> QED
    BY <1>2, <1>3, <1>6, <2>2, SameTypes, TypesNext DEF introVars, actorVars, clientVars
<1>9. ServerWait' /\ LobbyMail'
  BY <1>1, <1>2, <1>3, ServerWaitIdle, LobbyMailTaken DEF IntroCmds
<1>10. TaskMail'
  <2> SUFFICES ASSUME NEW d \in Conns
               PROVE  TaskMailOf(d)'
    BY DEF TaskMail
  <2>1. TaskMailOf(d) /\ OneMore(gq, gq', Head(gq), d)
    BY <1>1, <1>3, <1>4, TakeCounts DEF Inner, TaskMail
  <2>2. (d # h => conn'[d] = conn[d]) /\ actor' = actor  BY <1>2, <1>6
  <2>3. CASE d = h
    <3>1. /\ conn'[d].pc = "booted"
          /\ actor'[d] = actor[d]
          /\ Head(gq).cmd = "GetMonsters"
          /\ Head(gq).from = d
          /\ conn[d].pc = "w_boot"
          /\ actor[d] = "boot"
      BY <1>5, <1>4, <1>6, <2>2, <2>3
    <3> QED  BY <2>1, <3>1 DEF TaskMailOf, OneMore, OneIf
  <2>4. CASE d # h
    <3>1. conn'[d] = conn[d] /\ actor'[d] = actor[d] /\ Head(gq).from # d
      BY <2>2, <2>4
    <3> QED  BY <2>1, <3>1 DEF TaskMailOf, OneMore, OneIf
  <2> QED  BY <2>3, <2>4
<1>11. SameAsks  BY <1>1, <1>2, <1>3, SameCounts
<1>12. MoversWait' /\ ActorMail'
  BY <1>1, <1>2, <1>3, <1>4, <1>6, <1>7, <1>11, StaysGoesOn, MailKept DEF MoveUnderWay, ServerAsks
<1>13. ActiveMoves'
  BY <1>1, <1>2, <1>3, <1>4, <1>6 DEF Inner, ActiveMoves, ActiveConn
<1>14. T!HasActive(turn')  BY <1>2 DEF IInv
<1> QED
  BY <1>2, <1>3, <1>7, <1>8, <1>9, <1>10, <1>12, <1>13, <1>14,
     StaysGoesOn, ActorsStay, InTheGame

LEMMA GetMonstersActorStep ==
  ASSUME IInv, GetMonsters, conn[Head(gq).from].pc # "w_boot"
  PROVE  IInv'
<1> DEFINE h == Head(gq).from
<1>1. /\ Running /\ gwait.op = "idle" /\ gq # <<>> /\ Head(gq).cmd = "GetMonsters"
      /\ gq' = Tail(gq)
      /\ actor' = [actor EXCEPT ![h] = "got_monsters"]
  BY DEF GetMonsters, Receive, Taken
<1>2. UNCHANGED <<turn, slots, gwait, lobby, here, entering, iq, iwait, name,
                  aq, conn, sock, client, view, presses, eager, chats, cin, crashed>>
  BY DEF GetMonsters, Taken, serverVars, introVars, actorVars, connVars, clientVars
<1>3. TypeOK /\ Inner /\ ServerTypes /\ ActorTypes /\ ConnTypes
  BY <1>1, TypeGroups DEF IInv
<1>4. h \in Conns /\ conn[h].pc # "w_boot" /\ actor[h] = "w_monsters"
  BY <1>1, <1>3, HeadTask
<1>5. Head(gq).cmd = "GetMonsters"  BY <1>1
<1>6. /\ actor' \in [Conns -> ActorStates] /\ actor'[h] = "got_monsters"
      /\ \A d \in Conns : d # h => actor'[d] = actor[d]
  BY <1>1, <1>2, <1>3, <1>4, ActFacts DEF ActorStates
<1>7. StaysOn  BY <1>1, <1>2, <1>4, <1>6 DEF StaysOn, Loop, Booting, Busy
<1>8. TypeOK'
  <2>1. gq' \in Seq(Requests)  BY <1>1, <1>3, <1>4, AskedAfterTake
  <2>2. ServerTypes'  BY <1>2, <1>3, <2>1 DEF ServerTypes
  <2>3. ActorTypes'  BY <1>2, <1>3, <1>6 DEF ActorTypes
  <2> QED
    BY <1>2, <1>3, <2>2, <2>3, SameTypes, TypesNext DEF introVars, connVars, clientVars
<1>9. ServerWait' /\ LobbyMail'
  BY <1>1, <1>2, <1>3, ServerWaitIdle, LobbyMailTaken DEF IntroCmds
<1>10. TaskMail'
  <2> SUFFICES ASSUME NEW d \in Conns
               PROVE  TaskMailOf(d)'
    BY DEF TaskMail
  <2>1. TaskMailOf(d) /\ OneMore(gq, gq', Head(gq), d)
    BY <1>1, <1>3, <1>4, TakeCounts DEF Inner, TaskMail
  <2>2. (d # h => actor'[d] = actor[d]) /\ conn' = conn  BY <1>2, <1>6
  <2>3. CASE d = h
    <3>1. /\ actor'[d] = "got_monsters"
          /\ conn'[d] = conn[d]
          /\ Head(gq).cmd = "GetMonsters"
          /\ Head(gq).from = d
          /\ conn[d].pc # "w_boot"
          /\ actor[d] = "w_monsters"
      BY <1>5, <1>4, <1>6, <2>2, <2>3
    <3> QED  BY <2>1, <3>1 DEF TaskMailOf, OneMore, OneIf
  <2>4. CASE d # h
    <3>1. conn'[d] = conn[d] /\ actor'[d] = actor[d] /\ Head(gq).from # d
      BY <2>2, <2>4
    <3> QED  BY <2>1, <3>1 DEF TaskMailOf, OneMore, OneIf
  <2> QED  BY <2>3, <2>4
<1>11. SameAsks  BY <1>1, <1>2, <1>3, SameCounts
<1>12. MoversWait' /\ ActorMail'
  BY <1>1, <1>2, <1>3, <1>4, <1>6, <1>7, <1>11, StaysGoesOn, MailKept DEF MoveUnderWay, ServerAsks
<1>13. ActiveMoves'
  BY <1>1, <1>2, <1>3, <1>4, <1>6 DEF Inner, ActiveMoves, ActiveConn
<1>14. T!HasActive(turn')  BY <1>2 DEF IInv
<1> QED
  BY <1>2, <1>3, <1>7, <1>8, <1>9, <1>10, <1>12, <1>13, <1>14,
     StaysGoesOn, ActorsStay, InTheGame

LEMMA DropMonsterOrContinueStep ==
  ASSUME IInv, DropMonsterOrContinue
  PROVE  IInv'
<1> DEFINE h == Head(gq).from
<1>1. /\ Running /\ gwait.op = "idle" /\ gq # <<>>
      /\ Head(gq).cmd \in {"DropMonster", "ContinueGameCycle"}
      /\ gq' = Tail(gq)
      /\ actor' = [actor EXCEPT ![h] = "may_switch"]
  BY DEF DropMonsterOrContinue, Receive, Taken
<1>2. UNCHANGED <<turn, slots, gwait, lobby, here, entering, iq, iwait, name,
                  aq, conn, sock, client, view, presses, eager, chats, cin, crashed>>
  BY DEF DropMonsterOrContinue, Taken, serverVars, introVars, actorVars, connVars, clientVars
<1>3. TypeOK /\ Inner /\ ServerTypes /\ ActorTypes /\ ConnTypes
  BY <1>1, TypeGroups DEF IInv
<1>4. h \in Conns /\ actor[h] = "w_monster"  BY <1>1, <1>3, HeadTask
<1>5. Head(gq).cmd \in {"DropMonster", "ContinueGameCycle"}  BY <1>1
<1>6. /\ actor' \in [Conns -> ActorStates] /\ actor'[h] = "may_switch"
      /\ \A d \in Conns : d # h => actor'[d] = actor[d]
  BY <1>1, <1>2, <1>3, <1>4, ActFacts DEF ActorStates
<1>7. StaysOn  BY <1>1, <1>2, <1>4, <1>6 DEF StaysOn, Loop, Booting, Busy
<1>8. TypeOK'
  <2>1. gq' \in Seq(Requests)  BY <1>1, <1>3, <1>4, AskedAfterTake
  <2>2. ServerTypes'  BY <1>2, <1>3, <2>1 DEF ServerTypes
  <2>3. ActorTypes'  BY <1>2, <1>3, <1>6 DEF ActorTypes
  <2> QED
    BY <1>2, <1>3, <2>2, <2>3, SameTypes, TypesNext DEF introVars, connVars, clientVars
<1>9. ServerWait' /\ LobbyMail'
  BY <1>1, <1>2, <1>3, ServerWaitIdle, LobbyMailTaken DEF IntroCmds
<1>10. TaskMail'
  <2> SUFFICES ASSUME NEW d \in Conns
               PROVE  TaskMailOf(d)'
    BY DEF TaskMail
  <2>1. TaskMailOf(d) /\ OneMore(gq, gq', Head(gq), d)
    BY <1>1, <1>3, <1>4, TakeCounts DEF Inner, TaskMail
  <2>2. (d # h => actor'[d] = actor[d]) /\ conn' = conn  BY <1>2, <1>6
  <2>3. CASE d = h
    <3>1. /\ actor'[d] = "may_switch"
          /\ conn'[d] = conn[d]
          /\ Head(gq).cmd \in {"DropMonster", "ContinueGameCycle"}
          /\ Head(gq).from = d
          /\ actor[d] = "w_monster"
      BY <1>5, <1>4, <1>6, <2>2, <2>3
    <3> QED  BY <2>1, <3>1 DEF TaskMailOf, OneMore, OneIf
  <2>4. CASE d # h
    <3>1. conn'[d] = conn[d] /\ actor'[d] = actor[d] /\ Head(gq).from # d
      BY <2>2, <2>4
    <3> QED  BY <2>1, <3>1 DEF TaskMailOf, OneMore, OneIf
  <2> QED  BY <2>3, <2>4
<1>11. SameAsks  BY <1>1, <1>2, <1>3, SameCounts
<1>12. MoversWait' /\ ActorMail'
  BY <1>1, <1>2, <1>3, <1>4, <1>6, <1>7, <1>11, StaysGoesOn, MailKept DEF MoveUnderWay, ServerAsks
<1>13. ActiveMoves'
  BY <1>1, <1>2, <1>3, <1>4, <1>6 DEF Inner, ActiveMoves, ActiveConn
<1>14. T!HasActive(turn')  BY <1>2 DEF IInv
<1> QED
  BY <1>2, <1>3, <1>7, <1>8, <1>9, <1>10, <1>12, <1>13, <1>14,
     StaysGoesOn, ActorsStay, InTheGame

(* The turn moves on: the one player who was moving has switched. *)
LEMMA SwitchPlayerStep ==
  ASSUME IInv, SwitchPlayer
  PROVE  IInv'
<1> DEFINE h == Head(gq).from
<1>1. /\ Running /\ gwait.op = "idle" /\ gq # <<>> /\ Head(gq).cmd = "SwitchToNextPlayer"
      /\ gq' = Tail(gq)
      /\ turn' = T!SwitchToNextPlayer(turn)
      /\ aq' = TurnMessages(aq, ActiveConn(turn'), turn'.phase)
      /\ actor' = [actor EXCEPT ![h] = "switched"]
  BY DEF SwitchPlayer, Receive, Taken
<1>2. UNCHANGED <<slots, gwait, lobby, here, entering, iq, iwait, name, conn,
                  sock, client, view, presses, eager, chats, cin, crashed>>
  BY DEF SwitchPlayer, Taken, serverVars, introVars, actorVars, connVars, clientVars
<1>3. TypeOK /\ Inner /\ ServerTypes /\ ActorTypes /\ ConnTypes
  BY <1>1, TypeGroups DEF IInv
<1>4. h \in Conns /\ actor[h] = "w_switch" /\ conn[h].pc = "w_move"
  BY <1>1, <1>3, HeadTask DEF Inner, MoversWait, MoveUnderWay
<1>5. turn' \in T!Turn /\ T!HasActive(turn') /\ turn'.phase \in Phases
  BY <1>1, SwitchFacts DEF IInv, T!Turn, Phases
<1>6. Head(gq).cmd = "SwitchToNextPlayer"  BY <1>1
<1>7. /\ actor' \in [Conns -> ActorStates] /\ actor'[h] = "switched"
      /\ \A d \in Conns : d # h => actor'[d] = actor[d]
  BY <1>1, <1>2, <1>3, <1>4, ActFacts DEF ActorStates
<1>8. StaysOn  BY <1>1, <1>2, <1>4, <1>7 DEF StaysOn, Loop, Booting, Busy
<1>9. SameAsks /\ aq' \in [Conns -> Seq(ActorMessages)]
  <2> DEFINE q == Post(aq, OnlineSeats \ {ActiveConn(turn')}, SendTcp(Wait))
  <2>1. /\ SendTcp(Wait) \in ActorMessages /\ SendTcp(Wait).msg \notin Counted
        /\ SendTcp(turn'.phase) \in ActorMessages /\ SendTcp(turn'.phase).msg \notin Counted
    BY <1>5, MessageFacts DEF Statuses, Counted
  <2>2. aq \in [Conns -> Seq(ActorMessages)]  BY <1>3 DEF ActorTypes
  <2>3. /\ q \in [Conns -> Seq(ActorMessages)]
        /\ \A y \in Conns : \A d : SameFor(q[y], aq[y], d)
    BY <2>1, <2>2, PostFacts
  <2>4. aq' = Post(q, {ActiveConn(turn')}, SendTcp(turn'.phase))
    BY <1>1 DEF TurnMessages
  <2> HIDE DEF q
  <2>5. /\ aq' \in [Conns -> Seq(ActorMessages)]
        /\ \A y \in Conns : \A d : SameFor(aq'[y], q[y], d)
    BY <2>1, <2>3, <2>4, PostFacts
  <2>6. ASSUME NEW y \in Conns, NEW d
        PROVE  SameFor(aq'[y], aq[y], d)
    BY <2>3, <2>5 DEF SameFor
  <2> QED  BY <2>5, <2>6 DEF SameAsks
<1>10. TypeOK'
  <2>1. gq' \in Seq(Requests)  BY <1>1, <1>3, <1>4, AskedAfterTake
  <2>2. ServerTypes'  BY <1>5, <1>2, <1>3, <2>1 DEF ServerTypes
  <2>3. aq' \in [Conns -> Seq(ActorMessages)]  BY <1>9
  <2>4. ActorTypes'  BY <1>2, <1>3, <1>7, <2>3 DEF ActorTypes
  <2> QED
    BY <1>2, <1>3, <2>2, <2>4, SameTypes, TypesNext DEF introVars, connVars, clientVars
<1>11. ServerWait' /\ LobbyMail'
  BY <1>1, <1>2, <1>3, ServerWaitIdle, LobbyMailTaken DEF IntroCmds
<1>12. TaskMail'
  <2> SUFFICES ASSUME NEW d \in Conns
               PROVE  TaskMailOf(d)'
    BY DEF TaskMail
  <2>1. TaskMailOf(d) /\ OneMore(gq, gq', Head(gq), d)
    BY <1>1, <1>3, <1>4, TakeCounts DEF Inner, TaskMail
  <2>2. (d # h => actor'[d] = actor[d]) /\ conn' = conn  BY <1>2, <1>7
  <2>3. CASE d = h
    <3>1. /\ actor'[d] = "switched"
          /\ conn'[d] = conn[d]
          /\ Head(gq).cmd = "SwitchToNextPlayer"
          /\ Head(gq).from = d
          /\ actor[d] = "w_switch"
          /\ conn[d].pc = "w_move"
      BY <1>6, <1>4, <1>7, <2>2, <2>3
    <3> QED  BY <2>1, <3>1 DEF TaskMailOf, OneMore, OneIf
  <2>4. CASE d # h
    <3>1. conn'[d] = conn[d] /\ actor'[d] = actor[d] /\ Head(gq).from # d
      BY <2>2, <2>4
    <3> QED  BY <2>1, <3>1 DEF TaskMailOf, OneMore, OneIf
  <2> QED  BY <2>3, <2>4
<1>13. MoversWait' /\ ActorMail'
  BY <1>1, <1>2, <1>3, <1>4, <1>7, <1>8, <1>9, StaysGoesOn, MailKept DEF MoveUnderWay, ServerAsks
<1>14. ActiveMoves'
  <2>1. h = ActiveConn(turn)  BY <1>4, <1>3 DEF Inner, ActiveMoves
  <2>2. conn' = conn  BY <1>2
  <2> QED  BY <1>4, <1>3, <1>7, <2>1, <2>2 DEF Inner, ActiveMoves
<1>15. T!HasActive(turn')  BY <1>5
<1> QED
  BY <1>2, <1>3, <1>8, <1>10, <1>11, <1>12, <1>13, <1>14, <1>15,
     StaysGoesOn, ActorsStay, InTheGame

LEMMA BroadcastStep ==
  ASSUME IInv, Broadcast
  PROVE  IInv'
<1> DEFINE h == Head(gq).from
<1>1. /\ Running /\ gwait.op = "idle" /\ gq # <<>> /\ Head(gq).cmd = "Broadcast"
      /\ gq' = Tail(gq)
      /\ aq' = Post(aq, OnlineSeats \ {h}, SendTcp(Chat))
      /\ conn' = [conn EXCEPT ![h].pc = "read"]
  BY DEF Broadcast, Receive, Taken
<1>2. UNCHANGED <<turn, slots, gwait, lobby, here, entering, iq, iwait, actor,
                  name, sock, client, view, presses, eager, chats, cin, crashed>>
  BY DEF Broadcast, Taken, serverVars, introVars, actorVars, connVars, clientVars
<1>3. TypeOK /\ Inner /\ ServerTypes /\ ActorTypes /\ ConnTypes
  BY <1>1, TypeGroups DEF IInv
<1>4. h \in Conns /\ conn[h].pc = "w_chat"  BY <1>1, <1>3, HeadTask
<1>5. Head(gq).cmd = "Broadcast"  BY <1>1
<1>6. /\ ConnTypes' /\ conn'[h].pc = "read" /\ conn'[h].val = conn[h].val
      /\ \A d \in Conns : d # h => conn'[d] = conn[d]
  BY <1>1, <1>2, <1>3, <1>4, GotoFacts DEF ConnTypes, ConnPlaces
<1>7. StaysOn  BY <1>1, <1>2, <1>4, <1>6 DEF StaysOn, Loop, Booting, Busy
<1>8. SameAsks /\ aq' \in [Conns -> Seq(ActorMessages)]
  <2>1. SendTcp(Chat) \in ActorMessages /\ SendTcp(Chat).msg \notin Counted
    BY MessageFacts DEF Counted
  <2>2. aq \in [Conns -> Seq(ActorMessages)]  BY <1>3 DEF ActorTypes
  <2>3. /\ aq' \in [Conns -> Seq(ActorMessages)]
        /\ \A y \in Conns : \A d : SameFor(aq'[y], aq[y], d)
    BY <1>1, <2>1, <2>2, PostFacts
  <2> QED  BY <2>3 DEF SameAsks
<1>9. TypeOK'
  <2>1. gq' \in Seq(Requests)  BY <1>1, <1>3, <1>4, AskedAfterTake
  <2>2. ServerTypes'  BY <1>2, <1>3, <2>1 DEF ServerTypes
  <2>3. aq' \in [Conns -> Seq(ActorMessages)]  BY <1>8
  <2>4. ActorTypes'  BY <1>2, <1>3, <2>3 DEF ActorTypes
  <2> QED
    BY <1>2, <1>3, <1>6, <2>2, <2>4, SameTypes, TypesNext DEF introVars, clientVars
<1>10. ServerWait' /\ LobbyMail'
  BY <1>1, <1>2, <1>3, ServerWaitIdle, LobbyMailTaken DEF IntroCmds
<1>11. TaskMail'
  <2> SUFFICES ASSUME NEW d \in Conns
               PROVE  TaskMailOf(d)'
    BY DEF TaskMail
  <2>1. TaskMailOf(d) /\ OneMore(gq, gq', Head(gq), d)
    BY <1>1, <1>3, <1>4, TakeCounts DEF Inner, TaskMail
  <2>2. (d # h => conn'[d] = conn[d]) /\ actor' = actor  BY <1>2, <1>6
  <2>3. CASE d = h
    <3>1. /\ conn'[d].pc = "read"
          /\ actor'[d] = actor[d]
          /\ Head(gq).cmd = "Broadcast"
          /\ Head(gq).from = d
          /\ conn[d].pc = "w_chat"
      BY <1>5, <1>4, <1>6, <2>2, <2>3
    <3> QED  BY <2>1, <3>1 DEF TaskMailOf, OneMore, OneIf
  <2>4. CASE d # h
    <3>1. conn'[d] = conn[d] /\ actor'[d] = actor[d] /\ Head(gq).from # d
      BY <2>2, <2>4
    <3> QED  BY <2>1, <3>1 DEF TaskMailOf, OneMore, OneIf
  <2> QED  BY <2>3, <2>4
<1>12. MoversWait' /\ ActorMail'
  BY <1>1, <1>2, <1>3, <1>4, <1>6, <1>7, <1>8, StaysGoesOn, MailKept DEF MoveUnderWay, ServerAsks
<1>13. ActiveMoves'
  BY <1>1, <1>2, <1>3, <1>4, <1>6 DEF Inner, ActiveMoves, ActiveConn
<1>14. T!HasActive(turn')  BY <1>2 DEF IInv
<1> QED
  BY <1>2, <1>3, <1>7, <1>9, <1>10, <1>11, <1>12, <1>13, <1>14,
     StaysGoesOn, ActorsStay, InTheGame

LEMMA BroadcastGameStateStep ==
  ASSUME IInv, BroadcastGameState, Running'
  PROVE  IInv'
<1> DEFINE h == Head(gq).from
<1>1. /\ Running /\ gwait.op = "idle" /\ gq # <<>> /\ Head(gq).cmd = "BroadcastGameState"
      /\ gq' = Tail(gq)
      /\ aq' = Post(aq, Seated \ {h}, SyncWithClient)
  BY DEF BroadcastGameState, Receive, Taken, Panic, Running
<1>2. UNCHANGED <<turn, slots, gwait, lobby, here, entering, iq, iwait, actor,
                  name, conn, sock, client, view, presses, eager, chats, cin, crashed>>
  BY DEF BroadcastGameState, Taken, Panic, Running, serverVars, introVars, actorVars, connVars, clientVars
<1>3. TypeOK /\ Inner /\ ServerTypes /\ ActorTypes /\ ConnTypes
  BY <1>1, TypeGroups DEF IInv
<1>4. h \in Conns  BY <1>1, <1>3, HeadTask
<1>5. Head(gq).cmd = "BroadcastGameState"  BY <1>1
<1>6. StaysOn  BY <1>1, <1>2, <1>4 DEF StaysOn, Loop, Booting, Busy
<1>7. SameAsks /\ aq' \in [Conns -> Seq(ActorMessages)]
  <2>1. SyncWithClient \in ActorMessages /\ SyncWithClient.msg \notin Counted
    BY MessageFacts DEF Counted
  <2>2. aq \in [Conns -> Seq(ActorMessages)]  BY <1>3 DEF ActorTypes
  <2>3. /\ aq' \in [Conns -> Seq(ActorMessages)]
        /\ \A y \in Conns : \A d : SameFor(aq'[y], aq[y], d)
    BY <1>1, <2>1, <2>2, PostFacts
  <2> QED  BY <2>3 DEF SameAsks
<1>8. TypeOK'
  <2>1. gq' \in Seq(Requests)  BY <1>1, <1>3, <1>4, AskedAfterTake
  <2>2. ServerTypes'  BY <1>2, <1>3, <2>1 DEF ServerTypes
  <2>3. aq' \in [Conns -> Seq(ActorMessages)]  BY <1>7
  <2>4. ActorTypes'  BY <1>2, <1>3, <2>3 DEF ActorTypes
  <2> QED
    BY <1>2, <1>3, <2>2, <2>4, SameTypes, TypesNext DEF introVars, connVars, clientVars
<1>9. ServerWait' /\ LobbyMail'
  BY <1>1, <1>2, <1>3, ServerWaitIdle, LobbyMailTaken DEF IntroCmds
<1>10. TaskMail'
  <2> SUFFICES ASSUME NEW d \in Conns
               PROVE  TaskMailOf(d)'
    BY DEF TaskMail
  <2>1. TaskMailOf(d) /\ OneMore(gq, gq', Head(gq), d)
    BY <1>1, <1>3, <1>4, TakeCounts DEF Inner, TaskMail
  <2>2. conn' = conn /\ actor' = actor  BY <1>2
  <2>3. CASE d = h
    <3>1. /\ conn'[d] = conn[d]
          /\ actor'[d] = actor[d]
          /\ Head(gq).cmd = "BroadcastGameState"
          /\ Head(gq).from = d
      BY <1>5, <1>4, <2>2, <2>3
    <3> QED  BY <2>1, <3>1 DEF TaskMailOf, OneMore, OneIf
  <2>4. CASE d # h
    <3>1. conn'[d] = conn[d] /\ actor'[d] = actor[d] /\ Head(gq).from # d
      BY <2>2, <2>4
    <3> QED  BY <2>1, <3>1 DEF TaskMailOf, OneMore, OneIf
  <2> QED  BY <2>3, <2>4
<1>11. MoversWait' /\ ActorMail'
  BY <1>1, <1>2, <1>3, <1>4, <1>6, <1>7, StaysGoesOn, MailKept DEF MoveUnderWay, ServerAsks
<1>12. ActiveMoves'
  BY <1>1, <1>2, <1>3, <1>4 DEF Inner, ActiveMoves, ActiveConn
<1>13. T!HasActive(turn')  BY <1>2 DEF IInv
<1> QED
  BY <1>2, <1>3, <1>6, <1>8, <1>9, <1>10, <1>11, <1>12, <1>13,
     StaysGoesOn, ActorsStay, InTheGame

LEMMA AnswerUsernameStep ==
  ASSUME IInv, AnswerUsername
  PROVE  IInv'
<1> DEFINE h == Head(gq).from
<1>1. /\ Running /\ gwait.op = "GetPeerUsername" /\ gwait.got # Pending
      /\ gq' = Tail(gq)
      /\ gwait' = ServerIdle
      /\ conn' = [conn EXCEPT ![h].pc = "answer_turn"]
  BY DEF AnswerUsername, Came, Finished
<1>2. UNCHANGED <<turn, slots, lobby, here, entering, iq, iwait, actor, name,
                  aq, sock, client, view, presses, eager, chats, cin, crashed>>
  BY DEF AnswerUsername, Finished, serverVars, introVars, actorVars, connVars, clientVars
<1>3. TypeOK /\ Inner /\ ServerTypes /\ ActorTypes /\ ConnTypes
  BY <1>1, TypeGroups DEF IInv
<1>4. gq # <<>> /\ Head(gq).cmd = "GetPeerUsername"
  BY <1>1, <1>3 DEF Inner, ServerWait
<1>5. h \in Conns /\ conn[h].pc = "w_name"  BY <1>4, <1>3, HeadTask
<1>6. gwait' \in [op : Searches \cup {"idle", "GetPeerUsername", "DropPeer"},
                   asked : Conns \cup {NoConn}, got : Names \cup {Pending},
                   found : Conns \cup {NoConn}]
  BY <1>1 DEF ServerIdle
<1>7. Head(gq).cmd = "GetPeerUsername"  BY <1>4
<1>8. /\ ConnTypes' /\ conn'[h].pc = "answer_turn" /\ conn'[h].val = conn[h].val
      /\ \A d \in Conns : d # h => conn'[d] = conn[d]
  BY <1>1, <1>2, <1>3, <1>4, <1>5, GotoFacts DEF ConnTypes, ConnPlaces
<1>9. StaysOn  BY <1>1, <1>2, <1>4, <1>5, <1>8 DEF StaysOn, Loop, Booting, Busy
<1>10. TypeOK'
  <2>1. gq' \in Seq(Requests)  BY <1>1, <1>3, <1>4, <1>5, AskedAfterTake
  <2>2. ServerTypes'  BY <1>2, <1>3, <1>6, <2>1 DEF ServerTypes
  <2> QED
    BY <1>2, <1>3, <1>8, <2>2, SameTypes, TypesNext DEF introVars, actorVars, clientVars
<1>11. ServerWait' /\ LobbyMail'
  <2>1. ServerWait'  BY <1>1 DEF ServerWait, ServerIdle
  <2>2. LobbyMail'  BY <1>1, <1>4, <1>2, <1>3, LobbyMailTaken DEF IntroCmds
  <2> QED  BY <2>1, <2>2
<1>12. TaskMail'
  <2> SUFFICES ASSUME NEW d \in Conns
               PROVE  TaskMailOf(d)'
    BY DEF TaskMail
  <2>1. TaskMailOf(d) /\ OneMore(gq, gq', Head(gq), d)
    BY <1>1, <1>3, <1>4, <1>5, TakeCounts DEF Inner, TaskMail
  <2>2. (d # h => conn'[d] = conn[d]) /\ actor' = actor  BY <1>2, <1>8
  <2>3. CASE d = h
    <3>1. /\ conn'[d].pc = "answer_turn"
          /\ actor'[d] = actor[d]
          /\ Head(gq).cmd = "GetPeerUsername"
          /\ Head(gq).from = d
          /\ conn[d].pc = "w_name"
      BY <1>7, <1>4, <1>5, <1>8, <2>2, <2>3
    <3> QED  BY <2>1, <3>1 DEF TaskMailOf, OneMore, OneIf
  <2>4. CASE d # h
    <3>1. conn'[d] = conn[d] /\ actor'[d] = actor[d] /\ Head(gq).from # d
      BY <2>2, <2>4
    <3> QED  BY <2>1, <3>1 DEF TaskMailOf, OneMore, OneIf
  <2> QED  BY <2>3, <2>4
<1>13. SameAsks  BY <1>1, <1>2, <1>3, SameCounts
<1>14. MoversWait' /\ ActorMail'
  BY <1>1, <1>2, <1>3, <1>4, <1>5, <1>8, <1>9, <1>13, StaysGoesOn, MailKept DEF MoveUnderWay, ServerAsks, ServerIdle
<1>15. ActiveMoves'
  BY <1>1, <1>2, <1>3, <1>4, <1>5, <1>8 DEF Inner, ActiveMoves, ActiveConn
<1>16. T!HasActive(turn')  BY <1>2 DEF IInv
<1> QED
  BY <1>2, <1>3, <1>9, <1>10, <1>11, <1>12, <1>14, <1>15, <1>16,
     StaysGoesOn, ActorsStay, InTheGame

-------------------------------------------------------------------------------
(* The steps of an actor.                                                   *)

(* The actor begins the move; its connection is waiting for it. *)
LEMMA StartMoveStep ==
  ASSUME IInv, NEW c \in Conns, StartMove(c)
  PROVE  IInv'
<1> DEFINE k == Head(aq[c]).what
<1> DEFINE m == Command(MoveCommand(k), c)
<1>1. /\ Running /\ actor[c] = "idle" /\ aq[c] # <<>> /\ Head(aq[c]).msg = "Move"
      /\ gq' = Append(gq, m)
      /\ actor' = [actor EXCEPT ![c] = MoveState(k)]
      /\ aq' = [aq EXCEPT ![c] = Tail(@)]
  BY DEF StartMove, Handles, PopTo
<1>2. UNCHANGED <<turn, slots, gwait, lobby, here, entering, iq, iwait, name,
                  conn, sock, client, view, presses, eager, chats, cin, crashed>>
  BY DEF StartMove, serverVars, introVars, connVars, clientVars
<1>3. TypeOK /\ Inner /\ ServerTypes /\ ActorTypes /\ ConnTypes
  BY <1>1, TypeGroups DEF IInv
<1>4. /\ Head(aq[c]).asker = c
      /\ conn[c].pc = "w_move" /\ ~ MoveUnderWay(c)
  BY <1>1, <1>3, HeadMail
<1>5. \/ MoveState(k) = "w_switch" /\ MoveCommand(k) = "SwitchToNextPlayer"
      \/ MoveState(k) = "w_monster" /\ MoveCommand(k) \in {"DropMonster", "ContinueGameCycle"}
  BY DEF MoveState, MoveCommand
<1>6. /\ m \in Requests /\ m.cmd = MoveCommand(k) /\ m.from = c
      /\ m.cmd \notin IntroCmds
  BY <1>5, MessageFacts DEF Commands, IntroCmds
<1> HIDE DEF m, k
<1>7. /\ actor' \in [Conns -> ActorStates] /\ actor'[c] = MoveState(k)
      /\ \A d \in Conns : d # c => actor'[d] = actor[d]
  BY <1>1, <1>2, <1>3, <1>4, <1>5, ActFacts DEF ActorStates
<1>8. StaysOn  BY <1>1, <1>2, <1>4, <1>5, <1>7 DEF StaysOn, Loop, Booting, Busy
<1>9. TypeOK'
  <2>1. gq' \in Seq(Requests)  BY <1>1, <1>3, <1>6, AskedAfterSend
  <2>2. ServerTypes'  BY <1>2, <1>3, <2>1 DEF ServerTypes
  <2>3. aq' \in [Conns -> Seq(ActorMessages)]
    BY <1>1, <1>3, <1>6, <1>4, <1>5, PopFacts
  <2>4. ActorTypes'  BY <1>2, <1>3, <1>7, <2>3 DEF ActorTypes
  <2> QED
    BY <1>2, <1>3, <2>2, <2>4, SameTypes, TypesNext DEF introVars, connVars, clientVars
<1>10. ServerWait' /\ LobbyMail'
  BY <1>1, <1>2, <1>3, <1>6, ServerWaitSent, LobbyMailSent DEF IntroCmds
<1>11. TaskMail'
  <2> SUFFICES ASSUME NEW d \in Conns
               PROVE  TaskMailOf(d)'
    BY DEF TaskMail
  <2>1. TaskMailOf(d) /\ OneMore(gq', gq, m, d)
    BY <1>1, <1>3, <1>6, SendCounts DEF Inner, TaskMail
  <2>2. (d # c => actor'[d] = actor[d]) /\ conn' = conn  BY <1>2, <1>7
  <2>3. CASE d = c
    <3>1. /\ actor'[d] = MoveState(k)
          /\ conn'[d] = conn[d]
          /\ m.cmd = MoveCommand(k)
          /\ m.from = d
          /\ actor[d] = "idle"
      BY <1>1, <1>6, <1>4, <1>5, <1>7, <2>2, <2>3
    <3>2. \/ actor'[d] = "w_switch" /\ m.cmd = "SwitchToNextPlayer"
          \/ actor'[d] = "w_monster" /\ m.cmd \in {"DropMonster", "ContinueGameCycle"}
      BY <1>5, <1>6, <3>1
    <3>3. conn'[d] = conn[d] /\ actor[d] = "idle" /\ m.from = d  BY <3>1
    <3>4. CASE actor'[d] = "w_switch" /\ m.cmd = "SwitchToNextPlayer"
      BY <2>1, <3>3, <3>4 DEF TaskMailOf, OneMore, OneIf
    <3>5. CASE actor'[d] = "w_monster" /\ m.cmd = "DropMonster"
      BY <2>1, <3>3, <3>5 DEF TaskMailOf, OneMore, OneIf
    <3>6. CASE actor'[d] = "w_monster" /\ m.cmd = "ContinueGameCycle"
      BY <2>1, <3>3, <3>6 DEF TaskMailOf, OneMore, OneIf
    <3> QED  BY <3>2, <3>4, <3>5, <3>6
  <2>4. CASE d # c
    <3>1. conn'[d] = conn[d] /\ actor'[d] = actor[d] /\ m.from # d
      BY <1>6, <2>2, <2>4
    <3> QED  BY <2>1, <3>1 DEF TaskMailOf, OneMore, OneIf
  <2> QED  BY <2>3, <2>4
<1>12. /\ \A d : OneMoreTo(aq[c], aq'[c], Head(aq[c]), d)
       /\ \A y \in Conns : y # c => aq'[y] = aq[y]
  BY <1>1, <1>3, <1>4, PopFacts
<1>13. MoversWait' /\ ActorMail'
  <2>1. \A x \in Conns : x # c => /\ MoveUnderWay(x)' <=> MoveUnderWay(x)
                                  /\ conn'[x] = conn[x]
    BY <1>2, <1>7 DEF MoveUnderWay
  <2>2. \A x \in Conns : ServerAsks(x)' <=> ServerAsks(x)
    BY <1>2 DEF ServerAsks
  <2>3. /\ conn[c].pc = "w_move" /\ conn'[c].pc = "w_move"
        /\ ~ MoveUnderWay(c) /\ MoveUnderWay(c)' /\ Head(aq[c]).msg = "Move"
    BY <1>1, <1>2, <1>4, <1>5, <1>7 DEF MoveUnderWay
  <2>4. MoversWait'  BY <1>3, <2>1, <2>3 DEF Inner, MoversWait
  <2>5. ASSUME NEW x \in Conns, NEW d \in Conns \cup {NoConn}
        PROVE  MailOf(x, d)'
    <3>1. MailOf(x, d)  BY <1>3 DEF Inner, ActorMail
    <3>2. (iwait.op = "answer" /\ iwait.old = x /\ iwait.from = d
             /\ conn[iwait.from].pc = "w_take")'
          <=> (iwait.op = "answer" /\ iwait.old = x /\ iwait.from = d
             /\ conn[iwait.from].pc = "w_take")
      BY <1>2, <1>3, <1>8, StaysGoesOn, TakeKept
    <3>3. CASE x = c
      <4>1. OneMoreTo(aq[c], aq'[c], Head(aq[c]), d)  BY <1>12
      <4>2. c # NoConn  BY ConnFacts
      <4> QED
        BY <1>4, <2>2, <2>3, <3>1, <3>2, <3>3, <4>1, <4>2 DEF MailOf, OneMoreTo, OneIf
    <3>4. CASE x # c
      <4>1. aq'[x] = aq[x] /\ conn'[x] = conn[x] /\ (MoveUnderWay(x)' <=> MoveUnderWay(x))
        BY <1>12, <2>1, <3>4
      <4> QED  BY <2>2, <3>1, <3>2, <4>1 DEF MailOf, OneIf
    <3> QED  BY <3>3, <3>4
  <2> QED  BY <2>4, <2>5 DEF ActorMail
<1>14. ActiveMoves'
  BY <1>1, <1>2, <1>3, <1>4, <1>5, <1>7 DEF Inner, ActiveMoves, ActiveConn
<1>15. T!HasActive(turn')  BY <1>2 DEF IInv
<1> QED
  BY <1>2, <1>3, <1>8, <1>9, <1>10, <1>11, <1>13, <1>14, <1>15,
     StaysGoesOn, ActorsStay, InTheGame

LEMMA GoOnToSwitchStep ==
  ASSUME IInv, NEW c \in Conns, GoOnToSwitch(c)
  PROVE  IInv'
<1> DEFINE m == Command("SwitchToNextPlayer", c)
<1>1. /\ Running /\ actor[c] = "may_switch"
      /\ gq' = Append(gq, m)
      /\ actor' = [actor EXCEPT ![c] = "w_switch"]
  BY DEF GoOnToSwitch
<1>2. UNCHANGED <<turn, slots, gwait, lobby, here, entering, iq, iwait, name,
                  aq, conn, sock, client, view, presses, eager, chats, cin, crashed>>
  BY DEF GoOnToSwitch, serverVars, introVars, connVars, clientVars
<1>3. TypeOK /\ Inner /\ ServerTypes /\ ActorTypes /\ ConnTypes
  BY <1>1, TypeGroups DEF IInv
<1>4. /\ m \in Requests /\ m.cmd = "SwitchToNextPlayer" /\ m.from = c
  BY MessageFacts DEF Commands
<1> HIDE DEF m
<1>5. /\ actor' \in [Conns -> ActorStates] /\ actor'[c] = "w_switch"
      /\ \A d \in Conns : d # c => actor'[d] = actor[d]
  BY <1>1, <1>2, <1>3, ActFacts DEF ActorStates
<1>6. StaysOn  BY <1>1, <1>2, <1>5 DEF StaysOn, Loop, Booting, Busy
<1>7. TypeOK'
  <2>1. gq' \in Seq(Requests)  BY <1>1, <1>3, <1>4, AskedAfterSend
  <2>2. ServerTypes'  BY <1>2, <1>3, <2>1 DEF ServerTypes
  <2>3. ActorTypes'  BY <1>2, <1>3, <1>5 DEF ActorTypes
  <2> QED
    BY <1>2, <1>3, <2>2, <2>3, SameTypes, TypesNext DEF introVars, connVars, clientVars
<1>8. ServerWait' /\ LobbyMail'
  BY <1>1, <1>2, <1>3, <1>4, ServerWaitSent, LobbyMailSent DEF IntroCmds
<1>9. TaskMail'
  <2> SUFFICES ASSUME NEW d \in Conns
               PROVE  TaskMailOf(d)'
    BY DEF TaskMail
  <2>1. TaskMailOf(d) /\ OneMore(gq', gq, m, d)
    BY <1>1, <1>3, <1>4, SendCounts DEF Inner, TaskMail
  <2>2. (d # c => actor'[d] = actor[d]) /\ conn' = conn  BY <1>2, <1>5
  <2>3. CASE d = c
    <3>1. /\ actor'[d] = "w_switch"
          /\ conn'[d] = conn[d]
          /\ m.cmd = "SwitchToNextPlayer"
          /\ m.from = d
          /\ actor[d] = "may_switch"
      BY <1>1, <1>4, <1>5, <2>2, <2>3
    <3> QED  BY <2>1, <3>1 DEF TaskMailOf, OneMore, OneIf
  <2>4. CASE d # c
    <3>1. conn'[d] = conn[d] /\ actor'[d] = actor[d] /\ m.from # d
      BY <1>4, <2>2, <2>4
    <3> QED  BY <2>1, <3>1 DEF TaskMailOf, OneMore, OneIf
  <2> QED  BY <2>3, <2>4
<1>10. SameAsks  BY <1>1, <1>2, <1>3, SameCounts
<1>11. MoversWait' /\ ActorMail'
  BY <1>1, <1>2, <1>3, <1>5, <1>6, <1>10, StaysGoesOn, MailKept DEF MoveUnderWay, ServerAsks
<1>12. ActiveMoves'
  BY <1>1, <1>2, <1>3, <1>5 DEF Inner, ActiveMoves, ActiveConn
<1>13. T!HasActive(turn')  BY <1>2 DEF IInv
<1> QED
  BY <1>2, <1>3, <1>6, <1>7, <1>8, <1>9, <1>11, <1>12, <1>13,
     StaysGoesOn, ActorsStay, InTheGame

LEMMA FinishMoveStep ==
  ASSUME IInv, NEW c \in Conns, FinishMove(c)
  PROVE  IInv'
<1>1. /\ Running /\ actor[c] = "switched"
      /\ actor' = [actor EXCEPT ![c] = "idle"]
      /\ conn' = [conn EXCEPT ![c].pc = "answer_turn"]
  BY DEF FinishMove
<1>2. UNCHANGED <<turn, slots, gq, gwait, lobby, here, entering, iq, iwait,
                  name, aq, sock, client, view, presses, eager, chats, cin, crashed>>
  BY DEF FinishMove, serverVars, introVars, clientVars
<1>3. TypeOK /\ Inner /\ ServerTypes /\ ActorTypes /\ ConnTypes
  BY <1>1, TypeGroups DEF IInv
<1>4. conn[c].pc = "w_move"  BY <1>1, <1>3 DEF Inner, MoversWait, MoveUnderWay
<1>5. /\ ConnTypes' /\ conn'[c].pc = "answer_turn" /\ conn'[c].val = conn[c].val
      /\ \A d \in Conns : d # c => conn'[d] = conn[d]
  BY <1>1, <1>2, <1>3, <1>4, GotoFacts DEF ConnTypes, ConnPlaces
<1>6. /\ actor' \in [Conns -> ActorStates] /\ actor'[c] = "idle"
      /\ \A d \in Conns : d # c => actor'[d] = actor[d]
  BY <1>1, <1>2, <1>3, <1>4, ActFacts DEF ActorStates
<1>7. StaysOn  BY <1>1, <1>2, <1>4, <1>5, <1>6 DEF StaysOn, Loop, Booting, Busy
<1>8. TypeOK'
  <2>1. ActorTypes'  BY <1>2, <1>3, <1>6 DEF ActorTypes
  <2> QED
    BY <1>2, <1>3, <1>5, <2>1, SameTypes, TypesNext DEF serverVars, introVars, clientVars
<1>9. ServerWait' /\ LobbyMail'
  BY <1>2, <1>3 DEF Inner, ServerWait, SeatOf, LobbyMail, IntroAsks
<1>10. TaskMail'
  <2> SUFFICES ASSUME NEW d \in Conns
               PROVE  TaskMailOf(d)'
    BY DEF TaskMail
  <2>1. TaskMailOf(d)  BY <1>3 DEF Inner, TaskMail
  <2>2. (d # c => conn'[d] = conn[d] /\ actor'[d] = actor[d]) /\ gq' = gq
    BY <1>2, <1>5, <1>6
  <2>3. CASE d = c
    <3>1. /\ conn'[d].pc = "answer_turn"
          /\ actor'[d] = "idle"
          /\ actor[d] = "switched"
          /\ conn[d].pc = "w_move"
          /\ gq' = gq
      BY <1>1, <1>4, <1>5, <1>6, <2>2, <2>3
    <3> QED  BY <2>1, <3>1 DEF TaskMailOf, OneIf
  <2>4. CASE d # c
    <3>1. conn'[d] = conn[d] /\ actor'[d] = actor[d] /\ gq' = gq  BY <2>2, <2>4
    <3> QED  BY <2>1, <3>1 DEF TaskMailOf, OneIf
  <2> QED  BY <2>3, <2>4
<1>11. aq' = aq  BY <1>2
<1>12. MoversWait' /\ ActorMail'
  <2>1. \A x \in Conns : x # c => /\ MoveUnderWay(x)' <=> MoveUnderWay(x)
                                  /\ conn'[x] = conn[x]
    BY <1>2, <1>5, <1>6 DEF MoveUnderWay
  <2>2. \A x \in Conns : ServerAsks(x)' <=> ServerAsks(x)
    BY <1>2 DEF ServerAsks
  <2>3. /\ conn[c].pc = "w_move" /\ conn'[c].pc = "answer_turn"
        /\ MoveUnderWay(c) /\ ~ MoveUnderWay(c)'
    BY <1>1, <1>4, <1>5, <1>6 DEF MoveUnderWay
  <2>4. MoversWait'  BY <1>3, <2>1, <2>3 DEF Inner, MoversWait
  <2>5. ASSUME NEW x \in Conns, NEW d \in Conns \cup {NoConn}
        PROVE  MailOf(x, d)'
    <3>1. MailOf(x, d)  BY <1>3 DEF Inner, ActorMail
    <3>2. (iwait.op = "answer" /\ iwait.old = x /\ iwait.from = d
             /\ conn[iwait.from].pc = "w_take")'
          <=> (iwait.op = "answer" /\ iwait.old = x /\ iwait.from = d
             /\ conn[iwait.from].pc = "w_take")
      BY <1>2, <1>3, <1>7, StaysGoesOn, TakeKept
    <3>3. CASE x = c
      <4>1. aq'[c] = aq[c]  BY <1>11
      <4>2. c # NoConn  BY ConnFacts
      <4> QED  BY <1>4, <2>2, <2>3, <3>1, <3>2, <3>3, <4>1, <4>2 DEF MailOf, OneIf
    <3>4. CASE x # c
      <4>1. aq'[x] = aq[x] /\ conn'[x] = conn[x] /\ (MoveUnderWay(x)' <=> MoveUnderWay(x))
        BY <1>11, <2>1, <3>4
      <4> QED  BY <2>2, <3>1, <3>2, <4>1 DEF MailOf, OneIf
    <3> QED  BY <3>3, <3>4
  <2> QED  BY <2>4, <2>5 DEF ActorMail
<1>13. ActiveMoves'
  BY <1>1, <1>2, <1>3, <1>4, <1>5, <1>6 DEF Inner, ActiveMoves, ActiveConn
<1>14. T!HasActive(turn')  BY <1>2 DEF IInv
<1> QED
  BY <1>2, <1>3, <1>7, <1>8, <1>9, <1>10, <1>12, <1>13, <1>14,
     StaysGoesOn, ActorsStay, InTheGame

LEMMA StartSyncStep ==
  ASSUME IInv, NEW c \in Conns, StartSync(c)
  PROVE  IInv'
<1> DEFINE m == Command("GetMonsters", c)
<1>1. /\ Running /\ actor[c] = "idle" /\ aq[c] # <<>> /\ Head(aq[c]).msg = "SyncWithClient"
      /\ gq' = Append(gq, m)
      /\ actor' = [actor EXCEPT ![c] = "w_monsters"]
      /\ aq' = [aq EXCEPT ![c] = Tail(@)]
  BY DEF StartSync, Handles, PopTo
<1>2. UNCHANGED <<turn, slots, gwait, lobby, here, entering, iq, iwait, name,
                  conn, sock, client, view, presses, eager, chats, cin, crashed>>
  BY DEF StartSync, serverVars, introVars, connVars, clientVars
<1>3. TypeOK /\ Inner /\ ServerTypes /\ ActorTypes /\ ConnTypes
  BY <1>1, TypeGroups DEF IInv
<1>4. /\ m \in Requests /\ m.cmd = "GetMonsters" /\ m.from = c
  BY MessageFacts DEF Commands
<1> HIDE DEF m
<1>5. /\ actor' \in [Conns -> ActorStates] /\ actor'[c] = "w_monsters"
      /\ \A d \in Conns : d # c => actor'[d] = actor[d]
  BY <1>1, <1>2, <1>3, ActFacts DEF ActorStates
<1>6. StaysOn  BY <1>1, <1>2, <1>5 DEF StaysOn, Loop, Booting, Busy
<1>7. TypeOK'
  <2>1. gq' \in Seq(Requests)  BY <1>1, <1>3, <1>4, AskedAfterSend
  <2>2. ServerTypes'  BY <1>2, <1>3, <2>1 DEF ServerTypes
  <2>3. aq' \in [Conns -> Seq(ActorMessages)]  BY <1>1, <1>3, <1>4, PopFacts
  <2>4. ActorTypes'  BY <1>2, <1>3, <1>5, <2>3 DEF ActorTypes
  <2> QED
    BY <1>2, <1>3, <2>2, <2>4, SameTypes, TypesNext DEF introVars, connVars, clientVars
<1>8. ServerWait' /\ LobbyMail'
  BY <1>1, <1>2, <1>3, <1>4, ServerWaitSent, LobbyMailSent DEF IntroCmds
<1>9. TaskMail'
  <2> SUFFICES ASSUME NEW d \in Conns
               PROVE  TaskMailOf(d)'
    BY DEF TaskMail
  <2>1. TaskMailOf(d) /\ OneMore(gq', gq, m, d)
    BY <1>1, <1>3, <1>4, SendCounts DEF Inner, TaskMail
  <2>2. (d # c => actor'[d] = actor[d]) /\ conn' = conn  BY <1>2, <1>5
  <2>3. CASE d = c
    <3>1. /\ actor'[d] = "w_monsters"
          /\ conn'[d] = conn[d]
          /\ m.cmd = "GetMonsters"
          /\ m.from = d
          /\ actor[d] = "idle"
      BY <1>1, <1>4, <1>5, <2>2, <2>3
    <3> QED  BY <2>1, <3>1 DEF TaskMailOf, OneMore, OneIf
  <2>4. CASE d # c
    <3>1. conn'[d] = conn[d] /\ actor'[d] = actor[d] /\ m.from # d
      BY <1>4, <2>2, <2>4
    <3> QED  BY <2>1, <3>1 DEF TaskMailOf, OneMore, OneIf
  <2> QED  BY <2>3, <2>4
<1>10. SameAsks  BY <1>1, <1>3, <1>4, PopSame DEF Counted
<1>11. MoversWait' /\ ActorMail'
  BY <1>1, <1>2, <1>3, <1>5, <1>6, <1>10, StaysGoesOn, MailKept DEF MoveUnderWay, ServerAsks
<1>12. ActiveMoves'
  BY <1>1, <1>2, <1>3, <1>5 DEF Inner, ActiveMoves, ActiveConn
<1>13. T!HasActive(turn')  BY <1>2 DEF IInv
<1> QED
  BY <1>2, <1>3, <1>6, <1>7, <1>8, <1>9, <1>11, <1>12, <1>13,
     StaysGoesOn, ActorsStay, InTheGame

LEMMA FinishSyncStep ==
  ASSUME IInv, NEW c \in Conns, FinishSync(c), SocketOpen(c)
  PROVE  IInv'
<1>1. /\ Running /\ actor[c] = "got_monsters"
      /\ actor' = [actor EXCEPT ![c] = "idle"]
  BY DEF FinishSync
<1>2. UNCHANGED <<turn, slots, gq, gwait, lobby, here, entering, iq, iwait,
                  name, aq, conn, sock, client, view, presses, eager, chats, cin,
                  crashed>>
  BY DEF FinishSync, serverVars, introVars, connVars, clientVars
<1>3. TypeOK /\ Inner /\ ServerTypes /\ ActorTypes /\ ConnTypes
  BY <1>1, TypeGroups DEF IInv
<1>4. /\ actor' \in [Conns -> ActorStates] /\ actor'[c] = "idle"
      /\ \A d \in Conns : d # c => actor'[d] = actor[d]
  BY <1>1, <1>2, <1>3, ActFacts DEF ActorStates
<1>5. StaysOn  BY <1>1, <1>2, <1>4 DEF StaysOn, Loop, Booting, Busy
<1>6. TypeOK'
  <2>1. ActorTypes'  BY <1>2, <1>3, <1>4 DEF ActorTypes
  <2> QED
    BY <1>2, <1>3, <2>1, SameTypes, TypesNext DEF serverVars, introVars, connVars, clientVars
<1>7. ServerWait' /\ LobbyMail'
  BY <1>2, <1>3 DEF Inner, ServerWait, SeatOf, LobbyMail, IntroAsks
<1>8. TaskMail'
  <2> SUFFICES ASSUME NEW d \in Conns
               PROVE  TaskMailOf(d)'
    BY DEF TaskMail
  <2>1. TaskMailOf(d)  BY <1>3 DEF Inner, TaskMail
  <2>2. (d # c => actor'[d] = actor[d]) /\ conn' = conn /\ gq' = gq
    BY <1>2, <1>4
  <2>3. CASE d = c
    <3>1. /\ actor'[d] = "idle"
          /\ conn'[d] = conn[d]
          /\ actor[d] = "got_monsters"
          /\ gq' = gq
      BY <1>1, <1>4, <2>2, <2>3
    <3> QED  BY <2>1, <3>1 DEF TaskMailOf, OneIf
  <2>4. CASE d # c
    <3>1. conn'[d] = conn[d] /\ actor'[d] = actor[d] /\ gq' = gq  BY <2>2, <2>4
    <3> QED  BY <2>1, <3>1 DEF TaskMailOf, OneIf
  <2> QED  BY <2>3, <2>4
<1>9. SameAsks  BY <1>1, <1>2, <1>3, SameCounts
<1>10. MoversWait' /\ ActorMail'
  BY <1>1, <1>2, <1>3, <1>4, <1>5, <1>9, StaysGoesOn, MailKept DEF MoveUnderWay, ServerAsks
<1>11. ActiveMoves'
  BY <1>1, <1>2, <1>3, <1>4 DEF Inner, ActiveMoves, ActiveConn
<1>12. T!HasActive(turn')  BY <1>2 DEF IInv
<1> QED
  BY <1>2, <1>3, <1>5, <1>6, <1>7, <1>8, <1>10, <1>11, <1>12,
     StaysGoesOn, ActorsStay, InTheGame

LEMMA ForwardTcpStep ==
  ASSUME IInv, NEW c \in Conns, ForwardTcp(c), SocketOpen(c)
  PROVE  IInv'
<1>1. /\ Running /\ actor[c] = "idle" /\ aq[c] # <<>> /\ Head(aq[c]).msg = "SendTcp"
      /\ actor' = [actor EXCEPT ![c] = "idle"]
      /\ aq' = [aq EXCEPT ![c] = Tail(@)]
      /\ sock' = IF Head(aq[c]).what \in Statuses
                  THEN [sock EXCEPT ![c] = Append(@, Head(aq[c]).what)] ELSE sock
  BY DEF ForwardTcp, Handles, PopTo
<1>2. UNCHANGED <<turn, slots, gq, gwait, lobby, here, entering, iq, iwait,
                  name, conn, client, view, presses, eager, chats, cin, crashed>>
  BY DEF ForwardTcp, PopTo, serverVars, introVars, clientVars
<1>3. TypeOK /\ Inner /\ ServerTypes /\ ActorTypes /\ ConnTypes
  BY <1>1, TypeGroups DEF IInv
<1>4. sock' \in [Conns -> Seq(Statuses)]
  <2>1. sock \in [Conns -> Seq(Statuses)] /\ sock[c] \in Seq(Statuses)
    BY <1>3 DEF ConnTypes
  <2>2. ASSUME Head(aq[c]).what \in Statuses
        PROVE  Append(sock[c], Head(aq[c]).what) \in Seq(Statuses)
    BY <2>1, <2>2, LastSent
  <2> QED  BY <1>1, <2>1, <2>2
<1>5. /\ actor' \in [Conns -> ActorStates] /\ actor'[c] = "idle"
      /\ \A d \in Conns : d # c => actor'[d] = actor[d]
  BY <1>1, <1>2, <1>3, ActFacts DEF ActorStates
<1>6. StaysOn  BY <1>1, <1>2, <1>5 DEF StaysOn, Loop, Booting, Busy
<1>7. TypeOK'
  <2>1. aq' \in [Conns -> Seq(ActorMessages)]  BY <1>1, <1>3, PopFacts
  <2>2. ActorTypes'  BY <1>2, <1>3, <1>5, <2>1 DEF ActorTypes
  <2>3. ConnTypes'  BY <1>2, <1>3, <1>4 DEF ConnTypes
  <2> QED
    BY <1>2, <1>3, <2>2, <2>3, SameTypes, TypesNext DEF serverVars, introVars, clientVars
<1>8. ServerWait' /\ LobbyMail'
  BY <1>2, <1>3 DEF Inner, ServerWait, SeatOf, LobbyMail, IntroAsks
<1>9. TaskMail'
  <2> SUFFICES ASSUME NEW d \in Conns
               PROVE  TaskMailOf(d)'
    BY DEF TaskMail
  <2>1. TaskMailOf(d)  BY <1>3 DEF Inner, TaskMail
  <2>2. (d # c => actor'[d] = actor[d]) /\ conn' = conn /\ gq' = gq
    BY <1>2, <1>5
  <2>3. CASE d = c
    <3>1. /\ actor'[d] = "idle"
          /\ conn'[d] = conn[d]
          /\ actor[d] = "idle"
          /\ gq' = gq
      BY <1>1, <1>5, <2>2, <2>3
    <3> QED  BY <2>1, <3>1 DEF TaskMailOf, OneIf
  <2>4. CASE d # c
    <3>1. conn'[d] = conn[d] /\ actor'[d] = actor[d] /\ gq' = gq  BY <2>2, <2>4
    <3> QED  BY <2>1, <3>1 DEF TaskMailOf, OneIf
  <2> QED  BY <2>3, <2>4
<1>10. SameAsks  BY <1>1, <1>3, PopSame DEF Counted
<1>11. MoversWait' /\ ActorMail'
  BY <1>1, <1>2, <1>3, <1>5, <1>6, <1>10, StaysGoesOn, MailKept DEF MoveUnderWay, ServerAsks
<1>12. ActiveMoves'
  BY <1>1, <1>2, <1>3, <1>5 DEF Inner, ActiveMoves, ActiveConn
<1>13. T!HasActive(turn')  BY <1>2 DEF IInv
<1> QED
  BY <1>2, <1>3, <1>6, <1>7, <1>8, <1>9, <1>11, <1>12, <1>13,
     StaysGoesOn, ActorsStay, InTheGame

LEMMA AnswerOwnUsernameStep ==
  ASSUME IInv, NEW c \in Conns, AnswerGetUsername(c), Head(aq[c]).asker # NoConn
  PROVE  IInv'
<1>1. /\ Running /\ actor[c] = "idle" /\ aq[c] # <<>> /\ Head(aq[c]).msg = "GetUsername"
      /\ actor' = [actor EXCEPT ![c] = "idle"]
      /\ aq' = [aq EXCEPT ![c] = Tail(@)]
      /\ conn' = [conn EXCEPT ![Head(aq[c]).asker].pc = "chat"]
  BY DEF AnswerGetUsername, Handles, PopTo
<1>2. UNCHANGED <<turn, slots, gq, gwait, lobby, here, entering, iq, iwait,
                  name, sock, client, view, presses, eager, chats, cin, crashed>>
  BY DEF AnswerGetUsername, PopTo, introVars, clientVars
<1>3. TypeOK /\ Inner /\ ServerTypes /\ ActorTypes /\ ConnTypes
  BY <1>1, TypeGroups DEF IInv
<1>4. Head(aq[c]).asker = c /\ conn[c].pc = "w_chatname" /\ Head(aq[c]).msg = "GetUsername"
  BY <1>1, <1>3, HeadMail
<1>5. /\ ConnTypes' /\ conn'[c].pc = "chat" /\ conn'[c].val = conn[c].val
      /\ \A d \in Conns : d # c => conn'[d] = conn[d]
  BY <1>1, <1>2, <1>3, <1>4, GotoFacts DEF ConnTypes, ConnPlaces
<1>6. /\ actor' \in [Conns -> ActorStates] /\ actor'[c] = "idle"
      /\ \A d \in Conns : d # c => actor'[d] = actor[d]
  BY <1>1, <1>2, <1>3, <1>4, ActFacts DEF ActorStates
<1>7. StaysOn  BY <1>1, <1>2, <1>4, <1>5, <1>6 DEF StaysOn, Loop, Booting, Busy
<1>8. TypeOK'
  <2>1. aq' \in [Conns -> Seq(ActorMessages)]  BY <1>1, <1>3, <1>4, PopFacts
  <2>2. ActorTypes'  BY <1>2, <1>3, <1>6, <2>1 DEF ActorTypes
  <2> QED
    BY <1>2, <1>3, <1>5, <2>2, SameTypes, TypesNext DEF serverVars, introVars, clientVars
<1>9. ServerWait' /\ LobbyMail'
  BY <1>2, <1>3 DEF Inner, ServerWait, SeatOf, LobbyMail, IntroAsks
<1>10. TaskMail'
  <2> SUFFICES ASSUME NEW d \in Conns
               PROVE  TaskMailOf(d)'
    BY DEF TaskMail
  <2>1. TaskMailOf(d)  BY <1>3 DEF Inner, TaskMail
  <2>2. (d # c => conn'[d] = conn[d] /\ actor'[d] = actor[d]) /\ gq' = gq
    BY <1>2, <1>5, <1>6
  <2>3. CASE d = c
    <3>1. /\ conn'[d].pc = "chat"
          /\ actor'[d] = "idle"
          /\ actor[d] = "idle"
          /\ conn[d].pc = "w_chatname"
          /\ gq' = gq
      BY <1>1, <1>4, <1>5, <1>6, <2>2, <2>3
    <3> QED  BY <2>1, <3>1 DEF TaskMailOf, OneIf
  <2>4. CASE d # c
    <3>1. conn'[d] = conn[d] /\ actor'[d] = actor[d] /\ gq' = gq  BY <2>2, <2>4
    <3> QED  BY <2>1, <3>1 DEF TaskMailOf, OneIf
  <2> QED  BY <2>3, <2>4
<1>11. /\ \A d : OneMoreTo(aq[c], aq'[c], Head(aq[c]), d)
       /\ \A y \in Conns : y # c => aq'[y] = aq[y]
  BY <1>1, <1>3, <1>4, PopFacts
<1>12. MoversWait' /\ ActorMail'
  <2>1. \A x \in Conns : x # c => /\ MoveUnderWay(x)' <=> MoveUnderWay(x)
                                  /\ conn'[x] = conn[x]
    BY <1>2, <1>5, <1>6 DEF MoveUnderWay
  <2>2. \A x \in Conns : ServerAsks(x)' <=> ServerAsks(x)
    BY <1>2 DEF ServerAsks
  <2>3. /\ conn[c].pc = "w_chatname" /\ conn'[c].pc = "chat"
        /\ ~ MoveUnderWay(c) /\ ~ MoveUnderWay(c)'
    BY <1>1, <1>4, <1>5, <1>6 DEF MoveUnderWay
  <2>4. MoversWait'  BY <1>3, <2>1, <2>3 DEF Inner, MoversWait
  <2>5. ASSUME NEW x \in Conns, NEW d \in Conns \cup {NoConn}
        PROVE  MailOf(x, d)'
    <3>1. MailOf(x, d)  BY <1>3 DEF Inner, ActorMail
    <3>2. (iwait.op = "answer" /\ iwait.old = x /\ iwait.from = d
             /\ conn[iwait.from].pc = "w_take")'
          <=> (iwait.op = "answer" /\ iwait.old = x /\ iwait.from = d
             /\ conn[iwait.from].pc = "w_take")
      BY <1>2, <1>3, <1>7, StaysGoesOn, TakeKept
    <3>3. CASE x = c
      <4>1. OneMoreTo(aq[c], aq'[c], Head(aq[c]), d)  BY <1>11
      <4>2. c # NoConn  BY ConnFacts
      <4> QED
        BY <1>4, <2>2, <2>3, <3>1, <3>2, <3>3, <4>1, <4>2 DEF MailOf, OneMoreTo, OneIf
    <3>4. CASE x # c
      <4>1. aq'[x] = aq[x] /\ conn'[x] = conn[x] /\ (MoveUnderWay(x)' <=> MoveUnderWay(x))
        BY <1>11, <2>1, <3>4
      <4> QED  BY <2>2, <3>1, <3>2, <4>1 DEF MailOf, OneIf
    <3> QED  BY <3>3, <3>4
  <2> QED  BY <2>4, <2>5 DEF ActorMail
<1>13. ActiveMoves'
  BY <1>1, <1>2, <1>3, <1>4, <1>5, <1>6 DEF Inner, ActiveMoves, ActiveConn
<1>14. T!HasActive(turn')  BY <1>2 DEF IInv
<1> QED
  BY <1>2, <1>3, <1>7, <1>8, <1>9, <1>10, <1>12, <1>13, <1>14,
     StaysGoesOn, ActorsStay, InTheGame

LEMMA AnswerServerUsernameStep ==
  ASSUME IInv, NEW c \in Conns, AnswerGetUsername(c), Head(aq[c]).asker = NoConn
  PROVE  IInv'
<1>1. /\ Running /\ actor[c] = "idle" /\ aq[c] # <<>> /\ Head(aq[c]).msg = "GetUsername"
      /\ actor' = [actor EXCEPT ![c] = "idle"]
      /\ aq' = [aq EXCEPT ![c] = Tail(@)]
      /\ gwait' = [gwait EXCEPT !.got = name[c]]
  BY DEF AnswerGetUsername, Handles, PopTo
<1>2. UNCHANGED <<turn, slots, gq, lobby, here, entering, iq, iwait, name,
                  conn, sock, client, view, presses, eager, chats, cin, crashed>>
  BY DEF AnswerGetUsername, PopTo, introVars, clientVars
<1>3. TypeOK /\ Inner /\ ServerTypes /\ ActorTypes /\ ConnTypes
  BY <1>1, TypeGroups DEF IInv
<1>4. ServerAsks(c) /\ Head(aq[c]).asker = NoConn
  BY <1>1, <1>3, HeadMail, ConnFacts
<1>5. /\ gwait' \in [op : Searches \cup {"idle", "GetPeerUsername", "DropPeer"},
                      asked : Conns \cup {NoConn}, got : Names \cup {Pending},
                      found : Conns \cup {NoConn}]
      /\ gwait'.op = gwait.op /\ gwait'.asked = gwait.asked
      /\ gwait'.found = gwait.found /\ gwait'.got = name[c]
      /\ name[c] # Pending
  <2>1. name[c] \in Names /\ gwait \in [op : Searches \cup {"idle", "GetPeerUsername", "DropPeer"},
                      asked : Conns \cup {NoConn}, got : Names \cup {Pending},
                      found : Conns \cup {NoConn}]
    BY <1>3 DEF ServerTypes, ActorTypes
  <2>2. name[c] # Pending
    BY <1>3, ConnFacts DEF Inner, NameKept, NoName, Pending
  <2> QED  BY <1>1, <2>1, <2>2
<1>6. gwait.op \in Searches => name[c] = Owner(c)
  <2>1. ASSUME gwait.op \in Searches
        PROVE  name[c] = Owner(c)
    <3>1. gq # <<>> /\ Head(gq).cmd = gwait.op /\ SeatOf(c).conn = c /\ gwait.op # "idle"
      BY <1>4, <1>3 DEF Inner, ServerWait, ServerAsks
    <3>2. iwait.op \in {"id", "handle"}
      BY <2>1, <3>1, <1>3, HeadLobby DEF Searches, IntroAsks
    <3>3. Owner(c) \in Players /\ Open(c)  BY <1>1, ConnFacts DEF Open
    <3> QED  BY <3>1, <3>2, <3>3, <1>3 DEF Inner, SeatNamed, SeatOf
  <2> QED  BY <2>1
<1>7. /\ actor' \in [Conns -> ActorStates] /\ actor'[c] = "idle"
      /\ \A d \in Conns : d # c => actor'[d] = actor[d]
  BY <1>1, <1>2, <1>3, <1>4, ActFacts DEF ActorStates
<1>8. StaysOn  BY <1>1, <1>2, <1>4, <1>7 DEF StaysOn, Loop, Booting, Busy
<1>9. TypeOK'
  <2>1. ServerTypes'  BY <1>2, <1>3, <1>5 DEF ServerTypes
  <2>2. aq' \in [Conns -> Seq(ActorMessages)]  BY <1>1, <1>3, <1>4, PopFacts
  <2>3. ActorTypes'  BY <1>2, <1>3, <1>7, <2>2 DEF ActorTypes
  <2> QED
    BY <1>2, <1>3, <2>1, <2>3, SameTypes, TypesNext DEF introVars, connVars, clientVars
<1>10. ServerWait' /\ LobbyMail'
  <2>1. gq' = gq /\ slots' = slots /\ gwait.asked = c
    BY <1>2, <1>4 DEF ServerAsks
  <2>2. ServerWait'  BY <1>3, <1>5, <1>6, <2>1 DEF Inner, ServerWait, SeatOf
  <2>3. LobbyMail'  BY <1>2, <1>3 DEF Inner, LobbyMail, IntroAsks
  <2> QED  BY <2>2, <2>3
<1>11. TaskMail'
  <2> SUFFICES ASSUME NEW d \in Conns
               PROVE  TaskMailOf(d)'
    BY DEF TaskMail
  <2>1. TaskMailOf(d)  BY <1>3 DEF Inner, TaskMail
  <2>2. (d # c => actor'[d] = actor[d]) /\ conn' = conn /\ gq' = gq
    BY <1>2, <1>7
  <2>3. CASE d = c
    <3>1. /\ actor'[d] = "idle"
          /\ conn'[d] = conn[d]
          /\ actor[d] = "idle"
          /\ gq' = gq
      BY <1>1, <1>4, <1>7, <2>2, <2>3
    <3> QED  BY <2>1, <3>1 DEF TaskMailOf, OneIf
  <2>4. CASE d # c
    <3>1. conn'[d] = conn[d] /\ actor'[d] = actor[d] /\ gq' = gq  BY <2>2, <2>4
    <3> QED  BY <2>1, <3>1 DEF TaskMailOf, OneIf
  <2> QED  BY <2>3, <2>4
<1>12. /\ \A d : OneMoreTo(aq[c], aq'[c], Head(aq[c]), d)
       /\ \A y \in Conns : y # c => aq'[y] = aq[y]
  BY <1>1, <1>3, <1>4, PopFacts
<1>13. MoversWait' /\ ActorMail'
  <2>1. \A x \in Conns : x # c => /\ MoveUnderWay(x)' <=> MoveUnderWay(x)
                                  /\ conn'[x] = conn[x]
    BY <1>2, <1>7 DEF MoveUnderWay
  <2>2. \A x \in Conns : ~ ServerAsks(x)' /\ (ServerAsks(x) <=> x = c)
    BY <1>5, <1>4 DEF ServerAsks
  <2>3. /\ conn'[c].pc = conn[c].pc
        /\ ~ MoveUnderWay(c) /\ ~ MoveUnderWay(c)' /\ Head(aq[c]).msg = "GetUsername"
    BY <1>1, <1>2, <1>7 DEF MoveUnderWay
  <2>4. MoversWait'  BY <1>3, <2>1, <2>3 DEF Inner, MoversWait
  <2>5. ASSUME NEW x \in Conns, NEW d \in Conns \cup {NoConn}
        PROVE  MailOf(x, d)'
    <3>1. MailOf(x, d)  BY <1>3 DEF Inner, ActorMail
    <3>2. (iwait.op = "answer" /\ iwait.old = x /\ iwait.from = d
             /\ conn[iwait.from].pc = "w_take")'
          <=> (iwait.op = "answer" /\ iwait.old = x /\ iwait.from = d
             /\ conn[iwait.from].pc = "w_take")
      BY <1>2, <1>3, <1>8, StaysGoesOn, TakeKept
    <3>3. CASE x = c
      <4>1. OneMoreTo(aq[c], aq'[c], Head(aq[c]), d)  BY <1>12
      <4>2. c # NoConn  BY ConnFacts
      <4> QED
        BY <1>4, <2>2, <2>3, <3>1, <3>2, <3>3, <4>1, <4>2 DEF MailOf, OneMoreTo, OneIf
    <3>4. CASE x # c
      <4>1. aq'[x] = aq[x] /\ conn'[x] = conn[x] /\ (MoveUnderWay(x)' <=> MoveUnderWay(x))
        BY <1>12, <2>1, <3>4
      <4> QED  BY <2>2, <3>1, <3>2, <3>4, <4>1 DEF MailOf, OneIf
    <3> QED  BY <3>3, <3>4
  <2> QED  BY <2>4, <2>5 DEF ActorMail
<1>14. ActiveMoves'
  BY <1>1, <1>2, <1>3, <1>4, <1>7 DEF Inner, ActiveMoves, ActiveConn
<1>15. T!HasActive(turn')  BY <1>2 DEF IInv
<1> QED
  BY <1>2, <1>3, <1>8, <1>9, <1>10, <1>11, <1>13, <1>14, <1>15,
     StaysGoesOn, ActorsStay, InTheGame

(* A panic, or the end of the server: only types, turns and seats matter. *)
LEMMA ServerEnds ==
  ASSUME IInv, TypeOK', T!HasActive(turn'), ~ Running', UNCHANGED slots
  PROVE  IInv'
<1>1. SeatOwners'  BY DEF IInv, SeatOwners
<1> QED  BY <1>1 DEF IInv

LEMMA Panics ==
  ASSUME IInv, crashed' \in {"game", "intro"},
         UNCHANGED <<serverVars, introVars, actorVars, connVars, clientVars>>
  PROVE  IInv'
<1>1. TypeOK /\ T!HasActive(turn)  BY DEF IInv
<1>2. TypeOK'  BY <1>1, SameTypes, TypesNext
<1>3. T!HasActive(turn') /\ UNCHANGED slots  BY <1>1 DEF serverVars
<1> QED  BY <1>2, <1>3, ServerEnds DEF Running

(* The mailbox of an actor is dropped: when the server goes on, no one was     *)
(* waiting for a username or a peer from it.                               *)
LEMMA LostRequests ==
  ASSUME IInv, NEW c \in Conns,
         aq' = [aq EXCEPT ![c] = <<>>], crashed' = LossOfMailbox(c), Running'
  PROVE  /\ \A d : /\ Addressed(aq[c], "GetUsername", d) = 0
                   /\ Addressed(aq[c], "TakePeer", d) = 0
         /\ \A msg, d : Addressed(aq'[c], msg, d) = 0
         /\ \A y \in Conns : y # c => aq'[y] = aq[y]
<1>1. ~ Queued(c, "GetUsername") /\ ~ Queued(c, "TakePeer")
  BY DEF LossOfMailbox, Running
<1>2. aq[c] \in Seq(ActorMessages) /\ TypeOK  BY DEF IInv, TypeOK
<1>3. \A d : Addressed(aq[c], "GetUsername", d) = 0 /\ Addressed(aq[c], "TakePeer", d) = 0
  BY <1>1, <1>2, AddressedSome DEF Queued
<1> QED  BY <1>2, <1>3, DropFacts

(* And when its connection waits for no move, no one was waiting for any       *)
(* answer from it.                                                         *)
LEMMA LostMail ==
  ASSUME IInv, Inner, NEW c \in Conns, conn[c].pc # "w_move",
         aq' = [aq EXCEPT ![c] = <<>>], crashed' = LossOfMailbox(c), Running'
  PROVE  SameAsks
<1>2. aq[c] \in Seq(ActorMessages)  BY DEF IInv, TypeOK
<1>3. /\ \A d : /\ Addressed(aq[c], "GetUsername", d) = 0
                /\ Addressed(aq[c], "TakePeer", d) = 0
      /\ \A msg, d : Addressed(aq'[c], msg, d) = 0
      /\ \A y \in Conns : y # c => aq'[y] = aq[y]
  BY LostRequests
<1>4. \A d : Addressed(aq[c], "Move", d) = 0
  <2>1. SUFFICES ASSUME NEW d, Addressed(aq[c], "Move", d) # 0
                 PROVE  FALSE
    OBVIOUS
  <2>2. \E i \in DOMAIN aq[c] : aq[c][i].msg = "Move" /\ aq[c][i].asker = d
    <3>1. CASE {i \in DOMAIN aq[c] : aq[c][i].msg = "Move" /\ aq[c][i].asker = d} = {}
      BY <2>1, <3>1, FS_EmptySet DEF Addressed
    <3>2. CASE {i \in DOMAIN aq[c] : aq[c][i].msg = "Move" /\ aq[c][i].asker = d} # {}
      BY <3>2
    <3> QED  BY <3>1, <3>2
  <2>3. d \in Conns \cup {NoConn}
    <3>1. PICK i \in DOMAIN aq[c] : aq[c][i].msg = "Move" /\ aq[c][i].asker = d
      BY <2>2
    <3>2. aq[c][i] \in ActorMessages  BY <1>2, <3>1
    <3> QED  BY <3>1, <3>2 DEF ActorMessages
  <2>4. MailOf(c, d)  BY <2>3 DEF Inner, ActorMail
  <2> QED  BY <2>1, <2>4 DEF MailOf, OneIf
<1>6. \A d : SameFor(aq'[c], aq[c], d)  BY <1>3, <1>4 DEF SameFor
<1>7. \A y \in Conns : y # c => \A d : SameFor(aq'[y], aq[y], d)
  BY <1>3 DEF SameFor
<1> QED  BY <1>6, <1>7 DEF SameAsks

(* An actor ends, and with it its mailbox. *)
LEMMA ActorDies ==
  ASSUME IInv, Inner, Running, NEW c \in Conns,
         conn[c].pc \in Over, actor[c] \in {"idle", "got_monsters"},
         actor' = [actor EXCEPT ![c] = "dead"], aq' = [aq EXCEPT ![c] = <<>>],
         crashed' = LossOfMailbox(c),
         UNCHANGED <<serverVars, introVars, name, connVars, clientVars>>
  PROVE  IInv'
<1>1. UNCHANGED <<turn, slots, gq, gwait, lobby, here, entering, iq, iwait, name, conn>>
  BY DEF serverVars, introVars, connVars
<1>2. TypeOK /\ ActorTypes  BY TypeGroups DEF IInv
<1>3. /\ actor' \in [Conns -> ActorStates] /\ actor'[c] = "dead"
      /\ \A d \in Conns : d # c => actor'[d] = actor[d]
  BY <1>2, ActFacts DEF ActorStates
<1>4. /\ aq' \in [Conns -> Seq(ActorMessages)]
      /\ \A msg, d : Addressed(aq'[c], msg, d) = 0
      /\ \A y \in Conns : y # c => aq'[y] = aq[y]
  BY <1>2, DropFacts
<1>5. TypeOK'
  <2>1. ActorTypes'  BY <1>1, <1>2, <1>3, <1>4 DEF ActorTypes
  <2>2. crashed' \in {"no", "game", "intro", "over"}
    BY <1>2 DEF LossOfMailbox, TypeOK
  <2> QED  BY <1>2, <2>1, <2>2, SameTypes, TypesNext
<1>6. T!HasActive(turn')  BY <1>1 DEF IInv
<1>7. CASE ~ Running'  BY <1>1, <1>5, <1>6, <1>7, ServerEnds
<1>8. CASE Running'
  <2>1. SameAsks  BY <1>8, LostMail DEF Over
  <2>6. GoesOn  BY <1>1, <1>3 DEF GoesOn, Alive, Busy
  <2>7. MoversWait' /\ ActorMail'
    BY <1>1, <1>3, <2>1, <2>6, MailKept DEF MoveUnderWay, ServerAsks
  <2>8. ActorOfConn'
    BY <1>1, <1>3 DEF Inner, ActorOfConn, Early, Taking, Booting, Loop, Over
  <2>9. ServerWait' /\ LobbyMail'
    BY <1>1 DEF Inner, ServerWait, SeatOf, LobbyMail, IntroAsks
  <2>10. TaskMail'
    <3> SUFFICES ASSUME NEW d \in Conns
                 PROVE  TaskMailOf(d)'
      BY DEF TaskMail
    <3>1. TaskMailOf(d) /\ gq' = gq /\ conn'[d] = conn[d]
      BY <1>1 DEF Inner, TaskMail
    <3>2. \/ actor'[d] = actor[d]
          \/ actor'[d] = "dead" /\ actor[d] \in {"idle", "got_monsters"}
      BY <1>3
    <3> QED  BY <3>1, <3>2 DEF TaskMailOf, OneIf
  <2>11. ActiveMoves'  BY <1>1, <1>3 DEF Inner, ActiveMoves, ActiveConn, Over
  <2> QED  BY <1>1, <1>5, <1>6, <2>6, <2>7, <2>8, <2>9, <2>10, <2>11, InTheGame
<1> QED  BY <1>7, <1>8

LEMMA ForwardTcpFails ==
  ASSUME IInv, NEW c \in Conns, ForwardTcp(c), ~ SocketOpen(c)
  PROVE  IInv'
<1>1. Running /\ Inner /\ conn[c].pc \in Over /\ actor[c] = "idle"
  BY DEF ForwardTcp, Handles, SocketOpen, IInv
<1>2. /\ actor' = [actor EXCEPT ![c] = "dead"] /\ aq' = [aq EXCEPT ![c] = <<>>]
      /\ crashed' = LossOfMailbox(c)
  BY DEF ForwardTcp, FailAndDie
<1>3. UNCHANGED <<serverVars, introVars, name, connVars, clientVars>>
  BY DEF ForwardTcp, connVars
<1> QED  BY <1>1, <1>2, <1>3, ActorDies

LEMMA FinishSyncFails ==
  ASSUME IInv, NEW c \in Conns, FinishSync(c), ~ SocketOpen(c)
  PROVE  IInv'
<1>1. Running /\ Inner /\ conn[c].pc \in Over /\ actor[c] = "got_monsters"
  BY DEF FinishSync, SocketOpen, IInv
<1>2. /\ actor' = [actor EXCEPT ![c] = "dead"] /\ aq' = [aq EXCEPT ![c] = <<>>]
      /\ crashed' = LossOfMailbox(c)
  BY DEF FinishSync, FailAndDie
<1>3. UNCHANGED <<serverVars, introVars, name, connVars, clientVars>>
  BY DEF FinishSync
<1> QED  BY <1>1, <1>2, <1>3, ActorDies

LEMMA EndWithoutHandlesStep ==
  ASSUME IInv, NEW c \in Conns, EndWithoutHandles(c)
  PROVE  IInv'
<1>1. /\ Running /\ Inner /\ conn[c].pc \in Over /\ actor[c] = "idle" /\ aq[c] = <<>>
      /\ actor' = [actor EXCEPT ![c] = "dead"] /\ aq' = aq /\ crashed' = crashed
  BY DEF EndWithoutHandles, IInv
<1>2. UNCHANGED <<serverVars, introVars, name, connVars, clientVars>>
  BY DEF EndWithoutHandles
<1>3. aq' = [aq EXCEPT ![c] = <<>>]  BY <1>1 DEF IInv, TypeOK
<1>4. crashed' = LossOfMailbox(c)  BY <1>1 DEF LossOfMailbox, Queued
<1> QED  BY <1>1, <1>2, <1>3, <1>4, ActorDies

LEMMA RefusedMove ==
  ASSUME IInv, Inner, NEW c \in Conns, RefuseMove(c)
  PROVE  conn[c].pc = "w_move" /\ actor[c] \in {"idle", "may_switch"}
<1>1. CASE Handles(c, "Move")  BY <1>1, HeadMail DEF Handles
<1>2. CASE actor[c] = "may_switch"  BY <1>2 DEF Inner, MoversWait, MoveUnderWay
<1> QED  BY <1>1, <1>2 DEF RefuseMove, MayFail

(* A move is refused: its actor ends, and its connection is left without one. *)
LEMMA RefuseMoveStep ==
  ASSUME IInv, NEW c \in Conns, RefuseMove(c)
  PROVE  IInv'
<1>1. /\ Running /\ conn' = [conn EXCEPT ![c].pc = "refused"]
      /\ actor' = [actor EXCEPT ![c] = "dead"] /\ aq' = [aq EXCEPT ![c] = <<>>]
      /\ crashed' = LossOfMailbox(c)
  BY DEF RefuseMove, MayFail, Handles, FailAndDie
<1>2. UNCHANGED <<turn, slots, gq, gwait, lobby, here, entering, iq, iwait, name,
                  sock, client, view, presses, eager, chats, cin>>
  BY DEF RefuseMove, serverVars, introVars, clientVars
<1>3. TypeOK /\ Inner /\ ActorTypes /\ ConnTypes  BY <1>1, TypeGroups DEF IInv
<1>4. conn[c].pc = "w_move" /\ actor[c] \in {"idle", "may_switch"}
  BY <1>3, RefusedMove
<1>5. /\ conn' \in [Conns -> [pc : ConnPlaces, val : Conns \cup {NoConn},
                              move : Phases \cup {Nothing}]]
      /\ conn'[c].pc = "refused"
      /\ \A d \in Conns : d # c => conn'[d] = conn[d]
  BY <1>1, <1>3, GotoFacts DEF ConnPlaces
<1>6. /\ actor' \in [Conns -> ActorStates] /\ actor'[c] = "dead"
      /\ \A d \in Conns : d # c => actor'[d] = actor[d]
  BY <1>1, <1>3, ActFacts DEF ActorStates
<1>7. aq' \in [Conns -> Seq(ActorMessages)]  BY <1>1, <1>3, DropFacts
<1>8. TypeOK'
  <2>1. ActorTypes' /\ ConnTypes'
    BY <1>2, <1>3, <1>5, <1>6, <1>7 DEF ActorTypes, ConnTypes
  <2>2. crashed' \in {"no", "game", "intro", "over"}
    BY <1>1, <1>3 DEF LossOfMailbox, TypeOK
  <2> QED
    BY <1>2, <1>3, <2>1, <2>2, SameTypes, TypesNext DEF serverVars, introVars, clientVars
<1>9. T!HasActive(turn')  BY <1>2 DEF IInv
<1>10. CASE ~ Running'  BY <1>2, <1>8, <1>9, <1>10, ServerEnds
<1>11. CASE Running'
  <2>1. GoesOn  BY <1>4, <1>5, <1>6 DEF GoesOn, Playing, Loop, Alive, Busy
  <2>2. /\ \A d : /\ Addressed(aq[c], "GetUsername", d) = 0
                  /\ Addressed(aq[c], "TakePeer", d) = 0
        /\ \A msg, d : Addressed(aq'[c], msg, d) = 0
        /\ \A y \in Conns : y # c => aq'[y] = aq[y]
    BY <1>1, <1>11, LostRequests
  <2>3. MoversWait'  BY <1>3, <1>5, <1>6 DEF Inner, MoversWait, MoveUnderWay
  <2>4. ASSUME NEW x \in Conns, NEW d \in Conns \cup {NoConn} PROVE MailOf(x, d)'
    <3>1. MailOf(x, d) /\ (ServerAsks(x)' <=> ServerAsks(x))
      BY <1>2, <1>3 DEF Inner, ActorMail, ServerAsks
    <3>2. (iwait.op = "answer" /\ iwait.old = x /\ iwait.from = d
             /\ conn[iwait.from].pc = "w_take")'
          <=> (iwait.op = "answer" /\ iwait.old = x /\ iwait.from = d
             /\ conn[iwait.from].pc = "w_take")
      BY <1>2, <1>3, <2>1, TakeKept
    <3>3. CASE x = c
      <4>1. conn[x].pc = "w_move" /\ conn'[x].pc = "refused"
        BY <1>4, <1>5, <3>3
      <4>2. /\ Addressed(aq[x], "GetUsername", d) = 0 /\ Addressed(aq[x], "TakePeer", d) = 0
            /\ \A msg : Addressed(aq'[x], msg, d) = 0
        BY <2>2, <3>3
      <4> QED  BY <3>1, <3>2, <4>1, <4>2 DEF MailOf, OneIf
    <3>4. CASE x # c
      <4>1. aq'[x] = aq[x] /\ conn'[x] = conn[x] /\ (MoveUnderWay(x)' <=> MoveUnderWay(x))
        BY <1>5, <1>6, <2>2, <3>4 DEF MoveUnderWay
      <4> QED  BY <3>1, <3>2, <4>1 DEF MailOf, OneIf
    <3> QED  BY <3>3, <3>4
  <2>5. ActorOfConn'
    BY <1>3, <1>5, <1>6 DEF Inner, ActorOfConn, Early, Taking, Booting, Loop
  <2>6. ServerWait' /\ LobbyMail'
    BY <1>2, <1>3 DEF Inner, ServerWait, SeatOf, LobbyMail, IntroAsks
  <2>7. TaskMail'
    <3> SUFFICES ASSUME NEW d \in Conns
                 PROVE  TaskMailOf(d)'
      BY DEF TaskMail
    <3>1. TaskMailOf(d) /\ gq' = gq  BY <1>2, <1>3 DEF Inner, TaskMail
    <3>2. CASE d = c  BY <1>4, <1>5, <1>6, <3>1, <3>2 DEF TaskMailOf, OneIf
    <3>3. CASE d # c  BY <1>5, <1>6, <3>1, <3>3 DEF TaskMailOf
    <3> QED  BY <3>2, <3>3
  <2>8. ActiveMoves'
    BY <1>2, <1>3, <1>5, <1>6 DEF Inner, ActiveMoves, ActiveConn
  <2> QED
    BY <1>2, <1>3, <1>8, <1>9, <2>1, <2>3, <2>4, <2>5, <2>6, <2>7, <2>8, InTheGame DEF ActorMail
<1> QED  BY <1>10, <1>11

-------------------------------------------------------------------------------
(* The commands of the game server that ask actors for usernames.            *)

LEMMA SeatFacts ==
  ASSUME IInv
  PROVE  /\ \A c \in Seated : c \in Conns /\ SeatOf(c).conn = c
         /\ \A p \in Players : /\ slots[p].conn \in Conns
                               /\ Owner(slots[p].conn) = p
                               /\ SeatOf(slots[p].conn).conn = slots[p].conn
         /\ \A c \in Conns : SeatOf(c).conn = c => SlotOf(c) = Owner(c)
<1>1. \A p \in Players : slots[p].conn \in Conns /\ Owner(slots[p].conn) = p
  BY HeadFacts DEF IInv, SeatOwners
<1>2. ASSUME NEW c \in Conns, SeatOf(c).conn = c
      PROVE  SlotOf(c) = Owner(c)
  <2>1. Owner(c) \in Players  BY ConnFacts
  <2>2. \A p \in Players : slots[p].conn = c => p = Owner(c)  BY <1>1
  <2>3. slots[Owner(c)].conn = c  BY <1>2 DEF SeatOf
  <2> QED  BY <2>1, <2>2, <2>3 DEF SlotOf
<1> QED  BY <1>1, <1>2 DEF Seated, SeatOf

(* The game server asks the actor of a seat, or panics. *)
LEMMA AskStep ==
  ASSUME IInv, Running, NEW op \in Searches \cup {"GetPeerUsername", "DropPeer"},
         NEW x \in Conns, NEW found \in Conns \cup {NoConn}, Ask(op, x, found),
         UNCHANGED <<turn, slots, gq, introVars, actor, name, connVars, clientVars>>,
         gwait.op = "idle" \/ gwait.got # Pending,
         gq # <<>>, Head(gq).cmd = op, SeatOf(x).conn = x,
         op = "DropPeer" => x = Head(gq).from,
         op \in Searches =>
           /\ found = IF Owner(x) > Owner(Head(gq).from)
                      THEN SeatOf(Head(gq).from).conn ELSE NoConn
           /\ op = "GetPeerHandleByUsername" => Owner(x) <= Owner(Head(gq).from)
  PROVE  IInv'
<1> DEFINE n == GetUsername(NoConn)
<1>1. UNCHANGED <<turn, slots, gq, lobby, here, entering, iq, iwait, actor, name, conn>>
  BY DEF introVars, connVars
<1>2. TypeOK /\ Inner /\ ServerTypes /\ ActorTypes  BY TypeGroups DEF IInv
<1>3. n \in ActorMessages /\ n.msg = "GetUsername" /\ n.asker = NoConn
  BY MessageFacts
<1> HIDE DEF n
<1>4. T!HasActive(turn')  BY <1>1 DEF IInv
<1>5. op # "idle"  BY DEF Searches
<1>6. CASE Open(x)
  <2>1. /\ aq' = [aq EXCEPT ![x] = Append(@, n)]
        /\ gwait' = Asking(op, x, found) /\ crashed' = crashed
    BY <1>6 DEF Ask, n
  <2>2. /\ gwait'.op = op /\ gwait'.asked = x /\ gwait'.got = Pending /\ gwait'.found = found
        /\ gwait' \in [op : Searches \cup {"idle", "GetPeerUsername", "DropPeer"},
                       asked : Conns \cup {NoConn}, got : Names \cup {Pending},
                       found : Conns \cup {NoConn}]
    BY <2>1 DEF Asking
  <2>3. /\ aq' \in [Conns -> Seq(ActorMessages)]
        /\ \A d : OneMoreTo(aq'[x], aq[x], n, d)
        /\ \A y \in Conns : y # x => aq'[y] = aq[y]
    BY <1>2, <1>3, <2>1, PutFacts
  <2>4. TypeOK'
    <3>1. ServerTypes'  BY <1>1, <1>2, <2>2 DEF ServerTypes
    <3>2. ActorTypes'  BY <1>1, <1>2, <2>3 DEF ActorTypes
    <3> QED  BY <1>2, <2>1, <3>1, <3>2, SameTypes, TypesNext
  <2>5. GoesOn /\ StaysOn  BY <1>1 DEF GoesOn, StaysOn
  <2>6. ActorOfConn'  BY <1>2, <2>5, ActorsStay
  <2>7. ServerWait'  BY <1>1, <1>5, <2>2 DEF ServerWait, SeatOf
  <2>8. LobbyMail'  BY <1>1, <1>2 DEF Inner, LobbyMail, IntroAsks
  <2>9. TaskMail'  BY <1>1, <1>2 DEF Inner, TaskMail, TaskMailOf
  <2>10. MoversWait'  BY <1>1, <1>2 DEF Inner, MoversWait, MoveUnderWay
  <2>11. ActorMail'
    <3>1. \A y \in Conns : ~ ServerAsks(y) /\ (ServerAsks(y)' <=> y = x)
      BY <1>5, <2>2 DEF ServerAsks
    <3>2. ASSUME NEW y \in Conns, NEW d \in Conns \cup {NoConn}
          PROVE  MailOf(y, d)'
      <4>1. MailOf(y, d) /\ conn' = conn /\ iwait' = iwait
        BY <1>1, <1>2 DEF Inner, ActorMail
      <4>2. MoveUnderWay(y)' <=> MoveUnderWay(y)  BY <1>1 DEF MoveUnderWay
      <4>3. CASE y = x
        <5>1. OneMoreTo(aq'[x], aq[x], n, d) /\ x # NoConn  BY <2>3, ConnFacts
        <5> QED  BY <1>3, <3>1, <4>1, <4>2, <4>3, <5>1 DEF MailOf, OneMoreTo, OneIf
      <4>4. CASE y # x
        <5>1. aq'[y] = aq[y]  BY <2>3, <4>4
        <5> QED  BY <3>1, <4>1, <4>2, <4>4, <5>1 DEF MailOf, OneIf
      <4> QED  BY <4>3, <4>4
    <3> QED  BY <3>2 DEF ActorMail
  <2>12. ActiveMoves'  BY <1>1, <1>2 DEF Inner, ActiveMoves, ActiveConn
  <2> QED
    BY <1>1, <1>2, <1>4, <2>4, <2>5, <2>6, <2>7, <2>8, <2>9, <2>10, <2>11, <2>12, InTheGame
<1>7. CASE ~ Open(x)
  <2>1. crashed' = "game" /\ aq' = aq /\ gwait' = gwait  BY <1>7 DEF Ask, Panic
  <2>2. TypeOK'
    <3>1. ServerTypes' /\ ActorTypes'
      BY <1>1, <1>2, <2>1 DEF ServerTypes, ActorTypes
    <3> QED  BY <1>2, <2>1, <3>1, SameTypes, TypesNext
  <2> QED  BY <1>1, <1>4, <2>1, <2>2, ServerEnds DEF Running
<1> QED  BY <1>6, <1>7

LEMMA GetPeerUsernameStep ==
  ASSUME IInv, GetPeerUsername
  PROVE  IInv'
<1> DEFINE x == Head(gq).arg
<1>1. /\ Running /\ gwait.op = "idle" /\ gq # <<>> /\ Head(gq).cmd = "GetPeerUsername"
      /\ UNCHANGED <<turn, slots, gq, introVars, actor, name, connVars, clientVars>>
  BY DEF GetPeerUsername, Receive
<1>2. CASE x \in Seated
  <2>1. x \in Conns /\ SeatOf(x).conn = x  BY <1>2, SeatFacts
  <2>2. Ask("GetPeerUsername", x, NoConn)  BY <1>2 DEF GetPeerUsername
  <2> QED  BY <1>1, <2>1, <2>2, AskStep DEF Searches
<1>3. CASE x \notin Seated
  <2>1. crashed' = "game" /\ aq' = aq /\ gwait' = gwait
    BY <1>3 DEF GetPeerUsername, Panic
  <2>2. TypeOK /\ ServerTypes /\ ActorTypes  BY TypeGroups DEF IInv
  <2>3. ServerTypes' /\ ActorTypes'
    BY <1>1, <2>1, <2>2 DEF ServerTypes, ActorTypes
  <2>4. TypeOK'  BY <1>1, <2>1, <2>2, <2>3, SameTypes, TypesNext
  <2>5. T!HasActive(turn')  BY <1>1 DEF IInv
  <2> QED  BY <1>1, <2>1, <2>4, <2>5, ServerEnds DEF Running
<1> QED  BY <1>2, <1>3

LEMMA SearchByNameStep ==
  ASSUME IInv, SearchByName
  PROVE  IInv'
<1> DEFINE x == slots[0].conn
<1>1. /\ Running /\ gwait.op = "idle" /\ gq # <<>> /\ Head(gq).cmd \in Searches
      /\ Ask(Head(gq).cmd, x, NoConn)
      /\ UNCHANGED <<turn, slots, gq, introVars, actor, name, connVars, clientVars>>
  BY DEF SearchByName, Receive
<1>2. x \in Conns /\ Owner(x) = 0 /\ SeatOf(x).conn = x  BY SeatFacts, ConnFacts
<1>3. Owner(Head(gq).from) \in Nat  BY <1>1, HeadFacts, ConnFacts DEF IInv
<1>4. Head(gq).cmd # "DropPeer"  BY <1>1 DEF Searches
<1> HIDE DEF x
<1> QED  BY <1>1, <1>2, <1>3, <1>4, AskStep

(* What a search knows when the actor has answered. *)
LEMMA SearchFacts ==
  ASSUME IInv, Running, gwait.op \in Searches, gwait.got # Pending
  PROVE  LET a == gwait.asked
             f == Head(gq).from
         IN  /\ gq # <<>> /\ Head(gq).cmd = gwait.op
             /\ a \in Conns /\ f \in Conns
             /\ Owner(a) \in Nat /\ Owner(f) \in Nat
             /\ Owner(a) \in Players /\ Owner(f) \in Players
             /\ SeatOf(a).conn = a /\ SlotOf(a) = Owner(a)
             /\ Matches <=> Owner(a) = Owner(f)
             /\ FoundSoFar = IF Owner(a) >= Owner(f) THEN SeatOf(f).conn ELSE NoConn
             /\ gwait.op = "GetPeerHandleByUsername" => Owner(a) <= Owner(f)
<1> DEFINE a == gwait.asked
           f == Head(gq).from
<1>1. /\ gq # <<>> /\ Head(gq).cmd = gwait.op /\ a \in Conns /\ SeatOf(a).conn = a
      /\ gwait.found = IF Owner(a) > Owner(f) THEN SeatOf(f).conn ELSE NoConn
      /\ gwait.got = Owner(a)
      /\ gwait.op = "GetPeerHandleByUsername" => Owner(a) <= Owner(f)
  BY DEF IInv, Inner, ServerWait, Searches
<1>2. f \in Conns  BY <1>1, HeadFacts DEF IInv
<1>3. /\ Owner(a) \in Nat /\ Owner(f) \in Nat
      /\ Owner(a) \in Players /\ Owner(f) \in Players
  BY <1>1, <1>2, ConnFacts
<1>4. SlotOf(a) = Owner(a)  BY <1>1, SeatFacts
<1>5. Matches <=> Owner(a) = Owner(f)  BY <1>1 DEF Matches
<1>6. Owner(a) = Owner(f) => SeatOf(f).conn = a  BY <1>1 DEF SeatOf
<1>7. FoundSoFar = IF Owner(a) >= Owner(f) THEN SeatOf(f).conn ELSE NoConn
  BY <1>1, <1>3, <1>5, <1>6 DEF FoundSoFar
<1> QED  BY <1>1, <1>2, <1>3, <1>4, <1>5, <1>7

LEMMA SearchOnStep ==
  ASSUME IInv, SearchOn
  PROVE  IInv'
<1> DEFINE a == gwait.asked
           f == Head(gq).from
           x == slots[Owner(a) + 1].conn
<1>1. /\ Running /\ gwait.op \in Searches /\ gwait.got # Pending /\ ~ SearchOver
      /\ UNCHANGED <<turn, slots, gq, introVars, actor, name, connVars, clientVars>>
  BY DEF SearchOn, Came
<1>2. /\ gq # <<>> /\ Head(gq).cmd = gwait.op
      /\ a \in Conns /\ f \in Conns
      /\ Owner(a) \in Nat /\ Owner(f) \in Nat
      /\ Owner(a) \in Players /\ Owner(f) \in Players
      /\ SeatOf(a).conn = a /\ SlotOf(a) = Owner(a)
      /\ Matches <=> Owner(a) = Owner(f)
      /\ FoundSoFar = IF Owner(a) >= Owner(f) THEN SeatOf(f).conn ELSE NoConn
      /\ gwait.op = "GetPeerHandleByUsername" => Owner(a) <= Owner(f)
  BY <1>1, SearchFacts
<1>3. Ask(gwait.op, x, FoundSoFar)  BY <1>2 DEF SearchOn
<1>4. Owner(a) # PlayerCount - 1 /\ (gwait.op = "GetPeerHandleByUsername" => ~ Matches)
  BY <1>1, <1>2 DEF SearchOver
<1>5. Owner(a) + 1 \in Players  BY <1>2, <1>4, ConnFacts, SessionAssumption
<1>6. x \in Conns /\ Owner(x) = Owner(a) + 1 /\ SeatOf(x).conn = x
  BY <1>5, SeatFacts
<1>7. SeatOf(f).conn \in Conns  BY <1>2, SeatFacts DEF SeatOf
<1> HIDE DEF x
<1>8. /\ FoundSoFar \in Conns \cup {NoConn}
      /\ FoundSoFar = IF Owner(x) > Owner(f) THEN SeatOf(f).conn ELSE NoConn
      /\ gwait.op = "GetPeerHandleByUsername" => Owner(x) <= Owner(f)
  BY <1>2, <1>4, <1>6, <1>7
<1>9. gwait.op # "DropPeer"  BY <1>1 DEF Searches
<1> QED  BY <1>1, <1>2, <1>3, <1>6, <1>8, <1>9, AskStep

LEMMA DropPeerOfNoSeatStep ==
  ASSUME IInv, DropPeer, Head(gq).from \notin Seated
  PROVE  IInv'
<1> DEFINE h == Head(gq).from
<1>1. /\ Running /\ gwait.op = "idle" /\ gq # <<>> /\ Head(gq).cmd = "DropPeer"
      /\ gq' = Tail(gq)
  BY DEF DropPeer, Receive, Taken
<1>2. UNCHANGED <<turn, slots, gwait, lobby, here, entering, iq, iwait, actor,
                  name, aq, conn, sock, client, view, presses, eager, chats, cin,
                  crashed>>
  BY DEF DropPeer, Taken, serverVars, introVars, actorVars, connVars, clientVars
<1>3. TypeOK /\ Inner /\ ServerTypes /\ ActorTypes /\ ConnTypes
  BY <1>1, TypeGroups DEF IInv
<1>4. Head(gq).cmd = "DropPeer"  BY <1>1
<1>5. StaysOn  BY <1>1, <1>2 DEF StaysOn, Loop, Booting, Busy
<1>6. TypeOK'
  <2>1. gq' \in Seq(Requests)  BY <1>1, <1>3, AskedAfterTake
  <2>2. ServerTypes'  BY <1>2, <1>3, <2>1 DEF ServerTypes
  <2> QED
    BY <1>2, <1>3, <2>2, SameTypes, TypesNext DEF introVars, actorVars, connVars, clientVars
<1>7. ServerWait' /\ LobbyMail'
  BY <1>1, <1>2, <1>3, ServerWaitIdle, LobbyMailTaken DEF IntroCmds
<1>8. TaskMail'
  <2> SUFFICES ASSUME NEW d \in Conns
               PROVE  TaskMailOf(d)'
    BY DEF TaskMail
  <2>1. TaskMailOf(d) /\ OneMore(gq, gq', Head(gq), d)
    BY <1>1, <1>3, TakeCounts DEF Inner, TaskMail
  <2>2. conn' = conn /\ actor' = actor  BY <1>2
  <2>3. CASE d = h
    <3>1. /\ conn'[d] = conn[d]
          /\ actor'[d] = actor[d]
          /\ Head(gq).cmd = "DropPeer"
          /\ Head(gq).from = d
      BY <1>4, <2>2, <2>3
    <3> QED  BY <2>1, <3>1 DEF TaskMailOf, OneMore, OneIf
  <2>4. CASE d # h
    <3>1. conn'[d] = conn[d] /\ actor'[d] = actor[d] /\ Head(gq).from # d
      BY <2>2, <2>4
    <3> QED  BY <2>1, <3>1 DEF TaskMailOf, OneMore, OneIf
  <2> QED  BY <2>3, <2>4
<1>9. SameAsks  BY <1>1, <1>2, <1>3, SameCounts
<1>10. MoversWait' /\ ActorMail'
  BY <1>1, <1>2, <1>3, <1>5, <1>9, StaysGoesOn, MailKept DEF MoveUnderWay, ServerAsks
<1>11. ActiveMoves'  BY <1>1, <1>2, <1>3 DEF Inner, ActiveMoves, ActiveConn
<1>12. T!HasActive(turn')  BY <1>2 DEF IInv
<1> QED
  BY <1>2, <1>3, <1>5, <1>6, <1>7, <1>8, <1>10, <1>11, <1>12,
     StaysGoesOn, ActorsStay, InTheGame

LEMMA DropPeerStep ==
  ASSUME IInv, DropPeer
  PROVE  IInv'
<1>1. /\ Running /\ gwait.op = "idle" /\ gq # <<>> /\ Head(gq).cmd = "DropPeer"
      /\ UNCHANGED <<turn, slots, introVars, actor, name, connVars, clientVars>>
  BY DEF DropPeer, Receive
<1>2. CASE Head(gq).from \in Seated
  <2>1. Head(gq).from \in Conns /\ SeatOf(Head(gq).from).conn = Head(gq).from
    BY <1>2, SeatFacts
  <2>2. Ask("DropPeer", Head(gq).from, NoConn) /\ gq' = gq  BY <1>2 DEF DropPeer
  <2> QED  BY <1>1, <2>1, <2>2, AskStep DEF Searches
<1> QED  BY <1>2, DropPeerOfNoSeatStep

(* The seat of a connection that has ended is offline from now on. *)
LEMMA MarkOfflineStep ==
  ASSUME IInv, MarkOffline
  PROVE  IInv'
<1> DEFINE h == gwait.asked
<1>1. /\ Running /\ gwait.op = "DropPeer" /\ gwait.got # Pending
      /\ gq' = Tail(gq) /\ gwait' = ServerIdle
      /\ aq' = Post(aq, OnlineSeats \ {h}, SendTcp(Chat))
      /\ slots' = [p \in Players |-> IF slots[p].conn = h
                                     THEN [slots[p] EXCEPT !.online = FALSE]
                                     ELSE slots[p]]
  BY DEF MarkOffline, Came, Finished
<1>2. UNCHANGED <<turn, lobby, here, entering, iq, iwait, actor, name, conn, sock,
                  client, view, presses, eager, chats, cin, crashed>>
  BY DEF MarkOffline, introVars, connVars, clientVars
<1>3. TypeOK /\ Inner /\ ServerTypes /\ ActorTypes  BY <1>1, TypeGroups DEF IInv
<1>4. /\ gq # <<>> /\ Head(gq).cmd = "DropPeer" /\ h = Head(gq).from
      /\ h \in Conns /\ conn[h].pc = "ended"
  <2>1. gq # <<>> /\ Head(gq).cmd = "DropPeer" /\ h = Head(gq).from
    BY <1>1, <1>3 DEF Inner, ServerWait
  <2> QED  BY <2>1, <1>3, HeadTask
<1>5. ASSUME NEW p \in Players
      PROVE  /\ slots'[p] \in [conn : Conns, online : BOOLEAN]
             /\ slots'[p].conn = slots[p].conn
             /\ ~ slots[p].online => ~ slots'[p].online
             /\ ~ slots'[p].online => ~ slots[p].online \/ slots[p].conn = h
  <2>1. slots[p] \in [conn : Conns, online : BOOLEAN]  BY <1>3 DEF ServerTypes
  <2>2. CASE slots[p].conn = h
    <3>1. slots'[p] = [slots[p] EXCEPT !.online = FALSE]  BY <1>1, <2>2
    <3> QED  BY <2>1, <2>2, <3>1
  <2>3. CASE slots[p].conn # h  BY <1>1, <2>1, <2>3
  <2> QED  BY <2>2, <2>3
<1>6. SameAsks /\ aq' \in [Conns -> Seq(ActorMessages)]
  <2>1. SendTcp(Chat) \in ActorMessages /\ SendTcp(Chat).msg \notin Counted
    BY MessageFacts DEF Counted
  <2>2. aq \in [Conns -> Seq(ActorMessages)]  BY <1>3 DEF ActorTypes
  <2>3. /\ aq' \in [Conns -> Seq(ActorMessages)]
        /\ \A y \in Conns : \A d : SameFor(aq'[y], aq[y], d)
    BY <1>1, <2>1, <2>2, PostFacts
  <2> QED  BY <2>3 DEF SameAsks
<1>7. TypeOK'
  <2>1. gq' \in Seq(Requests)  BY <1>1, <1>3, <1>4, AskedAfterTake
  <2>2. gwait' \in [op : Searches \cup {"idle", "GetPeerUsername", "DropPeer"},
                    asked : Conns \cup {NoConn}, got : Names \cup {Pending},
                    found : Conns \cup {NoConn}]
    BY <1>1 DEF ServerIdle
  <2>3. slots' \in [Players -> [conn : Conns, online : BOOLEAN]]  BY <1>1, <1>5
  <2>4. ServerTypes'  BY <1>2, <1>3, <2>1, <2>2, <2>3 DEF ServerTypes
  <2>5. ActorTypes'  BY <1>2, <1>3, <1>6 DEF ActorTypes
  <2> QED
    BY <1>2, <1>3, <2>4, <2>5, SameTypes, TypesNext DEF introVars, connVars, clientVars
<1>8. T!HasActive(turn')  BY <1>2 DEF IInv
<1>9. SeatOwners'  BY <1>5 DEF IInv, SeatOwners
<1>10. ActorOfConn' /\ SeatKept' /\ NameKept' /\ SeatNamed'
  <2>1. ActorOfConn'  BY <1>2, <1>3 DEF Inner, ActorOfConn
  <2>2. SeatKept'  BY <1>2, <1>3, <1>4, <1>5 DEF Inner, SeatKept
  <2>3. NameKept'  BY <1>2, <1>3 DEF Inner, NameKept
  <2>4. SeatNamed'  BY <1>2, <1>3, <1>5 DEF Inner, SeatNamed, Open
  <2> QED  BY <2>1, <2>2, <2>3, <2>4
<1>11. ServerWait' /\ LobbyMail'
  <2>1. ServerWait'  BY <1>1 DEF ServerWait, ServerIdle
  <2>2. LobbyMail'  BY <1>1, <1>2, <1>3, <1>4, LobbyMailTaken DEF IntroCmds
  <2> QED  BY <2>1, <2>2
<1>12. TaskMail'
  <2> SUFFICES ASSUME NEW d \in Conns
               PROVE  TaskMailOf(d)'
    BY DEF TaskMail
  <2>1. TaskMailOf(d) /\ OneMore(gq, gq', Head(gq), d)
    BY <1>1, <1>3, <1>4, TakeCounts DEF Inner, TaskMail
  <2>2. conn'[d] = conn[d] /\ actor'[d] = actor[d] /\ Head(gq).cmd = "DropPeer"
    BY <1>2, <1>4
  <2> QED  BY <2>1, <2>2 DEF TaskMailOf, OneMore, OneIf
<1>13. MoversWait' /\ ActorMail'
  <2>1. GoesOn  BY <1>2 DEF GoesOn
  <2>2. \A x \in Conns : ~ ServerAsks(x) /\ ~ ServerAsks(x)'
    BY <1>1 DEF ServerAsks, ServerIdle
  <2> QED  BY <1>2, <1>3, <1>6, <2>1, <2>2, MailKept DEF MoveUnderWay
<1>14. IntroMail' /\ Answers'
  BY <1>2, <1>3 DEF Inner, IntroMail, IntroMailOf, Answers
<1>15. Seen'
  <2>1. iwait.op # "idle" => /\ iwait.from \in Conns
                             /\ SeatOf(iwait.from)'.conn = SeatOf(iwait.from).conn
                             /\ ~ SeatOf(iwait.from).online => ~ SeatOf(iwait.from)'.online
    BY <1>2, <1>3, <1>5, ConnFacts DEF Inner, Answers, SeatOf
  <2> QED  BY <1>2, <1>3, <2>1 DEF Inner, Seen, Found
<1>16. HandingOver' /\ OneTaking'
  BY <1>2, <1>3 DEF Inner, HandingOver, OneTaking, Open
<1>17. HereKept'
  <2>1. \A c \in here : c \in Conns /\ (~ SeatOf(c).online => ~ SeatOf(c)'.online)
    BY <1>3, <1>5, ConnFacts DEF SeatOf, TypeOK
  <2> QED  BY <1>2, <1>3, <2>1 DEF Inner, HereKept
<1>18. ActiveMoves'
  <2>1. ActiveConn(turn)' = ActiveConn(turn)
    BY <1>2, <1>3, <1>5, ActiveFacts DEF ActiveConn, IInv
  <2> QED  BY <1>2, <1>3, <2>1 DEF Inner, ActiveMoves
<1> QED
  BY <1>7, <1>8, <1>9, <1>10, <1>11, <1>12, <1>13, <1>14, <1>15, <1>16, <1>17, <1>18
     DEF IInv, Inner

-------------------------------------------------------------------------------
(* The game server answers the intro server.                                *)

LEMMA NoneAsked ==
  ASSUME NEW M, NEW q \in Seq(M), NEW cmds, NEW c, Asked(q, cmds, c) = 0
  PROVE  \A i \in DOMAIN q : ~ (q[i].cmd \in cmds /\ q[i].from = c)
<1> DEFINE S == {i \in DOMAIN q : q[i].cmd \in cmds /\ q[i].from = c}
<1>1. DOMAIN q = 1 .. Len(q) /\ Len(q) \in Nat  OBVIOUS
<1>2. IsFiniteSet(1 .. Len(q))  BY <1>1, FS_Interval
<1>3. IsFiniteSet(S)  BY <1>1, <1>2, FS_Subset
<1>4. S = {}  BY <1>3, FS_EmptySet DEF Asked
<1> QED  BY <1>4

(* No request of the intro server is under way when it waits for none. *)
LEMMA NoLobbyMail ==
  ASSUME NEW q \in Seq(Requests),
         \A cmd \in IntroCmds : \A c \in Conns : Asked(q, {cmd}, c) = 0
  PROVE  \A i \in DOMAIN q : q[i].cmd \notin IntroCmds
<1>1. SUFFICES ASSUME NEW i \in DOMAIN q, q[i].cmd \in IntroCmds
               PROVE  FALSE
  OBVIOUS
<1>2. q[i].from \in Conns
  <2>1. q[i] \in Requests  OBVIOUS
  <2> QED  BY <2>1 DEF Requests
<1>3. Asked(q, {q[i].cmd}, q[i].from) = 0  BY <1>1, <1>2
<1> QED  BY <1>3, NoneAsked

LEMMA IdleLobby ==
  ASSUME IInv, Inner, iwait.op \in {"idle", "answer"} \/ iwait.got # Nothing
  PROVE  /\ \A cmd \in IntroCmds : \A c \in Conns : Asked(gq, {cmd}, c) = 0
         /\ \A i \in DOMAIN gq : gq[i].cmd \notin IntroCmds
<1>1. gq \in Seq(Requests)  BY DEF IInv, TypeOK
<1>2. \A cmd \in IntroCmds : \A c \in Conns : Asked(gq, {cmd}, c) = 0
  BY DEF Inner, LobbyMail, IntroAsks, OneIf, IntroCmds
<1> QED  BY <1>1, <1>2, NoLobbyMail

LEMMA LobbyAnswered ==
  ASSUME IInv, Inner, gq # <<>>, gq' = Tail(gq), Head(gq).cmd \in IntroCmds,
         gwait.op = "idle" \/ gwait.got # Pending, gwait'.op = "idle",
         iwait'.op = iwait.op, iwait'.from = iwait.from, iwait'.got # Nothing,
         UNCHANGED <<entering, iq, actor, name, aq, conn>>
  PROVE  /\ iwait.op \in {"id", "connected", "handle", "reconnect"}
         /\ iwait.from = Head(gq).from /\ iwait.got = Nothing
         /\ ActorOfConn' /\ NameKept' /\ ServerWait' /\ TaskMail' /\ LobbyMail'
         /\ MoversWait' /\ ActorMail' /\ IntroMail' /\ OneTaking'
<1> DEFINE h == Head(gq).from
<1>1. TypeOK /\ h \in Conns /\ gq \in Seq(Requests)
  BY HeadFacts DEF IInv, TypeOK
<1>2. \/ Head(gq).cmd = "GetPeerIdByName" /\ IntroAsks("id", h)
      \/ Head(gq).cmd = "IsPeerConnected" /\ IntroAsks("connected", h)
      \/ Head(gq).cmd = "GetPeerHandleByUsername" /\ IntroAsks("handle", h)
      \/ Head(gq).cmd = "ReconnectPeer" /\ IntroAsks("reconnect", h)
  BY HeadLobby DEF IntroCmds
<1>3. /\ iwait.op \in {"id", "connected", "handle", "reconnect"}
      /\ iwait.from = h /\ iwait.got = Nothing
  BY <1>2 DEF IntroAsks
<1>4. ActorOfConn' /\ NameKept'  BY DEF Inner, ActorOfConn, NameKept
<1>5. ServerWait'  BY DEF ServerWait
<1>6. TaskMail'
  <2> SUFFICES ASSUME NEW d \in Conns
               PROVE  TaskMailOf(d)'
    BY DEF TaskMail
  <2>1. TaskMailOf(d) /\ OneMore(gq, gq', Head(gq), d)
    BY <1>1, TakeCounts DEF Inner, TaskMail
  <2>2. conn' = conn /\ actor' = actor /\ Head(gq).cmd \in IntroCmds  OBVIOUS
  <2> QED  BY <2>1, <2>2 DEF TaskMailOf, OneMore, OneIf, IntroCmds
<1>7. LobbyMail'
  <2>1. gq' \in Seq(Requests)  BY <1>1, AskedAfterTake
  <2>2. ASSUME NEW cmd \in IntroCmds, NEW c \in Conns
        PROVE  Asked(gq', {cmd}, c) = 0
    <3>1. /\ Asked(gq', {cmd}, c) \in Nat
          /\ Asked(gq, {cmd}, c) = Asked(gq', {cmd}, c)
               + (IF Head(gq).cmd = cmd /\ h = c THEN 1 ELSE 0)
      BY <1>1, AskedAfterTake
    <3>2. Asked(gq, {cmd}, c) = OneIf(Head(gq).cmd = cmd /\ h = c)
      BY <1>2, <1>3 DEF Inner, LobbyMail, IntroAsks, OneIf, IntroCmds
    <3> QED  BY <3>1, <3>2 DEF OneIf
  <2>3. \A i \in DOMAIN gq' : gq'[i].cmd \notin IntroCmds
    BY <2>1, <2>2, NoLobbyMail
  <2> QED  BY <2>2, <2>3 DEF LobbyMail, IntroAsks, OneIf, IntroCmds
<1>8. MoversWait' /\ ActorMail'
  <2>1. MoversWait' /\ \A x \in Conns : ~ ServerAsks(x) /\ ~ ServerAsks(x)'
                                        /\ (MoveUnderWay(x)' <=> MoveUnderWay(x))
    BY DEF Inner, MoversWait, MoveUnderWay, ServerAsks
  <2>2. ASSUME NEW x \in Conns, NEW d \in Conns \cup {NoConn}
        PROVE  MailOf(x, d)'
    <3>1. MailOf(x, d) /\ aq' = aq /\ conn' = conn  BY DEF Inner, ActorMail
    <3> QED  BY <1>3, <2>1, <3>1 DEF MailOf, OneIf
  <2> QED  BY <2>1, <2>2 DEF ActorMail
<1>9. IntroMail'  BY DEF Inner, IntroMail, IntroMailOf
<1>10. OneTaking'  BY <1>3 DEF Inner, OneTaking
<1> QED  BY <1>3, <1>4, <1>5, <1>6, <1>7, <1>8, <1>9, <1>10

LEMMA IsPeerConnectedStep ==
  ASSUME IInv, IsPeerConnected
  PROVE  IInv'
<1> DEFINE h == Head(gq).from
           a == IF Head(gq).arg \in OnlineSeats THEN "online" ELSE "offline"
<1>1. /\ Running /\ gwait.op = "idle" /\ gq # <<>> /\ Head(gq).cmd = "IsPeerConnected"
      /\ gq' = Tail(gq) /\ gwait' = gwait
      /\ iwait' = [iwait EXCEPT !.got = a]
  BY DEF IsPeerConnected, Receive, Taken
<1>2. UNCHANGED <<turn, slots, lobby, here, entering, iq, actor, name, aq, conn, sock,
                  client, view, presses, eager, chats, cin, crashed>>
  BY DEF IsPeerConnected, actorVars, connVars, clientVars
<1>3. TypeOK /\ Inner /\ ServerTypes /\ IntroTypes  BY <1>1, TypeGroups DEF IInv
<1>4. /\ iwait.op = "connected" /\ iwait.got = Nothing /\ iwait.from = h /\ h \in Conns
      /\ Head(gq).arg = iwait.old
  BY <1>1, <1>3, HeadLobby, HeadTask DEF IntroAsks
<1>5. /\ iwait' \in [op : {"idle", "id", "connected", "handle", "answer", "reconnect"},
                     from : Conns \cup {NoConn}, old : Conns \cup {NoConn},
                     got : {Nothing, "some", "none", "online", "offline", "done"}]
      /\ iwait'.op = iwait.op /\ iwait'.from = iwait.from /\ iwait'.old = iwait.old
      /\ iwait'.got \in {"online", "offline"} /\ iwait'.got # Nothing
      /\ iwait'.got = "offline" => iwait.old \notin OnlineSeats
  <2>1. a \in {"online", "offline"} /\ (a = "offline" => iwait.old \notin OnlineSeats)
    BY <1>4
  <2> HIDE DEF a
  <2> QED  BY <1>1, <1>3, <2>1 DEF IntroTypes, Nothing
<1>6. /\ ActorOfConn' /\ NameKept' /\ ServerWait' /\ TaskMail' /\ LobbyMail'
      /\ MoversWait' /\ ActorMail' /\ IntroMail' /\ OneTaking'
  BY <1>1, <1>2, <1>3, <1>5, LobbyAnswered DEF IntroCmds
<1>7. TypeOK'
  <2>1. gq' \in Seq(Requests)  BY <1>1, <1>3, AskedAfterTake
  <2>2. ServerTypes' /\ IntroTypes'
    BY <1>1, <1>2, <1>3, <1>5, <2>1 DEF ServerTypes, IntroTypes
  <2> QED
    BY <1>2, <1>3, <2>2, SameTypes, TypesNext DEF actorVars, connVars, clientVars
<1>8. T!HasActive(turn') /\ SeatOwners'  BY <1>2 DEF IInv, SeatOwners
<1>9. SeatKept' /\ SeatNamed'
  BY <1>2, <1>3, <1>5 DEF Inner, SeatKept, SeatNamed, Open
<1>10. Answers'  BY <1>2, <1>3, <1>4, <1>5 DEF Inner, Answers
<1>11. Seen'
  <2>1. iwait.old = SeatOf(h).conn  BY <1>3, <1>4 DEF Inner, Seen, Found
  <2>2. iwait.old \notin OnlineSeats => ~ SeatOf(h).online
    BY <1>4, <2>1, ConnFacts DEF OnlineSeats, SeatOf
  <2> QED  BY <1>2, <1>4, <1>5, <2>1, <2>2 DEF Seen, Found, SeatOf
<1>12. HandingOver' /\ HereKept'
  BY <1>2, <1>3, <1>4, <1>5 DEF Inner, HandingOver, HereKept, SeatOf
<1>13. ActiveMoves'  BY <1>2, <1>3 DEF Inner, ActiveMoves, ActiveConn
<1> QED  BY <1>6, <1>7, <1>8, <1>9, <1>10, <1>11, <1>12, <1>13 DEF IInv, Inner

(* The search by name ends at the seat of the player of that name. *)
LEMMA AnswerSearchStep ==
  ASSUME IInv, AnswerSearch
  PROVE  IInv'
<1> DEFINE h == Head(gq).from
<1>1. /\ Running /\ gwait.op \in Searches /\ gwait.got # Pending /\ SearchOver
      /\ gq' = Tail(gq) /\ gwait' = ServerIdle
      /\ iwait' = [iwait EXCEPT !.old = FoundSoFar,
                                !.got = IF FoundSoFar = NoConn THEN "none" ELSE "some"]
  BY DEF AnswerSearch, Came, Finished
<1>2. UNCHANGED <<turn, slots, lobby, here, entering, iq, actor, name, aq, conn, sock,
                  client, view, presses, eager, chats, cin, crashed>>
  BY DEF AnswerSearch, actorVars, connVars, clientVars
<1>3. TypeOK /\ Inner /\ ServerTypes /\ IntroTypes  BY <1>1, TypeGroups DEF IInv
<1>4. /\ gq # <<>> /\ Head(gq).cmd = gwait.op /\ h \in Conns
      /\ FoundSoFar = SeatOf(h).conn
  <2>1. /\ gq # <<>> /\ Head(gq).cmd = gwait.op
        /\ h \in Conns /\ Owner(gwait.asked) \in Nat /\ Owner(h) \in Nat
        /\ Owner(gwait.asked) \in Players /\ Owner(h) \in Players
        /\ SlotOf(gwait.asked) = Owner(gwait.asked)
        /\ Matches <=> Owner(gwait.asked) = Owner(h)
        /\ FoundSoFar = IF Owner(gwait.asked) >= Owner(h) THEN SeatOf(h).conn ELSE NoConn
        /\ gwait.op = "GetPeerHandleByUsername" => Owner(gwait.asked) <= Owner(h)
    BY <1>1, SearchFacts
  <2>2. Owner(gwait.asked) >= Owner(h)
    <3>1. \/ Owner(gwait.asked) = PlayerCount - 1
          \/ Owner(gwait.asked) = Owner(h)
      BY <1>1, <2>1 DEF SearchOver
    <3>2. PlayerCount \in Nat /\ Owner(h) <= PlayerCount - 1
      BY <2>1, ConnFacts, SessionAssumption
    <3> QED  BY <2>1, <3>1, <3>2
  <2> QED  BY <2>1, <2>2
<1>5. iwait.op \in {"id", "handle"} /\ iwait.got = Nothing /\ iwait.from = h
  BY <1>1, <1>3, <1>4, HeadLobby DEF IntroAsks, Searches
<1>6. SeatOf(h).conn \in Conns /\ SeatOf(h).conn # NoConn
  BY <1>4, ConnFacts, SeatFacts DEF SeatOf
<1>7. /\ iwait' \in [op : {"idle", "id", "connected", "handle", "answer", "reconnect"},
                     from : Conns \cup {NoConn}, old : Conns \cup {NoConn},
                     got : {Nothing, "some", "none", "online", "offline", "done"}]
      /\ iwait'.op = iwait.op /\ iwait'.from = iwait.from /\ iwait'.got # Nothing
      /\ iwait'.old = SeatOf(h).conn /\ iwait'.got = "some"
  <2>1. iwait' = [iwait EXCEPT !.old = SeatOf(h).conn, !.got = "some"]
    BY <1>1, <1>4, <1>6
  <2> QED  BY <1>3, <1>6, <2>1 DEF IntroTypes, Nothing
<1>8. gwait'.op = "idle"  BY <1>1 DEF ServerIdle
<1>9. /\ ActorOfConn' /\ NameKept' /\ ServerWait' /\ TaskMail' /\ LobbyMail'
      /\ MoversWait' /\ ActorMail' /\ IntroMail' /\ OneTaking'
  BY <1>1, <1>2, <1>3, <1>4, <1>7, <1>8, LobbyAnswered DEF IntroCmds, Searches
<1>10. TypeOK'
  <2>1. gq' \in Seq(Requests)  BY <1>1, <1>3, <1>4, AskedAfterTake
  <2>2. gwait' \in [op : Searches \cup {"idle", "GetPeerUsername", "DropPeer"},
                    asked : Conns \cup {NoConn}, got : Names \cup {Pending},
                    found : Conns \cup {NoConn}]
    BY <1>1 DEF ServerIdle
  <2>3. ServerTypes' /\ IntroTypes'
    BY <1>2, <1>3, <1>7, <2>1, <2>2 DEF ServerTypes, IntroTypes
  <2> QED
    BY <1>2, <1>3, <2>3, SameTypes, TypesNext DEF actorVars, connVars, clientVars
<1>11. T!HasActive(turn') /\ SeatOwners'  BY <1>2 DEF IInv, SeatOwners
<1>12. SeatKept' /\ SeatNamed'
  BY <1>2, <1>3, <1>5 DEF Inner, SeatKept, SeatNamed, Open
<1>13. Answers'  BY <1>2, <1>3, <1>5, <1>7 DEF Inner, Answers
<1>14. Seen'  BY <1>2, <1>5, <1>7 DEF Seen, Found, SeatOf
<1>15. HandingOver' /\ HereKept'
  BY <1>2, <1>3, <1>5, <1>7 DEF Inner, HandingOver, HereKept, SeatOf
<1>16. ActiveMoves'  BY <1>2, <1>3 DEF Inner, ActiveMoves, ActiveConn
<1> QED  BY <1>9, <1>10, <1>11, <1>12, <1>13, <1>14, <1>15, <1>16 DEF IInv, Inner

(* The slot goes to the new connection.  The old one has ended, so that no    *)
(* move is under way for it.                                               *)
LEMMA ReconnectPeerStep ==
  ASSUME IInv, ReconnectPeer
  PROVE  IInv'
<1> DEFINE h == Head(gq).from
<1>1. /\ Running /\ gwait.op = "idle" /\ gq # <<>> /\ Head(gq).cmd = "ReconnectPeer"
      /\ gq' = Tail(gq) /\ gwait' = gwait
      /\ slots' = [p \in Players |-> IF slots[p].conn = Head(gq).arg
                                     THEN [conn |-> h, online |-> TRUE]
                                     ELSE slots[p]]
      /\ iwait' = [iwait EXCEPT !.got = "done"]
  BY DEF ReconnectPeer, Receive, Taken
<1>2. UNCHANGED <<turn, lobby, here, entering, iq, actor, name, aq, conn, sock,
                  client, view, presses, eager, chats, cin, crashed>>
  BY DEF ReconnectPeer, actorVars, connVars, clientVars
<1>3. TypeOK /\ Inner /\ ServerTypes /\ IntroTypes  BY <1>1, TypeGroups DEF IInv
<1>4. /\ iwait.op = "reconnect" /\ iwait.got = Nothing /\ iwait.from = h /\ h \in Conns
      /\ Head(gq).arg = iwait.old
  BY <1>1, <1>3, HeadLobby, HeadTask DEF IntroAsks
<1>5. /\ iwait' \in [op : {"idle", "id", "connected", "handle", "answer", "reconnect"},
                     from : Conns \cup {NoConn}, old : Conns \cup {NoConn},
                     got : {Nothing, "some", "none", "online", "offline", "done"}]
      /\ iwait'.op = "reconnect" /\ iwait'.from = h /\ iwait'.old = iwait.old
      /\ iwait'.got = "done" /\ iwait'.got # Nothing
  BY <1>1, <1>3, <1>4 DEF IntroTypes, Nothing
<1>6. /\ ActorOfConn' /\ NameKept' /\ ServerWait' /\ TaskMail' /\ LobbyMail'
      /\ MoversWait' /\ ActorMail' /\ IntroMail' /\ OneTaking'
  BY <1>1, <1>2, <1>3, <1>4, <1>5, LobbyAnswered DEF IntroCmds
<1>7. /\ iwait.old = slots[Owner(h)].conn /\ h \in here /\ Owner(h) \in Players
      /\ actor[h] # "none" /\ name[h] = Owner(h) /\ iwait.old \in Conns
      /\ Owner(iwait.old) = Owner(h) /\ conn[h].pc \notin {"take", "w_take"}
  <2>1. iwait.old = slots[Owner(h)].conn
    BY <1>3, <1>4 DEF Inner, Seen, Found, SeatOf
  <2>2. h \in here /\ actor[h] # "none" /\ iwait.old \in Conns /\ Owner(iwait.old) = Owner(h)
    BY <1>3, <1>4 DEF Inner, HandingOver
  <2>3. conn[h].pc \notin Taking  BY <1>3, <1>4 DEF Inner, OneTaking
  <2>4. name[h] = Owner(h)  BY <1>3, <1>4, <2>3 DEF Inner, HandingOver, Taking
  <2> QED  BY <1>4, <2>1, <2>2, <2>3, <2>4, ConnFacts DEF Taking
<1>8. \A p \in Players :
        /\ p # Owner(h) => slots'[p] = slots[p]
        /\ p = Owner(h) => slots'[p].conn = h /\ slots'[p].online = TRUE
  <2>1. \A p \in Players : slots[p].conn = iwait.old <=> p = Owner(h)
    BY <1>7, SeatFacts
  <2> QED  BY <1>1, <1>4, <2>1
<1>9. slots' \in [Players -> [conn : Conns, online : BOOLEAN]]
  BY <1>1, <1>3, <1>4 DEF ServerTypes
<1>10. ~ slots[Owner(h)].online /\ conn[iwait.old].pc = "ended"
  <2>1. ~ slots[Owner(h)].online
    BY <1>3, <1>4, <1>7 DEF Inner, HereKept, SeatOf, Nothing
  <2> QED  BY <1>3, <1>7, <2>1 DEF Inner, SeatKept
<1>11. TypeOK'
  <2>1. gq' \in Seq(Requests)  BY <1>1, <1>3, AskedAfterTake
  <2>2. ServerTypes' /\ IntroTypes'
    BY <1>1, <1>2, <1>3, <1>5, <1>9, <2>1 DEF ServerTypes, IntroTypes
  <2> QED
    BY <1>2, <1>3, <2>2, SameTypes, TypesNext DEF actorVars, connVars, clientVars
<1>12. T!HasActive(turn') /\ SeatOwners'
  <2>1. T!HasActive(turn') /\ SeatOwners  BY <1>2 DEF IInv
  <2> QED  BY <1>8, <2>1 DEF SeatOwners
<1>13. SeatKept'
  <2>1. \A p \in Players : /\ actor[slots[p].conn] # "none"
                           /\ ~ slots[p].online => conn[slots[p].conn].pc = "ended"
    BY <1>3 DEF Inner, SeatKept
  <2>2. actor' = actor /\ conn' = conn  BY <1>2
  <2> QED  BY <1>7, <1>8, <2>1, <2>2 DEF SeatKept
<1>14. SeatNamed'
  <2> SUFFICES ASSUME NEW p \in Players,
                      Open(slots[p].conn)', name'[slots'[p].conn] # p
               PROVE  iwait'.op \in {"answer", "reconnect"} /\ iwait'.old = slots'[p].conn
    BY DEF SeatNamed
  <2>1. p # Owner(h) /\ slots'[p] = slots[p]  BY <1>2, <1>7, <1>8
  <2>2. Open(slots[p].conn) /\ name[slots[p].conn] # p  BY <1>2, <2>1 DEF Open
  <2>3. iwait.old = slots[p].conn  BY <1>3, <2>2 DEF Inner, SeatNamed
  <2> QED  BY <1>5, <2>1, <2>3
<1>15. Answers'  BY <1>2, <1>4, <1>5 DEF Answers
<1>16. Seen'  BY <1>5, <1>7, <1>8 DEF Seen, Found, SeatOf, Nothing
<1>17. HandingOver'  BY <1>2, <1>5, <1>7 DEF HandingOver
<1>18. HereKept'
  <2>1. \A c, d \in here : Owner(c) = Owner(d) => c = d
    BY <1>3 DEF Inner, HereKept
  <2>2. ASSUME NEW c \in here, c # h
        PROVE  slots'[Owner(c)] = slots[Owner(c)] /\ ~ slots[Owner(c)].online
    <3>1. c \in Conns /\ Owner(c) \in Players  BY <1>3, ConnFacts DEF IntroTypes
    <3>2. Owner(c) # Owner(h)  BY <1>7, <2>1, <2>2
    <3>3. ~ slots[Owner(c)].online
      BY <1>3, <1>4, <2>2 DEF Inner, HereKept, SeatOf, Nothing
    <3> QED  BY <1>8, <3>1, <3>2, <3>3
  <2> QED  BY <1>2, <1>3, <1>5, <2>1, <2>2 DEF Inner, HereKept, SeatOf
<1>19. ActiveMoves'
  <2>1. T!Active(turn) \in Players /\ turn' = turn /\ conn' = conn /\ actor' = actor
    BY <1>2, <1>3, ActiveFacts DEF IInv
  <2>2. ASSUME NEW c \in Conns,
               \/ conn[c].pc = "got_active" /\ conn[c].val = c
               \/ conn[c].pc = "w_move" /\ actor[c] # "switched"
        PROVE  c = ActiveConn(turn)'
    <3>1. c = slots[T!Active(turn)].conn
      BY <1>3, <2>2 DEF Inner, ActiveMoves, ActiveConn
    <3>2. T!Active(turn) # Owner(h)  BY <1>7, <1>10, <2>2, <3>1
    <3> QED  BY <1>8, <2>1, <3>1, <3>2 DEF ActiveConn
  <2> QED  BY <2>1, <2>2 DEF ActiveMoves
<1> QED
  BY <1>6, <1>11, <1>12, <1>13, <1>14, <1>15, <1>16, <1>17, <1>18, <1>19 DEF IInv, Inner

(* BroadcastGameState panics when an actor is dead. *)
LEMMA BroadcastGameStateFails ==
  ASSUME IInv, BroadcastGameState, ~ Running'
  PROVE  IInv'
<1>1. Running /\ UNCHANGED <<turn, slots, introVars, actor, name, connVars, clientVars>>
  BY DEF BroadcastGameState, Receive
<1>2. crashed' = "game" /\ UNCHANGED <<gq, gwait, aq>>
  BY <1>1 DEF BroadcastGameState, Panic, Running
<1> QED  BY <1>1, <1>2, Panics DEF serverVars, actorVars
-------------------------------------------------------------------------------
(* Logins.                                                                  *)

(* The counts of the mailbox of the intro server: r is q and the message m   *)
(* of d.                                                                   *)
OneTold(r, q, m, d) ==
  /\ Asked(r, {"LoginPlayer"}, d) = Asked(q, {"LoginPlayer"}, d)
       + OneIf(m.cmd = "LoginPlayer" /\ m.from = d)
  /\ Asked(r, {"EnterGame"}, d) = Asked(q, {"EnterGame"}, d)
       + OneIf(m.cmd = "EnterGame" /\ m.from = d)
  /\ Asked(r, {"DropPeer"}, d) = Asked(q, {"DropPeer"}, d)
       + OneIf(m.cmd = "DropPeer" /\ m.from = d)
  /\ Asked(q, {"LoginPlayer"}, d) \in Nat /\ Asked(q, {"EnterGame"}, d) \in Nat
  /\ Asked(q, {"DropPeer"}, d) \in Nat

LEMMA ToldCounts ==
  ASSUME TypeOK, NEW m \in IntroCommands, iq' = Append(iq, m), NEW d
  PROVE  OneTold(iq', iq, m, d)
<1>1. /\ \A cmds : Asked(iq', cmds, d) = Asked(iq, cmds, d)
           + (IF m.cmd \in cmds /\ m.from = d THEN 1 ELSE 0)
      /\ \A cmds : Asked(iq, cmds, d) \in Nat
  BY ToldAfterSend
<1> QED  BY <1>1 DEF OneTold, OneIf

LEMMA HeardCounts ==
  ASSUME TypeOK, iq # <<>>, iq' = Tail(iq), NEW d
  PROVE  OneTold(iq, iq', Head(iq), d)
<1>1. /\ \A cmds : Asked(iq, cmds, d) = Asked(iq', cmds, d)
           + (IF Head(iq).cmd \in cmds /\ Head(iq).from = d THEN 1 ELSE 0)
      /\ \A cmds : Asked(iq', cmds, d) \in Nat
  BY ToldAfterTake
<1> QED  BY <1>1 DEF OneTold, OneIf

LEMMA IntroCounts ==
  ASSUME TypeOK
  PROVE  /\ \A c \in Conns : /\ Asked(iq, {"LoginPlayer"}, c) \in Nat
                             /\ Asked(iq, {"EnterGame"}, c) \in Nat
                             /\ Asked(iq, {"DropPeer"}, c) \in Nat
         /\ iq # <<>> => /\ Head(iq).from \in Conns
                         /\ Asked(iq, {Head(iq).cmd}, Head(iq).from) >= 1
<1>1. iq \in Seq(IntroCommands)  BY DEF TypeOK
<1>2. ASSUME iq # <<>>
      PROVE  Asked(iq, {Head(iq).cmd}, Head(iq).from) >= 1
  BY <1>1, <1>2, AskedTaken
<1> QED  BY <1>1, <1>2, AskedNat, HeadFacts

(* A command that has come from c, and where c is. *)
LEMMA HeadIntro ==
  ASSUME IInv, Inner, iq # <<>>
  PROVE  LET h == Head(iq).from
         IN  /\ h \in Conns
             /\ Head(iq).cmd = "LoginPlayer" =>
                  /\ conn[h].pc = "w_login"
                  /\ ~ (iwait.op \in {"id", "connected"} /\ iwait.from = h)
             /\ Head(iq).cmd = "EnterGame" =>
                  /\ conn[h].pc \in {"entering", "ended"} /\ actor[h] = "none"
                  /\ entering # h /\ ~ (iwait.op = "handle" /\ iwait.from = h)
             /\ Head(iq).cmd = "DropPeer" => conn[h].pc \in Over
<1> DEFINE h == Head(iq).from
<1>1. /\ h \in Conns /\ Asked(iq, {Head(iq).cmd}, h) >= 1
      /\ Asked(iq, {"EnterGame"}, h) \in Nat /\ Asked(iq, {"DropPeer"}, h) \in Nat
  BY IntroCounts DEF IInv
<1>2. IntroMailOf(h)  BY <1>1 DEF Inner, IntroMail
<1> HIDE DEF h
<1>3. ASSUME Head(iq).cmd = "LoginPlayer"
      PROVE  conn[h].pc = "w_login" /\ ~ (iwait.op \in {"id", "connected"} /\ iwait.from = h)
  <2>1. Asked(iq, {"LoginPlayer"}, h) >= 1  BY <1>1, <1>3
  <2> QED  BY <1>1, <1>2, <2>1 DEF IntroMailOf, OneIf
<1>4. ASSUME Head(iq).cmd = "EnterGame"
      PROVE  /\ conn[h].pc \in {"entering", "ended"} /\ actor[h] = "none"
             /\ entering # h /\ ~ (iwait.op = "handle" /\ iwait.from = h)
  <2>1. Asked(iq, {"EnterGame"}, h) >= 1  BY <1>1, <1>4
  <2> QED  BY <1>1, <1>2, <2>1 DEF IntroMailOf, OneIf
<1>5. ASSUME Head(iq).cmd = "DropPeer"
      PROVE  conn[h].pc \in Over
  <2>1. Asked(iq, {"DropPeer"}, h) >= 1  BY <1>1, <1>5
  <2> QED  BY <1>1, <1>2, <2>1 DEF IntroMailOf, OneIf
<1> QED  BY <1>1, <1>3, <1>4, <1>5 DEF h

(* A connection that is not in the game moves on: neither the game nor a       *)
(* reconnection notices.                                                   *)
Outside == {"none", "login", "w_login", "logged", "entering", "rejected"}

LEMMA OutsideStep ==
  ASSUME IInv, Inner, NEW c \in Conns,
         conn[c].pc \in Outside, conn'[c].pc \in Outside \cup {"ended"},
         \A d \in Conns : d # c => conn'[d] = conn[d],
         \/ iwait' = iwait /\ here' = here
         \/ iwait.op \in {"id", "connected"} /\ iwait.got # Nothing /\ iwait' = IntroIdle,
         UNCHANGED <<turn, slots, gq, gwait, actor, name, aq>>
  PROVE  /\ T!HasActive(turn') /\ SeatOwners'
         /\ ActorOfConn' /\ SeatKept' /\ NameKept' /\ SeatNamed'
         /\ ServerWait' /\ TaskMail' /\ LobbyMail' /\ MoversWait' /\ ActorMail'
         /\ Answers' /\ Seen' /\ HandingOver' /\ OneTaking' /\ ActiveMoves'
         /\ here' = here /\ (conn'[c].pc \in {"logged", "entering"} => conn[c].pc = "logged")
              => HereKept'
<1>1. /\ TypeOK /\ actor[c] = "none" /\ ~ MoveUnderWay(c)
      /\ \A x \in Conns : MoveUnderWay(x)' <=> MoveUnderWay(x)
  BY DEF IInv, Inner, ActorOfConn, Early, Outside, MoveUnderWay
<1>2. conn'[c].pc \in Early \cup {"ended"} /\ conn[c].pc \in Early
  BY DEF Early, Outside
<1>3. T!HasActive(turn') /\ SeatOwners' /\ NameKept' /\ ServerWait'
  BY DEF IInv, SeatOwners, Inner, NameKept, ServerWait, SeatOf
<1>4. ActorOfConn'
  <2> SUFFICES ASSUME NEW d \in Conns
               PROVE  /\ conn'[d].pc \in Early => actor'[d] = "none"
                      /\ conn'[d].pc \in Booting <=> actor'[d] = "boot"
                      /\ conn'[d].pc \in Loop => actor'[d] \in Busy
                      /\ conn'[d].pc = "refused" => actor'[d] = "dead"
    BY DEF ActorOfConn
  <2>1. CASE d = c  BY <1>1, <2>1 DEF Outside, Booting, Loop
  <2>2. CASE d # c  BY <2>2 DEF Inner, ActorOfConn
  <2> QED  BY <2>1, <2>2
<1>5. SeatKept'
  <2>1. \A p \in Players : slots[p].conn \in Conns  BY HeadFacts DEF IInv
  <2>2. conn[c].pc # "ended"  BY DEF Outside
  <2> QED  BY <2>1, <2>2 DEF Inner, SeatKept
<1>6. SeatNamed'  BY DEF Inner, SeatNamed, IntroIdle, Open
<1>7. TaskMail'
  <2> SUFFICES ASSUME NEW d \in Conns
               PROVE  TaskMailOf(d)'
    BY DEF TaskMail
  <2>1. TaskMailOf(d) /\ gq' = gq /\ actor' = actor  BY DEF Inner, TaskMail
  <2>2. CASE d = c
    <3>1. gq \in Seq(Requests)  BY <1>1 DEF TypeOK
    <3>2. Asked(gq, {"DropPeer"}, c) \in Nat  BY <3>1, AskedNat
    <3> QED  BY <2>1, <2>2, <3>2 DEF TaskMailOf, OneIf, Outside
  <2>3. CASE d # c  BY <2>1, <2>3 DEF TaskMailOf
  <2> QED  BY <2>2, <2>3
<1>8. LobbyMail'
  BY IdleLobby DEF Inner, LobbyMail, IntroAsks, IntroIdle, IntroCmds, OneIf
<1>9. MoversWait'  BY <1>1 DEF Inner, MoversWait
<1>10. ActorMail'
  <2> SUFFICES ASSUME NEW x \in Conns, NEW d \in Conns \cup {NoConn}
               PROVE  MailOf(x, d)'
    BY DEF ActorMail
  <2>1. MailOf(x, d) /\ aq' = aq /\ (ServerAsks(x)' <=> ServerAsks(x))
    BY DEF Inner, ActorMail, ServerAsks
  <2>2. /\ conn'[x].pc = "w_move" <=> conn[x].pc = "w_move"
        /\ conn'[x].pc = "w_chatname" <=> conn[x].pc = "w_chatname"
    BY DEF Outside
  <2>3. (iwait.op = "answer" /\ iwait.from = d /\ conn[iwait.from].pc = "w_take")'
           <=> (iwait.op = "answer" /\ iwait.from = d /\ conn[iwait.from].pc = "w_take")
    <3>1. CASE iwait' = iwait
      <4>1. iwait.op = "answer" => iwait.from \in Conns  BY DEF Inner, Answers
      <4> QED  BY <3>1, <4>1 DEF Outside
    <3>2. CASE iwait' # iwait  BY <3>2 DEF IntroIdle
    <3> QED  BY <3>1, <3>2
  <2>4. iwait' = iwait \/ (iwait.op # "answer" /\ iwait'.op # "answer")
    BY DEF IntroIdle
  <2> QED  BY <1>1, <2>1, <2>2, <2>3, <2>4 DEF MailOf, OneIf
<1>11. Answers'  BY DEF Inner, Answers, IntroIdle
<1>12. Seen'  BY DEF Inner, Seen, Found, IntroIdle, SeatOf
<1>13. HandingOver'
  <2>1. CASE iwait' = iwait /\ here' = here
    BY <2>1 DEF Inner, HandingOver, Answers, Taking, Outside, Open
  <2>2. CASE iwait' = IntroIdle  BY <2>2 DEF HandingOver, IntroIdle
  <2> QED  BY <2>1, <2>2
<1>14. OneTaking'  BY DEF Inner, OneTaking, Taking, Outside
<1>15. ActiveMoves'  BY DEF Inner, ActiveMoves, ActiveConn, Outside
<1>16. ASSUME here' = here, conn'[c].pc \in {"logged", "entering"} => conn[c].pc = "logged"
       PROVE  HereKept'
  BY <1>16 DEF Inner, HereKept, SeatOf, IntroIdle
<1> QED
  BY <1>3, <1>4, <1>5, <1>6, <1>7, <1>8, <1>9, <1>10, <1>11, <1>12, <1>13, <1>14,
     <1>15, <1>16
LEMMA LoginStep ==
  ASSUME IInv, NEW c \in Conns, Login(c)
  PROVE  IInv'
<1> DEFINE m == IntroCommand("LoginPlayer", c)
<1>1. /\ Running /\ conn[c].pc = "login" /\ conn' = [conn EXCEPT ![c].pc = "w_login"]
      /\ iq' = Append(iq, m)
  BY DEF Login, At, Goto, ToIntro
<1>2. UNCHANGED <<turn, slots, gq, gwait, lobby, here, entering, iwait, actor, name, aq,
                  sock, client, view, presses, eager, chats, cin, crashed>>
  BY DEF Login, serverVars, actorVars, clientVars
<1>3. TypeOK /\ Inner /\ IntroTypes /\ ConnTypes  BY <1>1, TypeGroups DEF IInv
<1>4. m \in IntroCommands /\ m.cmd = "LoginPlayer" /\ m.from = c
  BY MessageFacts
<1> HIDE DEF m
<1>5. /\ conn' \in [Conns -> [pc : ConnPlaces, val : Conns \cup {NoConn},
                              move : Phases \cup {Nothing}]]
      /\ conn'[c].pc = "w_login"
      /\ \A d \in Conns : d # c => conn'[d] = conn[d]
  BY <1>1, <1>3, GotoFacts DEF ConnPlaces
<1>6. /\ T!HasActive(turn') /\ SeatOwners'
      /\ ActorOfConn' /\ SeatKept' /\ NameKept' /\ SeatNamed'
      /\ ServerWait' /\ TaskMail' /\ LobbyMail' /\ MoversWait' /\ ActorMail'
      /\ Answers' /\ Seen' /\ HandingOver' /\ OneTaking' /\ ActiveMoves' /\ HereKept'
  BY <1>1, <1>2, <1>3, <1>5, OutsideStep DEF Outside
<1>7. TypeOK'
  <2>1. iq' \in Seq(IntroCommands)  BY <1>1, <1>3, <1>4, ToldAfterSend
  <2>2. IntroTypes' /\ ConnTypes'
    BY <1>2, <1>3, <1>5, <2>1 DEF IntroTypes, ConnTypes
  <2> QED
    BY <1>2, <1>3, <2>2, SameTypes, TypesNext DEF serverVars, actorVars, clientVars
<1>8. IntroMail'
  <2> SUFFICES ASSUME NEW d \in Conns
               PROVE  IntroMailOf(d)'
    BY DEF IntroMail
  <2>1. IntroMailOf(d) /\ OneTold(iq', iq, m, d)
    BY <1>1, <1>3, <1>4, ToldCounts DEF Inner, IntroMail
  <2>2. iwait' = iwait /\ entering' = entering /\ actor' = actor
        /\ (d # c => conn'[d] = conn[d])
    BY <1>2, <1>5
  <2> QED  BY <1>1, <1>4, <1>5, <2>1, <2>2 DEF IntroMailOf, OneTold, OneIf, Over
<1> QED  BY <1>6, <1>7, <1>8 DEF IInv, Inner

LEMMA EnterGameStep ==
  ASSUME IInv, NEW c \in Conns, EnterGame(c)
  PROVE  IInv'
<1> DEFINE m == IntroCommand("EnterGame", c)
<1>1. /\ Running /\ conn[c].pc = "logged" /\ conn' = [conn EXCEPT ![c].pc = "entering"]
      /\ iq' = Append(iq, m)
  BY DEF EnterGame, At, Goto, ToIntro
<1>2. UNCHANGED <<turn, slots, gq, gwait, lobby, here, entering, iwait, actor, name, aq,
                  sock, client, view, presses, eager, chats, cin, crashed>>
  BY DEF EnterGame, serverVars, actorVars, clientVars
<1>3. TypeOK /\ Inner /\ IntroTypes /\ ConnTypes  BY <1>1, TypeGroups DEF IInv
<1>4. m \in IntroCommands /\ m.cmd = "EnterGame" /\ m.from = c  BY MessageFacts
<1> HIDE DEF m
<1>5. /\ conn' \in [Conns -> [pc : ConnPlaces, val : Conns \cup {NoConn},
                              move : Phases \cup {Nothing}]]
      /\ conn'[c].pc = "entering"
      /\ \A d \in Conns : d # c => conn'[d] = conn[d]
  BY <1>1, <1>3, GotoFacts DEF ConnPlaces
<1>6. /\ T!HasActive(turn') /\ SeatOwners'
      /\ ActorOfConn' /\ SeatKept' /\ NameKept' /\ SeatNamed'
      /\ ServerWait' /\ TaskMail' /\ LobbyMail' /\ MoversWait' /\ ActorMail'
      /\ Answers' /\ Seen' /\ HandingOver' /\ OneTaking' /\ ActiveMoves' /\ HereKept'
  BY <1>1, <1>2, <1>3, <1>5, OutsideStep DEF Outside
<1>7. TypeOK'
  <2>1. iq' \in Seq(IntroCommands)  BY <1>1, <1>3, <1>4, ToldAfterSend
  <2>2. IntroTypes' /\ ConnTypes'
    BY <1>2, <1>3, <1>5, <2>1 DEF IntroTypes, ConnTypes
  <2> QED
    BY <1>2, <1>3, <2>2, SameTypes, TypesNext DEF serverVars, actorVars, clientVars
<1>8. IntroMail'
  <2> SUFFICES ASSUME NEW d \in Conns
               PROVE  IntroMailOf(d)'
    BY DEF IntroMail
  <2>1. IntroMailOf(d) /\ OneTold(iq', iq, m, d)
    BY <1>1, <1>3, <1>4, ToldCounts DEF Inner, IntroMail
  <2>2. iwait' = iwait /\ entering' = entering /\ actor' = actor
        /\ (d # c => conn'[d] = conn[d])
    BY <1>2, <1>5
  <2>3. actor[c] = "none"  BY <1>1, <1>3 DEF Inner, ActorOfConn, Early
  <2> QED  BY <1>1, <1>4, <1>5, <2>1, <2>2, <2>3 DEF IntroMailOf, OneTold, OneIf, Over
<1> QED  BY <1>6, <1>7, <1>8 DEF IInv, Inner

LEMMA EndInIntroStep ==
  ASSUME IInv, NEW c \in Conns, EndInIntro(c)
  PROVE  IInv'
<1> DEFINE m == IntroCommand("DropPeer", c)
<1>1. /\ Running /\ conn[c].pc \in {"logged", "entering", "rejected"} /\ conn' = [conn EXCEPT ![c].pc = "ended"]
      /\ iq' = Append(iq, m) /\ client' = [client EXCEPT ![c] = "off"]
  BY DEF EndInIntro, At, Goto, ToIntro
<1>2. UNCHANGED <<turn, slots, gq, gwait, lobby, here, entering, iwait, actor, name, aq,
                  sock, view, presses, eager, chats, cin, crashed>>
  BY DEF EndInIntro, serverVars, actorVars
<1>3. TypeOK /\ Inner /\ IntroTypes /\ ConnTypes /\ ClientTypes
  BY <1>1, TypeGroups DEF IInv
<1>4. m \in IntroCommands /\ m.cmd = "DropPeer" /\ m.from = c  BY MessageFacts
<1> HIDE DEF m
<1>5. /\ conn' \in [Conns -> [pc : ConnPlaces, val : Conns \cup {NoConn},
                              move : Phases \cup {Nothing}]]
      /\ conn'[c].pc = "ended"
      /\ \A d \in Conns : d # c => conn'[d] = conn[d]
  BY <1>1, <1>3, GotoFacts, EndPlaces
<1>6. /\ T!HasActive(turn') /\ SeatOwners'
      /\ ActorOfConn' /\ SeatKept' /\ NameKept' /\ SeatNamed'
      /\ ServerWait' /\ TaskMail' /\ LobbyMail' /\ MoversWait' /\ ActorMail'
      /\ Answers' /\ Seen' /\ HandingOver' /\ OneTaking' /\ ActiveMoves' /\ HereKept'
  BY <1>1, <1>2, <1>3, <1>5, OutsideStep DEF Outside
<1>7. TypeOK'
  <2>1. iq' \in Seq(IntroCommands)  BY <1>1, <1>3, <1>4, ToldAfterSend
  <2>2. IntroTypes' /\ ConnTypes'
    BY <1>2, <1>3, <1>5, <2>1 DEF IntroTypes, ConnTypes
  <2>3. ClientTypes'  BY <1>1, <1>2, <1>3 DEF ClientTypes
  <2> QED  BY <1>2, <1>3, <2>2, <2>3, SameTypes, TypesNext DEF serverVars, actorVars
<1>8. IntroMail'
  <2> SUFFICES ASSUME NEW d \in Conns
               PROVE  IntroMailOf(d)'
    BY DEF IntroMail
  <2>1. IntroMailOf(d) /\ OneTold(iq', iq, m, d)
    BY <1>1, <1>3, <1>4, ToldCounts DEF Inner, IntroMail
  <2>2. iwait' = iwait /\ entering' = entering /\ actor' = actor
        /\ (d # c => conn'[d] = conn[d])
    BY <1>2, <1>5
  <2> QED  BY <1>1, <1>4, <1>5, <2>1, <2>2 DEF IntroMailOf, OneTold, OneIf, Over
<1> QED  BY <1>6, <1>7, <1>8 DEF IInv, Inner
(* There is no connection task before its client has been started. *)
Started == \A c \in Conns : client[c] = "none" => conn[c].pc = "none"

LEMMA ReconnectStep ==
  ASSUME IInv, Started, NEW c \in Conns, Reconnect(c)
  PROVE  IInv'
<1>1. /\ Running /\ conn[c].pc = "none" /\ conn' = [conn EXCEPT ![c].pc = "login"]
      /\ client' = [client EXCEPT ![c] = "on"]
  BY DEF Reconnect, Started
<1>2. UNCHANGED <<turn, slots, gq, gwait, lobby, here, entering, iq, iwait, actor, name, aq,
                  sock, view, presses, eager, chats, cin, crashed>>
  BY DEF Reconnect, serverVars, introVars, actorVars
<1>3. TypeOK /\ Inner /\ ConnTypes /\ ClientTypes  BY <1>1, TypeGroups DEF IInv
<1>4. /\ conn' \in [Conns -> [pc : ConnPlaces, val : Conns \cup {NoConn},
                              move : Phases \cup {Nothing}]]
      /\ conn'[c].pc = "login"
      /\ \A d \in Conns : d # c => conn'[d] = conn[d]
  BY <1>1, <1>3, GotoFacts DEF ConnPlaces
<1>5. /\ T!HasActive(turn') /\ SeatOwners'
      /\ ActorOfConn' /\ SeatKept' /\ NameKept' /\ SeatNamed'
      /\ ServerWait' /\ TaskMail' /\ LobbyMail' /\ MoversWait' /\ ActorMail'
      /\ Answers' /\ Seen' /\ HandingOver' /\ OneTaking' /\ ActiveMoves' /\ HereKept'
  BY <1>1, <1>2, <1>3, <1>4, OutsideStep DEF Outside
<1>6. TypeOK'
  <2>1. ConnTypes' /\ ClientTypes'
    BY <1>1, <1>2, <1>3, <1>4 DEF ConnTypes, ClientTypes
  <2> QED
    BY <1>2, <1>3, <2>1, SameTypes, TypesNext DEF serverVars, introVars, actorVars
<1>7. IntroMail'
  <2> SUFFICES ASSUME NEW d \in Conns
               PROVE  IntroMailOf(d)'
    BY DEF IntroMail
  <2>1. /\ IntroMailOf(d) /\ Asked(iq, {"EnterGame"}, d) \in Nat
        /\ Asked(iq, {"DropPeer"}, d) \in Nat
    BY <1>3, IntroCounts DEF Inner, IntroMail
  <2>2. iwait' = iwait /\ iq' = iq /\ entering' = entering /\ actor' = actor
        /\ (d # c => conn'[d] = conn[d])
    BY <1>2, <1>4
  <2> QED  BY <1>1, <1>4, <2>1, <2>2 DEF IntroMailOf, OneIf, Over
<1> QED  BY <1>5, <1>6, <1>7 DEF IInv, Inner

(* The intro server answers a login. *)
LEMMA RejectLoginStep ==
  ASSUME IInv, RejectLogin
  PROVE  IInv'
<1> DEFINE c == Head(iq).from
<1>1. /\ Running /\ iwait.op = "idle" /\ iq # <<>> /\ Head(iq).cmd = "LoginPlayer"
      /\ iq' = Tail(iq) /\ conn' = [conn EXCEPT ![c].pc = "rejected"]
  BY DEF RejectLogin, IntroReceive, Free, Rejected
<1>2. UNCHANGED <<turn, slots, gq, gwait, lobby, here, entering, iwait, actor, name, aq,
                  sock, client, view, presses, eager, chats, cin, crashed>>
  BY DEF RejectLogin, serverVars, actorVars, clientVars
<1>3. TypeOK /\ Inner /\ IntroTypes /\ ConnTypes  BY <1>1, TypeGroups DEF IInv
<1>4. c \in Conns /\ conn[c].pc = "w_login"  BY <1>1, <1>3, HeadIntro
<1> HIDE DEF c
<1>5. /\ conn' \in [Conns -> [pc : ConnPlaces, val : Conns \cup {NoConn},
                              move : Phases \cup {Nothing}]]
      /\ conn'[c].pc = "rejected"
      /\ \A d \in Conns : d # c => conn'[d] = conn[d]
  BY <1>1, <1>3, <1>4, GotoFacts DEF ConnPlaces
<1>6. /\ T!HasActive(turn') /\ SeatOwners'
      /\ ActorOfConn' /\ SeatKept' /\ NameKept' /\ SeatNamed'
      /\ ServerWait' /\ TaskMail' /\ LobbyMail' /\ MoversWait' /\ ActorMail'
      /\ Answers' /\ Seen' /\ HandingOver' /\ OneTaking' /\ ActiveMoves' /\ HereKept'
  BY <1>1, <1>2, <1>3, <1>4, <1>5, OutsideStep DEF Outside
<1>7. TypeOK'
  <2>1. iq' \in Seq(IntroCommands)  BY <1>1, <1>3, ToldAfterTake
  <2>2. IntroTypes' /\ ConnTypes'
    BY <1>2, <1>3, <1>5, <2>1 DEF IntroTypes, ConnTypes
  <2> QED
    BY <1>2, <1>3, <2>2, SameTypes, TypesNext DEF serverVars, actorVars, clientVars
<1>8. IntroMail'
  <2> SUFFICES ASSUME NEW d \in Conns
               PROVE  IntroMailOf(d)'
    BY DEF IntroMail
  <2>1. IntroMailOf(d) /\ OneTold(iq, iq', Head(iq), d)
    BY <1>1, <1>3, HeardCounts DEF Inner, IntroMail
  <2>2. iwait' = iwait /\ entering' = entering /\ actor' = actor
        /\ (d # c => conn'[d] = conn[d])
    BY <1>2, <1>5
  <2> QED  BY <1>1, <1>4, <1>5, <2>1, <2>2 DEF IntroMailOf, OneTold, OneIf, Over, c
<1> QED  BY <1>6, <1>7, <1>8 DEF IInv, Inner

LEMMA AlreadyLoggedStep ==
  ASSUME IInv, AlreadyLogged
  PROVE  IInv'
<1> DEFINE c == iwait.from
<1>1. /\ Running /\ iwait.op = "connected" /\ iwait.got = "online"
      /\ iwait' = IntroIdle /\ conn' = [conn EXCEPT ![c].pc = "rejected"]
  BY DEF AlreadyLogged, Rejected
<1>2. UNCHANGED <<turn, slots, gq, gwait, lobby, here, entering, iq, actor, name, aq,
                  sock, client, view, presses, eager, chats, cin, crashed>>
  BY DEF AlreadyLogged, serverVars, actorVars, clientVars
<1>3. TypeOK /\ Inner /\ IntroTypes /\ ConnTypes  BY <1>1, TypeGroups DEF IInv
<1>4. c \in Conns /\ conn[c].pc = "w_login"
  <2>1. c \in Conns  BY <1>1, <1>3 DEF Inner, Answers
  <2> QED  BY <1>1, <1>3, <2>1 DEF Inner, IntroMail, IntroMailOf
<1>5. /\ conn' \in [Conns -> [pc : ConnPlaces, val : Conns \cup {NoConn},
                              move : Phases \cup {Nothing}]]
      /\ conn'[c].pc = "rejected"
      /\ \A d \in Conns : d # c => conn'[d] = conn[d]
  BY <1>1, <1>3, <1>4, GotoFacts DEF ConnPlaces
<1>6. /\ T!HasActive(turn') /\ SeatOwners'
      /\ ActorOfConn' /\ SeatKept' /\ NameKept' /\ SeatNamed'
      /\ ServerWait' /\ TaskMail' /\ LobbyMail' /\ MoversWait' /\ ActorMail'
      /\ Answers' /\ Seen' /\ HandingOver' /\ OneTaking' /\ ActiveMoves' /\ HereKept'
  <2>1. iwait.got # Nothing  BY <1>1 DEF Nothing
  <2> QED  BY <1>1, <1>2, <1>3, <1>4, <1>5, <2>1, OutsideStep DEF Outside
<1>7. TypeOK'
  <2>1. IntroTypes' /\ ConnTypes'
    BY <1>1, <1>2, <1>3, <1>5 DEF IntroTypes, ConnTypes, IntroIdle, Nothing
  <2> QED
    BY <1>2, <1>3, <2>1, SameTypes, TypesNext DEF serverVars, actorVars, clientVars
<1>8. IntroMail'
  <2> SUFFICES ASSUME NEW d \in Conns
               PROVE  IntroMailOf(d)'
    BY DEF IntroMail
  <2>1. /\ IntroMailOf(d) /\ Asked(iq, {"EnterGame"}, d) \in Nat
        /\ Asked(iq, {"DropPeer"}, d) \in Nat
    BY <1>3, IntroCounts DEF Inner, IntroMail
  <2>2. iwait'.op = "idle" /\ iq' = iq /\ entering' = entering /\ actor' = actor
        /\ (d # c => conn'[d] = conn[d])
    BY <1>1, <1>2, <1>5 DEF IntroIdle
  <2> QED  BY <1>1, <1>4, <1>5, <2>1, <2>2 DEF IntroMailOf, OneIf, Over
<1> QED  BY <1>6, <1>7, <1>8 DEF IInv, Inner

(* A login is accepted when the game does not know the name, which does not    *)
(* happen, or knows it as offline.                                         *)
LEMMA AcceptLoginStep ==
  ASSUME IInv, AcceptLogin
  PROVE  IInv'
<1> DEFINE c == iwait.from
<1>1. /\ Running
      /\ \/ iwait.op = "id" /\ iwait.got = "none"
         \/ iwait.op = "connected" /\ iwait.got = "offline"
      /\ iwait' = IntroIdle /\ conn' = [conn EXCEPT ![c].pc = "logged"]
      /\ lobby' = lobby \cup {c} /\ here' = here \cup {c}
  BY DEF AcceptLogin, Logged
<1>2. UNCHANGED <<turn, slots, gq, gwait, entering, iq, actor, name, aq,
                  sock, client, view, presses, eager, chats, cin, crashed>>
  BY DEF AcceptLogin, serverVars, actorVars, clientVars
<1>3. TypeOK /\ Inner /\ IntroTypes /\ ConnTypes  BY <1>1, TypeGroups DEF IInv
<1>4. iwait.op = "connected" /\ iwait.got = "offline" /\ iwait.got # Nothing
  BY <1>1, <1>3 DEF Inner, Answers, Nothing
<1>5. c \in Conns /\ conn[c].pc = "w_login" /\ ~ SeatOf(c).online
  <2>1. c \in Conns  BY <1>4, <1>3 DEF Inner, Answers
  <2>2. conn[c].pc = "w_login"
    BY <1>3, <1>4, <2>1 DEF Inner, IntroMail, IntroMailOf
  <2> QED  BY <1>3, <1>4, <2>1, <2>2 DEF Inner, Seen
<1>6. /\ conn' \in [Conns -> [pc : ConnPlaces, val : Conns \cup {NoConn},
                              move : Phases \cup {Nothing}]]
      /\ conn'[c].pc = "logged"
      /\ \A d \in Conns : d # c => conn'[d] = conn[d]
  BY <1>1, <1>3, <1>5, GotoFacts DEF ConnPlaces
<1>7. /\ T!HasActive(turn') /\ SeatOwners'
      /\ ActorOfConn' /\ SeatKept' /\ NameKept' /\ SeatNamed'
      /\ ServerWait' /\ TaskMail' /\ LobbyMail' /\ MoversWait' /\ ActorMail'
      /\ Answers' /\ Seen' /\ HandingOver' /\ OneTaking' /\ ActiveMoves'
  BY <1>1, <1>2, <1>3, <1>4, <1>5, <1>6, OutsideStep DEF Outside
<1>8. TypeOK'
  <2>1. IntroTypes' /\ ConnTypes'
    BY <1>1, <1>2, <1>3, <1>5, <1>6 DEF IntroTypes, ConnTypes, IntroIdle, Nothing
  <2> QED
    BY <1>2, <1>3, <2>1, SameTypes, TypesNext DEF serverVars, actorVars, clientVars
<1>9. IntroMail'
  <2> SUFFICES ASSUME NEW d \in Conns
               PROVE  IntroMailOf(d)'
    BY DEF IntroMail
  <2>1. /\ IntroMailOf(d) /\ Asked(iq, {"EnterGame"}, d) \in Nat
        /\ Asked(iq, {"DropPeer"}, d) \in Nat
    BY <1>3, IntroCounts DEF Inner, IntroMail
  <2>2. iwait'.op = "idle" /\ iq' = iq /\ entering' = entering /\ actor' = actor
        /\ (d # c => conn'[d] = conn[d])
    BY <1>1, <1>2, <1>6 DEF IntroIdle
  <2> QED  BY <1>4, <1>5, <1>6, <2>1, <2>2 DEF IntroMailOf, OneIf, Over
<1>10. HereKept'
  <2>1. /\ \A d \in here : d \in Conns /\ ~ SeatOf(d).online
        /\ \A d, e \in here : Owner(d) = Owner(e) => d = e
        /\ \A d \in Conns : conn[d].pc \in {"logged", "entering"} => d \in here
        /\ \A d \in here : d # c => Owner(d) # Owner(c)
    BY <1>3, <1>4 DEF Inner, HereKept, IntroTypes
  <2>2. \A d \in here' : ~ SeatOf(d)'.online
    BY <1>1, <1>2, <1>5, <2>1 DEF SeatOf
  <2>3. \A d, e \in here' : Owner(d) = Owner(e) => d = e  BY <1>1, <2>1
  <2>4. \A d \in Conns : conn'[d].pc \in {"logged", "entering"} => d \in here'
    BY <1>1, <1>6, <2>1
  <2>5. iwait'.op = "idle"  BY <1>1 DEF IntroIdle
  <2> QED  BY <2>2, <2>3, <2>4, <2>5 DEF HereKept, SeatOf
<1> QED  BY <1>7, <1>8, <1>9, <1>10 DEF IInv, Inner
-------------------------------------------------------------------------------
(* The intro server asks the game server.                                   *)

LEMMA LobbyAsks ==
  ASSUME IInv, Inner, NEW m \in Requests, gq' = Append(gq, m),
         m.from = iwait'.from, iwait'.got = Nothing, iwait.op = "idle" \/ iwait.got # Nothing,
         \/ iwait'.op = "id" /\ m.cmd = "GetPeerIdByName"
         \/ iwait'.op = "connected" /\ m.cmd = "IsPeerConnected" /\ m.arg = iwait'.old
         \/ iwait'.op = "handle" /\ m.cmd = "GetPeerHandleByUsername"
         \/ iwait'.op = "reconnect" /\ m.cmd = "ReconnectPeer" /\ m.arg = iwait'.old,
         iwait.op # "reconnect",
         iwait.op = "answer" => iwait'.op = "reconnect" /\ iwait'.old = iwait.old,
         UNCHANGED <<turn, slots, gwait, actor, name, aq, conn>>
  PROVE  /\ T!HasActive(turn') /\ SeatOwners'
         /\ ActorOfConn' /\ SeatKept' /\ NameKept' /\ SeatNamed'
         /\ ServerWait' /\ TaskMail' /\ LobbyMail' /\ MoversWait' /\ ActorMail'
         /\ OneTaking' /\ ActiveMoves'
<1>1. TypeOK /\ gq \in Seq(Requests) /\ m.cmd \in IntroCmds
  BY DEF IInv, TypeOK, IntroCmds
<1>2. \A x \in Conns : conn[x].pc \notin Taking  BY DEF Inner, OneTaking
<1>3. T!HasActive(turn') /\ SeatOwners' /\ ActorOfConn' /\ SeatKept' /\ NameKept' /\ ActiveMoves'
  BY DEF IInv, Inner, SeatOwners, ActorOfConn, SeatKept, NameKept, ActiveMoves, ActiveConn
<1>4. SeatNamed'  BY DEF Inner, SeatNamed, Open
<1>5. ServerWait'  BY ServerWaitSent
<1>6. TaskMail'
  <2> SUFFICES ASSUME NEW d \in Conns
               PROVE  TaskMailOf(d)'
    BY DEF TaskMail
  <2>1. TaskMailOf(d) /\ OneMore(gq', gq, m, d)
    BY <1>1, SendCounts DEF Inner, TaskMail
  <2>2. conn' = conn /\ actor' = actor  OBVIOUS
  <2> QED  BY <1>1, <2>1, <2>2 DEF TaskMailOf, OneMore, OneIf, IntroCmds
<1>7. LobbyMail'
  <2>1. /\ \A cmd \in IntroCmds : \A c \in Conns : Asked(gq, {cmd}, c) = 0
        /\ \A i \in DOMAIN gq : gq[i].cmd \notin IntroCmds
    BY IdleLobby
  <2>2. ASSUME NEW cmd \in IntroCmds, NEW c \in Conns
        PROVE  Asked(gq', {cmd}, c) = OneIf(m.cmd = cmd /\ m.from = c)
    <3>1. Asked(gq, {cmd}, c) = 0  BY <2>1
    <3>2. Asked(gq', {cmd}, c) = Asked(gq, {cmd}, c)
            + (IF m.cmd \in {cmd} /\ m.from = c THEN 1 ELSE 0)
      BY <1>1, AskedAfterSend
    <3> QED  BY <3>1, <3>2 DEF OneIf
  <2>3. \A c \in Conns :
          /\ Asked(gq', {"GetPeerIdByName"}, c) = OneIf(IntroAsks("id", c)')
          /\ Asked(gq', {"IsPeerConnected"}, c) = OneIf(IntroAsks("connected", c)')
          /\ Asked(gq', {"GetPeerHandleByUsername"}, c) = OneIf(IntroAsks("handle", c)')
          /\ Asked(gq', {"ReconnectPeer"}, c) = OneIf(IntroAsks("reconnect", c)')
    BY <2>2 DEF IntroCmds, IntroAsks, OneIf
  <2>4. \A i \in DOMAIN gq' : gq'[i] = m \/ gq'[i].cmd \notin IntroCmds
    <3>1. \A i \in DOMAIN gq' : gq'[i] = m \/ (i \in DOMAIN gq /\ gq'[i] = gq[i])
      BY <1>1
    <3> QED  BY <2>1, <3>1
  <2>5. \A i \in DOMAIN gq' :
          gq'[i].cmd \in {"IsPeerConnected", "ReconnectPeer"} => gq'[i].arg = iwait'.old
    BY <2>4 DEF IntroCmds
  <2> QED  BY <2>3, <2>5 DEF LobbyMail, IntroAsks, OneIf
<1>8. MoversWait'  BY DEF Inner, MoversWait, MoveUnderWay
<1>9. ActorMail'
  <2>1. ASSUME NEW x \in Conns, NEW d \in Conns \cup {NoConn}
        PROVE  MailOf(x, d)'
    <3>1. /\ MailOf(x, d) /\ aq' = aq /\ conn' = conn
          /\ ServerAsks(x)' <=> ServerAsks(x)
          /\ MoveUnderWay(x)' <=> MoveUnderWay(x)
      BY DEF Inner, ActorMail, ServerAsks, MoveUnderWay
    <3>2. ~ (iwait.op = "answer" /\ conn[iwait.from].pc = "w_take") /\ iwait'.op # "answer"
      BY <1>2 DEF Inner, Answers, Taking
    <3> QED  BY <3>1, <3>2 DEF MailOf, OneIf
  <2> QED  BY <2>1 DEF ActorMail
<1>10. OneTaking'  BY <1>2 DEF OneTaking
<1> QED  BY <1>3, <1>4, <1>5, <1>6, <1>7, <1>8, <1>9, <1>10

(* ... or goes on alone. *)
LEMMA IntroAlone ==
  ASSUME IInv, Inner,
         iwait' = iwait \/ (iwait.got # Nothing /\ iwait' = IntroIdle),
         UNCHANGED <<turn, slots, gq, gwait, actor, name, aq, conn>>
  PROVE  /\ T!HasActive(turn') /\ SeatOwners'
         /\ ActorOfConn' /\ SeatKept' /\ NameKept'
         /\ ServerWait' /\ TaskMail' /\ LobbyMail' /\ MoversWait' /\ ActorMail'
         /\ Answers' /\ Seen' /\ OneTaking' /\ ActiveMoves'
<1>1. /\ T!HasActive(turn') /\ SeatOwners' /\ ActorOfConn' /\ SeatKept' /\ NameKept'
      /\ ActiveMoves'
  BY DEF IInv, Inner, SeatOwners, ActorOfConn, SeatKept, NameKept, ActiveMoves, ActiveConn
<1>2. ServerWait' /\ TaskMail' /\ MoversWait'
  BY DEF Inner, ServerWait, SeatOf, TaskMail, TaskMailOf, MoversWait, MoveUnderWay
<1>3. LobbyMail'
  <2>1. CASE iwait' = iwait  BY <2>1 DEF Inner, LobbyMail, IntroAsks
  <2>2. CASE iwait.got # Nothing /\ iwait' = IntroIdle
    BY <2>2, IdleLobby DEF LobbyMail, IntroAsks, IntroIdle, IntroCmds, OneIf
  <2> QED  BY <2>1, <2>2
<1>4. ActorMail'
  <2>1. ASSUME NEW x \in Conns, NEW d \in Conns \cup {NoConn}
        PROVE  MailOf(x, d)'
    <3>1. /\ MailOf(x, d) /\ aq' = aq /\ conn' = conn
          /\ ServerAsks(x)' <=> ServerAsks(x)
          /\ MoveUnderWay(x)' <=> MoveUnderWay(x)
      BY DEF Inner, ActorMail, ServerAsks, MoveUnderWay
    <3>2. \/ iwait' = iwait
          \/ /\ ~ (iwait.op = "answer" /\ conn[iwait.from].pc = "w_take")
             /\ iwait'.op # "answer"
      BY DEF Inner, Answers, OneTaking, Taking, IntroIdle
    <3> QED  BY <3>1, <3>2 DEF MailOf, OneIf
  <2> QED  BY <2>1 DEF ActorMail
<1>5. Answers' /\ Seen' /\ OneTaking'
  BY DEF Inner, Answers, Seen, Found, SeatOf, OneTaking, IntroIdle
<1> QED  BY <1>1, <1>2, <1>3, <1>4, <1>5
LEMMA AskIdByNameStep ==
  ASSUME IInv, AskIdByName
  PROVE  IInv'
<1> DEFINE c == Head(iq).from
           m == Command("GetPeerIdByName", c)
<1>1. /\ Running /\ iwait.op = "idle" /\ iq # <<>> /\ Head(iq).cmd = "LoginPlayer"
      /\ ~ NameIsHere(c) /\ iq' = Tail(iq) /\ iwait' = Serving("id", c, NoConn)
      /\ gq' = Append(gq, m)
  BY DEF AskIdByName, IntroReceive, Free
<1>2. UNCHANGED <<turn, slots, gwait, lobby, here, entering, actor, name, aq, conn,
                  sock, client, view, presses, eager, chats, cin, crashed>>
  BY DEF AskIdByName, actorVars, connVars, clientVars
<1>3. TypeOK /\ Inner /\ ServerTypes /\ IntroTypes  BY <1>1, TypeGroups DEF IInv
<1>4. c \in Conns /\ conn[c].pc = "w_login"  BY <1>1, <1>3, HeadIntro
<1>5. m \in Requests /\ m.cmd = "GetPeerIdByName" /\ m.from = c
  BY <1>4, MessageFacts DEF Commands
<1>6. iwait'.op = "id" /\ iwait'.from = c /\ iwait'.old = NoConn /\ iwait'.got = Nothing
  BY <1>1 DEF Serving
<1> HIDE DEF m
<1>7. /\ T!HasActive(turn') /\ SeatOwners'
      /\ ActorOfConn' /\ SeatKept' /\ NameKept' /\ SeatNamed'
      /\ ServerWait' /\ TaskMail' /\ LobbyMail' /\ MoversWait' /\ ActorMail'
      /\ OneTaking' /\ ActiveMoves'
  BY <1>1, <1>2, <1>3, <1>5, <1>6, LobbyAsks
<1>8. TypeOK'
  <2>1. gq' \in Seq(Requests) /\ iq' \in Seq(IntroCommands)
    BY <1>1, <1>3, <1>5, AskedAfterSend, ToldAfterTake
  <2>2. ServerTypes' /\ IntroTypes'
    BY <1>1, <1>2, <1>3, <1>4, <2>1 DEF ServerTypes, IntroTypes, Serving
  <2> QED
    BY <1>2, <1>3, <2>2, SameTypes, TypesNext DEF actorVars, connVars, clientVars
<1>9. IntroMail'
  <2> SUFFICES ASSUME NEW d \in Conns
               PROVE  IntroMailOf(d)'
    BY DEF IntroMail
  <2>1. IntroMailOf(d) /\ OneTold(iq, iq', Head(iq), d)
    BY <1>1, <1>3, HeardCounts DEF Inner, IntroMail
  <2>2. entering' = entering /\ actor' = actor /\ conn' = conn  BY <1>2
  <2> HIDE DEF c
  <2> QED  BY <1>1, <1>4, <1>6, <2>1, <2>2 DEF IntroMailOf, OneTold, OneIf, c
<1>10. Answers' /\ Seen' /\ HandingOver'
  BY <1>4, <1>6 DEF Answers, Seen, Found, HandingOver, Nothing
<1>11. HereKept'
  <2>1. \A d \in here : d # c => Owner(d) # Owner(c)  BY <1>1 DEF NameIsHere
  <2> QED  BY <1>1, <1>2, <1>3, <1>6, <2>1 DEF Inner, HereKept, SeatOf
<1> QED  BY <1>7, <1>8, <1>9, <1>10, <1>11 DEF IInv, Inner

LEMMA AskConnectedStep ==
  ASSUME IInv, AskConnected
  PROVE  IInv'
<1> DEFINE c == iwait.from
           m == Request("IsPeerConnected", c, iwait.old)
<1>1. /\ Running /\ iwait.op = "id" /\ iwait.got = "some"
      /\ iwait' = Serving("connected", c, iwait.old)
      /\ gq' = Append(gq, m)
  BY DEF AskConnected
<1>2. UNCHANGED <<turn, slots, gwait, lobby, here, entering, iq, actor, name, aq, conn,
                  sock, client, view, presses, eager, chats, cin, crashed>>
  BY DEF AskConnected, actorVars, connVars, clientVars
<1>3. TypeOK /\ Inner /\ ServerTypes /\ IntroTypes  BY <1>1, TypeGroups DEF IInv
<1>4. c \in Conns /\ iwait.old \in Conns \cup {NoConn} /\ iwait.got # Nothing
  BY <1>1, <1>3 DEF Inner, Answers, IntroTypes, Nothing
<1>5. m \in Requests /\ m.cmd = "IsPeerConnected" /\ m.from = c /\ m.arg = iwait.old
  BY <1>4, MessageFacts DEF Commands
<1>6. /\ iwait'.op = "connected" /\ iwait'.from = c /\ iwait'.old = iwait.old
      /\ iwait'.got = Nothing
  BY <1>1 DEF Serving
<1> HIDE DEF m
<1>7. /\ T!HasActive(turn') /\ SeatOwners'
      /\ ActorOfConn' /\ SeatKept' /\ NameKept' /\ SeatNamed'
      /\ ServerWait' /\ TaskMail' /\ LobbyMail' /\ MoversWait' /\ ActorMail'
      /\ OneTaking' /\ ActiveMoves'
  BY <1>1, <1>2, <1>3, <1>4, <1>5, <1>6, LobbyAsks
<1>8. TypeOK'
  <2>1. gq' \in Seq(Requests)  BY <1>1, <1>3, <1>5, AskedAfterSend
  <2>2. ServerTypes' /\ IntroTypes'
    BY <1>1, <1>2, <1>3, <1>4, <2>1 DEF ServerTypes, IntroTypes, Serving
  <2> QED
    BY <1>2, <1>3, <2>2, SameTypes, TypesNext DEF actorVars, connVars, clientVars
<1>9. IntroMail'  BY <1>1, <1>2, <1>3, <1>6 DEF Inner, IntroMail, IntroMailOf
<1>10. Answers' /\ HandingOver'  BY <1>4, <1>6 DEF Answers, HandingOver, Nothing
<1>11. Seen'
  <2>1. iwait.old = SeatOf(c).conn  BY <1>1, <1>3, <1>4 DEF Inner, Seen, Found
  <2> QED  BY <1>2, <1>6, <2>1 DEF Seen, SeatOf, Nothing
<1>12. HereKept'  BY <1>1, <1>2, <1>3, <1>6 DEF Inner, HereKept, SeatOf
<1> QED  BY <1>7, <1>8, <1>9, <1>10, <1>11, <1>12 DEF IInv, Inner

(* The reconnection of a connection that has entered the game. *)
LEMMA StartReconnectionStep ==
  ASSUME IInv, StartReconnection
  PROVE  IInv'
<1> DEFINE c == entering
           m == Command("GetPeerHandleByUsername", c)
<1>1. Running /\ iwait.op = "idle" /\ c # NoConn  BY DEF StartReconnection, Free
<1>2. UNCHANGED <<turn, slots, gwait, lobby, here, iq, actor, name, aq, conn,
                  sock, client, view, presses, eager, chats, cin>>
  BY DEF StartReconnection, actorVars, connVars, clientVars
<1>3. TypeOK /\ Inner /\ ServerTypes /\ IntroTypes  BY <1>1, TypeGroups DEF IInv
<1>4. CASE c \notin lobby
  <2>1. crashed' = "intro" /\ entering' = entering /\ iwait' = iwait /\ gq' = gq
    BY <1>4 DEF StartReconnection
  <2> QED
    BY <1>2, <2>1, Panics DEF serverVars, introVars, actorVars, connVars, clientVars
<1>5. CASE c \in lobby
  <2>1. /\ crashed' = crashed /\ entering' = NoConn
        /\ iwait' = Serving("handle", c, NoConn) /\ gq' = Append(gq, m)
    BY <1>5 DEF StartReconnection
  <2>2. c \in Conns  BY <1>3, <1>5 DEF IntroTypes
  <2>3. m \in Requests /\ m.cmd = "GetPeerHandleByUsername" /\ m.from = c
    BY <2>2, MessageFacts DEF Commands
  <2>4. iwait'.op = "handle" /\ iwait'.from = c /\ iwait'.old = NoConn /\ iwait'.got = Nothing
    BY <2>1 DEF Serving
  <2> HIDE DEF m
  <2>5. /\ T!HasActive(turn') /\ SeatOwners'
        /\ ActorOfConn' /\ SeatKept' /\ NameKept' /\ SeatNamed'
        /\ ServerWait' /\ TaskMail' /\ LobbyMail' /\ MoversWait' /\ ActorMail'
        /\ OneTaking' /\ ActiveMoves'
    BY <1>1, <1>2, <1>3, <2>1, <2>3, <2>4, LobbyAsks
  <2>6. TypeOK'
    <3>1. gq' \in Seq(Requests)  BY <1>3, <2>1, <2>3, AskedAfterSend
    <3>2. ServerTypes' /\ IntroTypes'
      BY <1>2, <1>3, <2>1, <2>2, <3>1 DEF ServerTypes, IntroTypes, Serving
    <3> QED
      BY <1>2, <1>3, <2>1, <3>2, SameTypes, TypesNext DEF actorVars, connVars, clientVars
  <2>7. IntroMail'
    <3> SUFFICES ASSUME NEW d \in Conns
                 PROVE  IntroMailOf(d)'
      BY DEF IntroMail
    <3>1. IntroMailOf(d) /\ Asked(iq, {"EnterGame"}, d) \in Nat /\ d # NoConn
      BY <1>3, IntroCounts, ConnFacts DEF Inner, IntroMail
    <3>2. iq' = iq /\ actor' = actor /\ conn' = conn  BY <1>2
    <3> QED  BY <1>1, <2>1, <2>4, <3>1, <3>2 DEF IntroMailOf, OneIf
  <2>8. Answers' /\ Seen' /\ HandingOver'
    BY <2>2, <2>4 DEF Answers, Seen, Found, HandingOver, Nothing
  <2>9. HereKept'  BY <1>1, <1>2, <1>3, <2>4 DEF Inner, HereKept, SeatOf
  <2> QED  BY <2>5, <2>6, <2>7, <2>8, <2>9 DEF IInv, Inner
<1> QED  BY <1>4, <1>5

LEMMA ReplaceSeatStep ==
  ASSUME IInv, ReplaceSeat
  PROVE  IInv'
<1> DEFINE c == iwait.from
           m == Request("ReconnectPeer", c, iwait.old)
<1>1. /\ Running /\ iwait.op = "answer" /\ iwait.got = "done"
      /\ iwait' = Serving("reconnect", c, iwait.old)
      /\ gq' = Append(gq, m)
  BY DEF ReplaceSeat
<1>2. UNCHANGED <<turn, slots, gwait, lobby, here, entering, iq, actor, name, aq, conn,
                  sock, client, view, presses, eager, chats, cin, crashed>>
  BY DEF ReplaceSeat, actorVars, connVars, clientVars
<1>3. TypeOK /\ Inner /\ ServerTypes /\ IntroTypes  BY <1>1, TypeGroups DEF IInv
<1>4. c \in Conns /\ iwait.old \in Conns /\ iwait.got # Nothing
  BY <1>1, <1>3 DEF Inner, Answers, HandingOver, Nothing
<1>5. m \in Requests /\ m.cmd = "ReconnectPeer" /\ m.from = c /\ m.arg = iwait.old
  BY <1>4, MessageFacts DEF Commands
<1>6. /\ iwait'.op = "reconnect" /\ iwait'.from = c /\ iwait'.old = iwait.old
      /\ iwait'.got = Nothing
  BY <1>1 DEF Serving
<1> HIDE DEF m
<1>7. /\ T!HasActive(turn') /\ SeatOwners'
      /\ ActorOfConn' /\ SeatKept' /\ NameKept' /\ SeatNamed'
      /\ ServerWait' /\ TaskMail' /\ LobbyMail' /\ MoversWait' /\ ActorMail'
      /\ OneTaking' /\ ActiveMoves'
  BY <1>1, <1>2, <1>3, <1>4, <1>5, <1>6, LobbyAsks
<1>8. TypeOK'
  <2>1. gq' \in Seq(Requests)  BY <1>1, <1>3, <1>5, AskedAfterSend
  <2>2. ServerTypes' /\ IntroTypes'
    BY <1>1, <1>2, <1>3, <1>4, <2>1 DEF ServerTypes, IntroTypes, Serving
  <2> QED
    BY <1>2, <1>3, <2>2, SameTypes, TypesNext DEF actorVars, connVars, clientVars
<1>9. IntroMail'  BY <1>1, <1>2, <1>3, <1>6 DEF Inner, IntroMail, IntroMailOf
<1>10. Answers'  BY <1>4, <1>6 DEF Answers
<1>11. Seen'
  <2>1. iwait.old = SeatOf(c).conn  BY <1>1, <1>3 DEF Inner, Seen, Found
  <2> QED  BY <1>2, <1>6, <2>1 DEF Seen, SeatOf, Nothing
<1>12. HandingOver'
  BY <1>1, <1>2, <1>3, <1>4, <1>6 DEF Inner, HandingOver, Open
<1>13. HereKept'  BY <1>1, <1>2, <1>3, <1>6 DEF Inner, HereKept, SeatOf
<1> QED  BY <1>7, <1>8, <1>9, <1>10, <1>11, <1>12, <1>13 DEF IInv, Inner
LEMMA ReceiveEnterGameStep ==
  ASSUME IInv, ReceiveEnterGame
  PROVE  IInv'
<1> DEFINE c == Head(iq).from
<1>1. /\ Running /\ iwait.op = "idle" /\ iq # <<>> /\ Head(iq).cmd = "EnterGame"
  BY DEF ReceiveEnterGame, IntroReceive, Free
<1>2. UNCHANGED <<turn, slots, gq, gwait, lobby, here, iwait, actor, name, aq, conn,
                  sock, client, view, presses, eager, chats, cin>>
  BY DEF ReceiveEnterGame, serverVars, actorVars, connVars, clientVars
<1>3. CASE entering # NoConn
  <2>1. crashed' = "intro" /\ iq' = iq /\ entering' = entering
    BY <1>3 DEF ReceiveEnterGame
  <2> QED
    BY <1>2, <2>1, Panics DEF serverVars, introVars, actorVars, connVars, clientVars
<1>4. CASE entering = NoConn
  <2>1. crashed' = crashed /\ iq' = Tail(iq) /\ entering' = c
    BY <1>4 DEF ReceiveEnterGame
  <2>2. TypeOK /\ Inner /\ IntroTypes  BY <1>1, TypeGroups DEF IInv
  <2>3. c \in Conns  BY <1>1, <2>2, HeadIntro
  <2> HIDE DEF c
  <2>4. /\ T!HasActive(turn') /\ SeatOwners'
        /\ ActorOfConn' /\ SeatKept' /\ NameKept'
        /\ ServerWait' /\ TaskMail' /\ LobbyMail' /\ MoversWait' /\ ActorMail'
        /\ Answers' /\ Seen' /\ OneTaking' /\ ActiveMoves'
    BY <1>2, <2>2, IntroAlone
  <2>5. TypeOK'
    <3>1. iq' \in Seq(IntroCommands)  BY <1>1, <2>1, <2>2, ToldAfterTake
    <3>2. IntroTypes'  BY <1>2, <2>1, <2>2, <2>3, <3>1 DEF IntroTypes
    <3> QED
      BY <1>2, <2>1, <2>2, <3>2, SameTypes, TypesNext
         DEF serverVars, actorVars, connVars, clientVars
  <2>6. IntroMail'
    <3> SUFFICES ASSUME NEW d \in Conns
                 PROVE  IntroMailOf(d)'
      BY DEF IntroMail
    <3>1. IntroMailOf(d) /\ OneTold(iq, iq', Head(iq), d) /\ d # NoConn
      BY <1>1, <2>1, <2>2, HeardCounts, ConnFacts DEF Inner, IntroMail
    <3>2. iwait' = iwait /\ actor' = actor /\ conn' = conn  BY <1>2
    <3> QED  BY <1>1, <1>4, <2>1, <3>1, <3>2 DEF IntroMailOf, OneTold, OneIf, c
  <2>7. SeatNamed' /\ HandingOver' /\ HereKept'
    BY <1>1, <1>2, <2>2 DEF Inner, SeatNamed, HandingOver, HereKept, SeatOf, Open
  <2> QED  BY <2>4, <2>5, <2>6, <2>7 DEF IInv, Inner
<1> QED  BY <1>3, <1>4

LEMMA EndReconnectionStep ==
  ASSUME IInv, EndReconnection
  PROVE  IInv'
<1> DEFINE c == iwait.from
<1>1. /\ Running /\ iwait.op = "reconnect" /\ iwait.got = "done"
      /\ iwait' = IntroIdle /\ here' = here \ {c}
  BY DEF EndReconnection
<1>2. UNCHANGED <<turn, slots, gq, gwait, lobby, entering, iq, actor, name, aq, conn,
                  sock, client, view, presses, eager, chats, cin, crashed>>
  BY DEF EndReconnection, serverVars, actorVars, connVars, clientVars
<1>3. TypeOK /\ Inner /\ IntroTypes  BY <1>1, TypeGroups DEF IInv
<1>4. /\ iwait.got # Nothing /\ iwait'.op = "idle" /\ iwait'.got = Nothing
  BY <1>1 DEF Nothing, IntroIdle
<1>5. /\ T!HasActive(turn') /\ SeatOwners'
      /\ ActorOfConn' /\ SeatKept' /\ NameKept'
      /\ ServerWait' /\ TaskMail' /\ LobbyMail' /\ MoversWait' /\ ActorMail'
      /\ Answers' /\ Seen' /\ OneTaking' /\ ActiveMoves'
  BY <1>1, <1>2, <1>3, <1>4, IntroAlone
<1>6. /\ c \in Conns /\ SeatOf(c).conn = c /\ actor[c] # "none" /\ name[c] = Owner(c)
      /\ iwait.old \in Conns /\ Owner(iwait.old) = Owner(c)
  <2>1. c \in Conns /\ iwait.old \in Conns /\ Owner(iwait.old) = Owner(c) /\ actor[c] # "none"
    BY <1>1, <1>3 DEF Inner, Answers, HandingOver
  <2>2. SeatOf(c).conn = c  BY <1>1, <1>3 DEF Inner, Seen
  <2>3. conn[c].pc \notin Taking  BY <1>1, <1>3, <2>1 DEF Inner, OneTaking
  <2>4. name[c] = Owner(c)  BY <1>1, <1>3, <2>3 DEF Inner, HandingOver, Taking
  <2> QED  BY <2>1, <2>2, <2>4
<1>7. TypeOK'
  <2>1. IntroTypes'  BY <1>1, <1>2, <1>3 DEF IntroTypes, IntroIdle, Nothing
  <2> QED
    BY <1>2, <1>3, <2>1, SameTypes, TypesNext DEF serverVars, actorVars, connVars, clientVars
<1>8. IntroMail'  BY <1>1, <1>2, <1>3, <1>4 DEF Inner, IntroMail, IntroMailOf
<1>9. SeatNamed'
  <2> SUFFICES ASSUME NEW p \in Players, Open(slots[p].conn), name[slots[p].conn] # p
               PROVE  FALSE
    BY <1>2 DEF SeatNamed, Open
  <2>1. iwait.old = slots[p].conn /\ Owner(slots[p].conn) = p
    BY <1>3, SeatFacts DEF Inner, SeatNamed
  <2>2. slots[p].conn = c /\ p = Owner(c)  BY <1>6, <2>1 DEF SeatOf
  <2> QED  BY <1>6, <2>2
<1>10. HandingOver'  BY <1>4 DEF HandingOver
<1>11. HereKept'
  <2>1. ASSUME NEW d \in Conns, conn[d].pc \in {"logged", "entering"}
        PROVE  d \in here'
    <3>1. actor[d] = "none" /\ d \in here
      BY <1>3, <2>1 DEF Inner, ActorOfConn, Early, HereKept
    <3> QED  BY <1>1, <1>6, <3>1
  <2>2. \A d \in here' : d \in here /\ d # c  BY <1>1
  <2> QED  BY <1>1, <1>2, <1>3, <1>4, <2>1, <2>2 DEF Inner, HereKept, SeatOf
<1> QED  BY <1>5, <1>7, <1>8, <1>9, <1>10, <1>11 DEF IInv, Inner

LEMMA IntroDropPeerStep ==
  ASSUME IInv, IntroDropPeer
  PROVE  IInv'
<1> DEFINE c == Head(iq).from
<1>1. /\ Running /\ iwait.op = "idle" /\ iq # <<>> /\ Head(iq).cmd = "DropPeer"
      /\ iq' = Tail(iq) /\ lobby' = lobby \ {c} /\ here' = here \ {c}
      /\ crashed' \in {crashed, "over"}
  BY DEF IntroDropPeer, IntroReceive, Free
<1>2. UNCHANGED <<turn, slots, gq, gwait, entering, iwait, actor, name, aq, conn,
                  sock, client, view, presses, eager, chats, cin>>
  BY DEF IntroDropPeer, serverVars, actorVars, connVars, clientVars
<1>3. TypeOK /\ Inner /\ IntroTypes  BY <1>1, TypeGroups DEF IInv
<1>4. c \in Conns /\ conn[c].pc \in Over  BY <1>1, <1>3, HeadIntro
<1>5. /\ T!HasActive(turn') /\ SeatOwners'
      /\ ActorOfConn' /\ SeatKept' /\ NameKept'
      /\ ServerWait' /\ TaskMail' /\ LobbyMail' /\ MoversWait' /\ ActorMail'
      /\ Answers' /\ Seen' /\ OneTaking' /\ ActiveMoves'
  BY <1>2, <1>3, IntroAlone
<1>6. TypeOK'
  <2>1. iq' \in Seq(IntroCommands)  BY <1>1, <1>3, ToldAfterTake
  <2>2. IntroTypes'  BY <1>1, <1>2, <1>3, <2>1 DEF IntroTypes
  <2>3. crashed' \in {"no", "game", "intro", "over"}  BY <1>1 DEF Running
  <2> QED
    BY <1>2, <1>3, <2>2, <2>3, SameTypes, TypesNext
       DEF serverVars, actorVars, connVars, clientVars
<1>7. IntroMail'
  <2> SUFFICES ASSUME NEW d \in Conns
               PROVE  IntroMailOf(d)'
    BY DEF IntroMail
  <2>1. IntroMailOf(d) /\ OneTold(iq, iq', Head(iq), d)
    BY <1>1, <1>3, HeardCounts DEF Inner, IntroMail
  <2>2. iwait' = iwait /\ entering' = entering /\ actor' = actor /\ conn' = conn
    BY <1>2
  <2> QED  BY <1>1, <2>1, <2>2 DEF IntroMailOf, OneTold, OneIf
<1>8. SeatNamed' /\ HandingOver'
  BY <1>1, <1>2, <1>3 DEF Inner, SeatNamed, HandingOver, Open
<1>9. HereKept'
  <2>1. \A d \in Conns : conn[d].pc \in {"logged", "entering"} => d \in here'
    BY <1>1, <1>3, <1>4 DEF Inner, HereKept, Over
  <2> QED  BY <1>1, <1>2, <1>3, <2>1 DEF Inner, HereKept, SeatOf
<1> QED  BY <1>5, <1>6, <1>7, <1>8, <1>9 DEF IInv, Inner
-------------------------------------------------------------------------------
(* A reconnection: the handle of the old actor, its peer, a new mailbox.      *)

LEMMA HandOverStep ==
  ASSUME IInv, HandOver
  PROVE  IInv'
<1> DEFINE c == iwait.from
           old == iwait.old
<1>1. Running /\ iwait.op = "handle" /\ iwait.got # Nothing  BY DEF HandOver
<1>2. UNCHANGED <<turn, slots, gq, gwait, lobby, here, entering, iq, actor, name, aq,
                  sock, client, view, presses, eager, chats, cin>>
  BY DEF HandOver, serverVars, actorVars, clientVars
<1>3. TypeOK /\ Inner /\ IntroTypes /\ ConnTypes  BY <1>1, TypeGroups DEF IInv
<1>4. iwait.got = "some" /\ c \in Conns /\ old = SeatOf(c).conn
  BY <1>1, <1>3 DEF Inner, Answers, Seen, Found
<1>5. CASE conn[c].pc # "entering"
  <2>1. crashed' = "intro" /\ iwait' = iwait /\ conn' = conn
    BY <1>5 DEF HandOver
  <2> QED
    BY <1>2, <2>1, Panics DEF serverVars, introVars, actorVars, connVars, clientVars
<1>6. CASE conn[c].pc = "entering"
  <2>1. /\ crashed' = crashed /\ iwait' = Serving("answer", c, old)
        /\ conn' = [conn EXCEPT ![c].pc = "take", ![c].val = old]
    BY <1>4, <1>6 DEF HandOver
  <2>2. /\ old \in Conns /\ Owner(old) = Owner(c) /\ Owner(c) \in Players
        /\ old = slots[Owner(c)].conn
    BY <1>4, SeatFacts, ConnFacts DEF SeatOf
  <2>3. /\ iwait'.op = "answer" /\ iwait'.from = c /\ iwait'.old = old
        /\ iwait'.got = Nothing
    BY <2>1 DEF Serving
  <2>4. /\ conn' \in [Conns -> [pc : ConnPlaces, val : Conns \cup {NoConn},
                                move : Phases \cup {Nothing}]]
        /\ conn'[c].pc = "take" /\ conn'[c].val = old
        /\ \A d \in Conns : d # c => conn'[d] = conn[d]
    <3>1. conn' = [conn EXCEPT ![c] = [conn[c] EXCEPT !.pc = "take", !.val = old]]
      BY <2>1
    <3>2. conn[c] \in [pc : ConnPlaces, val : Conns \cup {NoConn}, move : Phases \cup {Nothing}]
      BY <1>3, <1>4 DEF ConnTypes
    <3>3. /\ [conn[c] EXCEPT !.pc = "take", !.val = old]
               \in [pc : ConnPlaces, val : Conns \cup {NoConn}, move : Phases \cup {Nothing}]
          /\ [conn[c] EXCEPT !.pc = "take", !.val = old].pc = "take"
          /\ [conn[c] EXCEPT !.pc = "take", !.val = old].val = old
      BY <2>2, <3>2 DEF ConnPlaces
    <3> QED  BY <1>3, <1>4, <3>1, <3>3 DEF ConnTypes
  <2>5. \A d \in Conns : conn[d].pc \notin Taking
    BY <1>1, <1>3 DEF Inner, OneTaking
  <2>6. TypeOK'
    <3>1. IntroTypes' /\ ConnTypes'
      BY <1>2, <1>3, <1>4, <2>1, <2>2, <2>4 DEF IntroTypes, ConnTypes, Serving
    <3> QED
      BY <1>2, <1>3, <2>1, <3>1, SameTypes, TypesNext DEF serverVars, actorVars, clientVars
  <2>7. T!HasActive(turn') /\ SeatOwners' /\ NameKept' /\ ServerWait'
    BY <1>2, <1>3 DEF IInv, Inner, SeatOwners, NameKept, ServerWait, SeatOf
  <2>8. ActorOfConn'
    <3> SUFFICES ASSUME NEW d \in Conns
                 PROVE  /\ conn'[d].pc \in Early => actor'[d] = "none"
                        /\ conn'[d].pc \in Booting <=> actor'[d] = "boot"
                        /\ conn'[d].pc \in Loop => actor'[d] \in Busy
                        /\ conn'[d].pc = "refused" => actor'[d] = "dead"
      BY DEF ActorOfConn
    <3>1. /\ conn[d].pc \in Early => actor[d] = "none"
          /\ conn[d].pc \in Booting <=> actor[d] = "boot"
          /\ conn[d].pc \in Loop => actor[d] \in Busy
          /\ conn[d].pc = "refused" => actor[d] = "dead"
          /\ actor' = actor
      BY <1>2, <1>3 DEF Inner, ActorOfConn
    <3>2. CASE d = c  BY <1>6, <2>4, <3>1, <3>2 DEF Early, Taking, Booting, Loop
    <3>3. CASE d # c
      <4>1. conn'[d] = conn[d] /\ actor'[d] = actor[d]  BY <2>4, <3>1, <3>3
      <4> QED  BY <3>1, <4>1
    <3> QED  BY <3>2, <3>3
  <2>9. SeatKept'
    <3>1. \A p \in Players : slots[p].conn \in Conns  BY SeatFacts
    <3> QED  BY <1>2, <1>3, <1>6, <2>4, <3>1 DEF Inner, SeatKept
  <2>10. \A p \in Players : ~ (Open(slots[p].conn) /\ name[slots[p].conn] # p)
    BY <1>1, <1>3 DEF Inner, SeatNamed
  <2>11. SeatNamed'  BY <1>2, <2>10 DEF SeatNamed, Open
  <2>12. TaskMail'
    <3> SUFFICES ASSUME NEW d \in Conns
                 PROVE  TaskMailOf(d)'
      BY DEF TaskMail
    <3>1. TaskMailOf(d) /\ gq' = gq /\ actor' = actor
      BY <1>2, <1>3 DEF Inner, TaskMail
    <3>2. CASE d = c  BY <1>6, <2>4, <3>1, <3>2 DEF TaskMailOf, OneIf
    <3>3. CASE d # c  BY <2>4, <3>1, <3>3 DEF TaskMailOf
    <3> QED  BY <3>2, <3>3
  <2>13. LobbyMail'
    BY <1>1, <1>2, <1>3, <2>3, IdleLobby DEF LobbyMail, IntroAsks, IntroCmds, OneIf
  <2>14. MoversWait'
    BY <1>2, <1>3, <1>6, <2>4 DEF Inner, MoversWait, MoveUnderWay
  <2>15. ActorMail'
    <3> SUFFICES ASSUME NEW x \in Conns, NEW d \in Conns \cup {NoConn}
                 PROVE  MailOf(x, d)'
      BY DEF ActorMail
    <3>1. /\ MailOf(x, d) /\ aq' = aq
          /\ ServerAsks(x)' <=> ServerAsks(x)
          /\ MoveUnderWay(x)' <=> MoveUnderWay(x)
      BY <1>2, <1>3 DEF Inner, ActorMail, ServerAsks, MoveUnderWay
    <3>2. /\ conn'[x].pc = "w_move" <=> conn[x].pc = "w_move"
          /\ conn'[x].pc = "w_chatname" <=> conn[x].pc = "w_chatname"
      BY <1>6, <2>4
    <3>3. iwait.op # "answer" /\ conn'[iwait'.from].pc # "w_take"
      BY <1>1, <2>3, <2>4
    <3> QED  BY <3>1, <3>2, <3>3 DEF MailOf, OneIf
  <2>16. IntroMail'
    <3> SUFFICES ASSUME NEW d \in Conns
                 PROVE  IntroMailOf(d)'
      BY DEF IntroMail
    <3>1. /\ IntroMailOf(d) /\ Asked(iq, {"EnterGame"}, d) \in Nat
          /\ Asked(iq, {"DropPeer"}, d) \in Nat
      BY <1>3, IntroCounts DEF Inner, IntroMail
    <3>2. iq' = iq /\ entering' = entering /\ actor' = actor  BY <1>2
    <3>3. CASE d = c
      BY <1>1, <1>6, <2>3, <2>4, <3>1, <3>2, <3>3 DEF IntroMailOf, OneIf, Over
    <3>4. CASE d # c
      BY <1>1, <2>3, <2>4, <3>1, <3>2, <3>4 DEF IntroMailOf, OneIf
    <3> QED  BY <3>3, <3>4
  <2>17. Answers' /\ Seen'
    BY <1>2, <1>4, <2>3 DEF Answers, Seen, SeatOf, Nothing
  <2>18. HandingOver'
    <3>1. c \in here  BY <1>3, <1>4, <1>6 DEF Inner, HereKept
    <3>2. Open(old) => name[old] = Owner(old)  BY <2>2, <2>10
    <3> QED
      BY <1>2, <2>2, <2>3, <2>4, <3>1, <3>2 DEF HandingOver, Taking, Open, Nothing
  <2>19. OneTaking'  BY <2>3, <2>4, <2>5 DEF OneTaking
  <2>20. HereKept'  BY <1>1, <1>2, <1>3, <2>3, <2>4 DEF Inner, HereKept, SeatOf
  <2>21. ActiveMoves'  BY <1>2, <1>3, <2>4 DEF Inner, ActiveMoves, ActiveConn
  <2> QED
    BY <2>6, <2>7, <2>8, <2>9, <2>11, <2>12, <2>13, <2>14, <2>15, <2>16, <2>17, <2>18,
       <2>19, <2>20, <2>21 DEF IInv, Inner
<1> QED  BY <1>5, <1>6
(* The connection that takes the peer over, and what the intro server holds. *)
LEMMA TakingFacts ==
  ASSUME IInv, Inner, NEW c \in Conns, conn[c].pc \in Taking
  PROVE  /\ iwait.op = "answer" /\ iwait.got = Nothing /\ iwait.from = c
         /\ conn[c].val = iwait.old /\ iwait.old \in Conns
         /\ Owner(iwait.old) = Owner(c) /\ iwait.old = SeatOf(c).conn
         /\ actor[c] = "none" /\ c \in here
         /\ \A d \in Conns : d # c => conn[d].pc \notin Taking
<1>1. /\ iwait.op = "answer" /\ iwait.got = Nothing /\ iwait.from = c
      /\ conn[c].val = iwait.old
      /\ \A d \in Conns : d # c => conn[d].pc \notin Taking
  BY DEF Inner, OneTaking
<1>2. iwait.old \in Conns /\ Owner(iwait.old) = Owner(c) /\ c \in here
  BY <1>1 DEF Inner, HandingOver
<1>3. iwait.old = SeatOf(c).conn  BY <1>1 DEF Inner, Seen, Found
<1>4. actor[c] = "none"  BY DEF Inner, ActorOfConn, Early
<1> QED  BY <1>1, <1>2, <1>3, <1>4

LEMMA TakeOverStep ==
  ASSUME IInv, NEW c \in Conns, TakeOver(c)
  PROVE  IInv'
<1> DEFINE m == TakePeer(c)
           old == iwait.old
<1>1. Running /\ conn[c].pc = "take"  BY DEF TakeOver, At
<1>2. UNCHANGED <<turn, slots, gq, gwait, lobby, here, entering, iq, iwait, actor, name,
                  sock, client, view, presses, eager, chats, cin>>
  BY DEF TakeOver, serverVars, introVars, clientVars
<1>3. TypeOK /\ Inner /\ ActorTypes /\ ConnTypes  BY <1>1, TypeGroups DEF IInv
<1>4. /\ iwait.op = "answer" /\ iwait.got = Nothing /\ iwait.from = c
      /\ conn[c].val = old /\ old \in Conns /\ Owner(old) = Owner(c)
      /\ actor[c] = "none"
      /\ \A d \in Conns : d # c => conn[d].pc \notin Taking
  BY <1>1, <1>3, TakingFacts DEF Taking
<1>5. CASE ~ Open(old)
  <2>1. crashed' = "intro" /\ aq' = aq /\ conn' = conn
    BY <1>4, <1>5 DEF TakeOver
  <2> QED
    BY <1>2, <2>1, Panics DEF serverVars, introVars, actorVars, connVars, clientVars
<1>6. CASE Open(old)
  <2>1. /\ crashed' = crashed /\ aq' = [aq EXCEPT ![old] = Append(@, m)]
        /\ conn' = [conn EXCEPT ![c].pc = "w_take"]
    BY <1>4, <1>6 DEF TakeOver, Goto
  <2>2. m \in ActorMessages /\ m.msg = "TakePeer" /\ m.asker = c
    BY MessageFacts
  <2> HIDE DEF m
  <2>3. /\ conn' \in [Conns -> [pc : ConnPlaces, val : Conns \cup {NoConn},
                                move : Phases \cup {Nothing}]]
        /\ conn'[c].pc = "w_take" /\ conn'[c].val = conn[c].val
        /\ \A d \in Conns : d # c => conn'[d] = conn[d]
    BY <1>3, <2>1, GotoFacts DEF ConnPlaces
  <2>4. /\ aq' \in [Conns -> Seq(ActorMessages)]
        /\ \A d : OneMoreTo(aq'[old], aq[old], m, d)
        /\ \A y \in Conns : y # old => aq'[y] = aq[y]
    BY <1>3, <1>4, <2>1, <2>2, PutFacts
  <2>5. TypeOK'
    <3>1. ActorTypes' /\ ConnTypes'
      BY <1>2, <1>3, <2>3, <2>4 DEF ActorTypes, ConnTypes
    <3> QED
      BY <1>2, <1>3, <2>1, <3>1, SameTypes, TypesNext DEF serverVars, introVars, clientVars
  <2>6. /\ T!HasActive(turn') /\ SeatOwners' /\ NameKept' /\ ServerWait' /\ LobbyMail'
        /\ SeatNamed'
    BY <1>2, <1>3 DEF IInv, Inner, SeatOwners, NameKept, ServerWait, SeatOf, LobbyMail,
                      IntroAsks, SeatNamed, Open
  <2>7. ActorOfConn'
    <3>1. actor' = actor /\ \A d \in Conns : d # c => conn'[d] = conn[d]
      BY <1>2, <2>3
    <3> QED  BY <1>3, <1>4, <2>3, <3>1 DEF Inner, ActorOfConn, Taking, Booting, Loop
  <2>8. SeatKept'
    <3>1. \A p \in Players : slots[p].conn \in Conns  BY SeatFacts
    <3> QED  BY <1>1, <1>2, <1>3, <2>3, <3>1 DEF Inner, SeatKept
  <2>9. TaskMail'
    <3> SUFFICES ASSUME NEW d \in Conns
                 PROVE  TaskMailOf(d)'
      BY DEF TaskMail
    <3>1. TaskMailOf(d) /\ gq' = gq /\ actor' = actor
      BY <1>2, <1>3 DEF Inner, TaskMail
    <3>2. CASE d = c  BY <1>1, <2>3, <3>1, <3>2 DEF TaskMailOf, OneIf
    <3>3. CASE d # c  BY <2>3, <3>1, <3>3 DEF TaskMailOf
    <3> QED  BY <3>2, <3>3
  <2>10. MoversWait'
    BY <1>1, <1>2, <1>3, <2>3 DEF Inner, MoversWait, MoveUnderWay
  <2>11. ActorMail'
    <3> SUFFICES ASSUME NEW x \in Conns, NEW d \in Conns \cup {NoConn}
                 PROVE  MailOf(x, d)'
      BY DEF ActorMail
    <3>1. /\ MailOf(x, d)
          /\ ServerAsks(x)' <=> ServerAsks(x)
          /\ MoveUnderWay(x)' <=> MoveUnderWay(x)
          /\ iwait' = iwait
      BY <1>2, <1>3 DEF Inner, ActorMail, ServerAsks, MoveUnderWay
    <3>2. /\ conn'[x].pc = "w_move" <=> conn[x].pc = "w_move"
          /\ conn'[x].pc = "w_chatname" <=> conn[x].pc = "w_chatname"
      BY <1>1, <2>3
    <3>3. CASE x = old
      <4>1. OneMoreTo(aq'[x], aq[x], m, d)  BY <2>4, <3>3
      <4> QED
        BY <1>1, <1>4, <2>2, <2>3, <3>1, <3>2, <3>3, <4>1 DEF MailOf, OneMoreTo, OneIf
    <3>4. CASE x # old
      <4>1. aq'[x] = aq[x]  BY <2>4, <3>4
      <4> QED  BY <3>1, <3>2, <3>4, <4>1 DEF MailOf, OneIf
    <3> QED  BY <3>3, <3>4
  <2>12. IntroMail'
    <3> SUFFICES ASSUME NEW d \in Conns
                 PROVE  IntroMailOf(d)'
      BY DEF IntroMail
    <3>1. IntroMailOf(d) /\ iq' = iq /\ entering' = entering /\ actor' = actor /\ iwait' = iwait
      BY <1>2, <1>3 DEF Inner, IntroMail
    <3>2. CASE d = c  BY <1>1, <2>3, <3>1, <3>2 DEF IntroMailOf, OneIf, Over
    <3>3. CASE d # c  BY <2>3, <3>1, <3>3 DEF IntroMailOf
    <3> QED  BY <3>2, <3>3
  <2>13. Answers' /\ Seen'
    BY <1>2, <1>3 DEF Inner, Answers, Seen, Found, SeatOf
  <2>14. HandingOver'
    BY <1>1, <1>2, <1>3, <1>4, <2>3 DEF Inner, HandingOver, Taking, Open, Nothing
  <2>15. OneTaking'  BY <1>2, <1>4, <2>3 DEF OneTaking
  <2>16. HereKept'  BY <1>2, <1>3, <1>4, <2>3 DEF Inner, HereKept, SeatOf
  <2>17. ActiveMoves'  BY <1>2, <1>3, <2>3 DEF Inner, ActiveMoves, ActiveConn
  <2> QED
    BY <2>5, <2>6, <2>7, <2>8, <2>9, <2>10, <2>11, <2>12, <2>13, <2>14, <2>15, <2>16,
       <2>17 DEF IInv, Inner
<1> QED  BY <1>5, <1>6

(* What is left of the old actor has no name; the new connection has it. *)
LEMMA AnswerTakePeerStep ==
  ASSUME IInv, NEW c \in Conns, AnswerTakePeer(c)
  PROVE  IInv'
<1> DEFINE new == Head(aq[c]).asker
<1>1. /\ Running /\ actor[c] = "idle" /\ aq[c] # <<>> /\ Head(aq[c]).msg = "TakePeer"
      /\ actor' = [actor EXCEPT ![c] = "idle"] /\ aq' = [aq EXCEPT ![c] = Tail(@)]
      /\ name' = [name EXCEPT ![new] = name[c], ![c] = NoName]
      /\ conn' = [conn EXCEPT ![new].pc = "taken"]
  BY DEF AnswerTakePeer, Handles, PopTo
<1>2. UNCHANGED <<turn, slots, gq, gwait, lobby, here, entering, iq, iwait,
                  sock, client, view, presses, eager, chats, cin, crashed>>
  BY DEF AnswerTakePeer, serverVars, introVars, clientVars
<1>3. TypeOK /\ Inner /\ ActorTypes /\ ConnTypes  BY <1>1, TypeGroups DEF IInv
<1>4. new \in Conns /\ conn[new].pc = "w_take" /\ iwait.old = c /\ iwait.from = new
  <2>1. iwait.op = "answer" /\ iwait.from = new /\ conn[iwait.from].pc = "w_take"
        /\ iwait.old = c
    BY <1>1, <1>3, HeadMail
  <2> QED  BY <1>3, <2>1 DEF Inner, Answers
<1>5. /\ iwait.op = "answer" /\ iwait.got = Nothing
      /\ Owner(c) = Owner(new) /\ actor[new] = "none" /\ new # c
      /\ \A d \in Conns : d # new => conn[d].pc \notin Taking
      /\ conn[new].val = iwait.old /\ name[c] = Owner(new) /\ c = SeatOf(new).conn
  <2>1. /\ iwait.op = "answer" /\ iwait.got = Nothing
        /\ Owner(c) = Owner(new) /\ actor[new] = "none"
        /\ \A d \in Conns : d # new => conn[d].pc \notin Taking
        /\ conn[new].val = iwait.old /\ c = SeatOf(new).conn
    BY <1>3, <1>4, TakingFacts DEF Taking
  <2>2. name[c] = Owner(c)
    BY <1>1, <1>3, <1>4, <2>1 DEF Inner, HandingOver, Open
  <2> QED  BY <1>1, <2>1, <2>2
<1> HIDE DEF new
<1>6. actor' = actor  BY <1>1, <1>3 DEF ActorTypes
<1>7. /\ name' \in [Conns -> Names]
      /\ name'[new] = Owner(new) /\ name'[c] = NoName
      /\ \A d \in Conns : d # new /\ d # c => name'[d] = name[d]
  BY <1>1, <1>3, <1>4, <1>5 DEF ActorTypes, Names
<1>8. /\ conn' \in [Conns -> [pc : ConnPlaces, val : Conns \cup {NoConn},
                              move : Phases \cup {Nothing}]]
      /\ conn'[new].pc = "taken" /\ conn'[new].val = conn[new].val
      /\ \A d \in Conns : d # new => conn'[d] = conn[d]
  BY <1>1, <1>3, <1>4, GotoFacts DEF ConnPlaces
<1>9. /\ aq' \in [Conns -> Seq(ActorMessages)]
      /\ \A d : OneMoreTo(aq[c], aq'[c], Head(aq[c]), d)
      /\ \A y \in Conns : y # c => aq'[y] = aq[y]
  BY <1>1, <1>3, PopFacts
<1>10. TypeOK'
  <2>1. ActorTypes' /\ ConnTypes'
    BY <1>2, <1>3, <1>6, <1>7, <1>8, <1>9 DEF ActorTypes, ConnTypes
  <2> QED
    BY <1>2, <1>3, <2>1, SameTypes, TypesNext DEF serverVars, introVars, clientVars
<1>11. T!HasActive(turn') /\ SeatOwners' /\ ServerWait' /\ LobbyMail'
  BY <1>2, <1>3 DEF IInv, Inner, SeatOwners, ServerWait, SeatOf, LobbyMail, IntroAsks
<1>12. ActorOfConn'
  BY <1>3, <1>5, <1>6, <1>8 DEF Inner, ActorOfConn, Taking, Booting, Loop
<1>13. SeatKept'
  <2>1. \A p \in Players : slots[p].conn \in Conns  BY SeatFacts
  <2> QED  BY <1>2, <1>3, <1>4, <1>6, <1>8, <2>1 DEF Inner, SeatKept
<1>14. NameKept'  BY <1>3, <1>7 DEF Inner, NameKept
<1>15. SeatNamed'
  <2> SUFFICES ASSUME NEW p \in Players,
                      Open(slots[p].conn), name'[slots[p].conn] # p
               PROVE  iwait.op \in {"answer", "reconnect"} /\ iwait.old = slots[p].conn
    BY <1>2, <1>6 DEF SeatNamed, Open
  <2>1. slots[p].conn \in Conns /\ Owner(slots[p].conn) = p  BY SeatFacts
  <2>2. CASE slots[p].conn = c  BY <1>4, <1>5, <2>2
  <2>3. CASE slots[p].conn # c
    <3>1. slots[p].conn # new  BY <1>7, <2>1
    <3> QED  BY <1>3, <1>7, <2>1, <2>3, <3>1 DEF Inner, SeatNamed
  <2> QED  BY <2>2, <2>3
<1>16. TaskMail'
  <2> SUFFICES ASSUME NEW d \in Conns
               PROVE  TaskMailOf(d)'
    BY DEF TaskMail
  <2>1. TaskMailOf(d) /\ gq' = gq /\ actor' = actor
    BY <1>2, <1>3, <1>6 DEF Inner, TaskMail
  <2>2. CASE d = new  BY <1>4, <1>8, <2>1, <2>2 DEF TaskMailOf, OneIf
  <2>3. CASE d # new  BY <1>8, <2>1, <2>3 DEF TaskMailOf
  <2> QED  BY <2>2, <2>3
<1>17. MoversWait'
  BY <1>3, <1>4, <1>6, <1>8 DEF Inner, MoversWait, MoveUnderWay
<1>18. ActorMail'
  <2> SUFFICES ASSUME NEW x \in Conns, NEW d \in Conns \cup {NoConn}
               PROVE  MailOf(x, d)'
    BY DEF ActorMail
  <2>1. /\ MailOf(x, d)
        /\ ServerAsks(x)' <=> ServerAsks(x)
        /\ MoveUnderWay(x)' <=> MoveUnderWay(x)
        /\ iwait' = iwait
    BY <1>2, <1>3, <1>6 DEF Inner, ActorMail, ServerAsks, MoveUnderWay
  <2>2. /\ conn'[x].pc = "w_move" <=> conn[x].pc = "w_move"
        /\ conn'[x].pc = "w_chatname" <=> conn[x].pc = "w_chatname"
    BY <1>4, <1>8
  <2>3. CASE x = c
    <3>1. OneMoreTo(aq[x], aq'[x], Head(aq[c]), d) /\ Head(aq[c]).asker = new
      BY <1>9, <2>3 DEF new
    <3> QED
      BY <1>1, <1>4, <1>5, <1>8, <2>1, <2>2, <2>3, <3>1 DEF MailOf, OneMoreTo, OneIf
  <2>4. CASE x # c
    <3>1. aq'[x] = aq[x]  BY <1>9, <2>4
    <3> QED  BY <1>4, <2>1, <2>2, <2>4, <3>1 DEF MailOf, OneIf
  <2> QED  BY <2>3, <2>4
<1>19. IntroMail'
  <2> SUFFICES ASSUME NEW d \in Conns
               PROVE  IntroMailOf(d)'
    BY DEF IntroMail
  <2>1. IntroMailOf(d) /\ iq' = iq /\ entering' = entering /\ actor' = actor /\ iwait' = iwait
    BY <1>2, <1>3, <1>6 DEF Inner, IntroMail
  <2>2. CASE d = new  BY <1>4, <1>8, <2>1, <2>2 DEF IntroMailOf, OneIf, Over
  <2>3. CASE d # new  BY <1>8, <2>1, <2>3 DEF IntroMailOf
  <2> QED  BY <2>2, <2>3
<1>20. Answers' /\ Seen'  BY <1>2, <1>3 DEF Inner, Answers, Seen, Found, SeatOf
<1>21. HandingOver'
  BY <1>2, <1>3, <1>4, <1>5, <1>6, <1>7, <1>8 DEF Inner, HandingOver, Taking, Nothing
<1>22. OneTaking'  BY <1>2, <1>4, <1>5, <1>8 DEF OneTaking
<1>23. HereKept'  BY <1>2, <1>3, <1>5, <1>8 DEF Inner, HereKept, SeatOf
<1>24. ActiveMoves'
  BY <1>2, <1>3, <1>6, <1>8 DEF Inner, ActiveMoves, ActiveConn
<1> QED
  BY <1>10, <1>11, <1>12, <1>13, <1>14, <1>15, <1>16, <1>17, <1>18, <1>19, <1>20, <1>21,
     <1>22, <1>23, <1>24 DEF IInv, Inner
(* The new connection has a mailbox, and with it an actor that is to come. *)
LEMMA OpenMailboxStep ==
  ASSUME IInv, NEW c \in Conns, OpenMailbox(c)
  PROVE  IInv'
<1>1. /\ Running /\ conn[c].pc = "taken" /\ conn' = [conn EXCEPT ![c].pc = "boot"]
      /\ actor' = [actor EXCEPT ![c] = "boot"] /\ iwait' = [iwait EXCEPT !.got = "done"]
  BY DEF OpenMailbox, At, Goto
<1>2. UNCHANGED <<turn, slots, gq, gwait, lobby, here, entering, iq, name, aq,
                  sock, client, view, presses, eager, chats, cin, crashed>>
  BY DEF OpenMailbox, serverVars, clientVars
<1>3. TypeOK /\ Inner /\ IntroTypes /\ ActorTypes /\ ConnTypes
  BY <1>1, TypeGroups DEF IInv
<1>4. /\ iwait.op = "answer" /\ iwait.got = Nothing /\ iwait.from = c
      /\ iwait.old \in Conns /\ Owner(iwait.old) = Owner(c) /\ iwait.old = SeatOf(c).conn
      /\ actor[c] = "none" /\ c \in here
      /\ \A d \in Conns : d # c => conn[d].pc \notin Taking
  BY <1>1, <1>3, TakingFacts DEF Taking
<1>5. name[c] = Owner(c)  BY <1>1, <1>3, <1>4 DEF Inner, HandingOver
<1>6. /\ conn' \in [Conns -> [pc : ConnPlaces, val : Conns \cup {NoConn},
                              move : Phases \cup {Nothing}]]
      /\ conn'[c].pc = "boot"
      /\ \A d \in Conns : d # c => conn'[d] = conn[d]
  BY <1>1, <1>3, GotoFacts DEF ConnPlaces
<1>7. /\ actor' \in [Conns -> ActorStates] /\ actor'[c] = "boot"
      /\ \A d \in Conns : d # c => actor'[d] = actor[d]
  BY <1>1, <1>3, ActFacts DEF ActorStates
<1>8. /\ iwait' \in [op : {"idle", "id", "connected", "handle", "answer", "reconnect"},
                     from : Conns \cup {NoConn}, old : Conns \cup {NoConn},
                     got : {Nothing, "some", "none", "online", "offline", "done"}]
      /\ iwait'.op = "answer" /\ iwait'.from = c /\ iwait'.old = iwait.old
      /\ iwait'.got = "done" /\ iwait'.got # Nothing
  BY <1>1, <1>3, <1>4 DEF IntroTypes, Nothing
<1>9. TypeOK'
  <2>1. IntroTypes' /\ ActorTypes' /\ ConnTypes'
    BY <1>2, <1>3, <1>6, <1>7, <1>8 DEF IntroTypes, ActorTypes, ConnTypes
  <2> QED  BY <1>2, <1>3, <2>1, SameTypes, TypesNext DEF serverVars, clientVars
<1>10. T!HasActive(turn') /\ SeatOwners' /\ NameKept' /\ ServerWait'
  BY <1>2, <1>3 DEF IInv, Inner, SeatOwners, NameKept, ServerWait, SeatOf
<1>11. ActorOfConn'
  <2> SUFFICES ASSUME NEW d \in Conns
               PROVE  /\ conn'[d].pc \in Early => actor'[d] = "none"
                      /\ conn'[d].pc \in Booting <=> actor'[d] = "boot"
                      /\ conn'[d].pc \in Loop => actor'[d] \in Busy
                      /\ conn'[d].pc = "refused" => actor'[d] = "dead"
    BY DEF ActorOfConn
  <2>1. CASE d = c  BY <1>6, <1>7, <2>1 DEF Early, Taking, Booting, Loop
  <2>2. CASE d # c  BY <1>3, <1>6, <1>7, <2>2 DEF Inner, ActorOfConn
  <2> QED  BY <2>1, <2>2
<1>12. SeatKept'
  <2>1. \A p \in Players : slots[p].conn \in Conns  BY SeatFacts
  <2> QED  BY <1>1, <1>2, <1>3, <1>6, <1>7, <2>1 DEF Inner, SeatKept
<1>13. SeatNamed'
  <2> SUFFICES ASSUME NEW p \in Players,
                      Open(slots[p].conn)', name[slots[p].conn] # p
               PROVE  iwait'.op \in {"answer", "reconnect"} /\ iwait'.old = slots[p].conn
    BY <1>2 DEF SeatNamed
  <2>1. slots[p].conn \in Conns /\ Owner(slots[p].conn) = p  BY SeatFacts
  <2>2. slots[p].conn # c  BY <1>5, <2>1
  <2>3. Open(slots[p].conn)  BY <1>2, <1>7, <2>1, <2>2 DEF Open
  <2> QED  BY <1>3, <1>8, <2>3 DEF Inner, SeatNamed
<1>14. TaskMail'
  <2> SUFFICES ASSUME NEW d \in Conns
               PROVE  TaskMailOf(d)'
    BY DEF TaskMail
  <2>1. TaskMailOf(d) /\ gq' = gq  BY <1>2, <1>3 DEF Inner, TaskMail
  <2>2. CASE d = c  BY <1>1, <1>4, <1>6, <1>7, <2>1, <2>2 DEF TaskMailOf, OneIf
  <2>3. CASE d # c  BY <1>6, <1>7, <2>1, <2>3 DEF TaskMailOf
  <2> QED  BY <2>2, <2>3
<1>15. LobbyMail'
  BY <1>2, <1>3, <1>4, <1>8, IdleLobby DEF LobbyMail, IntroAsks, IntroCmds, OneIf
<1>16. MoversWait'
  BY <1>1, <1>3, <1>6, <1>7 DEF Inner, MoversWait, MoveUnderWay
<1>17. ActorMail'
  <2> SUFFICES ASSUME NEW x \in Conns, NEW d \in Conns \cup {NoConn}
               PROVE  MailOf(x, d)'
    BY DEF ActorMail
  <2>1. /\ MailOf(x, d) /\ aq' = aq
        /\ ServerAsks(x)' <=> ServerAsks(x)
    BY <1>2, <1>3 DEF Inner, ActorMail, ServerAsks
  <2>2. /\ conn'[x].pc = "w_move" <=> conn[x].pc = "w_move"
        /\ conn'[x].pc = "w_chatname" <=> conn[x].pc = "w_chatname"
        /\ conn[x].pc = "w_move" => x # c
    BY <1>1, <1>6
  <2>3. x # c => (MoveUnderWay(x)' <=> MoveUnderWay(x))
    BY <1>7 DEF MoveUnderWay
  <2>4. conn[iwait.from].pc # "w_take" /\ conn'[iwait'.from].pc # "w_take"
    BY <1>1, <1>4, <1>6, <1>8
  <2> QED  BY <2>1, <2>2, <2>3, <2>4 DEF MailOf, OneIf
<1>18. IntroMail'
  <2> SUFFICES ASSUME NEW d \in Conns
               PROVE  IntroMailOf(d)'
    BY DEF IntroMail
  <2>1. IntroMailOf(d) /\ iq' = iq /\ entering' = entering
    BY <1>2, <1>3 DEF Inner, IntroMail
  <2>2. CASE d = c
    BY <1>1, <1>4, <1>6, <1>7, <1>8, <2>1, <2>2 DEF IntroMailOf, OneIf, Over
  <2>3. CASE d # c  BY <1>4, <1>6, <1>7, <1>8, <2>1, <2>3 DEF IntroMailOf, OneIf
  <2> QED  BY <2>2, <2>3
<1>19. Answers'  BY <1>8 DEF Answers
<1>20. Seen'  BY <1>2, <1>4, <1>8 DEF Seen, Found, SeatOf
<1>21. HandingOver'  BY <1>2, <1>4, <1>5, <1>6, <1>7, <1>8 DEF HandingOver
<1>22. OneTaking'  BY <1>4, <1>6 DEF OneTaking, Taking
<1>23. HereKept'  BY <1>2, <1>3, <1>4, <1>6, <1>8 DEF Inner, HereKept, SeatOf
<1>24. ActiveMoves'
  BY <1>1, <1>2, <1>3, <1>6, <1>7 DEF Inner, ActiveMoves, ActiveConn
<1> QED
  BY <1>9, <1>10, <1>11, <1>12, <1>13, <1>14, <1>15, <1>16, <1>17, <1>18, <1>19, <1>20,
     <1>21, <1>22, <1>23, <1>24 DEF IInv, Inner

(* A connection ends before it has spawned its actor. *)
LEMMA StartFailsStep ==
  ASSUME IInv, NEW c \in Conns, StartFails(c)
  PROVE  IInv'
<1> DEFINE m == IntroCommand("DropPeer", c)
<1>1. /\ Running /\ conn[c].pc = "booted" /\ conn' = [conn EXCEPT ![c].pc = "failed"]
      /\ actor' = [actor EXCEPT ![c] = "dead"] /\ aq' = [aq EXCEPT ![c] = <<>>]
      /\ crashed' = LossOfMailbox(c) /\ iq' = Append(iq, m)
  BY DEF StartFails, At, Goto, ToIntro
<1>2. UNCHANGED <<turn, slots, gq, gwait, lobby, here, entering, iwait, name,
                  sock, client, view, presses, eager, chats, cin>>
  BY DEF StartFails, serverVars, clientVars
<1>3. TypeOK /\ Inner /\ IntroTypes /\ ActorTypes /\ ConnTypes
  BY <1>1, TypeGroups DEF IInv
<1>4. m \in IntroCommands /\ m.cmd = "DropPeer" /\ m.from = c  BY MessageFacts
<1> HIDE DEF m
<1>5. /\ conn' \in [Conns -> [pc : ConnPlaces, val : Conns \cup {NoConn},
                              move : Phases \cup {Nothing}]]
      /\ conn'[c].pc = "failed"
      /\ \A d \in Conns : d # c => conn'[d] = conn[d]
  BY <1>1, <1>3, GotoFacts, EndPlaces
<1>6. /\ actor' \in [Conns -> ActorStates] /\ actor'[c] = "dead"
      /\ \A d \in Conns : d # c => actor'[d] = actor[d]
  BY <1>1, <1>3, ActFacts DEF ActorStates
<1>7. aq' \in [Conns -> Seq(ActorMessages)]  BY <1>1, <1>3, DropFacts
<1>8. actor[c] = "boot"  BY <1>1, <1>3 DEF Inner, ActorOfConn, Booting
<1>9. TypeOK'
  <2>1. iq' \in Seq(IntroCommands)  BY <1>1, <1>3, <1>4, ToldAfterSend
  <2>2. IntroTypes' /\ ActorTypes' /\ ConnTypes'
    BY <1>2, <1>3, <1>5, <1>6, <1>7, <2>1 DEF IntroTypes, ActorTypes, ConnTypes
  <2>3. crashed' \in {"no", "game", "intro", "over"}
    BY <1>1, <1>3 DEF LossOfMailbox, TypeOK
  <2> QED  BY <1>2, <1>3, <2>2, <2>3, SameTypes, TypesNext DEF serverVars, clientVars
<1>10. T!HasActive(turn')  BY <1>2 DEF IInv
<1>11. CASE ~ Running'  BY <1>2, <1>9, <1>10, <1>11, ServerEnds
<1>12. CASE Running'
  <2>1. SameAsks  BY <1>1, <1>3, <1>12, LostMail
  <2>2. GoesOn
    <3>1. /\ conn[c].pc \in Playing /\ conn'[c].pc \in Over
          /\ actor[c] \in Alive /\ actor'[c] = "dead"
      BY <1>1, <1>5, <1>6, <1>8 DEF Playing, Booting, Over, Alive
    <3> QED  BY <1>5, <1>6, <3>1 DEF GoesOn
  <2>3. MoversWait' /\ ActorMail'
    <3>1. \A x \in Conns : MoveUnderWay(x)' <=> MoveUnderWay(x)
      BY <1>6, <1>8 DEF MoveUnderWay
    <3>2. \A x \in Conns : ServerAsks(x)' <=> ServerAsks(x)
      BY <1>2 DEF ServerAsks
    <3>3. \A x \in Conns : /\ conn'[x].pc = "w_move" <=> conn[x].pc = "w_move"
                           /\ conn'[x].pc = "w_chatname" <=> conn[x].pc = "w_chatname"
      BY <1>1, <1>5
    <3> QED  BY <1>2, <1>3, <2>1, <2>2, <3>1, <3>2, <3>3, MailKept
  <2>4. ActorOfConn'
    <3> SUFFICES ASSUME NEW d \in Conns
                 PROVE  /\ conn'[d].pc \in Early => actor'[d] = "none"
                        /\ conn'[d].pc \in Booting <=> actor'[d] = "boot"
                        /\ conn'[d].pc \in Loop => actor'[d] \in Busy
                        /\ conn'[d].pc = "refused" => actor'[d] = "dead"
      BY DEF ActorOfConn
    <3>1. CASE d = c  BY <1>5, <1>6, <3>1 DEF Early, Taking, Booting, Loop
    <3>2. CASE d # c  BY <1>3, <1>5, <1>6, <3>2 DEF Inner, ActorOfConn
    <3> QED  BY <3>1, <3>2
  <2>5. ServerWait' /\ LobbyMail'
    BY <1>2, <1>3 DEF Inner, ServerWait, SeatOf, LobbyMail, IntroAsks
  <2>6. TaskMail'
    <3> SUFFICES ASSUME NEW d \in Conns
                 PROVE  TaskMailOf(d)'
      BY DEF TaskMail
    <3>1. TaskMailOf(d) /\ gq' = gq  BY <1>2, <1>3 DEF Inner, TaskMail
    <3>2. CASE d = c
      BY <1>1, <1>5, <1>6, <1>8, <3>1, <3>2 DEF TaskMailOf, OneIf
    <3>3. CASE d # c  BY <1>5, <1>6, <3>1, <3>3 DEF TaskMailOf
    <3> QED  BY <3>2, <3>3
  <2>7. IntroMail'
    <3> SUFFICES ASSUME NEW d \in Conns
                 PROVE  IntroMailOf(d)'
      BY DEF IntroMail
    <3>1. IntroMailOf(d) /\ OneTold(iq', iq, m, d)
      BY <1>1, <1>3, <1>4, ToldCounts DEF Inner, IntroMail
    <3>2. iwait' = iwait /\ entering' = entering  BY <1>2
    <3>3. CASE d = c
      BY <1>1, <1>4, <1>5, <1>6, <1>8, <3>1, <3>2, <3>3 DEF IntroMailOf, OneTold, OneIf, Over
    <3>4. CASE d # c
      BY <1>4, <1>5, <1>6, <3>1, <3>2, <3>4 DEF IntroMailOf, OneTold, OneIf
    <3> QED  BY <3>3, <3>4
  <2>8. ActiveMoves'
    BY <1>2, <1>3, <1>5, <1>6 DEF Inner, ActiveMoves, ActiveConn
  <2> QED
    BY <1>2, <1>3, <1>9, <1>10, <2>2, <2>3, <2>4, <2>5, <2>6, <2>7, <2>8, OutOfTheGame
<1> QED  BY <1>11, <1>12

(* A connection leaves the game; its actor goes on. *)
LEMMA EndInGameStep ==
  ASSUME IInv, NEW c \in Conns, EndInGame(c)
  PROVE  IInv'
<1> DEFINE m == IntroCommand("DropPeer", c)
           n == Command("DropPeer", c)
<1>1. /\ Running /\ conn[c].pc = "read" /\ conn' = [conn EXCEPT ![c].pc = "ended"]
      /\ sock' = [sock EXCEPT ![c] = <<>>] /\ cin' = [cin EXCEPT ![c] = <<>>]
      /\ gq' = Append(gq, n) /\ iq' = Append(iq, m)
  BY DEF EndInGame, At, Goto, ToGame, ToIntro
<1>2. UNCHANGED <<turn, slots, gwait, lobby, here, entering, iwait, actor, name, aq,
                  client, view, presses, eager, chats, crashed>>
  BY DEF EndInGame, actorVars
<1>3. /\ TypeOK /\ Inner
      /\ ServerTypes /\ IntroTypes /\ ConnTypes /\ ClientTypes
  BY <1>1, TypeGroups DEF IInv
<1>4. /\ m \in IntroCommands /\ m.cmd = "DropPeer" /\ m.from = c
      /\ n \in Requests /\ n.cmd = "DropPeer" /\ n.from = c
  BY MessageFacts DEF Commands
<1> HIDE DEF m, n
<1>5. /\ conn' \in [Conns -> [pc : ConnPlaces, val : Conns \cup {NoConn},
                              move : Phases \cup {Nothing}]]
      /\ conn'[c].pc = "ended"
      /\ \A d \in Conns : d # c => conn'[d] = conn[d]
  BY <1>1, <1>3, GotoFacts, EndPlaces
<1>6. TypeOK'
  <2>1. gq' \in Seq(Requests) /\ iq' \in Seq(IntroCommands)
    BY <1>1, <1>3, <1>4, AskedAfterSend, ToldAfterSend
  <2>2. <<>> \in Seq(Statuses) /\ <<>> \in Seq(Phases \cup {Chat})  OBVIOUS
  <2>3. ServerTypes' /\ IntroTypes'
    BY <1>2, <1>3, <2>1 DEF ServerTypes, IntroTypes
  <2>4. ConnTypes'  BY <1>1, <1>3, <1>5, <2>2 DEF ConnTypes
  <2>5. ClientTypes'  BY <1>1, <1>2, <1>3, <2>2 DEF ClientTypes
  <2> QED  BY <1>2, <1>3, <2>3, <2>4, <2>5, SameTypes, TypesNext DEF actorVars
<1>7. GoesOn
  <2>1. conn[c].pc \in Playing /\ conn'[c].pc \in Over
    BY <1>1, <1>5 DEF Playing, Loop, Over
  <2> QED  BY <1>2, <1>5, <2>1 DEF GoesOn
<1>8. ServerWait' /\ LobbyMail'
  BY <1>1, <1>2, <1>3, <1>4, ServerWaitSent, LobbyMailSent DEF IntroCmds
<1>9. T!HasActive(turn')  BY <1>2 DEF IInv
<1>10. ActorOfConn'
  <2> SUFFICES ASSUME NEW d \in Conns
               PROVE  /\ conn'[d].pc \in Early => actor'[d] = "none"
                      /\ conn'[d].pc \in Booting <=> actor'[d] = "boot"
                      /\ conn'[d].pc \in Loop => actor'[d] \in Busy
                      /\ conn'[d].pc = "refused" => actor'[d] = "dead"
    BY DEF ActorOfConn
  <2>1. /\ conn[d].pc \in Early => actor[d] = "none"
        /\ conn[d].pc \in Booting <=> actor[d] = "boot"
        /\ conn[d].pc \in Loop => actor[d] \in Busy
        /\ conn[d].pc = "refused" => actor[d] = "dead"
        /\ actor' = actor
    BY <1>2, <1>3 DEF Inner, ActorOfConn
  <2>2. CASE d = c  BY <1>1, <1>5, <2>1, <2>2 DEF Early, Taking, Booting, Loop
  <2>3. CASE d # c
    <3>1. conn'[d] = conn[d] /\ actor'[d] = actor[d]  BY <1>5, <2>1, <2>3
    <3> QED  BY <2>1, <3>1
  <2> QED  BY <2>2, <2>3
<1>11. TaskMail'
  <2> SUFFICES ASSUME NEW d \in Conns
               PROVE  TaskMailOf(d)'
    BY DEF TaskMail
  <2>1. TaskMailOf(d) /\ OneMore(gq', gq, n, d)
    BY <1>1, <1>3, <1>4, SendCounts DEF Inner, TaskMail
  <2>2. actor' = actor  BY <1>2
  <2>3. CASE d = c
    BY <1>1, <1>4, <1>5, <2>1, <2>2, <2>3 DEF TaskMailOf, OneMore, OneIf
  <2>4. CASE d # c
    BY <1>4, <1>5, <2>1, <2>2, <2>4 DEF TaskMailOf, OneMore, OneIf
  <2> QED  BY <2>3, <2>4
<1>12. MoversWait' /\ ActorMail'
  <2>1. \A x \in Conns : /\ conn'[x].pc = "w_move" <=> conn[x].pc = "w_move"
                         /\ conn'[x].pc = "w_chatname" <=> conn[x].pc = "w_chatname"
    BY <1>1, <1>5
  <2> QED
    BY <1>2, <1>3, <1>7, <2>1, SameCounts, MailKept DEF MoveUnderWay, ServerAsks
<1>13. IntroMail'
  <2> SUFFICES ASSUME NEW d \in Conns
               PROVE  IntroMailOf(d)'
    BY DEF IntroMail
  <2>1. IntroMailOf(d) /\ OneTold(iq', iq, m, d)
    BY <1>1, <1>3, <1>4, ToldCounts DEF Inner, IntroMail
  <2>2. iwait' = iwait /\ entering' = entering /\ actor' = actor  BY <1>2
  <2>3. CASE d = c
    BY <1>1, <1>4, <1>5, <2>1, <2>2, <2>3 DEF IntroMailOf, OneTold, OneIf, Over
  <2>4. CASE d # c
    BY <1>4, <1>5, <2>1, <2>2, <2>4 DEF IntroMailOf, OneTold, OneIf
  <2> QED  BY <2>3, <2>4
<1>14. ActiveMoves'  BY <1>2, <1>3, <1>5 DEF Inner, ActiveMoves, ActiveConn
<1> QED
  BY <1>2, <1>3, <1>6, <1>7, <1>8, <1>9, <1>10, <1>11, <1>12, <1>13, <1>14, OutOfTheGame

(* A connection ends without its actor: the game server may be told or not. *)
LEMMA MoveLostStep ==
  ASSUME IInv, NEW c \in Conns, MoveLost(c)
  PROVE  IInv'
<1> DEFINE m == IntroCommand("DropPeer", c)
           n == Command("DropPeer", c)
<1>1. /\ Running /\ conn[c].pc = "refused" /\ conn' = [conn EXCEPT ![c].pc = "ended"]
      /\ sock' = [sock EXCEPT ![c] = <<>>] /\ cin' = [cin EXCEPT ![c] = <<>>]
      /\ client' = [client EXCEPT ![c] = "off"] /\ view' = [view EXCEPT ![c] = Wait]
      /\ presses' = [presses EXCEPT ![c] = 0]
      /\ gq' = Append(gq, n) \/ gq' = gq
      /\ iq' = Append(iq, m)
  BY DEF MoveLost, At, Goto, ToGame, ToIntro
<1>2. conn[c].pc = "refused" /\ conn' = [conn EXCEPT ![c].pc = "ended"]  BY <1>1
<1>3. UNCHANGED <<turn, slots, gwait, lobby, here, entering, iwait, actor, name, aq,
                  eager, chats, crashed>>
  BY DEF MoveLost, actorVars
<1>4. /\ TypeOK /\ Inner
      /\ ServerTypes /\ IntroTypes /\ ConnTypes /\ ClientTypes
  BY <1>1, TypeGroups DEF IInv
<1>5. /\ m \in IntroCommands /\ m.cmd = "DropPeer" /\ m.from = c
      /\ n \in Requests /\ n.cmd = "DropPeer" /\ n.from = c
  BY MessageFacts DEF Commands
<1> HIDE DEF m, n
<1>6. /\ conn' \in [Conns -> [pc : ConnPlaces, val : Conns \cup {NoConn},
                              move : Phases \cup {Nothing}]]
      /\ conn'[c].pc = "ended"
      /\ \A d \in Conns : d # c => conn'[d] = conn[d]
  BY <1>2, <1>4, GotoFacts, EndPlaces
<1>7. actor[c] = "dead"  BY <1>1, <1>4 DEF Inner, ActorOfConn
<1>8. TypeOK'
  <2>1. gq' \in Seq(Requests) /\ iq' \in Seq(IntroCommands)
    BY <1>1, <1>4, <1>5, AskedAfterSend, ToldAfterSend DEF ServerTypes
  <2>2. <<>> \in Seq(Statuses) /\ <<>> \in Seq(Phases \cup {Chat})  OBVIOUS
  <2>3. ServerTypes' /\ IntroTypes'
    BY <1>3, <1>4, <2>1 DEF ServerTypes, IntroTypes
  <2>4. ConnTypes'  BY <1>1, <1>4, <1>6, <2>2 DEF ConnTypes
  <2>5. ClientTypes'
    BY <1>1, <1>3, <1>4, <2>2, SessionAssumption DEF ClientTypes, Statuses
  <2> QED  BY <1>3, <1>4, <2>3, <2>4, <2>5, SameTypes, TypesNext DEF actorVars
<1>9. GoesOn  BY <1>1, <1>3, <1>6 DEF GoesOn, Playing, Over
<1>10. ServerWait' /\ LobbyMail'
  <2>1. CASE gq' = Append(gq, n)
    BY <1>3, <1>4, <1>5, <2>1, ServerWaitSent, LobbyMailSent DEF IntroCmds
  <2>2. CASE gq' = gq
    BY <1>3, <1>4, <2>2 DEF Inner, ServerWait, SeatOf, LobbyMail, IntroAsks
  <2> QED  BY <1>1, <2>1, <2>2
<1>11. T!HasActive(turn')  BY <1>3 DEF IInv
<1>12. ActorOfConn'
  BY <1>1, <1>3, <1>4, <1>6 DEF Inner, ActorOfConn, Early, Taking, Booting, Loop
<1>13. TaskMail'
  <2> SUFFICES ASSUME NEW d \in Conns
               PROVE  TaskMailOf(d)'
    BY DEF TaskMail
  <2>1. TaskMailOf(d) /\ actor' = actor  BY <1>3, <1>4 DEF Inner, TaskMail
  <2>2. CASE gq' = Append(gq, n)
    <3>1. OneMore(gq', gq, n, d)  BY <1>4, <1>5, <2>2, SendCounts
    <3>2. CASE d = c
      BY <1>1, <1>5, <1>6, <2>1, <3>1, <3>2 DEF TaskMailOf, OneMore, OneIf
    <3>3. CASE d # c
      BY <1>5, <1>6, <2>1, <3>1, <3>3 DEF TaskMailOf, OneMore, OneIf
    <3> QED  BY <3>2, <3>3
  <2>3. CASE gq' = gq
    <3>0. Asked(gq, {"DropPeer"}, d) \in Nat  BY <1>4, AskedNat DEF ServerTypes
    <3>1. CASE d = c
      BY <1>2, <1>6, <2>1, <2>3, <3>1, <3>0 DEF TaskMailOf, OneIf
    <3>2. CASE d # c  BY <1>6, <2>1, <2>3, <3>2 DEF TaskMailOf
    <3> QED  BY <3>1, <3>2
  <2> QED  BY <1>1, <2>2, <2>3
<1>14. MoversWait' /\ ActorMail'
  <2>1. \A x \in Conns : /\ conn'[x].pc = "w_move" <=> conn[x].pc = "w_move"
                         /\ conn'[x].pc = "w_chatname" <=> conn[x].pc = "w_chatname"
    BY <1>1, <1>6
  <2> QED
    BY <1>3, <1>4, <1>9, <2>1, SameCounts, MailKept DEF MoveUnderWay, ServerAsks
<1>15. IntroMail'
  <2> SUFFICES ASSUME NEW d \in Conns
               PROVE  IntroMailOf(d)'
    BY DEF IntroMail
  <2>1. IntroMailOf(d) /\ OneTold(iq', iq, m, d)
    BY <1>1, <1>4, <1>5, ToldCounts DEF Inner, IntroMail
  <2>2. iwait' = iwait /\ entering' = entering /\ actor' = actor  BY <1>3
  <2>3. CASE d = c
    BY <1>1, <1>5, <1>6, <1>7, <2>1, <2>2, <2>3 DEF IntroMailOf, OneTold, OneIf, Over
  <2>4. CASE d # c
    BY <1>5, <1>6, <2>1, <2>2, <2>4 DEF IntroMailOf, OneTold, OneIf
  <2> QED  BY <2>3, <2>4
<1>16. ActiveMoves'  BY <1>3, <1>4, <1>6 DEF Inner, ActiveMoves, ActiveConn
<1> QED
  BY <1>3, <1>4, <1>8, <1>9, <1>10, <1>11, <1>12, <1>13, <1>14, <1>15, <1>16, OutOfTheGame

-------------------------------------------------------------------------------
(* A connection moves only when its client has been started. *)
LEMMA StartedKept ==
  ASSUME Started, \A d \in Conns : client'[d] = "none" => client[d] = "none",
         \A d \in Conns : conn'[d] = conn[d] \/ conn[d].pc # "none"
  PROVE  Started'
BY DEF Started

LEMMA MovesOne ==
  ASSUME Started, UNCHANGED client, NEW c \in Conns, conn[c].pc # "none", NEW r,
         conn' = [conn EXCEPT ![c] = r], TypeOK
  PROVE  Started'
<1>1. \A d \in Conns : conn'[d] = conn[d] \/ conn[d].pc # "none"  BY DEF TypeOK
<1> QED  BY <1>1, StartedKept

LEMMA StartedByServer ==
  ASSUME IInv, Started, GameServerNext
  PROVE  Started'
<1>1. TypeOK /\ Running /\ Inner /\ UNCHANGED client
  BY DEF IInv, GameServerNext, GetActivePlayer, GetMonsters, DropMonsterOrContinue,
         SwitchPlayer, BroadcastGameState, Broadcast, IsPeerConnected, ReconnectPeer,
         GetPeerUsername, DropPeer, SearchByName, AnswerUsername, MarkOffline, SearchOn,
         AnswerSearch, Receive, Came, clientVars
<1>2. CASE GetActivePlayer
  <2>1. Head(gq).from \in Conns /\ conn[Head(gq).from].pc = "w_active"
    BY <1>1, <1>2, HeadTask DEF GetActivePlayer, Receive
  <2>2. conn' = [conn EXCEPT ![Head(gq).from].pc = "got_active",
                             ![Head(gq).from].val = ActiveConn(turn)]
    BY <1>2 DEF GetActivePlayer
  <2>3. \A d \in Conns : d # Head(gq).from => conn'[d] = conn[d]
    BY <1>1, <2>2 DEF TypeOK
  <2> QED  BY <1>1, <2>1, <2>3, StartedKept
<1>3. CASE GetMonsters
  <2>1. Head(gq).from \in Conns
    BY <1>1, <1>3, HeadTask DEF GetMonsters, Receive
  <2>2. \/ conn' = conn
        \/ /\ conn[Head(gq).from].pc = "w_boot"
           /\ conn' = [conn EXCEPT ![Head(gq).from].pc = "booted"]
    BY <1>3 DEF GetMonsters
  <2>3. \A d \in Conns : conn'[d] = conn[d] \/ conn[d].pc # "none"
    BY <1>1, <2>1, <2>2 DEF TypeOK
  <2> QED  BY <1>1, <2>3, StartedKept
<1>4. CASE Broadcast
  <2>1. Head(gq).from \in Conns /\ conn[Head(gq).from].pc = "w_chat"
    BY <1>1, <1>4, HeadTask DEF Broadcast, Receive
  <2> QED  BY <1>1, <1>4, <2>1, MovesOne DEF Broadcast
<1>5. CASE AnswerUsername
  <2>1. gq # <<>> /\ Head(gq).cmd = "GetPeerUsername"
    BY <1>1, <1>5 DEF AnswerUsername, Came, Inner, ServerWait
  <2>2. Head(gq).from \in Conns /\ conn[Head(gq).from].pc = "w_name"
    BY <1>1, <2>1, HeadTask
  <2> QED  BY <1>1, <1>5, <2>2, MovesOne DEF AnswerUsername
<1>6. CASE UNCHANGED conn  BY <1>1, <1>6, StartedKept
<1> QED
  BY <1>2, <1>3, <1>4, <1>5, <1>6
     DEF GameServerNext, DropMonsterOrContinue, SwitchPlayer, BroadcastGameState,
         IsPeerConnected, ReconnectPeer, GetPeerUsername, DropPeer, SearchByName,
         MarkOffline, SearchOn, AnswerSearch, connVars

LEMMA StartedByIntro ==
  ASSUME IInv, Started, IntroServerNext
  PROVE  Started'
<1>1. TypeOK /\ Running /\ Inner /\ UNCHANGED client
  BY DEF IInv, IntroServerNext, RejectLogin, AskIdByName, AskConnected, AcceptLogin,
         AlreadyLogged, ReceiveEnterGame, StartReconnection, HandOver, ReplaceSeat,
         EndReconnection, IntroDropPeer, IntroReceive, Free, clientVars
<1>2. CASE RejectLogin
  <2>1. Head(iq).from \in Conns /\ conn[Head(iq).from].pc = "w_login"
    BY <1>1, <1>2, HeadIntro DEF RejectLogin, IntroReceive
  <2> QED  BY <1>1, <1>2, <2>1, MovesOne DEF RejectLogin, Rejected
<1>3. CASE AcceptLogin \/ AlreadyLogged
  <2>1. iwait.op \in {"id", "connected"}  BY <1>3 DEF AcceptLogin, AlreadyLogged
  <2>2. iwait.from \in Conns /\ conn[iwait.from].pc = "w_login"
    BY <1>1, <2>1 DEF Inner, Answers, IntroMail, IntroMailOf
  <2> QED
    BY <1>1, <1>3, <2>2, MovesOne DEF AcceptLogin, AlreadyLogged, Logged, Rejected
<1>4. CASE HandOver
  <2>1. iwait.from \in Conns  BY <1>1, <1>4 DEF HandOver, Inner, Answers
  <2>2. \/ conn' = conn
        \/ /\ conn[iwait.from].pc = "entering"
           /\ conn' = [conn EXCEPT ![iwait.from].pc = "take", ![iwait.from].val = iwait.old]
    BY <1>4 DEF HandOver
  <2>3. \A d \in Conns : conn'[d] = conn[d] \/ conn[d].pc # "none"
    BY <1>1, <2>1, <2>2 DEF TypeOK
  <2> QED  BY <1>1, <2>3, StartedKept
<1>5. CASE UNCHANGED conn  BY <1>1, <1>5, StartedKept
<1> QED
  BY <1>2, <1>3, <1>4, <1>5
     DEF IntroServerNext, AskIdByName, AskConnected, ReceiveEnterGame, StartReconnection,
         ReplaceSeat, EndReconnection, IntroDropPeer, connVars

LEMMA StartedByActor ==
  ASSUME IInv, Started, NEW c \in Conns, PeerActorNext(c)
  PROVE  Started'
<1>1. TypeOK /\ Running /\ Inner /\ UNCHANGED client
  BY DEF IInv, PeerActorNext, AnswerGetUsername, AnswerTakePeer, ForwardTcp, StartMove,
         RefuseMove, MayFail, GoOnToSwitch, FinishMove, StartSync, FinishSync,
         EndWithoutHandles, Handles,
         clientVars
<1>2. CASE AnswerGetUsername(c)
  <2>1. aq[c] # <<>> /\ Head(aq[c]).msg = "GetUsername"
    BY <1>2 DEF AnswerGetUsername, Handles
  <2>2. Head(aq[c]).asker = NoConn \/ conn[Head(aq[c]).asker].pc = "w_chatname"
    BY <1>1, <2>1, HeadMail
  <2>3. Head(aq[c]).asker \in Conns \cup {NoConn}  BY <1>1, <2>1, HeadFacts
  <2>4. CASE Head(aq[c]).asker = NoConn
    BY <1>1, <1>2, <2>4, StartedKept DEF AnswerGetUsername
  <2>5. CASE Head(aq[c]).asker # NoConn
    BY <1>1, <1>2, <2>2, <2>3, <2>5, MovesOne DEF AnswerGetUsername
  <2> QED  BY <2>4, <2>5
<1>3. CASE AnswerTakePeer(c)
  <2>1. aq[c] # <<>> /\ Head(aq[c]).msg = "TakePeer"
    BY <1>3 DEF AnswerTakePeer, Handles
  <2>2. Head(aq[c]).asker \in Conns /\ conn[Head(aq[c]).asker].pc = "w_take"
    BY <1>1, <2>1, HeadMail DEF Inner, Answers
  <2> QED  BY <1>1, <1>3, <2>2, MovesOne DEF AnswerTakePeer
<1>4. CASE FinishMove(c)
  <2>1. conn[c].pc = "w_move"
    BY <1>1, <1>4 DEF FinishMove, Inner, MoversWait, MoveUnderWay
  <2> QED  BY <1>1, <1>4, <2>1, MovesOne DEF FinishMove
<1>6. CASE RefuseMove(c)
  <2>1. conn[c].pc = "w_move"  BY <1>1, <1>6, RefusedMove
  <2> QED  BY <1>1, <1>6, <2>1, MovesOne DEF RefuseMove
<1>5. CASE UNCHANGED conn  BY <1>1, <1>5, StartedKept
<1> QED
  BY <1>2, <1>3, <1>4, <1>5, <1>6
     DEF PeerActorNext, ForwardTcp, StartMove, GoOnToSwitch, StartSync, FinishSync,
         EndWithoutHandles, connVars

LEMMA StartedByOthers ==
  ASSUME IInv, Started, NEW c \in Conns, ConnectionNext(c) \/ ClientNext(c)
  PROVE  Started'
<1>1. TypeOK  BY DEF IInv
<1>2. CASE ConnectionNext(c)
  <2>1. \A d \in Conns : conn'[d] = conn[d] \/ conn[d].pc # "none"
    <3>1. UNCHANGED conn \/ conn[c].pc # "none"
      BY <1>2 DEF ConnectionNext, Login, EnterGame, EndInIntro, TakeOver, OpenMailbox,
                  AskMonsters, SpawnActor, StartFails, ForwardToClient, ReadMove, TurnOk,
                  TurnErr, EndOfTurn, ReadChat, SendChat, EndInGame, MoveLost, Reads, At
    <3>2. UNCHANGED conn \/ \E r : conn' = [conn EXCEPT ![c] = r]
      BY <1>2 DEF ConnectionNext, Login, EnterGame, EndInIntro, TakeOver, OpenMailbox,
                  AskMonsters, SpawnActor, StartFails, ForwardToClient, ReadMove, TurnOk,
                  TurnErr, EndOfTurn, ReadChat, SendChat, EndInGame, MoveLost, Goto
    <3> QED  BY <1>1, <3>1, <3>2 DEF TypeOK
  <2>2. \A d \in Conns : client'[d] = "none" => client[d] = "none"
    <3>1. UNCHANGED client \/ client' = [client EXCEPT ![c] = "off"]
      BY <1>2 DEF ConnectionNext, Login, EnterGame, EndInIntro, TakeOver, OpenMailbox,
                  AskMonsters, SpawnActor, StartFails, ForwardToClient, ReadMove, TurnOk,
                  TurnErr, EndOfTurn, ReadChat, SendChat, EndInGame, MoveLost, clientVars
    <3> QED  BY <1>1, <3>1 DEF TypeOK
  <2> QED  BY <2>1, <2>2, StartedKept
<1>3. CASE Press(c) \/ TypeChat(c) \/ Quit(c)
  <2>1. conn' = conn  BY <1>3 DEF Press, TypeChat, Quit, connVars
  <2>2. UNCHANGED client \/ client' = [client EXCEPT ![c] = "off"]
    BY <1>3 DEF Press, TypeChat, Quit
  <2>3. \A d \in Conns : client'[d] = "none" => client[d] = "none"
    BY <1>1, <2>2 DEF TypeOK
  <2> QED  BY <2>1, <2>3, StartedKept
<1>4. CASE Reconnect(c)  BY <1>1, <1>4 DEF Reconnect, Started, TypeOK
<1> QED  BY <1>2, <1>3, <1>4 DEF ClientNext
-------------------------------------------------------------------------------
(* The invariant.                                                           *)

LEMMA InitInv == Init => IInv /\ Started
<1> SUFFICES ASSUME Init PROVE IInv /\ Started
  OBVIOUS
<1>1. /\ turn = T!StartTurn
      /\ slots = [p \in Players |-> [conn |-> First1(p), online |-> TRUE]]
      /\ gq = <<>> /\ gwait = ServerIdle
      /\ lobby = StartConns /\ here = {} /\ entering = NoConn
      /\ iq = <<>> /\ iwait = IntroIdle
  BY DEF Init
<1>2. /\ actor = [c \in Conns |-> IF c \in StartConns THEN "boot" ELSE "none"]
      /\ name = [c \in Conns |-> IF c \in StartConns THEN Owner(c) ELSE NoName]
      /\ conn = [c \in Conns |->
                   [pc   |-> IF c \in StartConns THEN "boot" ELSE "none",
                    val  |-> NoConn,
                    move |-> Nothing]]
      /\ sock = [c \in Conns |-> <<>>]
      /\ client = [c \in Conns |-> IF c \in StartConns THEN "on" ELSE "none"]
      /\ view = [c \in Conns |-> Wait] /\ presses = [c \in Conns |-> 0]
      /\ eager = FALSE /\ chats = [c \in Conns |-> FALSE] /\ cin = [c \in Conns |-> <<>>]
      /\ crashed = "no"
  BY DEF Init
<1>3. aq = [c \in Conns |->
              IF c \notin StartConns THEN <<>>
              ELSE <<SendTcp(IF c = ActiveConn(turn) THEN turn.phase ELSE Wait)>>]
  BY DEF Init
<1>4. turn \in T!Turn /\ T!HasActive(turn) /\ turn.phase \in Phases
  <2>1. turn \in T!Turn /\ T!HasActive(turn)
    BY <1>1, SameTurns, TurnsAssumptions, TP!StartFacts
  <2> QED  BY <2>1 DEF T!Turn, Phases
<1>5. \A p \in Players : slots[p].conn = First1(p) /\ slots[p].online = TRUE
                         /\ First1(p) \in Conns /\ First1(p) \in StartConns
                         /\ Owner(First1(p)) = p
  BY <1>1, ConnFacts DEF StartConns
<1>6. \A c \in Conns : /\ aq[c] \in Seq(ActorMessages)
                       /\ \A i \in DOMAIN aq[c] : aq[c][i].msg = "SendTcp"
  <2> SUFFICES ASSUME NEW c \in Conns
               PROVE  /\ aq[c] \in Seq(ActorMessages)
                      /\ \A i \in DOMAIN aq[c] : aq[c][i].msg = "SendTcp"
    OBVIOUS
  <2> DEFINE s == IF c = ActiveConn(turn) THEN turn.phase ELSE Wait
             m == SendTcp(s)
  <2>1. s \in Statuses \cup {Chat}  BY <1>4 DEF Statuses
  <2>2. m \in ActorMessages /\ m.msg = "SendTcp"  BY <2>1, MessageFacts
  <2>3. aq[c] = <<>> \/ aq[c] = <<m>>  BY <1>3
  <2> HIDE DEF m
  <2>4. CASE aq[c] = <<>>  BY <2>4
  <2>5. CASE aq[c] = <<m>>
    <3>1. <<m>> \in Seq(ActorMessages) /\ DOMAIN <<m>> = {1} /\ <<m>>[1] = m
      BY <2>2
    <3> QED  BY <2>2, <2>5, <3>1
  <2> QED  BY <2>3, <2>4, <2>5
<1>7. TypeOK
  <2>1. ServerTypes
    <3>1. slots \in [Players -> [conn : Conns, online : BOOLEAN]]  BY <1>1, <1>5
    <3>2. gwait \in [op : Searches \cup {"idle", "GetPeerUsername", "DropPeer"},
                     asked : Conns \cup {NoConn}, got : Names \cup {Pending},
                     found : Conns \cup {NoConn}]
      BY <1>1 DEF ServerIdle
    <3> QED  BY <1>1, <1>4, <3>1, <3>2 DEF ServerTypes
  <2>2. IntroTypes  BY <1>1, ConnFacts DEF IntroTypes, IntroIdle
  <2>3. ActorTypes
    <3>1. actor \in [Conns -> ActorStates]  BY <1>2 DEF ActorStates
    <3>2. name \in [Conns -> Names]  BY <1>2, ConnFacts DEF Names
    <3>3. aq \in [Conns -> Seq(ActorMessages)]  BY <1>3, <1>6
    <3> QED  BY <3>1, <3>2, <3>3 DEF ActorTypes
  <2>4. ConnTypes
    <3>1. "boot" \in ConnPlaces /\ "none" \in ConnPlaces  BY DEF ConnPlaces
    <3> QED  BY <1>2, <3>1 DEF ConnTypes
  <2>5. ClientTypes
    <3>1. 0 \in 0 .. PressesPerTurn  BY SessionAssumption
    <3>2. /\ client \in [Conns -> {"none", "on", "off"}]
          /\ view \in [Conns -> Statuses]
          /\ presses \in [Conns -> 0 .. PressesPerTurn]
      BY <1>2, <3>1 DEF Statuses
    <3>3. eager \in BOOLEAN /\ chats \in [Conns -> BOOLEAN]  BY <1>2
    <3>4. cin \in [Conns -> Seq(Phases \cup {Chat})]  BY <1>2
    <3> QED  BY <3>2, <3>3, <3>4 DEF ClientTypes
  <2>6. crashed \in {"no", "game", "intro", "over"}  BY <1>2
  <2> QED
    BY <2>1, <2>2, <2>3, <2>4, <2>5, <2>6
       DEF TypeOK, ServerTypes, IntroTypes, ActorTypes, ConnTypes, ClientTypes
<1>8. SeatOwners /\ SeatKept /\ NameKept
  BY <1>2, <1>5 DEF SeatOwners, SeatKept, NameKept
<1>9. SeatNamed  BY <1>2, <1>5 DEF SeatNamed
<1>10. ActorOfConn  BY <1>2 DEF ActorOfConn, Early, Taking, Booting, Loop
<1>11. ServerWait  BY <1>1 DEF ServerWait, ServerIdle
<1>12. TaskMail
  <2>1. ASSUME NEW c \in Conns
        PROVE  TaskMailOf(c)
    <3>1. conn[c].pc \in {"boot", "none"} /\ actor[c] \in {"boot", "none"}
      BY <1>2
    <3> QED  BY <1>1, <3>1, AskedNone DEF TaskMailOf, OneIf
  <2> QED  BY <2>1 DEF TaskMail
<1>13. LobbyMail
  <2>1. iwait.op = "idle" /\ DOMAIN gq = {}  BY <1>1 DEF IntroIdle
  <2> QED  BY <1>1, <2>1, AskedNone DEF LobbyMail, IntroAsks, OneIf
<1>14. MoversWait  BY <1>2 DEF MoversWait, MoveUnderWay
<1>15. ActorMail
  <2>1. ASSUME NEW x \in Conns, NEW d \in Conns \cup {NoConn}
        PROVE  MailOf(x, d)
    <3>1. \A msg \in Counted : Addressed(aq[x], msg, d) = 0
      BY <1>6, AddressedSome DEF Counted
    <3>2. conn[x].pc \in {"boot", "none"} /\ ~ ServerAsks(x) /\ iwait.op = "idle"
      BY <1>1, <1>2 DEF ServerAsks, ServerIdle, IntroIdle
    <3> QED  BY <3>1, <3>2 DEF MailOf, OneIf, Counted
  <2> QED  BY <2>1 DEF ActorMail
<1>16. IntroMail
  <2>1. ASSUME NEW c \in Conns
        PROVE  IntroMailOf(c)
    <3>1. conn[c].pc \in {"boot", "none"} /\ c # entering /\ iwait.op = "idle"
      BY <1>1, <1>2, ConnFacts DEF IntroIdle
    <3> QED  BY <1>1, <3>1, AskedNone DEF IntroMailOf, OneIf
  <2> QED  BY <2>1 DEF IntroMail
<1>17. Answers /\ Seen /\ HandingOver
  BY <1>1 DEF Answers, Seen, Found, HandingOver, IntroIdle
<1>18. OneTaking /\ HereKept /\ ActiveMoves
  BY <1>1, <1>2 DEF OneTaking, Taking, HereKept, IntroIdle, ActiveMoves
<1>19. Started  BY <1>2 DEF Started
<1> QED
  BY <1>4, <1>7, <1>8, <1>9, <1>10, <1>11, <1>12, <1>13, <1>14, <1>15, <1>16, <1>17,
     <1>18, <1>19 DEF IInv, Inner

LEMMA StutterInv ==
  ASSUME IInv, Started, UNCHANGED vars
  PROVE  IInv' /\ Started'
<1>1. UNCHANGED <<serverVars, introVars, actorVars, connVars, clientVars, crashed>>
  BY DEF vars
<1>2. UNCHANGED <<turn, slots, gq, gwait, lobby, here, entering, iq, iwait, actor, name,
                  aq, conn, sock, client, view, presses, eager, chats, cin, crashed>>
  BY <1>1 DEF serverVars, introVars, actorVars, connVars, clientVars
<1>3. Started' /\ SeatOwners' /\ T!HasActive(turn')
  BY <1>2 DEF IInv, Started, SeatOwners
<1>4. TypeOK'  BY <1>1, SameTypes, TypesNext DEF IInv
<1>5. CASE ~ Running'  BY <1>3, <1>4, <1>5 DEF IInv
<1>6. CASE Running'
  <2>1. Inner  BY <1>2, <1>6 DEF IInv, Running
  <2>2. SameAsks  BY <1>2 DEF SameAsks, SameFor
  <2>3. StaysOn /\ GoesOn  BY <1>2 DEF StaysOn, GoesOn
  <2>4. ActorOfConn'  BY <2>1, <2>3, ActorsStay
  <2>5. ServerWait' /\ TaskMail' /\ LobbyMail' /\ ActiveMoves'
    BY <1>2, <2>1 DEF Inner, ServerWait, SeatOf, TaskMail, TaskMailOf, LobbyMail, IntroAsks,
                      ActiveMoves, ActiveConn
  <2>6. MoversWait' /\ ActorMail'
    BY <1>2, <2>1, <2>2, <2>3, MailKept DEF MoveUnderWay, ServerAsks
  <2> QED  BY <1>2, <1>3, <1>4, <2>1, <2>3, <2>4, <2>5, <2>6, InTheGame
<1> QED  BY <1>3, <1>5, <1>6
-------------------------------------------------------------------------------
(* The tasks, one lemma each: every step they take keeps the invariant.      *)

LEMMA ServerStep ==
  ASSUME IInv, GameServerNext
  PROVE  IInv'
<1>1. CASE GetActivePlayer  BY <1>1, GetActivePlayerStep
<1>2. CASE GetMonsters /\ conn[Head(gq).from].pc = "w_boot"
  BY <1>2, GetMonstersConnStep
<1>3. CASE GetMonsters /\ conn[Head(gq).from].pc # "w_boot"
  BY <1>3, GetMonstersActorStep
<1>4. CASE DropMonsterOrContinue  BY <1>4, DropMonsterOrContinueStep
<1>5. CASE SwitchPlayer  BY <1>5, SwitchPlayerStep
<1>6. CASE BroadcastGameState /\ Running'  BY <1>6, BroadcastGameStateStep
<1>7. CASE BroadcastGameState /\ ~ Running'  BY <1>7, BroadcastGameStateFails
<1>8. CASE Broadcast  BY <1>8, BroadcastStep
<1>9. CASE IsPeerConnected  BY <1>9, IsPeerConnectedStep
<1>10. CASE ReconnectPeer  BY <1>10, ReconnectPeerStep
<1>11. CASE GetPeerUsername  BY <1>11, GetPeerUsernameStep
<1>12. CASE DropPeer  BY <1>12, DropPeerStep
<1>13. CASE SearchByName  BY <1>13, SearchByNameStep
<1>14. CASE AnswerUsername  BY <1>14, AnswerUsernameStep
<1>15. CASE MarkOffline  BY <1>15, MarkOfflineStep
<1>16. CASE SearchOn  BY <1>16, SearchOnStep
<1>17. CASE AnswerSearch  BY <1>17, AnswerSearchStep
<1> QED
  BY <1>1, <1>2, <1>3, <1>4, <1>5, <1>6, <1>7, <1>8, <1>9, <1>10, <1>11, <1>12, <1>13,
     <1>14, <1>15, <1>16, <1>17 DEF GameServerNext

LEMMA IntroStep ==
  ASSUME IInv, IntroServerNext
  PROVE  IInv'
<1>1. CASE RejectLogin  BY <1>1, RejectLoginStep
<1>2. CASE AskIdByName  BY <1>2, AskIdByNameStep
<1>3. CASE AskConnected  BY <1>3, AskConnectedStep
<1>4. CASE AcceptLogin  BY <1>4, AcceptLoginStep
<1>5. CASE AlreadyLogged  BY <1>5, AlreadyLoggedStep
<1>6. CASE ReceiveEnterGame  BY <1>6, ReceiveEnterGameStep
<1>7. CASE StartReconnection  BY <1>7, StartReconnectionStep
<1>8. CASE HandOver  BY <1>8, HandOverStep
<1>9. CASE ReplaceSeat  BY <1>9, ReplaceSeatStep
<1>10. CASE EndReconnection  BY <1>10, EndReconnectionStep
<1>11. CASE IntroDropPeer  BY <1>11, IntroDropPeerStep
<1> QED
  BY <1>1, <1>2, <1>3, <1>4, <1>5, <1>6, <1>7, <1>8, <1>9, <1>10, <1>11 DEF
     IntroServerNext

LEMMA ActorStep ==
  ASSUME IInv, NEW c \in Conns, PeerActorNext(c)
  PROVE  IInv'
<1>1. CASE AnswerGetUsername(c) /\ Head(aq[c]).asker # NoConn
  BY <1>1, AnswerOwnUsernameStep
<1>2. CASE AnswerGetUsername(c) /\ Head(aq[c]).asker = NoConn
  BY <1>2, AnswerServerUsernameStep
<1>3. CASE AnswerTakePeer(c)  BY <1>3, AnswerTakePeerStep
<1>4. CASE ForwardTcp(c) /\ SocketOpen(c)  BY <1>4, ForwardTcpStep
<1>5. CASE ForwardTcp(c) /\ ~ SocketOpen(c)  BY <1>5, ForwardTcpFails
<1>6. CASE StartMove(c)  BY <1>6, StartMoveStep
<1>7. CASE GoOnToSwitch(c)  BY <1>7, GoOnToSwitchStep
<1>8. CASE FinishMove(c)  BY <1>8, FinishMoveStep
<1>9. CASE StartSync(c)  BY <1>9, StartSyncStep
<1>10. CASE FinishSync(c) /\ SocketOpen(c)  BY <1>10, FinishSyncStep
<1>11. CASE FinishSync(c) /\ ~ SocketOpen(c)  BY <1>11, FinishSyncFails
<1>12. CASE EndWithoutHandles(c)  BY <1>12, EndWithoutHandlesStep
<1>13. CASE RefuseMove(c)  BY <1>13, RefuseMoveStep
<1> QED
  BY <1>1, <1>2, <1>3, <1>4, <1>5, <1>6, <1>7, <1>8, <1>9, <1>10, <1>11, <1>12, <1>13 DEF
     PeerActorNext

LEMMA ConnectionStep ==
  ASSUME IInv, NEW c \in Conns, ConnectionNext(c)
  PROVE  IInv'
<1>1. CASE Login(c)  BY <1>1, LoginStep
<1>2. CASE EnterGame(c)  BY <1>2, EnterGameStep
<1>3. CASE EndInIntro(c)  BY <1>3, EndInIntroStep
<1>4. CASE TakeOver(c)  BY <1>4, TakeOverStep
<1>5. CASE OpenMailbox(c)  BY <1>5, OpenMailboxStep
<1>6. CASE AskMonsters(c)  BY <1>6, AskMonstersStep
<1>7. CASE SpawnActor(c)  BY <1>7, SpawnActorStep
<1>8. CASE StartFails(c)  BY <1>8, StartFailsStep
<1>9. CASE ForwardToClient(c)  BY <1>9, ForwardToClientStep
<1>10. CASE ReadMove(c)  BY <1>10, ReadMoveStep
<1>11. CASE TurnOk(c)  BY <1>11, TurnOkStep
<1>12. CASE TurnErr(c)  BY <1>12, TurnErrStep
<1>13. CASE EndOfTurn(c)  BY <1>13, EndOfTurnStep
<1>14. CASE ReadChat(c)  BY <1>14, ReadChatStep
<1>15. CASE SendChat(c)  BY <1>15, SendChatStep
<1>16. CASE EndInGame(c)  BY <1>16, EndInGameStep
<1>17. CASE MoveLost(c)  BY <1>17, MoveLostStep
<1> QED
  BY <1>1, <1>2, <1>3, <1>4, <1>5, <1>6, <1>7, <1>8, <1>9, <1>10, <1>11, <1>12, <1>13,
     <1>14, <1>15, <1>16, <1>17 DEF ConnectionNext

LEMMA ClientStep ==
  ASSUME IInv, Started, NEW c \in Conns, ClientNext(c)
  PROVE  IInv'
<1>1. CASE Press(c)  BY <1>1, PressStep
<1>2. CASE TypeChat(c)  BY <1>2, TypeChatStep
<1>3. CASE Quit(c)  BY <1>3, QuitStep
<1>4. CASE Reconnect(c)  BY <1>4, ReconnectStep
<1> QED  BY <1>1, <1>2, <1>3, <1>4 DEF ClientNext

(* And so does every step of the game. *)
LEMMA StepInv ==
  ASSUME IInv, Started, Next
  PROVE  IInv' /\ Started'
<1>1. CASE GameServerNext  BY <1>1, ServerStep, StartedByServer
<1>2. CASE IntroServerNext  BY <1>2, IntroStep, StartedByIntro
<1>3. ASSUME NEW c \in Conns, PeerActorNext(c)
      PROVE  IInv' /\ Started'
  BY <1>3, ActorStep, StartedByActor
<1>4. ASSUME NEW c \in Conns, ConnectionNext(c)
      PROVE  IInv' /\ Started'
  BY <1>4, ConnectionStep, StartedByOthers
<1>5. ASSUME NEW c \in Conns, ClientNext(c)
      PROVE  IInv' /\ Started'
  BY <1>5, ClientStep, StartedByOthers
<1> QED  BY <1>1, <1>2, <1>3, <1>4, <1>5 DEF Next

LEMMA Invariance == Spec => [](IInv /\ Started)
<1>1. IInv /\ Started /\ [Next]_vars => IInv' /\ Started'
  BY StepInv, StutterInv
<1> QED  BY <1>1, InitInv, PTL DEF Spec
-------------------------------------------------------------------------------
(* The theorems.                                                            *)

(* Every variable keeps its type in a game with any number of players, of    *)
(* reconnections and of keys pressed: no task is ever where its code has no *)
(* such place, and no mailbox holds a message its owner does not know.     *)
THEOREM SessionTypeOK == Spec => []TypeOK
<1>1. IInv => TypeOK  BY DEF IInv
<1> QED  BY <1>1, Invariance, PTL

(* No answer is lost, and none comes twice or to a task that has gone on: a   *)
(* connection or an actor waits for a server or for its own actor exactly   *)
(* when one request of its own is under way (the oneshot channels of        *)
(* server/peer.rs:33-39, whose unwraps assume it).                          *)
THEOREM SessionRequestsMatchWaits == Spec => []RequestsMatchWaits
<1>1. ASSUME IInv PROVE RequestsMatchWaits
  <2> SUFFICES ASSUME Running, NEW c \in Conns
               PROVE  /\ Sent({"GetActivePlayer"}, c) = OneIf(conn[c].pc = "w_active")
                      /\ Sent({"GetPeerUsername"}, c) = OneIf(conn[c].pc = "w_name")
                      /\ Sent({"Broadcast"}, c) = OneIf(conn[c].pc = "w_chat")
                      /\ Sent({"GetMonsters"}, c) =
                           OneIf(conn[c].pc = "w_boot") + OneIf(actor[c] = "w_monsters")
                      /\ Sent({"SwitchToNextPlayer"}, c) = OneIf(actor[c] = "w_switch")
                      /\ Sent({"DropMonster", "ContinueGameCycle"}, c) =
                           OneIf(actor[c] = "w_monster")
                      /\ ToOwnActor("GetUsername", c) = OneIf(conn[c].pc = "w_chatname")
                      /\ ToOwnActor("Move", c) + OneIf(MoveUnderWay(c)) =
                           OneIf(conn[c].pc = "w_move")
    BY DEF RequestsMatchWaits
  <2>1. TaskMailOf(c) /\ MailOf(c, c) /\ (MoveUnderWay(c) => conn[c].pc = "w_move")
    BY <1>1 DEF IInv, Inner, TaskMail, ActorMail, MoversWait
  <2>2. \A cmds : Sent(cmds, c) = Asked(gq, cmds, c)  BY DEF Sent, Asked
  <2>3. \A msg : ToOwnActor(msg, c) = Addressed(aq[c], msg, c)
    BY DEF ToOwnActor, Addressed
  <2>4. c # NoConn  BY ConnFacts
  <2>5. ToOwnActor("GetUsername", c) = OneIf(conn[c].pc = "w_chatname")
    BY <2>1, <2>3, <2>4 DEF MailOf
  <2>6. ToOwnActor("Move", c) + OneIf(MoveUnderWay(c)) = OneIf(conn[c].pc = "w_move")
    BY <2>1, <2>3 DEF MailOf, OneIf
  <2> QED  BY <2>1, <2>2, <2>5, <2>6 DEF TaskMailOf
<1> QED  BY <1>1, Invariance, PTL

(* A seat stays its player's through every disconnection and reconnection,    *)
(* and the actor in it goes by that player's name except while the intro     *)
(* server moves the name on to a new connection (server/states.rs:116-141). *)
THEOREM SessionIdentityKept == Spec => []IdentityKept
<1>1. ASSUME IInv PROVE IdentityKept
  BY <1>1 DEF IInv, Inner, SeatOwners, SeatNamed, IdentityKept
<1> QED  BY <1>1, Invariance, PTL

(* Only the game server's switch gives the turn to another. *)
LEMMA OnlySwitchTurns ==
  ASSUME Next
  PROVE  turn' = turn \/ SwitchPlayer
<1>1. CASE GameServerNext
  BY <1>1 DEF GameServerNext, GetActivePlayer, GetMonsters, DropMonsterOrContinue,
     BroadcastGameState, Broadcast, IsPeerConnected, ReconnectPeer, GetPeerUsername, DropPeer,
     SearchByName, AnswerUsername, MarkOffline, SearchOn, AnswerSearch
<1>2. CASE IntroServerNext
  BY <1>2 DEF IntroServerNext, RejectLogin, AskIdByName, AskConnected, AcceptLogin,
     AlreadyLogged, ReceiveEnterGame, StartReconnection, HandOver, ReplaceSeat,
     EndReconnection, IntroDropPeer, serverVars
<1>3. ASSUME NEW c \in Conns, PeerActorNext(c)
      PROVE  turn' = turn
  BY <1>3 DEF PeerActorNext, AnswerGetUsername, AnswerTakePeer, ForwardTcp, StartMove,
     RefuseMove, GoOnToSwitch, FinishMove, StartSync, FinishSync, EndWithoutHandles, serverVars
<1>4. ASSUME NEW c \in Conns, ConnectionNext(c)
      PROVE  turn' = turn
  BY <1>4 DEF ConnectionNext, Login, EnterGame, EndInIntro, TakeOver, OpenMailbox,
     AskMonsters, SpawnActor, StartFails, ForwardToClient, ReadMove, TurnOk, TurnErr,
     EndOfTurn, ReadChat, SendChat, EndInGame, MoveLost, serverVars
<1>5. ASSUME NEW c \in Conns, ClientNext(c)
      PROVE  turn' = turn
  BY <1>5 DEF ClientNext, Press, TypeChat, Quit, Reconnect, serverVars
<1> QED  BY <1>1, <1>2, <1>3, <1>4, <1>5 DEF Next

(* Nobody ends another player's turn.  A connection asks whether its player   *)
(* is active, and only then hands the move to its actor, which asks the game *)
(* server to switch (server/peer.rs:867-909); however long that takes and    *)
(* whoever disconnects meanwhile, the turn that ends is the mover's own.    *)
THEOREM SessionTurnIntegrity == Spec => TurnIntegrity
<1>1. ASSUME IInv, [Next]_vars, turn' # turn
      PROVE  Head(gq).from = ActiveConn(turn)
  <2>1. SwitchPlayer
    <3>1. ~ UNCHANGED vars  BY <1>1 DEF vars, serverVars
    <3> QED  BY <1>1, <3>1, OnlySwitchTurns
  <2>2. Running /\ gq # <<>> /\ Head(gq).cmd = "SwitchToNextPlayer"
    BY <2>1 DEF SwitchPlayer, Receive
  <2>3. Inner  BY <1>1, <2>2 DEF IInv
  <2> DEFINE h == Head(gq).from
  <2>4. h \in Conns /\ actor[h] = "w_switch"  BY <1>1, <2>2, <2>3, HeadTask
  <2>5. conn[h].pc = "w_move"  BY <2>3, <2>4 DEF Inner, MoversWait, MoveUnderWay
  <2> QED  BY <2>3, <2>4, <2>5 DEF Inner, ActiveMoves
<1>2. IInv /\ [Next]_vars => [turn' # turn => Head(gq).from = ActiveConn(turn)]_vars
  BY <1>1
<1> QED  BY <1>2, Invariance, PTL DEF Spec, TurnIntegrity
-------------------------------------------------------------------------------
(* A client that has one move for each Ready.  A chance to move is a Ready that *)
(* is on its way or is shown and not used, or a move on its way or being     *)
(* made.  The active player has at most one, and no one else any.          *)
ReadyMail == {m \in ActorMessages : m.msg = "SendTcp" /\ m.what \in Phases}
Shown(c)  == view[c] \in Phases /\ presses[c] = 0
Making(c) == \/ conn[c].pc \in {"w_active", "got_active"}
             \/ conn[c].pc = "w_move" /\ actor[c] # "switched"
Chances(c) == OneIf(Shown(c)) + Count(sock[c], Phases) + Count(aq[c], ReadyMail)
                + Count(cin[c], Phases) + OneIf(Making(c))
ChancesOf(c) == conn[c].pc \notin Over =>
  /\ Chances(c) <= OneIf(c = ActiveConn(turn))
  /\ Shown(c) => view[c] = turn.phase
  /\ \A i \in DOMAIN sock[c] : sock[c][i] \in Phases => sock[c][i] = turn.phase
  /\ \A i \in DOMAIN aq[c] : aq[c][i] \in ReadyMail => aq[c][i].what = turn.phase
  /\ \A i \in DOMAIN cin[c] : cin[c][i] \in Phases => cin[c][i] = turn.phase
  /\ Making(c) => conn[c].move = turn.phase
OneChance == Running => \A c \in Conns : ChancesOf(c)

LEMMA OtherWords ==
  /\ Wait \notin Phases /\ Chat \notin Phases /\ Nothing \notin Phases /\ Chat # Nothing
  /\ Wait # Chat
BY DEF Wait, Chat, Nothing, Phases, T!Phases

(* Steps in which c gets no chance. *)
NoChance(c) ==
  conn'[c].pc \notin Over =>
    /\ conn[c].pc \notin Over
    /\ turn' = turn
    /\ c = ActiveConn(turn) => c = ActiveConn(turn)'
    /\ Shown(c)' => Shown(c) /\ view'[c] = view[c]
    /\ Fewer(sock'[c], sock[c], Phases)
    /\ Fewer(aq'[c], aq[c], ReadyMail)
    /\ Fewer(cin'[c], cin[c], Phases)
    /\ Making(c)' => Making(c) /\ conn'[c].move = conn[c].move

LEMMA NoNewChance ==
  ASSUME NEW c \in Conns, ChancesOf(c), NoChance(c)
  PROVE  ChancesOf(c)'
<1> SUFFICES ASSUME conn'[c].pc \notin Over
             PROVE  /\ Chances(c)' <= OneIf(c = ActiveConn(turn))'
                    /\ Shown(c)' => view'[c] = turn'.phase
                    /\ \A i \in DOMAIN sock'[c] :
                         sock'[c][i] \in Phases => sock'[c][i] = turn'.phase
                    /\ \A i \in DOMAIN aq'[c] :
                         aq'[c][i] \in ReadyMail => aq'[c][i].what = turn'.phase
                    /\ \A i \in DOMAIN cin'[c] :
                         cin'[c][i] \in Phases => cin'[c][i] = turn'.phase
                    /\ Making(c)' => conn'[c].move = turn'.phase
  BY DEF ChancesOf, Phases, ReadyMail
<1>1. /\ Chances(c) <= OneIf(c = ActiveConn(turn))
      /\ Shown(c) => view[c] = turn.phase
      /\ \A i \in DOMAIN sock[c] : sock[c][i] \in Phases => sock[c][i] = turn.phase
      /\ \A i \in DOMAIN aq[c] : aq[c][i] \in ReadyMail => aq[c][i].what = turn.phase
      /\ \A i \in DOMAIN cin[c] : cin[c][i] \in Phases => cin[c][i] = turn.phase
      /\ Making(c) => conn[c].move = turn.phase
  BY DEF NoChance, ChancesOf
<1>2. /\ turn' = turn
      /\ c = ActiveConn(turn) => c = ActiveConn(turn)'
      /\ Shown(c)' => Shown(c) /\ view'[c] = view[c]
      /\ Fewer(sock'[c], sock[c], Phases)
      /\ Fewer(aq'[c], aq[c], ReadyMail)
      /\ Fewer(cin'[c], cin[c], Phases)
      /\ Making(c)' => Making(c) /\ conn'[c].move = conn[c].move
  BY DEF NoChance
<1>3. /\ Shown(c)' => view'[c] = turn'.phase
      /\ Making(c)' => conn'[c].move = turn'.phase
  BY <1>1, <1>2
<1>4. /\ \A i \in DOMAIN sock'[c] : sock'[c][i] \in Phases => sock'[c][i] = turn'.phase
      /\ \A i \in DOMAIN cin'[c] : cin'[c][i] \in Phases => cin'[c][i] = turn'.phase
  BY <1>1, <1>2 DEF Fewer
<1>5. \A i \in DOMAIN aq'[c] : aq'[c][i] \in ReadyMail => aq'[c][i].what = turn'.phase
  BY <1>1, <1>2 DEF Fewer
<1>6. Chances(c)' <= OneIf(c = ActiveConn(turn))'
  <2>1. /\ Chances(c) = OneIf(Shown(c)) + Count(sock[c], Phases) + Count(aq[c], ReadyMail)
                          + Count(cin[c], Phases) + OneIf(Making(c))
        /\ Chances(c)' = OneIf(Shown(c))' + Count(sock'[c], Phases) + Count(aq'[c], ReadyMail)
                          + Count(cin'[c], Phases) + OneIf(Making(c))'
    BY DEF Chances, Count, PlacesOf, Phases, ReadyMail
  <2>2. /\ Count(sock'[c], Phases) <= Count(sock[c], Phases)
        /\ Count(aq'[c], ReadyMail) <= Count(aq[c], ReadyMail)
        /\ Count(cin'[c], Phases) <= Count(cin[c], Phases)
        /\ Count(sock[c], Phases) \in Nat /\ Count(sock'[c], Phases) \in Nat
        /\ Count(aq[c], ReadyMail) \in Nat /\ Count(aq'[c], ReadyMail) \in Nat
        /\ Count(cin[c], Phases) \in Nat /\ Count(cin'[c], Phases) \in Nat
    BY <1>2 DEF Fewer
  <2>3. OneIf(Shown(c))' <= OneIf(Shown(c)) /\ OneIf(Making(c))' <= OneIf(Making(c))
        /\ OneIf(c = ActiveConn(turn)) <= OneIf(c = ActiveConn(turn))'
        /\ OneIf(Shown(c)) \in {0, 1} /\ OneIf(Shown(c))' \in {0, 1}
        /\ OneIf(Making(c)) \in {0, 1} /\ OneIf(Making(c))' \in {0, 1}
        /\ OneIf(c = ActiveConn(turn)) \in {0, 1} /\ OneIf(c = ActiveConn(turn))' \in {0, 1}
    BY <1>2 DEF OneIf
  <2> QED  BY <1>1, <2>1, <2>2, <2>3
<1> QED  BY <1>3, <1>4, <1>5, <1>6

(* No move begins, and no connection that has ended comes back. *)
NoMove(c) ==
  /\ conn'[c].pc \notin Over => conn[c].pc \notin Over
  /\ Making(c)' => Making(c) /\ conn'[c].move = conn[c].move

LEMMA QuietTask ==
  ASSUME NEW c \in Conns,
         \/ conn'[c] = conn[c]
         \/ conn[c].pc \notin Over
            /\ conn'[c].pc \notin {"w_active", "got_active", "w_move"},
         actor'[c] = actor[c] \/ actor[c] # "switched" \/ conn'[c].pc # "w_move"
  PROVE  NoMove(c)
<1> USE DEF Over
<1>1. CASE conn'[c] = conn[c]  BY <1>1 DEF NoMove, Making
<1>2. CASE conn[c].pc \notin Over /\ conn'[c].pc \notin {"w_active", "got_active", "w_move"}
  BY <1>2 DEF NoMove, Making
<1> QED  BY <1>1, <1>2

LEMMA FewerReady ==
  ASSUME TypeOK, NEW c \in Conns,
         \/ aq'[c] = aq[c] \/ aq'[c] = <<>>
         \/ aq[c] # <<>> /\ aq'[c] = Tail(aq[c])
         \/ \E m \in ActorMessages :
              (m.msg # "SendTcp" \/ m.what \notin Phases) /\ aq'[c] = Append(aq[c], m)
  PROVE  Fewer(aq'[c], aq[c], ReadyMail)
<1>1. aq[c] \in Seq(ActorMessages)  BY DEF TypeOK
<1> QED  BY <1>1, FewerFacts DEF ReadyMail

(* A message that goes to many. *)
LEMMA FewerPosted ==
  ASSUME TypeOK, NEW c \in Conns, NEW C, NEW m \in ActorMessages,
         m.msg # "SendTcp" \/ m.what \notin Phases, aq' = Post(aq, C, m)
  PROVE  Fewer(aq'[c], aq[c], ReadyMail)
<1>1. aq'[c] = aq[c] \/ aq'[c] = Append(aq[c], m)  BY DEF Post
<1> QED  BY <1>1, FewerReady

(* What a client has sent, shows and is sent stays as it is. *)
LEMMA QuietClient ==
  ASSUME TypeOK, NEW c \in Conns, UNCHANGED <<view, presses, sock, cin>>
  PROVE  /\ Shown(c)' => Shown(c) /\ view'[c] = view[c]
         /\ Fewer(sock'[c], sock[c], Phases) /\ Fewer(cin'[c], cin[c], Phases)
<1>1. sock[c] \in Seq(Statuses) /\ cin[c] \in Seq(Phases \cup {Chat})
  BY DEF TypeOK
<1>2. Shown(c)' => Shown(c) /\ view'[c] = view[c]  BY DEF Shown
<1> QED  BY <1>1, <1>2, FewerFacts

LEMMA SameActive ==
  ASSUME TypeOK, T!HasActive(turn), turn' = turn,
         \A p \in Players : slots'[p].conn = slots[p].conn
  PROVE  ActiveConn(turn)' = ActiveConn(turn)
BY ActiveFacts DEF ActiveConn

(* The game server, but for the switch of players. *)
LEMMA ChancesOfServer ==
  ASSUME IInv, Inner, GameServerNext, ~ SwitchPlayer, NEW c \in Conns
  PROVE  NoChance(c)
<1>1. TypeOK /\ T!HasActive(turn)  BY DEF IInv
<1>2. UNCHANGED <<turn, view, presses, sock, cin>>
  BY DEF GameServerNext, GetActivePlayer, GetMonsters, DropMonsterOrContinue,
     BroadcastGameState, Broadcast, IsPeerConnected, ReconnectPeer, GetPeerUsername,
     DropPeer, SearchByName, AnswerUsername, MarkOffline, SearchOn, AnswerSearch,
     connVars, clientVars
<1>3. Fewer(aq'[c], aq[c], ReadyMail)
  <2>1. /\ SendTcp(Chat) \in ActorMessages /\ SendTcp(Chat).what \notin Phases
        /\ SyncWithClient \in ActorMessages /\ SyncWithClient.msg # "SendTcp"
        /\ GetUsername(NoConn) \in ActorMessages /\ GetUsername(NoConn).msg # "SendTcp"
    BY MessageFacts, OtherWords
  <2>2. CASE BroadcastGameState \/ Broadcast \/ MarkOffline
    <3>1. CASE BroadcastGameState
      <4>1. aq' = aq \/ aq' = Post(aq, Seated \ {Head(gq).from}, SyncWithClient)
        BY <3>1 DEF BroadcastGameState
      <4> QED  BY <1>1, <2>1, <4>1, FewerReady, FewerPosted
    <3>2. CASE Broadcast
      <4>1. aq' = Post(aq, OnlineSeats \ {Head(gq).from}, SendTcp(Chat))
        BY <3>2 DEF Broadcast
      <4> QED  BY <1>1, <2>1, <4>1, FewerPosted
    <3>3. CASE MarkOffline
      <4>1. aq' = Post(aq, OnlineSeats \ {gwait.asked}, SendTcp(Chat))
        BY <3>3 DEF MarkOffline
      <4> QED  BY <1>1, <2>1, <4>1, FewerPosted
    <3> QED  BY <2>2, <3>1, <3>2, <3>3
  <2>3. CASE GetPeerUsername \/ DropPeer \/ SearchByName \/ SearchOn
    <3>1. ASSUME NEW op, NEW x, NEW found, Ask(op, x, found)
          PROVE  Fewer(aq'[c], aq[c], ReadyMail)
      <4>1. aq' = aq \/ aq' = [aq EXCEPT ![x] = Append(@, GetUsername(NoConn))]
        BY <3>1 DEF Ask
      <4>2. DOMAIN aq = Conns  BY <1>1 DEF TypeOK
      <4>3. aq'[c] = aq[c] \/ aq'[c] = Append(aq[c], GetUsername(NoConn))
        BY <4>1, <4>2, Zenon
      <4> QED  BY <1>1, <2>1, <4>3, FewerReady
    <3>2. CASE UNCHANGED aq  BY <1>1, <3>2, FewerReady
    <3> QED  BY <2>3, <3>1, <3>2 DEF GetPeerUsername, DropPeer, SearchByName, SearchOn
  <2>4. CASE UNCHANGED aq  BY <1>1, <2>4, FewerReady
  <2>5. \/ BroadcastGameState \/ Broadcast \/ MarkOffline
        \/ GetPeerUsername \/ DropPeer \/ SearchByName \/ SearchOn \/ UNCHANGED aq
    BY DEF GameServerNext, GetActivePlayer, GetMonsters, DropMonsterOrContinue,
       IsPeerConnected, ReconnectPeer, AnswerUsername, AnswerSearch, actorVars
  <2> QED  BY <2>2, <2>3, <2>4, <2>5
<1>4. NoMove(c)
  <2> DEFINE h == Head(gq).from
  <2>1. CASE GetActivePlayer
    <3>1. /\ gq # <<>> /\ Head(gq).cmd = "GetActivePlayer" /\ UNCHANGED actor
          /\ conn' = [conn EXCEPT ![h].pc = "got_active", ![h].val = ActiveConn(turn)]
      BY <2>1 DEF GetActivePlayer, Receive, actorVars
    <3>2. h \in Conns /\ conn[h].pc = "w_active"  BY <3>1, HeadTask
    <3>3. conn \in [Conns -> [pc : ConnPlaces, val : Conns \cup {NoConn},
                              move : Phases \cup {Nothing}]]
      BY <1>1 DEF TypeOK
    <3>4. c # h => conn'[c] = conn[c]  BY <3>1, <3>3
    <3>5. conn'[h].move = conn[h].move  BY <3>1, <3>2, <3>3
    <3> QED  BY <3>1, <3>2, <3>4, <3>5 DEF NoMove, Making, Over
  <2>2. CASE GetMonsters
    <3>1. /\ gq # <<>> /\ Head(gq).cmd = "GetMonsters"
          /\ IF conn[h].pc = "w_boot"
             THEN conn' = [conn EXCEPT ![h].pc = "booted"] /\ UNCHANGED actor
             ELSE actor' = [actor EXCEPT ![h] = "got_monsters"] /\ UNCHANGED conn
      BY <2>2 DEF GetMonsters, Receive
    <3>2. h \in Conns /\ (conn[h].pc = "w_boot" \/ actor[h] = "w_monsters")
      BY <3>1, HeadTask
    <3>3. actor'[c] = actor[c] \/ actor[c] # "switched"
      BY <1>1, <3>1, <3>2 DEF TypeOK
    <3>4. \/ conn'[c] = conn[c]
          \/ conn[c].pc = "w_boot" /\ conn'[c].pc = "booted"
      BY <1>1, <3>1, <3>2 DEF TypeOK
    <3> QED  BY <3>3, <3>4, QuietTask DEF Over
  <2>3. CASE DropMonsterOrContinue
    <3>1. /\ gq # <<>> /\ Head(gq).cmd \in {"DropMonster", "ContinueGameCycle"}
          /\ actor' = [actor EXCEPT ![h] = "may_switch"] /\ UNCHANGED conn
      BY <2>3 DEF DropMonsterOrContinue, Receive, connVars
    <3>2. h \in Conns /\ actor[h] = "w_monster"  BY <3>1, HeadTask
    <3>3. actor'[c] = actor[c] \/ actor[c] # "switched"
      BY <1>1, <3>1, <3>2 DEF TypeOK
    <3> QED  BY <3>1, <3>3, QuietTask
  <2>4. CASE Broadcast \/ AnswerUsername
    <3>1. /\ gq # <<>> /\ UNCHANGED actor
          /\ \/ Head(gq).cmd = "Broadcast" /\ conn' = [conn EXCEPT ![h].pc = "read"]
             \/ Head(gq).cmd = "GetPeerUsername" /\ conn' = [conn EXCEPT ![h].pc = "answer_turn"]
      <4>1. CASE Broadcast  BY <4>1 DEF Broadcast, Receive
      <4>2. CASE AnswerUsername
        <5>1. gwait.op = "GetPeerUsername" /\ gwait.op # "idle" /\ UNCHANGED actor
              /\ conn' = [conn EXCEPT ![h].pc = "answer_turn"]
          BY <4>2 DEF AnswerUsername, Came, actorVars
        <5> QED  BY <5>1 DEF Inner, ServerWait
      <4> QED  BY <2>4, <4>1, <4>2
    <3>2. h \in Conns /\ conn[h].pc \in {"w_chat", "w_name"}  BY <3>1, HeadTask
    <3>3. \/ conn'[c] = conn[c]
          \/ conn[c].pc \in {"w_chat", "w_name"} /\ conn'[c].pc \in {"read", "answer_turn"}
      BY <1>1, <3>1, <3>2 DEF TypeOK
    <3> QED  BY <3>1, <3>3, QuietTask DEF Over
  <2>5. CASE UNCHANGED <<conn, actor>>  BY <2>5, QuietTask
  <2>6. \/ GetActivePlayer \/ GetMonsters \/ DropMonsterOrContinue
        \/ Broadcast \/ AnswerUsername \/ UNCHANGED <<conn, actor>>
    BY DEF GameServerNext, BroadcastGameState, IsPeerConnected, ReconnectPeer,
       GetPeerUsername, DropPeer, SearchByName, MarkOffline, SearchOn, AnswerSearch,
       actorVars, connVars
  <2> QED  BY <2>1, <2>2, <2>3, <2>4, <2>5, <2>6
<1>5. conn[c].pc \notin Over /\ c = ActiveConn(turn) => c = ActiveConn(turn)'
  <2>1. CASE ReconnectPeer
    <3>1. /\ gq # <<>> /\ Head(gq).cmd = "ReconnectPeer"
          /\ slots' = [p \in Players |-> IF slots[p].conn = Head(gq).arg
                                         THEN [conn |-> Head(gq).from, online |-> TRUE]
                                         ELSE slots[p]]
      BY <2>1 DEF ReconnectPeer, Receive
    <3>2. /\ iwait.op = "reconnect" /\ iwait.got = Nothing
          /\ iwait.from = Head(gq).from /\ Head(gq).arg = iwait.old
      BY <3>1, HeadLobby DEF IntroAsks
    <3>3. Head(gq).from \in Conns /\ iwait.from \in here /\ iwait.old = SeatOf(iwait.from).conn
      BY <3>1, <3>2, HeadTask DEF Inner, HandingOver, Seen, Found
    <3>4. ~ SeatOf(iwait.from).online
      BY <3>2, <3>3 DEF Inner, HereKept, Nothing
    <3>5. conn[iwait.old].pc = "ended"
      BY <3>2, <3>3, <3>4, ConnFacts DEF Inner, SeatKept, SeatOf
    <3>6. T!Active(turn) \in Players /\ turn' = turn  BY <1>1, <1>2, ActiveFacts
    <3> QED  BY <3>1, <3>2, <3>5, <3>6 DEF ActiveConn, Over
  <2>2. CASE ~ ReconnectPeer
    <3>1. \A p \in Players : slots'[p].conn = slots[p].conn
      <4>1. CASE MarkOffline
        <5>1. slots' = [p \in Players |-> IF slots[p].conn = gwait.asked
                                          THEN [slots[p] EXCEPT !.online = FALSE]
                                          ELSE slots[p]]
          BY <4>1 DEF MarkOffline
        <5>2. \A p \in Players : slots[p] \in [conn : Conns, online : BOOLEAN]
          BY <1>1 DEF TypeOK
        <5>3. \A p \in Players : [slots[p] EXCEPT !.online = FALSE].conn = slots[p].conn
          BY <5>2
        <5> QED  BY <5>1, <5>3
      <4>2. CASE UNCHANGED slots  BY <4>2
      <4>3. MarkOffline \/ UNCHANGED slots
        BY <2>2 DEF GameServerNext, GetActivePlayer, GetMonsters, DropMonsterOrContinue,
           BroadcastGameState, Broadcast, IsPeerConnected, GetPeerUsername, DropPeer,
           SearchByName, AnswerUsername, SearchOn, AnswerSearch
      <4> QED  BY <4>1, <4>2, <4>3
    <3> QED  BY <1>1, <1>2, <3>1, SameActive
  <2> QED  BY <2>1, <2>2
<1> QED  BY <1>1, <1>2, <1>3, <1>4, <1>5, QuietClient DEF NoChance, NoMove

LEMMA NothingNew ==
  ASSUME TypeOK, T!HasActive(turn), NEW c \in Conns,
         UNCHANGED <<turn, slots, view, presses, sock, cin>>,
         Fewer(aq'[c], aq[c], ReadyMail), NoMove(c)
  PROVE  NoChance(c)
BY QuietClient, SameActive DEF NoChance, NoMove

(* One connection goes to another place, and no actor has answered. *)
LEMMA OneMoves ==
  ASSUME TypeOK, NEW c \in Conns, NEW x \in Conns, NEW pc,
         conn' = [conn EXCEPT ![x].pc = pc],
         conn[x].pc \notin Over, pc \notin {"w_active", "got_active", "w_move"},
         actor'[c] = actor[c] \/ actor[c] # "switched" \/ conn'[c].pc # "w_move"
  PROVE  NoMove(c)
<1>1. conn \in [Conns -> [pc : ConnPlaces, val : Conns \cup {NoConn},
                          move : Phases \cup {Nothing}]]
  BY DEF TypeOK
<1>2. conn'[c] = conn[c] \/ (conn[c].pc \notin Over /\ conn'[c].pc = pc)
  BY <1>1
<1> QED  BY <1>2, QuietTask

(* The intro server. *)
LEMMA ChancesOfIntro ==
  ASSUME IInv, Inner, IntroServerNext, NEW c \in Conns
  PROVE  NoChance(c)
<1>1. TypeOK /\ T!HasActive(turn)  BY DEF IInv
<1>2. UNCHANGED <<turn, slots, actor, aq, view, presses, sock, cin>>
  BY DEF IntroServerNext, RejectLogin, AskIdByName, AskConnected, AcceptLogin,
     AlreadyLogged, ReceiveEnterGame, StartReconnection, HandOver, ReplaceSeat,
     EndReconnection, IntroDropPeer, serverVars, actorVars, connVars, clientVars
<1>3. NoMove(c)
  <2>1. CASE RejectLogin
    <3> DEFINE h == Head(iq).from
    <3>1. /\ iq # <<>> /\ Head(iq).cmd = "LoginPlayer"
          /\ conn' = [conn EXCEPT ![h].pc = "rejected"]
      BY <2>1 DEF RejectLogin, IntroReceive, Rejected
    <3>2. h \in Conns /\ conn[h].pc = "w_login"  BY <3>1, HeadIntro
    <3> HIDE DEF h
    <3>3. \/ conn'[c] = conn[c]
          \/ conn[c].pc = "w_login" /\ conn'[c].pc = "rejected"
      BY <1>1, <3>1, <3>2 DEF TypeOK
    <3> QED  BY <1>2, <3>3, QuietTask DEF Over
  <2>2. CASE AcceptLogin \/ AlreadyLogged
    <3>1. /\ iwait.op \in {"id", "connected"}
          /\ \/ conn' = [conn EXCEPT ![iwait.from].pc = "logged"]
             \/ conn' = [conn EXCEPT ![iwait.from].pc = "rejected"]
      BY <2>2 DEF AcceptLogin, AlreadyLogged, Logged, Rejected
    <3>2. iwait.from \in Conns /\ conn[iwait.from].pc = "w_login"
      BY <3>1 DEF Inner, Answers, IntroMail, IntroMailOf
    <3> QED  BY <1>1, <1>2, <3>1, <3>2, OneMoves DEF Over
  <2>3. CASE HandOver
    <3>1. \/ conn' = conn
          \/ /\ conn[iwait.from].pc = "entering"
             /\ conn' = [conn EXCEPT ![iwait.from].pc = "take",
                                     ![iwait.from].val = iwait.old]
      BY <2>3 DEF HandOver
    <3>2. conn \in [Conns -> [pc : ConnPlaces, val : Conns \cup {NoConn},
                              move : Phases \cup {Nothing}]]
      BY <1>1 DEF TypeOK
    <3>3. \/ conn'[c] = conn[c]
          \/ conn[c].pc = "entering" /\ conn'[c].pc = "take"
      BY <3>1, <3>2
    <3> QED  BY <1>2, <3>3, QuietTask DEF Over
  <2>4. CASE UNCHANGED conn  BY <1>2, <2>4, QuietTask
  <2>5. RejectLogin \/ AcceptLogin \/ AlreadyLogged \/ HandOver \/ UNCHANGED conn
    BY DEF IntroServerNext, AskIdByName, AskConnected, ReceiveEnterGame, StartReconnection,
       ReplaceSeat, EndReconnection, IntroDropPeer, connVars
  <2> QED  BY <2>1, <2>2, <2>3, <2>4, <2>5
<1> QED  BY <1>1, <1>2, <1>3, FewerReady, NothingNew

(* A peer actor, but for a message that it gives to its connection. *)
LEMMA ChancesOfActor ==
  ASSUME IInv, Inner, NEW x \in Conns, PeerActorNext(x),
         ~ (ForwardTcp(x) /\ SocketOpen(x)), NEW c \in Conns
  PROVE  NoChance(c)
<1>1. TypeOK /\ T!HasActive(turn)  BY DEF IInv
<1>2. UNCHANGED <<turn, slots, view, presses, cin, sock>>
  BY DEF PeerActorNext, AnswerGetUsername, AnswerTakePeer, ForwardTcp, StartMove, RefuseMove,
     GoOnToSwitch, FinishMove, StartSync, FinishSync, EndWithoutHandles,
     serverVars, connVars, clientVars
<1>3. Fewer(aq'[c], aq[c], ReadyMail)
  <2>1. \/ aq' = aq \/ aq' = [aq EXCEPT ![x] = <<>>]
        \/ aq[x] # <<>> /\ aq' = [aq EXCEPT ![x] = Tail(@)]
    BY DEF PeerActorNext, AnswerGetUsername, AnswerTakePeer, ForwardTcp, StartMove, RefuseMove,
       GoOnToSwitch, FinishMove, StartSync, FinishSync, EndWithoutHandles,
       Handles, PopTo, FailAndDie, actorVars
  <2>2. aq \in [Conns -> Seq(ActorMessages)]  BY <1>1 DEF TypeOK
  <2> QED  BY <1>1, <2>1, <2>2, FewerReady
<1>4. actor'[c] = actor[c] \/ actor[c] # "switched" \/ (c = x /\ FinishMove(x))
  <2>1. \/ actor' = actor \/ FinishMove(x)
        \/ actor[x] # "switched" /\ \E st : actor' = [actor EXCEPT ![x] = st]
    BY DEF PeerActorNext, AnswerGetUsername, AnswerTakePeer, ForwardTcp, StartMove, RefuseMove,
       GoOnToSwitch, FinishMove, StartSync, FinishSync, EndWithoutHandles,
       Handles, PopTo, FailAndDie, MayFail
  <2>2. FinishMove(x) => actor' = [actor EXCEPT ![x] = "idle"]
    BY DEF FinishMove
  <2>3. actor \in [Conns -> ActorStates]  BY <1>1 DEF TypeOK
  <2> QED  BY <2>1, <2>2, <2>3
<1>5. NoMove(c)
  <2>1. CASE FinishMove(x)
    <3>1. conn' = [conn EXCEPT ![x].pc = "answer_turn"] /\ actor[x] = "switched"
      BY <2>1 DEF FinishMove
    <3>2. conn[x].pc = "w_move"  BY <3>1 DEF Inner, MoversWait, MoveUnderWay
    <3>3. conn'[x].pc = "answer_turn"  BY <1>1, <3>1 DEF TypeOK
    <3> QED  BY <1>1, <1>4, <3>1, <3>2, <3>3, OneMoves DEF Over
  <2>2. CASE AnswerGetUsername(x) \/ AnswerTakePeer(x)
    <3> DEFINE d == Head(aq[x]).asker
    <3>1. /\ aq[x] # <<>> /\ ~ FinishMove(x)
          /\ \/ conn' = conn
             \/ /\ Head(aq[x]).msg = "GetUsername" /\ d # NoConn
                /\ conn' = [conn EXCEPT ![d].pc = "chat"]
             \/ /\ Head(aq[x]).msg = "TakePeer"
                /\ conn' = [conn EXCEPT ![d].pc = "taken"]
      BY <2>2 DEF AnswerGetUsername, AnswerTakePeer, Handles, FinishMove
    <3>2. CASE conn' = conn  BY <1>4, <3>1, <3>2, QuietTask
    <3>3. CASE conn' # conn
      <4>1. /\ d \in Conns /\ conn[d].pc \in {"w_chatname", "w_take"}
            /\ \/ conn' = [conn EXCEPT ![d].pc = "chat"]
               \/ conn' = [conn EXCEPT ![d].pc = "taken"]
        BY <3>1, <3>3, HeadMail DEF Inner, Answers
      <4> HIDE DEF d
      <4>2. conn[d].pc \notin Over /\ (actor'[c] = actor[c] \/ actor[c] # "switched")
        BY <1>4, <3>1, <4>1 DEF Over
      <4> QED  BY <1>1, <4>1, <4>2, OneMoves
    <3> QED  BY <3>2, <3>3
  <2>3. CASE RefuseMove(x)
    <3>1. conn' = [conn EXCEPT ![x].pc = "refused"] /\ ~ FinishMove(x)
      <4>1. actor[x] # "switched"  BY <2>3, RefusedMove
      <4> QED  BY <2>3, <4>1 DEF RefuseMove, FinishMove
    <3>2. conn[x].pc = "w_move"  BY <2>3, RefusedMove
    <3> QED
      <4>1. conn' = [conn EXCEPT ![x].pc = "refused"]  BY <3>1
      <4>2. conn[x].pc \notin Over /\ "refused" \notin {"w_active", "got_active", "w_move"}
        BY <3>2 DEF Over
      <4>3. actor'[c] = actor[c] \/ actor[c] # "switched"  BY <1>4, <3>1
      <4> QED  BY <1>1, <4>1, <4>2, <4>3, OneMoves
  <2>4. CASE UNCHANGED conn /\ ~ FinishMove(x)  BY <1>4, <2>4, QuietTask
  <2>5. \/ FinishMove(x) \/ AnswerGetUsername(x) \/ AnswerTakePeer(x) \/ RefuseMove(x)
        \/ UNCHANGED conn
    BY DEF PeerActorNext, ForwardTcp, StartMove, GoOnToSwitch, StartSync, FinishSync,
       EndWithoutHandles, connVars
  <2> QED  BY <2>1, <2>2, <2>3, <2>4, <2>5
<1> QED  BY <1>1, <1>2, <1>3, <1>5, NothingNew

(* A connection, but for a message of its actor, a move of its client and a lost one. *)
LEMMA ChancesOfConnection ==
  ASSUME IInv, Inner, NEW x \in Conns, ConnectionNext(x),
         ~ ForwardToClient(x), ~ ReadMove(x), ~ MoveLost(x), NEW c \in Conns
  PROVE  NoChance(c)
<1>1. TypeOK /\ T!HasActive(turn)  BY DEF IInv
<1>2. /\ conn \in [Conns -> [pc : ConnPlaces, val : Conns \cup {NoConn},
                             move : Phases \cup {Nothing}]]
      /\ aq \in [Conns -> Seq(ActorMessages)] /\ actor \in [Conns -> ActorStates]
      /\ sock \in [Conns -> Seq(Statuses)] /\ cin \in [Conns -> Seq(Phases \cup {Chat})]
  BY <1>1 DEF TypeOK
<1>3. UNCHANGED <<turn, slots, view, presses>>
  BY DEF ConnectionNext, Login, EnterGame, EndInIntro, TakeOver, OpenMailbox,
     AskMonsters, SpawnActor, StartFails, TurnOk, TurnErr, EndOfTurn, ReadChat, SendChat,
     EndInGame, serverVars, clientVars
<1>4. Fewer(aq'[c], aq[c], ReadyMail)
  <2>1. CASE TakeOver(x)
    <3>1. aq' = aq \/ aq' = [aq EXCEPT ![conn[x].val] = Append(@, TakePeer(x))]
      BY <2>1 DEF TakeOver
    <3>2. DOMAIN aq = Conns  BY <1>2
    <3>3. aq'[c] = aq[c] \/ aq'[c] = Append(aq[c], TakePeer(x))
      BY <3>1, <3>2, Zenon
    <3> QED  BY <1>1, <3>3, MessageFacts, FewerReady
  <2>2. CASE TurnOk(x)
    <3>1. aq' = [aq EXCEPT ![x] = Append(@, Move(conn[x].move, x))]
      BY <2>2 DEF TurnOk
    <3>2. conn[x].move \in Phases \cup {Nothing}  BY <1>2
    <3>3. aq'[c] = aq[c] \/ aq'[c] = Append(aq[c], Move(conn[x].move, x))
      BY <1>2, <3>1
    <3> QED
      <4>1. \/ aq'[c] = aq[c]
            \/ /\ Move(conn[x].move, x) \in ActorMessages
               /\ Move(conn[x].move, x).msg = "Move"
               /\ aq'[c] = Append(aq[c], Move(conn[x].move, x))
        BY <3>2, <3>3, MessageFacts
      <4> QED  BY <1>1, <4>1, FewerReady
  <2>3. CASE EndOfTurn(x)
    <3>1. aq' = [aq EXCEPT ![x] = Append(@, SyncWithClient)]
      BY <2>3 DEF EndOfTurn
    <3>2. aq'[c] = aq[c] \/ aq'[c] = Append(aq[c], SyncWithClient)
      BY <1>2, <3>1
    <3> QED  BY <1>1, <3>2, MessageFacts, FewerReady
  <2>4. CASE ReadChat(x)
    <3>1. aq' = [aq EXCEPT ![x] = Append(@, GetUsername(x))]
      BY <2>4 DEF ReadChat
    <3>2. aq'[c] = aq[c] \/ aq'[c] = Append(aq[c], GetUsername(x))
      BY <1>2, <3>1
    <3> QED  BY <1>1, <3>2, MessageFacts, FewerReady
  <2>5. CASE aq' = aq \/ aq' = [aq EXCEPT ![x] = <<>>]
    BY <1>1, <1>2, <2>5, FewerReady
  <2>6. \/ TakeOver(x) \/ TurnOk(x) \/ EndOfTurn(x) \/ ReadChat(x)
        \/ aq' = aq \/ aq' = [aq EXCEPT ![x] = <<>>]
    BY DEF ConnectionNext, Login, EnterGame, EndInIntro, OpenMailbox,
       AskMonsters, SpawnActor, StartFails, TurnErr, SendChat, EndInGame, actorVars
  <2> QED  BY <2>1, <2>2, <2>3, <2>4, <2>5, <2>6
<1>5. actor'[c] = actor[c] \/ actor[c] # "switched"
  <2>1. \/ actor' = actor
        \/ conn[x].pc \in {"taken", "booted"} /\ \E st : actor' = [actor EXCEPT ![x] = st]
    BY DEF ConnectionNext, Login, EnterGame, EndInIntro, TakeOver, OpenMailbox,
       AskMonsters, SpawnActor, StartFails, TurnOk, TurnErr, EndOfTurn, ReadChat, SendChat,
       EndInGame, At, actorVars
  <2>2. conn[x].pc \in {"taken", "booted"} => actor[x] # "switched"
    BY DEF Inner, ActorOfConn, Early, Taking, Booting
  <2> QED  BY <1>2, <2>1, <2>2
<1>6. NoMove(c)
  <2>1. CASE TurnOk(x)
    <3>1. conn' = [conn EXCEPT ![x].pc = "w_move"] /\ conn[x].pc = "got_active"
      BY <2>1 DEF TurnOk, Goto, At
    <3>2. c # x => conn'[c] = conn[c]  BY <1>2, <3>1
    <3>3. conn'[x].move = conn[x].move /\ conn[x].pc \notin Over
      BY <1>2, <3>1 DEF Over
    <3>4. CASE c = x  BY <3>1, <3>3, <3>4 DEF NoMove, Making
    <3>5. CASE c # x  BY <1>5, <3>2, <3>3, <3>5, QuietTask
    <3> QED  BY <3>4, <3>5
  <2>2. CASE ~ TurnOk(x)
    <3>1. \/ conn' = conn
          \/ /\ conn[x].pc \notin Over
             /\ \E pc : /\ pc \notin {"w_active", "got_active", "w_move"}
                        /\ conn' = [conn EXCEPT ![x].pc = pc]
      BY <2>2 DEF ConnectionNext, Login, EnterGame, EndInIntro, TakeOver, OpenMailbox,
         AskMonsters, SpawnActor, StartFails, TurnErr, EndOfTurn, ReadChat, SendChat,
         EndInGame, Reads, At, Goto, Over
    <3>2. \/ conn'[c] = conn[c]
          \/ /\ conn[c].pc \notin Over
             /\ conn'[c].pc \notin {"w_active", "got_active", "w_move"}
      BY <1>2, <3>1
    <3> QED  BY <1>5, <3>2, QuietTask
  <2> QED  BY <2>1, <2>2
<1>7. CASE UNCHANGED <<sock, cin>>  BY <1>1, <1>3, <1>4, <1>6, <1>7, NothingNew
<1>8. CASE ReadChat(x)
  <2>1. sock' = sock /\ cin[x] # <<>> /\ cin' = [cin EXCEPT ![x] = Tail(@)]
    BY <1>8 DEF ReadChat, Reads
  <2>2. cin'[c] = cin[c] \/ (cin[c] # <<>> /\ cin'[c] = Tail(cin[c]))
    BY <1>2, <2>1
  <2>3. cin[c] \in Seq(Phases \cup {Chat}) /\ sock[c] \in Seq(Statuses)  BY <1>2
  <2>4. Fewer(cin'[c], cin[c], Phases) /\ Fewer(sock'[c], sock[c], Phases)
    BY <2>1, <2>2, <2>3, FewerFacts
  <2>5. (Shown(c)' => Shown(c) /\ view'[c] = view[c])
        /\ ActiveConn(turn)' = ActiveConn(turn)
    BY <1>1, <1>3, SameActive DEF Shown
  <2> QED  BY <1>3, <1>4, <1>6, <2>4, <2>5 DEF NoChance, NoMove
<1>9. CASE EndInGame(x)
  <2>1. /\ sock' = [sock EXCEPT ![x] = <<>>] /\ cin' = [cin EXCEPT ![x] = <<>>]
        /\ conn' = [conn EXCEPT ![x].pc = "ended"]
    BY <1>9 DEF EndInGame, Goto
  <2>2. CASE c = x
    <3>1. conn'[c].pc \in Over  BY <1>2, <2>1, <2>2 DEF Over
    <3> QED  BY <3>1 DEF NoChance
  <2>3. CASE c # x
    <3>1. cin'[c] = cin[c] /\ sock'[c] = sock[c]  BY <1>2, <2>1, <2>3
    <3>2. cin[c] \in Seq(Phases \cup {Chat}) /\ sock[c] \in Seq(Statuses)
      BY <1>2
    <3>3. Fewer(cin'[c], cin[c], Phases) /\ Fewer(sock'[c], sock[c], Phases)
      BY <3>1, <3>2, FewerFacts
    <3>4. (Shown(c)' => Shown(c) /\ view'[c] = view[c])
          /\ ActiveConn(turn)' = ActiveConn(turn)
      BY <1>1, <1>3, SameActive DEF Shown
    <3> QED  BY <1>3, <1>4, <1>6, <3>3, <3>4 DEF NoChance, NoMove
  <2> QED  BY <2>2, <2>3
<1> QED
  <2>1. ReadChat(x) \/ EndInGame(x) \/ UNCHANGED <<sock, cin>>
    BY DEF ConnectionNext, Login, EnterGame, EndInIntro, TakeOver, OpenMailbox,
       AskMonsters, SpawnActor, StartFails, TurnOk, TurnErr, EndOfTurn, SendChat,
       clientVars
  <2> QED  BY <1>7, <1>8, <1>9, <2>1

(* A connection that has lost its move is over. *)
LEMMA ChancesMoveLost ==
  ASSUME IInv, NEW x \in Conns, MoveLost(x), NEW c \in Conns
  PROVE  NoChance(c)
<1>1. /\ TypeOK /\ T!HasActive(turn)
      /\ conn \in [Conns -> [pc : ConnPlaces, val : Conns \cup {NoConn},
                             move : Phases \cup {Nothing}]]
      /\ aq[c] \in Seq(ActorMessages)
      /\ sock \in [Conns -> Seq(Statuses)] /\ cin \in [Conns -> Seq(Phases \cup {Chat})]
      /\ view \in [Conns -> Statuses] /\ presses \in [Conns -> 0 .. PressesPerTurn]
  BY DEF IInv, TypeOK
<1>2. /\ conn' = [conn EXCEPT ![x].pc = "ended"]
      /\ sock' = [sock EXCEPT ![x] = <<>>] /\ cin' = [cin EXCEPT ![x] = <<>>]
      /\ view' = [view EXCEPT ![x] = Wait] /\ presses' = [presses EXCEPT ![x] = 0]
      /\ UNCHANGED <<turn, slots, aq, actor>>
  BY DEF MoveLost, Goto, actorVars
<1>3. CASE c = x
  <2>1. conn'[c].pc \in Over  BY <1>1, <1>2, <1>3 DEF Over
  <2> QED  BY <2>1 DEF NoChance
<1>4. CASE c # x
  <2>1. /\ sock'[c] = sock[c] /\ cin'[c] = cin[c] /\ aq'[c] = aq[c]
        /\ view'[c] = view[c] /\ presses'[c] = presses[c]
        /\ conn'[c] = conn[c] /\ actor'[c] = actor[c]
    BY <1>1, <1>2, <1>4
  <2>2. /\ Fewer(cin'[c], cin[c], Phases) /\ Fewer(sock'[c], sock[c], Phases)
        /\ Fewer(aq'[c], aq[c], ReadyMail)
    <3>1. sock[c] \in Seq(Statuses) /\ cin[c] \in Seq(Phases \cup {Chat})
      BY <1>1
    <3> QED  BY <1>1, <2>1, <3>1, FewerFacts
  <2>3. (Shown(c)' => Shown(c) /\ view'[c] = view[c]) /\ (Making(c)' => Making(c))
    BY <2>1 DEF Shown, Making
  <2>4. ActiveConn(turn)' = ActiveConn(turn)  BY <1>1, <1>2, SameActive
  <2> QED  BY <1>2, <2>1, <2>2, <2>3, <2>4 DEF NoChance
<1> QED  BY <1>3, <1>4

(* A client that presses no key. *)
LEMMA ChancesOfClient ==
  ASSUME IInv, Started, NEW x \in Conns, ClientNext(x), ~ Press(x), NEW c \in Conns
  PROVE  NoChance(c)
<1>1. TypeOK /\ T!HasActive(turn)  BY DEF IInv
<1>2. /\ conn \in [Conns -> [pc : ConnPlaces, val : Conns \cup {NoConn},
                             move : Phases \cup {Nothing}]]
      /\ cin \in [Conns -> Seq(Phases \cup {Chat})] /\ sock \in [Conns -> Seq(Statuses)]
      /\ view \in [Conns -> Statuses]
  BY <1>1 DEF TypeOK
<1>3. UNCHANGED <<turn, slots, actor, aq, sock>>
  BY DEF ClientNext, TypeChat, Quit, Reconnect, serverVars, actorVars, connVars
<1>4. NoMove(c)
  <2>1. CASE Reconnect(x)
    <3>1. conn' = [conn EXCEPT ![x].pc = "login"] /\ client[x] = "none"
      BY <2>1 DEF Reconnect
    <3>2. conn[x].pc = "none"  BY <3>1 DEF Started
    <3>3. \/ conn'[c] = conn[c]
          \/ conn[c].pc = "none" /\ conn'[c].pc = "login"
      BY <1>2, <3>1, <3>2
    <3> QED  BY <1>3, <3>3, QuietTask DEF Over
  <2>2. CASE UNCHANGED conn  BY <1>3, <2>2, QuietTask
  <2>3. Reconnect(x) \/ UNCHANGED conn
    BY DEF ClientNext, TypeChat, Quit, connVars
  <2> QED  BY <2>1, <2>2, <2>3
<1>5. Shown(c)' => Shown(c) /\ view'[c] = view[c]
  <2>1. CASE Quit(x)
    <3>1. view' = [view EXCEPT ![x] = Wait] /\ presses' = [presses EXCEPT ![x] = 0]
      BY <2>1 DEF Quit
    <3>2. view'[x] = Wait /\ (c # x => view'[c] = view[c] /\ presses'[c] = presses[c])
      BY <1>1, <3>1 DEF TypeOK
    <3>3. Wait \notin Phases  BY OtherWords
    <3> QED  BY <3>2, <3>3 DEF Shown, Phases
  <2>2. CASE UNCHANGED <<view, presses>>  BY <2>2 DEF Shown
  <2> QED  BY <2>1, <2>2 DEF ClientNext, TypeChat, Reconnect
<1>6. Fewer(cin'[c], cin[c], Phases)
  <2>1. CASE TypeChat(x)
    <3>1. cin' = [cin EXCEPT ![x] = Append(@, Chat)]  BY <2>1 DEF TypeChat
    <3>2. cin'[c] = cin[c] \/ cin'[c] = Append(cin[c], Chat)  BY <1>2, <3>1
    <3>3. cin[c] \in Seq(Phases \cup {Chat}) /\ Chat \in Phases \cup {Chat}
      BY <1>2
    <3> QED  BY <3>2, <3>3, FewerFacts, OtherWords
  <2>2. CASE UNCHANGED cin  BY <1>2, <2>2, FewerFacts
  <2> QED  BY <2>1, <2>2 DEF ClientNext, Quit, Reconnect
<1>7. Fewer(sock'[c], sock[c], Phases) /\ ActiveConn(turn)' = ActiveConn(turn)
  BY <1>1, <1>2, <1>3, SameActive, FewerFacts
<1>8. Fewer(aq'[c], aq[c], ReadyMail)  BY <1>1, <1>3, FewerReady
<1> QED  BY <1>3, <1>4, <1>5, <1>6, <1>7, <1>8 DEF NoChance, NoMove

LEMMA CountFacts ==
  ASSUME NEW M, NEW q \in Seq(M), NEW S
  PROVE  /\ Count(q, S) \in Nat
         /\ q # <<>> => /\ Tail(q) \in Seq(M) /\ Count(Tail(q), S) \in Nat
                        /\ Count(q, S) = Count(Tail(q), S) + OneIf(Head(q) \in S)
         /\ \A m \in M : /\ Append(q, m) \in Seq(M)
                         /\ Count(Append(q, m), S) = Count(q, S) + OneIf(m \in S)
<1>1. \A r \in Seq(M) : Count(r, S) \in Nat
  BY PlacesFinite DEF Count
<1>2. q # <<>> => Tail(q) \in Seq(M)  BY FirstTaken
<1>3. q # <<>> => Count(q, S) = Count(Tail(q), S) + OneIf(Head(q) \in S)
  BY PlacesTail DEF Count, OneIf
<1>4. \A m \in M : /\ Append(q, m) \in Seq(M)
                   /\ Count(Append(q, m), S) = Count(q, S) + OneIf(m \in S)
  BY PlacesAppend, LastSent DEF Count, OneIf
<1> QED  BY <1>1, <1>2, <1>3, <1>4

(* A queue all of whose messages of S are v. *)
Only(q, S, v) == \A i \in DOMAIN q : q[i] \in S => q[i] = v

LEMMA OnlyFacts ==
  ASSUME NEW M, NEW q \in Seq(M), NEW S, NEW v, Only(q, S, v)
  PROVE  /\ q # <<>> => Only(Tail(q), S, v) /\ (Head(q) \in S => Head(q) = v)
         /\ \A m \in M : (m \in S => m = v) => Only(Append(q, m), S, v)
<1>1. DOMAIN q = 1 .. Len(q)  OBVIOUS
<1>2. ASSUME q # <<>>
      PROVE  Only(Tail(q), S, v) /\ (Head(q) \in S => Head(q) = v)
  <2>1. /\ Head(q) = q[1] /\ 1 \in 1 .. Len(q) /\ DOMAIN Tail(q) = 1 .. Len(Tail(q))
        /\ \A i \in 1 .. Len(Tail(q)) : i + 1 \in 1 .. Len(q) /\ Tail(q)[i] = q[i + 1]
    BY <1>2, FirstTaken
  <2> QED  BY <1>1, <2>1 DEF Only
<1>3. ASSUME NEW m \in M, m \in S => m = v
      PROVE  Only(Append(q, m), S, v)
  <2>1. /\ DOMAIN Append(q, m) = 1 .. Len(Append(q, m))
        /\ Append(q, m)[Len(q) + 1] = m
        /\ \A i \in 1 .. Len(q) : Append(q, m)[i] = q[i]
        /\ \A i \in 1 .. Len(Append(q, m)) : i \in 1 .. Len(q) \/ i = Len(q) + 1
    BY LastSent
  <2> QED  BY <1>1, <1>3, <2>1 DEF Only
<1> QED  BY <1>2, <1>3

(* A step that passes a chance on leaves as many, and for the same phase. *)
LEMMA PassedOn ==
  ASSUME TypeOK, T!HasActive(turn), NEW c \in Conns, ChancesOf(c), conn[c].pc \notin Over,
         UNCHANGED <<turn, slots>>,
         OneIf(Shown(c))' + Count(sock'[c], Phases) + Count(aq'[c], ReadyMail)
             + Count(cin'[c], Phases) + OneIf(Making(c))'
           <= OneIf(Shown(c)) + Count(sock[c], Phases) + Count(aq[c], ReadyMail)
                + Count(cin[c], Phases) + OneIf(Making(c)),
         OneIf(Shown(c))' + Count(sock'[c], Phases) + Count(aq'[c], ReadyMail)
             + Count(cin'[c], Phases) + OneIf(Making(c))' \in Nat,
         Chances(c) \in Nat,
         Shown(c)' => view'[c] = turn.phase,
         Only(sock'[c], Phases, turn.phase), Only(cin'[c], Phases, turn.phase),
         Fewer(aq'[c], aq[c], ReadyMail),
         Making(c)' => conn'[c].move = turn.phase
  PROVE  ChancesOf(c)'
<1>1. /\ Chances(c) <= OneIf(c = ActiveConn(turn))
      /\ \A i \in DOMAIN aq[c] : aq[c][i] \in ReadyMail => aq[c][i].what = turn.phase
  BY DEF ChancesOf
<1>2. ActiveConn(turn)' = ActiveConn(turn)  BY SameActive
<1>3. \A i \in DOMAIN aq'[c] : aq'[c][i] \in ReadyMail => aq'[c][i].what = turn.phase
  BY <1>1 DEF Fewer
<1>4. Chances(c)' = OneIf(Shown(c))' + Count(sock'[c], Phases) + Count(aq'[c], ReadyMail)
                     + Count(cin'[c], Phases) + OneIf(Making(c))'
  BY DEF Chances, Count, PlacesOf, Phases, ReadyMail
<1>5. Chances(c) = OneIf(Shown(c)) + Count(sock[c], Phases) + Count(aq[c], ReadyMail)
                     + Count(cin[c], Phases) + OneIf(Making(c))
  BY DEF Chances
<1>6. Chances(c)' <= OneIf(c = ActiveConn(turn))'
  <2>1. OneIf(c = ActiveConn(turn)) \in Nat
        /\ OneIf(c = ActiveConn(turn))' = OneIf(c = ActiveConn(turn))
    BY <1>2 DEF OneIf
  <2>2. Chances(c)' \in Nat /\ Chances(c)' <= Chances(c)  BY <1>4, <1>5
  <2> QED  BY <1>1, <2>1, <2>2
<1>7. /\ \A i \in DOMAIN sock'[c] : sock'[c][i] \in Phases => sock'[c][i] = turn.phase
      /\ \A i \in DOMAIN cin'[c] : cin'[c][i] \in Phases => cin'[c][i] = turn.phase
  BY DEF Only
<1> QED  BY <1>3, <1>6, <1>7 DEF ChancesOf, Phases, ReadyMail

(* The counts are natural numbers, and what an active player's chances are for. *)
LEMMA ChanceFacts ==
  ASSUME TypeOK, NEW c \in Conns, ChancesOf(c), conn[c].pc \notin Over
  PROVE  /\ sock[c] \in Seq(Statuses) /\ aq[c] \in Seq(ActorMessages)
         /\ cin[c] \in Seq(Phases \cup {Chat})
         /\ Count(sock[c], Phases) \in Nat /\ Count(aq[c], ReadyMail) \in Nat
         /\ Count(cin[c], Phases) \in Nat /\ Chances(c) \in Nat
         /\ OneIf(Shown(c)) \in {0, 1} /\ OneIf(Making(c)) \in {0, 1}
         /\ Only(sock[c], Phases, turn.phase) /\ Only(cin[c], Phases, turn.phase)
         /\ Shown(c) => view[c] = turn.phase
         /\ Making(c) => conn[c].move = turn.phase
<1>1. /\ sock[c] \in Seq(Statuses) /\ aq[c] \in Seq(ActorMessages)
      /\ cin[c] \in Seq(Phases \cup {Chat})
  BY DEF TypeOK
<1>2. /\ Count(sock[c], Phases) \in Nat /\ Count(aq[c], ReadyMail) \in Nat
      /\ Count(cin[c], Phases) \in Nat
  BY <1>1, CountFacts
<1>3. OneIf(Shown(c)) \in {0, 1} /\ OneIf(Making(c)) \in {0, 1}  BY DEF OneIf
<1>4. Chances(c) \in Nat  BY <1>2, <1>3 DEF Chances
<1>5. /\ Only(sock[c], Phases, turn.phase) /\ Only(cin[c], Phases, turn.phase)
      /\ Shown(c) => view[c] = turn.phase
      /\ Making(c) => conn[c].move = turn.phase
  BY DEF ChancesOf, Only
<1> QED  BY <1>1, <1>2, <1>3, <1>4, <1>5

(* The actor gives the connection a message for the client. *)
LEMMA ChancesForwardTcp ==
  ASSUME IInv, Inner, NEW x \in Conns, ForwardTcp(x), SocketOpen(x),
         NEW c \in Conns, ChancesOf(c)
  PROVE  ChancesOf(c)'
<1> DEFINE m == Head(aq[x])
<1>1. TypeOK /\ T!HasActive(turn)  BY DEF IInv
<1>2. /\ aq[x] # <<>> /\ m.msg = "SendTcp" /\ conn[x].pc \notin Over
      /\ aq' = [aq EXCEPT ![x] = Tail(@)] /\ actor' = [actor EXCEPT ![x] = "idle"]
      /\ actor[x] = "idle"
      /\ sock' = IF m.what \in Statuses THEN [sock EXCEPT ![x] = Append(@, m.what)] ELSE sock
      /\ UNCHANGED <<turn, slots, conn, view, presses, cin>>
  BY DEF ForwardTcp, Handles, PopTo, SocketOpen, serverVars, clientVars
<1>3. actor'[c] = actor[c]  BY <1>1, <1>2 DEF TypeOK
<1>4. Making(c)' = Making(c) /\ Shown(c)' = Shown(c)
  BY <1>2, <1>3 DEF Making, Shown, Phases
<1>5. Fewer(aq'[c], aq[c], ReadyMail)
  <2>1. aq'[c] = aq[c] \/ (aq[c] # <<>> /\ aq'[c] = Tail(aq[c]))
    BY <1>1, <1>2 DEF TypeOK
  <2> QED  BY <1>1, <2>1, FewerReady
<1>6. CASE sock'[c] = sock[c]
  <2>1. NoMove(c)  BY <1>2, <1>3, QuietTask
  <2>2. sock[c] \in Seq(Statuses) /\ cin[c] \in Seq(Phases \cup {Chat})
    BY <1>1 DEF TypeOK
  <2>3. NoChance(c)
    BY <1>1, <1>2, <1>4, <1>5, <1>6, <2>1, <2>2, SameActive, FewerFacts DEF NoChance, NoMove
  <2> QED  BY <2>3, NoNewChance
<1>7. CASE sock'[c] # sock[c]
  <2>1. c = x /\ m.what \in Statuses /\ sock'[c] = Append(sock[c], m.what)
        /\ aq'[c] = Tail(aq[c])
    BY <1>1, <1>2, <1>7 DEF TypeOK
  <2>2. m \in ActorMessages /\ (m \in ReadyMail <=> m.what \in Phases)
    BY <1>1, <1>2, HeadFacts DEF ReadyMail
  <2>3. m \in ReadyMail => m.what = turn.phase
    <3>1. 1 \in DOMAIN aq[x] /\ aq[x][1] = m  BY <1>1, <1>2 DEF TypeOK
    <3> QED  BY <1>2, <2>1, <3>1 DEF ChancesOf
  <2>4. /\ Count(aq[c], ReadyMail) = Count(aq'[c], ReadyMail) + OneIf(m \in ReadyMail)
        /\ Count(sock'[c], Phases) = Count(sock[c], Phases) + OneIf(m.what \in Phases)
        /\ Count(aq'[c], ReadyMail) \in Nat
    <3>1. aq[c] \in Seq(ActorMessages) /\ sock[c] \in Seq(Statuses)
      BY <1>1 DEF TypeOK
    <3> QED  BY <1>2, <2>1, <3>1, CountFacts
  <2>5. conn[c].pc \notin Over  BY <1>2, <2>1
  <2>6. Only(sock'[c], Phases, turn.phase) /\ Only(cin'[c], Phases, turn.phase)
    BY <1>1, <1>2, <2>1, <2>2, <2>3, <2>5, ChanceFacts, OnlyFacts
  <2>7. /\ Shown(c)' => view'[c] = turn.phase
        /\ Making(c)' => conn'[c].move = turn.phase
    BY <1>1, <1>2, <1>4, <2>5, ChanceFacts
  <2>8. OneIf(m \in ReadyMail) = OneIf(m.what \in Phases) /\ OneIf(m.what \in Phases) \in {0, 1}
    BY <2>2 DEF OneIf
  <2> HIDE DEF m
  <2>9. /\ Count(sock[c], Phases) \in Nat /\ Count(aq[c], ReadyMail) \in Nat
        /\ Count(cin[c], Phases) \in Nat /\ Chances(c) \in Nat
        /\ OneIf(Shown(c)) \in {0, 1} /\ OneIf(Making(c)) \in {0, 1}
    BY <1>1, <2>5, ChanceFacts
  <2>10. cin'[c] = cin[c] /\ OneIf(Shown(c))' = OneIf(Shown(c))
         /\ OneIf(Making(c))' = OneIf(Making(c))
    BY <1>2, <1>4 DEF OneIf
  <2>11. /\ OneIf(Shown(c))' + Count(sock'[c], Phases) + Count(aq'[c], ReadyMail)
              + Count(cin'[c], Phases) + OneIf(Making(c))'
            <= OneIf(Shown(c)) + Count(sock[c], Phases) + Count(aq[c], ReadyMail)
                 + Count(cin[c], Phases) + OneIf(Making(c))
         /\ OneIf(Shown(c))' + Count(sock'[c], Phases) + Count(aq'[c], ReadyMail)
              + Count(cin'[c], Phases) + OneIf(Making(c))' \in Nat
    BY <2>4, <2>8, <2>9, <2>10
  <2> QED  BY <1>1, <1>2, <1>5, <2>5, <2>6, <2>7, <2>9, <2>11, PassedOn
<1> QED  BY <1>6, <1>7

(* The client shows the turn. *)
LEMMA ChancesForwardToClient ==
  ASSUME IInv, Inner, NEW x \in Conns, ForwardToClient(x), NEW c \in Conns, ChancesOf(c)
  PROVE  ChancesOf(c)'
<1> DEFINE s == Head(sock[x])
<1>1. TypeOK /\ T!HasActive(turn)  BY DEF IInv
<1>2. /\ sock[x] # <<>> /\ sock' = [sock EXCEPT ![x] = Tail(@)] /\ conn[x].pc = "read"
      /\ \/ /\ view' = [view EXCEPT ![x] = s] /\ presses' = [presses EXCEPT ![x] = 0]
         \/ UNCHANGED <<view, presses>>
      /\ UNCHANGED <<turn, slots, conn, actor, aq, cin>>
  BY DEF ForwardToClient, At, serverVars, actorVars
<1>3. Making(c)' = Making(c) /\ NoMove(c) /\ Fewer(aq'[c], aq[c], ReadyMail)
  BY <1>1, <1>2, QuietTask, FewerReady DEF Making
<1>4. sock[c] \in Seq(Statuses) /\ cin[c] \in Seq(Phases \cup {Chat})
  BY <1>1 DEF TypeOK
<1>5. CASE view'[c] = view[c] /\ presses'[c] = presses[c]
  <2>1. sock'[c] = sock[c] \/ (sock[c] # <<>> /\ sock'[c] = Tail(sock[c]))
    BY <1>1, <1>2 DEF TypeOK
  <2>2. Shown(c)' => Shown(c)  BY <1>5 DEF Shown, Phases
  <2>3. NoChance(c)
    BY <1>1, <1>2, <1>3, <1>4, <1>5, <2>1, <2>2, SameActive, FewerFacts DEF NoChance, NoMove
  <2> QED  BY <2>3, NoNewChance
<1>6. CASE ~ (view'[c] = view[c] /\ presses'[c] = presses[c])
  <2>1. /\ c = x /\ view'[c] = s /\ presses'[c] = 0
        /\ sock'[c] = Tail(sock[c]) /\ sock[c] # <<>>
    BY <1>1, <1>2, <1>6 DEF TypeOK
  <2>2. conn[c].pc \notin Over  BY <1>2, <2>1 DEF Over
  <2>3. Shown(c)' <=> s \in Phases  BY <2>1 DEF Shown, Phases
  <2>4. /\ Only(sock'[c], Phases, turn.phase) /\ (s \in Phases => s = turn.phase)
        /\ Only(cin'[c], Phases, turn.phase)
    BY <1>1, <1>2, <1>4, <2>1, <2>2, ChanceFacts, OnlyFacts
  <2>5. /\ Count(sock[c], Phases) = Count(sock'[c], Phases) + OneIf(s \in Phases)
        /\ Count(sock'[c], Phases) \in Nat
    BY <1>4, <2>1, CountFacts
  <2>6. /\ OneIf(Shown(c))' = OneIf(s \in Phases) /\ OneIf(s \in Phases) \in {0, 1}
        /\ OneIf(Making(c))' = OneIf(Making(c)) /\ cin'[c] = cin[c] /\ aq'[c] = aq[c]
    BY <1>2, <1>3, <2>3 DEF OneIf
  <2>7. /\ Shown(c)' => view'[c] = turn.phase
        /\ Making(c)' => conn'[c].move = turn.phase
    BY <1>1, <1>2, <1>3, <2>1, <2>2, <2>3, <2>4, ChanceFacts
  <2> HIDE DEF s
  <2>8. Count(sock[c], Phases) \in Nat /\ Count(aq[c], ReadyMail) \in Nat
        /\ Count(cin[c], Phases) \in Nat /\ Chances(c) \in Nat
        /\ OneIf(Shown(c)) \in {0, 1} /\ OneIf(Making(c)) \in {0, 1}
    BY <1>1, <2>2, ChanceFacts
  <2>9. /\ OneIf(Shown(c))' + Count(sock'[c], Phases) + Count(aq'[c], ReadyMail)
             + Count(cin'[c], Phases) + OneIf(Making(c))'
           <= OneIf(Shown(c)) + Count(sock[c], Phases) + Count(aq[c], ReadyMail)
                + Count(cin[c], Phases) + OneIf(Making(c))
        /\ OneIf(Shown(c))' + Count(sock'[c], Phases) + Count(aq'[c], ReadyMail)
             + Count(cin'[c], Phases) + OneIf(Making(c))' \in Nat
    BY <2>5, <2>6, <2>8
  <2> QED  BY <1>1, <1>2, <1>3, <2>2, <2>4, <2>7, <2>8, <2>9, PassedOn
<1> QED  BY <1>5, <1>6

(* The client uses the chance it shows: it has one key only. *)
LEMMA ChancesPress ==
  ASSUME IInv, PressesPerTurn = 1, NEW x \in Conns, Press(x),
         NEW c \in Conns, ChancesOf(c)
  PROVE  ChancesOf(c)'
<1>1. TypeOK /\ T!HasActive(turn)  BY DEF IInv
<1>2. /\ view[x] \in PlayedPhases /\ presses[x] < PressesPerTurn
      /\ presses' = [presses EXCEPT ![x] = @ + 1]
      /\ cin' = [cin EXCEPT ![x] = Append(@, view[x])]
      /\ UNCHANGED <<turn, slots, conn, actor, aq, sock, view>>
  BY DEF Press, serverVars, actorVars, connVars
<1>3. presses[x] = 0 /\ presses'[x] = 1 /\ view[x] \in Phases
  <2>1. presses \in [Conns -> 0 .. 1]  BY <1>1 DEF TypeOK
  <2> QED  BY <1>2, <2>1, PlayedPhasesAssumption
<1>4. Making(c)' = Making(c) /\ NoMove(c) /\ Fewer(aq'[c], aq[c], ReadyMail)
  BY <1>1, <1>2, QuietTask, FewerReady DEF Making
<1>5. sock[c] \in Seq(Statuses) /\ cin[c] \in Seq(Phases \cup {Chat})
  BY <1>1 DEF TypeOK
<1>6. CASE c # x
  <2>1. cin'[c] = cin[c] /\ presses'[c] = presses[c]
    BY <1>1, <1>2, <1>6 DEF TypeOK
  <2>2. Shown(c)' => Shown(c)  BY <1>2, <2>1 DEF Shown, Phases
  <2>3. NoChance(c)
    BY <1>1, <1>2, <1>4, <1>5, <2>1, <2>2, SameActive, FewerFacts DEF NoChance, NoMove
  <2> QED  BY <2>3, NoNewChance
<1>7. CASE c = x
  <2>1. CASE conn[c].pc \in Over  BY <1>2, <2>1 DEF ChancesOf, Over
  <2>2. CASE conn[c].pc \notin Over
    <3>1. /\ Shown(c) /\ ~ Shown(c)' /\ view[c] = turn.phase
          /\ cin'[c] = Append(cin[c], view[c])
      <4>1. Shown(c) /\ ~ Shown(c)'  BY <1>3, <1>7 DEF Shown
      <4>2. cin'[c] = Append(cin[c], view[c])  BY <1>1, <1>2, <1>7 DEF TypeOK
      <4> QED  BY <1>1, <2>2, <4>1, <4>2, ChanceFacts
    <3>2. Only(sock'[c], Phases, turn.phase) /\ Only(cin'[c], Phases, turn.phase)
      BY <1>1, <1>2, <1>3, <1>5, <1>7, <2>2, <3>1, ChanceFacts, OnlyFacts
    <3>3. Count(cin'[c], Phases) = Count(cin[c], Phases) + 1
      <4>1. view[c] \in Phases \cup {Chat} /\ OneIf(view[c] \in Phases) = 1
        BY <1>3, <1>7 DEF OneIf
      <4> QED  BY <1>5, <3>1, <4>1, CountFacts
    <3>4. /\ Count(sock[c], Phases) \in Nat /\ Count(aq[c], ReadyMail) \in Nat
          /\ Count(cin[c], Phases) \in Nat /\ Chances(c) \in Nat
          /\ OneIf(Making(c)) \in {0, 1}
      BY <1>1, <2>2, ChanceFacts
    <3>5. /\ OneIf(Shown(c)) = 1 /\ OneIf(Shown(c))' = 0
          /\ OneIf(Making(c))' = OneIf(Making(c)) /\ sock'[c] = sock[c] /\ aq'[c] = aq[c]
      BY <1>2, <1>4, <3>1 DEF OneIf
    <3>6. /\ OneIf(Shown(c))' + Count(sock'[c], Phases) + Count(aq'[c], ReadyMail)
               + Count(cin'[c], Phases) + OneIf(Making(c))'
             <= OneIf(Shown(c)) + Count(sock[c], Phases) + Count(aq[c], ReadyMail)
                  + Count(cin[c], Phases) + OneIf(Making(c))
          /\ OneIf(Shown(c))' + Count(sock'[c], Phases) + Count(aq'[c], ReadyMail)
               + Count(cin'[c], Phases) + OneIf(Making(c))' \in Nat
      BY <3>3, <3>4, <3>5
    <3>7. /\ Shown(c)' => view'[c] = turn.phase
          /\ Making(c)' => conn'[c].move = turn.phase
      BY <1>1, <1>2, <1>4, <2>2, <3>1, ChanceFacts
    <3> QED  BY <1>1, <1>2, <1>4, <2>2, <3>2, <3>4, <3>6, <3>7, PassedOn
  <2> QED  BY <2>1, <2>2
<1> QED  BY <1>6, <1>7

(* The connection begins to make the move. *)
LEMMA ChancesReadMove ==
  ASSUME IInv, Inner, NEW x \in Conns, ReadMove(x), NEW c \in Conns, ChancesOf(c)
  PROVE  ChancesOf(c)'
<1> DEFINE k == Head(cin[x])
<1>1. TypeOK /\ T!HasActive(turn)  BY DEF IInv
<1>2. /\ conn[x].pc = "read" /\ cin[x] # <<>> /\ k # Chat
      /\ cin' = [cin EXCEPT ![x] = Tail(@)]
      /\ conn' = [conn EXCEPT ![x].pc = "w_active", ![x].move = k]
      /\ UNCHANGED <<turn, slots, actor, aq, sock, view, presses>>
  BY DEF ReadMove, Reads, At, actorVars
<1>3. conn \in [Conns -> [pc : ConnPlaces, val : Conns \cup {NoConn},
                          move : Phases \cup {Nothing}]]
      /\ sock[c] \in Seq(Statuses) /\ cin[c] \in Seq(Phases \cup {Chat})
  BY <1>1 DEF TypeOK
<1>4. Shown(c)' = Shown(c) /\ Fewer(aq'[c], aq[c], ReadyMail)
  BY <1>1, <1>2, FewerReady DEF Shown, Phases
<1>5. CASE c # x
  <2>1. cin'[c] = cin[c] /\ conn'[c] = conn[c]
    BY <1>1, <1>2, <1>3, <1>5 DEF TypeOK
  <2>2. NoMove(c)  BY <1>2, <2>1, QuietTask
  <2>3. NoChance(c)
    BY <1>1, <1>2, <1>3, <1>4, <2>1, <2>2, SameActive, FewerFacts DEF NoChance, NoMove
  <2> QED  BY <2>3, NoNewChance
<1>6. CASE c = x
  <2>1. conn[c].pc \notin Over /\ ~ Making(c)  BY <1>2, <1>6 DEF Over, Making
  <2>2. /\ k \in Phases /\ cin'[c] = Tail(cin[c]) /\ cin[c] # <<>>
    <3>1. k \in Phases \cup {Chat}  BY <1>2, <1>3, <1>6
    <3> QED  BY <1>1, <1>2, <1>6, <3>1 DEF TypeOK
  <2>3. conn'[c].pc = "w_active" /\ conn'[c].move = k  BY <1>2, <1>3, <1>6
  <2>4. /\ Only(sock'[c], Phases, turn.phase) /\ k = turn.phase
        /\ Only(cin'[c], Phases, turn.phase)
    BY <1>1, <1>2, <1>3, <1>6, <2>1, <2>2, ChanceFacts, OnlyFacts
  <2>5. /\ Count(cin[c], Phases) = Count(cin'[c], Phases) + 1
        /\ Count(cin'[c], Phases) \in Nat
    <3>1. OneIf(k \in Phases) = 1  BY <2>2 DEF OneIf
    <3> QED  BY <1>3, <1>6, <2>2, <3>1, CountFacts
  <2>6. /\ OneIf(Making(c)) = 0 /\ OneIf(Making(c))' \in {0, 1}
        /\ OneIf(Shown(c))' = OneIf(Shown(c)) /\ sock'[c] = sock[c] /\ aq'[c] = aq[c]
    BY <1>2, <1>4, <2>1 DEF OneIf
  <2>7. /\ Shown(c)' => view'[c] = turn.phase
        /\ Making(c)' => conn'[c].move = turn.phase
    BY <1>1, <1>2, <1>4, <2>1, <2>3, <2>4, ChanceFacts
  <2> HIDE DEF k
  <2>8. /\ Count(sock[c], Phases) \in Nat /\ Count(aq[c], ReadyMail) \in Nat
        /\ Count(cin[c], Phases) \in Nat /\ Chances(c) \in Nat
        /\ OneIf(Shown(c)) \in {0, 1}
    BY <1>1, <2>1, ChanceFacts
  <2>9. /\ OneIf(Shown(c))' + Count(sock'[c], Phases) + Count(aq'[c], ReadyMail)
             + Count(cin'[c], Phases) + OneIf(Making(c))'
           <= OneIf(Shown(c)) + Count(sock[c], Phases) + Count(aq[c], ReadyMail)
                + Count(cin[c], Phases) + OneIf(Making(c))
        /\ OneIf(Shown(c))' + Count(sock'[c], Phases) + Count(aq'[c], ReadyMail)
             + Count(cin'[c], Phases) + OneIf(Making(c))' \in Nat
    BY <2>5, <2>6, <2>8
  <2> QED  BY <1>1, <1>2, <1>4, <2>1, <2>4, <2>7, <2>8, <2>9, PassedOn
<1> QED  BY <1>5, <1>6

(* The switch: the chance of the player whose turn ends has been used, and      *)
(* the next one gets one.                                                  *)
LEMMA ChancesSwitch ==
  ASSUME IInv, Inner, SwitchPlayer, NEW c \in Conns, ChancesOf(c)
  PROVE  ChancesOf(c)'
<1> DEFINE h == Head(gq).from
           next == ActiveConn(turn')
<1>1. TypeOK /\ T!HasActive(turn)  BY DEF IInv
<1>2. /\ gq # <<>> /\ Head(gq).cmd = "SwitchToNextPlayer"
      /\ turn' = T!SwitchToNextPlayer(turn)
      /\ aq' = TurnMessages(aq, next, turn'.phase)
      /\ actor' = [actor EXCEPT ![h] = "switched"]
      /\ UNCHANGED <<slots, conn, sock, view, presses, cin>>
  BY DEF SwitchPlayer, Receive, connVars, clientVars
<1>3. h \in Conns /\ actor[h] = "w_switch" /\ conn[h].pc = "w_move"
  BY <1>2, HeadTask DEF Inner, MoversWait, MoveUnderWay
<1>4. h = ActiveConn(turn) /\ Making(h)  BY <1>3 DEF Inner, ActiveMoves, Making
<1> HIDE DEF h
<1>5. turn'.phase \in Phases /\ next = ActiveConn(turn)'
  <2>1. turn' \in T!Turn  BY <1>1, <1>2, SwitchFacts
  <2> QED  BY <1>2, <2>1 DEF T!Turn, Phases, ActiveConn
<1> HIDE DEF next
<1> SUFFICES ASSUME conn[c].pc \notin Over
             PROVE  ChancesOf(c)'
  BY <1>2 DEF ChancesOf, Over
<1>6. ~ Making(c)'
  <2>1. actor'[h] = "switched" /\ (c # h => actor'[c] = actor[c])
    BY <1>1, <1>2, <1>3 DEF TypeOK
  <2>2. CASE c = h  BY <1>2, <1>3, <2>1, <2>2 DEF Making
  <2>3. CASE c # h
    <3>1. Chances(c) <= 0  BY <1>4, <2>3 DEF ChancesOf, OneIf
    <3>2. /\ Count(sock[c], Phases) \in Nat /\ Count(aq[c], ReadyMail) \in Nat
          /\ Count(cin[c], Phases) \in Nat
          /\ OneIf(Shown(c)) \in {0, 1} /\ OneIf(Making(c)) \in {0, 1}
      BY <1>1, ChanceFacts
    <3>3. OneIf(Shown(c)) + Count(sock[c], Phases) + Count(aq[c], ReadyMail)
            + Count(cin[c], Phases) + OneIf(Making(c)) <= 0
      BY <3>1 DEF Chances
    <3>4. OneIf(Making(c)) = 0  BY <3>2, <3>3
    <3> QED  BY <1>2, <2>1, <2>3, <3>4 DEF Making, OneIf
  <2> QED  BY <2>2, <2>3
<1>7. /\ Count(sock[c], Phases) = 0 /\ Count(aq[c], ReadyMail) = 0
      /\ Count(cin[c], Phases) = 0 /\ ~ Shown(c)
  <2>1. /\ Count(sock[c], Phases) \in Nat /\ Count(aq[c], ReadyMail) \in Nat
        /\ Count(cin[c], Phases) \in Nat
        /\ OneIf(Shown(c)) \in {0, 1} /\ OneIf(Making(c)) \in {0, 1}
    BY <1>1, ChanceFacts
  <2>2. Chances(c) <= OneIf(Making(c)) /\ OneIf(Making(c)) \in {0, 1}
    <3>1. CASE c = h  BY <1>4, <3>1 DEF ChancesOf, OneIf
    <3>2. CASE c # h
      <4>1. Chances(c) <= 0  BY <1>4, <3>2 DEF ChancesOf, OneIf
      <4> QED  BY <2>1, <4>1 DEF Chances
    <3> QED  BY <3>1, <3>2
  <2>3. OneIf(Shown(c)) + Count(sock[c], Phases) + Count(aq[c], ReadyMail)
          + Count(cin[c], Phases) + OneIf(Making(c)) <= OneIf(Making(c))
    BY <2>2 DEF Chances
  <2>4. OneIf(Shown(c)) = 0  BY <2>1, <2>3
  <2> QED  BY <2>1, <2>3, <2>4 DEF OneIf
<1>8. ~ Shown(c)' /\ sock'[c] = sock[c] /\ cin'[c] = cin[c]
  BY <1>2, <1>7 DEF Shown, Phases
<1>9. \/ aq'[c] = aq[c]
      \/ c = next /\ aq'[c] = Append(aq[c], SendTcp(turn'.phase))
      \/ aq'[c] = Append(aq[c], SendTcp(Wait))
  <2> DEFINE q == Post(aq, OnlineSeats \ {next}, SendTcp(Wait))
  <2>1. aq' = Post(q, {next}, SendTcp(turn'.phase))  BY <1>2 DEF TurnMessages
  <2>2. q[c] = IF c \in OnlineSeats \ {next} /\ Open(c)
               THEN Append(aq[c], SendTcp(Wait)) ELSE aq[c]
    BY DEF Post
  <2> HIDE DEF q
  <2>3. aq'[c] = IF c = next /\ Open(c) THEN Append(q[c], SendTcp(turn'.phase)) ELSE q[c]
    BY <2>1 DEF Post
  <2> QED  BY <2>2, <2>3
<1>10. /\ aq[c] \in Seq(ActorMessages) /\ sock[c] \in Seq(Statuses)
       /\ cin[c] \in Seq(Phases \cup {Chat})
  BY <1>1, ChanceFacts
<1>11. /\ \A i \in DOMAIN sock[c] : sock[c][i] \notin Phases
       /\ \A i \in DOMAIN cin[c] : cin[c][i] \notin Phases
       /\ \A i \in DOMAIN aq[c] : aq[c][i] \notin ReadyMail
  BY <1>7, <1>10, PlacesFinite DEF Count
<1>12. /\ Count(aq'[c], ReadyMail) \in Nat
       /\ Count(aq'[c], ReadyMail) <= OneIf(c = next)
       /\ \A i \in DOMAIN aq'[c] : aq'[c][i] \in ReadyMail => aq'[c][i].what = turn'.phase
  <2>1. /\ SendTcp(turn'.phase) \in ActorMessages /\ SendTcp(turn'.phase).what = turn'.phase
        /\ SendTcp(Wait) \in ActorMessages /\ SendTcp(Wait) \notin ReadyMail
    BY <1>5, MessageFacts, OtherWords DEF Statuses, ReadyMail
  <2>2. OneIf(c = next) \in {0, 1} /\ (c = next => OneIf(c = next) = 1)
    BY DEF OneIf
  <2>3. CASE aq'[c] = aq[c]  BY <1>7, <1>11, <2>2, <2>3
  <2>4. ASSUME NEW m \in ActorMessages, aq'[c] = Append(aq[c], m),
               m \in ReadyMail => m = SendTcp(turn'.phase) /\ c = next
        PROVE  /\ Count(aq'[c], ReadyMail) \in Nat
               /\ Count(aq'[c], ReadyMail) <= OneIf(c = next)
               /\ \A i \in DOMAIN aq'[c] :
                    aq'[c][i] \in ReadyMail => aq'[c][i].what = turn'.phase
    <3>1. Count(aq'[c], ReadyMail) = 0 + OneIf(m \in ReadyMail)
      BY <1>7, <1>10, <2>4, CountFacts
    <3>2. Only(aq[c], ReadyMail, SendTcp(turn'.phase))  BY <1>11 DEF Only
    <3>3. Only(aq'[c], ReadyMail, SendTcp(turn'.phase))
      BY <1>10, <2>4, <3>2, OnlyFacts
    <3> QED  BY <2>1, <2>2, <2>4, <3>1, <3>3 DEF Only, OneIf
  <2>5. CASE c = next /\ aq'[c] = Append(aq[c], SendTcp(turn'.phase))
    BY <2>1, <2>4, <2>5
  <2>6. CASE aq'[c] = Append(aq[c], SendTcp(Wait))  BY <2>1, <2>4, <2>6
  <2> QED  BY <1>9, <2>3, <2>5, <2>6
<1>13. Chances(c)' <= OneIf(c = ActiveConn(turn))'
  <2>1. Chances(c)' = OneIf(Shown(c))' + Count(sock'[c], Phases) + Count(aq'[c], ReadyMail)
                       + Count(cin'[c], Phases) + OneIf(Making(c))'
    BY DEF Chances, Count, PlacesOf, Phases, ReadyMail
  <2>2. OneIf(Shown(c))' = 0 /\ OneIf(Making(c))' = 0
        /\ Count(sock'[c], Phases) = 0 /\ Count(cin'[c], Phases) = 0
    BY <1>6, <1>7, <1>8 DEF OneIf
  <2>3. OneIf(c = ActiveConn(turn))' = OneIf(c = next) /\ OneIf(c = next) \in {0, 1}
    BY <1>5 DEF OneIf
  <2> QED  BY <1>12, <2>1, <2>2, <2>3
<1> QED  BY <1>6, <1>8, <1>11, <1>12, <1>13 DEF ChancesOf, Phases, ReadyMail

LEMMA OneMessage ==
  ASSUME NEW M, NEW m \in M, NEW S
  PROVE  Count(<<m>>, S) = OneIf(m \in S) /\ <<m>> \in Seq(M)
<1>1. ASSUME NEW q \in Seq(M), Len(q) = 0
      PROVE  Count(Append(q, m), S) = OneIf(m \in S) /\ Append(q, m) \in Seq(M)
  <2>1. Count(Append(q, m), S) = Count(q, S) + OneIf(m \in S) /\ Append(q, m) \in Seq(M)
    BY CountFacts
  <2>2. \A i \in DOMAIN q : q[i] \notin S  BY <1>1
  <2>3. Count(q, S) = 0  BY <2>2, PlacesFinite DEF Count
  <2>4. OneIf(m \in S) \in {0, 1}  BY DEF OneIf
  <2> QED  BY <2>1, <2>3, <2>4
<1>2. <<>> \in Seq(M) /\ Len(<<>>) = 0 /\ Append(<<>>, m) = <<m>>  OBVIOUS
<1> QED  BY <1>1, <1>2, Zenon

LEMMA OneChanceInit == Init => OneChance
<1> SUFFICES ASSUME Init, NEW c \in Conns PROVE ChancesOf(c)
  BY DEF OneChance
<1>1. TypeOK /\ T!HasActive(turn)  BY InitInv DEF IInv
<1>2. /\ conn = [d \in Conns |->
                   [pc   |-> IF d \in StartConns THEN "boot" ELSE "none",
                    val  |-> NoConn,
                    move |-> Nothing]]
      /\ sock = [d \in Conns |-> <<>>] /\ cin = [d \in Conns |-> <<>>]
      /\ view = [d \in Conns |-> Wait]
  BY DEF Init
<1>3. aq = [d \in Conns |->
              IF d \notin StartConns THEN <<>>
              ELSE <<SendTcp(IF d = ActiveConn(turn) THEN turn.phase ELSE Wait)>>]
  BY DEF Init
<1>4. ~ Shown(c) /\ ~ Making(c) /\ sock[c] = <<>> /\ cin[c] = <<>>
  BY <1>2, OtherWords DEF Shown, Making
<1>5. Count(<<>>, Phases) = 0 /\ Count(<<>>, ReadyMail) = 0 /\ DOMAIN <<>> = {}
  <2>1. <<>> \in Seq({}) /\ DOMAIN <<>> = {}  OBVIOUS
  <2>2. \A i \in DOMAIN <<>> : <<>>[i] \notin Phases /\ <<>>[i] \notin ReadyMail
    BY <2>1
  <2>3. Cardinality(PlacesOf(<<>>, Phases)) = 0 /\ Cardinality(PlacesOf(<<>>, ReadyMail)) = 0
    BY ONLY <2>1, <2>2, PlacesFinite
  <2> QED  BY <2>1, <2>3 DEF Count
<1>6. /\ Count(aq[c], ReadyMail) \in Nat
      /\ Count(aq[c], ReadyMail) <= OneIf(c = ActiveConn(turn))
      /\ \A i \in DOMAIN aq[c] : aq[c][i] \in ReadyMail => aq[c][i].what = turn.phase
  <2> DEFINE s == IF c = ActiveConn(turn) THEN turn.phase ELSE Wait
             m == SendTcp(s)
  <2>1. s \in Statuses /\ (s \in Phases => c = ActiveConn(turn) /\ s = turn.phase)
    BY <1>1, OtherWords DEF TypeOK, T!Turn, Statuses, Phases
  <2>2. m \in ActorMessages /\ m.what = s /\ (m \in ReadyMail => s \in Phases)
    BY <2>1, MessageFacts DEF ReadyMail
  <2>3. aq[c] = <<>> \/ aq[c] = <<m>>  BY <1>3
  <2> HIDE DEF m, s
  <2>4. OneIf(c = ActiveConn(turn)) \in {0, 1}
        /\ (c = ActiveConn(turn) => OneIf(c = ActiveConn(turn)) = 1)
    BY DEF OneIf
  <2>5. CASE aq[c] = <<>>  BY <1>5, <2>4, <2>5
  <2>6. CASE aq[c] = <<m>>
    <3>1. DOMAIN <<m>> = {1} /\ <<m>>[1] = m  BY <2>2
    <3>2. Count(<<m>>, ReadyMail) = OneIf(m \in ReadyMail)  BY <2>2, OneMessage
    <3> QED  BY <2>1, <2>2, <2>4, <2>6, <3>1, <3>2 DEF OneIf
  <2> QED  BY <2>3, <2>5, <2>6
<1>7. Chances(c) <= OneIf(c = ActiveConn(turn))
  <2>1. OneIf(c = ActiveConn(turn)) \in {0, 1}  BY DEF OneIf
  <2> QED  BY <1>4, <1>5, <1>6, <2>1 DEF Chances, OneIf
<1> QED  BY <1>4, <1>5, <1>6, <1>7 DEF ChancesOf

(* No task takes a step once the server has ended or stopped. *)
LEMMA OnlyRunning == Next => Running
<1>1. GameServerNext => Running
  BY DEF GameServerNext, GetActivePlayer, GetMonsters, DropMonsterOrContinue, SwitchPlayer,
     BroadcastGameState, Broadcast, IsPeerConnected, ReconnectPeer, GetPeerUsername,
     DropPeer, SearchByName, AnswerUsername, MarkOffline, SearchOn, AnswerSearch, Receive,
     Came
<1>2. IntroServerNext => Running
  BY DEF IntroServerNext, RejectLogin, AskIdByName, AskConnected, AcceptLogin,
     AlreadyLogged, ReceiveEnterGame, StartReconnection, HandOver, ReplaceSeat,
     EndReconnection, IntroDropPeer, IntroReceive, Free
<1>3. ASSUME NEW c \in Conns, PeerActorNext(c)
      PROVE  Running
  BY <1>3 DEF PeerActorNext, AnswerGetUsername, AnswerTakePeer, ForwardTcp, StartMove, RefuseMove, MayFail,
     GoOnToSwitch, FinishMove, StartSync, FinishSync, EndWithoutHandles, Handles
<1>4. ASSUME NEW c \in Conns, ConnectionNext(c)
      PROVE  Running
  BY <1>4 DEF ConnectionNext, Login, EnterGame, EndInIntro, TakeOver, OpenMailbox,
     AskMonsters, SpawnActor, StartFails, ForwardToClient, ReadMove, TurnOk, TurnErr,
     EndOfTurn, ReadChat, SendChat, EndInGame, MoveLost, Reads, At
<1>5. ASSUME NEW c \in Conns, ClientNext(c)
      PROVE  Running
  BY <1>5 DEF ClientNext, Press, TypeChat, Quit, Reconnect
<1> QED  BY <1>1, <1>2, <1>3, <1>4, <1>5 DEF Next

LEMMA OneChanceStep ==
  ASSUME IInv, Started, PressesPerTurn = 1, OneChance, [Next]_vars
  PROVE  OneChance'
<1> SUFFICES ASSUME Running', NEW c \in Conns
             PROVE  ChancesOf(c)'
  BY DEF OneChance
<1>1. CASE UNCHANGED vars
  <2>1. UNCHANGED <<turn, slots, actor, aq, conn, sock, view, presses, cin, crashed>>
    BY <1>1 DEF vars, serverVars, actorVars, connVars, clientVars
  <2>2. TypeOK /\ T!HasActive(turn) /\ ChancesOf(c)
    BY <2>1 DEF IInv, OneChance, Running
  <2>3. NoMove(c)  BY <2>1, QuietTask
  <2>4. Fewer(aq'[c], aq[c], ReadyMail)  BY <2>1, <2>2, FewerReady
  <2>5. UNCHANGED <<turn, slots, view, presses, sock, cin>>  BY <2>1
  <2>6. NoChance(c)  BY <2>2, <2>3, <2>4, <2>5, NothingNew
  <2> QED  BY <2>2, <2>6, NoNewChance
<1>2. CASE Next
  <2>1. Running  BY <1>2, OnlyRunning
  <2>2. Inner /\ ChancesOf(c)  BY <2>1 DEF IInv, OneChance
  <2>3. CASE GameServerNext
    BY <2>2, <2>3, ChancesSwitch, ChancesOfServer, NoNewChance
  <2>4. CASE IntroServerNext  BY <2>2, <2>4, ChancesOfIntro, NoNewChance
  <2>5. ASSUME NEW x \in Conns, PeerActorNext(x)
        PROVE  ChancesOf(c)'
    BY <2>2, <2>5, ChancesForwardTcp, ChancesOfActor, NoNewChance
  <2>6. ASSUME NEW x \in Conns, ConnectionNext(x)
        PROVE  ChancesOf(c)'
    BY <2>2, <2>6, ChancesForwardToClient, ChancesReadMove, ChancesMoveLost,
       ChancesOfConnection, NoNewChance
  <2>7. ASSUME NEW x \in Conns, ClientNext(x)
        PROVE  ChancesOf(c)'
    BY <2>2, <2>7, ChancesPress, ChancesOfClient, NoNewChance
  <2> QED  BY <1>2, <2>3, <2>4, <2>5, <2>6, <2>7 DEF Next
<1> QED  BY <1>1, <1>2

(* A move is made in the phase it was meant for, when a client sends one move   *)
(* for each Ready it shows.  The server takes any of the four moves in any   *)
(* phase (server/peer.rs:886-909): that the client keeps to one is all that  *)
(* stands between a player and a second move in the next phase.            *)
THEOREM SessionMoveMatchesPhase ==
  ASSUME PressesPerTurn = 1
  PROVE  Spec => MoveMatchesPhase
<1>1. ASSUME IInv, OneChance, [Next]_vars, turn' # turn
      PROVE  conn[Head(gq).from].move = turn.phase
  <2>1. SwitchPlayer
    <3>1. ~ UNCHANGED vars  BY <1>1 DEF vars, serverVars
    <3> QED  BY <1>1, <3>1, OnlySwitchTurns
  <2>2. Running /\ gq # <<>> /\ Head(gq).cmd = "SwitchToNextPlayer"
    BY <2>1 DEF SwitchPlayer, Receive
  <2>3. Inner  BY <1>1, <2>2 DEF IInv
  <2> DEFINE h == Head(gq).from
  <2>4. h \in Conns /\ actor[h] = "w_switch"  BY <1>1, <2>2, <2>3, HeadTask
  <2>5. conn[h].pc = "w_move"  BY <2>3, <2>4 DEF Inner, MoversWait, MoveUnderWay
  <2>6. ChancesOf(h)  BY <1>1, <2>2, <2>4 DEF OneChance
  <2> QED  BY <2>4, <2>5, <2>6 DEF ChancesOf, Making, Over
<1>2. IInv /\ Started /\ OneChance /\ [Next]_vars
        => OneChance' /\ [turn' # turn => conn[Head(gq).from].move = turn.phase]_vars
  BY <1>1, OneChanceStep
<1>3. Init => OneChance  BY OneChanceInit
<1> QED  BY <1>2, <1>3, Invariance, PTL DEF Spec, MoveMatchesPhase

-------------------------------------------------------------------------------
(* Whoever stays in the game, which is whoever is no Quitter, has been told its *)
(* status: the last turn status on its way to the client is the right one, or *)
(* none is on its way and the client shows it.  Or a move of its client was   *)
(* refused, and it is out of the game.                                     *)
Placed == Booting \cup Loop
InRoom(c) ==
  /\ client[c] = "on" /\ conn[c].pc \in Placed
  /\ slots[Owner(c)] = [conn |-> c, online |-> TRUE]

StatusMail  == {m \in ActorMessages : m.msg = "SendTcp" /\ m.what \in Statuses}
StatusOf(c) == IF Owner(c) = T!Active(turn) THEN turn.phase ELSE Wait
Ends(q, S, v) == \E i \in DOMAIN q : q[i] = v /\ \A j \in DOMAIN q : j > i => q[j] \notin S
NoneOf(q, S)  == \A i \in DOMAIN q : q[i] \notin S
Told(c) ==
  \/ Ends(aq[c], StatusMail, SendTcp(StatusOf(c)))
  \/ /\ NoneOf(aq[c], StatusMail)
     /\ \/ sock[c] # <<>> /\ sock[c][Len(sock[c])] = StatusOf(c)
        \/ sock[c] = <<>> /\ view[c] = StatusOf(c)
Gone(c) == eager /\ \/ conn[c].pc = "refused"
                    \/ conn[c].pc = "ended" /\ client[c] = "off"
AllTold == Running => \A c \in Conns : Stays(c) => (InRoom(c) /\ Told(c)) \/ Gone(c)

LEMMA EndsFacts ==
  ASSUME NEW M, NEW q \in Seq(M), NEW S, NEW v \in S
  PROVE  /\ q # <<>> /\ Ends(q, S, v) =>
              Ends(Tail(q), S, v) \/ (Head(q) = v /\ NoneOf(Tail(q), S))
         /\ q # <<>> /\ Ends(q, S, v) /\ Head(q) \notin S => Ends(Tail(q), S, v)
         /\ q # <<>> /\ NoneOf(q, S) => NoneOf(Tail(q), S)
         /\ \A m \in M : m \notin S =>
              /\ Ends(q, S, v) => Ends(Append(q, m), S, v)
              /\ NoneOf(q, S) => NoneOf(Append(q, m), S)
         /\ v \in M => Ends(Append(q, v), S, v)
<1>1. DOMAIN q = 1 .. Len(q) /\ Len(q) \in Nat  OBVIOUS
<1>2. ASSUME q # <<>>
      PROVE  /\ Ends(q, S, v) => Ends(Tail(q), S, v) \/ (Head(q) = v /\ NoneOf(Tail(q), S))
             /\ Ends(q, S, v) /\ Head(q) \notin S => Ends(Tail(q), S, v)
             /\ NoneOf(q, S) => NoneOf(Tail(q), S)
  <2>1. /\ Head(q) = q[1] /\ DOMAIN Tail(q) = 1 .. Len(Tail(q)) /\ Len(q) = Len(Tail(q)) + 1
        /\ Len(Tail(q)) \in Nat
        /\ \A i \in 1 .. Len(Tail(q)) : i + 1 \in 1 .. Len(q) /\ Tail(q)[i] = q[i + 1]
    BY <1>2, FirstTaken
  <2>2. NoneOf(q, S) => NoneOf(Tail(q), S)  BY <1>1, <2>1 DEF NoneOf
  <2>3. ASSUME NEW i \in DOMAIN q, q[i] = v, \A j \in DOMAIN q : j > i => q[j] \notin S
        PROVE  \/ i > 1 /\ Ends(Tail(q), S, v)
               \/ i = 1 /\ Head(q) = v /\ NoneOf(Tail(q), S)
    <3>1. CASE i = 1
      <4>1. \A k \in DOMAIN Tail(q) : Tail(q)[k] = q[k + 1] /\ k + 1 \in DOMAIN q /\ k + 1 > i
        BY <1>1, <2>1, <3>1
      <4> QED  BY <2>1, <2>3, <3>1, <4>1 DEF NoneOf
    <3>2. CASE i > 1
      <4>1. i - 1 \in DOMAIN Tail(q) /\ (i - 1) + 1 = i  BY <1>1, <2>1, <3>2
      <4>2. Tail(q)[i - 1] = v  BY <2>1, <2>3, <4>1
      <4>3. \A k \in DOMAIN Tail(q) : k > i - 1 => k + 1 \in DOMAIN q /\ k + 1 > i
        BY <1>1, <2>1
      <4>4. \A k \in DOMAIN Tail(q) : k > i - 1 => Tail(q)[k] \notin S
        BY <2>1, <2>3, <4>3
      <4> QED  BY <3>2, <4>1, <4>2, <4>4 DEF Ends
    <3> QED  BY <1>1, <3>1, <3>2
  <2> QED  BY <2>2, <2>3 DEF Ends
<1>3. ASSUME NEW m \in M
      PROVE  /\ m \notin S /\ Ends(q, S, v) => Ends(Append(q, m), S, v)
             /\ m \notin S /\ NoneOf(q, S) => NoneOf(Append(q, m), S)
             /\ m = v => Ends(Append(q, m), S, v)
  <2>1. /\ DOMAIN Append(q, m) = 1 .. Len(Append(q, m)) /\ Len(Append(q, m)) = Len(q) + 1
        /\ Append(q, m)[Len(q) + 1] = m
        /\ \A i \in 1 .. Len(q) : Append(q, m)[i] = q[i]
        /\ \A i \in 1 .. Len(Append(q, m)) : i \in 1 .. Len(q) \/ i = Len(q) + 1
    BY LastSent
  <2>2. DOMAIN q \subseteq DOMAIN Append(q, m) /\ Len(q) + 1 \in DOMAIN Append(q, m)
    BY <1>1, <2>1
  <2>3. m \notin S /\ NoneOf(q, S) => NoneOf(Append(q, m), S)
    BY <1>1, <2>1 DEF NoneOf
  <2>4. m \notin S /\ Ends(q, S, v) => Ends(Append(q, m), S, v)
    <3>1. SUFFICES ASSUME m \notin S, NEW i \in DOMAIN q, q[i] = v,
                          \A j \in DOMAIN q : j > i => q[j] \notin S
                   PROVE  Ends(Append(q, m), S, v)
      BY DEF Ends
    <3>2. i \in DOMAIN Append(q, m) /\ Append(q, m)[i] = v
      BY <1>1, <2>1, <2>2, <3>1
    <3>3. \A j \in DOMAIN Append(q, m) : j > i => Append(q, m)[j] \notin S
      BY <1>1, <2>1, <3>1
    <3> QED  BY <3>2, <3>3 DEF Ends
  <2>5. m = v => Ends(Append(q, m), S, v)
    <3>1. \A j \in DOMAIN Append(q, m) : ~ (j > Len(q) + 1)  BY <1>1, <2>1
    <3> QED  BY <2>1, <2>2, <3>1 DEF Ends
  <2> QED  BY <2>3, <2>4, <2>5
<1> QED  BY <1>2, <1>3

(* The mailbox of c has got no turn status, and has lost none. *)
NoStatus(c) ==
  \/ aq'[c] = aq[c]
  \/ aq[c] # <<>> /\ Head(aq[c]) \notin StatusMail /\ aq'[c] = Tail(aq[c])
  \/ \E m \in ActorMessages : m \notin StatusMail /\ aq'[c] = Append(aq[c], m)

(* Steps that neither tell c anything nor move it. *)
Undisturbed(c) ==
  /\ client'[c] = client[c] /\ conn'[c].pc \in Placed /\ slots'[Owner(c)] = slots[Owner(c)]
  /\ turn' = turn /\ sock'[c] = sock[c] /\ view'[c] = view[c]
  /\ NoStatus(c)

LEMMA StatusFacts ==
  ASSUME TypeOK, NEW c \in Conns
  PROVE  /\ StatusOf(c) \in Statuses
         /\ \A s \in Statuses : SendTcp(s) \in StatusMail /\ SendTcp(s).what = s
         /\ \A s \in Statuses, t \in Statuses : SendTcp(s) = SendTcp(t) => s = t
         /\ SendTcp(Chat) \in ActorMessages /\ SendTcp(Chat) \notin StatusMail
         /\ aq[c] \in Seq(ActorMessages) /\ sock[c] \in Seq(Statuses) /\ view[c] \in Statuses
<1>1. turn.phase \in Phases  BY DEF TypeOK, T!Turn, Phases
<1>2. \A s \in Statuses \cup {Chat} :
        SendTcp(s) \in ActorMessages /\ SendTcp(s).msg = "SendTcp" /\ SendTcp(s).what = s
  BY MessageFacts
<1>3. Chat \notin Statuses  BY OtherWords DEF Statuses
<1>4. aq[c] \in Seq(ActorMessages) /\ sock[c] \in Seq(Statuses) /\ view[c] \in Statuses
  BY DEF TypeOK
<1>5. StatusOf(c) \in Statuses  BY <1>1 DEF StatusOf, Statuses
<1> QED  BY <1>2, <1>3, <1>4, <1>5 DEF StatusMail

LEMMA StaysTold ==
  ASSUME TypeOK, NEW c \in Conns, InRoom(c), Told(c), Undisturbed(c)
  PROVE  InRoom(c)' /\ Told(c)'
<1> DEFINE v == SendTcp(StatusOf(c))
<1>1. StatusOf(c)' = StatusOf(c) /\ v \in StatusMail /\ aq[c] \in Seq(ActorMessages)
  BY StatusFacts DEF Undisturbed, StatusOf
<1>2. InRoom(c)'  BY DEF InRoom, Undisturbed
<1> HIDE DEF v
<1>3. /\ Ends(aq[c], StatusMail, v) => Ends(aq'[c], StatusMail, v)
      /\ NoneOf(aq[c], StatusMail) => NoneOf(aq'[c], StatusMail)
  <2>1. CASE aq'[c] = aq[c]  BY <2>1
  <2>2. CASE aq[c] # <<>> /\ Head(aq[c]) \notin StatusMail /\ aq'[c] = Tail(aq[c])
    BY <1>1, <2>2, EndsFacts
  <2>3. ASSUME NEW m \in ActorMessages, m \notin StatusMail, aq'[c] = Append(aq[c], m)
        PROVE  /\ Ends(aq[c], StatusMail, v) => Ends(aq'[c], StatusMail, v)
               /\ NoneOf(aq[c], StatusMail) => NoneOf(aq'[c], StatusMail)
    BY <1>1, <2>3, EndsFacts
  <2> QED  BY <2>1, <2>2, <2>3 DEF Undisturbed, NoStatus
<1>5. sock'[c] = sock[c] /\ view'[c] = view[c]  BY DEF Undisturbed
<1>6. \/ Ends(aq'[c], StatusMail, v)
      \/ /\ NoneOf(aq'[c], StatusMail)
         /\ \/ sock'[c] # <<>> /\ sock'[c][Len(sock'[c])] = StatusOf(c)
            \/ sock'[c] = <<>> /\ view'[c] = StatusOf(c)
  BY <1>3, <1>5 DEF Told, v
<1>7. StatusMail' = StatusMail /\ v' = v
  BY <1>1 DEF StatusMail, ActorMessages, v, SendTcp, ToActor
<1> QED  BY <1>1, <1>2, <1>6, <1>7 DEF Told, v

(* The switch of players tells everyone in the room its new status. *)
LEMMA ToldSwitch ==
  ASSUME IInv, Inner, SwitchPlayer, NEW c \in Conns, InRoom(c), Told(c)
  PROVE  InRoom(c)' /\ Told(c)'
<1> DEFINE next == ActiveConn(turn')
           s == IF c = next THEN turn'.phase ELSE Wait
<1>1. TypeOK /\ T!HasActive(turn) /\ SeatOwners  BY DEF IInv
<1>2. /\ turn' = T!SwitchToNextPlayer(turn)
      /\ aq' = TurnMessages(aq, next, turn'.phase)
      /\ UNCHANGED <<slots, conn, sock, view, client>>
  BY DEF SwitchPlayer, connVars, clientVars
<1>3. Owner(c) \in Players /\ slots[Owner(c)].conn = c /\ slots[Owner(c)].online
  BY ConnFacts DEF InRoom
<1>4. Open(c) /\ c \in OnlineSeats
  <2>1. actor[c] \in Busy \cup {"boot"}
    BY DEF InRoom, Placed, Inner, ActorOfConn
  <2> QED  BY <1>3, <2>1 DEF Open, Busy, OnlineSeats
<1>5. turn' \in T!Turn /\ T!Active(turn') \in Players
  BY <1>1, <1>2, SwitchFacts
<1>6. c = next <=> Owner(c) = T!Active(turn')
  BY <1>1, <1>3, <1>5 DEF SeatOwners, ActiveConn
<1>7. StatusOf(c)' = s  BY <1>6 DEF StatusOf
<1>8. aq'[c] = Append(aq[c], SendTcp(s))
  <2> DEFINE q == Post(aq, OnlineSeats \ {next}, SendTcp(Wait))
  <2>1. aq' = Post(q, {next}, SendTcp(turn'.phase))  BY <1>2 DEF TurnMessages
  <2>2. q[c] = IF c \in OnlineSeats \ {next} /\ Open(c)
               THEN Append(aq[c], SendTcp(Wait)) ELSE aq[c]
    BY DEF Post
  <2> HIDE DEF q, next
  <2>3. aq'[c] = IF c = next /\ Open(c) THEN Append(q[c], SendTcp(turn'.phase)) ELSE q[c]
    BY <2>1 DEF Post
  <2> QED  BY <1>4, <2>2, <2>3
<1> HIDE DEF s
<1>9. Ends(aq'[c], StatusMail, SendTcp(s))
  <2>1. s \in Statuses  BY <1>5 DEF s, T!Turn, Statuses, Phases
  <2>2. /\ SendTcp(s) \in StatusMail /\ SendTcp(s) \in ActorMessages
        /\ aq[c] \in Seq(ActorMessages)
    BY <1>1, <2>1, StatusFacts DEF StatusMail
  <2> QED  BY <1>8, <2>2, EndsFacts
<1>10. Ends(aq[c], StatusMail, SendTcp(StatusOf(c)))'
  BY <1>7, <1>9 DEF SendTcp, ToActor, StatusMail, ActorMessages, Ends
<1> QED  BY <1>2, <1>10 DEF InRoom, Told

(* The actor of c passes a message on. *)
LEMMA ToldForwardTcp ==
  ASSUME IInv, Inner, NEW c \in Conns, ForwardTcp(c), InRoom(c), Told(c)
  PROVE  InRoom(c)' /\ Told(c)'
<1> DEFINE m == Head(aq[c])
           v == SendTcp(StatusOf(c))
<1>1. TypeOK  BY DEF IInv
<1>2. /\ aq[c] # <<>> /\ m.msg = "SendTcp"
      /\ UNCHANGED <<turn, slots, conn, client, view>>
  BY DEF ForwardTcp, Handles, serverVars, clientVars
<1>3. SocketOpen(c)  BY DEF SocketOpen, InRoom, Placed, Booting, Loop, Over
<1>4. /\ aq' = [aq EXCEPT ![c] = Tail(@)]
      /\ sock' = IF m.what \in Statuses
                 THEN [sock EXCEPT ![c] = Append(@, m.what)] ELSE sock
  BY <1>3 DEF ForwardTcp, PopTo
<1>5. /\ aq[c] \in Seq(ActorMessages) /\ sock[c] \in Seq(Statuses)
      /\ StatusOf(c) \in Statuses /\ v \in StatusMail
      /\ \A s \in Statuses : SendTcp(s).what = s
  BY <1>1, StatusFacts
<1>6. m \in ActorMessages /\ (m \in StatusMail <=> m.what \in Statuses)
  <2>1. m \in ActorMessages  BY <1>2, <1>5
  <2> QED  BY <1>2, <2>1 DEF StatusMail
<1>7. aq'[c] = Tail(aq[c])  BY <1>1, <1>4 DEF TypeOK
<1>8. CASE m \notin StatusMail
  <2>1. sock' = sock /\ NoStatus(c)
    BY <1>2, <1>4, <1>6, <1>7, <1>8 DEF NoStatus
  <2>2. Undisturbed(c)  BY <1>2, <2>1 DEF Undisturbed, InRoom
  <2> QED  BY <1>1, <2>2, StaysTold
<1>9. CASE m \in StatusMail
  <2>1. sock'[c] = Append(sock[c], m.what)
    <3>1. DOMAIN sock = Conns  BY <1>1 DEF TypeOK
    <3> HIDE DEF m
    <3> QED  BY <1>4, <1>6, <1>9, <3>1
  <2>2. sock'[c] # <<>> /\ sock'[c][Len(sock'[c])] = m.what
    BY <1>5, <1>6, <1>9, <2>1
  <2>3. Ends(aq[c], StatusMail, v)
    <3>1. 1 \in DOMAIN aq[c] /\ aq[c][1] = m  BY <1>2, <1>5
    <3>2. ~ NoneOf(aq[c], StatusMail)  BY <1>9, <3>1 DEF NoneOf
    <3> QED  BY <3>2 DEF Told
  <2> HIDE DEF m, v
  <2>4. \/ Ends(aq'[c], StatusMail, v)
        \/ m = v /\ NoneOf(aq'[c], StatusMail)
    BY <1>2, <1>5, <1>7, <2>3, EndsFacts DEF m
  <2>5. m = v => sock'[c][Len(sock'[c])] = StatusOf(c)  BY <1>5, <2>2 DEF v
  <2>6. StatusOf(c)' = StatusOf(c) /\ StatusMail' = StatusMail /\ v' = v
    BY <1>2 DEF StatusOf, StatusMail, ActorMessages, v, SendTcp, ToActor
  <2>7. Told(c)'  BY <2>2, <2>4, <2>5, <2>6 DEF Told, v
  <2> QED  BY <1>2, <2>7 DEF InRoom
<1> QED  BY <1>8, <1>9

(* The connection of c passes a turn status on, and the client shows it. *)
LEMMA ToldForwardToClient ==
  ASSUME IInv, NEW c \in Conns, ForwardToClient(c), InRoom(c), Told(c)
  PROVE  InRoom(c)' /\ Told(c)'
<1>1. TypeOK  BY DEF IInv
<1>2. /\ sock[c] # <<>> /\ sock' = [sock EXCEPT ![c] = Tail(@)]
      /\ view' = [view EXCEPT ![c] = Head(sock[c])]
      /\ UNCHANGED <<turn, slots, conn, client, aq>>
  BY DEF ForwardToClient, InRoom, serverVars, actorVars
<1>3. sock'[c] = Tail(sock[c]) /\ view'[c] = Head(sock[c])
  BY <1>1, <1>2 DEF TypeOK
<1>4. sock[c] \in Seq(Statuses)  BY <1>1 DEF TypeOK
<1>5. sock[c][Len(sock[c])] = StatusOf(c) =>
        \/ sock'[c] # <<>> /\ sock'[c][Len(sock'[c])] = StatusOf(c)
        \/ sock'[c] = <<>> /\ view'[c] = StatusOf(c)
  <2> DEFINE q == sock[c]
  <2>1. q \in Seq(Statuses) /\ q # <<>>  BY <1>2, <1>4
  <2> HIDE DEF q
  <2> DEFINE r == Tail(q)
  <2>2. /\ Head(q) = q[1] /\ Len(q) = Len(r) + 1 /\ Len(r) \in Nat /\ r \in Seq(Statuses)
        /\ \A i \in 1 .. Len(r) : r[i] = q[i + 1]
    BY <2>1, FirstTaken
  <2> HIDE DEF r
  <2>3. r # <<>> => r[Len(r)] = q[Len(q)]
    <3>1. r # <<>> => Len(r) \in 1 .. Len(r)  BY <2>2
    <3> QED  BY <2>2, <3>1
  <2>4. r = <<>> => Head(q) = q[Len(q)]
    <3>1. r = <<>> => Len(r) = 0  BY <2>2
    <3> QED  BY <2>2, <3>1
  <2> QED  BY <1>3, <2>3, <2>4 DEF q, r
<1>6. StatusOf(c)' = StatusOf(c) /\ StatusMail' = StatusMail
      /\ SendTcp(StatusOf(c))' = SendTcp(StatusOf(c))
  BY <1>2 DEF StatusOf, StatusMail, ActorMessages, SendTcp, ToActor
<1>7. Told(c)'  BY <1>2, <1>5, <1>6 DEF Told
<1> QED  BY <1>2, <1>7 DEF InRoom

(* The mailbox of c gets at most one message, and no turn status. *)
LEMMA PostedNoStatus ==
  ASSUME NEW c \in Conns, NEW C, NEW m \in ActorMessages, m \notin StatusMail,
         aq' = Post(aq, C, m)
  PROVE  NoStatus(c)
<1>1. aq'[c] = aq[c] \/ aq'[c] = Append(aq[c], m)  BY DEF Post
<1> QED  BY <1>1 DEF NoStatus

LEMMA SentNoStatus ==
  ASSUME TypeOK, NEW c \in Conns, NEW x, NEW m \in ActorMessages, m \notin StatusMail,
         aq' = [aq EXCEPT ![x] = Append(@, m)]
  PROVE  NoStatus(c)
<1>1. DOMAIN aq = Conns  BY DEF TypeOK
<1>2. aq'[c] = aq[c] \/ aq'[c] = Append(aq[c], m)  BY <1>1, Zenon
<1> QED  BY <1>2 DEF NoStatus

LEMMA OtherMail ==
  /\ SendTcp(Chat) \in ActorMessages /\ SendTcp(Chat) \notin StatusMail
  /\ SyncWithClient \in ActorMessages /\ SyncWithClient \notin StatusMail
  /\ \A c \in Conns \cup {NoConn} :
       GetUsername(c) \in ActorMessages /\ GetUsername(c) \notin StatusMail
  /\ \A c \in Conns : TakePeer(c) \in ActorMessages /\ TakePeer(c) \notin StatusMail
  /\ \A k \in Phases \cup {Nothing}, c \in Conns :
       Move(k, c) \in ActorMessages /\ Move(k, c) \notin StatusMail
<1>1. Chat \notin Statuses  BY OtherWords DEF Statuses
<1> QED  BY <1>1, MessageFacts DEF StatusMail

(* The game server, but for the switch of players.  A slot that is online is  *)
(* neither replaced nor, while its connection lives, marked offline.       *)
LEMMA ToldServer ==
  ASSUME IInv, Inner, GameServerNext, ~ SwitchPlayer, NEW c \in Conns, InRoom(c)
  PROVE  Undisturbed(c)
<1> DEFINE h == Head(gq).from
<1>1. /\ TypeOK /\ conn[c].pc \in Placed
      /\ conn \in [Conns -> [pc : ConnPlaces, val : Conns \cup {NoConn},
                             move : Phases \cup {Nothing}]]
  BY DEF IInv, TypeOK, InRoom
<1>2. UNCHANGED <<turn, view, sock, client>>
  BY DEF GameServerNext, GetActivePlayer, GetMonsters, DropMonsterOrContinue,
     BroadcastGameState, Broadcast, IsPeerConnected, ReconnectPeer, GetPeerUsername,
     DropPeer, SearchByName, AnswerUsername, MarkOffline, SearchOn, AnswerSearch,
     connVars, clientVars
<1>3. NoStatus(c)
  <2>1. CASE BroadcastGameState
    <3>1. aq' = aq \/ aq' = Post(aq, Seated \ {Head(gq).from}, SyncWithClient)
      BY <2>1 DEF BroadcastGameState
    <3> QED  BY <3>1, OtherMail, PostedNoStatus DEF NoStatus
  <2>2. CASE Broadcast
    <3>1. aq' = Post(aq, OnlineSeats \ {Head(gq).from}, SendTcp(Chat))
      BY <2>2 DEF Broadcast
    <3> QED  BY <3>1, OtherMail, PostedNoStatus
  <2>3. CASE MarkOffline
    <3>1. aq' = Post(aq, OnlineSeats \ {gwait.asked}, SendTcp(Chat))
      BY <2>3 DEF MarkOffline
    <3> QED  BY <3>1, OtherMail, PostedNoStatus
  <2>4. ASSUME NEW op, NEW x, NEW found, Ask(op, x, found)
        PROVE  NoStatus(c)
    <3>1. aq' = aq \/ aq' = [aq EXCEPT ![x] = Append(@, GetUsername(NoConn))]
      BY <2>4 DEF Ask
    <3> QED  BY <1>1, <3>1, OtherMail, SentNoStatus DEF NoStatus
  <2>5. CASE UNCHANGED aq  BY <2>5 DEF NoStatus
  <2>6. CASE GetPeerUsername \/ DropPeer \/ SearchByName \/ SearchOn
    BY <2>4, <2>5, <2>6 DEF GetPeerUsername, DropPeer, SearchByName, SearchOn
  <2>7. \/ BroadcastGameState \/ Broadcast \/ MarkOffline
        \/ GetPeerUsername \/ DropPeer \/ SearchByName \/ SearchOn \/ UNCHANGED aq
    BY DEF GameServerNext, GetActivePlayer, GetMonsters, DropMonsterOrContinue,
       IsPeerConnected, ReconnectPeer, AnswerUsername, AnswerSearch, actorVars
  <2> QED  BY <2>1, <2>2, <2>3, <2>5, <2>6, <2>7
<1>4. conn'[c].pc \in Placed
  <2>1. \/ conn' = conn
        \/ conn' = [conn EXCEPT ![h].pc = "got_active", ![h].val = ActiveConn(turn)]
        \/ \E pc \in {"booted", "read", "answer_turn"} : conn' = [conn EXCEPT ![h].pc = pc]
    BY DEF GameServerNext, GetActivePlayer, GetMonsters, DropMonsterOrContinue,
       BroadcastGameState, Broadcast, IsPeerConnected, ReconnectPeer, GetPeerUsername,
       DropPeer, SearchByName, AnswerUsername, MarkOffline, SearchOn, AnswerSearch, connVars
  <2> HIDE DEF h
  <2>2. conn'[c].pc \in {conn[c].pc, "got_active", "booted", "read", "answer_turn"}
    BY <1>1, <2>1
  <2> QED  BY <1>1, <2>2 DEF Placed, Booting, Loop
<1>5. slots'[Owner(c)] = slots[Owner(c)]
  <2>1. /\ Owner(c) \in Players /\ slots[Owner(c)].conn = c /\ slots[Owner(c)].online
        /\ conn[c].pc # "ended"
    BY ConnFacts DEF InRoom, Placed, Booting, Loop
  <2>2. CASE ReconnectPeer
    <3>1. /\ gq # <<>> /\ Head(gq).cmd = "ReconnectPeer"
          /\ slots' = [p \in Players |-> IF slots[p].conn = Head(gq).arg
                                         THEN [conn |-> h, online |-> TRUE]
                                         ELSE slots[p]]
      BY <2>2 DEF ReconnectPeer, Receive
    <3>2. /\ iwait.op = "reconnect" /\ iwait.got = Nothing
          /\ iwait.from = h /\ Head(gq).arg = iwait.old
      BY <3>1, HeadLobby DEF IntroAsks
    <3>3. h \in Conns /\ iwait.from \in here /\ iwait.old = SeatOf(iwait.from).conn
      BY <3>1, <3>2, HeadTask DEF Inner, HandingOver, Seen, Found
    <3>4. ~ SeatOf(iwait.from).online
      BY <3>2, <3>3 DEF Inner, HereKept, Nothing
    <3>5. conn[iwait.old].pc = "ended"
      BY <3>2, <3>3, <3>4, ConnFacts DEF Inner, SeatKept, SeatOf
    <3> QED  BY <2>1, <3>1, <3>2, <3>5
  <2>3. CASE MarkOffline
    <3>1. /\ gwait.op = "DropPeer" /\ gwait.op # "idle"
          /\ slots' = [p \in Players |-> IF slots[p].conn = gwait.asked
                                         THEN [slots[p] EXCEPT !.online = FALSE]
                                         ELSE slots[p]]
      BY <2>3 DEF MarkOffline, Came
    <3>2. gq # <<>> /\ Head(gq).cmd = "DropPeer" /\ gwait.asked = h
      BY <3>1 DEF Inner, ServerWait
    <3>3. conn[gwait.asked].pc = "ended"  BY <3>2, HeadTask
    <3> QED  BY <2>1, <3>1, <3>3
  <2>4. ReconnectPeer \/ MarkOffline \/ UNCHANGED slots
    BY DEF GameServerNext, GetActivePlayer, GetMonsters, DropMonsterOrContinue,
       BroadcastGameState, Broadcast, IsPeerConnected, GetPeerUsername, DropPeer,
       SearchByName, AnswerUsername, SearchOn, AnswerSearch
  <2> QED  BY <2>2, <2>3, <2>4
<1> QED  BY <1>2, <1>3, <1>4, <1>5 DEF Undisturbed

LEMMA ToldIntro ==
  ASSUME IInv, Inner, IntroServerNext, NEW c \in Conns, InRoom(c)
  PROVE  Undisturbed(c)
<1>1. /\ conn[c].pc \in Placed
      /\ conn \in [Conns -> [pc : ConnPlaces, val : Conns \cup {NoConn},
                             move : Phases \cup {Nothing}]]
  BY DEF IInv, TypeOK, InRoom
<1>2. UNCHANGED <<turn, slots, aq, view, sock, client>>
  BY DEF IntroServerNext, RejectLogin, AskIdByName, AskConnected, AcceptLogin,
     AlreadyLogged, ReceiveEnterGame, StartReconnection, HandOver, ReplaceSeat,
     EndReconnection, IntroDropPeer, serverVars, actorVars, connVars, clientVars
<1>3. conn'[c] = conn[c]
  <2>1. CASE RejectLogin
    <3> DEFINE h == Head(iq).from
    <3>1. /\ iq # <<>> /\ Head(iq).cmd = "LoginPlayer"
          /\ conn' = [conn EXCEPT ![h].pc = "rejected"]
      BY <2>1 DEF RejectLogin, IntroReceive, Rejected
    <3>2. conn[h].pc = "w_login"  BY <3>1, HeadIntro
    <3> HIDE DEF h
    <3>3. c # h  BY <1>1, <3>2 DEF Placed, Booting, Loop
    <3> QED  BY <1>1, <3>1, <3>3
  <2>2. CASE AcceptLogin \/ AlreadyLogged
    <3>1. /\ iwait.op \in {"id", "connected"}
          /\ \/ conn' = [conn EXCEPT ![iwait.from].pc = "logged"]
             \/ conn' = [conn EXCEPT ![iwait.from].pc = "rejected"]
      BY <2>2 DEF AcceptLogin, AlreadyLogged, Logged, Rejected
    <3>2. iwait.from \in Conns /\ conn[iwait.from].pc = "w_login"
      BY <3>1 DEF Inner, Answers, IntroMail, IntroMailOf
    <3>3. c # iwait.from  BY <1>1, <3>2 DEF Placed, Booting, Loop
    <3> QED  BY <1>1, <3>1, <3>3
  <2>3. CASE HandOver
    <3>1. \/ conn' = conn
          \/ /\ conn[iwait.from].pc = "entering"
             /\ conn' = [conn EXCEPT ![iwait.from].pc = "take",
                                     ![iwait.from].val = iwait.old]
      BY <2>3 DEF HandOver
    <3>2. conn[iwait.from].pc = "entering" => c # iwait.from
      BY <1>1 DEF Placed, Booting, Loop
    <3> QED  BY <1>1, <3>1, <3>2
  <2>4. RejectLogin \/ AcceptLogin \/ AlreadyLogged \/ HandOver \/ UNCHANGED conn
    BY DEF IntroServerNext, AskIdByName, AskConnected, ReceiveEnterGame, StartReconnection,
       ReplaceSeat, EndReconnection, IntroDropPeer, connVars
  <2> QED  BY <2>1, <2>2, <2>3, <2>4
<1> QED  BY <1>1, <1>2, <1>3 DEF Undisturbed, NoStatus

(* A peer actor, but for a message that it gives to the connection of c. *)
LEMMA ToldActor ==
  ASSUME IInv, Inner, NEW x \in Conns, PeerActorNext(x), NEW c \in Conns, InRoom(c),
         ~ (ForwardTcp(x) /\ x = c), ~ (RefuseMove(x) /\ x = c)
  PROVE  Undisturbed(c)
<1>1. /\ TypeOK /\ conn[c].pc \in Placed
      /\ conn \in [Conns -> [pc : ConnPlaces, val : Conns \cup {NoConn},
                             move : Phases \cup {Nothing}]]
      /\ aq \in [Conns -> Seq(ActorMessages)] /\ sock \in [Conns -> Seq(Statuses)]
  BY DEF IInv, TypeOK, InRoom
<1>2. UNCHANGED <<turn, slots, view, client>>
  BY DEF PeerActorNext, AnswerGetUsername, AnswerTakePeer, ForwardTcp, StartMove,
     RefuseMove, GoOnToSwitch, FinishMove, StartSync, FinishSync, EndWithoutHandles,
     serverVars, clientVars
<1>3. sock'[c] = sock[c]
  <2>1. CASE ForwardTcp(x)
    <3>1. sock' = sock \/ \E s : sock' = [sock EXCEPT ![x] = s]
      BY <2>1 DEF ForwardTcp
    <3> QED  BY <1>1, <2>1, <3>1
  <2>2. ForwardTcp(x) \/ UNCHANGED sock
    BY DEF PeerActorNext, AnswerGetUsername, AnswerTakePeer, StartMove, RefuseMove, GoOnToSwitch,
       FinishMove, StartSync, FinishSync, EndWithoutHandles, connVars
  <2> QED  BY <2>1, <2>2
<1>4. NoStatus(c)
  <2>1. CASE AnswerGetUsername(x) \/ AnswerTakePeer(x) \/ StartMove(x) \/ StartSync(x)
    <3>1. aq[x] # <<>> /\ Head(aq[x]).msg # "SendTcp" /\ aq' = [aq EXCEPT ![x] = Tail(@)]
      BY <2>1 DEF AnswerGetUsername, AnswerTakePeer, StartMove, StartSync, Handles, PopTo
    <3>2. Head(aq[x]) \notin StatusMail  BY <3>1 DEF StatusMail
    <3> QED  BY <1>1, <3>1, <3>2 DEF NoStatus
  <2>2. CASE ForwardTcp(x) \/ RefuseMove(x) \/ (FinishSync(x) /\ ~ SocketOpen(x))
    <3>1. x # c  BY <1>1, <2>2 DEF SocketOpen, Placed, Booting, Loop, Over
    <3>2. \E q : aq' = [aq EXCEPT ![x] = q]
      BY <2>2 DEF ForwardTcp, RefuseMove, FinishSync, PopTo, FailAndDie
    <3> QED  BY <1>1, <3>1, <3>2 DEF NoStatus
  <2>3. CASE UNCHANGED aq  BY <2>3 DEF NoStatus
  <2>4. \/ AnswerGetUsername(x) \/ AnswerTakePeer(x) \/ StartMove(x) \/ StartSync(x)
        \/ ForwardTcp(x) \/ RefuseMove(x) \/ (FinishSync(x) /\ ~ SocketOpen(x))
        \/ UNCHANGED aq
    BY DEF PeerActorNext, GoOnToSwitch, FinishMove, FinishSync, EndWithoutHandles, actorVars
  <2> QED  BY <2>1, <2>2, <2>3, <2>4
<1>5. conn'[c].pc \in Placed
  <2>1. CASE AnswerTakePeer(x)
    <3> DEFINE d == Head(aq[x]).asker
    <3>1. /\ aq[x] # <<>> /\ Head(aq[x]).msg = "TakePeer"
          /\ conn' = [conn EXCEPT ![d].pc = "taken"]
      BY <2>1 DEF AnswerTakePeer, Handles
    <3>2. conn[d].pc = "w_take"  BY <3>1, HeadMail
    <3> HIDE DEF d
    <3>3. c # d  BY <1>1, <3>2 DEF Placed, Booting, Loop
    <3> QED  BY <1>1, <3>1, <3>3
  <2>2. CASE \E y : \E pc \in {"chat", "answer_turn"} : conn' = [conn EXCEPT ![y].pc = pc]
    <3>1. conn'[c].pc \in {conn[c].pc, "chat", "answer_turn"}  BY <1>1, <2>2
    <3> QED  BY <1>1, <3>1 DEF Placed, Loop
  <2>3. CASE RefuseMove(x)
    <3>1. x # c /\ conn' = [conn EXCEPT ![x].pc = "refused"]
      BY <2>3 DEF RefuseMove
    <3> QED  BY <1>1, <3>1
  <2>4. CASE UNCHANGED conn  BY <1>1, <2>4
  <2>5. \/ AnswerTakePeer(x) \/ RefuseMove(x) \/ UNCHANGED conn
        \/ \E y : \E pc \in {"chat", "answer_turn"} : conn' = [conn EXCEPT ![y].pc = pc]
    BY DEF PeerActorNext, AnswerGetUsername, ForwardTcp, StartMove, GoOnToSwitch, FinishMove,
       StartSync, FinishSync, EndWithoutHandles, connVars
  <2> QED  BY <2>1, <2>2, <2>3, <2>4, <2>5
<1> QED  BY <1>2, <1>3, <1>4, <1>5 DEF Undisturbed

(* A connection, but for a turn status that it gives to the client of c. *)
LEMMA ToldConnection ==
  ASSUME IInv, Inner, NEW x \in Conns, ConnectionNext(x), NEW c \in Conns, InRoom(c),
         ~ (ForwardToClient(x) /\ x = c)
  PROVE  Undisturbed(c)
<1>1. /\ TypeOK /\ conn[c].pc \in Placed /\ client[c] = "on"
      /\ conn \in [Conns -> [pc : ConnPlaces, val : Conns \cup {NoConn},
                             move : Phases \cup {Nothing}]]
      /\ aq \in [Conns -> Seq(ActorMessages)] /\ sock \in [Conns -> Seq(Statuses)]
      /\ client \in [Conns -> {"none", "on", "off"}] /\ view \in [Conns -> Statuses]
  BY DEF IInv, TypeOK, InRoom
<1>2. UNCHANGED <<turn, slots>> /\ (MoveLost(x) => x # c)
  <2>1. UNCHANGED <<turn, slots>>
    BY DEF ConnectionNext, Login, EnterGame, EndInIntro, TakeOver, OpenMailbox,
       AskMonsters, SpawnActor, StartFails, ForwardToClient, ReadMove, TurnOk, TurnErr,
       EndOfTurn, ReadChat, SendChat, EndInGame, MoveLost, serverVars
  <2>2. ASSUME MoveLost(x)
        PROVE  x # c
    <3>1. conn[x].pc = "refused"  BY <2>2 DEF MoveLost, At
    <3> QED  BY <1>1, <3>1 DEF Placed, Booting, Loop
  <2> QED  BY <2>1, <2>2
<1>3. NoStatus(c)
  <2>1. CASE TakeOver(x)
    <3>1. aq' = aq \/ aq' = [aq EXCEPT ![conn[x].val] = Append(@, TakePeer(x))]
      BY <2>1 DEF TakeOver
    <3> QED  BY <1>1, <3>1, OtherMail, SentNoStatus DEF NoStatus
  <2>2. CASE TurnOk(x)
    <3>1. aq' = [aq EXCEPT ![x] = Append(@, Move(conn[x].move, x))]
      BY <2>2 DEF TurnOk
    <3>2. conn[x].move \in Phases \cup {Nothing}  BY <1>1
    <3> QED  BY <1>1, <3>1, <3>2, OtherMail, SentNoStatus
  <2>3. CASE EndOfTurn(x)
    <3>1. aq' = [aq EXCEPT ![x] = Append(@, SyncWithClient)]
      BY <2>3 DEF EndOfTurn
    <3> QED  BY <1>1, <3>1, OtherMail, SentNoStatus
  <2>4. CASE ReadChat(x)
    <3>1. aq' = [aq EXCEPT ![x] = Append(@, GetUsername(x))]
      BY <2>4 DEF ReadChat
    <3> QED  BY <1>1, <3>1, OtherMail, SentNoStatus
  <2>5. CASE StartFails(x)
    <3>1. x # c /\ aq' = [aq EXCEPT ![x] = <<>>]  BY <1>1, <2>5 DEF StartFails
    <3> QED  BY <1>1, <3>1 DEF NoStatus
  <2>6. CASE UNCHANGED aq  BY <2>6 DEF NoStatus
  <2>7. TakeOver(x) \/ TurnOk(x) \/ EndOfTurn(x) \/ ReadChat(x) \/ StartFails(x)
        \/ UNCHANGED aq
    BY DEF ConnectionNext, Login, EnterGame, EndInIntro, OpenMailbox, AskMonsters,
       SpawnActor, ForwardToClient, ReadMove, TurnErr, SendChat, EndInGame, MoveLost,
       actorVars
  <2> QED  BY <2>1, <2>2, <2>3, <2>4, <2>5, <2>6, <2>7
<1>4. conn'[c].pc \in Placed
  <2>1. CASE x # c
    <3>1. \/ conn' = conn
          \/ \E pc : conn' = [conn EXCEPT ![x].pc = pc]
          \/ \E pc, move : conn' = [conn EXCEPT ![x].pc = pc, ![x].move = move]
      BY DEF ConnectionNext, Login, EnterGame, EndInIntro, TakeOver, OpenMailbox,
         AskMonsters, SpawnActor, StartFails, ForwardToClient, ReadMove, TurnOk, TurnErr,
         EndOfTurn, ReadChat, SendChat, EndInGame, MoveLost, Goto
    <3> QED  BY <1>1, <2>1, <3>1
  <2>2. CASE x = c
    <3>1. \/ conn' = conn
          \/ \E pc \in Placed : conn' = [conn EXCEPT ![c].pc = pc]
          \/ \E move : conn' = [conn EXCEPT ![c].pc = "w_active", ![c].move = move]
      BY <1>1, <2>2 DEF ConnectionNext, Login, EnterGame, EndInIntro, TakeOver, OpenMailbox,
         AskMonsters, SpawnActor, StartFails, ForwardToClient, ReadMove, TurnOk, TurnErr,
         EndOfTurn, ReadChat, SendChat, EndInGame, MoveLost, Goto, At, Placed, Booting, Loop
    <3>2. conn'[c].pc \in Placed \cup {"w_active"}  BY <1>1, <3>1
    <3> QED  BY <3>2 DEF Placed, Loop
  <2> QED  BY <2>1, <2>2
<1>5. sock'[c] = sock[c] /\ view'[c] = view[c] /\ client'[c] = client[c]
  <2>1. CASE ForwardToClient(x)
    <3>1. /\ UNCHANGED client
          /\ \E q : sock' = [sock EXCEPT ![x] = q]
          /\ view' = view \/ \E s : view' = [view EXCEPT ![x] = s]
      BY <2>1 DEF ForwardToClient
    <3> QED  BY <1>1, <2>1, <3>1
  <2>2. CASE EndInGame(x)
    <3>1. /\ x # c /\ UNCHANGED <<view, client>>
          /\ sock' = [sock EXCEPT ![x] = <<>>]
      BY <1>1, <2>2 DEF EndInGame
    <3> QED  BY <1>1, <3>1
  <2>3. CASE EndInIntro(x)
    <3>1. /\ x # c /\ UNCHANGED <<view, sock>>
          /\ client' = [client EXCEPT ![x] = "off"]
      BY <1>1, <2>3 DEF EndInIntro, At, Placed, Booting, Loop
    <3> QED  BY <1>1, <3>1
  <2>4. CASE MoveLost(x)
    <3>1. /\ x # c /\ sock' = [sock EXCEPT ![x] = <<>>]
          /\ view' = [view EXCEPT ![x] = Wait] /\ client' = [client EXCEPT ![x] = "off"]
      BY <1>2, <2>4 DEF MoveLost
    <3> QED  BY <1>1, <3>1
  <2>5. \/ ForwardToClient(x) \/ EndInGame(x) \/ EndInIntro(x) \/ MoveLost(x)
        \/ UNCHANGED <<sock, view, client>>
    BY DEF ConnectionNext, Login, EnterGame, TakeOver, OpenMailbox, AskMonsters, SpawnActor,
       StartFails, ReadMove, TurnOk, TurnErr, EndOfTurn, ReadChat, SendChat, clientVars
  <2> QED  BY <2>1, <2>2, <2>3, <2>4, <2>5
<1> QED  BY <1>2, <1>3, <1>4, <1>5 DEF Undisturbed

(* The clients: c stays, and only a Quitter leaves. *)
LEMMA ToldClient ==
  ASSUME IInv, NEW x \in Conns, ClientNext(x), NEW c \in Conns, Stays(c), InRoom(c)
  PROVE  Undisturbed(c)
<1>1. /\ conn[c].pc \in Placed /\ client[c] = "on"
      /\ conn \in [Conns -> [pc : ConnPlaces, val : Conns \cup {NoConn},
                             move : Phases \cup {Nothing}]]
      /\ client \in [Conns -> {"none", "on", "off"}] /\ view \in [Conns -> Statuses]
  BY DEF IInv, TypeOK, InRoom
<1>2. UNCHANGED <<turn, slots, aq, sock>>
  BY DEF ClientNext, Press, TypeChat, Quit, Reconnect, serverVars, actorVars, connVars
<1>3. CASE Quit(x)
  <2>1. /\ Owner(x) \in Quitters /\ UNCHANGED conn
        /\ client' = [client EXCEPT ![x] = "off"] /\ view' = [view EXCEPT ![x] = Wait]
    BY <1>3 DEF Quit, connVars
  <2>2. x # c  BY <2>1 DEF Stays
  <2> QED  BY <1>1, <1>2, <2>1, <2>2 DEF Undisturbed, NoStatus
<1>4. CASE Reconnect(x)
  <2>1. /\ client[x] = "none" /\ UNCHANGED view
        /\ client' = [client EXCEPT ![x] = "on"] /\ conn' = [conn EXCEPT ![x].pc = "login"]
    BY <1>4 DEF Reconnect
  <2>2. x # c  BY <1>1, <2>1
  <2> QED  BY <1>1, <1>2, <2>1, <2>2 DEF Undisturbed, NoStatus
<1>5. CASE UNCHANGED <<conn, client, view>>
  BY <1>1, <1>2, <1>5 DEF Undisturbed, NoStatus
<1> QED  BY <1>3, <1>4, <1>5 DEF ClientNext, Press, TypeChat, connVars

(* A connection that has lost its move stays out of the game. *)
LEMMA GoneOneMoves ==
  ASSUME TypeOK, NEW c \in Conns, NEW x, NEW pc,
         conn' = [conn EXCEPT ![x].pc = pc], conn[c].pc \in {"refused", "ended"},
         conn[x].pc \notin {"refused", "ended"}
  PROVE  conn'[c] = conn[c]
<1>1. conn \in [Conns -> [pc : ConnPlaces, val : Conns \cup {NoConn},
                          move : Phases \cup {Nothing}]]
  BY DEF TypeOK
<1>2. c # x  OBVIOUS
<1> QED  BY <1>1, <1>2

LEMMA GoneServer ==
  ASSUME IInv, Inner, GameServerNext, NEW c \in Conns, Gone(c)
  PROVE  Gone(c)'
<1> DEFINE h == Head(gq).from
<1>1. TypeOK /\ conn[c].pc \in {"refused", "ended"}  BY DEF IInv, Gone
<1>2. UNCHANGED <<eager, client>>
  BY DEF GameServerNext, GetActivePlayer, GetMonsters, DropMonsterOrContinue, SwitchPlayer,
     BroadcastGameState, Broadcast, IsPeerConnected, ReconnectPeer, GetPeerUsername,
     DropPeer, SearchByName, AnswerUsername, MarkOffline, SearchOn, AnswerSearch,
     clientVars
<1>3. conn'[c].pc = conn[c].pc
  <2>1. CASE GetActivePlayer
    <3>1. /\ gq # <<>> /\ Head(gq).cmd = "GetActivePlayer"
          /\ conn' = [conn EXCEPT ![h].pc = "got_active", ![h].val = ActiveConn(turn)]
      BY <2>1 DEF GetActivePlayer, Receive
    <3>2. conn[h].pc = "w_active"  BY <3>1, HeadTask
    <3> HIDE DEF h
    <3>3. c # h  BY <1>1, <3>2
    <3> QED  BY <1>1, <3>1, <3>3 DEF TypeOK
  <2>2. CASE GetMonsters /\ conn' # conn
    <3>1. conn[h].pc = "w_boot" /\ conn' = [conn EXCEPT ![h].pc = "booted"]
      BY <2>2 DEF GetMonsters
    <3> HIDE DEF h
    <3> QED  BY <1>1, <3>1, GoneOneMoves
  <2>3. CASE Broadcast
    <3>1. /\ gq # <<>> /\ Head(gq).cmd = "Broadcast"
          /\ conn' = [conn EXCEPT ![h].pc = "read"]
      BY <2>3 DEF Broadcast, Receive
    <3>2. conn[h].pc = "w_chat"  BY <3>1, HeadTask
    <3> HIDE DEF h
    <3> QED  BY <1>1, <3>1, <3>2, GoneOneMoves
  <2>4. CASE AnswerUsername
    <3>1. gwait.op = "GetPeerUsername" /\ gwait.op # "idle"
          /\ conn' = [conn EXCEPT ![h].pc = "answer_turn"]
      BY <2>4 DEF AnswerUsername, Came
    <3>2. gq # <<>> /\ Head(gq).cmd = "GetPeerUsername"
      BY <3>1 DEF Inner, ServerWait
    <3>3. conn[h].pc = "w_name"  BY <3>2, HeadTask
    <3> HIDE DEF h
    <3> QED  BY <1>1, <3>1, <3>3, GoneOneMoves
  <2>5. CASE UNCHANGED conn  BY <2>5
  <2>6. \/ GetActivePlayer \/ (GetMonsters /\ conn' # conn) \/ Broadcast \/ AnswerUsername
        \/ UNCHANGED conn
    BY DEF GameServerNext, DropMonsterOrContinue, SwitchPlayer, BroadcastGameState,
       IsPeerConnected, ReconnectPeer, GetPeerUsername, DropPeer, SearchByName, MarkOffline,
       SearchOn, AnswerSearch, connVars
  <2> QED  BY <2>1, <2>2, <2>3, <2>4, <2>5, <2>6
<1> QED  BY <1>2, <1>3 DEF Gone

LEMMA GoneIntro ==
  ASSUME IInv, Inner, IntroServerNext, NEW c \in Conns, Gone(c)
  PROVE  Gone(c)'
<1>1. TypeOK /\ conn[c].pc \in {"refused", "ended"}  BY DEF IInv, Gone
<1>2. UNCHANGED <<eager, client>>
  BY DEF IntroServerNext, RejectLogin, AskIdByName, AskConnected, AcceptLogin,
     AlreadyLogged, ReceiveEnterGame, StartReconnection, HandOver, ReplaceSeat,
     EndReconnection, IntroDropPeer, clientVars
<1>3. conn'[c].pc = conn[c].pc
  <2>1. CASE RejectLogin
    <3> DEFINE h == Head(iq).from
    <3>1. /\ iq # <<>> /\ Head(iq).cmd = "LoginPlayer"
          /\ conn' = [conn EXCEPT ![h].pc = "rejected"]
      BY <2>1 DEF RejectLogin, IntroReceive, Rejected
    <3>2. conn[h].pc = "w_login"  BY <3>1, HeadIntro
    <3> HIDE DEF h
    <3> QED  BY <1>1, <3>1, <3>2, GoneOneMoves
  <2>2. CASE AcceptLogin \/ AlreadyLogged
    <3>1. /\ iwait.op \in {"id", "connected"}
          /\ \/ conn' = [conn EXCEPT ![iwait.from].pc = "logged"]
             \/ conn' = [conn EXCEPT ![iwait.from].pc = "rejected"]
      BY <2>2 DEF AcceptLogin, AlreadyLogged, Logged, Rejected
    <3>2. conn[iwait.from].pc = "w_login"
      BY <3>1 DEF Inner, Answers, IntroMail, IntroMailOf
    <3> QED  BY <1>1, <3>1, <3>2, GoneOneMoves
  <2>3. CASE HandOver
    <3>1. \/ conn' = conn
          \/ /\ conn[iwait.from].pc = "entering"
             /\ conn' = [conn EXCEPT ![iwait.from].pc = "take",
                                     ![iwait.from].val = iwait.old]
      BY <2>3 DEF HandOver
    <3>2. conn[iwait.from].pc = "entering" => c # iwait.from  BY <1>1
    <3> QED  BY <1>1, <3>1, <3>2 DEF TypeOK
  <2>4. CASE UNCHANGED conn  BY <2>4
  <2>5. RejectLogin \/ AcceptLogin \/ AlreadyLogged \/ HandOver \/ UNCHANGED conn
    BY DEF IntroServerNext, AskIdByName, AskConnected, ReceiveEnterGame, StartReconnection,
       ReplaceSeat, EndReconnection, IntroDropPeer, connVars
  <2> QED  BY <2>1, <2>2, <2>3, <2>4, <2>5
<1> QED  BY <1>2, <1>3 DEF Gone

LEMMA GoneActor ==
  ASSUME IInv, Inner, NEW x \in Conns, PeerActorNext(x), NEW c \in Conns, Gone(c)
  PROVE  Gone(c)'
<1>1. TypeOK /\ conn[c].pc \in {"refused", "ended"}  BY DEF IInv, Gone
<1>2. UNCHANGED <<eager, client>>
  BY DEF PeerActorNext, AnswerGetUsername, AnswerTakePeer, ForwardTcp, StartMove,
     RefuseMove, GoOnToSwitch, FinishMove, StartSync, FinishSync, EndWithoutHandles,
     clientVars
<1>3. conn'[c].pc = conn[c].pc
  <2>1. CASE FinishMove(x)
    <3>1. conn' = [conn EXCEPT ![x].pc = "answer_turn"] /\ actor[x] = "switched"
      BY <2>1 DEF FinishMove
    <3>2. conn[x].pc = "w_move"  BY <3>1 DEF Inner, MoversWait, MoveUnderWay
    <3> QED  BY <1>1, <3>1, <3>2, GoneOneMoves
  <2>2. CASE RefuseMove(x)
    <3>1. conn' = [conn EXCEPT ![x].pc = "refused"] /\ conn[x].pc = "w_move"
      BY <2>2, RefusedMove DEF RefuseMove
    <3> QED  BY <1>1, <3>1, GoneOneMoves
  <2>3. CASE (AnswerGetUsername(x) \/ AnswerTakePeer(x)) /\ conn' # conn
    <3> DEFINE d == Head(aq[x]).asker
    <3>1. /\ aq[x] # <<>>
          /\ \/ /\ Head(aq[x]).msg = "GetUsername" /\ d # NoConn
                /\ conn' = [conn EXCEPT ![d].pc = "chat"]
             \/ /\ Head(aq[x]).msg = "TakePeer"
                /\ conn' = [conn EXCEPT ![d].pc = "taken"]
      BY <2>3 DEF AnswerGetUsername, AnswerTakePeer, Handles
    <3>2. conn[d].pc \in {"w_chatname", "w_take"}  BY <3>1, HeadMail
    <3> HIDE DEF d
    <3> QED  BY <1>1, <3>1, <3>2, GoneOneMoves
  <2>4. CASE UNCHANGED conn  BY <2>4
  <2>5. \/ FinishMove(x) \/ RefuseMove(x) \/ UNCHANGED conn
        \/ ((AnswerGetUsername(x) \/ AnswerTakePeer(x)) /\ conn' # conn)
    BY DEF PeerActorNext, ForwardTcp, StartMove, GoOnToSwitch, StartSync, FinishSync,
       EndWithoutHandles, connVars
  <2> QED  BY <2>1, <2>2, <2>3, <2>4, <2>5
<1> QED  BY <1>2, <1>3 DEF Gone

LEMMA GoneConnection ==
  ASSUME IInv, Inner, NEW x \in Conns, ConnectionNext(x), NEW c \in Conns, Gone(c)
  PROVE  Gone(c)'
<1>1. /\ TypeOK /\ conn[c].pc \in {"refused", "ended"}
      /\ conn \in [Conns -> [pc : ConnPlaces, val : Conns \cup {NoConn},
                             move : Phases \cup {Nothing}]]
      /\ client \in [Conns -> {"none", "on", "off"}]
  BY DEF IInv, Gone, TypeOK
<1>2. /\ UNCHANGED eager
      /\ client' = client \/ client' = [client EXCEPT ![x] = "off"]
  BY DEF ConnectionNext, Login, EnterGame, EndInIntro, TakeOver, OpenMailbox,
     AskMonsters, SpawnActor, StartFails, ForwardToClient, ReadMove, TurnOk, TurnErr,
     EndOfTurn, ReadChat, SendChat, EndInGame, MoveLost, clientVars
<1>3. CASE x # c
  <2>1. \/ conn' = conn
        \/ \E pc : conn' = [conn EXCEPT ![x].pc = pc]
        \/ \E pc, move : conn' = [conn EXCEPT ![x].pc = pc, ![x].move = move]
    BY DEF ConnectionNext, Login, EnterGame, EndInIntro, TakeOver, OpenMailbox,
       AskMonsters, SpawnActor, StartFails, ForwardToClient, ReadMove, TurnOk, TurnErr,
       EndOfTurn, ReadChat, SendChat, EndInGame, MoveLost, Goto
  <2>2. conn'[c] = conn[c]  BY <1>1, <1>3, <2>1
  <2> QED  BY <1>1, <1>2, <1>3, <2>2 DEF Gone
<1>4. CASE x = c
  <2>1. MoveLost(c) \/ UNCHANGED conn
    BY <1>1, <1>4 DEF ConnectionNext, Login, EnterGame, EndInIntro, TakeOver, OpenMailbox,
       AskMonsters, SpawnActor, StartFails, ForwardToClient, ReadMove, TurnOk, TurnErr,
       EndOfTurn, ReadChat, SendChat, EndInGame, Reads, At
  <2>2. CASE MoveLost(c)
    <3>1. conn' = [conn EXCEPT ![c].pc = "ended"] /\ client' = [client EXCEPT ![c] = "off"]
      BY <2>2 DEF MoveLost, Goto
    <3>2. conn'[c].pc = "ended" /\ client'[c] = "off"  BY <1>1, <3>1
    <3> QED  BY <1>2, <3>2 DEF Gone
  <2>3. CASE UNCHANGED conn
    <3>1. client'[c] = client[c] \/ client'[c] = "off"  BY <1>1, <1>2, <1>4
    <3> QED  BY <1>2, <2>3, <3>1 DEF Gone
  <2> QED  BY <2>1, <2>2, <2>3
<1> QED  BY <1>3, <1>4

LEMMA GoneClient ==
  ASSUME IInv, Started, NEW x \in Conns, ClientNext(x), NEW c \in Conns, Gone(c)
  PROVE  Gone(c)'
<1>1. /\ TypeOK /\ eager /\ conn[c].pc \in {"refused", "ended"}
      /\ conn \in [Conns -> [pc : ConnPlaces, val : Conns \cup {NoConn},
                             move : Phases \cup {Nothing}]]
      /\ client \in [Conns -> {"none", "on", "off"}]
  BY DEF IInv, Gone, TypeOK
<1>2. eager'  BY <1>1 DEF ClientNext, Press, TypeChat, Quit, Reconnect
<1>3. CASE Reconnect(x)
  <2>1. /\ client[x] = "none" /\ conn' = [conn EXCEPT ![x].pc = "login"]
        /\ client' = [client EXCEPT ![x] = "on"]
    BY <1>3 DEF Reconnect
  <2>2. conn[x].pc = "none"  BY <2>1 DEF Started
  <2>3. conn'[c] = conn[c] /\ client'[c] = client[c]  BY <1>1, <2>1, <2>2
  <2> QED  BY <1>2, <2>3 DEF Gone
<1>4. CASE ~ Reconnect(x)
  <2>1. UNCHANGED conn /\ (client' = client \/ client' = [client EXCEPT ![x] = "off"])
    BY <1>4 DEF ClientNext, Press, TypeChat, Quit, connVars
  <2>2. client'[c] = client[c] \/ client'[c] = "off"  BY <1>1, <2>1
  <2> QED  BY <1>2, <2>1, <2>2 DEF Gone
<1> QED  BY <1>3, <1>4

LEMMA GoneStep ==
  ASSUME IInv, Inner, Started, [Next]_vars, NEW c \in Conns, Gone(c)
  PROVE  Gone(c)'
<1>1. CASE UNCHANGED vars  BY <1>1 DEF vars, connVars, clientVars, Gone
<1>2. CASE Next
  BY <1>2, GoneServer, GoneIntro, GoneActor, GoneConnection, GoneClient DEF Next
<1> QED  BY <1>1, <1>2

(* A refused move puts its connection out of the game. *)
LEMMA RefusedGoes ==
  ASSUME TypeOK, NEW c \in Conns, RefuseMove(c)
  PROVE  Gone(c)'
<1>1. /\ eager /\ conn' = [conn EXCEPT ![c].pc = "refused"] /\ UNCHANGED eager
  BY DEF RefuseMove, clientVars
<1>2. conn'[c].pc = "refused"  BY <1>1 DEF TypeOK
<1> QED  BY <1>1, <1>2 DEF Gone

LEMMA AllToldInit == Init => AllTold
<1> SUFFICES ASSUME Init, NEW c \in Conns, Stays(c) PROVE InRoom(c) /\ Told(c)
  BY DEF AllTold
<1>1. TypeOK /\ T!HasActive(turn) /\ SeatOwners  BY InitInv DEF IInv
<1>2. c = First1(Owner(c)) /\ c \in StartConns /\ Owner(c) \in Players
  <2>1. Owner(c) \in Players  BY ConnFacts
  <2>2. c = <<c[1], c[2]>> /\ c[2] = 1  BY DEF Stays, Owner, Conns
  <2> QED  BY <2>1, <2>2 DEF First1, StartConns, Owner
<1>3. slots[Owner(c)] = [conn |-> c, online |-> TRUE]  BY <1>2 DEF Init
<1>4. client[c] = "on" /\ conn[c].pc \in Placed
  BY <1>2 DEF Init, Placed, Booting
<1>5. c = ActiveConn(turn) <=> Owner(c) = T!Active(turn)
  BY <1>1, <1>3, ActiveFacts DEF SeatOwners, ActiveConn
<1>6. aq[c] = <<SendTcp(StatusOf(c))>>  BY <1>2, <1>5 DEF Init, StatusOf
<1>7. Ends(aq[c], StatusMail, SendTcp(StatusOf(c)))
  <2> DEFINE m == SendTcp(StatusOf(c))
  <2> HIDE DEF m
  <2>1. DOMAIN <<m>> = {1} /\ <<m>>[1] = m  OBVIOUS
  <2>2. Ends(<<m>>, StatusMail, m)  BY <2>1 DEF Ends
  <2> QED  BY <1>6, <2>2 DEF m
<1> QED  BY <1>3, <1>4, <1>7 DEF InRoom, Told

LEMMA AllToldStep ==
  ASSUME IInv, Started, AllTold, [Next]_vars
  PROVE  AllTold'
<1> SUFFICES ASSUME Running', NEW c \in Conns, Stays(c)
             PROVE  (InRoom(c)' /\ Told(c)') \/ Gone(c)'
  BY DEF AllTold, Stays
<1>1. TypeOK  BY DEF IInv
<1>2. CASE UNCHANGED vars
  <2>1. UNCHANGED <<turn, slots, aq, conn, sock, view, client, crashed>>
    BY <1>2 DEF vars, serverVars, actorVars, connVars, clientVars
  <2>2. CASE InRoom(c) /\ Told(c)
    <3>1. Undisturbed(c)  BY <2>1, <2>2 DEF Undisturbed, NoStatus, InRoom
    <3> QED  BY <1>1, <2>2, <3>1, StaysTold
  <2>3. CASE Gone(c)  BY <1>2, <2>3 DEF vars, connVars, clientVars, Gone
  <2> QED  BY <2>1, <2>2, <2>3 DEF AllTold, Running
<1>3. CASE Next
  <2>1. Running  BY <1>3, OnlyRunning
  <2>2. Inner /\ ((InRoom(c) /\ Told(c)) \/ Gone(c))  BY <2>1 DEF IInv, AllTold
  <2> SUFFICES ASSUME InRoom(c), Told(c)
               PROVE  (InRoom(c)' /\ Told(c)') \/ Gone(c)'
    BY <1>3, <2>2, GoneStep
  <2>3. CASE GameServerNext
    BY <1>1, <2>2, <2>3, ToldSwitch, ToldServer, StaysTold
  <2>4. CASE IntroServerNext  BY <1>1, <2>2, <2>4, ToldIntro, StaysTold
  <2>5. ASSUME NEW x \in Conns, PeerActorNext(x)
        PROVE  (InRoom(c)' /\ Told(c)') \/ Gone(c)'
    BY <1>1, <2>2, <2>5, ToldForwardTcp, ToldActor, RefusedGoes, StaysTold
  <2>6. ASSUME NEW x \in Conns, ConnectionNext(x)
        PROVE  (InRoom(c)' /\ Told(c)') \/ Gone(c)'
    BY <1>1, <2>2, <2>6, ToldForwardToClient, ToldConnection, StaysTold
  <2>7. ASSUME NEW x \in Conns, ClientNext(x)
        PROVE  (InRoom(c)' /\ Told(c)') \/ Gone(c)'
    BY <1>1, <2>2, <2>7, ToldClient, StaysTold
  <2> QED  BY <1>3, <2>3, <2>4, <2>5, <2>6, <2>7 DEF Next
<1> QED  BY <1>2, <1>3

(* When nothing is under way, what was told has arrived. *)
LEMMA ToldIsShown ==
  ASSUME IInv, AllTold
  PROVE  StayersAgree
<1> SUFFICES ASSUME Quiet, NEW c \in Conns, Stays(c)
             PROVE  \/ eager /\ conn[c].pc = "ended" /\ client[c] = "off"
                    \/ /\ c \in OnlineSeats /\ client[c] = "on"
                       /\ view[c] = IF c = ActiveConn(turn) THEN turn.phase ELSE Wait
  BY DEF StayersAgree
<1> SUFFICES ASSUME InRoom(c), Told(c)
             PROVE  /\ c \in OnlineSeats /\ client[c] = "on"
                    /\ view[c] = IF c = ActiveConn(turn) THEN turn.phase ELSE Wait
  <2>1. (InRoom(c) /\ Told(c)) \/ Gone(c)  BY DEF Quiet, AllTold
  <2>2. conn[c].pc # "refused"  BY DEF Quiet, Over
  <2> QED  BY <2>1, <2>2 DEF Gone
<1>1. aq[c] = <<>> /\ sock[c] = <<>>  BY DEF Quiet
<1>2. Owner(c) \in Players /\ slots[Owner(c)].conn = c /\ slots[Owner(c)].online
  BY <1>1, ConnFacts DEF InRoom
<1>3. c = ActiveConn(turn) <=> Owner(c) = T!Active(turn)
  BY <1>2, ActiveFacts DEF IInv, SeatOwners, ActiveConn
<1>4. view[c] = StatusOf(c)
  <2>1. DOMAIN aq[c] = {}  BY <1>1
  <2> QED  BY <1>1, <2>1 DEF Told, Ends
<1> QED  BY <1>1, <1>2, <1>3, <1>4 DEF StatusOf, OnlineSeats, InRoom

LEMMA ToldInvariance == Spec => [](IInv /\ AllTold)
<1>1. IInv /\ Started /\ AllTold /\ [Next]_vars => AllTold'  BY AllToldStep
<1> QED  BY <1>1, AllToldInit, Invariance, PTL DEF Spec

(* Whatever the other players do, leave, come back, chat or try to move out of *)
(* turn, the Turn messages that a player who stays is shown are those of the *)
(* switches: none is left out, overtaken or sent to another              *)
(* (server/states.rs:1178-1198).  The one way out of the game is a move of   *)
(* its own that was refused, after a client pressed a key twice.           *)
THEOREM SessionStayersAgree == Spec => []StayersAgree
  BY ToldInvariance, ToldIsShown, PTL

(* In a game that no one leaves it is so for all.  A player who comes back     *)
(* gets no Turn message (server/peer.rs:599), so for the others it is not.  *)
THEOREM SessionViewsAgree ==
  ASSUME Quitters = {}
  PROVE  Spec => []ViewsAgree
<1>1. ASSUME TypeOK, StayersAgree
      PROVE  ViewsAgree
  <2>1. OnlineSeats \subseteq Conns /\ \A c \in Conns : Stays(c)
    BY <1>1 DEF OnlineSeats, TypeOK, Stays
  <2> QED  BY <1>1, <2>1 DEF StayersAgree, ViewsAgree
<1>2. IInv => TypeOK  BY DEF IInv
<1> QED  BY <1>1, <1>2, SessionStayersAgree, Invariance, PTL
===============================================================================
