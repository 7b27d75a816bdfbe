------------------------------- MODULE CardGame -------------------------------
(***************************************************************************)
(* The cards of a running game: the players' hands and the monsters, the    *)
(* four moves that change them, and what the clients show of them and do    *)
(* with it.  server/peer.rs (the Game state of actors and connections),     *)
(* server/states.rs (GameCmd), client/states.rs and client/input.rs (Game). *)
(*                                                                         *)
(* GameSession has the tasks in all detail and no cards; here it is the     *)
(* other way round.  No client leaves.  The game server answers every       *)
(* request of this module without waiting for anyone, so a request and its  *)
(* answer are one step of the task that asks; what it sends meanwhile goes  *)
(* through the mailboxes of the actors, which take one message at a time.   *)
(* Cards are positions in their deck.                                      *)
(***************************************************************************)
EXTENDS Turns, Cursor, Sequences

CONSTANTS HandSize,           \* ABILITY_COUNT
          RankCount,          \* ranks of an ability deck
          Unread,             \* bound: messages a client leaves unread
          Hasty,              \* players who press on after they have confirmed,
                              \* before their next Turn message
          LateConfirms,       \* bound: what they confirm so
          LateKeys            \* bound: their cursor keys

ASSUME CardAssumption == /\ HandSize \in Nat \ {0}
                         /\ RankCount \in Nat
                         /\ HandSize <= RankCount
                         /\ Unread \in Nat \ {0}
                         /\ Hasty \subseteq Players
                         /\ LateConfirms \in Nat /\ LateKeys \in Nat

Hand == INSTANCE Stateble WITH ActiveCount <- HandSize

VARIABLES
  turn,       \* of the game server: phase, active player and monsters
  hand,       \* player -> abilities, the window of its actor
  chosen,     \* player -> selected_ability of its actor, or None
  aq,         \* player -> mailbox of its actor
  actor,      \* player -> "idle", "attacked" or "syncing"
  seen,       \* player -> monsters its actor has been told
  pc,         \* player -> "read", "w_move" or "answer": where its connection is
  move,       \* player -> the move that its connection handles
  out,        \* player -> messages on their way to its client
  cin,        \* player -> moves on their way from its client
  view,       \* player -> turn status that its client shows
  pressed,    \* player -> whether it has confirmed since the last Turn
  late,       \* late confirmations and cursor keys so far
  shown,      \* player -> hand and monsters that its client shows
  at,         \* player -> its client's cursors in both
  crashed     \* "no", or what has ended the game

serverVars == <<turn, hand, chosen, aq, actor, seen>>
connVars   == <<pc, move>>
clientVars == <<cin, view, pressed, late, shown, at>>
vars == <<serverVars, connVars, out, clientVars, crashed>>

Running  == crashed = "no"
Wait     == "Wait"
Statuses == Phases \cup {Wait}

(* Messages to an actor and, through it, to a client. *)
TurnMsg(status)   == [msg |-> "Turn", status |-> status]
Sync              == [msg |-> "SyncWithClient"]
MoveMsg(kind, card) == [msg |-> "Move", kind |-> kind, card |-> card]
Update(cards)     == [msg |-> "UpdateGameData", cards |-> cards]
Accepted(m)       == [msg |-> "Accepted", kind |-> m.kind, card |-> m.card]
NoMove            == MoveMsg("Wait", None)

(* active_items, as it is sent: an item or None for each slot. *)
Items(window) == [s \in DOMAIN window |-> IF window[s].on THEN window[s].at ELSE None]

Unseen == [s \in Line!Slots |-> None]

StatusOf(t, p) == IF p = Active(t) THEN t.phase ELSE Wait

(* Decks are dealt; StartGame has brought them to the clients. *)
Init ==
  /\ turn = StartTurn
  /\ hand = [p \in Players |-> Hand!WithItems]
  /\ chosen = [p \in Players |-> None]
  /\ aq = [p \in Players |-> <<TurnMsg(StatusOf(turn, p))>>]
  /\ actor = [p \in Players |-> "idle"]
  /\ seen = [p \in Players |-> Unseen]
  /\ pc = [p \in Players |-> "read"]
  /\ move = [p \in Players |-> NoMove]
  /\ out = [p \in Players |-> <<>>]
  /\ cin = [p \in Players |-> <<>>]
  /\ view = [p \in Players |-> Wait]
  /\ pressed = [p \in Players |-> FALSE]
  /\ late = [confirm |-> 0, cursor |-> 0]
  /\ shown = [p \in Players |-> [hand |-> Items(hand[p]),
                                 monsters |-> Items(turn.monsters)]]
  /\ at = [p \in Players |-> [hand |-> 0, monsters |-> 0]]
  /\ crashed = "no"

(* A panic of a client, or an error of an actor: the game is over here. *)
Stop(what) ==
  /\ crashed' = what
  /\ UNCHANGED <<serverVars, connVars, out, clientVars>>

-------------------------------------------------------------------------------
(* The keys of a client, Context<Game>::handle_input.                      *)

ListFor(phase) == IF phase = "AttachMonster" THEN "monsters" ELSE "hand"

(* The phase stays until the next Turn message, so a client that has confirmed *)
(* may press on: what it sends meets the phase the server is in by then.     *)
LateBound == [confirm |-> LateConfirms, cursor |-> LateKeys]
MayPress(p, key) == pressed[p] => p \in Hasty /\ late[key] < LateBound[key]
Counted(p, key)  == IF pressed[p] THEN [late EXCEPT ![key] = @ + 1] ELSE late

(* SelectNext and SelectPrev. *)
MoveCursor(p) ==
  /\ Running
  /\ view[p] \in Phases \ {"Defend"}
  /\ MayPress(p, "cursor")
  /\ LET which == ListFor(view[p])
         list  == shown[p][which]
         from  == at[p][which]
     IN  IF Lost(list, from)
         THEN Stop("client")
         ELSE /\ \E to \in {NextPlace(list, from), PrevPlace(list, from)} :
                   at' = [at EXCEPT ![p][which] = to]
              /\ late' = Counted(p, "cursor")
              /\ UNCHANGED <<serverVars, connVars, out, cin, view, pressed, shown,
                             crashed>>

Send(p, card) ==
  /\ cin' = [cin EXCEPT ![p] = Append(@, MoveMsg(view[p], card))]
  /\ pressed' = [pressed EXCEPT ![p] = TRUE]
  /\ late' = Counted(p, "confirm")
  /\ UNCHANGED <<serverVars, connVars, out, view, shown, at, crashed>>

(* ConfirmSelected: the card under the cursor, "Must be Some"; no card in the *)
(* Defend phase.                                                           *)
ConfirmSelected(p) ==
  /\ Running
  /\ view[p] \in Phases
  /\ MayPress(p, "confirm")
  /\ LET list == shown[p][ListFor(view[p])]
         from == at[p][ListFor(view[p])]
     IN  IF view[p] = "Defend" THEN Send(p, None)
         ELSE IF OnItem(list, from) THEN Send(p, list[from])
         ELSE Stop("client")

(* Context<Game>::reduce.  The client looks for the card of an accepted       *)
(* SelectAbility or Attack in what it shows, "Must be exists", and after an  *)
(* Attack also for the monster under its cursor.                           *)
Shows(p, m) ==
  LET list == shown[p][ListFor(m.kind)]
  IN  /\ \E i \in DOMAIN list : list[i] = m.card
      /\ m.kind = "AttachMonster" => OnItem(list, at[p].monsters)

ReceiveMessage(p) ==
  /\ Running
  /\ pc[p] = "read"
  /\ out[p] # <<>>
  /\ LET m == Head(out[p])
     IN  IF m.msg = "Accepted" /\ ~ Shows(p, m)
         THEN Stop("client")
         ELSE /\ out' = [out EXCEPT ![p] = Tail(@)]
              /\ view' = IF m.msg = "Turn" THEN [view EXCEPT ![p] = m.status] ELSE view
              /\ pressed' = IF m.msg = "Turn" THEN [pressed EXCEPT ![p] = FALSE]
                            ELSE pressed
              /\ shown' = IF m.msg = "UpdateGameData" THEN [shown EXCEPT ![p] = m.cards]
                          ELSE shown
              /\ UNCHANGED <<serverVars, connVars, cin, late, at, crashed>>

-------------------------------------------------------------------------------
(* The connection: the turn! macro.                                        *)

(* This client is active: its actor makes the move.  Another client is told   *)
(* the name of the active player, which is only a line in its chat.        *)
ReadMove(p) ==
  /\ Running
  /\ pc[p] = "read"
  /\ cin[p] # <<>>
  /\ cin' = [cin EXCEPT ![p] = Tail(@)]
  /\ IF Active(turn) = p
     THEN /\ move' = [move EXCEPT ![p] = Head(cin[p])]
          /\ pc' = [pc EXCEPT ![p] = "w_move"]
          /\ aq' = [aq EXCEPT ![p] = Append(@, Head(cin[p]))]
     ELSE /\ pc' = [pc EXCEPT ![p] = "answer"]
          /\ UNCHANGED <<move, aq>>
  /\ UNCHANGED <<turn, hand, chosen, actor, seen, out, view, pressed, late, shown,
                 at, crashed>>

(* The result to the client; of DropAbility and Continue it only makes a line *)
(* in the chat.  broadcast_game_state for the others, then the own actor.   *)
(* Mutated: the own client is not synchronised. *)
SyncedButMe(p) == Players \ {p}
Synced(p)      == Players

Results(p) ==
  IF move[p].kind \in {"SelectAbility", "AttachMonster"} THEN <<Accepted(move[p])>>
                                                         ELSE <<>>

EndOfTurn(p) ==
  /\ Running
  /\ pc[p] = "answer"
  /\ pc' = [pc EXCEPT ![p] = "read"]
  /\ move' = [move EXCEPT ![p] = NoMove]
  /\ out' = [out EXCEPT ![p] = @ \o Results(p)]
  /\ aq' = [q \in Players |-> IF q \in Synced(p) THEN Append(aq[q], Sync) ELSE aq[q]]
  /\ UNCHANGED <<turn, hand, chosen, actor, seen, clientVars, crashed>>

-------------------------------------------------------------------------------
(* The actor: Peer<Game>::reduce.                                          *)

Takes(p, msg) ==
  /\ Running
  /\ actor[p] = "idle"
  /\ aq[p] # <<>>
  /\ Head(aq[p]).msg = msg

(* The channel to the client is bounded, 32 messages in the code. *)
HasRoom(p) == Len(out[p]) < Unread

ForwardTcp(p) ==
  /\ Takes(p, "Turn")
  /\ HasRoom(p)
  /\ aq' = [aq EXCEPT ![p] = Tail(@)]
  /\ out' = [out EXCEPT ![p] = Append(@, Head(aq[p]))]
  /\ UNCHANGED <<turn, hand, chosen, actor, seen, connVars, clientVars, crashed>>

(* switch_to_next_player: the turn status to every actor, those in the        *)
(* mailboxes q first; the connection gets its answer.                      *)
SwitchToNext(p, t, q) ==
  /\ turn' = SwitchToNextPlayer(t)
  /\ aq' = [r \in Players |-> Append(q[r], TurnMsg(StatusOf(turn', r)))]
  /\ pc' = [pc EXCEPT ![p] = "answer"]
  /\ actor' = [actor EXCEPT ![p] = "idle"]
  /\ UNCHANGED <<seen, move, out, clientVars, crashed>>

Rest(p) == [aq EXCEPT ![p] = Tail(@)]
TakesMove(p, kind) == Takes(p, "Move") /\ Head(aq[p]).kind = kind
CardOf(p) == Head(aq[p]).card

(* A card outside the hand is an error, which ends the actor. *)
DropAbility(p) ==
  /\ TakesMove(p, "DropAbility")
  /\ IF Hand!AlreadyNotActive(hand[p], CardOf(p))
     THEN Stop("actor")
     ELSE /\ hand' = [hand EXCEPT ![p] = Hand!DeactivateByIndex(@, CardOf(p))]
          /\ SwitchToNext(p, turn, Rest(p))
          /\ UNCHANGED chosen

(* Any rank of the deck can be selected. *)
SelectAbility(p) ==
  /\ TakesMove(p, "SelectAbility")
  /\ chosen' = [chosen EXCEPT ![p] = CardOf(p)]
  /\ SwitchToNext(p, turn, Rest(p))
  /\ UNCHANGED hand

(* An attack needs a selected ability and a monster on the table, dead or     *)
(* alive; drop_monster and the switch are two requests.                    *)
Attack(p) ==
  /\ TakesMove(p, "AttachMonster")
  /\ IF chosen[p] = None \/ Line!AlreadyNotActive(turn.monsters, CardOf(p))
     THEN Stop("actor")
     ELSE /\ turn' = [turn EXCEPT !.monsters = Line!DeactivateByIndex(@, CardOf(p))]
          /\ actor' = [actor EXCEPT ![p] = "attacked"]
          /\ aq' = Rest(p)
          /\ UNCHANGED <<hand, chosen, seen, connVars, out, clientVars, crashed>>

EndAttack(p) ==
  /\ Running
  /\ actor[p] = "attacked"
  /\ SwitchToNext(p, turn, aq)
  /\ UNCHANGED <<hand, chosen>>

(* New cards for the discarded; the end of the deck is ignored. *)
(* Mutated: no cards are dealt.                                 *)
ContinueWithoutDeal(p) ==
  /\ TakesMove(p, "Defend")
  /\ SwitchToNext(p, turn, Rest(p))
  /\ UNCHANGED <<hand, chosen>>

ContinueGame(p) ==
  /\ TakesMove(p, "Defend")
  /\ hand' = [hand EXCEPT ![p] = Hand!NextActives(@, RankCount)]
  /\ SwitchToNext(p, turn, Rest(p))
  /\ UNCHANGED chosen

(* sync_with_client: the monsters of the server first, then the own hand. *)
StartSync(p) ==
  /\ Takes(p, "SyncWithClient")
  /\ aq' = Rest(p)
  /\ actor' = [actor EXCEPT ![p] = "syncing"]
  /\ seen' = [seen EXCEPT ![p] = Items(turn.monsters)]
  /\ UNCHANGED <<turn, hand, chosen, connVars, out, clientVars, crashed>>

EndSync(p) ==
  /\ Running
  /\ actor[p] = "syncing"
  /\ HasRoom(p)
  /\ actor' = [actor EXCEPT ![p] = "idle"]
  /\ seen' = [seen EXCEPT ![p] = Unseen]
  /\ out' = [out EXCEPT ![p] = Append(@, Update([hand |-> Items(hand[p]),
                                                monsters |-> seen[p]]))]
  /\ UNCHANGED <<turn, hand, chosen, aq, connVars, clientVars, crashed>>

-------------------------------------------------------------------------------
ServerSide(p) ==
  \/ ReadMove(p) \/ EndOfTurn(p)
  \/ ForwardTcp(p) \/ DropAbility(p) \/ SelectAbility(p) \/ Attack(p) \/ EndAttack(p)
  \/ ContinueGame(p) \/ StartSync(p) \/ EndSync(p)

Client(p) == MoveCursor(p) \/ ConfirmSelected(p) \/ ReceiveMessage(p)

Next == \E p \in Players : ServerSide(p) \/ Client(p)

Spec == Init /\ [][Next]_vars

-------------------------------------------------------------------------------
Ranks    == 0 .. (RankCount - 1)
Monsters == 0 .. (DeckSize - 1)
Shown == [hand     : [Hand!Slots -> Ranks \cup {None}],
          monsters : [Line!Slots -> Monsters \cup {None}]]
Moves == [msg : {"Move"}, kind : {"DropAbility", "SelectAbility"}, card : Ranks]
    \cup [msg : {"Move"}, kind : {"AttachMonster"}, card : Monsters]
    \cup [msg : {"Move"}, kind : {"Defend", Wait}, card : {None}]
ToClient == [msg : {"Turn"}, status : Statuses]
       \cup [msg : {"UpdateGameData"}, cards : Shown]
       \cup [msg : {"Accepted"}, kind : Phases, card : Ranks \cup Monsters]

TypeOK ==
  /\ turn \in Turn
  /\ hand \in [Players -> Hand!Window(RankCount)]
  /\ chosen \in [Players -> Ranks \cup {None}]
  /\ aq \in [Players -> Seq([msg : {"SyncWithClient"}] \cup Moves \cup ToClient)]
  /\ actor \in [Players -> {"idle", "attacked", "syncing"}]
  /\ seen \in [Players -> [Line!Slots -> Monsters \cup {None}]]
  /\ pc \in [Players -> {"read", "w_move", "answer"}]
  /\ move \in [Players -> Moves]
  /\ out \in [Players -> Seq(ToClient)]
  /\ cin \in [Players -> Seq(Moves)]
  /\ view \in [Players -> Statuses]
  /\ pressed \in [Players -> BOOLEAN]
  /\ late \in [confirm : 0 .. LateConfirms, cursor : 0 .. LateKeys]
  /\ shown \in [Players -> Shown]
  /\ at \in [Players -> [hand : Hand!Slots \cup {None}, monsters : Line!Slots \cup {None}]]
  /\ crashed \in {"no", "client", "actor"}

(* Nothing is under way. *)
Quiet ==
  /\ Running
  /\ \A p \in Players : /\ aq[p] = <<>> /\ out[p] = <<>> /\ cin[p] = <<>>
                        /\ actor[p] = "idle" /\ pc[p] = "read"

(* When nothing is under way, every client shows the hand of its player and   *)
(* the monsters on the table, and the right turn.  The monsters of a         *)
(* synchronisation are asked for first and sent later, and synchronisations  *)
(* of several moves overtake the moves' own messages: the last to arrive     *)
(* must still be the last to have been asked for (server/peer.rs:1185-1196).*)
ClientsAgree ==
  Quiet => \A p \in Players :
    /\ shown[p] = [hand |-> Items(hand[p]), monsters |-> Items(turn.monsters)]
    /\ view[p] = StatusOf(turn, p)

(* No client has confirmed twice for one Turn message; none has moved its      *)
(* cursor after it confirmed.                                              *)
OnceEach  == late.confirm = 0
KeysFirst == late.cursor = 0

(* As long as every client confirms once for a Turn message, one that plays   *)
(* the cards it shows never has a move refused: an error ends the actor and  *)
(* with it the player's game (server/peer.rs:1126-1184).  What a client shows *)
(* may be behind by several moves, but not by a deal.                       *)
MovesAccepted == OnceEach => crashed # "actor"

(* As long as every client confirms once for a Turn message, a player who has *)
(* to discard has a full hand, as far as the deck goes: the cards of a cycle  *)
(* are dealt to everyone before the next cycle begins, by each player's own   *)
(* Continue (server/peer.rs:1178-1183).                                    *)
DealtBeforeDiscard ==
  OnceEach /\ turn.phase = "DropAbility" =>
    \A p \in Players : p >= Active(turn) =>
      \/ \A s \in Hand!Slots : hand[p][s].on
      \/ Hand!EndOfItems(hand[p], RankCount)

(* The keys find a card: a cursor that moves comes to an item, if the list    *)
(* has one, whatever was put under it (protocol/details.rs:64-115).          *)
KeysFindCards ==
  [][ \A p \in Players :
        \A which \in {"hand", "monsters"} :
          at'[p][which] # at[p][which] /\ Filled(shown[p][which]) # {}
            => OnItem(shown[p][which], at'[p][which]) ]_vars

(* The list that the keys move in is drawn with its cursor, an unwrap, and a   *)
(* key moves on from it, "Must be Some": there is a cursor as long as there   *)
(* is an item (client/ui/game.rs:256, 377, protocol/details.rs:71, 97).      *)
CursorKept ==
  \A p \in Players :
    view[p] \in Phases \ {"Defend"} =>
      ~ Lost(shown[p][ListFor(view[p])], at[p][ListFor(view[p])])

(* It holds as long as every client confirms once for a Turn message and does *)
(* not move its cursor after that.                                         *)
CursorDrawn == OnceEach /\ KeysFirst => CursorKept

(* client/input.rs:262 and client/states.rs:602, 614 expect the card under    *)
(* the cursor, and the card of an accepted move, to be in what the client     *)
(* shows: no client panics.                                                *)
ClientsSurvive == crashed # "client"
===============================================================================
