# kobuleti in TLA+

Models, model checks and proofs for *kobuleti*, a turn-based card game for two
players over TCP: the server (`src/server/`) from the first login to the end of
the deck, and the client (`src/client/`) as far as it sends messages or may
panic on one. Line numbers refer to the files under `src/` of
the repository, written here as `server/states.rs:623`.

## The system

The server has no locks. Every task is an actor that owns its state, takes
commands from a bounded `mpsc` mailbox one at a time and answers through a
`oneshot`. While it waits for an answer in the middle of a command it takes no
other command.

| part | state | operations | talks to |
|---|---|---|---|
| `Stateble` (`server/details.rs`) | list of items, slots that are enabled or not | `deactivate_item(_by_index)`, `next_actives`, `repeat_after_eof`, `reset` | a field of the game server (players, monsters) and of a peer (hand) |
| intro server (`run_intro_server`, `IntroServer`) | a slot per connection, the handle of those that are not in a game, the handle of the state server | `LoginPlayer`, `EnterGame`, `DropPeer`, reconnection, `GetChatLog`, `Shutdown` | game server, connections |
| home server | slots | `AddPeer`, `StartRoles`, `Broadcast`, `DropPeer` | intro server, actors |
| roles server | slots with a status | `SelectRole`, `StartGame`, `ReconnectPeer`, ... | intro server, actors |
| game server | slots with a status, active player, phase, monsters | `GetActivePlayer`, `SwitchToNextPlayer`, `DropMonster`, `GetMonsters`, `BroadcastGameState`, `ReconnectPeer`, ... | actors, and whoever asked |
| peer actor (`run_state!`, `server/peer.rs`) | username, hand, selected ability | `GetUsername`, `TakePeer`, `SendTcp`, the four moves, `SyncWithClient` | game server |
| connection task (`run_state_handle!`) | where it is | the client's messages, `turn!`, `broadcast_chat!`, the start blocks | its actor, game server, intro server |
| client | turn status, cursors, chat | keys, the server's messages | its connection |
| listener, command line, terminal UI | | I/O | |

What is hard here:

* requests in both directions between the game server and the actors: the game
  server asks actors for usernames, actors ask the game server for everything
  else;
* a check and the act that relies on it are two requests (`turn!`);
* a disconnection is seen by the connection first, by the actor when a send to
  the closed socket fails, and by the servers when a `DropPeer` arrives;
* a reconnection is a conversation of five requests over four tasks;
* a peer moves from server to server (Intro, Home, Roles, Game), and each of them
  learns of its arrival, and of its end, by a message of its own;
* the roles server keeps no roles: every decision asks the actors, one by one;
* the client keeps a cursor in a list that the server replaces, and the server
  answers a move by naming a card that the client may not show any more;
* the windows of `Stateble` move slot by slot and stop half-way at the end of
  the list.

`PROJECT.json` lists every hazard at its line, with the property that looks at
it or the reason why none does yet.

## Modules

| module | models |
|---|---|
| `Stateble` | the operators of a window of active items, for any number of slots |
| `ActiveWindow` | one window under every sequence of calls |
| `ActiveWindowProofs` | proofs about it |
| `Turns` | `switch_to_next_player`, two instances of `Stateble`: the room and the monsters |
| `TurnOrder` | the turn state of the game server under the commands that change it |
| `Rounds` | abstract specification: what a round of the game promises |
| `TurnsProofs` | lemmas about the operators of `Turns`, for the proofs of the order, of the session and of the cards |
| `TurnOrderProofs` | proofs that `TurnOrder` implements `Rounds` |
| `Session` | state and messages of a running game, shared by the next four |
| `GameServer` | `run_state` over `GameServer`: one action per command, two when it has to wait for a username |
| `PeerActor` | `run_state!` over `Peer<Game>` |
| `Connection` | `accept_connection`: login, reconnection, the loop of the Game state |
| `IntroServer` | `login_player`, `EnterGame`, the `reconnection!` macro, `DropPeer` |
| `GameSession` | the composition, the clients, the properties |
| `SessionProofs` | proofs of the safety properties of the game session |
| `Lobby` | clients, connections and actors in the Intro and Home states; `run_state` over `HomeServer` and its transition to Roles |
| `LobbySession` | `run_intro_server` and `login_player` before a game, the composition with `Lobby`, the properties |
| `QueueProofs` | lemmas about what a mailbox holds, and how many messages of a kind, after a message was put in or taken, for the proofs of the session, of the lobby and of the cards |
| `LobbyProofs` | proofs that names stay unique and that the room starts the Roles together |
| `RolesRoom` | `run_state` over `RolesServer`: its commands as chains of requests to actors, and the transition to the Game |
| `RolesSession` | clients, connections and actors in the Roles state, the intro server's part in a return, the properties |
| `RolesProofs` | proofs that roles are distinct and kept, that the game starts with a role for everyone, that seats keep their owners, and that clients show the roles as they are |
| `MCRoles` | `RolesSession` with the symmetry of the roles |
| `Cursor` | `StatefulList<Option<E>>`: `next`, `prev`, `active` |
| `CardGame` | hands, monsters and moves of a running game, the game screen of the clients |
| `CardProofs` | proofs that no move is refused, that the screens agree, that the cards are dealt and that no cursor is lost |

### How the session corresponds to the code

A connection is `<<player, k>>`, the k-th connection that the player makes; it
stands for the socket address, the connection task and the actor. `gq`, `iq` and
`aq[c]` are the mailboxes of the game server, the intro server and the actors;
`sock[c]` and `cin[c]` are what is on its way to and from the client. A step is
the work of one task between two places where it waits; `conn[c].pc` and
`actor[c]` name the place. A request is a message, and its answer is a change of
the place of the task that waits, so an answer can only be given to a task that
waits for it if the tasks really keep in step, which `RequestsMatchWaits` checks.

The game server asks for a username in the middle of a command: the command
stays at the head of `gq`, and `gwait` says which actor was asked and what it
answered. The names of the two searches differ as in the code: the search for an
id visits every slot and keeps the last match, the search for a handle stops at
the first.

A panic is modelled: `expect("Open")` on a closed mailbox, `recv!` on an answer
that was dropped, `unwrap` on a seat that was replaced. It sets `crashed` to the
server that has panicked. Nothing happens after that in the model, whereas in the
code the other tasks go on without that server. `crashed = "over"` is the regular
end: the last player has left.

The abstractions, and why the properties do not depend on them:

* usernames are players; a player reconnects under the same name;
* cards are left out of the session: the monsters are in `TurnOrder`, the hands
  in `ActiveWindow`, both together in `CardGame`. Whether a move is refused
  (server/peer.rs:1135, 1157-1159) depends on the cards: here a discard and an
  attack may be refused or not (`RefuseMove`), from the moment a client has
  pressed a key twice for one Turn message (`eager`). Before that moment none is,
  which is `MovesNeverRefused` of `CardProofs`; that theorem is about a game that
  no one leaves, and for the moves after a return it is an argument and not a
  proof: a returning client is sent its hand and the monsters as they are
  (server/peer.rs:603-630) before its first move can be read. A refused move ends
  its actor; the connection waits for the lost answer and ends with the actor,
  with or without a `DropPeer` to the game server (`MoveLost`);
* chat lines and game data are forwarded but not kept in `sock`: only turn
  statuses change what a client may do. A line's author is asked for, since the
  request is what may block;
* requests that only carry text (`GetChatLog`, `AppendChat`), `Ping` and `Logout`,
  and the `get_monsters` inside a `trace!` of the attack are left out;
* mailboxes never fill up (32 places in the code);
* the notification of the new server has reached the intro server when the game
  starts;
* a client sends `EnterGame` once;
* since there are no cards, "for ever" in `TurnsGoRound` is for ever in this
  abstraction: in the program the deck ends (`CardGame`).

### How the lobby corresponds to the code

A connection is `<<name, k>>`: the second client of a name is a different person
with the same username, so that names have to be compared. The home server's
`room` keeps its order, since `swap_pop` moves the last peer to the place of the
one that left. `pc[c]` goes through `intro`, `w_login`, `toHome`, `startHome`,
`home`, `toRoles`, `startRoles`, `roles`: the loop of a state, the moment at which
the actor has ended it (`run_peer!` has returned), and the start block of the next
one. `iwait` is what `run_intro_server` is in the middle of; `starting` and
`entering` are the `oneshot` of `ServerState`, which the loop takes before or after
the commands in the mailbox, since `select!` is not biased. When the home server
has taken its start, its mailbox is never read again: what was in it and what is
sent to it later gets no answer, and the intro server waits for it.

`select!` in `run_intro_server` has the notification of the new server as its first
branch and everything else as the second: `SetServer` may come while a login
waits for the home server, and then the login is dropped and its connection ends
(`failed`). It cannot come while a peer enters, as that is the body of the second
branch, not its future.

The model ends with the first panic of a server and with the last peer's leaving;
in the Roles state a connection only answers a message of its old state by
ending. The chat of the lobby and its username requests are left out; they are
those of `Session`. Two details of the code that would only end a run sooner are
left out too: a broadcast of the home room to a peer whose mailbox has closed
panics (`expect("Open")`, server/details.rs:188), where `Dropped` passes it over, and
the `GetChatLog` that every client sends after its login can be dropped by
`SetServer` like a login, which ends the connection.

### How the choice of roles corresponds to the code

Each command of the roles server is a chain of steps: `AskSeats` puts a request in
the mailboxes of one actor or of all (`join_all`), `Answered` is the guard of what
follows. The command stays at the head of `gq` until its chain ends. The search
for a role or a name goes seat by seat and stops at the first match, as the `for`
loops do. A dead actor makes the server panic, when it is asked or when it dies
with the question in its mailbox (`LossOfMailbox`).

The return of a player is the `reconnection!` macro: `handle`, `answer`,
`reconnect` in `iwait`, and on the other side `w_handle`, `take`, `w_take`, `taken`,
`boot` of the new connection. `TakePeer` moves the role out of the old actor.

Three panics of this state are modelled and end a run of the model without being
a violation of its properties: a Select read from a returning client before
`ReconnectPeer` has been served ("Must exists"), a second StartGame before the
first has been taken from the oneshot, and `start_game` asked of the actor of a
player who has left.

### How the cards correspond to the code

`CardGame` is the game of `GameSession` seen from the cards. The hand is an
instance of `Stateble`, and the monsters and the turn are those of `Turns`. An actor
takes one message at a time from `aq[p]`; an attack and a synchronisation are two
steps, as the actor makes two requests. Requests to the game server are single
steps here because none of them makes the game server wait: those that do (they
ask for a username) are the subject of `GameSession`. `out[p]` is the channel to the
client together with the socket.

The client's `shown` lists are replaced by `UpdateGameData`, and its cursors `at` are
not. The cursor of `Cursor` is a place or None. `NextPlace` and `PrevPlace` are the
loops of `next` and `prev` (protocol/details.rs:64-115): `Right`, `RightRound`,
`Left` and `LeftRound` are one round of each of the four `while` loops, `Stops` is
where a loop has come after as many rounds as the list has places, and `Lost` is
the `expect` before them. That they stop there, inside the list and on an item, is
`CursorsFindCards`.

A client shows its phase until the next Turn message, so its keys work also after
it has confirmed (client/input.rs:252-312). `pressed` remembers the confirmation,
and `late` counts the keys of the `Hasty` players that follow it: confirmations up
to `LateConfirms`, cursor keys up to `LateKeys`. A second confirmation is a second move, which the
server may consume in the next phase: the attack that follows then finds no
selected ability and ends its actor, or a player comes to a discard without the
deal before it. `MovesAccepted` and `DealtBeforeDiscard` are therefore stated for
as long as no one has confirmed twice (`OnceEach`), and `CursorDrawn` for as long
as no key at all followed a confirmation (`OnceEach` and `KeysFirst`); without the
hypothesis the property is `CursorKept`, which does not hold. `ClientsAgree` and
`KeysFindCards` need no hypothesis in the runs.

`EndOfTurn` sends the result, the `BroadcastGameState` and the connection's own
`SyncWithClient` in one step, although the code has places to wait between them.

## Runs

| run | shows | distinct states |
|---|---|---|
| `window_hand` | no item in two slots, none dealt twice in a pass, indexes in range | 1 936 |
| `turn_order` | there is always an active player; the switches implement `Rounds`; monsters are dealt between rounds | 432 |
| `session_patient` | the game goes round for ever, clients show the right turn, moves meet their phase, no lost answer, with one player who chats | 304 347 |
| `session_eager` | with two presses and an attack to play: a second key never ends another's turn; a refused move may end its actor, and still no answer is lost that a task goes on waiting for, and who is still in the game is shown its turn | 1 407 572 |
| `session_return` | a player leaves and returns while the other plays: seats and names are never mixed up, the player who stays is shown every turn, and who enters gets the seat or the run ends in one of the ways found below | 188 107 |
| `lobby` | from login to Roles with two clients of one name: names stay unique, logins are answered, the Roles start for everyone in the room | 175 479 |
| `roles` | roles are distinct as long as no one returned, a return keeps the role, the game starts with a role for everyone, the screens agree with the actors | 2 413 173 |
| `cards` | with one confirmation too many, at any time: the clients' screens agree with the server once all is delivered and the keys find a card; until then no move is refused and cards are dealt before the next discard | 4 604 182 |
| `session_awaiting` | **violated**: two tasks wait for each other | |
| `session_panic` | **violated**: a disconnection ends the game server's task | |
| `lobby_full` | **violated**: a peer that has left still has its place in the home room | |
| `cards_cursor` | **violated**: a client panics on a card it does not show | |

### Bounds

`ActiveWindow` has the sizes of a hand: three slots, nine cards. `TurnOrder` has
three players, one more than the code allows, so that a player is neither first
nor last, and three deals of monsters. The session has two players,
`MAX_PLAYER_COUNT`, so its room is the real one.

* `PressesPerTurn`: keys pressed before the next Turn message. One is a player
  who waits for the server, two make a late key meet every later state.
* `PlayedPhases`: all four in `session_patient`. `session_return` plays the
  discards only: both players move, the turn passes to the next player, back to
  the first and into another phase, which is every kind of switch with respect to
  the messages it sends. `session_eager` plays the discards and the attack, the
  two moves that can be refused.
* `Quitters`, `MaxConns`: one player may leave at any moment and come back, and
  leave again. A third client comes only before the first move and stops the
  moves: it is there for the seat that the second one left in the middle of its
  return. The other player stays, so that the game is not shut down.
* `Chatters`: players who send a chat line, one per connection, in
  `session_patient`; it only adds requests between the tasks. The instance of
  `session_eager` with a chat line of the second player besides has 6 870 523
  states and keeps all the properties of the run; it takes too long to be one.
* `Names`, `Twice`, `Leavers`, `Capacity`: two names and a second client for one of
  them make every comparison of names meet a match in each of the two servers;
  capacity two is `MAX_PLAYER_COUNT`. Every client presses Enter once in each
  context. `lobby_full` has three names for two places.
* `Selections`, `Starts`, `Starters`, `Quitters` of `RolesRoom`: two Select and two
  StartGame messages are enough for two players who want one role, for a start
  before, between and after the selections, and for a second start. Two roles
  for two players: with more the players collide less.
* `HandSize`, `RankCount`, `DeckSize`, `MonstersPerLine`, `Unread` of `CardGame`:
  hands of two out of three, so that the second deal already meets the end of the
  deck. Each player attacks a monster in a cycle, so there are two on the table;
  in `cards` there are no others, and the second cycle ends at its attacks, in
  `cards_cursor` four are dealt twice. `Unread` bounds the channel to a client, one
  message in `cards` and two in `cards_cursor` instead of 32: a client that lags
  shows a hand from before the last move while the next turn is on its way to it.
  The larger instance, with the constants of `cards_cursor`, has 2 983 220 states
  and keeps all the properties of `cards`.
* `Hasty`, `LateConfirms`, `LateKeys`: the second player confirms once more in
  `cards`; nobody presses a key after a confirmation in `cards_cursor`. One late
  confirmation is enough for a move to be out of step from then on, in every
  phase it can start. What a cursor key after a confirmation does is told below.

`CHECK_DEADLOCK FALSE` is set where the system really stops: the last player has
left, a server or a client has panicked, tasks wait for each other, a bound on the
messages is reached, or the deck is played.

### Fairness

A tokio task that can run does run: `TaskSpec` of `GameSession` has `WF` of each
server, each actor and each connection task as a whole. `FairSpec` of `GameSession`
adds that a player whose client shows a phase presses the key at last (`WF` of
`Press`). This is about the players, not the code; without it the turn may
rest with a player for ever, and only `TurnsGoRound` uses it. Leaving, returning,
entering and chatting are not fair.

`FairSpec` of `LobbySession` is weak fairness of the two servers and of each peer
(its connection and its actor). Between two ready branches `select!` chooses at
random, so that a branch that stays ready is taken at last; the model needs no
fairness for it, as the commands that could be preferred to it are finitely many.

`ReturnsToSeat`, `LoginsEnd` and `StartsRoles` admit that the player leaves again, that
a server panics, or that a server waits for one that does not answer: these are
what the violated runs show or the hazards list, and nothing else prevents the
return, the answer or the start.

### What the violated runs show

* `session_awaiting`. B presses a key that is not due. B's connection asks for
  the active player's name, and the game server asks A's actor for it while A's
  actor waits for the game server (or A's connection does, before it has spawned
  the actor). No timeout ends this.
* `session_panic`. A's connection ends. The actor is still there and its next
  send to the socket fails, which drops its mailbox. The `DropPeer` asks it for
  its username and expects an answer.
* `lobby_full`. A enters and leaves at once. A's `DropPeer` comes to the home server
  before the intro server's `AddPeer` (or is not sent at all, when the start block
  fails), so that A stays in the home room. The intro room has let A go and
  accepts B and C; the second of them to enter finds the home room full.
* `cards_cursor`. A discards the card under the cursor. The new hand has an empty
  place there and the cursor still points at it; the next confirm panics. A
  player who looks and moves the cursor first is not safe either: A's own
  Ready(SelectAbility) may arrive before the hand without the card, A selects the
  card that is gone, the server accepts any rank, and the client does not find
  the accepted card in what it shows. The same holds for a monster that was dead
  when it was attacked.

### What the models show beside the runs

Facts met on the way that are no properties of the passing runs, since they happen:

* `EndOfItems` comes while items were never shown: with three slots on nine cards,
  a slot that plays faster than the others reaches the end of its column first.
* A player who returns and leaves again before `ReconnectPeer` leaves a ghost: the
  `DropPeer` of the new connection is ignored, since the seat still has the old
  address; then the seat becomes online, and later logins are `AlreadyLogged`.
* An active player who returns never learns that it is their turn: `ReconnectGame`
  brings cards and monsters, not the turn, and `ViewsAgree` does not hold after a
  return.
* After a return two players can have one role, although README.md:237 sets a role
  "if Role is available": while the role is on its way from the old actor to the
  new seat, the search does not see it. And the returning client is told the
  roles that were collected before its own was back.
* A cursor key pressed after the attack can take the cursor of the monsters away.
  The client shows Ready(AttachMonster) until the next Turn message; when the
  answer to the attack shows a line without monsters, `next` sets the cursor to
  None (protocol/details.rs:65-66), and nothing sets it when the next ones are
  dealt. Drawing them unwraps None (client/ui/game.rs:256), and so do the next key
  (the expect of protocol/details.rs:69) and the confirmation
  (client/input.rs:283). `CursorKept` of `CardGame` is violated this way with
  `LateKeys = 1` and `Hasty = {0, 1}`, two monsters of three, hands of two out of two and `Unread = 1`.

## Proofs

All theorems are about every value of the constants, under the assumptions
named in the modules (at least one slot, at least as many items as slots; at
least one player).

* `ActiveWindowProofs`. `WindowTypeOK`, `WindowNoSharedItem` and
  `WindowNoRedeal`. That no two
  slots hold the same item is not inductive: a slot moves without a look at the
  others. The invariant `IInv` adds that slot s only ever holds positions in its
  own column, s, s + K, s + 2K, ...; moving K further stays in the column,
  restarting goes to its first element, and columns are disjoint
  (`ColumnsDisjoint`, `ColumnStart`, `ColumnStep`). The third part, that the
  number in an `EndOfItems` is a slot, keeps `repeat_after_eof` in range. That no
  card is dealt twice needs, besides, that a slot has passed all that was shown of
  its column (`ShownBehind`); a restart, which moves slots back, takes their
  columns out of what was shown, and `ColumnsAgree` says that it takes all of them.
* `TurnOrderProofs`. `TurnTypeOK`, `AlwaysActivePlayer`,
  `TurnOrderImplementsRounds` and `NoMonsterMidRound`: each phase of a switch maps
  to the action of `Rounds` of that name under `done <- Completed(turn)`; an attack
  on a monster is a stuttering step, and empties places of the table without
  filling any.
* `SessionProofs`. All the safety properties of the passing session runs:
  `SessionTypeOK`, `SessionRequestsMatchWaits`, `SessionIdentityKept`,
  `SessionTurnIntegrity`, `SessionMoveMatchesPhase`, `SessionStayersAgree` and
  `SessionViewsAgree`, for any number of players, of connections, of keys pressed
  in a turn, and for any players who chat, leave and come back. Six kinds of
  task exchange requests there, and none of the properties is inductive by
  itself: a turn keeps its owner only if the answer about who is active is still
  true when it is used, that answer depends on the game server's search through
  the actors' names, the search on every seat's actor being its player's, the
  seats on the reconnection, and the reconnection on no answer being lost. The
  invariant `IInv` therefore has all of it, in three groups:
  - counts. For every task that may wait and every mailbox, the number of its
    requests in the mailbox is one if it waits for that owner and zero if not
    (`TaskMail`, `LobbyMail`, `ActorMail`, `IntroMail`). Each action moves
    one request from a mailbox to a place or the other way round;
  - who is who. A seat's connection is its player's (`SeatOwners`, `SeatKept`), an
    actor has its player's name or none (`NameKept`, `SeatNamed`), and an actor
    runs while its connection has not ended (`ActorOfConn`);
  - what a waiting task has learnt and still holds: the seats the game server's
    search has passed (`ServerWait`), what the login has seen (`Seen`), the
    stages of a reconnection, of which one at a time is under way (`HandingOver`,
    `OneTaking`, `HereKept`), and that a connection that was told its player is
    active is right until its own move is made (`ActiveMoves`). This last part
    gives `TurnIntegrity`: a player who is active stays so until the switch
    that the player's own connection asks for.

  Each of the actions of `Next` has a lemma that it keeps `IInv`. Two invariants
  rest on it. `OneChance`, for `MoveMatchesPhase`: the Ready message in the actor's
  mailbox, in the socket, the client that shows it, the key on its way back and
  the move in the connection are one token, held for the active player only and
  labelled with the phase of the server. It needs `PressesPerTurn = 1`, and the
  hypothesis is the meaning of the property: with two keys per turn the second is
  accepted in the next phase, which is why `session_eager` does not state it.
  `AllTold`, for `StayersAgree`: the last turn status in the actor's mailbox, or
  else the last in the socket, or else what the client shows, is what the server
  would tell now; or the player is `Gone`, by a refused move, which takes a key
  that was pressed twice, and stays so. `ViewsAgree` follows under
  `Quitters = {}`: with quitters it does not hold, since a returning player gets no
  Turn message.

  The invariants were found with TLC: `IInv` and `AllTold` hold in all states of
  the passing session runs, `OneChance` in those of `session_patient` and
  `session_return`. The assumptions are those of the module `Session`: at least
  one player, one connection and one key per turn, chatters and quitters that are
  players, and keys pressed in phases that the game has (`SessionAssumption`,
  `PlayedPhasesAssumption`).
* `LobbyProofs`. `LobbyTypeOK`, `NamesStayUnique` and `NoPeerLeftBehind`, for
  every set of names, every capacity of the rooms and any clients that come
  twice or leave. A name is asked of two servers one after the other, while peers
  go from the first to the second and leave both at different times; that it is
  free nowhere at one instant has to be put together from what was asked at
  different ones. The invariant `IInv` says why nothing slips through:
  - the intro server serves one command to its end. While it waits for the
    answer to a name it moves nobody from one room to the other, and after the
    answer "free" nobody in the home room has the name (`FreeName`);
  - of its own it has one question in the home server's mailbox at most, and that
    is the one it waits for (`HomeAsked`); so an answer is never taken for that
    to another question, and an `AddPeer` never overtakes it;
  - the search asks one actor at a time, in a room that does not change meanwhile
    (`Searches`, `NamesAsked`);
  - a peer keeps its place (`PlaceKept`): from the moment it comes out of its
    intro state it is in the home room or waited for by the intro server, and it
    leaves the room only when its connection has ended. So whoever is in the Home
    state when the Roles server runs is still waited for. This is also what makes
    the room free of duplicates, which `swap_pop` relies on.

  `IInv` was found with TLC: it holds in all states of the `lobby` run, and with
  two names that both come twice and may both leave, in rooms of one place.
* `RolesProofs`. `RolesTypeCorrect`, `RolesStayDistinct`, `SeatsKeepOwners`,
  `GameStartsWithRoles` and `ReturnKeepsRole`, for every number of players,
  roles, messages and returning players, and with a StartGame at any moment, as
  the key of the start asks for no role (client/input.rs:206-208). That no
  two players have the same role is far from inductive: the search asks one
  actor after another, and the selection is one more message in a mailbox. The
  invariant `IInv` (`RequestsAgree`) therefore keeps book of what is under way:
  the questions in mailboxes are those the server waits for, one per seat
  (`OneQuestion`), they belong to the command at the head of its own mailbox
  (`HeadServed`), what the search has found so far still holds (`Distinct`), and
  a reconnection has one request, one `TakePeer` and the handle of the seat it
  is for (`ReturnsAgree`). `Distinct` is only kept until someone returns: a role
  that is on its way from one actor to the next is in no seat (see "What the
  models show beside the runs").

  `GameStartsWithRoles` (`EveryoneHasRole`) and `ReturnKeepsRole` (`RoleKept`)
  hold also with players who return, and rest on a second invariant over the
  first, `KInv` (`RolesAreKept`):
  - a player never loses a role (`HasRole` of the player, not of the seat: a
    role moves with `TakePeer` and is otherwise only replaced). So the answers of
    `are_all_have_roles`, asked one after another, still hold together when the
    last is in (`FoundHave`, `AllHave`), and who was told a role has one
    (`ToldHave`);
  - an actor is not given a role after it has handed the peer over. A
    `DropPeer` is the last request of its connection (`DropsComeLast`), the seat
    is only marked offline, and the player only comes back, after it, so no
    `SelectRole` of the first connection is left by then (`FirstsGone`,
    `OwnSeat`). Therefore the first connection has no role once the second is
    in the seat (`SecondsSeats`, `HandsOver`);
  - who begins the game (`Settled`) has the role at the connection that is in
    the seat, is not on the way, and as a first connection has no second one:
    its seat is online, and nobody returns to an online seat. That is what
    `Peer<Game>::from` relies on when it expects the role (`Starting`,
    `AllStart`).

  `KInv` holds in all states of the `roles` run. The proofs found one clause
  that is needed and not obvious: a connection that has not taken the peer over
  yet has no role of its own that the move would replace (`NoneYet`).

  `RolesShownAgree` (`ShownAgrees`) is about a state in which nothing is under
  way, and rests on what is under way before it, a third invariant over the
  other two, `SInv` (`TellingsComeRight`):
  - a client hears from its server through two queues, the mailbox of the actor
    and the channel of the connection. `Comes` says that the last message of a
    kind in the first, or else in the second, or else what the client shows, has
    a given content. Three lemmas say that this is kept when the actor takes
    another message, when it sends one on, and when the client reads one
    (`ComesTaken`, `ComesSent`, `ComesRead`); what is added to a mailbox either
    is no message of the kind (`Longer`) or is the last from then on;
  - the role of the actor comes to its client (`RoleComes`), but for the time
    between the actor's answer to `SelectRole` and the status (`JustSet`), in
    which the role is the one of the command at the head of the server's
    mailbox (`SetRight`);
  - the list of the roles that are taken comes to every client in an online seat
    (`ListComes`), but for the time from a role's being set to the end of the
    command (`Telling`). The roles are collected one seat at a time; they are
    still right when the last answer is in (`CollectRight`), because no other
    command sets a role meanwhile;
  - a new connection is told its role by the peer before its actor runs, and
    nothing else of it can come before that (`Unspoken`); that it shows the
    list needs its seat: it comes into it with `AvailableRoles` in its mailbox
    (`Welcome`). A connection in its seat always has an open mailbox
    (`SeatIsOpen`), so nothing told to a seat is lost;
  - while a peer is on its way from one actor to the next no list is claimed
    to be right (`Still`), and it is never claimed again after a return
    (`NoneReturns`): the collection of `ReconnectPeer` may miss a role, and a
    role may then be given twice. This is why `ShownAgrees` says nothing of the
    list once someone has come back.

  `SInv` holds in all states of the `roles` run. What is lost in a channel at
  the start of the game does not matter to it, because `stage` has left "roles"
  before any actor is asked to start (`BeginGameShows`).
* `CardProofs`. `CardsTypeOK`, `MovesNeverRefused`, `FullHandToDiscard`,
  `ClientsShowTheGame`, `CursorsFindCards` and `CursorsAreDrawn`, for every number
  of players, every size of hand, deck and line, and every bound on unread
  messages and on late keys, whoever presses them. `MovesNeverRefused`, `FullHandToDiscard` and
  `ClientsShowTheGame` say what holds as long as no client has confirmed twice for
  one Turn message; whether the screens also agree after that is only
  model-checked (`cards`).

  `CursorsFindCards` is about the loops of `Cursor`. Each of them walks over the
  places of the list one after another, on from where it begins and, where the
  ends are joined, round to the place the cursor has left; the other two begin at
  an end. A loop stands at the k-th place of its walk after k rounds unless it has
  stopped on an item before (`LoopStops`), and its walk meets every place of the
  list, so it stops at the first item of the walk (`LoopFinds`, `KeysFind`).

  The rest follows from `IInv`, which has four parts for each player and holds as
  long as every client confirms once:
  - the turn is a token (`HasTurn`): the active player's is in one place, the
    mailbox of the actor, the channel to the client, the client's open choice or
    the move on its way back, and nobody else holds anything that could become a
    move. So a move is made in the phase it was chosen for;
  - what a client shows is old but not too old (`FreshInTime`): after its discard
    a player is synchronised before it takes part in the cycle again, because
    its mailbox is a queue and its connection reads no move before it has
    synchronised everyone. What it shows while it attacks is of this cycle,
    and no list with a discarded card in it is still on its way when the cards
    are dealt again, so that a shown card always has its slot (`HandShown`);
  - every hand is dealt once in a cycle (`Dealt`);
  - the last `UpdateGameData` under way, or the one that a `SyncWithClient` in
    some mailbox or an answer in some connection will bring, is the game as it
    is (`CurrentComes`), and a player whose turn has ended will read Wait
    (`WaitComes`).

  `IInv` was found with TLC (it holds in all states of the larger instance named
  under the bounds). The step of a switch is proved once (`SwitchStep`) and used by the four moves
  that end in one.

  `CursorsAreDrawn` says that the list under the keys of a client has a cursor
  whenever it has an item, as long as no key follows a confirmation. A list without an item has none, and gets none when items
  come back to it, so the proof is about lists that become empty. `CInv` adds to
  `IInv`, for each player:
  - monsters that are gone stay gone for the rest of the cycle, in what is shown
    and in all that is still to be read after it (`StaysEmpty` in `GoodAt`, a part
    of `IInv`), so the cursor lost there is not needed before the deal;
  - a hand that is shown empty while the player's hand is empty is shown so by
    every later message too (`HandEmptied`);
  - a client that attacks with no ability in its hand ends when it reads that the
    choice was accepted ("Must be exists", client/states.rs:602), and that
    message comes before its next turn (`Ending`). So whoever lives to its next
    deal had a card left (`HandLeft`), and no hand grows under a lost cursor;
  - therefore a cursor is lost only over an empty list, and that of the monsters
    only while its player chooses one to attack (`CursorsLost`).

`ClientsSurvive` and `CursorKept` are not among them: they do not hold.

Every invariant and every action property of the passing runs is stated by a
theorem, `ClientsAgree` under the hypothesis above. Only model-checked are
`ClientsAgree` after a second confirmation, and liveness (`TurnsGoRound` and `ReturnsToSeat` of the
session, `LoginsEnd` and `StartsRoles` of the lobby), which is out of the prover's
reach.

## Not modelled

* Bounded mailboxes (`MPSC_CHANNEL_CAPACITY`, 32). Two tasks that send to each
  other's full mailboxes would block for ever. Within the bounds of the runs no
  mailbox holds more than a few messages, so a capacity that is ever reached
  would have to be far below the code's, and would then show deadlocks the code
  does not have. Only the channel to a client, which fills with a client that
  does not read, is bounded, in `CardGame`.
* The chat: its lines, the log, the editor of the client. What a chat line asks
  of the servers is in `Session`.
* `Ping` and `Logout`, `Shutdown` at the end of the process, `GetAvailableRoles`,
  `BroadcastToAll` and other commands without a caller.
* A second home server after the last player has left.
* The cursor over the roles: `StatefulList<RoleStatus>` has no empty places and
  its list keeps its length, so the cursor cannot miss an item.
* The JSON codec, a library's, except that a message of another state ends the
  connection; the terminal UI; the listener and the command line; shuffling.
