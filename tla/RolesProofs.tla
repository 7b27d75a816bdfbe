------------------------------ MODULE RolesProofs -----------------------------
(***************************************************************************)
(* Proofs about RolesSession, for every number of players and roles: types,  *)
(* seats keep their owners, roles are distinct as long as no one has come    *)
(* back, the game starts with a role for everyone, and a return loses none.  *)
(*                                                                         *)
(* RolesDistinctAtFirst is about a search that asks the actors one by one and *)
(* a selection that is one more request.  What makes it inductive is the     *)
(* bookkeeping of the requests: the questions in the mailboxes of actors are *)
(* those that the roles server waits for, one per seat (OneQuestion), they   *)
(* belong to the command at the head of its mailbox (HeadServed), and a seat *)
(* changes hands only as the intro server agreed (ReturnsAgree).            *)
(*                                                                         *)
(* EveryoneHasRole and RoleKept rest on KInv, further down.  A player never   *)
(* loses a role, but the role moves from connection to connection; so what   *)
(* was found by are_all_have_roles holds for ever of the player, and at the  *)
(* start of the connection in its seat, if nobody is on the way (Settled).   *)
(*                                                                         *)
(* ShownAgrees rests on SInv, at the end: while messages are on their way, the *)
(* last status in an actor's mailbox and the channel after it, or what the    *)
(* client shows when there is none, is the role of the actor (RoleComes); and  *)
(* so it is with the list of the roles that are taken (ListComes).          *)
(***************************************************************************)
EXTENDS RolesSession, TLAPS

Ops     == {"idle", "search", "set", "name", "collect", "all", "start", "drop",
            "handle", "rejoin"}
Answers == MaybeRole \cup {Pending, "done"}
Requests == [cmd : {"SelectRole", "StartGame", "DropPeer", "ReconnectPeer",
                    "GetPeerHandleByUsername"},
             from : Conns, what : MaybeRole, old : Maybe]

(* TypeOK, with what the steps rely on. *)
Typed ==
  /\ TypeOK
  /\ gwait \in [op : Ops, of : SUBSET Players, got : [Players -> Answers]]
  /\ gq \in Seq(Requests)
  /\ \A i \in 1 .. Len(gq) : gq[i].cmd = "SelectRole" => gq[i].what \in RoleNames

Owned == \A p \in Players : Owner(slots[p].conn) = p

(* The operations that ask one seat, and those that ask for roles. *)
OfOne    == {"search", "set", "name", "all", "drop", "handle"}
GetsRole == {"search", "collect", "all", "rejoin"}

Serves(op, cmd) ==
  \/ op \in {"search", "set", "name", "collect"} /\ cmd = "SelectRole"
  \/ op = "all" /\ cmd = "StartGame"
  \/ op = "drop" /\ cmd = "DropPeer"
  \/ op = "handle" /\ cmd = "GetPeerHandleByUsername"
  \/ op = "rejoin" /\ cmd = "ReconnectPeer"

HeadServed ==
  /\ stage # "roles" => gwait.op \in {"idle", "start"}
  /\ gwait.op \notin {"idle", "start"} => gq # <<>> /\ Serves(gwait.op, gq[1].cmd)
  /\ gwait.op \in OfOne => \E p \in Players : gwait.of = {p}
  /\ gwait.op \in {"collect", "rejoin"} => gwait.of = Players
  /\ gwait.op = "handle" => \A p \in gwait.of : p <= Owner(gq[1].from)
  /\ gwait.op \in GetsRole =>
       \A p \in Players : gwait.got[p] \in MaybeRole \cup {Pending}

Questions == {"GetRole", "SelectRole", "GetUsername"}
Asks(op, msg) ==
  \/ op \in GetsRole /\ msg = "GetRole"
  \/ op = "set" /\ msg = "SelectRole"
  \/ op \in {"name", "drop", "handle"} /\ msg = "GetUsername"

OneQuestion ==
  \A c \in Conns : \A i \in 1 .. Len(aq[c]) :
    aq[c][i].msg \in Questions =>
      /\ slots[Owner(c)].conn = c
      /\ Owner(c) \in gwait.of /\ gwait.got[Owner(c)] = Pending
      /\ Asks(gwait.op, aq[c][i].msg)
      /\ aq[c][i].msg = "SelectRole" => aq[c][i].what = {gq[1].what}
      /\ \A j \in 1 .. Len(aq[c]) : aq[c][j].msg \in Questions => j = i

(* The reconnection that the intro server serves: only a second connection is  *)
(* on the way, with its one request and its one TakePeer, to its own seat.   *)
OnTheWay == {"entering", "w_handle", "take", "w_take", "taken"}
SecondsReturn ==
  /\ \A c \in Conns : pc[c] \in OnTheWay => c[2] = 2
  /\ \A c \in Conns : client[c] = "none" => pc[c] = "none"
  /\ iwait.op # "idle" => iwait.from \in Conns /\ iwait.from[2] = 2

OnlyRequest(cmd, op) ==
  \A i \in 1 .. Len(gq) : gq[i].cmd = cmd =>
    /\ iwait.op = op /\ iwait.got = "no" /\ gq[i].from = iwait.from
    /\ cmd = "ReconnectPeer" => gq[i].old = iwait.old
    /\ \A j \in 1 .. Len(gq) : gq[j].cmd = cmd => j = i

OldInSeat ==
  \/ iwait.op = "handle" /\ iwait.got = "done"
  \/ iwait.op = "answer"
  \/ iwait.op = "reconnect" /\ iwait.got = "no"
  => iwait.old = slots[Owner(iwait.from)].conn

OnlyTakeOver ==
  /\ \A c \in Conns : pc[c] \in {"take", "w_take", "taken"} =>
       iwait.op = "answer" /\ iwait.got = "no" /\ iwait.from = c
  /\ \A c \in Conns : \A i \in 1 .. Len(aq[c]) : aq[c][i].msg = "TakePeer" =>
       /\ aq[c][i].conn \in Conns /\ pc[aq[c][i].conn] = "w_take"
       /\ \A d \in Conns : \A j \in 1 .. Len(aq[d]) :
            aq[d][j].msg = "TakePeer" => d = c /\ j = i

ReturnsAgree ==
  /\ SecondsReturn
  /\ OnlyRequest("GetPeerHandleByUsername", "handle")
  /\ OnlyRequest("ReconnectPeer", "reconnect")
  /\ OldInSeat
  /\ OnlyTakeOver

(* What the search has found out, and the selection relies on. *)
NotTaken(p) == RoleOf(p) # gq[1].what
Distinct ==
  NoOneReturned =>
    /\ RolesDistinct
    /\ gwait.op = "search" =>
         \A p \in Players : \A a \in gwait.of :
           p < a \/ (p = a /\ gwait.got[a] \notin {Pending, gq[1].what}) => NotTaken(p)
    /\ gwait.op = "set" /\ (\E a \in gwait.of : gwait.got[a] = Pending) =>
         \A p \in Players : NotTaken(p)

IInv == Typed /\ Owned /\ HeadServed /\ OneQuestion /\ ReturnsAgree /\ Distinct
-------------------------------------------------------------------------------
(* Connections and seats.                                                  *)

LEMMA ConnFacts ==
  /\ 0 \in Players /\ PlayerCount - 1 \in Players
  /\ \A p \in Players : p \in Nat /\ First1(p) \in Conns /\ Owner(First1(p)) = p
  /\ \A c \in Conns : Owner(c) \in Players /\ c[2] \in {1, 2} /\ c = <<Owner(c), c[2]>>
  /\ NoConn \notin Conns
  BY RolesAssumption DEF Players, Conns, Owner, First1, NoConn

(* Each seat has its own connection, so SeatOf finds the only one. *)
LEMMA SeatOfOwner ==
  ASSUME Owned, NEW c \in Seated
  PROVE  SeatOf(c) = Owner(c) /\ Owner(c) \in Players /\ slots[Owner(c)].conn = c
  BY DEF Owned, Seated, SeatOf

-------------------------------------------------------------------------------
(* Mailboxes of actors.                                                    *)

MailTyped(q) == q \in [Conns -> Seq(Messages)]
NoQuestion(q) == \A c \in Conns : \A i \in 1 .. Len(q[c]) : q[c][i].msg \notin Questions

(* No TakePeer of q2 is new. *)
NoTakePeerAdded(q, q2) ==
  \A c \in Conns : \A i \in 1 .. Len(q2[c]) :
    q2[c][i].msg = "TakePeer" => i \in 1 .. Len(q[c]) /\ q2[c][i] = q[c][i]

LEMMA PostFacts ==
  ASSUME NEW q, MailTyped(q), NEW C, NEW m \in Messages, m.msg # "TakePeer"
  PROVE  /\ MailTyped(Post(q, C, m))
         /\ NoTakePeerAdded(q, Post(q, C, m))
         /\ m.msg \notin Questions /\ NoQuestion(q) => NoQuestion(Post(q, C, m))
  <1>1. ASSUME NEW c \in Conns
        PROVE  /\ q[c] \in Seq(Messages)
               /\ Post(q, C, m)[c] = q[c] \/ Post(q, C, m)[c] = Append(q[c], m)
    BY DEF MailTyped, Post
  <1>2. MailTyped(Post(q, C, m))
    BY <1>1 DEF MailTyped, Post
  <1>3. ASSUME NEW c \in Conns, NEW i \in 1 .. Len(Post(q, C, m)[c])
        PROVE  \/ i \in 1 .. Len(q[c]) /\ Post(q, C, m)[c][i] = q[c][i]
               \/ Post(q, C, m)[c][i] = m
    BY <1>1, <1>3
  <1> QED  BY <1>2, <1>3 DEF NoTakePeerAdded, NoQuestion

(* While the server is idle, or has all its answers, no question is left. *)
LEMMA NoneLeft ==
  ASSUME OneQuestion, \A p \in gwait.of : gwait.got[p] # Pending
  PROVE  NoQuestion(aq)
  BY DEF OneQuestion, NoQuestion

LEMMA NoneWhenIdle ==
  ASSUME OneQuestion, gwait.op \in {"idle", "start"}
  PROVE  NoQuestion(aq)
  BY DEF OneQuestion, NoQuestion, Asks, GetsRole

LEMMA NoneIsOne ==
  ASSUME NoQuestion(aq)'
  PROVE  OneQuestion'
  BY DEF NoQuestion, OneQuestion

(* What asking the seats of P comes to. *)
LEMMA AskSeatsTyped ==
  ASSUME Typed, NEW q, MailTyped(q), NEW op \in Ops, NEW P \in SUBSET Players,
         NEW m \in Messages, m.msg # "TakePeer", AskSeats(op, q, P, m),
         NoTakePeerAdded(aq, q)
  PROVE  /\ aq' \in [Conns -> Seq(Messages)]
         /\ gwait' \in [op : Ops, of : SUBSET Players, got : [Players -> Answers]]
         /\ crashed' \in {"no", "roles", "intro", "norole"}
         /\ NoTakePeerAdded(aq, aq')
         /\ gwait' = gwait \/ gwait' = [op |-> op, of |-> P, got |-> NoAnswers]
  <1>1. CASE aq' = Post(q, {slots[p].conn : p \in P}, m)
             /\ gwait' = [op |-> op, of |-> P, got |-> NoAnswers] /\ crashed' = crashed
    <2>1. MailTyped(aq') /\ NoTakePeerAdded(q, aq')
      BY <1>1, PostFacts
    <2>2. NoTakePeerAdded(aq, aq')
      BY <2>1 DEF NoTakePeerAdded
    <2>3. gwait' \in [op : Ops, of : SUBSET Players, got : [Players -> Answers]]
      BY <1>1 DEF NoAnswers, Answers
    <2>4. crashed' \in {"no", "roles", "intro", "norole"}
      BY <1>1 DEF Typed, TypeOK
    <2> QED  BY <1>1, <2>1, <2>2, <2>3, <2>4 DEF MailTyped
  <1>2. CASE crashed' = "roles" /\ aq' = aq /\ gwait' = gwait
    BY <1>2 DEF Typed, TypeOK, NoTakePeerAdded
  <1> QED  BY <1>1, <1>2 DEF AskSeats

LEMMA AskSeatsOnce ==
  ASSUME Typed, Owned, NEW q, MailTyped(q), NoQuestion(q), NoQuestion(aq),
         NEW op \in Ops, NEW P \in SUBSET Players, NEW m \in Messages,
         AskSeats(op, q, P, m), Asks(op, m.msg), slots' = slots,
         m.msg = "SelectRole" => m.what = {gq'[1].what}
  PROVE  OneQuestion'
  <1> DEFINE C == {slots[p].conn : p \in P}
  <1>1. CASE aq' = aq
    BY <1>1, NoneIsOne DEF NoQuestion
  <1>2. CASE /\ \A c \in C : Open(c)
             /\ aq' = Post(q, C, m)
             /\ gwait' = [op |-> op, of |-> P, got |-> NoAnswers]
    <2>1. ASSUME NEW c \in Conns, NEW i \in 1 .. Len(aq'[c]), aq'[c][i].msg \in Questions
          PROVE  /\ slots[Owner(c)].conn = c /\ Owner(c) \in P
                 /\ NoAnswers[Owner(c)] = Pending
                 /\ aq'[c][i] = m
                 /\ \A j \in 1 .. Len(aq'[c]) : aq'[c][j].msg \in Questions => j = i
      <3>1. q[c] \in Seq(Messages)
        BY DEF MailTyped
      <3>2. aq'[c] = IF c \in C THEN Append(q[c], m) ELSE q[c]
        BY <1>2 DEF Post
      <3>3. c \in C /\ i = Len(q[c]) + 1 /\ aq'[c][i] = m
            /\ \A j \in 1 .. Len(aq'[c]) : aq'[c][j].msg \in Questions => j = i
        BY <2>1, <3>1, <3>2 DEF NoQuestion
      <3> QED  BY <3>3 DEF Owned, NoAnswers
    <2>2. gwait'.op = op /\ gwait'.of = P /\ gwait'.got = NoAnswers
      BY <1>2
    <2> HIDE DEF C
    <2> QED  BY <2>1, <2>2 DEF OneQuestion
  <1> QED  BY <1>1, <1>2 DEF AskSeats

-------------------------------------------------------------------------------
(* Steps of the server.                                                    *)

LEMMA MessageTypes ==
  /\ \A msg \in {"GetRole", "GetUsername", "StartGame", "Chat"} :
       Ask(msg) \in Messages /\ Ask(msg).msg = msg
  /\ \A r \in RoleNames :
       /\ ToActor("SelectRole", {r}, NoConn) \in Messages
       /\ Status({r}) \in Messages
  /\ Status({}) \in Messages
  /\ \A R \in SUBSET RoleNames : Available(R) \in Messages
  BY DEF Ask, ToActor, Messages, Status, Available, Maybe, ForClient

(* No reconnection is asked for, and no TakePeer sent. *)
LEMMA ReturnsKept ==
  ASSUME ReturnsAgree, gq \in Seq(Requests),
         gq' = gq \/ (gq # <<>> /\ gq' = Tail(gq)) \/ gq' = <<>>,
         NoTakePeerAdded(aq, aq'), UNCHANGED <<pc, client, iwait>>,
         \A p \in Players : slots'[p].conn = slots[p].conn
  PROVE  ReturnsAgree'
  <1> USE DEF ReturnsAgree
  <1>1. PICK k \in {0, 1} :
          \A i \in 1 .. Len(gq') : i + k \in 1 .. Len(gq) /\ gq'[i] = gq[i + k]
    <2>1. CASE gq' = gq
      BY <2>1
    <2>2. CASE gq # <<>> /\ gq' = Tail(gq)
      <3>1. \A i \in 1 .. Len(gq') : i + 1 \in 1 .. Len(gq) /\ gq'[i] = gq[i + 1]
        BY <2>2
      <3> QED  BY <3>1
    <2>3. CASE gq' = <<>>
      BY <2>3
    <2> QED  BY <2>1, <2>2, <2>3
  <1>2. ASSUME NEW cmd, NEW op, OnlyRequest(cmd, op)
        PROVE  OnlyRequest(cmd, op)'
    <2>1. SUFFICES ASSUME NEW i \in 1 .. Len(gq'), gq'[i].cmd = cmd
                   PROVE  /\ iwait.op = op /\ iwait.got = "no" /\ gq'[i].from = iwait.from
                          /\ cmd = "ReconnectPeer" => gq'[i].old = iwait.old
                          /\ \A j \in 1 .. Len(gq') : gq'[j].cmd = cmd => j = i
      BY DEF OnlyRequest
    <2>2. i + k \in 1 .. Len(gq) /\ gq[i + k].cmd = cmd /\ gq'[i] = gq[i + k]
      BY <1>1, <2>1
    <2>3. ASSUME NEW j \in 1 .. Len(gq'), gq'[j].cmd = cmd
          PROVE  j + k = i + k
      BY <1>1, <1>2, <2>2, <2>3 DEF OnlyRequest
    <2> QED  BY <1>2, <2>2, <2>3 DEF OnlyRequest
  <1>3. SecondsReturn'
    BY DEF SecondsReturn
  <1>4. OldInSeat'
    <2>1. iwait.op # "idle" => Owner(iwait.from) \in Players
      BY ConnFacts DEF SecondsReturn
    <2> QED  BY <2>1 DEF OldInSeat
  <1>5. OnlyTakeOver'
    <2>1. ASSUME NEW c \in Conns, NEW i \in 1 .. Len(aq'[c]), aq'[c][i].msg = "TakePeer"
          PROVE  /\ aq'[c][i].conn \in Conns /\ pc'[aq'[c][i].conn] = "w_take"
                 /\ \A d \in Conns : \A j \in 1 .. Len(aq'[d]) :
                      aq'[d][j].msg = "TakePeer" => d = c /\ j = i
      <3>1. i \in 1 .. Len(aq[c]) /\ aq'[c][i] = aq[c][i]
        BY <2>1 DEF NoTakePeerAdded
      <3>2. ASSUME NEW d \in Conns, NEW j \in 1 .. Len(aq'[d]), aq'[d][j].msg = "TakePeer"
            PROVE  d = c /\ j = i
        <4>1. j \in 1 .. Len(aq[d]) /\ aq'[d][j] = aq[d][j]
          BY <3>2 DEF NoTakePeerAdded
        <4> QED  BY <2>1, <3>1, <3>2, <4>1 DEF OnlyTakeOver
      <3> QED  BY <2>1, <3>1, <3>2 DEF OnlyTakeOver
    <2> QED  BY <2>1 DEF OnlyTakeOver
  <1> QED  BY <1>2, <1>3, <1>4, <1>5

LEMMA AskStep ==
  ASSUME IInv, NoQuestion(aq), NEW q, MailTyped(q), NoTakePeerAdded(aq, q), NoQuestion(q),
         NEW op \in OfOne \cup {"collect", "rejoin"}, NEW P \in SUBSET Players,
         NEW m \in Messages, AskSeats(op, q, P, m),
         Asks(op, m.msg), m.msg = "SelectRole" => m.what = {gq[1].what},
         stage = "roles", gq # <<>>, Serves(op, gq[1].cmd),
         op \in OfOne => \E p \in Players : P = {p},
         op \in {"collect", "rejoin"} => P = Players,
         op = "handle" => \A p \in P : p <= Owner(gq[1].from),
         op = "search" /\ NoOneReturned =>
           \A p \in Players : \A a \in P : p < a => NotTaken(p),
         op = "set" /\ NoOneReturned => \A p \in Players : NotTaken(p),
         UNCHANGED <<gq, iwait, rest>>
  PROVE  IInv'
  <1> USE DEF IInv
  <1>0. op \in Ops /\ m.msg # "TakePeer"
    BY DEF Ops, OfOne, Asks
  <1>1. /\ aq' \in [Conns -> Seq(Messages)]
        /\ gwait' \in [op : Ops, of : SUBSET Players, got : [Players -> Answers]]
        /\ crashed' \in {"no", "roles", "intro", "norole"}
        /\ NoTakePeerAdded(aq, aq')
        /\ gwait' = gwait \/ gwait' = [op |-> op, of |-> P, got |-> NoAnswers]
    BY <1>0, AskSeatsTyped
  <1>2. Typed'
    BY <1>1 DEF Typed, TypeOK, rest, connVars, clientVars, Ops, Answers
  <1>3. Owned'
    BY DEF Owned, rest
  <1>4. HeadServed'
    BY <1>1 DEF HeadServed, NoAnswers, rest
  <1>5. OneQuestion'
    BY <1>0, AskSeatsOnce DEF rest
  <1>6. ReturnsAgree'
    BY <1>1, ReturnsKept DEF Typed, rest, connVars, clientVars
  <1>7. Distinct'
    BY <1>1 DEF Distinct, rest, NoAnswers, NotTaken, RoleOf, NoOneReturned, RolesDistinct
  <1> QED  BY <1>2, <1>3, <1>4, <1>5, <1>6, <1>7

(* The command at the head is done with. *)
LEMMA FinishFacts ==
  ASSUME IInv, MailTyped(aq'), NoQuestion(aq'), gq # <<>>, Finished,
         slots' \in [Players -> [conn : Conns, online : BOOLEAN]], Owned',
         NoOneReturned' => \A p \in Players : slots'[p].conn = slots[p].conn,
         starting' \in Maybe, crashed' \in {"no", "roles", "intro", "norole"},
         iwait' \in [op : {"idle", "handle", "answer", "reconnect"}, from : Maybe,
                     old : Maybe, got : {"no", "done"}],
         UNCHANGED <<stage, started, actor, role, connVars, clientVars>>
  PROVE  Typed' /\ HeadServed' /\ OneQuestion' /\ Distinct'
  <1> USE DEF IInv
  <1>1. Typed'
    <2>1. gq' \in Seq(Requests)
          /\ \A i \in 1 .. Len(gq') : gq'[i] = gq[i + 1] /\ i + 1 \in 1 .. Len(gq)
      BY DEF Finished, Typed
    <2>2. gwait' \in [op : Ops, of : SUBSET Players, got : [Players -> Answers]]
      BY DEF Finished, ServerIdle, NoAnswers, Ops, Answers
    <2>3. \A i \in 1 .. Len(gq') : gq'[i].cmd = "SelectRole" => gq'[i].what \in RoleNames
      BY <2>1 DEF Typed
    <2> QED  BY <2>1, <2>2, <2>3 DEF Typed, TypeOK, MailTyped, connVars, clientVars,
                                     Ops, Answers, Requests
  <1>2. HeadServed'
    BY DEF HeadServed, Finished, ServerIdle, OfOne, GetsRole
  <1>3. OneQuestion'
    BY NoneIsOne
  <1>4. Distinct'
    BY DEF Distinct, Finished, ServerIdle, RoleOf, NoOneReturned, RolesDistinct
  <1> QED  BY <1>1, <1>2, <1>3, <1>4

LEMMA FinishStep ==
  ASSUME IInv, MailTyped(aq'), NoTakePeerAdded(aq, aq'), NoQuestion(aq'),
         gq # <<>>, Finished,
         slots' \in [Players -> [conn : Conns, online : BOOLEAN]],
         \A p \in Players : slots'[p].conn = slots[p].conn,
         starting' \in Maybe, crashed' \in {"no", "roles", "intro", "norole"},
         UNCHANGED <<iwait, stage, started, actor, role, connVars, clientVars>>
  PROVE  IInv'
  <1>1. Owned'
    BY DEF IInv, Owned
  <1>2. Typed' /\ HeadServed' /\ OneQuestion' /\ Distinct'
    BY <1>1, FinishFacts DEF IInv, Typed, TypeOK
  <1>3. ReturnsAgree'
    BY ReturnsKept DEF IInv, Typed, connVars, clientVars, Finished
  <1> QED  BY <1>1, <1>2, <1>3 DEF IInv

(* The seat that is asked, one after another. *)
LEMMA OneAsked ==
  ASSUME IInv, gwait.op \in OfOne
  PROVE  /\ Asked \in Players /\ gwait.of = {Asked} /\ gq # <<>>
         /\ Serves(gwait.op, Head(gq).cmd) /\ Head(gq) = gq[1] /\ Head(gq) \in Requests
  <1>1. PICK p \in Players : gwait.of = {p}
    BY DEF IInv, HeadServed
  <1>2. Asked = p
    BY <1>1 DEF Asked
  <1> QED  BY <1>1, <1>2 DEF IInv, Typed, HeadServed, OfOne

(* No question is under way when the server goes on. *)
LEMMA GoesOn ==
  ASSUME IInv
  PROVE  /\ MailTyped(aq) /\ NoTakePeerAdded(aq, aq)
         /\ \A cmd : Receive(cmd) => /\ NoQuestion(aq) /\ gwait.op = "idle" /\ gq # <<>>
                                     /\ Head(gq) = gq[1] /\ gq[1].cmd = cmd
                                     /\ gq[1] \in Requests /\ stage = "roles"
         /\ \A op : Answered(op) => /\ NoQuestion(aq) /\ gwait.op = op
                                    /\ op \notin {"idle", "start"} => stage = "roles"
                                    /\ \A p \in gwait.of : gwait.got[p] # Pending
  BY NoneLeft, NoneWhenIdle
     DEF IInv, Receive, Answered, MailTyped, NoTakePeerAdded, Typed, TypeOK, HeadServed

LEMMA SelectRoleStep == ASSUME IInv, SelectRole PROVE IInv'
  <1>1. stage = "roles" /\ NoQuestion(aq) /\ gq # <<>> /\ gq[1].cmd = "SelectRole"
        /\ MailTyped(aq) /\ NoTakePeerAdded(aq, aq)
    BY GoesOn DEF SelectRole
  <1>2. {0} \in SUBSET Players /\ \A p \in Players : ~ (p < 0)
    BY ConnFacts
  <1>3. Ask("GetRole") \in Messages /\ Ask("GetRole").msg = "GetRole"
    BY MessageTypes
  <1>4. Asks("search", "GetRole") /\ Serves("search", "SelectRole") /\ "search" \in OfOne
    BY DEF Asks, GetsRole, Serves, OfOne
  <1> QED  BY <1>1, <1>2, <1>3, <1>4, AskStep DEF SelectRole

LEMMA SearchOnStep == ASSUME IInv, SearchOn PROVE IInv'
  <1>1. stage = "roles" /\ NoQuestion(aq) /\ gwait.op = "search" /\ Answer # Pending
        /\ MailTyped(aq) /\ NoTakePeerAdded(aq, aq)
    BY GoesOn, OneAsked DEF SearchOn, Answer, OfOne
  <1>2. Asked \in Players /\ gwait.of = {Asked} /\ gq # <<>> /\ gq[1].cmd = "SelectRole"
        /\ Answer # gq[1].what
    BY <1>1, OneAsked DEF SearchOn, OfOne, Serves
  <1>3. {Asked + 1} \in SUBSET Players /\ Asked + 1 \in Players
    BY <1>2, RolesAssumption DEF SearchOn, SearchedAll, Players
  <1>4. NoOneReturned => \A p \in Players : p < Asked + 1 => NotTaken(p)
    <2>1. \A p \in Players : p < Asked + 1 => p < Asked \/ p = Asked
      BY <1>2 DEF Players
    <2> QED  BY <1>1, <1>2, <2>1 DEF IInv, Distinct, Answer
  <1>5. Ask("GetRole") \in Messages /\ Ask("GetRole").msg = "GetRole"
    BY MessageTypes
  <1>6. Asks("search", "GetRole") /\ Serves("search", "SelectRole") /\ "search" \in OfOne
    BY DEF Asks, GetsRole, Serves, OfOne
  <1> QED  BY <1>1, <1>2, <1>3, <1>4, <1>5, <1>6, AskStep DEF SearchOn

LEMMA PanicStep == ASSUME IInv, Panic, UNCHANGED <<iwait, rest>> PROVE IInv'
  <1> USE DEF IInv, Panic
  <1>1. Typed'
    BY DEF Typed, TypeOK, rest, connVars, clientVars
  <1>2. Owned' /\ HeadServed' /\ OneQuestion'
    BY DEF Owned, HeadServed, OneQuestion, rest
  <1>3. ReturnsAgree'
    BY GoesOn, ReturnsKept DEF Typed, rest, connVars, clientVars
  <1>4. Distinct'
    BY DEF Distinct, rest, NotTaken, RoleOf, NoOneReturned, RolesDistinct
  <1> QED  BY <1>1, <1>2, <1>3, <1>4

LEMMA RoleIsTakenStep == ASSUME IInv, RoleIsTaken PROVE IInv'
  <1>1. NoQuestion(aq) /\ gwait.op = "search" /\ MailTyped(aq)
    BY GoesOn DEF RoleIsTaken
  <1>2. gq # <<>>
    BY <1>1, OneAsked DEF OfOne
  <1>3. CASE Panic
    BY <1>3, PanicStep DEF RoleIsTaken
  <1>4. CASE Finished /\ aq' = Post(aq, {Head(gq).from}, Status({})) /\ crashed' = crashed
    <2>1. Status({}) \in Messages /\ Status({}).msg \notin Questions \cup {"TakePeer"}
      BY MessageTypes DEF Status, ToActor, Questions
    <2>2. MailTyped(aq') /\ NoTakePeerAdded(aq, aq') /\ NoQuestion(aq')
      BY <1>1, <1>4, <2>1, PostFacts
    <2>3. /\ slots' \in [Players -> [conn : Conns, online : BOOLEAN]]
          /\ starting' \in Maybe /\ crashed' \in {"no", "roles", "intro", "norole"}
      BY <1>4 DEF RoleIsTaken, rest, IInv, Typed, TypeOK
    <2> QED  BY <1>2, <1>4, <2>2, <2>3, FinishStep DEF RoleIsTaken, rest
  <1> QED  BY <1>3, <1>4 DEF RoleIsTaken

LEMMA RoleIsFreeStep == ASSUME IInv, RoleIsFree PROVE IInv'
  <1>1. stage = "roles" /\ NoQuestion(aq) /\ gwait.op = "search" /\ Answer # Pending
        /\ MailTyped(aq) /\ NoTakePeerAdded(aq, aq)
    BY GoesOn, OneAsked DEF RoleIsFree, Answer, OfOne
  <1>2. Asked \in Players /\ gwait.of = {Asked} /\ gq # <<>> /\ gq[1].cmd = "SelectRole"
        /\ Answer # gq[1].what /\ Head(gq) = gq[1] /\ gq[1].what \in RoleNames
    BY <1>1, OneAsked DEF RoleIsFree, OfOne, Serves, IInv, Typed
  <1>3. CASE Panic
    BY <1>3, PanicStep DEF RoleIsFree
  <1>4. CASE /\ Head(gq).from \in Seated
             /\ AskSeats("set", aq, {SeatOf(Head(gq).from)},
                         ToActor("SelectRole", {Head(gq).what}, NoConn))
             /\ gq' = gq
    <2>1. SeatOf(Head(gq).from) \in Players
      BY <1>4, SeatOfOwner DEF IInv
    <2>2. NoOneReturned => \A p \in Players : NotTaken(p)
      <3>1. \A p \in Players : p < Asked \/ p = Asked
        BY <1>2, RolesAssumption DEF RoleIsFree, SearchedAll, Players
      <3> QED  BY <1>1, <1>2, <3>1 DEF IInv, Distinct, Answer
    <2>3. ToActor("SelectRole", {gq[1].what}, NoConn) \in Messages
      BY <1>2, MessageTypes
    <2>4. ToActor("SelectRole", {gq[1].what}, NoConn).msg = "SelectRole"
          /\ ToActor("SelectRole", {gq[1].what}, NoConn).what = {gq[1].what}
      BY DEF ToActor
    <2>5. Asks("set", "SelectRole") /\ Serves("set", "SelectRole") /\ "set" \in OfOne
      BY DEF Asks, Serves, OfOne
    <2> DEFINE m == ToActor("SelectRole", {gq[1].what}, NoConn)
               P == {SeatOf(gq[1].from)}
    <2>6. AskSeats("set", aq, P, m) /\ P \in SUBSET Players /\ \E p \in Players : P = {p}
      BY <1>2, <1>4, <2>1
    <2>7. UNCHANGED <<gq, iwait, rest>>
      BY <1>4 DEF RoleIsFree
    <2> HIDE DEF m, P
    <2>8. m \in Messages /\ m.msg = "SelectRole" /\ m.what = {gq[1].what}
      BY <2>3, <2>4 DEF m
    <2> QED  BY <1>1, <1>2, <2>2, <2>5, <2>6, <2>7, <2>8, AskStep
  <1> QED  BY <1>3, <1>4 DEF RoleIsFree

LEMMA RoleIsSetStep == ASSUME IInv, RoleIsSet PROVE IInv'
  <1> DEFINE q == Post(aq, {Head(gq).from}, Status({Head(gq).what}))
  <1>1. stage = "roles" /\ NoQuestion(aq) /\ gwait.op = "set" /\ MailTyped(aq)
    BY GoesOn DEF RoleIsSet
  <1>2. Asked \in Players /\ gwait.of = {Asked} /\ gq # <<>> /\ gq[1].cmd = "SelectRole"
        /\ Head(gq) = gq[1] /\ gq[1].what \in RoleNames
    BY <1>1, OneAsked DEF OfOne, Serves, IInv, Typed
  <1>3. MailTyped(q) /\ NoTakePeerAdded(aq, q) /\ NoQuestion(q)
    <2>1. Status({gq[1].what}) \in Messages
          /\ Status({gq[1].what}).msg \notin Questions \cup {"TakePeer"}
      BY <1>2, MessageTypes DEF Status, ToActor, Questions
    <2> QED  BY <1>1, <1>2, <2>1, PostFacts
  <1>4. Ask("GetUsername") \in Messages /\ Ask("GetUsername").msg = "GetUsername"
    BY MessageTypes
  <1>5. Asks("name", "GetUsername") /\ Serves("name", "SelectRole") /\ "name" \in OfOne
    BY DEF Asks, Serves, OfOne
  <1> HIDE DEF q
  <1>6. AskSeats("name", q, gwait.of, Ask("GetUsername")) /\ UNCHANGED <<gq, iwait, rest>>
    BY DEF RoleIsSet, q
  <1> QED  BY <1>1, <1>2, <1>3, <1>4, <1>5, <1>6, AskStep

LEMMA TellOthersStep == ASSUME IInv, TellOthers PROVE IInv'
  <1> DEFINE q == Post(aq, OnlineSeats \ {Head(gq).from}, Ask("Chat"))
  <1>1. stage = "roles" /\ NoQuestion(aq) /\ gwait.op = "name" /\ MailTyped(aq)
    BY GoesOn DEF TellOthers
  <1>2. gq # <<>> /\ gq[1].cmd = "SelectRole"
    BY <1>1, OneAsked DEF OfOne, Serves
  <1>3. MailTyped(q) /\ NoTakePeerAdded(aq, q) /\ NoQuestion(q)
    BY <1>1, PostFacts, MessageTypes DEF Questions
  <1>4. Ask("GetRole") \in Messages /\ Ask("GetRole").msg = "GetRole"
    BY MessageTypes
  <1>5. Asks("collect", "GetRole") /\ Serves("collect", "SelectRole")
        /\ "collect" \notin OfOne
    BY DEF Asks, GetsRole, Serves, OfOne
  <1> HIDE DEF q
  <1>6. AskSeats("collect", q, Players, Ask("GetRole")) /\ UNCHANGED <<gq, iwait, rest>>
    BY DEF TellOthers, q
  <1> QED  BY <1>1, <1>2, <1>3, <1>4, <1>5, <1>6, AskStep

LEMMA TellRolesStep == ASSUME IInv, TellRoles PROVE IInv'
  <1>1. NoQuestion(aq) /\ gwait.op = "collect" /\ MailTyped(aq)
        /\ \A p \in gwait.of : gwait.got[p] # Pending
    BY GoesOn DEF TellRoles
  <1>2. gq # <<>> /\ Collected \in SUBSET RoleNames
    BY <1>1 DEF IInv, HeadServed, GetsRole, Collected, MaybeRole
  <1>3. Available(Collected) \in Messages
        /\ Available(Collected).msg \notin Questions \cup {"TakePeer"}
    BY <1>2, MessageTypes DEF Available, ToActor, Questions
  <1>4. MailTyped(aq') /\ NoTakePeerAdded(aq, aq') /\ NoQuestion(aq')
    BY <1>1, <1>3, PostFacts DEF TellRoles
  <1>5. /\ slots' \in [Players -> [conn : Conns, online : BOOLEAN]]
        /\ starting' \in Maybe /\ crashed' \in {"no", "roles", "intro", "norole"}
    BY DEF TellRoles, rest, IInv, Typed, TypeOK
  <1> QED  BY <1>2, <1>4, <1>5, FinishStep DEF TellRoles, rest

LEMMA StartGameStep == ASSUME IInv, StartGame PROVE IInv'
  <1>1. stage = "roles" /\ NoQuestion(aq) /\ gq # <<>> /\ gq[1].cmd = "StartGame"
        /\ MailTyped(aq) /\ NoTakePeerAdded(aq, aq)
    BY GoesOn DEF StartGame
  <1>2. {0} \in SUBSET Players /\ 0 \in Players
    BY ConnFacts
  <1>3. Ask("GetRole") \in Messages /\ Ask("GetRole").msg = "GetRole"
    BY MessageTypes
  <1>4. Asks("all", "GetRole") /\ Serves("all", "StartGame") /\ "all" \in OfOne
    BY DEF Asks, GetsRole, Serves, OfOne
  <1> QED  BY <1>1, <1>2, <1>3, <1>4, AskStep DEF StartGame

LEMMA NextHasRoleStep == ASSUME IInv, NextHasRole PROVE IInv'
  <1>1. stage = "roles" /\ NoQuestion(aq) /\ gwait.op = "all" /\ MailTyped(aq) /\ NoTakePeerAdded(aq, aq)
    BY GoesOn DEF NextHasRole
  <1>2. Asked \in Players /\ gq # <<>> /\ gq[1].cmd = "StartGame"
    BY <1>1, OneAsked DEF OfOne, Serves
  <1>3. {Asked + 1} \in SUBSET Players /\ Asked + 1 \in Players
    BY <1>2, RolesAssumption DEF NextHasRole, RolesUpToAll, Players
  <1>4. Ask("GetRole") \in Messages /\ Ask("GetRole").msg = "GetRole"
    BY MessageTypes
  <1>5. Asks("all", "GetRole") /\ Serves("all", "StartGame") /\ "all" \in OfOne
    BY DEF Asks, GetsRole, Serves, OfOne
  <1> QED  BY <1>1, <1>2, <1>3, <1>4, <1>5, AskStep DEF NextHasRole

LEMMA AllAskedStep ==
  ASSUME IInv, NotAllHaveRoles \/ AllHaveRoles PROVE IInv'
  <1>1. NoQuestion(aq) /\ gwait.op = "all" /\ MailTyped(aq) /\ NoTakePeerAdded(aq, aq)
    BY GoesOn DEF NotAllHaveRoles, AllHaveRoles
  <1>2. Asked \in Players /\ gq # <<>> /\ Head(gq) \in Requests
    BY <1>1, OneAsked DEF OfOne
  <1>3. /\ slots' \in [Players -> [conn : Conns, online : BOOLEAN]]
        /\ starting' \in Maybe /\ crashed' \in {"no", "roles", "intro", "norole"}
    BY <1>2 DEF NotAllHaveRoles, AllHaveRoles, rest, IInv, Typed, TypeOK, Requests, Maybe
  <1>4. /\ aq' = aq /\ Finished /\ slots' = slots
        /\ UNCHANGED <<iwait, stage, started, actor, role, connVars, clientVars>>
    BY DEF NotAllHaveRoles, AllHaveRoles, rest
  <1> QED  BY <1>1, <1>2, <1>3, <1>4, FinishStep

LEMMA DropPeerStep == ASSUME IInv, DropPeer PROVE IInv'
  <1>1. stage = "roles" /\ NoQuestion(aq) /\ gq # <<>> /\ gq[1].cmd = "DropPeer" /\ Head(gq) = gq[1]
        /\ MailTyped(aq) /\ NoTakePeerAdded(aq, aq)
    BY GoesOn DEF DropPeer
  <1>2. CASE Head(gq).from \in Seated
    <2> DEFINE P == {SeatOf(Head(gq).from)}
    <2>1. P \in SUBSET Players /\ \E p \in Players : P = {p}
      BY <1>2, SeatOfOwner DEF IInv
    <2>2. Ask("GetUsername") \in Messages /\ Ask("GetUsername").msg = "GetUsername"
      BY MessageTypes
    <2>3. Asks("drop", "GetUsername") /\ Serves("drop", "DropPeer") /\ "drop" \in OfOne
      BY DEF Asks, Serves, OfOne
    <2>4. AskSeats("drop", aq, P, Ask("GetUsername")) /\ UNCHANGED <<gq, iwait, rest>>
      BY <1>2 DEF DropPeer
    <2> HIDE DEF P
    <2> QED  BY <1>1, <2>1, <2>2, <2>3, <2>4, AskStep
  <1>3. CASE Head(gq).from \notin Seated
    <2>1. Finished /\ UNCHANGED <<aq, crashed, iwait, rest>>
      BY <1>3 DEF DropPeer
    <2>2. /\ slots' \in [Players -> [conn : Conns, online : BOOLEAN]]
          /\ starting' \in Maybe /\ crashed' \in {"no", "roles", "intro", "norole"}
      BY <2>1 DEF rest, IInv, Typed, TypeOK
    <2> QED  BY <1>1, <2>1, <2>2, FinishStep DEF rest
  <1> QED  BY <1>2, <1>3

LEMMA MarkOfflineStep == ASSUME IInv, MarkOffline PROVE IInv'
  <1>1. NoQuestion(aq) /\ gwait.op = "drop" /\ MailTyped(aq)
    BY GoesOn DEF MarkOffline
  <1>2. Asked \in Players /\ gq # <<>>
    BY <1>1, OneAsked DEF OfOne
  <1>3. MailTyped(aq') /\ NoTakePeerAdded(aq, aq') /\ NoQuestion(aq')
    BY <1>1, PostFacts, MessageTypes DEF MarkOffline, Questions
  <1>4. /\ slots' \in [Players -> [conn : Conns, online : BOOLEAN]]
        /\ \A p \in Players : slots'[p].conn = slots[p].conn
        /\ starting' \in Maybe /\ crashed' \in {"no", "roles", "intro", "norole"}
    <2>1. slots \in [Players -> [conn : Conns, online : BOOLEAN]]
      BY DEF IInv, Typed, TypeOK
    <2>2. /\ slots' \in [Players -> [conn : Conns, online : BOOLEAN]]
          /\ \A p \in Players : slots'[p].conn = slots[p].conn
      BY <1>2, <2>1 DEF MarkOffline
    <2> QED  BY <2>2 DEF MarkOffline, IInv, Typed, TypeOK
  <1> QED  BY <1>2, <1>3, <1>4, FinishStep DEF MarkOffline

LEMMA SearchHandleStep == ASSUME IInv, SearchHandle PROVE IInv'
  <1>1. stage = "roles" /\ NoQuestion(aq) /\ gq # <<>> /\ gq[1].cmd = "GetPeerHandleByUsername"
        /\ MailTyped(aq) /\ NoTakePeerAdded(aq, aq) /\ gq[1].from \in Conns
    BY GoesOn DEF SearchHandle, Requests
  <1>2. {0} \in SUBSET Players /\ 0 \in Players /\ 0 <= Owner(gq[1].from)
    BY <1>1, ConnFacts
  <1>3. Ask("GetUsername") \in Messages /\ Ask("GetUsername").msg = "GetUsername"
    BY MessageTypes
  <1>4. Asks("handle", "GetUsername") /\ Serves("handle", "GetPeerHandleByUsername")
        /\ "handle" \in OfOne
    BY DEF Asks, Serves, OfOne
  <1> QED  BY <1>1, <1>2, <1>3, <1>4, AskStep DEF SearchHandle

LEMMA SearchHandleOnStep == ASSUME IInv, SearchHandleOn PROVE IInv'
  <1>1. stage = "roles" /\ NoQuestion(aq) /\ gwait.op = "handle" /\ MailTyped(aq) /\ NoTakePeerAdded(aq, aq)
    BY GoesOn DEF SearchHandleOn
  <1>2. Asked \in Players /\ gwait.of = {Asked} /\ gq # <<>> /\ Head(gq) = gq[1]
        /\ gq[1].cmd = "GetPeerHandleByUsername" /\ gq[1].from \in Conns
    BY <1>1, OneAsked DEF OfOne, Serves, Requests
  <1>3. Asked <= Owner(gq[1].from) /\ Asked # Owner(gq[1].from)
    BY <1>1, <1>2 DEF IInv, HeadServed, SearchHandleOn
  <1>4. {Asked + 1} \in SUBSET Players /\ Asked + 1 \in Players
        /\ Asked + 1 <= Owner(gq[1].from)
    BY <1>2, <1>3, ConnFacts, RolesAssumption DEF Players
  <1>5. Ask("GetUsername") \in Messages /\ Ask("GetUsername").msg = "GetUsername"
    BY MessageTypes
  <1>6. Asks("handle", "GetUsername") /\ Serves("handle", "GetPeerHandleByUsername")
        /\ "handle" \in OfOne
    BY DEF Asks, Serves, OfOne
  <1> QED  BY <1>1, <1>2, <1>4, <1>5, <1>6, AskStep DEF SearchHandleOn

LEMMA ReconnectPeerStep == ASSUME IInv, ReconnectPeer PROVE IInv'
  <1>1. stage = "roles" /\ NoQuestion(aq) /\ gq # <<>> /\ gq[1].cmd = "ReconnectPeer"
        /\ MailTyped(aq) /\ NoTakePeerAdded(aq, aq)
    BY GoesOn DEF ReconnectPeer
  <1>2. Ask("GetRole") \in Messages /\ Ask("GetRole").msg = "GetRole"
    BY MessageTypes
  <1>3. Asks("rejoin", "GetRole") /\ Serves("rejoin", "ReconnectPeer")
        /\ "rejoin" \notin OfOne
    BY DEF Asks, GetsRole, Serves, OfOne
  <1> QED  BY <1>1, <1>2, <1>3, AskStep DEF ReconnectPeer

LEMMA HandleFoundStep == ASSUME IInv, HandleFound PROVE IInv'
  <1>1. NoQuestion(aq) /\ gwait.op = "handle" /\ MailTyped(aq) /\ NoTakePeerAdded(aq, aq)
    BY GoesOn DEF HandleFound
  <1>2. Asked \in Players /\ gq # <<>> /\ Head(gq) = gq[1] /\ 1 \in 1 .. Len(gq)
        /\ gq[1].cmd = "GetPeerHandleByUsername" /\ Asked = Owner(gq[1].from)
    BY <1>1, OneAsked DEF OfOne, Serves, HandleFound, IInv, Typed
  <1>3. /\ iwait.op = "handle" /\ iwait.got = "no" /\ gq[1].from = iwait.from
        /\ \A j \in 1 .. Len(gq) : gq[j].cmd = "GetPeerHandleByUsername" => j = 1
        /\ \A j \in 1 .. Len(gq) : gq[j].cmd # "ReconnectPeer"
    BY <1>2 DEF IInv, ReturnsAgree, OnlyRequest
  <1>4. \A i \in 1 .. Len(gq') :
          gq'[i].cmd \notin {"GetPeerHandleByUsername", "ReconnectPeer"}
    <2>1. \A i \in 1 .. Len(gq') : gq'[i] = gq[i + 1] /\ i + 1 \in 1 .. Len(gq) /\ i + 1 # 1
      BY <1>2 DEF IInv, Typed, HandleFound, Finished
    <2> QED  BY <1>3, <2>1
  <1>5. slots[Asked].conn \in Conns
    BY <1>2 DEF IInv, Typed, TypeOK
  <1>6. iwait' = [iwait EXCEPT !.old = slots[Asked].conn, !.got = "done"]
        /\ slots' = slots /\ aq' = aq /\ pc' = pc /\ client' = client
    BY DEF HandleFound, rest, connVars, clientVars
  <1>7. iwait \in [op : {"idle", "handle", "answer", "reconnect"}, from : Maybe,
                   old : Maybe, got : {"no", "done"}]
    BY DEF IInv, Typed, TypeOK
  <1>8. /\ iwait' \in [op : {"idle", "handle", "answer", "reconnect"}, from : Maybe,
                       old : Maybe, got : {"no", "done"}]
        /\ iwait'.op = "handle" /\ iwait'.got = "done" /\ iwait'.from = iwait.from
        /\ iwait'.old = slots[Asked].conn
    BY <1>3, <1>5, <1>6, <1>7 DEF Maybe
  <1>9. Owned'
    BY <1>6 DEF IInv, Owned
  <1>10. Typed' /\ HeadServed' /\ OneQuestion' /\ Distinct'
    BY <1>1, <1>2, <1>6, <1>8, <1>9, FinishFacts DEF HandleFound, IInv, Typed, TypeOK, rest
  <1>11. ReturnsAgree'
    <2>1. SecondsReturn'
      BY <1>3, <1>6, <1>8 DEF IInv, ReturnsAgree, SecondsReturn
    <2>2. OnlyRequest("GetPeerHandleByUsername", "handle")'
          /\ OnlyRequest("ReconnectPeer", "reconnect")'
      BY <1>4 DEF OnlyRequest
    <2>3. OldInSeat'
      BY <1>2, <1>3, <1>6, <1>8 DEF OldInSeat
    <2>4. OnlyTakeOver'
      BY <1>3, <1>6 DEF IInv, ReturnsAgree, OnlyTakeOver
    <2> QED  BY <2>1, <2>2, <2>3, <2>4 DEF ReturnsAgree
  <1> QED  BY <1>9, <1>10, <1>11 DEF IInv

(* The seat goes to the second connection of its owner. *)
LEMMA RejoinedStep == ASSUME IInv, Rejoined PROVE IInv'
  <1>1. /\ NoQuestion(aq) /\ gwait.op = "rejoin" /\ MailTyped(aq)
        /\ \A p \in gwait.of : gwait.got[p] # Pending
    BY GoesOn DEF Rejoined
  <1>2. gq # <<>> /\ Head(gq) = gq[1] /\ 1 \in 1 .. Len(gq) /\ gq[1].cmd = "ReconnectPeer"
    BY <1>1 DEF IInv, HeadServed, Serves, Typed
  <1>3. /\ iwait.op = "reconnect" /\ iwait.got = "no"
        /\ gq[1].from = iwait.from /\ gq[1].old = iwait.old
        /\ \A j \in 1 .. Len(gq) : gq[j].cmd = "ReconnectPeer" => j = 1
        /\ \A j \in 1 .. Len(gq) : gq[j].cmd # "GetPeerHandleByUsername"
    BY <1>2 DEF IInv, ReturnsAgree, OnlyRequest
  <1>4. iwait.from \in Conns /\ iwait.from[2] = 2 /\ Owner(iwait.from) \in Players
        /\ iwait.old = slots[Owner(iwait.from)].conn
    BY <1>3, ConnFacts DEF IInv, ReturnsAgree, SecondsReturn, OldInSeat
  <1>5. iwait.old \in Seated /\ SeatOf(iwait.old) = Owner(iwait.from)
    <2>1. iwait.old \in Seated
      BY <1>4 DEF Seated
    <2> QED  BY <1>4, <2>1, SeatOfOwner DEF IInv, Owned
  <1>6. slots' = [slots EXCEPT ![Owner(iwait.from)] = [conn |-> iwait.from, online |-> TRUE]]
    BY <1>2, <1>3, <1>5 DEF Rejoined
  <1>7. slots \in [Players -> [conn : Conns, online : BOOLEAN]]
    BY DEF IInv, Typed, TypeOK
  <1>8. /\ slots' \in [Players -> [conn : Conns, online : BOOLEAN]]
        /\ slots'[Owner(iwait.from)].conn = iwait.from
        /\ \A p \in Players : p # Owner(iwait.from) => slots'[p].conn = slots[p].conn
    BY <1>4, <1>6, <1>7
  <1>9. Owned' /\ ~ NoOneReturned'
    BY <1>4, <1>8 DEF IInv, Owned, NoOneReturned
  <1>10. iwait \in [op : {"idle", "handle", "answer", "reconnect"}, from : Maybe,
                    old : Maybe, got : {"no", "done"}]
    BY DEF IInv, Typed, TypeOK
  <1>11. /\ iwait' \in [op : {"idle", "handle", "answer", "reconnect"}, from : Maybe,
                        old : Maybe, got : {"no", "done"}]
         /\ iwait'.op = "reconnect" /\ iwait'.got = "done" /\ iwait'.from = iwait.from
    BY <1>3, <1>10 DEF Rejoined
  <1>12. MailTyped(aq') /\ NoTakePeerAdded(aq, aq') /\ NoQuestion(aq')
    <2>1. Collected \in SUBSET RoleNames
      BY <1>1 DEF IInv, HeadServed, GetsRole, Collected, MaybeRole
    <2>2. Available(Collected) \in Messages
          /\ Available(Collected).msg \notin Questions \cup {"TakePeer"}
      BY <2>1, MessageTypes DEF Available, ToActor, Questions
    <2> QED  BY <1>1, <2>2, PostFacts DEF Rejoined
  <1>13. Typed' /\ HeadServed' /\ OneQuestion' /\ Distinct'
    BY <1>2, <1>8, <1>9, <1>11, <1>12, FinishFacts DEF Rejoined, IInv, Typed, TypeOK
  <1>14. ReturnsAgree'
    <2>1. pc' = pc /\ client' = client /\ Finished
      BY DEF Rejoined, connVars, clientVars
    <2>2. SecondsReturn'
      BY <1>3, <1>4, <1>11, <2>1 DEF IInv, ReturnsAgree, SecondsReturn
    <2>3. \A i \in 1 .. Len(gq') :
            gq'[i].cmd \notin {"GetPeerHandleByUsername", "ReconnectPeer"}
      <3>1. \A i \in 1 .. Len(gq') :
              gq'[i] = gq[i + 1] /\ i + 1 \in 1 .. Len(gq) /\ i + 1 # 1
        BY <1>2, <2>1 DEF IInv, Typed, Finished
      <3> QED  BY <1>3, <3>1
    <2>4. OnlyRequest("GetPeerHandleByUsername", "handle")'
          /\ OnlyRequest("ReconnectPeer", "reconnect")'
      BY <2>3 DEF OnlyRequest
    <2>5. OldInSeat'
      BY <1>11 DEF OldInSeat
    <2>6. OnlyTakeOver'
      BY <1>3, <1>12, <2>1 DEF IInv, ReturnsAgree, OnlyTakeOver, NoTakePeerAdded
    <2> QED  BY <2>2, <2>4, <2>5, <2>6 DEF ReturnsAgree
  <1> QED  BY <1>9, <1>13, <1>14 DEF IInv

LEMMA TakeStartStep == ASSUME IInv, TakeStart PROVE IInv'
  <1>1. NoQuestion(aq) /\ gwait.op = "idle"
    BY NoneWhenIdle DEF TakeStart, IInv
  <1>2. MailTyped(aq) /\ NoTakePeerAdded(aq, aq)
    BY GoesOn
  <1>3. AskSeats("start", aq, Players, Ask("StartGame")) /\ "start" \in Ops
        /\ Ask("StartGame") \in Messages /\ Ask("StartGame").msg = "StartGame"
    BY MessageTypes DEF TakeStart, Ops
  <1>4. /\ aq' \in [Conns -> Seq(Messages)]
        /\ gwait' \in [op : Ops, of : SUBSET Players, got : [Players -> Answers]]
        /\ crashed' \in {"no", "roles", "intro", "norole"}
        /\ NoTakePeerAdded(aq, aq')
        /\ gwait' = gwait \/ gwait' = [op |-> "start", of |-> Players, got |-> NoAnswers]
    BY <1>2, <1>3, AskSeatsTyped DEF IInv
  <1>5. NoQuestion(aq')
    BY <1>1, <1>2, <1>3, PostFacts DEF AskSeats, Questions
  <1>6. Typed'
    BY <1>4 DEF TakeStart, IInv, Typed, TypeOK, connVars, clientVars, Ops, Answers
  <1>7. Owned' /\ HeadServed' /\ OneQuestion'
    BY <1>1, <1>4, <1>5, NoneIsOne DEF TakeStart, IInv, Owned, HeadServed, OfOne, GetsRole
  <1>8. ReturnsAgree'
    BY <1>4, ReturnsKept DEF TakeStart, IInv, Typed, connVars, clientVars
  <1>9. Distinct'
    BY <1>1, <1>4 DEF TakeStart, IInv, Distinct, RoleOf, NoOneReturned, RolesDistinct
  <1> QED  BY <1>6, <1>7, <1>8, <1>9 DEF IInv

LEMMA RunGameStep == ASSUME IInv, RunGame PROVE IInv'
  <1>1. gwait.op \in {"idle", "start"} /\ NoQuestion(aq)
    BY NoneWhenIdle DEF RunGame, IInv, HeadServed
  <1>2. Typed'
    BY DEF RunGame, IInv, Typed, TypeOK, actorVars, connVars, clientVars, ServerIdle,
           NoAnswers, Ops, Answers
  <1>3. Owned' /\ HeadServed'
    BY DEF RunGame, IInv, Owned, HeadServed, OfOne, GetsRole, ServerIdle
  <1>4. OneQuestion'
    BY <1>1, NoneIsOne DEF RunGame, actorVars, NoQuestion
  <1>5. ReturnsAgree'
    BY GoesOn, ReturnsKept DEF RunGame, IInv, Typed, connVars, clientVars, actorVars
  <1>6. Distinct'
    BY DEF RunGame, IInv, Distinct, RoleOf, NoOneReturned, RolesDistinct, ServerIdle,
           actorVars
  <1> QED  BY <1>2, <1>3, <1>4, <1>5, <1>6 DEF IInv

LEMMA RolesServerStep == ASSUME IInv, RolesServerNext PROVE IInv'
  BY SelectRoleStep, SearchOnStep, RoleIsTakenStep, RoleIsFreeStep, RoleIsSetStep,
     TellOthersStep, TellRolesStep, StartGameStep, NextHasRoleStep, AllAskedStep,
     TakeStartStep, RunGameStep, DropPeerStep, MarkOfflineStep, SearchHandleStep,
     SearchHandleOnStep, HandleFoundStep, ReconnectPeerStep, RejoinedStep
     DEF RolesServerNext

-------------------------------------------------------------------------------
(* Steps of the others: they send requests to the server and take messages     *)
(* from mailboxes.                                                         *)

Fewer(q, q2) ==
  \A c \in Conns : q2[c] = q[c] \/ (q[c] # <<>> /\ q2[c] = Tail(q[c])) \/ q2[c] = <<>>

Sends(cmds) ==
  gq' = gq \/ \E r \in Requests : /\ gq' = Append(gq, r) /\ r.cmd \in cmds
                                  /\ r.cmd = "SelectRole" => r.what \in RoleNames

(* No question is new: what q2[c] has q[c] had, at the same place or the next.  *)
NoQuestionAdded(q, q2) ==
  \A c \in Conns : \E k \in {0, 1} : \A i \in 1 .. Len(q2[c]) :
    q2[c][i].msg \in Questions => i + k \in 1 .. Len(q[c]) /\ q2[c][i] = q[c][i + k]

LEMMA FewerFacts ==
  ASSUME NEW q, MailTyped(q), NEW q2, Fewer(q, q2)
  PROVE  \A c \in Conns : \E k \in {0, 1} : \A i \in 1 .. Len(q2[c]) :
           i + k \in 1 .. Len(q[c]) /\ q2[c][i] = q[c][i + k]
  <1> SUFFICES ASSUME NEW c \in Conns
               PROVE  \E k \in {0, 1} : \A i \in 1 .. Len(q2[c]) :
                        i + k \in 1 .. Len(q[c]) /\ q2[c][i] = q[c][i + k]
    OBVIOUS
  <1>1. q[c] \in Seq(Messages)
    BY DEF MailTyped
  <1>2. CASE q2[c] = q[c]
    BY <1>1, <1>2
  <1>3. CASE q[c] # <<>> /\ q2[c] = Tail(q[c])
    <2>1. \A i \in 1 .. Len(q2[c]) : i + 1 \in 1 .. Len(q[c]) /\ q2[c][i] = q[c][i + 1]
      BY <1>1, <1>3
    <2> QED  BY <2>1
  <1>4. CASE q2[c] = <<>>
    BY <1>4
  <1> QED  BY <1>2, <1>3, <1>4 DEF Fewer

LEMMA NothingAsked ==
  ASSUME MailTyped(aq), Fewer(aq, aq')
  PROVE  NoQuestionAdded(aq, aq')
  <1> SUFFICES ASSUME NEW c \in Conns
               PROVE  \E k \in {0, 1} : \A i \in 1 .. Len(aq'[c]) :
                        aq'[c][i].msg \in Questions =>
                          i + k \in 1 .. Len(aq[c]) /\ aq'[c][i] = aq[c][i + k]
    BY DEF NoQuestionAdded
  <1>1. PICK k \in {0, 1} : \A i \in 1 .. Len(aq'[c]) :
                              i + k \in 1 .. Len(aq[c]) /\ aq'[c][i] = aq[c][i + k]
    BY SMTT(30), FewerFacts
  <1> QED  BY <1>1

LEMMA RequestsTyped ==
  ASSUME Typed, NEW cmds, Sends(cmds)
  PROVE  /\ gq' \in Seq(Requests)
         /\ \A i \in 1 .. Len(gq') : gq'[i].cmd = "SelectRole" => gq'[i].what \in RoleNames
         /\ gq # <<>> => gq' # <<>> /\ gq'[1] = gq[1]
         /\ \A i \in 1 .. Len(gq') : gq'[i].cmd \notin cmds =>
              i \in 1 .. Len(gq) /\ gq'[i] = gq[i]
  <1>1. CASE gq' = gq
    BY <1>1 DEF Typed
  <1>2. CASE gq' # gq
    <2>1. PICK r \in Requests : /\ gq' = Append(gq, r) /\ r.cmd \in cmds
                                /\ r.cmd = "SelectRole" => r.what \in RoleNames
      BY <1>2 DEF Sends
    <2>2. gq \in Seq(Requests)
          /\ \A i \in 1 .. Len(gq) : gq[i].cmd = "SelectRole" => gq[i].what \in RoleNames
      BY DEF Typed
    <2>3. gq' \in Seq(Requests) /\ Len(gq') = Len(gq) + 1 /\ gq'[Len(gq) + 1] = r
          /\ \A i \in 1 .. Len(gq) : gq'[i] = gq[i]
      BY <2>1, <2>2
    <2>4. \A i \in 1 .. Len(gq') : i \in 1 .. Len(gq) \/ i = Len(gq) + 1
      BY <2>2, <2>3
    <2>5. gq # <<>> => gq' # <<>> /\ gq'[1] = gq[1]
      BY <2>2, <2>3
    <2> QED  BY <2>1, <2>2, <2>3, <2>4, <2>5
  <1> QED  BY <1>1, <1>2

(* The server does not move. *)
LEMMA MailShrunk ==
  ASSUME IInv, NEW cmds, Sends(cmds), NoQuestionAdded(aq, aq'),
         UNCHANGED <<stage, slots, gwait>>
  PROVE  Owned' /\ HeadServed' /\ OneQuestion'
  <1> USE DEF IInv
  <1>1. gq # <<>> => gq' # <<>> /\ gq'[1] = gq[1]
    BY RequestsTyped
  <1>2. gwait.op \notin {"idle", "start"} => gq # <<>>
    BY DEF HeadServed
  <1>3. Owned' /\ HeadServed'
    BY <1>1, <1>2 DEF Owned, HeadServed, OfOne, GetsRole
  <1>4. OneQuestion'
    <2>1. SUFFICES ASSUME NEW c \in Conns, NEW i \in 1 .. Len(aq'[c]),
                          aq'[c][i].msg \in Questions
                   PROVE  /\ slots[Owner(c)].conn = c
                          /\ Owner(c) \in gwait.of /\ gwait.got[Owner(c)] = Pending
                          /\ Asks(gwait.op, aq'[c][i].msg)
                          /\ aq'[c][i].msg = "SelectRole" => aq'[c][i].what = {gq'[1].what}
                          /\ \A j \in 1 .. Len(aq'[c]) : aq'[c][j].msg \in Questions => j = i
      BY DEF OneQuestion
    <2>2. PICK k \in {0, 1} : \A j \in 1 .. Len(aq'[c]) : aq'[c][j].msg \in Questions =>
                                j + k \in 1 .. Len(aq[c]) /\ aq'[c][j] = aq[c][j + k]
      BY DEF NoQuestionAdded
    <2>3. i + k \in 1 .. Len(aq[c]) /\ aq'[c][i] = aq[c][i + k]
      BY <2>1, <2>2
    <2>4. ASSUME NEW j \in 1 .. Len(aq'[c]), aq'[c][j].msg \in Questions
          PROVE  j + k = i + k
      <3>1. j + k \in 1 .. Len(aq[c]) /\ aq'[c][j] = aq[c][j + k]
        BY <2>2, <2>4
      <3>2. \A a, b \in 1 .. Len(aq[c]) :
              aq[c][a].msg \in Questions /\ aq[c][b].msg \in Questions => a = b
        BY DEF OneQuestion
      <3> QED  BY <2>1, <2>3, <2>4, <3>1, <3>2
    <2>5. /\ slots[Owner(c)].conn = c
          /\ Owner(c) \in gwait.of /\ gwait.got[Owner(c)] = Pending
          /\ Asks(gwait.op, aq'[c][i].msg)
          /\ aq'[c][i].msg = "SelectRole" => aq'[c][i].what = {gq[1].what}
      BY <2>1, <2>3 DEF OneQuestion
    <2>6. gq # <<>>
      BY <1>2, <2>5 DEF Asks, GetsRole
    <2>7. \A j \in 1 .. Len(aq'[c]) : aq'[c][j].msg \in Questions => j = i
      BY <2>4
    <2> QED  BY <1>1, <2>5, <2>6, <2>7
  <1> QED  BY <1>3, <1>4

LEMMA ServerKept ==
  ASSUME IInv, NEW cmds, Sends(cmds), NoQuestionAdded(aq, aq'),
         UNCHANGED <<stage, slots, gwait, role>>
  PROVE  Owned' /\ HeadServed' /\ OneQuestion' /\ Distinct'
  <1>1. gq # <<>> => gq' # <<>> /\ gq'[1] = gq[1]
    BY RequestsTyped DEF IInv
  <1>2. gwait.op \notin {"idle", "start"} => gq # <<>>
    BY DEF IInv, HeadServed
  <1>3. Distinct'
    BY <1>1, <1>2 DEF IInv, Distinct, NotTaken, RoleOf, NoOneReturned, RolesDistinct
  <1> QED  BY <1>3, MailShrunk

Taking == {"take", "w_take", "taken"}

LEMMA TakeOverKept ==
  ASSUME OnlyTakeOver, MailTyped(aq), Fewer(aq, aq'), iwait' = iwait,
         \A c \in Conns : pc[c] \in Taking \/ pc'[c] \in Taking => pc'[c] = pc[c]
  PROVE  OnlyTakeOver'
  <1>1. \A c \in Conns : pc'[c] \in Taking =>
          iwait.op = "answer" /\ iwait.got = "no" /\ iwait.from = c
    BY DEF OnlyTakeOver, Taking
  <1>2. ASSUME NEW c \in Conns, NEW i \in 1 .. Len(aq'[c]), aq'[c][i].msg = "TakePeer"
        PROVE  /\ aq'[c][i].conn \in Conns /\ pc'[aq'[c][i].conn] = "w_take"
               /\ \A d \in Conns : \A j \in 1 .. Len(aq'[d]) :
                    aq'[d][j].msg = "TakePeer" => d = c /\ j = i
    <2>1. PICK k \in {0, 1} : \A j \in 1 .. Len(aq'[c]) :
                                j + k \in 1 .. Len(aq[c]) /\ aq'[c][j] = aq[c][j + k]
      BY SMTT(30), FewerFacts
    <2>2. /\ i + k \in 1 .. Len(aq[c]) /\ aq[c][i + k].msg = "TakePeer"
          /\ aq'[c][i].conn \in Conns /\ pc[aq'[c][i].conn] = "w_take"
      <3>1. i + k \in 1 .. Len(aq[c]) /\ aq'[c][i] = aq[c][i + k]
        BY <2>1
      <3>2. \A n \in 1 .. Len(aq[c]) : aq[c][n].msg = "TakePeer" =>
              aq[c][n].conn \in Conns /\ pc[aq[c][n].conn] = "w_take"
        BY DEF OnlyTakeOver
      <3> QED  BY <1>2, <3>1, <3>2
    <2>3. ASSUME NEW d \in Conns, NEW j \in 1 .. Len(aq'[d]), aq'[d][j].msg = "TakePeer"
          PROVE  d = c /\ j = i
      <3>1. PICK l \in {0, 1} : \A n \in 1 .. Len(aq'[d]) :
                                  n + l \in 1 .. Len(aq[d]) /\ aq'[d][n] = aq[d][n + l]
        BY SMTT(30), FewerFacts
      <3>2. j + l \in 1 .. Len(aq[d]) /\ aq[d][j + l].msg = "TakePeer"
        BY <2>3, <3>1
      <3>3. \A n \in 1 .. Len(aq[c]), a \in 1 .. Len(aq[d]) :
              aq[c][n].msg = "TakePeer" /\ aq[d][a].msg = "TakePeer" => d = c /\ a = n
        BY DEF OnlyTakeOver
      <3>4. d = c
        BY <2>2, <3>2, <3>3
      <3>5. j + k \in 1 .. Len(aq[c]) /\ aq[c][j + k].msg = "TakePeer"
        BY <2>1, <2>3, <3>4
      <3>6. j + k = i + k
        BY <2>2, <3>3, <3>4, <3>5
      <3> QED  BY <3>4, <3>6
    <2> QED  BY <2>2, <2>3 DEF Taking
  <1> QED  BY <1>1, <1>2 DEF OnlyTakeOver, Taking

(* Nothing of a reconnection is done. *)
LEMMA OtherStep ==
  ASSUME IInv, Typed', Sends({"SelectRole", "StartGame", "DropPeer"}), Fewer(aq, aq'),
         UNCHANGED <<stage, slots, gwait, role, iwait>>,
         \A c \in Conns : pc[c] \in Taking \/ pc'[c] \in Taking => pc'[c] = pc[c],
         \A c \in Conns : pc'[c] \in OnTheWay => c[2] = 2,
         \A c \in Conns : client'[c] = "none" => pc'[c] = "none"
  PROVE  IInv'
  <1>1. MailTyped(aq)
    BY DEF IInv, Typed, TypeOK, MailTyped
  <1>2. NoQuestionAdded(aq, aq')
    BY <1>1, NothingAsked
  <1>3. Owned' /\ HeadServed' /\ OneQuestion' /\ Distinct'
    BY <1>2, ServerKept
  <1>4. SecondsReturn'
    BY DEF IInv, ReturnsAgree, SecondsReturn
  <1>5. ASSUME NEW cmd \in {"GetPeerHandleByUsername", "ReconnectPeer"}, NEW op,
               OnlyRequest(cmd, op)
        PROVE  OnlyRequest(cmd, op)'
    <2>1. \A i \in 1 .. Len(gq') : gq'[i].cmd = cmd => i \in 1 .. Len(gq) /\ gq'[i] = gq[i]
      BY RequestsTyped DEF IInv
    <2> QED  BY <1>5, <2>1 DEF OnlyRequest
  <1>6. OldInSeat'
    BY DEF IInv, ReturnsAgree, OldInSeat
  <1>7. OnlyTakeOver'
    BY <1>1, TakeOverKept DEF IInv, ReturnsAgree
  <1> QED  BY <1>3, <1>4, <1>5, <1>6, <1>7 DEF IInv, ReturnsAgree

LEMMA ChannelTyped ==
  ASSUME NEW S, NEW f \in [Conns -> Seq(S)], NEW c \in Conns
  PROVE  /\ \A x \in S : [f EXCEPT ![c] = Append(@, x)] \in [Conns -> Seq(S)]
         /\ [f EXCEPT ![c] = <<>>] \in [Conns -> Seq(S)]
         /\ f[c] # <<>> =>
              Head(f[c]) \in S /\ [f EXCEPT ![c] = Tail(@)] \in [Conns -> Seq(S)]
  <1>1. f[c] \in Seq(S)
    OBVIOUS
  <1>2. <<>> \in Seq(S) /\ \A x \in S : Append(f[c], x) \in Seq(S)
    BY <1>1
  <1>3. f[c] # <<>> => Head(f[c]) \in S /\ Tail(f[c]) \in Seq(S)
    BY <1>1
  <1> QED  BY <1>2, <1>3

LEMMA OneLess ==
  ASSUME NEW f \in {"select", "start"},
         left \in [select : 0 .. Selections, start : 0 .. Starts], left[f] > 0
  PROVE  [left EXCEPT ![f] = @ - 1] \in [select : 0 .. Selections, start : 0 .. Starts]
  <1>1. left.select \in 0 .. Selections /\ left.start \in 0 .. Starts
    OBVIOUS
  <1>2. Selections \in Nat /\ Starts \in Nat
    BY RolesAssumption
  <1>3. left.select > 0 => left.select - 1 \in 0 .. Selections
    BY <1>1, <1>2
  <1>4. left.start > 0 => left.start - 1 \in 0 .. Starts
    BY <1>1, <1>2
  <1>5. CASE f = "select"
    BY <1>1, <1>3, <1>5
  <1>6. CASE f = "start"
    BY <1>1, <1>4, <1>6
  <1> QED  BY <1>5, <1>6

Places == {"none", "entering", "w_handle", "take", "w_take", "taken", "boot", "roles",
           "toGame", "startGame", "game", "ended"}
CanCrash == {"no", "roles", "intro", "norole"}

(* The types of what the peers and clients have. *)
PeersTyped ==
  /\ started \subseteq Conns
  /\ actor \in [Conns -> {"none", "boot", "on", "over", "dead"}]
  /\ role \in [Conns -> MaybeRole]
  /\ aq \in [Conns -> Seq(Messages)]
  /\ pc \in [Conns -> Places]
  /\ sock \in [Conns -> Seq(Messages)]
  /\ client \in [Conns -> {"none", "on", "off"}]
  /\ items \in [Conns -> SUBSET RoleNames]
  /\ chosen \in [Conns -> MaybeRole]
  /\ left \in [select : 0 .. Selections, start : 0 .. Starts]
  /\ cin \in [Conns -> Seq(RoleNames \cup {"StartGame"})]
  /\ crashed \in CanCrash

LEMMA PeersAreTyped == ASSUME IInv PROVE PeersTyped
  BY DEF IInv, Typed, TypeOK, PeersTyped, Places, CanCrash

LEMMA TypedStep ==
  ASSUME IInv, NEW cmds, Sends(cmds), UNCHANGED <<stage, slots, gwait, starting, iwait>>,
         PeersTyped'
  PROVE  Typed'
  <1>1. /\ gq' \in Seq(Requests)
        /\ \A i \in 1 .. Len(gq') : gq'[i].cmd = "SelectRole" => gq'[i].what \in RoleNames
    BY RequestsTyped DEF IInv
  <1> QED  BY <1>1 DEF IInv, Typed, TypeOK, PeersTyped, Places, CanCrash, Requests

LEMMA ClientStep ==
  ASSUME IInv, NEW c \in Conns, ClientNext(c) PROVE IInv'
  <1>1. UNCHANGED <<stage, slots, gq, gwait, starting, started, iwait, actor, role, aq,
                    sock, items, chosen, crashed>>
    BY DEF ClientNext, Confirm, PressStart, Quit, Return, connVars, serverVars, actorVars
  <1>2. Fewer(aq, aq') /\ Sends({"SelectRole", "StartGame", "DropPeer"})
    BY <1>1 DEF Fewer, Sends
  <1>3. PeersTyped
    BY PeersAreTyped
  <1>4. \A d \in Conns : (pc[d] \in OnTheWay => d[2] = 2) /\ (client[d] = "none" => pc[d] = "none")
    BY DEF IInv, ReturnsAgree, SecondsReturn
  <1>5. ASSUME NEW r \in RoleNames, Confirm(c, r) PROVE IInv'
    <2>1. cin' = [cin EXCEPT ![c] = Append(@, r)] /\ left' = [left EXCEPT !["select"] = @ - 1]
          /\ left["select"] > 0 /\ pc' = pc /\ client' = client
      BY <1>5 DEF Confirm, connVars
    <2>2. cin' \in [Conns -> Seq(RoleNames \cup {"StartGame"})]
          /\ left' \in [select : 0 .. Selections, start : 0 .. Starts]
      BY <1>3, <2>1, ChannelTyped, OneLess DEF PeersTyped
    <2>3. Typed'
      BY <1>1, <1>2, <1>3, <2>1, <2>2, TypedStep DEF PeersTyped
    <2> QED  BY <1>1, <1>2, <1>4, <2>1, <2>3, OtherStep
  <1>6. CASE PressStart(c)
    <2>1. cin' = [cin EXCEPT ![c] = Append(@, "StartGame")]
          /\ left' = [left EXCEPT !["start"] = @ - 1]
          /\ left["start"] > 0 /\ pc' = pc /\ client' = client
      BY <1>6 DEF PressStart, connVars
    <2>2. cin' \in [Conns -> Seq(RoleNames \cup {"StartGame"})]
          /\ left' \in [select : 0 .. Selections, start : 0 .. Starts]
      BY <1>3, <2>1, ChannelTyped, OneLess DEF PeersTyped
    <2>3. Typed'
      BY <1>1, <1>2, <1>3, <2>1, <2>2, TypedStep DEF PeersTyped
    <2> QED  BY <1>1, <1>2, <1>4, <2>1, <2>3, OtherStep
  <1>7. CASE Quit(c)
    <2>1. client' = [client EXCEPT ![c] = "off"] /\ client[c] = "on"
          /\ UNCHANGED <<left, cin, pc>>
      BY <1>7 DEF Quit, connVars
    <2>2. client' \in [Conns -> {"none", "on", "off"}]
          /\ \A d \in Conns : client'[d] = "none" => pc'[d] = "none"
      BY <1>3, <1>4, <2>1 DEF PeersTyped
    <2>3. Typed'
      BY <1>1, <1>2, <1>3, <2>1, <2>2, TypedStep DEF PeersTyped
    <2> QED  BY <1>1, <1>2, <1>4, <2>1, <2>2, <2>3, OtherStep
  <1>8. CASE Return(c)
    <2>1. client' = [client EXCEPT ![c] = "on"] /\ pc' = [pc EXCEPT ![c] = "entering"]
          /\ client[c] = "none" /\ c[2] = 2 /\ UNCHANGED <<left, cin>>
      BY <1>8 DEF Return, Goto
    <2>2. /\ client' \in [Conns -> {"none", "on", "off"}] /\ pc' \in [Conns -> Places]
          /\ \A d \in Conns : client'[d] = "none" => pc'[d] = "none"
          /\ \A d \in Conns : pc'[d] \in OnTheWay => d[2] = 2
          /\ \A d \in Conns : pc[d] \in Taking \/ pc'[d] \in Taking => pc'[d] = pc[d]
      BY <1>3, <1>4, <2>1 DEF Taking, PeersTyped, Places
    <2>3. Typed'
      BY <1>1, <1>2, <1>3, <2>1, <2>2, TypedStep DEF PeersTyped
    <2> QED  BY <1>1, <1>2, <2>2, <2>3, OtherStep
  <1> QED  BY <1>5, <1>6, <1>7, <1>8 DEF ClientNext

(* A connection goes on, not in a reconnection. *)
LEMMA GotoFacts ==
  ASSUME IInv, NEW c \in Conns, NEW place \in Places \ (OnTheWay \cup {"none"}),
         pc[c] \notin Taking \cup {"none"}, Goto(c, place),
         client' = client \/ client' = [client EXCEPT ![c] = "off"]
  PROVE  /\ pc' \in [Conns -> Places] /\ client' \in [Conns -> {"none", "on", "off"}]
         /\ \A d \in Conns : pc[d] \in Taking \/ pc'[d] \in Taking => pc'[d] = pc[d]
         /\ \A d \in Conns : pc'[d] \in OnTheWay => d[2] = 2
         /\ \A d \in Conns : client'[d] = "none" => pc'[d] = "none"
  <1>1. pc \in [Conns -> Places] /\ client \in [Conns -> {"none", "on", "off"}]
    BY PeersAreTyped DEF PeersTyped
  <1>2. \A d \in Conns : (pc[d] \in OnTheWay => d[2] = 2) /\ (client[d] = "none" => pc[d] = "none")
    BY DEF IInv, ReturnsAgree, SecondsReturn
  <1> QED  BY <1>1, <1>2 DEF Goto, Taking, OnTheWay, Places

LEMMA PcKept ==
  ASSUME IInv, pc' = pc, client' = client
  PROVE  /\ \A d \in Conns : pc[d] \in Taking \/ pc'[d] \in Taking => pc'[d] = pc[d]
         /\ \A d \in Conns : pc'[d] \in OnTheWay => d[2] = 2
         /\ \A d \in Conns : client'[d] = "none" => pc'[d] = "none"
  BY DEF IInv, ReturnsAgree, SecondsReturn

LEMMA DieFacts ==
  ASSUME IInv, NEW c \in Conns, Die(c)
  PROVE  /\ Fewer(aq, aq') /\ aq' \in [Conns -> Seq(Messages)]
         /\ actor' \in [Conns -> {"none", "boot", "on", "over", "dead"}]
         /\ crashed' \in CanCrash
  BY PeersAreTyped DEF PeersTyped, Die, Fewer, LossOfMailbox, CanCrash

LEMMA TakenFromMailbox ==
  ASSUME IInv, NEW c \in Conns, aq[c] # <<>>, aq' = [aq EXCEPT ![c] = Tail(@)]
  PROVE  Fewer(aq, aq') /\ aq' \in [Conns -> Seq(Messages)] /\ Head(aq[c]) \in Messages
  BY PeersAreTyped, ChannelTyped DEF PeersTyped, Fewer

LEMMA SpawnActorStep == ASSUME IInv, NEW c \in Conns, SpawnActor(c) PROVE IInv'
  <1>1. UNCHANGED <<stage, slots, gq, gwait, starting, started, iwait, role, aq, sock,
                    client, items, left, cin, crashed>>
    BY DEF SpawnActor, serverVars
  <1>2. Fewer(aq, aq') /\ Sends({"SelectRole", "StartGame", "DropPeer"})
    BY <1>1 DEF Fewer, Sends
  <1>3. /\ pc' \in [Conns -> Places]
        /\ \A d \in Conns : pc[d] \in Taking \/ pc'[d] \in Taking => pc'[d] = pc[d]
        /\ \A d \in Conns : pc'[d] \in OnTheWay => d[2] = 2
        /\ \A d \in Conns : client'[d] = "none" => pc'[d] = "none"
    BY GotoFacts DEF SpawnActor, Taking, OnTheWay, Places
  <1>4. PeersTyped'
    BY <1>1, <1>3, PeersAreTyped DEF PeersTyped, SpawnActor
  <1>5. Typed'
    BY <1>1, <1>2, <1>4, TypedStep
  <1> QED  BY <1>1, <1>2, <1>3, <1>5, OtherStep

LEMMA StartFailsStep == ASSUME IInv, NEW c \in Conns, StartFails(c) PROVE IInv'
  <1>1. UNCHANGED <<stage, slots, gq, gwait, starting, started, iwait, role, sock,
                    client, items, chosen, left, cin>>
    BY DEF StartFails, serverVars, clientVars
  <1>2. /\ Fewer(aq, aq') /\ aq' \in [Conns -> Seq(Messages)]
        /\ actor' \in [Conns -> {"none", "boot", "on", "over", "dead"}]
        /\ crashed' \in CanCrash
    BY DieFacts DEF StartFails
  <1>3. Sends({"SelectRole", "StartGame", "DropPeer"})
    BY <1>1 DEF Sends
  <1>4. /\ pc' \in [Conns -> Places]
        /\ \A d \in Conns : pc[d] \in Taking \/ pc'[d] \in Taking => pc'[d] = pc[d]
        /\ \A d \in Conns : pc'[d] \in OnTheWay => d[2] = 2
        /\ \A d \in Conns : client'[d] = "none" => pc'[d] = "none"
    BY <1>1, GotoFacts DEF StartFails, Taking, OnTheWay, Places
  <1>5. PeersTyped'
    BY <1>1, <1>2, <1>4, PeersAreTyped DEF PeersTyped
  <1>6. Typed'
    BY <1>1, <1>3, <1>5, TypedStep
  <1> QED  BY <1>1, <1>2, <1>3, <1>4, <1>6, OtherStep

LEMMA ForwardStep == ASSUME IInv, NEW c \in Conns, Forward(c) PROVE IInv'
  <1>1. UNCHANGED <<stage, slots, gq, gwait, starting, started, iwait, actor, role, aq,
                    pc, client, left, cin, crashed>>
    BY DEF Forward, serverVars, actorVars
  <1>2. Fewer(aq, aq') /\ Sends({"SelectRole", "StartGame", "DropPeer"})
    BY <1>1 DEF Fewer, Sends
  <1>3. PeersTyped
    BY PeersAreTyped
  <1>4. Head(sock[c]) \in Messages /\ sock' \in [Conns -> Seq(Messages)]
    BY <1>3, ChannelTyped DEF PeersTyped, Forward
  <1>5. items' \in [Conns -> SUBSET RoleNames]
    BY <1>3, <1>4 DEF PeersTyped, Forward, Messages
  <1>6. chosen' \in [Conns -> MaybeRole]
    <2>1. ASSUME Head(sock[c]).what # {}
          PROVE  (CHOOSE r \in Head(sock[c]).what : TRUE) \in MaybeRole
      BY <1>4, <2>1 DEF Messages, MaybeRole
    <2> QED  BY <1>3, <2>1 DEF PeersTyped, Forward
  <1>7. PeersTyped'
    BY <1>1, <1>3, <1>4, <1>5, <1>6 DEF PeersTyped
  <1>8. Typed'
    BY <1>1, <1>2, <1>7, TypedStep
  <1> QED  BY <1>1, <1>2, <1>8, PcKept, OtherStep

LEMMA ReadStep == ASSUME IInv, NEW c \in Conns, Read(c) PROVE IInv'
  <1>1. UNCHANGED <<stage, slots, gwait, starting, started, iwait, actor, role, aq,
                    pc, sock, client, items, chosen, left, crashed>>
    BY DEF Read, actorVars, connVars
  <1>2. Head(cin[c]) \in RoleNames \cup {"StartGame"}
        /\ cin' \in [Conns -> Seq(RoleNames \cup {"StartGame"})]
    BY PeersAreTyped, ChannelTyped DEF PeersTyped, Read
  <1>3. Fewer(aq, aq') /\ Sends({"SelectRole", "StartGame", "DropPeer"})
    BY <1>1, <1>2 DEF Fewer, Sends, Read, ToServer, Command, Request, Requests, MaybeRole,
                      Maybe
  <1>4. PeersTyped'
    BY <1>1, <1>2, PeersAreTyped DEF PeersTyped
  <1>5. Typed'
    BY <1>1, <1>3, <1>4, TypedStep
  <1> QED  BY <1>1, <1>3, <1>5, PcKept, OtherStep

LEMMA EndStep == ASSUME IInv, NEW c \in Conns, End(c) PROVE IInv'
  <1>1. UNCHANGED <<stage, slots, gwait, starting, started, iwait, actor, role, aq,
                    items, chosen, left, crashed>>
        /\ client' = [client EXCEPT ![c] = "off"] /\ Goto(c, "ended")
        /\ pc[c] \in {"entering", "w_handle", "roles", "game"}
    BY DEF End, actorVars
  <1>2. cin' \in [Conns -> Seq(RoleNames \cup {"StartGame"})]
        /\ sock' \in [Conns -> Seq(Messages)]
    BY PeersAreTyped, ChannelTyped DEF PeersTyped, End
  <1>3. Fewer(aq, aq') /\ Sends({"SelectRole", "StartGame", "DropPeer"})
    BY <1>1 DEF Fewer, Sends, End, ToServer, Command, Request, Requests, MaybeRole, Maybe
  <1>4. /\ pc' \in [Conns -> Places] /\ client' \in [Conns -> {"none", "on", "off"}]
        /\ \A d \in Conns : pc[d] \in Taking \/ pc'[d] \in Taking => pc'[d] = pc[d]
        /\ \A d \in Conns : pc'[d] \in OnTheWay => d[2] = 2
        /\ \A d \in Conns : client'[d] = "none" => pc'[d] = "none"
    BY <1>1, GotoFacts DEF Taking, OnTheWay, Places
  <1>5. PeersTyped'
    BY <1>1, <1>2, <1>4, PeersAreTyped DEF PeersTyped
  <1>6. Typed'
    BY <1>1, <1>3, <1>5, TypedStep
  <1> QED  BY <1>1, <1>3, <1>4, <1>6, OtherStep

LEMMA ToTheGameStep ==
  ASSUME IInv, NEW c \in Conns, OpenGame(c) \/ EnterTheGame(c) PROVE IInv'
  <1>1. UNCHANGED <<stage, slots, gq, gwait, starting, iwait, actor, role, aq, sock,
                    client, items, chosen, left, cin>>
        /\ (Goto(c, "startGame") \/ Goto(c, "game"))
        /\ pc[c] \in {"toGame", "startGame"}
    BY DEF OpenGame, EnterTheGame, serverVars, actorVars, clientVars
  <1>2. Fewer(aq, aq') /\ Sends({"SelectRole", "StartGame", "DropPeer"})
    BY <1>1 DEF Fewer, Sends
  <1>3. /\ pc' \in [Conns -> Places]
        /\ \A d \in Conns : pc[d] \in Taking \/ pc'[d] \in Taking => pc'[d] = pc[d]
        /\ \A d \in Conns : pc'[d] \in OnTheWay => d[2] = 2
        /\ \A d \in Conns : client'[d] = "none" => pc'[d] = "none"
    BY <1>1, GotoFacts DEF Taking, OnTheWay, Places
  <1>4. started' \subseteq Conns /\ crashed' \in CanCrash
    BY PeersAreTyped DEF PeersTyped, OpenGame, EnterTheGame, CanCrash, serverVars
  <1>5. PeersTyped'
    BY <1>1, <1>3, <1>4, PeersAreTyped DEF PeersTyped
  <1>6. Typed'
    BY <1>1, <1>2, <1>5, TypedStep
  <1> QED  BY <1>1, <1>2, <1>3, <1>6, OtherStep

LEMMA SendTcpStep == ASSUME IInv, NEW c \in Conns, SendTcp(c) PROVE IInv'
  <1>1. UNCHANGED <<stage, slots, gq, gwait, starting, started, iwait, role, pc,
                    client, items, chosen, left, cin>>
    BY DEF SendTcp, serverVars, clientVars
  <1>2. /\ Fewer(aq, aq') /\ aq' \in [Conns -> Seq(Messages)]
        /\ actor' \in [Conns -> {"none", "boot", "on", "over", "dead"}]
        /\ crashed' \in CanCrash /\ sock' \in [Conns -> Seq(Messages)]
    <2>1. CASE pc[c] = "ended"
      BY <2>1, DieFacts, PeersAreTyped DEF SendTcp, PeersTyped
    <2>2. CASE pc[c] # "ended"
      <3>1. Fewer(aq, aq') /\ aq' \in [Conns -> Seq(Messages)] /\ Head(aq[c]) \in Messages
        BY <2>2, TakenFromMailbox DEF SendTcp, Handles
      <3>2. sock' \in [Conns -> Seq(Messages)]
        <4>1. sock \in [Conns -> Seq(Messages)]
          BY PeersAreTyped DEF PeersTyped
        <4>2. [sock EXCEPT ![c] = Append(@, Head(aq[c]))] \in [Conns -> Seq(Messages)]
          BY <3>1, <4>1, ChannelTyped
        <4> QED  BY <2>2, <4>1, <4>2 DEF SendTcp
      <3> QED  BY <2>2, <3>1, <3>2, PeersAreTyped DEF SendTcp, PeersTyped
    <2> QED  BY <2>1, <2>2
  <1>3. Sends({"SelectRole", "StartGame", "DropPeer"})
    BY <1>1 DEF Sends
  <1>4. PeersTyped'
    BY <1>1, <1>2, PeersAreTyped DEF PeersTyped
  <1>5. Typed'
    BY <1>1, <1>3, <1>4, TypedStep
  <1> QED  BY <1>1, <1>2, <1>3, <1>5, PcKept, OtherStep

LEMMA BeginGameStep == ASSUME IInv, NEW c \in Conns, BeginGame(c) PROVE IInv'
  <1>1. UNCHANGED <<stage, slots, gq, gwait, starting, started, iwait, role,
                    client, items, chosen, left, cin>>
    BY DEF BeginGame, serverVars, clientVars
  <1>2. Fewer(aq, aq') /\ aq' \in [Conns -> Seq(Messages)]
    BY TakenFromMailbox DEF BeginGame, Handles
  <1>3. /\ actor' \in [Conns -> {"none", "boot", "on", "over", "dead"}]
        /\ crashed' \in CanCrash /\ sock' \in [Conns -> Seq(Messages)]
    BY PeersAreTyped, ChannelTyped DEF BeginGame, PeersTyped, CanCrash
  <1>4. Sends({"SelectRole", "StartGame", "DropPeer"})
    BY <1>1 DEF Sends
  <1>5. /\ pc' \in [Conns -> Places]
        /\ \A d \in Conns : pc[d] \in Taking \/ pc'[d] \in Taking => pc'[d] = pc[d]
        /\ \A d \in Conns : pc'[d] \in OnTheWay => d[2] = 2
        /\ \A d \in Conns : client'[d] = "none" => pc'[d] = "none"
    <2>1. CASE pc[c] = "roles"
      BY <1>1, <2>1, GotoFacts DEF BeginGame, Taking, OnTheWay, Places
    <2>2. CASE pc[c] # "roles"
      BY <1>1, <2>2, PcKept, PeersAreTyped DEF BeginGame, PeersTyped
    <2> QED  BY <2>1, <2>2
  <1>6. PeersTyped'
    BY <1>1, <1>2, <1>3, <1>5, PeersAreTyped DEF PeersTyped
  <1>7. Typed'
    BY <1>1, <1>4, <1>6, TypedStep
  <1> QED  BY <1>1, <1>2, <1>4, <1>5, <1>7, OtherStep

LEMMA EndWithoutHandlesStep ==
  ASSUME IInv, NEW c \in Conns, EndWithoutHandles(c) PROVE IInv'
  <1>1. UNCHANGED <<stage, slots, gq, gwait, starting, started, iwait, role, aq, pc, sock,
                    client, items, chosen, left, cin, crashed>>
    BY DEF EndWithoutHandles, serverVars, connVars, clientVars
  <1>2. Fewer(aq, aq') /\ Sends({"SelectRole", "StartGame", "DropPeer"})
    BY <1>1 DEF Fewer, Sends
  <1>3. PeersTyped'
    BY <1>1, PeersAreTyped DEF PeersTyped, EndWithoutHandles
  <1>4. Typed'
    BY <1>1, <1>2, <1>3, TypedStep
  <1> QED  BY <1>1, <1>2, <1>4, PcKept, OtherStep

-------------------------------------------------------------------------------
(* Steps of a reconnection.                                                *)

IntroWaits == [op : {"idle", "handle", "answer", "reconnect"}, from : Maybe,
               old : Maybe, got : {"no", "done"}]

LEMMA ReturnTyped ==
  ASSUME IInv, NEW cmds, Sends(cmds), UNCHANGED <<stage, slots, gwait, starting>>,
         iwait' \in IntroWaits, PeersTyped'
  PROVE  Typed'
  <1>1. /\ gq' \in Seq(Requests)
        /\ \A i \in 1 .. Len(gq') : gq'[i].cmd = "SelectRole" => gq'[i].what \in RoleNames
    BY RequestsTyped DEF IInv
  <1> QED  BY <1>1 DEF IInv, Typed, TypeOK, PeersTyped, Places, CanCrash, Requests,
                       IntroWaits

(* The mailboxes of the actors stay as they are. *)
LEMMA MailKept ==
  ASSUME IInv, NEW cmds, Sends(cmds), UNCHANGED <<stage, slots, gwait, role, aq>>
  PROVE  Owned' /\ HeadServed' /\ OneQuestion' /\ Distinct'
  <1>1. NoQuestionAdded(aq, aq')
    BY NothingAsked DEF Fewer, IInv, Typed, TypeOK, MailTyped
  <1> QED  BY <1>1, ServerKept

LEMMA WaitTyped == ASSUME IInv PROVE iwait \in IntroWaits
  BY DEF IInv, Typed, TypeOK, IntroWaits

(* A request that was not in the mailbox before. *)
LEMMA NewRequest ==
  ASSUME IInv, NEW r \in Requests, gq' = Append(gq, r) \/ gq' = gq, NEW cmd,
         \A i \in 1 .. Len(gq) : gq[i].cmd # cmd
  PROVE  \A i, j \in 1 .. Len(gq') :
           gq'[i].cmd = cmd => gq'[i] = r /\ (gq'[j].cmd = cmd => j = i)
  BY DEF IInv, Typed

LEMMA EnterGameStep == ASSUME IInv, NEW c \in Conns, EnterGame(c) PROVE IInv'
  <1> DEFINE r == Command("GetPeerHandleByUsername", c)
  <1>1. /\ UNCHANGED <<stage, slots, gwait, starting, started, actor, role, aq, sock,
                       client, items, chosen, left, cin, crashed>>
        /\ iwait.op = "idle" /\ pc[c] = "entering" /\ pc' = [pc EXCEPT ![c] = "w_handle"]
        /\ gq' = Append(gq, r) /\ iwait' = Serving("handle", c, NoConn)
    BY DEF EnterGame, introRest, actorVars, clientVars, ToServer, Goto
  <1>2. r \in Requests /\ r.cmd = "GetPeerHandleByUsername" /\ r.from = c
    BY DEF Command, Request, Requests, MaybeRole, Maybe
  <1> HIDE DEF r
  <1>3. Sends({"GetPeerHandleByUsername"})
    BY <1>1, <1>2 DEF Sends
  <1>4. PeersTyped /\ pc' \in [Conns -> Places]
    BY <1>1, PeersAreTyped DEF PeersTyped, Places
  <1>5. PeersTyped'
    BY <1>1, <1>4 DEF PeersTyped
  <1>6. iwait' \in IntroWaits /\ iwait'.op = "handle" /\ iwait'.got = "no" /\ iwait'.from = c
    BY <1>1 DEF Serving, IntroWaits, Maybe
  <1>7. Typed'
    BY <1>1, <1>3, <1>5, <1>6, ReturnTyped
  <1>8. Owned' /\ HeadServed' /\ OneQuestion' /\ Distinct'
    BY <1>1, <1>3, MailKept
  <1>9. SecondsReturn'
    BY <1>1, <1>4, <1>6 DEF IInv, ReturnsAgree, SecondsReturn, OnTheWay, PeersTyped
  <1>10. \A i \in 1 .. Len(gq) :
           gq[i].cmd \notin {"GetPeerHandleByUsername", "ReconnectPeer"}
    BY <1>1 DEF IInv, ReturnsAgree, OnlyRequest
  <1>11. OnlyRequest("GetPeerHandleByUsername", "handle")'
    BY <1>1, <1>2, <1>6, <1>10, NewRequest DEF OnlyRequest
  <1>12. OnlyRequest("ReconnectPeer", "reconnect")'
    BY <1>1, <1>2, <1>6, <1>10, NewRequest DEF OnlyRequest
  <1>13. OldInSeat'
    BY <1>6 DEF OldInSeat
  <1>14. OnlyTakeOver'
    BY <1>1, <1>4 DEF IInv, ReturnsAgree, OnlyTakeOver, PeersTyped
  <1> QED  BY <1>7, <1>8, <1>9, <1>11, <1>12, <1>13, <1>14 DEF IInv, ReturnsAgree

LEMMA HandOverStep == ASSUME IInv, HandOver PROVE IInv'
  <1>1. /\ UNCHANGED <<stage, slots, gq, gwait, starting, started, actor, role, aq, sock,
                       client, items, chosen, left, cin>>
        /\ iwait.op = "handle" /\ iwait.got = "done"
        /\ iwait' = Serving("answer", iwait.from, iwait.old)
    BY DEF HandOver, introRest, actorVars, clientVars
  <1>2. iwait.from \in Conns /\ iwait.from[2] = 2
        /\ iwait.old = slots[Owner(iwait.from)].conn
    BY <1>1 DEF IInv, ReturnsAgree, SecondsReturn, OldInSeat
  <1>3. \/ /\ pc' = [pc EXCEPT ![iwait.from] = "take"] /\ pc[iwait.from] = "w_handle"
           /\ crashed' = crashed
        \/ pc' = pc /\ crashed' = "intro"
    BY DEF HandOver, Goto
  <1>4. Sends({})
    BY <1>1 DEF Sends
  <1>5. PeersTyped /\ pc' \in [Conns -> Places] /\ crashed' \in CanCrash
    <2>1. PeersTyped /\ pc \in [Conns -> Places] /\ crashed \in CanCrash
      BY PeersAreTyped DEF PeersTyped
    <2>2. [pc EXCEPT ![iwait.from] = "take"] \in [Conns -> Places] /\ "intro" \in CanCrash
      BY <2>1 DEF Places, CanCrash
    <2> QED  BY <1>3, <2>1, <2>2
  <1>6. PeersTyped'
    BY <1>1, <1>5 DEF PeersTyped
  <1>7. iwait' \in IntroWaits /\ iwait'.op = "answer" /\ iwait'.got = "no"
        /\ iwait'.from = iwait.from /\ iwait'.old = iwait.old
    BY <1>1, WaitTyped DEF Serving, IntroWaits
  <1>8. Typed'
    BY <1>1, <1>4, <1>6, <1>7, ReturnTyped
  <1>9. Owned' /\ HeadServed' /\ OneQuestion' /\ Distinct'
    BY <1>1, <1>4, MailKept
  <1>10. SecondsReturn'
    BY <1>1, <1>2, <1>3, <1>5, <1>7
       DEF IInv, ReturnsAgree, SecondsReturn, OnTheWay, PeersTyped
  <1>11. OnlyRequest("GetPeerHandleByUsername", "handle")'
         /\ OnlyRequest("ReconnectPeer", "reconnect")'
    BY <1>1 DEF IInv, ReturnsAgree, OnlyRequest
  <1>12. OldInSeat'
    BY <1>1, <1>2, <1>7 DEF OldInSeat
  <1>13. OnlyTakeOver'
    <2>1. /\ \A c \in Conns : pc[c] \notin {"take", "w_take", "taken"}
          /\ \A c \in Conns : \A i \in 1 .. Len(aq[c]) : aq[c][i].msg # "TakePeer"
      BY <1>1 DEF IInv, ReturnsAgree, OnlyTakeOver
    <2>2. \A c \in Conns : pc'[c] \in {"take", "w_take", "taken"} => c = iwait.from
      BY <1>3, <1>5, <2>1 DEF PeersTyped
    <2> QED  BY <1>1, <1>7, <2>1, <2>2 DEF OnlyTakeOver
  <1> QED  BY <1>8, <1>9, <1>10, <1>11, <1>12, <1>13 DEF IInv, ReturnsAgree

LEMMA ReplaceSeatStep == ASSUME IInv, ReplaceSeat PROVE IInv'
  <1> DEFINE r == Request("ReconnectPeer", iwait.from, None, iwait.old)
  <1>1. /\ UNCHANGED <<stage, slots, gwait, starting, started, actor, role, aq, pc, sock,
                       client, items, chosen, left, cin, crashed>>
        /\ iwait.op = "answer" /\ iwait.got = "done"
        /\ iwait' = Serving("reconnect", iwait.from, iwait.old)
        /\ (gq' = Append(gq, r) \/ gq' = gq)
    BY DEF ReplaceSeat, introRest, actorVars, clientVars, ToServer
  <1>2. iwait.from \in Conns /\ iwait.from[2] = 2 /\ iwait.old \in Maybe
        /\ iwait.old = slots[Owner(iwait.from)].conn
    BY <1>1, WaitTyped DEF IInv, ReturnsAgree, SecondsReturn, OldInSeat, IntroWaits
  <1>3. r \in Requests /\ r.cmd = "ReconnectPeer" /\ r.from = iwait.from /\ r.old = iwait.old
    BY <1>2 DEF Request, Requests, MaybeRole
  <1> HIDE DEF r
  <1>4. Sends({"ReconnectPeer"})
    BY <1>1, <1>3 DEF Sends
  <1>5. PeersTyped'
    BY <1>1, PeersAreTyped DEF PeersTyped
  <1>6. iwait' \in IntroWaits /\ iwait'.op = "reconnect" /\ iwait'.got = "no"
        /\ iwait'.from = iwait.from /\ iwait'.old = iwait.old
    BY <1>1, WaitTyped DEF Serving, IntroWaits
  <1>7. Typed'
    BY <1>1, <1>4, <1>5, <1>6, ReturnTyped
  <1>8. Owned' /\ HeadServed' /\ OneQuestion' /\ Distinct'
    BY <1>1, <1>4, MailKept
  <1>9. SecondsReturn'
    BY <1>1, <1>2, <1>6 DEF IInv, ReturnsAgree, SecondsReturn
  <1>10. \A i \in 1 .. Len(gq) :
           gq[i].cmd \notin {"GetPeerHandleByUsername", "ReconnectPeer"}
    BY <1>1 DEF IInv, ReturnsAgree, OnlyRequest
  <1>11. OnlyRequest("GetPeerHandleByUsername", "handle")'
    BY <1>1, <1>3, <1>6, <1>10, NewRequest DEF OnlyRequest
  <1>12. OnlyRequest("ReconnectPeer", "reconnect")'
    BY <1>1, <1>3, <1>6, <1>10, NewRequest DEF OnlyRequest
  <1>13. OldInSeat'
    BY <1>1, <1>2, <1>6 DEF OldInSeat
  <1>14. OnlyTakeOver'
    BY <1>1 DEF IInv, ReturnsAgree, OnlyTakeOver
  <1> QED  BY <1>7, <1>8, <1>9, <1>11, <1>12, <1>13, <1>14 DEF IInv, ReturnsAgree

LEMMA EndReconnectionStep == ASSUME IInv, EndReconnection PROVE IInv'
  <1>1. /\ UNCHANGED <<stage, slots, gq, gwait, starting, started, actor, role, aq, pc,
                       sock, client, items, chosen, left, cin, crashed>>
        /\ iwait.op = "reconnect" /\ iwait.got = "done" /\ iwait' = IntroIdle
    BY DEF EndReconnection, introRest, actorVars, clientVars
  <1>2. Sends({})
    BY <1>1 DEF Sends
  <1>3. iwait' \in IntroWaits /\ iwait'.op = "idle"
    BY <1>1 DEF IntroIdle, IntroWaits, Maybe
  <1>4. PeersTyped'
    BY <1>1, PeersAreTyped DEF PeersTyped
  <1>5. Typed'
    BY <1>1, <1>2, <1>3, <1>4, ReturnTyped
  <1>6. Owned' /\ HeadServed' /\ OneQuestion' /\ Distinct'
    BY <1>1, <1>2, MailKept
  <1>7. SecondsReturn' /\ OldInSeat'
    BY <1>1, <1>3 DEF IInv, ReturnsAgree, SecondsReturn, OldInSeat
  <1>8. OnlyRequest("GetPeerHandleByUsername", "handle")'
        /\ OnlyRequest("ReconnectPeer", "reconnect")'
    BY <1>1 DEF IInv, ReturnsAgree, OnlyRequest
  <1>9. OnlyTakeOver'
    BY <1>1 DEF IInv, ReturnsAgree, OnlyTakeOver
  <1> QED  BY <1>5, <1>6, <1>7, <1>8, <1>9 DEF IInv, ReturnsAgree

LEMMA OpenMailboxStep == ASSUME IInv, NEW c \in Conns, OpenMailbox(c) PROVE IInv'
  <1>1. /\ UNCHANGED <<stage, slots, gq, gwait, starting, started, role, aq, sock,
                       client, items, chosen, left, cin, crashed>>
        /\ pc[c] = "taken" /\ pc' = [pc EXCEPT ![c] = "boot"]
        /\ actor' = [actor EXCEPT ![c] = "boot"]
        /\ iwait' = [iwait EXCEPT !.got = "done"]
    BY DEF OpenMailbox, serverVars, clientVars, Goto
  <1>2. iwait.op = "answer" /\ iwait.from = c
    BY <1>1 DEF IInv, ReturnsAgree, OnlyTakeOver
  <1>3. Sends({})
    BY <1>1 DEF Sends
  <1>4. iwait' \in IntroWaits /\ iwait'.op = "answer" /\ iwait'.from = c
        /\ iwait'.old = iwait.old /\ iwait'.got = "done"
    BY <1>1, <1>2, WaitTyped DEF IntroWaits
  <1>5. PeersTyped /\ pc' \in [Conns -> Places]
    BY <1>1, PeersAreTyped DEF PeersTyped, Places
  <1>6. PeersTyped'
    BY <1>1, <1>5 DEF PeersTyped
  <1>7. Typed'
    BY <1>1, <1>3, <1>4, <1>6, ReturnTyped
  <1>8. Owned' /\ HeadServed' /\ OneQuestion' /\ Distinct'
    BY <1>1, <1>3, MailKept
  <1>9. SecondsReturn' /\ OldInSeat'
    BY <1>1, <1>2, <1>4, <1>5
       DEF IInv, ReturnsAgree, SecondsReturn, OldInSeat, OnTheWay, PeersTyped
  <1>10. OnlyRequest("GetPeerHandleByUsername", "handle")'
         /\ OnlyRequest("ReconnectPeer", "reconnect")'
    BY <1>1, <1>2 DEF IInv, ReturnsAgree, OnlyRequest
  <1>11. OnlyTakeOver'
    BY <1>1, <1>2, <1>4, <1>5 DEF IInv, ReturnsAgree, OnlyTakeOver, PeersTyped
  <1> QED  BY <1>7, <1>8, <1>9, <1>10, <1>11 DEF IInv, ReturnsAgree

LEMMA TakeOverStep == ASSUME IInv, NEW c \in Conns, TakeOver(c) PROVE IInv'
  <1> DEFINE m == ToActor("TakePeer", {}, c)
             old == iwait.old
  <1>1. /\ UNCHANGED <<stage, slots, gq, gwait, starting, started, iwait, actor, role, sock,
                       client, items, chosen, left, cin>>
        /\ pc[c] = "take"
    BY DEF TakeOver, serverVars, clientVars
  <1>2. /\ iwait.op = "answer" /\ iwait.got = "no" /\ iwait.from = c
        /\ c[2] = 2 /\ old = slots[Owner(c)].conn /\ old \in Conns
    <2>1. iwait.op = "answer" /\ iwait.got = "no" /\ iwait.from = c
      BY <1>1 DEF IInv, ReturnsAgree, OnlyTakeOver
    <2>2. c[2] = 2 /\ old = slots[Owner(c)].conn
      BY <1>1, <2>1 DEF IInv, ReturnsAgree, SecondsReturn, OldInSeat, OnTheWay
    <2> QED  BY <2>1, <2>2, ConnFacts DEF IInv, Typed, TypeOK
  <1>3. m \in Messages /\ m.msg = "TakePeer" /\ m.conn = c
    BY DEF ToActor, Messages, Maybe
  <1>4. \/ /\ aq' = [aq EXCEPT ![old] = Append(@, m)]
           /\ pc' = [pc EXCEPT ![c] = "w_take"] /\ crashed' = crashed
        \/ aq' = aq /\ pc' = pc /\ crashed' = "intro"
    BY DEF TakeOver, Goto
  <1> HIDE DEF m, old
  <1>5. Sends({})
    BY <1>1 DEF Sends
  <1>6. PeersTyped
    BY PeersAreTyped
  <1>7. PeersTyped'
    <2>1. aq \in [Conns -> Seq(Messages)] /\ pc \in [Conns -> Places] /\ crashed \in CanCrash
      BY <1>6 DEF PeersTyped
    <2>2. [aq EXCEPT ![old] = Append(@, m)] \in [Conns -> Seq(Messages)]
      BY <1>2, <1>3, <2>1, ChannelTyped
    <2>3. [pc EXCEPT ![c] = "w_take"] \in [Conns -> Places] /\ "intro" \in CanCrash
      BY <2>1 DEF Places, CanCrash
    <2>4. aq' \in [Conns -> Seq(Messages)] /\ pc' \in [Conns -> Places] /\ crashed' \in CanCrash
      BY <1>4, <2>1, <2>2, <2>3
    <2> QED  BY <1>1, <1>6, <2>4 DEF PeersTyped
  <1>8. Typed'
    BY <1>1, <1>5, <1>7, TypedStep
  <1>9. ASSUME NEW d \in Conns, NEW i \in 1 .. Len(aq'[d])
        PROVE  \/ i \in 1 .. Len(aq[d]) /\ aq'[d][i] = aq[d][i]
               \/ /\ d = old /\ i = Len(aq[old]) + 1 /\ aq'[d][i] = m
                  /\ pc' = [pc EXCEPT ![c] = "w_take"]
    <2>1. aq \in [Conns -> Seq(Messages)] /\ aq[d] \in Seq(Messages)
      BY <1>6 DEF PeersTyped
    <2>2. CASE aq' = aq
      BY <2>2
    <2>3. CASE aq' = [aq EXCEPT ![old] = Append(@, m)] /\ d = old
               /\ pc' = [pc EXCEPT ![c] = "w_take"]
      BY <1>3, <2>1, <2>3
    <2>4. CASE aq' = [aq EXCEPT ![old] = Append(@, m)] /\ d # old
      BY <2>1, <2>4
    <2> QED  BY <1>4, <2>2, <2>3, <2>4
  <1>10. NoQuestionAdded(aq, aq')
    <2>1. ASSUME NEW d \in Conns
          PROVE  \E k \in {0, 1} : \A i \in 1 .. Len(aq'[d]) : aq'[d][i].msg \in Questions =>
                   i + k \in 1 .. Len(aq[d]) /\ aq'[d][i] = aq[d][i + k]
      <3>1. \A i \in 1 .. Len(aq'[d]) : aq'[d][i].msg \in Questions =>
              i + 0 \in 1 .. Len(aq[d]) /\ aq'[d][i] = aq[d][i + 0]
        BY <1>3, <1>9 DEF Questions
      <3> QED  BY <3>1
    <2> QED  BY <2>1 DEF NoQuestionAdded
  <1>11. Owned' /\ HeadServed' /\ OneQuestion' /\ Distinct'
    BY <1>1, <1>5, <1>10, ServerKept
  <1>12. SecondsReturn'
    <2>1. \A d \in Conns : pc'[d] = pc[d] \/ d = c
      BY <1>4, <1>6 DEF PeersTyped
    <2> QED  BY <1>1, <1>2, <2>1 DEF IInv, ReturnsAgree, SecondsReturn
  <1>13. OnlyRequest("GetPeerHandleByUsername", "handle")'
         /\ OnlyRequest("ReconnectPeer", "reconnect")' /\ OldInSeat'
    BY <1>1, <1>2 DEF IInv, ReturnsAgree, OnlyRequest, OldInSeat
  <1>14. OnlyTakeOver'
    <2>1. \A d \in Conns : \A i \in 1 .. Len(aq[d]) : aq[d][i].msg # "TakePeer"
      BY <1>1, <1>2 DEF IInv, ReturnsAgree, OnlyTakeOver
    <2>2. \A d \in Conns : pc'[d] \in {"take", "w_take", "taken"} => d = c
      BY <1>2, <1>4, <1>6 DEF IInv, ReturnsAgree, OnlyTakeOver, PeersTyped
    <2>3. \A d \in Conns : \A i \in 1 .. Len(aq'[d]) : aq'[d][i].msg = "TakePeer" =>
            d = old /\ i = Len(aq[old]) + 1 /\ aq'[d][i].conn = c /\ pc'[c] = "w_take"
      BY <1>3, <1>6, <1>9, <2>1 DEF PeersTyped
    <2> QED  BY <1>1, <1>2, <2>2, <2>3 DEF OnlyTakeOver
  <1> QED  BY <1>8, <1>11, <1>12, <1>13, <1>14 DEF IInv, ReturnsAgree

(* The peer moves: the old actor has no role any more. *)
LEMMA AnswerTakePeerStep == ASSUME IInv, NEW c \in Conns, AnswerTakePeer(c) PROVE IInv'
  <1> DEFINE new == Head(aq[c]).conn
  <1>1. /\ UNCHANGED <<stage, slots, gq, gwait, starting, started, iwait, actor, sock,
                       client, items, chosen, left, cin, crashed>>
        /\ aq[c] # <<>> /\ Head(aq[c]).msg = "TakePeer"
        /\ aq' = [aq EXCEPT ![c] = Tail(@)]
        /\ role' = [role EXCEPT ![new] = role[c], ![c] = None]
        /\ pc' = [pc EXCEPT ![new] = "taken"]
    BY DEF AnswerTakePeer, Handles, MovesTo, serverVars, clientVars, Goto
  <1>2. PeersTyped
    BY PeersAreTyped
  <1>3. aq[c] \in Seq(Messages) /\ 1 \in 1 .. Len(aq[c]) /\ aq[c][1].msg = "TakePeer"
        /\ new = aq[c][1].conn
    BY <1>1, <1>2 DEF PeersTyped
  <1>4. /\ new \in Conns /\ pc[new] = "w_take"
        /\ \A d \in Conns : \A j \in 1 .. Len(aq[d]) :
             aq[d][j].msg = "TakePeer" => d = c /\ j = 1
    BY <1>3 DEF IInv, ReturnsAgree, OnlyTakeOver
  <1>5. new[2] = 2 /\ iwait.op = "answer" /\ iwait.got = "no" /\ iwait.from = new
    BY <1>4 DEF IInv, ReturnsAgree, SecondsReturn, OnlyTakeOver, OnTheWay
  <1> HIDE DEF new
  <1>6. Sends({})
    BY <1>1 DEF Sends
  <1>7. Fewer(aq, aq') /\ aq' \in [Conns -> Seq(Messages)]
    BY <1>1, TakenFromMailbox
  <1>8. role' \in [Conns -> MaybeRole] /\ pc' \in [Conns -> Places]
    BY <1>1, <1>2, <1>4 DEF PeersTyped, MaybeRole, Places
  <1>9. PeersTyped'
    BY <1>1, <1>2, <1>7, <1>8 DEF PeersTyped
  <1>10. Typed'
    BY <1>1, <1>6, <1>9, TypedStep
  <1>11. Owned' /\ HeadServed' /\ OneQuestion'
    <2>1. NoQuestionAdded(aq, aq')
      <3>1. MailTyped(aq)
        BY <1>2 DEF PeersTyped, MailTyped
      <3> QED  BY <1>7, <3>1, NothingAsked
    <2> QED  BY <1>1, <1>6, <2>1, MailShrunk
  <1>12. Distinct'
    <2>1. SUFFICES ASSUME NoOneReturned PROVE Distinct'
      BY <1>1 DEF Distinct, NoOneReturned
    <2>2. \A p \in Players : RoleOf(p)' = RoleOf(p) \/ RoleOf(p)' = None
      <3>1. ASSUME NEW p \in Players
            PROVE  slots[p].conn \in Conns /\ slots[p].conn # new
        BY <1>5, <2>1 DEF IInv, Typed, TypeOK, NoOneReturned
      <3> QED  BY <1>1, <1>2, <1>4, <3>1 DEF RoleOf, PeersTyped
    <2>3. RolesDistinct'
      BY <2>1, <2>2 DEF IInv, Distinct, RolesDistinct
    <2>4. gwait.op \in {"search", "set"} => gq[1].what # None
      <3>1. gwait.op \in {"search", "set"} =>
              gq # <<>> /\ gq[1].cmd = "SelectRole" /\ 1 \in 1 .. Len(gq)
        BY DEF IInv, HeadServed, Serves, Typed
      <3> QED  BY <3>1, RolesAssumption DEF IInv, Typed
    <2>5. gwait.op \in {"search", "set"} => \A p \in Players : NotTaken(p) => NotTaken(p)'
      BY <1>1, <2>2, <2>4 DEF NotTaken
    <2> QED  BY <1>1, <2>1, <2>3, <2>5 DEF IInv, Distinct
  <1>13. SecondsReturn' /\ OldInSeat'
    BY <1>1, <1>2, <1>4, <1>5
       DEF IInv, ReturnsAgree, SecondsReturn, OldInSeat, PeersTyped
  <1>14. OnlyRequest("GetPeerHandleByUsername", "handle")'
         /\ OnlyRequest("ReconnectPeer", "reconnect")'
    BY <1>1 DEF IInv, ReturnsAgree, OnlyRequest
  <1>15. OnlyTakeOver'
    <2>1. \A d \in Conns : \A i \in 1 .. Len(aq'[d]) : aq'[d][i].msg # "TakePeer"
      <3>1. ASSUME NEW i \in 1 .. Len(aq'[c])
            PROVE  aq'[c][i] = aq[c][i + 1] /\ i + 1 \in 1 .. Len(aq[c]) /\ i + 1 # 1
        BY <1>1, <1>2, <1>3 DEF PeersTyped
      <3>2. \A d \in Conns \ {c} : aq'[d] = aq[d]
        BY <1>1, <1>2 DEF PeersTyped
      <3> QED  BY <1>4, <3>1, <3>2
    <2>2. \A d \in Conns : pc'[d] \in {"take", "w_take", "taken"} => d = new
      BY <1>1, <1>2, <1>5 DEF IInv, ReturnsAgree, OnlyTakeOver, PeersTyped
    <2> QED  BY <1>1, <1>5, <2>1, <2>2 DEF OnlyTakeOver
  <1> QED  BY <1>10, <1>11, <1>12, <1>13, <1>14, <1>15 DEF IInv, ReturnsAgree

-------------------------------------------------------------------------------
(* An answer to the server.  A role is set only when none of the seats has it.  *)
LEMMA AnswerServerStep == ASSUME IInv, NEW c \in Conns, AnswerServer(c) PROVE IInv'
  <1> DEFINE m == aq[c][1]
             a == Owner(c)
             answer == IF m.msg = "GetRole" THEN role[c] ELSE "done"
  <1>1. PeersTyped /\ aq[c] \in Seq(Messages) /\ aq[c] # <<>> /\ Head(aq[c]) = m
        /\ 1 \in 1 .. Len(aq[c]) /\ m.msg \in Questions
    BY PeersAreTyped DEF PeersTyped, AnswerServer, Handles, Questions
  <1>2. /\ slots[a].conn = c /\ a \in gwait.of /\ gwait.got[a] = Pending
        /\ Asks(gwait.op, m.msg) /\ (m.msg = "SelectRole" => m.what = {gq[1].what})
        /\ \A j \in 1 .. Len(aq[c]) : aq[c][j].msg \in Questions => j = 1
    BY <1>1 DEF IInv, OneQuestion
  <1>3. a \in Players /\ SeatOf(c) = a
    <2>1. a \in Players
      BY ConnFacts
    <2> QED  BY <1>2, <2>1, SeatOfOwner DEF IInv, Seated
  <1>4. /\ UNCHANGED <<stage, slots, gq, starting, started, iwait, actor, pc, sock,
                       client, items, chosen, left, cin, crashed>>
        /\ aq' = [aq EXCEPT ![c] = Tail(@)]
        /\ gwait' = [gwait EXCEPT !.got[a] = answer]
        /\ role' = IF m.msg = "SelectRole" THEN [role EXCEPT ![c] = gq[1].what] ELSE role
    BY <1>1, <1>2, <1>3 DEF AnswerServer, Reply, connVars, clientVars
  <1>5. gwait \in [op : Ops, of : SUBSET Players, got : [Players -> Answers]]
    BY DEF IInv, Typed
  <1>6. answer \in Answers /\ answer # Pending /\ (m.msg = "GetRole" => answer = role[c])
        /\ (gwait.op \in GetsRole => answer \in MaybeRole)
    <2>1. role[c] \in MaybeRole
      BY <1>1 DEF PeersTyped
    <2>2. gwait.op \in GetsRole => m.msg = "GetRole"
      BY <1>2 DEF Asks, GetsRole
    <2> QED  BY <2>1, <2>2, RolesAssumption DEF Answers, MaybeRole, None, Pending
  <1>7. gwait.op = "set" => gq[1].what \in RoleNames
    <2>1. gwait.op = "set" => gq # <<>> /\ gq[1].cmd = "SelectRole" /\ 1 \in 1 .. Len(gq)
      BY DEF IInv, HeadServed, Serves, Typed
    <2> QED  BY <2>1 DEF IInv, Typed
  <1>8. m.msg = "SelectRole" => gwait.op = "set"
    BY <1>2 DEF Asks
  <1> HIDE DEF m, a, answer
  <1>9. /\ gwait' \in [op : Ops, of : SUBSET Players, got : [Players -> Answers]]
        /\ gwait'.op = gwait.op /\ gwait'.of = gwait.of /\ gwait'.got[a] = answer
        /\ \A p \in Players : p # a => gwait'.got[p] = gwait.got[p]
    BY <1>3, <1>4, <1>5, <1>6
  <1>10. Fewer(aq, aq') /\ aq' \in [Conns -> Seq(Messages)]
    BY <1>1, <1>4, TakenFromMailbox
  <1>11. Typed'
    <2>1. role' \in [Conns -> MaybeRole]
      BY <1>1, <1>4, <1>7, <1>8 DEF PeersTyped, MaybeRole
    <2> QED  BY <1>4, <1>9, <1>10, <2>1 DEF IInv, Typed, TypeOK, Ops, Answers
  <1>12. Owned' /\ HeadServed'
    BY <1>3, <1>4, <1>6, <1>9 DEF IInv, Owned, HeadServed
  <1>13. OneQuestion'
    <2>1. \A i \in 1 .. Len(aq'[c]) : aq'[c][i].msg \notin Questions
      <3>1. ASSUME NEW i \in 1 .. Len(aq'[c])
            PROVE  aq'[c][i] = aq[c][i + 1] /\ i + 1 \in 1 .. Len(aq[c]) /\ i + 1 # 1
        BY <1>1, <1>4 DEF PeersTyped
      <3> QED  BY <1>2, <3>1
    <2>2. ASSUME NEW d \in Conns, NEW i \in 1 .. Len(aq'[d]), aq'[d][i].msg \in Questions
          PROVE  /\ slots'[Owner(d)].conn = d
                 /\ Owner(d) \in gwait'.of /\ gwait'.got[Owner(d)] = Pending
                 /\ Asks(gwait'.op, aq'[d][i].msg)
                 /\ aq'[d][i].msg = "SelectRole" => aq'[d][i].what = {gq'[1].what}
                 /\ \A j \in 1 .. Len(aq'[d]) : aq'[d][j].msg \in Questions => j = i
      <3>1. d # c /\ aq'[d] = aq[d]
        BY <1>1, <1>4, <2>1, <2>2 DEF PeersTyped
      <3>2. slots[Owner(d)].conn = d /\ Owner(d) \in Players
        BY <2>2, <3>1, ConnFacts DEF IInv, OneQuestion
      <3>3. Owner(d) # a
        BY <1>2, <3>1, <3>2
      <3> QED  BY <1>4, <1>9, <2>2, <3>1, <3>2, <3>3 DEF IInv, OneQuestion
    <2> QED  BY <2>2 DEF OneQuestion
  <1>14. ReturnsAgree'
    <2>1. MailTyped(aq)
      BY <1>1 DEF PeersTyped, MailTyped
    <2>2. OnlyTakeOver'
      BY <1>4, <1>10, <2>1, TakeOverKept DEF IInv, ReturnsAgree
    <2> QED  BY <1>4, <2>2 DEF IInv, ReturnsAgree, SecondsReturn, OnlyRequest, OldInSeat
  <1>15. Distinct'
    <2>1. SUFFICES ASSUME NoOneReturned PROVE Distinct'
      BY <1>4 DEF Distinct, NoOneReturned
    <2>2. \A p \in Players : p # a => RoleOf(p)' = RoleOf(p)
      <3>1. \A p \in Players : p # a => slots[p].conn # c
        BY <1>3 DEF IInv, Owned, a
      <3> QED  BY <1>1, <1>4, <3>1 DEF RoleOf, PeersTyped, IInv, Typed, TypeOK
    <2>3. CASE m.msg = "SelectRole"
      <3>1. \A p \in Players : NotTaken(p)
        BY <1>2, <1>8, <2>1, <2>3 DEF IInv, Distinct
      <3>2. RoleOf(a)' = gq[1].what
        BY <1>1, <1>2, <1>4, <2>3 DEF RoleOf, PeersTyped
      <3>3. RolesDistinct'
        BY <1>3, <2>1, <2>2, <3>1, <3>2 DEF IInv, Distinct, RolesDistinct, NotTaken
      <3>4. gwait'.op = "set" /\ \A p \in gwait'.of : gwait'.got[p] # Pending
        <4>1. PICK p \in Players : gwait.of = {p}
          BY <1>8, <2>3 DEF IInv, HeadServed, OfOne
        <4>2. gwait.of = {a}
          BY <1>2, <4>1
        <4> QED  BY <1>6, <1>8, <1>9, <2>3, <4>2
      <3> QED  BY <3>3, <3>4 DEF Distinct
    <2>4. CASE m.msg # "SelectRole"
      <3>1. role' = role
        BY <1>4, <2>4
      <3>2. \A p \in Players : RoleOf(p)' = RoleOf(p) /\ (NotTaken(p)' <=> NotTaken(p))
        BY <1>4, <3>1 DEF RoleOf, NotTaken
      <3>3. RolesDistinct'
        BY <2>1, <3>2 DEF IInv, Distinct, RolesDistinct
      <3>4. gwait'.op # "set"
        BY <1>2, <1>9, <2>4 DEF Asks, GetsRole
      <3>5. ASSUME gwait'.op = "search", NEW p \in Players, NEW b \in gwait'.of,
                   p < b \/ (p = b /\ gwait'.got[b] \notin {Pending, gq'[1].what})
            PROVE  NotTaken(p)'
        <4>1. CASE p < b
          BY <1>9, <2>1, <3>2, <3>5, <4>1 DEF IInv, Distinct
        <4>2. CASE p = b /\ b # a
          <5>1. b \in gwait.of /\ b \in Players /\ gwait.got[b] = gwait'.got[b]
            BY <1>5, <1>9, <3>5, <4>2
          <5>2. ~ (p < b)
            BY <4>2, ConnFacts
          <5> QED  BY <1>4, <1>9, <2>1, <3>2, <3>5, <4>2, <5>1, <5>2 DEF IInv, Distinct
        <4>3. CASE p = b /\ b = a
          <5>1. m.msg = "GetRole"
            BY <1>2, <1>9, <3>5 DEF Asks, GetsRole
          <5>2. ~ (p < b)
            BY <4>3, ConnFacts
          <5>3. gwait'.got[a] = RoleOf(a) /\ gwait'.got[a] # gq'[1].what
            BY <1>2, <1>6, <1>9, <3>5, <4>3, <5>1, <5>2 DEF RoleOf
          <5> QED  BY <1>4, <3>2, <4>3, <5>3 DEF NotTaken
        <4>4. p < b \/ p = b
          BY <3>5
        <4> QED  BY <4>1, <4>2, <4>3, <4>4
      <3> QED  BY <3>3, <3>4, <3>5 DEF Distinct
    <2> QED  BY <2>3, <2>4
  <1> QED  BY <1>11, <1>12, <1>13, <1>14, <1>15 DEF IInv
-------------------------------------------------------------------------------
(* The theorems.                                                           *)

LEMMA InitIInv == Init => IInv
  <1> SUFFICES ASSUME Init PROVE IInv
    OBVIOUS
  <1>1. \A p \in Players : First1(p) \in Conns /\ Owner(First1(p)) = p /\ First1(p)[2] = 1
    BY ConnFacts DEF First1
  <1>2. slots = [p \in Players |-> [conn |-> First1(p), online |-> TRUE]]
        /\ slots \in [Players -> [conn : Conns, online : BOOLEAN]]
    BY <1>1 DEF Init
  <1>3. Typed
    <2>1. gq = <<>> /\ gq \in Seq(Requests)
      BY DEF Init
    <2>2. gwait \in [op : Ops, of : SUBSET Players, got : [Players -> Answers]]
      BY DEF Init, ServerIdle, NoAnswers, Ops, Answers
    <2>3. iwait \in IntroWaits /\ starting \in Maybe /\ started \subseteq Conns
      BY DEF Init, IntroIdle, IntroWaits, Maybe
    <2>4. PeersTyped
      BY RolesAssumption DEF Init, PeersTyped, MaybeRole, Places, CanCrash
    <2>5. stage \in {"roles", "moving", "Game"}
      BY DEF Init
    <2> QED  BY <1>2, <2>1, <2>2, <2>3, <2>4, <2>5
             DEF Typed, TypeOK, Requests, Ops, Answers, IntroWaits, PeersTyped, Places,
                 CanCrash
  <1>4. Owned
    BY <1>1, <1>2 DEF Owned
  <1>5. gwait.op = "idle" /\ gwait.of = {}
    BY DEF Init, ServerIdle
  <1>6. HeadServed
    BY <1>5 DEF Init, HeadServed, OfOne, GetsRole
  <1>7. \A c \in Conns : aq[c] = <<>> /\ pc[c] \in {"roles", "none"}
                         /\ (client[c] = "none" => pc[c] = "none")
    BY DEF Init
  <1>8. OneQuestion
    BY <1>7 DEF OneQuestion
  <1>9. iwait.op = "idle" /\ gq = <<>>
    BY DEF Init, IntroIdle
  <1>10. SecondsReturn /\ OldInSeat
    BY <1>7, <1>9 DEF SecondsReturn, OldInSeat, OnTheWay
  <1>11. OnlyTakeOver
    BY <1>7 DEF OnlyTakeOver
  <1>12. \A cmd, op : OnlyRequest(cmd, op)
    BY <1>9 DEF OnlyRequest
  <1>13. \A p \in Players : RoleOf(p) = None
    BY <1>1, <1>2 DEF Init, RoleOf
  <1>14. Distinct
    BY <1>5, <1>13 DEF Distinct, RolesDistinct
  <1> QED  BY <1>3, <1>4, <1>6, <1>8, <1>10, <1>11, <1>12, <1>14 DEF IInv, ReturnsAgree

LEMMA StepIInv == IInv /\ [Next]_vars => IInv'
  <1> SUFFICES ASSUME IInv, [Next]_vars PROVE IInv'
    OBVIOUS
  <1>1. CASE RolesServerNext
    BY <1>1, RolesServerStep
  <1>2. CASE IntroNext
    BY <1>2, EnterGameStep, HandOverStep, ReplaceSeatStep, EndReconnectionStep DEF IntroNext
  <1>3. ASSUME NEW c \in Conns, PeerNext(c) PROVE IInv'
    BY <1>3, TakeOverStep, OpenMailboxStep, SpawnActorStep, StartFailsStep, ForwardStep,
       ReadStep, EndStep, ToTheGameStep, AnswerServerStep, AnswerTakePeerStep, SendTcpStep,
       BeginGameStep, EndWithoutHandlesStep DEF PeerNext
  <1>4. ASSUME NEW c \in Conns, ClientNext(c) PROVE IInv'
    BY <1>4, ClientStep
  <1>5. CASE UNCHANGED vars
    <2>1. UNCHANGED <<stage, slots, gq, gwait, starting, started, iwait, actor, role, aq,
                      pc, sock, client, items, chosen, left, cin, crashed>>
      BY <1>5 DEF vars, serverVars, actorVars, connVars, clientVars
    <2>2. Sends({}) /\ Fewer(aq, aq')
      BY <2>1 DEF Sends, Fewer
    <2>3. Typed'
      BY <2>1, <2>2, PeersAreTyped, TypedStep DEF PeersTyped
    <2>4. Owned' /\ HeadServed' /\ OneQuestion' /\ Distinct'
      BY <2>1, <2>2, MailKept
    <2>5. ReturnsAgree'
      BY <2>1 DEF IInv, ReturnsAgree, SecondsReturn, OnlyRequest, OldInSeat, OnlyTakeOver
    <2> QED  BY <2>3, <2>4, <2>5 DEF IInv
  <1> QED  BY <1>1, <1>2, <1>3, <1>4, <1>5 DEF Next

(* The bookkeeping of requests, questions and seats is kept by every step of   *)
(* the server, the intro server, the actors, connections and clients.        *)
THEOREM RequestsAgree == Spec => []IInv
  BY InitIInv, StepIInv, PTL DEF Spec

(* The variables have their types for every number of players, connections,    *)
(* roles and messages.                                                     *)
THEOREM RolesTypeCorrect == Spec => []TypeOK
  <1>1. IInv => TypeOK
    BY DEF IInv, Typed
  <1> QED  BY <1>1, RequestsAgree, PTL

(* As long as no one has come back, no two players have the same role, however  *)
(* many select the same at once: the answers of the search (server/states.rs:  *)
(* 1250-1267) still hold when the role is set, because the selection is one     *)
(* command and no other question is under way.                              *)
THEOREM RolesStayDistinct == Spec => []RolesDistinctAtFirst
  <1>1. IInv => RolesDistinctAtFirst
    BY DEF IInv, Distinct, RolesDistinctAtFirst
  <1> QED  BY <1>1, RequestsAgree, PTL

(* A seat is never taken by a connection of another player: the handle that     *)
(* the intro server was given (server/states.rs:803-826) is still that of the  *)
(* seat when the connection replaces it.                                     *)
THEOREM SeatsKeepOwners == Spec => []Owned
  <1>1. IInv => Owned
    BY DEF IInv
  <1> QED  BY <1>1, RequestsAgree, PTL

-------------------------------------------------------------------------------
(* Everyone has a role when the game starts, and keeps it on return.         *)

(* A player has a role, wherever its peer is; and has been back in the game. *)
HasRole(p) == \E c \in Conns : Owner(c) = p /\ role[c] # None
Back(p) == \E c \in Conns : Owner(c) = p /\ c[2] = 2 /\ client[c] # "none"

(* The first connection of a player who came back, or whose seat is offline,  *)
(* has ended, and no selection of it is left in the server's mailbox: its     *)
(* DropPeer was the last of its requests.                                  *)
Gone(p) ==
  /\ pc[First1(p)] = "ended"
  /\ \A i \in 1 .. Len(gq) : gq[i].from = First1(p) => gq[i].cmd # "SelectRole"
FirstsGone == \A p \in Players : Back(p) \/ ~ slots[p].online => Gone(p)
DropsComeLast ==
  \A i \in 1 .. Len(gq) : gq[i].cmd = "DropPeer" =>
    /\ pc[gq[i].from] = "ended"
    /\ \A j \in 1 .. Len(gq) : gq[j].from = gq[i].from /\ j > i => gq[j].cmd # "SelectRole"

(* A connection that was not started, or not given the peer yet, has no role.  *)
(* Once a peer has moved to the second connection, the first has none; and    *)
(* the seat is the first one's until it is handed over.                     *)
NoneYet == \A c \in Conns :
  /\ c[2] = 1 => client[c] # "none"
  /\ client[c] = "none" \/ pc[c] \in OnTheWay \ {"taken"} => role[c] = None
Moved(p) == role[First1(p)] = None
Entered(c) == client[c] # "none" /\ pc[c] \notin OnTheWay /\ Moved(Owner(c))
SecondsSeats == \A c \in Conns :
  /\ c[2] = 2 /\ slots[Owner(c)].conn = c => Entered(c)
  /\ pc[c] = "taken" => Moved(Owner(c))
  /\ \A i \in 1 .. Len(aq[c]) :
       aq[c][i].msg = "TakePeer" => c = First1(Owner(aq[c][i].conn))
HandsOver ==
  /\ iwait.op # "idle" => client[iwait.from] # "none"
  /\ iwait.op \in {"handle", "answer"} \/ (iwait.op = "reconnect" /\ iwait.got = "no") =>
       slots[Owner(iwait.from)].conn = First1(Owner(iwait.from))
  /\ (iwait.op = "answer" /\ iwait.got = "done") \/ iwait.op = "reconnect" =>
       Entered(iwait.from)

(* A selection and the end of a connection are the business of its own seat.   *)
(* Who was told a role has one: the answer to a selection says so, and what    *)
(* is said to its client comes after it.                                   *)
OwnSeat ==
  gwait.op \in {"set", "drop"} =>
    /\ gwait.of = {Owner(gq[1].from)} /\ slots[Owner(gq[1].from)].conn = gq[1].from
    /\ gwait.op = "set" /\ gwait.got[Owner(gq[1].from)] # Pending =>
         HasRole(Owner(gq[1].from))
TellsRole(m) == m.msg = "SelectedStatus" /\ m.what # {}
ToldHave == \A c \in Conns :
  \/ chosen[c] # None
  \/ \E i \in 1 .. Len(aq[c]) : TellsRole(aq[c][i])
  \/ \E i \in 1 .. Len(sock[c]) : TellsRole(sock[c][i])
  => HasRole(Owner(c))

(* The seats that were found with a role, everyone once the start is decided. *)
FoundHave ==
  gwait.op = "all" =>
    \A p \in Players : \A a \in gwait.of :
      p < a \/ (p = a /\ gwait.got[a] \notin {Pending, None}) => HasRole(p)
AllHave == starting # NoConn \/ stage # "roles" => \A p \in Players : HasRole(p)

(* Who begins the game has the role itself, and stays.                       *)
InGame(c) == c \in started \/ pc[c] \in {"toGame", "startGame", "game"}
Settled(c) ==
  /\ stage # "roles" /\ role[c] # None /\ client[c] # "none" /\ pc[c] \notin OnTheWay
  /\ c[2] = 1 => ~ Back(Owner(c)) /\ slots[Owner(c)].online
Starting == \A c \in Conns :
  /\ \A i \in 1 .. Len(aq[c]) :
       aq[c][i].msg = "StartGame" => stage # "roles" /\ slots[Owner(c)].conn = c
  /\ InGame(c) => Settled(c)
AllStart ==
  /\ Running /\ stage = "moving" => gwait.of = Players
  /\ stage = "Game" => \A p \in Players : slots[p].conn \in started
  /\ crashed # "norole"

KInv == /\ FirstsGone /\ DropsComeLast /\ NoneYet /\ SecondsSeats /\ HandsOver
        /\ OwnSeat /\ ToldHave /\ FoundHave /\ AllHave /\ Starting /\ AllStart
-------------------------------------------------------------------------------
(* What the steps do to mailboxes.                                         *)

(* What the steps do to a mailbox: nothing of a return or a start is added, and *)
(* who is told a role has one.                                              *)
AddsNothing(q, q2) ==
  \A c \in Conns : \A i \in 1 .. Len(q2[c]) :
    /\ q2[c][i].msg \in {"TakePeer", "StartGame"} =>
         \E j \in 1 .. Len(q[c]) : q[c][j] = q2[c][i]
    /\ TellsRole(q2[c][i]) =>
         HasRole(Owner(c)) \/ \E j \in 1 .. Len(q[c]) : q[c][j] = q2[c][i]

LEMMA PostAdds ==
  ASSUME NEW q, MailTyped(q), NEW C, NEW m \in Messages,
         m.msg \notin {"TakePeer", "StartGame"},
         TellsRole(m) => \A c \in C \cap Conns : HasRole(Owner(c))
  PROVE  MailTyped(Post(q, C, m)) /\ AddsNothing(q, Post(q, C, m))
  <1>1. MailTyped(Post(q, C, m))
    BY PostFacts
  <1>2. ASSUME NEW c \in Conns, NEW i \in 1 .. Len(Post(q, C, m)[c])
        PROVE  \/ i \in 1 .. Len(q[c]) /\ Post(q, C, m)[c][i] = q[c][i]
               \/ c \in C /\ Post(q, C, m)[c][i] = m
    <2>1. q[c] \in Seq(Messages)
      BY DEF MailTyped
    <2>2. Post(q, C, m)[c] = IF c \in C /\ Open(c) THEN Append(q[c], m) ELSE q[c]
      BY DEF Post
    <2> QED  BY <1>2, <2>1, <2>2
  <1> QED  BY <1>1, <1>2 DEF AddsNothing

LEMMA AddsTwice ==
  ASSUME NEW q, NEW q2, NEW q3, AddsNothing(q, q2), AddsNothing(q2, q3)
  PROVE  AddsNothing(q, q3)
  <1>1. SUFFICES ASSUME NEW c \in Conns, NEW i \in 1 .. Len(q3[c])
                 PROVE  /\ q3[c][i].msg \in {"TakePeer", "StartGame"} =>
                             \E j \in 1 .. Len(q[c]) : q[c][j] = q3[c][i]
                        /\ TellsRole(q3[c][i]) =>
                             HasRole(Owner(c)) \/ \E j \in 1 .. Len(q[c]) : q[c][j] = q3[c][i]
    BY DEF AddsNothing
  <1>2. CASE \E k \in 1 .. Len(q2[c]) : q2[c][k] = q3[c][i]
    BY <1>2 DEF AddsNothing
  <1>3. CASE ~ \E k \in 1 .. Len(q2[c]) : q2[c][k] = q3[c][i]
    BY <1>3 DEF AddsNothing
  <1> QED  BY <1>2, <1>3

LEMMA AskAdds ==
  ASSUME NEW q, MailTyped(q), AddsNothing(aq, q), MailTyped(aq), NEW op,
         NEW P \in SUBSET Players, NEW m \in Messages,
         m.msg \notin {"TakePeer", "StartGame", "SelectedStatus"}, AskSeats(op, q, P, m)
  PROVE  /\ AddsNothing(aq, aq')
         /\ \/ gwait' = [op |-> op, of |-> P, got |-> NoAnswers] /\ crashed' = crashed
            \/ gwait' = gwait /\ crashed' = "roles"
  <1>1. ~ TellsRole(m)
    BY DEF TellsRole
  <1>2. AddsNothing(aq, aq)
    BY DEF AddsNothing
  <1>3. AddsNothing(aq, Post(q, {slots[p].conn : p \in P}, m))
    BY <1>1, PostAdds, AddsTwice
  <1> QED  BY <1>2, <1>3 DEF AskSeats

LEMMA FewerAdds ==
  ASSUME IInv, Fewer(aq, aq')
  PROVE  AddsNothing(aq, aq')
  <1>1. MailTyped(aq)
    BY DEF IInv, Typed, TypeOK, MailTyped
  <1>2. ASSUME NEW c \in Conns, NEW i \in 1 .. Len(aq'[c])
        PROVE  \E j \in 1 .. Len(aq[c]) : aq[c][j] = aq'[c][i]
    <2>1. PICK k \in {0, 1} : \A j \in 1 .. Len(aq'[c]) :
                                j + k \in 1 .. Len(aq[c]) /\ aq'[c][j] = aq[c][j + k]
      BY <1>1, FewerFacts, SMTT(30)
    <2> QED  BY <2>1
  <1> QED  BY <1>2 DEF AddsNothing

(* The mailbox of the server loses its head or everything, or gets a request   *)
(* of a connection that has not ended.                                      *)
Ended == \A c \in Conns : pc[c] = "ended" => pc'[c] = "ended"

LEMMA GoneWhenTaken ==
  ASSUME IInv, DropsComeLast, Ended, gq' = gq \/ (gq # <<>> /\ gq' = Tail(gq)) \/ gq' = <<>>
  PROVE  DropsComeLast' /\ \A p \in Players : Gone(p) => Gone(p)'
  <1>1. gq \in Seq(Requests) /\ \A p \in Players : First1(p) \in Conns
    BY ConnFacts DEF IInv, Typed
  <1>2. PICK k \in {0, 1} :
          \A i \in 1 .. Len(gq') : i + k \in 1 .. Len(gq) /\ gq'[i] = gq[i + k]
    <2>1. CASE gq' = gq
      BY <2>1, <1>1
    <2>2. CASE gq # <<>> /\ gq' = Tail(gq)
      <3>1. \A i \in 1 .. Len(gq') : i + 1 \in 1 .. Len(gq) /\ gq'[i] = gq[i + 1]
        BY <1>1, <2>2
      <3> QED  BY <3>1
    <2>3. CASE gq' = <<>>
      BY <2>3
    <2> QED  BY <2>1, <2>2, <2>3
  <1>3. ASSUME NEW i \in 1 .. Len(gq'), gq'[i].cmd = "DropPeer"
        PROVE  /\ pc'[gq'[i].from] = "ended"
               /\ \A j \in 1 .. Len(gq') : gq'[j].from = gq'[i].from /\ j > i =>
                    gq'[j].cmd # "SelectRole"
    <2>1. i + k \in 1 .. Len(gq) /\ gq'[i] = gq[i + k] /\ gq[i + k] \in Requests
      BY <1>1, <1>2
    <2>2. pc[gq[i + k].from] = "ended" /\ gq[i + k].from \in Conns
      BY <1>3, <2>1 DEF DropsComeLast, Requests
    <2>3. ASSUME NEW j \in 1 .. Len(gq'), gq'[j].from = gq'[i].from, j > i
          PROVE  gq'[j].cmd # "SelectRole"
      <3>1. j + k \in 1 .. Len(gq) /\ gq'[j] = gq[j + k] /\ j + k > i + k
        BY <1>2, <2>3
      <3> QED  BY <1>3, <2>1, <2>3, <3>1 DEF DropsComeLast
    <2> QED  BY <2>1, <2>2, <2>3 DEF Ended
  <1>4. ASSUME NEW p \in Players, Gone(p) PROVE Gone(p)'
    <2>1. ASSUME NEW i \in 1 .. Len(gq'), gq'[i].from = First1(p)
          PROVE  gq'[i].cmd # "SelectRole"
      <3>1. i + k \in 1 .. Len(gq) /\ gq'[i] = gq[i + k]
        BY <1>2
      <3> QED  BY <1>4, <2>1, <3>1 DEF Gone
    <2> QED  BY <1>1, <1>4, <2>1 DEF Gone, Ended
  <1> QED  BY <1>3, <1>4 DEF DropsComeLast

LEMMA GoneWhenSent ==
  ASSUME IInv, DropsComeLast, Ended, NEW r \in Requests,
         gq' = Append(gq, r) \/ gq' = gq,
         r.cmd = "SelectRole" => pc[r.from] # "ended",
         r.cmd = "DropPeer" => pc'[r.from] = "ended"
  PROVE  DropsComeLast' /\ \A p \in Players : Gone(p) => Gone(p)'
  <1>1. gq \in Seq(Requests) /\ \A p \in Players : First1(p) \in Conns
    BY ConnFacts DEF IInv, Typed
  <1>2. CASE gq' = gq
    BY <1>2, GoneWhenTaken
  <1>3. CASE gq' = Append(gq, r)
    <2>1. /\ Len(gq') = Len(gq) + 1 /\ Len(gq) \in Nat /\ gq'[Len(gq) + 1] = r
          /\ \A i \in 1 .. Len(gq) : gq'[i] = gq[i] /\ i \in 1 .. Len(gq')
          /\ \A i \in 1 .. Len(gq') : i \in 1 .. Len(gq) \/ i = Len(gq) + 1
      BY <1>1, <1>3
    <2>2. ASSUME NEW i \in 1 .. Len(gq'), gq'[i].cmd = "DropPeer"
          PROVE  /\ pc'[gq'[i].from] = "ended"
                 /\ \A j \in 1 .. Len(gq') : gq'[j].from = gq'[i].from /\ j > i =>
                      gq'[j].cmd # "SelectRole"
      <3>1. CASE i \in 1 .. Len(gq)
        <4>0. gq'[i] = gq[i] /\ gq[i] \in Requests /\ gq[i].cmd = "DropPeer"
          BY <1>1, <2>1, <2>2, <3>1
        <4>1. pc[gq[i].from] = "ended" /\ gq[i].from \in Conns
          BY <3>1, <4>0 DEF DropsComeLast, Requests
        <4>2. ASSUME NEW j \in 1 .. Len(gq'), gq'[j].from = gq'[i].from, j > i
              PROVE  gq'[j].cmd # "SelectRole"
          <5>1. CASE j \in 1 .. Len(gq)
            BY <2>1, <3>1, <4>0, <4>2, <5>1 DEF DropsComeLast
          <5>2. CASE j = Len(gq) + 1
            BY <2>1, <4>0, <4>1, <4>2, <5>2
          <5> QED  BY <2>1, <5>1, <5>2
        <4> QED  BY <4>0, <4>1, <4>2 DEF Ended
      <3>2. CASE i = Len(gq) + 1
        <4>1. \A j \in 1 .. Len(gq') : ~ (j > i)
          BY <2>1, <3>2
        <4> QED  BY <2>1, <2>2, <3>2, <4>1
      <3> QED  BY <2>1, <3>1, <3>2
    <2>3. ASSUME NEW p \in Players, Gone(p) PROVE Gone(p)'
      <3>1. ASSUME NEW i \in 1 .. Len(gq'), gq'[i].from = First1(p)
            PROVE  gq'[i].cmd # "SelectRole"
        BY <2>1, <2>3, <3>1 DEF Gone
      <3> QED  BY <1>1, <2>3, <3>1 DEF Gone, Ended
    <2> QED  BY <2>2, <2>3 DEF DropsComeLast
  <1> QED  BY <1>2, <1>3

-------------------------------------------------------------------------------
(* What the server asks and says.                                          *)

LEMMA InPlace ==
  ASSUME NoneYet, SecondsSeats, Starting, AddsNothing(aq, aq'),
         UNCHANGED <<stage, slots, started, role, pc, client>>
  PROVE  /\ NoneYet' /\ SecondsSeats' /\ Starting'
         /\ \A p : (HasRole(p)' <=> HasRole(p)) /\ (Back(p)' <=> Back(p))
  <1>1. \A p : (HasRole(p)' <=> HasRole(p)) /\ (Back(p)' <=> Back(p)) /\ (Moved(p)' <=> Moved(p))
    BY DEF HasRole, Back, Moved
  <1>2. \A c : (Entered(c)' <=> Entered(c)) /\ (InGame(c)' <=> InGame(c))
             /\ (Settled(c)' <=> Settled(c))
    BY <1>1 DEF Entered, InGame, Settled
  <1>3. ASSUME NEW c \in Conns, NEW i \in 1 .. Len(aq'[c]),
               aq'[c][i].msg \in {"TakePeer", "StartGame"}
        PROVE  \E j \in 1 .. Len(aq[c]) : aq[c][j] = aq'[c][i]
    BY <1>3 DEF AddsNothing
  <1>4. NoneYet'
    BY DEF NoneYet
  <1>5. SecondsSeats'
    BY <1>1, <1>2, <1>3 DEF SecondsSeats
  <1>6. Starting'
    BY <1>1, <1>2, <1>3 DEF Starting
  <1> QED  BY <1>1, <1>4, <1>5, <1>6

LEMMA ToldKept ==
  ASSUME ToldHave, AddsNothing(aq, aq'), \A p \in Players : HasRole(p) => HasRole(p)',
         \A c \in Conns : chosen'[c] # None => chosen[c] # None \/ HasRole(Owner(c)),
         \A c \in Conns : \A i \in 1 .. Len(sock'[c]) : TellsRole(sock'[c][i]) =>
           HasRole(Owner(c)) \/ \E j \in 1 .. Len(sock[c]) : sock[c][j] = sock'[c][i]
  PROVE  ToldHave'
  <1> SUFFICES ASSUME NEW c \in Conns,
                      \/ chosen'[c] # None
                      \/ \E i \in 1 .. Len(aq'[c]) : TellsRole(aq'[c][i])
                      \/ \E i \in 1 .. Len(sock'[c]) : TellsRole(sock'[c][i])
               PROVE  HasRole(Owner(c))'
    BY DEF ToldHave, TellsRole
  <1>1. HasRole(Owner(c))
    <2>1. CASE chosen'[c] # None
      BY <2>1 DEF ToldHave
    <2>2. ASSUME NEW i \in 1 .. Len(aq'[c]), TellsRole(aq'[c][i]) PROVE HasRole(Owner(c))
      BY <2>2 DEF ToldHave, AddsNothing
    <2>3. ASSUME NEW i \in 1 .. Len(sock'[c]), TellsRole(sock'[c][i]) PROVE HasRole(Owner(c))
      BY <2>3 DEF ToldHave
    <2> QED  BY <2>1, <2>2, <2>3
  <1> QED  BY <1>1, ConnFacts

(* The server asks, or panics. *)
LEMMA AskKeeps ==
  ASSUME IInv, KInv, Running, stage = "roles", gq # <<>>,
         NEW q, MailTyped(q), AddsNothing(aq, q),
         NEW op \in OfOne \cup {"collect", "rejoin"}, NEW P \in SUBSET Players,
         NEW m \in Messages, m.msg \in Questions, AskSeats(op, q, P, m),
         op \in {"set", "drop"} =>
           /\ P = {Owner(gq[1].from)} /\ gq[1].from \in Conns
           /\ slots[Owner(gq[1].from)].conn = gq[1].from,
         op = "all" => \A p \in Players : \A a \in P : p < a => HasRole(p),
         UNCHANGED <<gq, iwait, rest>>
  PROVE  KInv'
  <1> USE DEF KInv
  <1>1. /\ AddsNothing(aq, aq')
        /\ \/ gwait' = [op |-> op, of |-> P, got |-> NoAnswers] /\ crashed' = crashed
           \/ gwait' = gwait /\ crashed' = "roles"
    BY GoesOn, AskAdds DEF Questions
  <1>2. UNCHANGED <<stage, slots, starting, started, role, pc, sock, client, chosen>>
    BY DEF rest, connVars, clientVars
  <1>3. NoneYet' /\ SecondsSeats' /\ Starting'
        /\ \A p : (HasRole(p)' <=> HasRole(p)) /\ (Back(p)' <=> Back(p))
    BY <1>1, <1>2, InPlace
  <1>4. DropsComeLast' /\ \A p \in Players : Gone(p) => Gone(p)'
    BY <1>2, GoneWhenTaken DEF Ended
  <1>5. FirstsGone'
    BY <1>2, <1>3, <1>4 DEF FirstsGone
  <1>6. HandsOver'
    BY <1>2 DEF HandsOver, Entered, Moved
  <1>7. ToldHave'
    BY <1>1, <1>2, <1>3, ToldKept
  <1>8. AllHave'
    BY <1>2, <1>3 DEF AllHave
  <1>9. AllStart'
    BY <1>1, <1>2 DEF AllStart, Running
  <1>10. OwnSeat'
    <2>1. CASE gwait' = gwait
      BY <1>2, <1>3, <2>1 DEF OwnSeat
    <2>2. CASE gwait' = [op |-> op, of |-> P, got |-> NoAnswers]
      <3>1. op \in {"set", "drop"} => NoAnswers[Owner(gq[1].from)] = Pending
        BY ConnFacts DEF NoAnswers
      <3> QED  BY <1>2, <2>2, <3>1 DEF OwnSeat
    <2> QED  BY <1>1, <2>1, <2>2
  <1>11. FoundHave'
    <2>1. CASE gwait' = gwait
      BY <1>3, <2>1 DEF FoundHave
    <2>2. CASE gwait' = [op |-> op, of |-> P, got |-> NoAnswers]
      BY <1>3, <2>2 DEF FoundHave, NoAnswers
    <2> QED  BY <1>1, <2>1, <2>2
  <1> QED  BY <1>3, <1>4, <1>5, <1>6, <1>7, <1>8, <1>9, <1>10, <1>11

(* The command is done; the seats stay. *)
LEMMA DoneKeeps ==
  ASSUME IInv, KInv, Running, stage = "roles", gq # <<>>, Finished, AddsNothing(aq, aq'),
         starting' # NoConn => \A p \in Players : HasRole(p),
         crashed' # "norole",
         UNCHANGED <<stage, slots, started, iwait, role, pc, sock, client, chosen>>
  PROVE  KInv'
  <1> USE DEF KInv
  <1>1. gwait'.op = "idle" /\ gq' = Tail(gq)
    BY DEF Finished, ServerIdle
  <1>2. NoneYet' /\ SecondsSeats' /\ Starting'
        /\ \A p : (HasRole(p)' <=> HasRole(p)) /\ (Back(p)' <=> Back(p))
    BY InPlace
  <1>3. DropsComeLast' /\ \A p \in Players : Gone(p) => Gone(p)'
    BY <1>1, GoneWhenTaken DEF Ended
  <1>4. FirstsGone'
    BY <1>2, <1>3 DEF FirstsGone
  <1>5. HandsOver'
    BY DEF HandsOver, Entered, Moved
  <1>6. ToldHave'
    BY <1>2, ToldKept
  <1>7. AllHave'
    BY <1>2 DEF AllHave
  <1>8. AllStart' /\ OwnSeat' /\ FoundHave'
    BY <1>1 DEF AllStart, Running, OwnSeat, FoundHave
  <1> QED  BY <1>2, <1>3, <1>4, <1>5, <1>6, <1>7, <1>8

LEMMA PanicKeeps ==
  ASSUME IInv, KInv, Panic, UNCHANGED <<iwait, rest>>
  PROVE  KInv'
  <1>1. UNCHANGED <<stage, slots, gq, gwait, starting, started, iwait, role, aq, pc, sock,
                    client, chosen>>
        /\ crashed' = "roles"
    BY DEF Panic, rest, connVars, clientVars
  <1> QED  BY <1>1 DEF KInv, FirstsGone, Back, Gone, DropsComeLast, NoneYet, SecondsSeats,
                       Entered, Moved, HandsOver, OwnSeat, HasRole, ToldHave, TellsRole,
                       FoundHave, AllHave, Starting, InGame, Settled, AllStart,
                       Running

(* What the commands of the server have in common when they go on.            *)
LEMMA GoingOn ==
  ASSUME IInv
  PROVE  /\ MailTyped(aq) /\ AddsNothing(aq, aq)
         /\ \A msg \in {"GetRole", "GetUsername", "Chat"} :
              /\ Ask(msg) \in Messages /\ Ask(msg).msg = msg
         /\ \A cmd : Receive(cmd) => Running /\ stage = "roles" /\ gq # <<>> /\ Head(gq) = gq[1]
                                     /\ gq[1].cmd = cmd /\ gq[1] \in Requests
         /\ \A op \in OfOne : Answered(op) =>
              /\ Running /\ stage = "roles" /\ gwait.op = op /\ gq # <<>> /\ Head(gq) = gq[1]
              /\ gq[1] \in Requests /\ Serves(op, gq[1].cmd)
              /\ Asked \in Players /\ gwait.of = {Asked} /\ gwait.got[Asked] # Pending
         /\ \A op \in {"collect", "rejoin"} : Answered(op) =>
              /\ Running /\ stage = "roles" /\ gwait.op = op /\ gq # <<>> /\ Head(gq) = gq[1]
              /\ gq[1] \in Requests /\ Serves(op, gq[1].cmd)
              /\ gwait.of = Players /\ Collected \in SUBSET RoleNames
  <1>1. MailTyped(aq) /\ AddsNothing(aq, aq)
    BY GoesOn DEF AddsNothing
  <1>2. \A msg \in {"GetRole", "GetUsername", "Chat"} :
          Ask(msg) \in Messages /\ Ask(msg).msg = msg
    BY MessageTypes
  <1>3. ASSUME NEW cmd, Receive(cmd)
        PROVE  Running /\ stage = "roles" /\ gq # <<>> /\ Head(gq) = gq[1]
               /\ gq[1].cmd = cmd /\ gq[1] \in Requests
    BY <1>3, GoesOn DEF Receive
  <1>4. ASSUME NEW op \in OfOne, Answered(op)
        PROVE  /\ Running /\ stage = "roles" /\ gwait.op = op /\ gq # <<>> /\ Head(gq) = gq[1]
               /\ gq[1] \in Requests /\ Serves(op, gq[1].cmd)
               /\ Asked \in Players /\ gwait.of = {Asked} /\ gwait.got[Asked] # Pending
    <2>1. Running /\ gwait.op = op /\ op \notin {"idle", "start"}
          /\ \A p \in gwait.of : gwait.got[p] # Pending
      BY <1>4 DEF Answered, OfOne
    <2> QED  BY <2>1, OneAsked DEF IInv, HeadServed
  <1>5. ASSUME NEW op \in {"collect", "rejoin"}, Answered(op)
        PROVE  /\ Running /\ stage = "roles" /\ gwait.op = op /\ gq # <<>> /\ Head(gq) = gq[1]
               /\ gq[1] \in Requests /\ Serves(op, gq[1].cmd)
               /\ gwait.of = Players /\ Collected \in SUBSET RoleNames
    <2>1. Running /\ gwait.op = op /\ gwait.of = Players /\ stage = "roles" /\ gq # <<>>
          /\ Serves(op, gq[1].cmd) /\ \A p \in Players : gwait.got[p] \in MaybeRole
      BY <1>5 DEF Answered, IInv, HeadServed, GetsRole
    <2>2. Collected \in SUBSET RoleNames
      BY <2>1 DEF Collected, MaybeRole
    <2> QED  BY <2>1, <2>2 DEF IInv, Typed
  <1> QED  BY <1>1, <1>2, <1>3, <1>4, <1>5

(* The commands that only ask. *)
LEMMA AskingKeeps ==
  ASSUME IInv, KInv,
         \/ SelectRole \/ SearchOn \/ StartGame \/ NextHasRole
         \/ SearchHandle \/ SearchHandleOn \/ ReconnectPeer
  PROVE  KInv'
  <1> DEFINE Common(op, P, m) ==
        /\ Running /\ stage = "roles" /\ gq # <<>> /\ op \in OfOne \cup {"collect", "rejoin"}
        /\ P \in SUBSET Players /\ m \in Messages /\ m.msg \in Questions
        /\ op \notin {"set", "drop"} /\ AskSeats(op, aq, P, m) /\ UNCHANGED <<gq, iwait, rest>>
  <1>1. MailTyped(aq) /\ AddsNothing(aq, aq)
    BY GoingOn
  <1>2. ASSUME NEW op, NEW P, NEW m, Common(op, P, m),
               op = "all" => \A p \in Players : \A a \in P : p < a => HasRole(p)
        PROVE  KInv'
    BY <1>1, <1>2, AskKeeps
  <1>3. /\ {0} \in SUBSET Players /\ Players \in SUBSET Players
        /\ \A p \in Players : ~ (p < 0)
        /\ Ask("GetRole") \in Messages /\ Ask("GetRole").msg \in Questions
        /\ Ask("GetUsername") \in Messages /\ Ask("GetUsername").msg \in Questions
    BY ConnFacts, MessageTypes DEF Questions
  <1>4. CASE SelectRole
    <2>1. Common("search", {0}, Ask("GetRole"))
      BY <1>3, <1>4, GoingOn DEF SelectRole, OfOne
    <2> HIDE DEF Common
    <2> QED  BY <1>2, <2>1
  <1>5. CASE StartGame
    <2>1. Common("all", {0}, Ask("GetRole"))
      BY <1>3, <1>5, GoingOn DEF StartGame, OfOne
    <2> HIDE DEF Common
    <2> QED  BY <1>2, <1>3, <2>1
  <1>6. CASE SearchHandle
    <2>1. Common("handle", {0}, Ask("GetUsername"))
      BY <1>3, <1>6, GoingOn DEF SearchHandle, OfOne
    <2> HIDE DEF Common
    <2> QED  BY <1>2, <2>1
  <1>7. CASE ReconnectPeer
    <2>1. Common("rejoin", Players, Ask("GetRole"))
      BY <1>3, <1>7, GoingOn DEF ReconnectPeer
    <2> HIDE DEF Common
    <2> QED  BY <1>2, <2>1
  <1>8. CASE SearchOn
    <2>1. Running /\ stage = "roles" /\ gq # <<>> /\ Asked \in Players
      BY <1>8, GoingOn DEF SearchOn, OfOne
    <2>2. {Asked + 1} \in SUBSET Players
      BY <1>8, <2>1, RolesAssumption DEF SearchOn, SearchedAll, Players
    <2>3. Common("search", {Asked + 1}, Ask("GetRole"))
      BY <1>3, <1>8, <2>1, <2>2 DEF SearchOn, OfOne
    <2> HIDE DEF Common
    <2> QED  BY <1>2, <2>3
  <1>9. CASE NextHasRole
    <2>1. Running /\ stage = "roles" /\ gq # <<>> /\ Asked \in Players /\ gwait.of = {Asked}
          /\ gwait.op = "all" /\ gwait.got[Asked] \notin {Pending, None}
      BY <1>9, GoingOn DEF NextHasRole, OfOne, Answer
    <2>2. {Asked + 1} \in SUBSET Players
      BY <1>9, <2>1, RolesAssumption DEF NextHasRole, RolesUpToAll, Players
    <2>3. Common("all", {Asked + 1}, Ask("GetRole"))
      BY <1>3, <1>9, <2>1, <2>2 DEF NextHasRole, OfOne
    <2>4. ASSUME NEW p \in Players, p < Asked + 1 PROVE HasRole(p)
      <3>1. p < Asked \/ p = Asked
        BY <2>1, <2>4 DEF Players
      <3> QED  BY <2>1, <3>1 DEF KInv, FoundHave
    <2> HIDE DEF Common
    <2> QED  BY <1>2, <2>3, <2>4
  <1>10. CASE SearchHandleOn
    <2>1. Running /\ stage = "roles" /\ gq # <<>> /\ Asked \in Players /\ gwait.of = {Asked}
          /\ gwait.op = "handle" /\ gq[1].from \in Conns /\ Asked # Owner(gq[1].from)
          /\ Asked <= Owner(gq[1].from)
      BY <1>10, GoingOn DEF SearchHandleOn, OfOne, Requests, IInv, HeadServed
    <2>2. {Asked + 1} \in SUBSET Players
      BY <2>1, ConnFacts, RolesAssumption DEF Players
    <2>3. Common("handle", {Asked + 1}, Ask("GetUsername"))
      BY <1>3, <1>10, <2>1, <2>2 DEF SearchHandleOn, OfOne
    <2> HIDE DEF Common
    <2> QED  BY <1>2, <2>3
  <1> QED  BY <1>4, <1>5, <1>6, <1>7, <1>8, <1>9, <1>10

(* A selection, from its sender's seat to the word to everyone.               *)
LEMMA SelectingKeeps ==
  ASSUME IInv, KInv, RoleIsTaken \/ RoleIsFree \/ RoleIsSet \/ TellOthers \/ TellRoles
  PROVE  KInv'
  <1>1. MailTyped(aq) /\ AddsNothing(aq, aq)
    BY GoingOn
  <1>2. CASE RoleIsTaken
    <2>1. Running /\ stage = "roles" /\ gq # <<>>
      BY <1>2, GoingOn DEF RoleIsTaken, OfOne
    <2>2. CASE Panic
      BY <1>2, <2>2, PanicKeeps DEF RoleIsTaken
    <2>3. CASE Finished /\ aq' = Post(aq, {Head(gq).from}, Status({})) /\ crashed' = crashed
      <3>1. Status({}) \in Messages /\ Status({}).msg = "SelectedStatus" /\ ~ TellsRole(Status({}))
        BY MessageTypes DEF Status, ToActor, TellsRole
      <3>2. AddsNothing(aq, aq')
        BY <1>1, <2>3, <3>1, PostAdds
      <3>3. (starting # NoConn => \A p \in Players : HasRole(p)) /\ crashed # "norole"
        BY DEF KInv, AllHave, AllStart
      <3> QED  BY <1>2, <2>1, <2>3, <3>2, <3>3, DoneKeeps
               DEF RoleIsTaken, rest, connVars, clientVars
    <2> QED  BY <1>2, <2>2, <2>3 DEF RoleIsTaken
  <1>3. CASE RoleIsFree
    <2>1. Running /\ stage = "roles" /\ gq # <<>> /\ Head(gq) = gq[1] /\ gq[1] \in Requests
          /\ gq[1].cmd = "SelectRole" /\ gq[1].what \in RoleNames
      <3>1. Running /\ stage = "roles" /\ gq # <<>> /\ Head(gq) = gq[1] /\ gq[1] \in Requests
            /\ Serves("search", gq[1].cmd)
        BY <1>3, GoingOn DEF RoleIsFree, OfOne
      <3>2. gq[1].cmd = "SelectRole" /\ 1 \in 1 .. Len(gq)
        BY <3>1 DEF Serves, IInv, Typed
      <3> QED  BY <3>1, <3>2 DEF IInv, Typed
    <2>2. CASE Panic
      BY <1>3, <2>2, PanicKeeps DEF RoleIsFree
    <2>3. CASE /\ Head(gq).from \in Seated
               /\ AskSeats("set", aq, {SeatOf(Head(gq).from)},
                           ToActor("SelectRole", {Head(gq).what}, NoConn))
               /\ gq' = gq
      <3> DEFINE m == ToActor("SelectRole", {gq[1].what}, NoConn)
                 P == {Owner(gq[1].from)}
      <3>1. SeatOf(gq[1].from) = Owner(gq[1].from) /\ Owner(gq[1].from) \in Players
            /\ slots[Owner(gq[1].from)].conn = gq[1].from
        BY <2>1, <2>3, SeatOfOwner DEF IInv
      <3>2. m \in Messages /\ m.msg \in Questions
        BY <2>1, MessageTypes DEF ToActor, Questions
      <3>3. AskSeats("set", aq, P, m) /\ P \in SUBSET Players /\ gq[1].from \in Conns
        BY <2>1, <2>3, <3>1 DEF Requests
      <3>4. "set" \in OfOne \cup {"collect", "rejoin"} /\ UNCHANGED <<gq, iwait, rest>>
        BY <1>3, <2>3 DEF RoleIsFree, OfOne
      <3> HIDE DEF m
      <3> QED  BY <1>1, <2>1, <3>1, <3>2, <3>3, <3>4, AskKeeps
    <2> QED  BY <1>3, <2>2, <2>3 DEF RoleIsFree
  <1>4. CASE RoleIsSet
    <2> DEFINE q == Post(aq, {gq[1].from}, Status({gq[1].what}))
    <2>1. Running /\ stage = "roles" /\ gq # <<>> /\ Head(gq) = gq[1] /\ gq[1] \in Requests
          /\ gwait.op = "set" /\ gwait.of = {Asked} /\ gwait.got[Asked] # Pending
          /\ Asked \in Players /\ Serves("set", gq[1].cmd)
      BY <1>4, GoingOn DEF RoleIsSet, OfOne
    <2>2. gq[1].cmd = "SelectRole" /\ gq[1].what \in RoleNames
      <3>1. gq[1].cmd = "SelectRole" /\ 1 \in 1 .. Len(gq)
        BY <2>1 DEF Serves, IInv, Typed
      <3> QED  BY <3>1 DEF IInv, Typed
    <2>3. HasRole(Owner(gq[1].from))
      <3>1. Asked = Owner(gq[1].from)
        BY <2>1 DEF KInv, OwnSeat
      <3> QED  BY <2>1, <3>1 DEF KInv, OwnSeat
    <2>4. MailTyped(q) /\ AddsNothing(aq, q)
      <3>1. Status({gq[1].what}) \in Messages /\ Status({gq[1].what}).msg = "SelectedStatus"
        BY <2>2, MessageTypes DEF Status, ToActor
      <3>2. \A c \in {gq[1].from} \cap Conns : HasRole(Owner(c))
        BY <2>3
      <3> QED  BY <1>1, <3>1, <3>2, PostAdds
    <2> HIDE DEF q
    <2>5. AskSeats("name", q, gwait.of, Ask("GetUsername")) /\ UNCHANGED <<gq, iwait, rest>>
      BY <1>4, <2>1 DEF RoleIsSet, q
    <2>6. Ask("GetUsername") \in Messages /\ Ask("GetUsername").msg \in Questions
          /\ "name" \in OfOne /\ gwait.of \in SUBSET Players
      BY <2>1, GoingOn DEF Questions, OfOne
    <2> QED  BY <2>1, <2>4, <2>5, <2>6, AskKeeps
  <1>5. CASE TellOthers
    <2> DEFINE q == Post(aq, OnlineSeats \ {Head(gq).from}, Ask("Chat"))
    <2>1. Running /\ stage = "roles" /\ gq # <<>>
      BY <1>5, GoingOn DEF TellOthers, OfOne
    <2>2. MailTyped(q) /\ AddsNothing(aq, q)
      <3>1. Ask("Chat") \in Messages /\ Ask("Chat").msg = "Chat" /\ ~ TellsRole(Ask("Chat"))
        BY GoingOn DEF TellsRole
      <3> QED  BY <1>1, <3>1, PostAdds
    <2> HIDE DEF q
    <2>3. AskSeats("collect", q, Players, Ask("GetRole")) /\ UNCHANGED <<gq, iwait, rest>>
      BY <1>5 DEF TellOthers, q
    <2>4. Ask("GetRole") \in Messages /\ Ask("GetRole").msg \in Questions
      BY GoingOn DEF Questions
    <2> QED  BY <2>1, <2>2, <2>3, <2>4, AskKeeps
  <1>6. CASE TellRoles
    <2>1. Running /\ stage = "roles" /\ gq # <<>> /\ Collected \in SUBSET RoleNames
      BY <1>6, GoingOn DEF TellRoles
    <2>2. AddsNothing(aq, aq')
      <3>1. /\ Available(Collected) \in Messages /\ ~ TellsRole(Available(Collected))
            /\ Available(Collected).msg = "AvailableRoles"
        BY <2>1, MessageTypes DEF Available, ToActor, TellsRole
      <3> QED  BY <1>1, <1>6, <3>1, PostAdds DEF TellRoles
    <2>3. (starting # NoConn => \A p \in Players : HasRole(p)) /\ crashed # "norole"
      BY DEF KInv, AllHave, AllStart
    <2> QED  BY <1>6, <2>1, <2>2, <2>3, DoneKeeps DEF TellRoles, rest, connVars, clientVars
  <1> QED  BY <1>2, <1>3, <1>4, <1>5, <1>6

(* A start, decided and begun. *)
LEMMA DecidingKeeps ==
  ASSUME IInv, KInv, NotAllHaveRoles \/ AllHaveRoles PROVE KInv'
  <1>1. Running /\ stage = "roles" /\ gq # <<>> /\ Asked \in Players /\ gwait.of = {Asked}
        /\ gwait.op = "all" /\ AddsNothing(aq, aq')
    BY GoingOn DEF NotAllHaveRoles, AllHaveRoles, OfOne
  <1>2. starting' # NoConn => \A p \in Players : HasRole(p)
    <2>1. CASE NotAllHaveRoles
      BY <2>1 DEF NotAllHaveRoles, rest, KInv, AllHave
    <2>2. CASE AllHaveRoles
      <3>1. gwait.got[Asked] \notin {Pending, None} /\ Asked = PlayerCount - 1
        BY <2>2, <1>1, GoingOn DEF AllHaveRoles, RolesUpToAll, Answer, OfOne
      <3>2. \A p \in Players : p < Asked \/ p = Asked
        BY <3>1, RolesAssumption DEF Players
      <3> QED  BY <1>1, <3>1, <3>2 DEF KInv, FoundHave
    <2> QED  BY <2>1, <2>2
  <1>3. crashed' # "norole"
    BY DEF NotAllHaveRoles, AllHaveRoles, KInv, AllStart
  <1>4. Finished /\ UNCHANGED <<stage, slots, started, iwait, role, pc, sock, client, chosen>>
    BY DEF NotAllHaveRoles, AllHaveRoles, rest, connVars, clientVars
  <1> QED  BY <1>1, <1>2, <1>3, <1>4, DoneKeeps

LEMMA TakeStartKeeps == ASSUME IInv, KInv, TakeStart PROVE KInv'
  <1> USE DEF KInv
  <1>1. /\ UNCHANGED <<slots, iwait, starting, started, role, pc, sock, client, chosen>>
        /\ stage = "roles" /\ stage' = "moving" /\ starting # NoConn /\ gq' = <<>>
        /\ gwait.op = "idle" /\ AskSeats("start", aq, Players, Ask("StartGame"))
    BY DEF TakeStart, connVars, clientVars
  <1>2. \/ aq' = aq /\ gwait' = gwait /\ crashed' = "roles"
        \/ /\ aq' = Post(aq, {slots[p].conn : p \in Players}, Ask("StartGame"))
           /\ gwait' = [op |-> "start", of |-> Players, got |-> NoAnswers]
           /\ crashed' = crashed
    BY <1>1 DEF AskSeats
  <1>3. \A p : (HasRole(p)' <=> HasRole(p)) /\ (Back(p)' <=> Back(p)) /\ (Moved(p)' <=> Moved(p))
    BY <1>1 DEF HasRole, Back, Moved
  <1>4. ASSUME NEW c \in Conns, NEW i \in 1 .. Len(aq'[c])
        PROVE  \/ i \in 1 .. Len(aq[c]) /\ aq'[c][i] = aq[c][i]
               \/ aq'[c][i] = Ask("StartGame") /\ slots[Owner(c)].conn = c
    <2>1. CASE aq' = aq
      BY <2>1
    <2>2. CASE aq' = Post(aq, {slots[p].conn : p \in Players}, Ask("StartGame"))
      <3>1. aq[c] \in Seq(Messages)
        BY GoesOn DEF MailTyped
      <3>2. c \in {slots[p].conn : p \in Players} => slots[Owner(c)].conn = c
        BY DEF IInv, Owned
      <3> QED  BY <2>2, <3>1, <3>2 DEF Post
    <2> QED  BY <1>2, <2>1, <2>2
  <1>5. Ask("StartGame").msg = "StartGame" /\ ~ TellsRole(Ask("StartGame"))
    BY DEF Ask, ToActor, TellsRole
  <1>6. NoneYet' /\ HandsOver'
    BY <1>1 DEF NoneYet, HandsOver, Entered, Moved
  <1>7. SecondsSeats'
    BY <1>1, <1>3, <1>4, <1>5 DEF SecondsSeats, Entered
  <1>8. DropsComeLast' /\ \A p \in Players : Gone(p) => Gone(p)'
    BY <1>1, GoneWhenTaken DEF Ended
  <1>9. FirstsGone'
    BY <1>1, <1>3, <1>8 DEF FirstsGone
  <1>10. OwnSeat' /\ FoundHave'
    BY <1>1, <1>2 DEF OwnSeat, FoundHave
  <1>11. ToldHave'
    <2>1. \A c \in Conns : \A i \in 1 .. Len(aq'[c]) : TellsRole(aq'[c][i]) =>
            \E j \in 1 .. Len(aq[c]) : TellsRole(aq[c][j])
      BY <1>4, <1>5
    <2> QED  BY <1>1, <1>3, <2>1 DEF ToldHave
  <1>12. AllHave'
    BY <1>1, <1>3 DEF AllHave
  <1>13. Starting'
    BY <1>1, <1>3, <1>4 DEF Starting, InGame, Settled
  <1>14. AllStart'
    BY <1>1, <1>2 DEF AllStart, Running
  <1> QED  BY <1>6, <1>7, <1>8, <1>9, <1>10, <1>11, <1>12, <1>13, <1>14

LEMMA RunGameKeeps == ASSUME IInv, KInv, RunGame PROVE KInv'
  <1> USE DEF KInv
  <1>1. /\ UNCHANGED <<slots, gq, starting, started, iwait, actor, role, aq, pc, sock,
                       client, chosen, crashed>>
        /\ Running /\ stage = "moving" /\ stage' = "Game" /\ gwait' = ServerIdle
        /\ \A p \in gwait.of : slots[p].conn \in started
    BY DEF RunGame, actorVars, connVars, clientVars
  <1>2. \A p : (HasRole(p)' <=> HasRole(p)) /\ (Back(p)' <=> Back(p)) /\ (Gone(p)' <=> Gone(p))
    BY <1>1 DEF HasRole, Back, Gone
  <1>3. FirstsGone' /\ DropsComeLast' /\ NoneYet' /\ SecondsSeats' /\ HandsOver'
    BY <1>1, <1>2 DEF FirstsGone, DropsComeLast, NoneYet, SecondsSeats, HandsOver, Entered, Moved
  <1>4. OwnSeat' /\ FoundHave'
    BY <1>1 DEF OwnSeat, FoundHave, ServerIdle
  <1>5. ToldHave' /\ AllHave' /\ Starting'
    BY <1>1, <1>2 DEF ToldHave, AllHave, Starting, InGame, Settled
  <1>6. AllStart'
    BY <1>1 DEF AllStart, Running
  <1> QED  BY <1>3, <1>4, <1>5, <1>6

(* The end of a connection.  The seat is its own, so that nothing else of it    *)
(* is left in the mailbox.                                                 *)
LEMMA DroppingKeeps == ASSUME IInv, KInv, DropPeer PROVE KInv'
  <1>1. Running /\ stage = "roles" /\ gq # <<>> /\ Head(gq) = gq[1] /\ gq[1] \in Requests
        /\ MailTyped(aq) /\ AddsNothing(aq, aq)
    BY GoingOn DEF DropPeer
  <1>2. CASE Head(gq).from \in Seated
    <2> DEFINE P == {Owner(gq[1].from)}
    <2>1. SeatOf(gq[1].from) = Owner(gq[1].from) /\ Owner(gq[1].from) \in Players
          /\ slots[Owner(gq[1].from)].conn = gq[1].from /\ gq[1].from \in Conns
      BY <1>1, <1>2, SeatOfOwner DEF IInv, Requests
    <2>2. Ask("GetUsername") \in Messages /\ Ask("GetUsername").msg \in Questions
          /\ "drop" \in OfOne
      BY GoingOn DEF Questions, OfOne
    <2>3. AskSeats("drop", aq, P, Ask("GetUsername")) /\ UNCHANGED <<gq, iwait, rest>>
          /\ P \in SUBSET Players
      BY <1>1, <1>2, <2>1 DEF DropPeer
    <2> QED  BY <1>1, <2>1, <2>2, <2>3, AskKeeps
  <1>3. CASE Head(gq).from \notin Seated
    <2>1. Finished /\ UNCHANGED <<aq, crashed, iwait, rest>>
      BY <1>3 DEF DropPeer
    <2>2. (starting # NoConn => \A p \in Players : HasRole(p)) /\ crashed # "norole"
      BY DEF KInv, AllHave, AllStart
    <2> QED  BY <1>1, <2>1, <2>2, DoneKeeps DEF rest, connVars, clientVars
  <1> QED  BY <1>2, <1>3

LEMMA MarkOfflineKeeps == ASSUME IInv, KInv, MarkOffline PROVE KInv'
  <1> USE DEF KInv
  <1>1. Running /\ stage = "roles" /\ gq # <<>> /\ Head(gq) = gq[1] /\ gq[1] \in Requests
        /\ MailTyped(aq) /\ AddsNothing(aq, aq) /\ gwait.op = "drop" /\ gwait.of = {Asked}
        /\ Asked \in Players /\ gq[1].cmd = "DropPeer"
    BY GoingOn DEF MarkOffline, OfOne, Serves
  <1>1a. PICK a \in Players : a = Asked
    BY <1>1
  <1>2. a = Owner(gq[1].from) /\ slots[a].conn = gq[1].from /\ gq[1].from \in Conns
    BY <1>1a, <1>1 DEF OwnSeat, Requests
  <1>3. /\ UNCHANGED <<stage, starting, started, iwait, role, pc, sock, client, chosen, crashed>>
        /\ gq' = Tail(gq) /\ gwait' = ServerIdle
    BY DEF MarkOffline, connVars, clientVars, Finished
  <1>4. AddsNothing(aq, aq')
    <2>1. Ask("Chat") \in Messages /\ Ask("Chat").msg = "Chat" /\ ~ TellsRole(Ask("Chat"))
      BY GoingOn DEF TellsRole
    <2> QED  BY <1>1, <2>1, PostAdds DEF MarkOffline
  <1>5. /\ \A p \in Players : slots'[p].conn = slots[p].conn
        /\ \A p \in Players : p # a => slots'[p] = slots[p]
    BY <1>1a, <1>1 DEF MarkOffline, IInv, Typed, TypeOK
  <1>6. \A p : (HasRole(p)' <=> HasRole(p)) /\ (Back(p)' <=> Back(p)) /\ (Moved(p)' <=> Moved(p))
    BY <1>3 DEF HasRole, Back, Moved
  <1>7. DropsComeLast' /\ \A p \in Players : Gone(p) => Gone(p)'
    BY <1>1, <1>3, GoneWhenTaken DEF Ended
  <1>8. Gone(a)'
    <2>1. CASE gq[1].from = First1(a)
      <3>1. 1 \in 1 .. Len(gq)
            /\ \A i \in 1 .. Len(gq') : gq'[i] = gq[i + 1] /\ i + 1 \in 1 .. Len(gq) /\ i + 1 > 1
        BY <1>1, <1>3 DEF IInv, Typed
      <3>2. pc[First1(a)] = "ended"
            /\ \A j \in 1 .. Len(gq) : gq[j].from = First1(a) /\ j > 1 => gq[j].cmd # "SelectRole"
        BY <1>1, <2>1, <3>1 DEF DropsComeLast
      <3> QED  BY <1>3, <3>1, <3>2 DEF Gone
    <2>2. CASE gq[1].from[2] = 2
      <3>1. Back(a)
        BY <1>2, <2>2 DEF SecondsSeats, Entered, Back
      <3> QED  BY <1>1, <1>7, <3>1 DEF FirstsGone
    <2> QED  BY <1>2, <2>1, <2>2, ConnFacts DEF First1
  <1>9. FirstsGone'
    BY <1>5, <1>6, <1>7, <1>8 DEF FirstsGone
  <1>10. NoneYet'
    BY <1>3 DEF NoneYet
  <1>11. \A c \in Conns : Owner(c) \in Players /\ slots'[Owner(c)].conn = slots[Owner(c)].conn
    BY <1>5, ConnFacts
  <1>12. SecondsSeats'
    BY <1>3, <1>4, <1>6, <1>11 DEF SecondsSeats, Entered, AddsNothing
  <1>13. HandsOver'
    <2>1. iwait.op # "idle" => iwait.from \in Conns
      BY DEF IInv, ReturnsAgree, SecondsReturn
    <2> QED  BY <1>3, <1>6, <1>11, <2>1 DEF HandsOver, Entered
  <1>14. ToldHave'
    BY <1>3, <1>4, <1>6, ToldKept
  <1>15. OwnSeat' /\ FoundHave' /\ AllHave' /\ AllStart'
    BY <1>1, <1>3, <1>6 DEF OwnSeat, FoundHave, AllHave, AllStart, Running, ServerIdle
  <1>16. Starting'
    <2>1. ASSUME NEW c \in Conns, InGame(c) PROVE FALSE
      BY <1>1, <2>1 DEF Starting, Settled
    <2> QED  BY <1>1, <1>3, <1>4, <2>1 DEF Starting, InGame, AddsNothing
  <1> QED  BY <1>7, <1>9, <1>10, <1>12, <1>13, <1>14, <1>15, <1>16

-------------------------------------------------------------------------------
(* The return of a player.                                                 *)

LEMMA HandleFoundKeeps == ASSUME IInv, KInv, HandleFound PROVE KInv'
  <1> USE DEF KInv
  <1>1. Running /\ stage = "roles" /\ gq # <<>> /\ Head(gq) = gq[1]
        /\ gq[1].cmd = "GetPeerHandleByUsername" /\ 1 \in 1 .. Len(gq)
    BY GoingOn DEF HandleFound, OfOne, Serves, IInv, Typed
  <1>2. iwait.op = "handle"
    BY <1>1 DEF IInv, ReturnsAgree, OnlyRequest
  <1>3. /\ UNCHANGED <<stage, slots, starting, started, role, aq, pc, sock, client, chosen,
                       crashed>>
        /\ iwait' = [iwait EXCEPT !.old = slots[Asked].conn, !.got = "done"]
        /\ gq' = Tail(gq) /\ gwait' = ServerIdle
    BY DEF HandleFound, rest, connVars, clientVars, Finished
  <1>4. iwait'.op = "handle" /\ iwait'.from = iwait.from
    BY <1>2, <1>3, WaitTyped DEF IntroWaits
  <1>5. AddsNothing(aq, aq')
    BY <1>3 DEF AddsNothing
  <1>6. NoneYet' /\ SecondsSeats' /\ Starting'
        /\ \A p : (HasRole(p)' <=> HasRole(p)) /\ (Back(p)' <=> Back(p))
    BY <1>3, <1>5, InPlace
  <1>7. DropsComeLast' /\ \A p \in Players : Gone(p) => Gone(p)'
    BY <1>1, <1>3, GoneWhenTaken DEF Ended
  <1>8. FirstsGone' /\ ToldHave' /\ AllHave'
    BY <1>3, <1>6, <1>7 DEF FirstsGone, ToldHave, AllHave
  <1>9. HandsOver'
    BY <1>2, <1>3, <1>4 DEF HandsOver
  <1>10. OwnSeat' /\ FoundHave' /\ AllStart'
    BY <1>1, <1>3 DEF OwnSeat, FoundHave, AllStart, ServerIdle
  <1> QED  BY <1>6, <1>7, <1>8, <1>9, <1>10

LEMMA RejoinedKeeps == ASSUME IInv, KInv, Rejoined PROVE KInv'
  <1> USE DEF KInv
  <1> DEFINE new == iwait.from
             a   == Owner(iwait.from)
  <1>1. Running /\ stage = "roles" /\ gq # <<>> /\ Head(gq) = gq[1]
        /\ gq[1].cmd = "ReconnectPeer" /\ 1 \in 1 .. Len(gq) /\ Collected \in SUBSET RoleNames
        /\ MailTyped(aq)
    BY GoingOn DEF Rejoined, Serves, IInv, Typed
  <1>2. iwait.op = "reconnect" /\ iwait.got = "no" /\ gq[1].from = new /\ gq[1].old = iwait.old
    BY <1>1 DEF IInv, ReturnsAgree, OnlyRequest
  <1>3. new \in Conns /\ new[2] = 2 /\ a \in Players /\ iwait.old = slots[a].conn
    BY <1>2, ConnFacts DEF IInv, ReturnsAgree, SecondsReturn, OldInSeat
  <1>4. SeatOf(iwait.old) = a
    <2>1. iwait.old \in Seated
      BY <1>3 DEF Seated
    <2> QED  BY <1>3, <2>1, SeatOfOwner DEF IInv, Owned
  <1>5. /\ UNCHANGED <<stage, starting, started, role, pc, sock, client, chosen, crashed>>
        /\ slots' = [slots EXCEPT ![a] = [conn |-> new, online |-> TRUE]]
        /\ iwait' = [iwait EXCEPT !.got = "done"]
        /\ gq' = Tail(gq) /\ gwait' = ServerIdle
    BY <1>1, <1>2, <1>4 DEF Rejoined, connVars, clientVars, Finished
  <1>6. iwait'.op = "reconnect" /\ iwait'.got = "done" /\ iwait'.from = new
    BY <1>2, <1>5, WaitTyped DEF IntroWaits
  <1>7. AddsNothing(aq, aq')
    <2>1. /\ Available(Collected) \in Messages /\ ~ TellsRole(Available(Collected))
          /\ Available(Collected).msg = "AvailableRoles"
      BY <1>1, MessageTypes DEF Available, ToActor, TellsRole
    <2> QED  BY <1>1, <2>1, PostAdds DEF Rejoined
  <1>8. /\ slots' [a] = [conn |-> new, online |-> TRUE]
        /\ \A p \in Players : p # a => slots'[p] = slots[p]
    BY <1>3, <1>5 DEF IInv, Typed, TypeOK
  <1>9. Entered(new) /\ client[new] # "none"
    BY <1>2 DEF HandsOver, Entered
  <1> HIDE DEF new, a
  <1>10. /\ \A p : (HasRole(p)' <=> HasRole(p)) /\ (Back(p)' <=> Back(p)) /\ (Moved(p)' <=> Moved(p))
         /\ \A c : Entered(c)' <=> Entered(c)
    BY <1>5 DEF HasRole, Back, Moved, Entered
  <1>11. DropsComeLast' /\ \A p \in Players : Gone(p) => Gone(p)'
    BY <1>1, <1>5, GoneWhenTaken DEF Ended
  <1>12. FirstsGone'
    BY <1>8, <1>10, <1>11 DEF FirstsGone
  <1>13. NoneYet'
    BY <1>5 DEF NoneYet
  <1>14. SecondsSeats'
    <2>1. ASSUME NEW c \in Conns, c[2] = 2, slots'[Owner(c)].conn = c PROVE Entered(c)
      <3>1. CASE Owner(c) = a
        BY <1>8, <1>9, <2>1, <3>1
      <3>2. CASE Owner(c) # a
        BY <1>8, <2>1, <3>2, ConnFacts DEF SecondsSeats
      <3> QED  BY <3>1, <3>2
    <2> QED  BY <1>5, <1>7, <1>10, <2>1 DEF SecondsSeats, AddsNothing
  <1>15. HandsOver'
    BY <1>5, <1>6, <1>9, <1>10 DEF HandsOver
  <1>16. ToldHave'
    BY <1>5, <1>7, <1>10, ToldKept
  <1>17. OwnSeat' /\ FoundHave' /\ AllHave' /\ AllStart'
    BY <1>1, <1>5, <1>10 DEF OwnSeat, FoundHave, AllHave, AllStart, ServerIdle
  <1>18. Starting'
    <2>1. ASSUME NEW c \in Conns, InGame(c) PROVE FALSE
      BY <1>1, <2>1 DEF Starting, Settled
    <2> QED  BY <1>1, <1>5, <1>7, <2>1 DEF Starting, InGame, AddsNothing
  <1> QED  BY <1>11, <1>12, <1>13, <1>14, <1>15, <1>16, <1>17, <1>18

LEMMA ServerKeeps == ASSUME IInv, KInv, RolesServerNext PROVE KInv'
  BY AskingKeeps, SelectingKeeps, DecidingKeeps, TakeStartKeeps, RunGameKeeps, DroppingKeeps,
     MarkOfflineKeeps, HandleFoundKeeps, RejoinedKeeps DEF RolesServerNext

(* Who answers or not, the seats' first connections are those that came first.  *)
LEMMA FirstOrSecond ==
  ASSUME IInv, NEW c \in Conns, c[2] = 2, slots[Owner(c)].conn # c
  PROVE  slots[Owner(c)].conn = First1(Owner(c))
  <1>1. Owner(c) \in Players /\ slots[Owner(c)].conn \in Conns
        /\ Owner(slots[Owner(c)].conn) = Owner(c)
    BY ConnFacts DEF IInv, Typed, TypeOK, Owned
  <1> QED  BY <1>1, ConnFacts DEF First1

(* The steps that change nothing but places, mailboxes and what clients show.  *)
LEMMA OthersKeep ==
  ASSUME IInv, KInv, UNCHANGED <<stage, slots, gwait, starting, role>>,
         AddsNothing(aq, aq'),
         NEW r \in Requests, gq' = Append(gq, r) \/ gq' = gq,
         r.cmd = "SelectRole" => pc[r.from] # "ended",
         r.cmd = "DropPeer" => pc'[r.from] = "ended",
         \A c \in Conns : \/ pc'[c] = pc[c]
                          \/ pc[c] \notin {"ended", "none"} /\ pc'[c] \notin {"taken"}
                             /\ (pc'[c] \in OnTheWay => pc[c] \in OnTheWay \ {"taken"}),
         \A c \in Conns : client'[c] = "none" <=> client[c] = "none",
         \A c \in Conns : chosen'[c] # None => chosen[c] # None \/ HasRole(Owner(c)),
         \A c \in Conns : \A i \in 1 .. Len(sock'[c]) : TellsRole(sock'[c][i]) =>
           HasRole(Owner(c)) \/ \E j \in 1 .. Len(sock[c]) : sock[c][j] = sock'[c][i],
         started \subseteq started',
         \A c \in Conns : InGame(c)' => InGame(c) \/ Settled(c),
         crashed' = crashed \/ (crashed' # "norole" /\ ~ Running'),
         HandsOver'
  PROVE  KInv'
  <1> USE DEF KInv
  <1>1. /\ \A p : (HasRole(p)' <=> HasRole(p)) /\ (Back(p)' <=> Back(p)) /\ (Moved(p)' <=> Moved(p))
        /\ \A c \in Conns : Entered(c) => Entered(c)'
    BY DEF HasRole, Back, Moved, Entered
  <1>2. DropsComeLast' /\ \A p \in Players : Gone(p) => Gone(p)'
    <2>1. Ended
      BY DEF Ended
    <2> QED  BY <2>1, GoneWhenSent
  <1>3. FirstsGone' /\ NoneYet'
    BY <1>1, <1>2 DEF FirstsGone, NoneYet
  <1>4. SecondsSeats'
    BY <1>1 DEF SecondsSeats, AddsNothing
  <1>5. ToldHave'
    BY <1>1, ToldKept
  <1>6. gwait.op \in {"set", "drop"} => gq # <<>> /\ gq'[1] = gq[1]
    BY DEF IInv, HeadServed, Typed
  <1>7. OwnSeat' /\ FoundHave' /\ AllHave'
    BY <1>1, <1>6 DEF OwnSeat, FoundHave, AllHave
  <1>8. \A c \in Conns : Settled(c) => Settled(c)'
    BY <1>1 DEF Settled
  <1>9. Starting'
    BY <1>8 DEF Starting, AddsNothing
  <1>10. AllStart'
    BY DEF AllStart, Running
  <1> QED  BY <1>2, <1>3, <1>4, <1>5, <1>7, <1>9, <1>10

-------------------------------------------------------------------------------
(* Steps of peers and clients.                                             *)

NewOf(c, r) ==
  /\ r.from = c /\ gq' = Append(gq, r)
  /\ r.cmd = "SelectRole" => pc[c] # "ended"
  /\ r.cmd = "DropPeer" => pc'[c] = "ended"

LEMMA PeersKeep ==
  ASSUME IInv, KInv, UNCHANGED <<stage, slots, gwait, starting, role, iwait>>,
         NEW c \in Conns, AddsNothing(aq, aq'),
         gq' = gq \/ \E r \in Requests : NewOf(c, r),
         \A d \in Conns \ {c} : pc'[d] = pc[d],
         pc'[c] = pc[c] \/ (pc[c] \notin {"ended", "none"} /\ pc'[c] \notin OnTheWay),
         \A d \in Conns : client'[d] = "none" <=> client[d] = "none",
         \A d \in Conns : chosen'[d] # None => chosen[d] # None \/ HasRole(Owner(d)),
         \A d \in Conns : \A i \in 1 .. Len(sock'[d]) : TellsRole(sock'[d][i]) =>
           HasRole(Owner(d)) \/ \E j \in 1 .. Len(sock[d]) : sock[d][j] = sock'[d][i],
         started \subseteq started' /\ started' \subseteq started \cup {c},
         InGame(c)' => InGame(c) \/ Settled(c),
         crashed' = crashed \/ (crashed' # "norole" /\ ~ Running')
  PROVE  KInv'
  <1>1. \A d \in Conns : \/ pc'[d] = pc[d]
                         \/ pc[d] \notin {"ended", "none"} /\ pc'[d] \notin {"taken"}
                            /\ (pc'[d] \in OnTheWay => pc[d] \in OnTheWay \ {"taken"})
    BY DEF OnTheWay
  <1>2. \A d \in Conns : InGame(d)' => InGame(d) \/ Settled(d)
    BY DEF InGame
  <1>3. HandsOver'
    <2>1. iwait.op # "idle" => iwait.from \in Conns
      BY DEF IInv, ReturnsAgree, SecondsReturn
    <2>2. \A d \in Conns : Entered(d) => Entered(d)'
      BY <1>1 DEF Entered, Moved
    <2> QED  BY <2>1, <2>2 DEF KInv, HandsOver
  <1>4. CASE gq' = gq
    <2>1. Command("StartGame", c) \in Requests /\ Command("StartGame", c).cmd = "StartGame"
      BY DEF Command, Request, Requests, MaybeRole, Maybe
    <2> QED  BY <1>1, <1>2, <1>3, <1>4, <2>1, OthersKeep
  <1>5. ASSUME NEW r \in Requests, NewOf(c, r) PROVE KInv'
    BY <1>1, <1>2, <1>3, <1>5, OthersKeep DEF NewOf
  <1> QED  BY <1>4, <1>5

LEMMA PlaceFacts ==
  ASSUME IInv, NEW c \in Conns, NEW place, Goto(c, place)
  PROVE  pc'[c] = place /\ \A d \in Conns \ {c} : pc'[d] = pc[d]
  BY PeersAreTyped DEF PeersTyped, Goto

LEMMA SpawnActorKeeps == ASSUME IInv, KInv, NEW c \in Conns, SpawnActor(c) PROVE KInv'
  <1>1. UNCHANGED <<stage, slots, gq, gwait, starting, started, iwait, role, aq, sock,
                    client, crashed>>
    BY DEF SpawnActor, serverVars
  <1>2. pc[c] = "boot" /\ pc'[c] = "roles" /\ \A d \in Conns \ {c} : pc'[d] = pc[d]
    BY PlaceFacts DEF SpawnActor
  <1>3. \A d \in Conns : chosen'[d] # None => chosen[d] # None \/ HasRole(Owner(d))
    <2>1. \A d \in Conns : chosen'[d] = chosen[d] \/ (d = c /\ chosen'[d] = role[c])
      BY PeersAreTyped DEF PeersTyped, SpawnActor
    <2> QED  BY <2>1 DEF HasRole
  <1>4. AddsNothing(aq, aq') /\ (InGame(c)' => InGame(c))
    BY <1>1, <1>2 DEF AddsNothing, InGame
  <1> QED  BY <1>1, <1>2, <1>3, <1>4, PeersKeep DEF OnTheWay

LEMMA StartFailsKeeps == ASSUME IInv, KInv, NEW c \in Conns, StartFails(c) PROVE KInv'
  <1>1. UNCHANGED <<stage, slots, gq, gwait, starting, started, iwait, role, sock,
                    client, chosen>>
    BY DEF StartFails, serverVars, clientVars
  <1>2. pc[c] = "boot" /\ pc'[c] = "ended" /\ \A d \in Conns \ {c} : pc'[d] = pc[d]
    BY PlaceFacts DEF StartFails
  <1>3. AddsNothing(aq, aq')
    BY DieFacts, FewerAdds DEF StartFails
  <1>4. crashed' = crashed \/ (crashed' # "norole" /\ ~ Running')
    BY DEF StartFails, Die, LossOfMailbox, Running
  <1>5. InGame(c)' => InGame(c)
    BY <1>1, <1>2 DEF InGame
  <1> QED  BY <1>1, <1>2, <1>3, <1>4, <1>5, PeersKeep DEF OnTheWay

LEMMA ForwardKeeps == ASSUME IInv, KInv, NEW c \in Conns, Forward(c) PROVE KInv'
  <1>1. UNCHANGED <<stage, slots, gq, gwait, starting, started, iwait, role, aq, pc, client,
                    crashed>>
    BY DEF Forward, serverVars, actorVars
  <1>2. PeersTyped /\ sock[c] \in Seq(Messages) /\ sock[c] # <<>> /\ Head(sock[c]) = sock[c][1]
        /\ 1 \in 1 .. Len(sock[c])
    BY PeersAreTyped DEF PeersTyped, Forward
  <1>3. \A d \in Conns : chosen'[d] # None => chosen[d] # None \/ HasRole(Owner(d))
    <2>1. \A d \in Conns : chosen'[d] = chosen[d] \/ (d = c /\ TellsRole(sock[c][1]))
      BY <1>2 DEF PeersTyped, Forward, TellsRole
    <2> QED  BY <1>2, <2>1 DEF KInv, ToldHave
  <1>4. \A d \in Conns : \A i \in 1 .. Len(sock'[d]) :
          \E j \in 1 .. Len(sock[d]) : sock[d][j] = sock'[d][i]
    <2>1. ASSUME NEW i \in 1 .. Len(sock'[c])
          PROVE  \E j \in 1 .. Len(sock[c]) : sock[c][j] = sock'[c][i]
      <3>1. sock'[c] = Tail(sock[c])
        BY <1>2 DEF PeersTyped, Forward
      <3>2. i + 1 \in 1 .. Len(sock[c]) /\ sock'[c][i] = sock[c][i + 1]
        BY <1>2, <3>1
      <3> QED  BY <3>2
    <2>2. \A d \in Conns \ {c} : sock'[d] = sock[d]
      BY <1>2 DEF PeersTyped, Forward
    <2> QED  BY <2>1, <2>2
  <1>5. AddsNothing(aq, aq') /\ (InGame(c)' => InGame(c))
    BY <1>1 DEF AddsNothing, InGame
  <1> QED  BY <1>1, <1>3, <1>4, <1>5, PeersKeep

LEMMA ReadKeeps == ASSUME IInv, KInv, NEW c \in Conns, Read(c) PROVE KInv'
  <1>1. UNCHANGED <<stage, slots, gwait, starting, started, iwait, role, aq, pc, sock, client,
                    chosen, crashed>> /\ pc[c] = "roles"
    BY DEF Read, actorVars, connVars
  <1>2. Head(cin[c]) \in RoleNames \cup {"StartGame"}
    BY PeersAreTyped, ChannelTyped DEF PeersTyped, Read
  <1>3. gq' = gq \/ \E r \in Requests : NewOf(c, r)
    <2>1. /\ Command("StartGame", c) \in Requests
          /\ Command("StartGame", c).from = c /\ Command("StartGame", c).cmd = "StartGame"
      BY DEF Command, Request, Requests, MaybeRole, Maybe
    <2>2. ASSUME NEW x \in RoleNames
          PROVE  /\ Request("SelectRole", c, x, NoConn) \in Requests
                 /\ Request("SelectRole", c, x, NoConn).from = c
                 /\ Request("SelectRole", c, x, NoConn).cmd = "SelectRole"
      BY DEF Request, Requests, MaybeRole, Maybe
    <2>3. \/ gq' = gq \/ gq' = Append(gq, Command("StartGame", c))
          \/ \E x \in RoleNames : gq' = Append(gq, Request("SelectRole", c, x, NoConn))
      BY <1>2 DEF Read, ToServer
    <2> QED  BY <1>1, <2>1, <2>2, <2>3 DEF NewOf
  <1>4. AddsNothing(aq, aq') /\ (InGame(c)' => InGame(c))
    BY <1>1 DEF AddsNothing, InGame
  <1> QED  BY <1>1, <1>3, <1>4, PeersKeep

LEMMA EndKeeps == ASSUME IInv, KInv, NEW c \in Conns, End(c) PROVE KInv'
  <1>1. UNCHANGED <<stage, slots, gwait, starting, started, iwait, role, aq, chosen, crashed>>
        /\ client' = [client EXCEPT ![c] = "off"] /\ sock' = [sock EXCEPT ![c] = <<>>]
        /\ pc[c] \in {"entering", "w_handle", "roles", "game"}
    BY DEF End, actorVars
  <1>2. pc'[c] = "ended" /\ \A d \in Conns \ {c} : pc'[d] = pc[d]
    BY PlaceFacts DEF End
  <1>3. \A d \in Conns : client'[d] = "none" <=> client[d] = "none"
    <2>1. client[c] # "none"
      BY <1>1 DEF IInv, ReturnsAgree, SecondsReturn
    <2> QED  BY <1>1, <2>1, PeersAreTyped DEF PeersTyped
  <1>4. gq' = gq \/ \E r \in Requests : NewOf(c, r)
    <2>1. /\ Command("DropPeer", c) \in Requests
          /\ Command("DropPeer", c).from = c /\ Command("DropPeer", c).cmd = "DropPeer"
      BY DEF Command, Request, Requests, MaybeRole, Maybe
    <2>2. gq' = gq \/ gq' = Append(gq, Command("DropPeer", c))
      BY DEF End, ToServer
    <2> QED  BY <1>2, <2>1, <2>2 DEF NewOf
  <1>5. AddsNothing(aq, aq') /\ (InGame(c)' => InGame(c))
    BY <1>1, <1>2 DEF AddsNothing, InGame
  <1>6. \A d \in Conns : sock'[d] = sock[d] \/ sock'[d] = <<>>
    BY <1>1, PeersAreTyped DEF PeersTyped
  <1>7. \A d \in Conns : \A i \in 1 .. Len(sock'[d]) :
          \E j \in 1 .. Len(sock[d]) : sock[d][j] = sock'[d][i]
    BY <1>6
  <1> QED  BY <1>1, <1>2, <1>3, <1>4, <1>5, <1>7, PeersKeep DEF OnTheWay

(* Who begins the game has the role itself: Peer<Game>::from does not panic. *)
LEMMA OpenGameKeeps == ASSUME IInv, KInv, NEW c \in Conns, OpenGame(c) PROVE KInv'
  <1>1. UNCHANGED <<stage, slots, gq, gwait, starting, iwait, role, aq, sock, client, chosen>>
        /\ pc[c] = "toGame"
    BY DEF OpenGame, actorVars, clientVars
  <1>2. pc'[c] = "startGame" /\ \A d \in Conns \ {c} : pc'[d] = pc[d]
    BY PlaceFacts DEF OpenGame
  <1>3. InGame(c)
    BY <1>1 DEF InGame
  <1>4. role[c] # None
    BY <1>3 DEF KInv, Starting, Settled
  <1>5. started' = started \cup {c} /\ crashed' = crashed
    BY <1>4 DEF OpenGame
  <1>6. AddsNothing(aq, aq')
    BY <1>1 DEF AddsNothing
  <1> QED  BY <1>1, <1>2, <1>3, <1>5, <1>6, PeersKeep DEF OnTheWay

LEMMA EnterTheGameKeeps == ASSUME IInv, KInv, NEW c \in Conns, EnterTheGame(c) PROVE KInv'
  <1>1. UNCHANGED <<stage, slots, gq, gwait, starting, started, iwait, role, aq, sock, client,
                    chosen, crashed>> /\ pc[c] = "startGame"
    BY DEF EnterTheGame, serverVars, actorVars, clientVars
  <1>2. pc'[c] = "game" /\ \A d \in Conns \ {c} : pc'[d] = pc[d]
    BY PlaceFacts DEF EnterTheGame
  <1>3. InGame(c) /\ AddsNothing(aq, aq')
    BY <1>1 DEF InGame, AddsNothing
  <1> QED  BY <1>1, <1>2, <1>3, PeersKeep DEF OnTheWay

LEMMA SendTcpKeeps == ASSUME IInv, KInv, NEW c \in Conns, SendTcp(c) PROVE KInv'
  <1>1. UNCHANGED <<stage, slots, gq, gwait, starting, started, iwait, role, pc, client, chosen>>
    BY DEF SendTcp, serverVars, clientVars
  <1>2. PeersTyped /\ aq[c] \in Seq(Messages) /\ aq[c] # <<>> /\ Head(aq[c]) = aq[c][1]
        /\ 1 \in 1 .. Len(aq[c]) /\ sock[c] \in Seq(Messages)
    BY PeersAreTyped DEF PeersTyped, SendTcp, Handles
  <1>3. AddsNothing(aq, aq')
    <2>1. Fewer(aq, aq')
      BY DieFacts, TakenFromMailbox DEF SendTcp, Handles
    <2> QED  BY <2>1, FewerAdds
  <1>4. crashed' = crashed \/ (crashed' # "norole" /\ ~ Running')
    BY DEF SendTcp, Die, LossOfMailbox, Running
  <1>5. \A d \in Conns : \A i \in 1 .. Len(sock'[d]) : TellsRole(sock'[d][i]) =>
          HasRole(Owner(d)) \/ \E j \in 1 .. Len(sock[d]) : sock[d][j] = sock'[d][i]
    <2>1. sock' = sock \/ sock' = [sock EXCEPT ![c] = Append(@, aq[c][1])]
      BY <1>2 DEF SendTcp
    <2>2. \A d \in Conns : sock'[d] = sock[d] \/ (d = c /\ sock'[d] = Append(sock[c], aq[c][1]))
      BY <1>2, <2>1 DEF PeersTyped
    <2>3. TellsRole(aq[c][1]) => HasRole(Owner(c))
      BY <1>2 DEF KInv, ToldHave
    <2>4. \A i \in 1 .. Len(Append(sock[c], aq[c][1])) :
            \/ Append(sock[c], aq[c][1])[i] = aq[c][1]
            \/ i \in 1 .. Len(sock[c]) /\ Append(sock[c], aq[c][1])[i] = sock[c][i]
      <3>1. aq[c][1] \in Messages /\ sock[c] \in Seq(Messages)
        BY <1>2
      <3> QED  BY <3>1
    <2> QED  BY <2>2, <2>3, <2>4
  <1>6. InGame(c)' => InGame(c)
    BY <1>1 DEF InGame
  <1> QED  BY <1>1, <1>3, <1>4, <1>5, <1>6, PeersKeep

LEMMA EndWithoutHandlesKeeps ==
  ASSUME IInv, KInv, NEW c \in Conns, EndWithoutHandles(c) PROVE KInv'
  <1>1. UNCHANGED <<stage, slots, gq, gwait, starting, started, iwait, role, aq, pc, sock,
                    client, chosen, crashed>>
    BY DEF EndWithoutHandles, serverVars, connVars, clientVars
  <1>2. AddsNothing(aq, aq') /\ (InGame(c)' => InGame(c))
    BY <1>1 DEF InGame, AddsNothing
  <1> QED  BY <1>1, <1>2, PeersKeep

(* Who is asked to start is in its seat, and everyone has a role: it is its own.  *)
LEMMA OwnRole ==
  ASSUME IInv, KInv, NEW c \in Conns, stage # "roles", slots[Owner(c)].conn = c,
         pc[c] = "roles"
  PROVE  Settled(c)
  <1>1. Owner(c) \in Players /\ c[2] \in {1, 2} /\ c = <<Owner(c), c[2]>>
        /\ client[c] # "none"
    BY ConnFacts DEF IInv, ReturnsAgree, SecondsReturn
  <1>2. c[2] = 1 => ~ Back(Owner(c)) /\ slots[Owner(c)].online
    <2>1. c[2] = 1 => First1(Owner(c)) = c
      BY <1>1 DEF First1
    <2> QED  BY <1>1, <2>1 DEF KInv, FirstsGone, Gone
  <1>3. PICK d \in Conns : Owner(d) = Owner(c) /\ role[d] # None
    BY <1>1 DEF KInv, AllHave, HasRole
  <1>4. d[2] \in {1, 2} /\ d = <<Owner(c), d[2]>>
    BY <1>3, ConnFacts
  <1>5. d = c
    <2>1. CASE c[2] = 2
      <3>1. role[First1(Owner(c))] = None
        BY <2>1 DEF KInv, SecondsSeats, Entered, Moved
      <3> QED  BY <1>1, <1>3, <1>4, <2>1, <3>1 DEF First1
    <2>2. CASE c[2] = 1
      <3>1. client[d] # "none"
        BY <1>3 DEF KInv, NoneYet
      <3>2. d[2] # 2
        BY <1>2, <1>3, <2>2, <3>1 DEF Back
      <3> QED  BY <1>1, <1>4, <2>2, <3>2
    <2> QED  BY <1>1, <2>1, <2>2
  <1> QED  BY <1>1, <1>2, <1>3, <1>5 DEF Settled, OnTheWay

LEMMA BeginGameKeeps == ASSUME IInv, KInv, NEW c \in Conns, BeginGame(c) PROVE KInv'
  <1>1. UNCHANGED <<stage, slots, gq, gwait, starting, started, iwait, role, client, chosen>>
        /\ sock' = [sock EXCEPT ![c] = <<>>]
    BY DEF BeginGame, serverVars, clientVars
  <1>2. PeersTyped /\ aq[c] \in Seq(Messages) /\ aq[c] # <<>> /\ Head(aq[c]) = aq[c][1]
        /\ 1 \in 1 .. Len(aq[c]) /\ aq[c][1].msg = "StartGame"
    BY PeersAreTyped DEF PeersTyped, BeginGame, Handles
  <1>3. AddsNothing(aq, aq')
    BY TakenFromMailbox, FewerAdds DEF BeginGame, Handles
  <1>4. stage # "roles" /\ slots[Owner(c)].conn = c
    BY <1>2 DEF KInv, Starting
  <1>5. \A d \in Conns : \A i \in 1 .. Len(sock'[d]) :
          \E j \in 1 .. Len(sock[d]) : sock[d][j] = sock'[d][i]
    <2>1. \A d \in Conns : sock'[d] = sock[d] \/ sock'[d] = <<>>
      BY <1>1, <1>2 DEF PeersTyped
    <2> QED  BY <2>1
  <1>6. CASE pc[c] = "roles"
    <2>1. pc'[c] = "toGame" /\ \A d \in Conns \ {c} : pc'[d] = pc[d]
      BY <1>6, PlaceFacts DEF BeginGame
    <2>2. Settled(c) /\ crashed' = crashed
      BY <1>4, <1>6, OwnRole DEF BeginGame
    <2> QED  BY <1>1, <1>3, <1>5, <1>6, <2>1, <2>2, PeersKeep DEF OnTheWay
  <1>7. CASE pc[c] # "roles"
    <2>1. pc' = pc /\ crashed' = "roles" /\ (InGame(c)' => InGame(c))
      BY <1>1, <1>7 DEF BeginGame, InGame
    <2> QED  BY <1>1, <1>3, <1>5, <2>1, PeersKeep DEF Running
  <1> QED  BY <1>6, <1>7

LEMMA InputKeeps ==
  ASSUME IInv, KInv, NEW c \in Conns,
         (\E r \in RoleNames : Confirm(c, r)) \/ PressStart(c) \/ Quit(c)
  PROVE  KInv'
  <1>1. UNCHANGED <<stage, slots, gq, gwait, starting, started, iwait, role, aq, pc, sock,
                    chosen, crashed>>
        /\ (client' = client \/ (client[c] = "on" /\ client' = [client EXCEPT ![c] = "off"]))
    BY DEF Confirm, PressStart, Quit, serverVars, actorVars, connVars
  <1>2. \A d \in Conns : client'[d] = "none" <=> client[d] = "none"
    BY <1>1, PeersAreTyped DEF PeersTyped
  <1>3. AddsNothing(aq, aq') /\ (InGame(c)' => InGame(c))
    BY <1>1 DEF InGame, AddsNothing
  <1> QED  BY <1>1, <1>2, <1>3, PeersKeep

(* Only a player whose seat is offline comes back. *)
LEMMA ReturnKeeps == ASSUME IInv, KInv, NEW c \in Conns, Return(c) PROVE KInv'
  <1> USE DEF KInv
  <1>1. UNCHANGED <<stage, slots, gq, gwait, starting, started, iwait, role, aq, sock, chosen,
                    crashed>>
        /\ client' = [client EXCEPT ![c] = "on"] /\ client[c] = "none"
        /\ c[2] = 2 /\ ~ slots[Owner(c)].online
    BY DEF Return, serverVars, actorVars
  <1>2. pc[c] = "none" /\ pc'[c] = "entering" /\ \A d \in Conns \ {c} : pc'[d] = pc[d]
    BY <1>1, PlaceFacts DEF Return, IInv, ReturnsAgree, SecondsReturn
  <1>3. client'[c] = "on" /\ \A d \in Conns \ {c} : client'[d] = client[d]
    BY <1>1, PeersAreTyped DEF PeersTyped
  <1>4. /\ \A p : (HasRole(p)' <=> HasRole(p)) /\ (Moved(p)' <=> Moved(p))
        /\ \A d \in Conns : Entered(d) => d # c /\ Entered(d)'
    BY <1>1, <1>2, <1>3 DEF HasRole, Moved, Entered
  <1>5. \A p : Back(p)' => Back(p) \/ p = Owner(c)
    BY <1>3 DEF Back
  <1>6. DropsComeLast' /\ \A p \in Players : Gone(p) => Gone(p)'
    <2>1. Ended
      BY <1>2 DEF Ended
    <2> QED  BY <1>1, <2>1, GoneWhenTaken
  <1>7. FirstsGone'
    BY <1>1, <1>5, <1>6 DEF FirstsGone
  <1>8. NoneYet'
    BY <1>1, <1>2, <1>3 DEF NoneYet
  <1>9. SecondsSeats'
    BY <1>1, <1>2, <1>4 DEF SecondsSeats
  <1>10. HandsOver'
    <2>1. iwait.op # "idle" => iwait.from \in Conns
      BY DEF IInv, ReturnsAgree, SecondsReturn
    <2>2. iwait.op # "idle" => client'[iwait.from] # "none"
      BY <1>1, <1>3, <2>1 DEF HandsOver
    <2>3. (iwait.op = "answer" /\ iwait.got = "done") \/ iwait.op = "reconnect" =>
            Entered(iwait.from)'
      BY <1>1, <1>4, <2>1 DEF HandsOver, Entered, Moved
    <2> QED  BY <1>1, <2>2, <2>3 DEF HandsOver
  <1>11. OwnSeat' /\ FoundHave' /\ AllHave' /\ ToldHave'
    BY <1>1, <1>4 DEF OwnSeat, FoundHave, AllHave, ToldHave, TellsRole
  <1>12. Starting'
    <2>1. ASSUME NEW d \in Conns, InGame(d)' PROVE Settled(d)'
      <3>1. Settled(d)
        BY <1>1, <1>2, <2>1 DEF Starting, InGame
      <3>2. d # c
        BY <1>1, <3>1 DEF Settled
      <3>3. d[2] = 1 => ~ Back(Owner(d))' /\ slots[Owner(d)].online
        BY <1>1, <1>5, <3>1 DEF Settled
      <3> QED  BY <1>1, <1>2, <1>3, <3>1, <3>2, <3>3 DEF Settled
    <2> QED  BY <1>1, <2>1 DEF Starting
  <1>13. AllStart'
    BY <1>1 DEF AllStart, Running
  <1> QED  BY <1>6, <1>7, <1>8, <1>9, <1>10, <1>11, <1>12, <1>13

-------------------------------------------------------------------------------
(* The peer moves.                                                         *)

LEMMA EnterGameKeeps == ASSUME IInv, KInv, NEW c \in Conns, EnterGame(c) PROVE KInv'
  <1> DEFINE r == Command("GetPeerHandleByUsername", c)
  <1>1. /\ UNCHANGED <<stage, slots, gwait, starting, started, role, aq, sock, client, chosen,
                       crashed>>
        /\ pc[c] = "entering" /\ iwait' = Serving("handle", c, NoConn)
        /\ (gq' = Append(gq, r) \/ gq' = gq)
    BY DEF EnterGame, introRest, actorVars, clientVars, ToServer
  <1>2. r \in Requests /\ r.cmd = "GetPeerHandleByUsername"
    BY DEF Command, Request, Requests, MaybeRole, Maybe
  <1> HIDE DEF r
  <1>3. pc'[c] = "w_handle" /\ \A d \in Conns \ {c} : pc'[d] = pc[d]
    BY PlaceFacts DEF EnterGame
  <1>4. iwait'.op = "handle" /\ iwait'.from = c
    BY <1>1 DEF Serving
  <1>5. c[2] = 2 /\ client[c] # "none"
    BY <1>1 DEF IInv, ReturnsAgree, SecondsReturn, OnTheWay
  <1>6. slots[Owner(c)].conn # c
    BY <1>1, <1>5 DEF KInv, SecondsSeats, Entered, OnTheWay
  <1>7. HandsOver'
    BY <1>1, <1>4, <1>5, <1>6, FirstOrSecond DEF HandsOver
  <1>8. AddsNothing(aq, aq') /\ \A d \in Conns : InGame(d)' => InGame(d)
    BY <1>1, <1>3 DEF InGame, AddsNothing
  <1> QED  BY <1>1, <1>2, <1>3, <1>7, <1>8, OthersKeep DEF OnTheWay

LEMMA HandOverKeeps == ASSUME IInv, KInv, HandOver PROVE KInv'
  <1> DEFINE c == iwait.from
  <1>1. /\ UNCHANGED <<stage, slots, gq, gwait, starting, started, role, aq, sock, client,
                       chosen>>
        /\ iwait.op = "handle" /\ iwait' = Serving("answer", c, iwait.old)
    BY DEF HandOver, introRest, actorVars, clientVars
  <1>2. c \in Conns
    BY <1>1 DEF IInv, ReturnsAgree, SecondsReturn
  <1>3. iwait'.op = "answer" /\ iwait'.from = c /\ iwait'.got = "no"
    BY <1>1 DEF Serving
  <1>4. HandsOver'
    BY <1>1, <1>3 DEF KInv, HandsOver
  <1>5. \/ pc[c] = "w_handle" /\ Goto(c, "take") /\ crashed' = crashed
        \/ pc' = pc /\ crashed' = "intro"
    BY DEF HandOver
  <1> HIDE DEF c
  <1>6. \A d \in Conns : \/ pc'[d] = pc[d]
                         \/ pc[d] = "w_handle" /\ pc'[d] = "take"
    BY <1>2, <1>5, PlaceFacts
  <1>7. AddsNothing(aq, aq') /\ \A d \in Conns : InGame(d)' => InGame(d)
    BY <1>1, <1>6 DEF InGame, AddsNothing
  <1>8. crashed' = crashed \/ (crashed' # "norole" /\ ~ Running')
    BY <1>5 DEF Running
  <1>9. Command("StartGame", First1(0)) \in Requests
        /\ Command("StartGame", First1(0)).cmd = "StartGame"
    BY ConnFacts DEF Command, Request, Requests, MaybeRole, Maybe
  <1> QED  BY <1>1, <1>4, <1>6, <1>7, <1>8, <1>9, OthersKeep DEF OnTheWay

LEMMA ReplaceSeatKeeps == ASSUME IInv, KInv, ReplaceSeat PROVE KInv'
  <1> DEFINE r == Request("ReconnectPeer", iwait.from, None, iwait.old)
  <1>1. /\ UNCHANGED <<stage, slots, gwait, starting, started, role, aq, pc, sock, client,
                       chosen, crashed>>
        /\ iwait.op = "answer" /\ iwait.got = "done"
        /\ iwait' = Serving("reconnect", iwait.from, iwait.old)
        /\ (gq' = Append(gq, r) \/ gq' = gq)
    BY DEF ReplaceSeat, introRest, actorVars, clientVars, ToServer
  <1>2. r \in Requests /\ r.cmd = "ReconnectPeer"
    <2>1. iwait.from \in Conns /\ iwait.old \in Maybe
      BY <1>1, WaitTyped DEF IInv, ReturnsAgree, SecondsReturn, IntroWaits
    <2> QED  BY <2>1 DEF Request, Requests, MaybeRole
  <1> HIDE DEF r
  <1>3. iwait'.op = "reconnect" /\ iwait'.from = iwait.from
    BY <1>1 DEF Serving
  <1>4. HandsOver'
    BY <1>1, <1>3 DEF KInv, HandsOver, Entered, Moved
  <1>5. AddsNothing(aq, aq') /\ \A d \in Conns : InGame(d)' => InGame(d)
    BY <1>1 DEF InGame, AddsNothing
  <1> QED  BY <1>1, <1>2, <1>4, <1>5, OthersKeep

LEMMA EndReconnectionKeeps == ASSUME IInv, KInv, EndReconnection PROVE KInv'
  <1>1. /\ UNCHANGED <<stage, slots, gq, gwait, starting, started, role, aq, pc, sock, client,
                       chosen, crashed>>
        /\ iwait'.op = "idle"
    BY DEF EndReconnection, introRest, actorVars, clientVars, IntroIdle
  <1>2. HandsOver'
    BY <1>1 DEF HandsOver
  <1>3. AddsNothing(aq, aq') /\ \A d \in Conns : InGame(d)' => InGame(d)
    BY <1>1 DEF InGame, AddsNothing
  <1>4. Command("StartGame", First1(0)) \in Requests
        /\ Command("StartGame", First1(0)).cmd = "StartGame"
    BY ConnFacts DEF Command, Request, Requests, MaybeRole, Maybe
  <1> QED  BY <1>1, <1>2, <1>3, <1>4, OthersKeep

LEMMA OpenMailboxKeeps == ASSUME IInv, KInv, NEW c \in Conns, OpenMailbox(c) PROVE KInv'
  <1>1. /\ UNCHANGED <<stage, slots, gq, gwait, starting, started, role, aq, sock, client,
                       chosen, crashed>>
        /\ pc[c] = "taken" /\ iwait' = [iwait EXCEPT !.got = "done"]
    BY DEF OpenMailbox, serverVars, clientVars
  <1>2. pc'[c] = "boot" /\ \A d \in Conns \ {c} : pc'[d] = pc[d]
    BY PlaceFacts DEF OpenMailbox
  <1>3. iwait.op = "answer" /\ iwait.from = c
    BY <1>1 DEF IInv, ReturnsAgree, OnlyTakeOver
  <1>4. iwait'.op = "answer" /\ iwait'.from = c
    BY <1>1, <1>3, WaitTyped DEF IntroWaits
  <1>5. client[c] # "none" /\ Moved(Owner(c))
    BY <1>1, <1>3 DEF KInv, HandsOver, SecondsSeats
  <1>6. HandsOver'
    BY <1>1, <1>2, <1>3, <1>4, <1>5 DEF KInv, HandsOver, Entered, Moved, OnTheWay
  <1>7. AddsNothing(aq, aq') /\ \A d \in Conns : InGame(d)' => InGame(d)
    BY <1>1, <1>2 DEF InGame, AddsNothing
  <1>8. Command("StartGame", First1(0)) \in Requests
        /\ Command("StartGame", First1(0)).cmd = "StartGame"
    BY ConnFacts DEF Command, Request, Requests, MaybeRole, Maybe
  <1> QED  BY <1>1, <1>2, <1>6, <1>7, <1>8, OthersKeep DEF OnTheWay

LEMMA TakeOverKeeps == ASSUME IInv, KInv, NEW c \in Conns, TakeOver(c) PROVE KInv'
  <1> USE DEF KInv
  <1> DEFINE m == ToActor("TakePeer", {}, c)
             old == iwait.old
  <1>1. /\ UNCHANGED <<stage, slots, gq, gwait, starting, started, iwait, role, sock, client,
                       chosen>>
        /\ pc[c] = "take"
    BY DEF TakeOver, serverVars, clientVars
  <1>2. iwait.op = "answer" /\ iwait.from = c /\ iwait.got = "no" /\ old = First1(Owner(c))
        /\ old \in Conns
    <2>1. iwait.op = "answer" /\ iwait.from = c /\ iwait.got = "no"
      BY <1>1 DEF IInv, ReturnsAgree, OnlyTakeOver
    <2> QED  BY <2>1, ConnFacts DEF IInv, ReturnsAgree, OldInSeat, HandsOver
  <1>3. m.msg = "TakePeer" /\ m.conn = c /\ ~ TellsRole(m) /\ m \in Messages
    BY DEF ToActor, TellsRole, Messages, Maybe
  <1>4. \/ /\ aq' = [aq EXCEPT ![old] = Append(@, m)] /\ Goto(c, "w_take")
           /\ crashed' = crashed
        \/ aq' = aq /\ pc' = pc /\ crashed' = "intro"
    BY DEF TakeOver
  <1> HIDE DEF m, old
  <1>5. \A d \in Conns : pc'[d] = pc[d] \/ (d = c /\ pc'[d] = "w_take")
    BY <1>4, PlaceFacts
  <1>6. ASSUME NEW d \in Conns, NEW i \in 1 .. Len(aq'[d])
        PROVE  (i \in 1 .. Len(aq[d]) /\ aq'[d][i] = aq[d][i]) \/ (d = old /\ aq'[d][i] = m)
    <2>1. aq \in [Conns -> Seq(Messages)] /\ aq[d] \in Seq(Messages)
      BY PeersAreTyped DEF PeersTyped
    <2>2. aq'[d] = aq[d] \/ (d = old /\ aq'[d] = Append(aq[d], m))
      BY <1>4, <2>1
    <2> QED  BY <1>3, <2>1, <2>2
  <1>7. /\ \A p : (HasRole(p)' <=> HasRole(p)) /\ (Back(p)' <=> Back(p)) /\ (Moved(p)' <=> Moved(p))
        /\ \A d \in Conns : (Entered(d) => Entered(d)') /\ (InGame(d)' => InGame(d))
        /\ \A d \in Conns : Settled(d) => Settled(d)'
    BY <1>1, <1>5 DEF HasRole, Back, Moved, Entered, InGame, Settled, OnTheWay
  <1>8. DropsComeLast' /\ \A p \in Players : Gone(p) => Gone(p)'
    <2>1. Ended
      BY <1>1, <1>5 DEF Ended
    <2> QED  BY <1>1, <2>1, GoneWhenTaken
  <1>9. FirstsGone'
    BY <1>1, <1>7, <1>8 DEF FirstsGone
  <1>10. NoneYet'
    BY <1>1, <1>5 DEF NoneYet, OnTheWay
  <1>11. SecondsSeats'
    <2>1. ASSUME NEW d \in Conns, NEW i \in 1 .. Len(aq'[d]), aq'[d][i].msg = "TakePeer"
          PROVE  d = First1(Owner(aq'[d][i].conn))
      BY <1>2, <1>3, <1>6, <2>1 DEF SecondsSeats
    <2>2. \A d \in Conns : pc'[d] = "taken" => Moved(Owner(d))'
      BY <1>5, <1>7 DEF SecondsSeats
    <2>3. \A d \in Conns : d[2] = 2 /\ slots'[Owner(d)].conn = d => Entered(d)'
      BY <1>1, <1>7 DEF SecondsSeats
    <2> QED  BY <2>1, <2>2, <2>3 DEF SecondsSeats
  <1>12. HandsOver'
    BY <1>1, <1>2 DEF HandsOver
  <1>13. OwnSeat' /\ FoundHave' /\ AllHave'
    BY <1>1, <1>7 DEF OwnSeat, FoundHave, AllHave
  <1>14. ToldHave'
    <2>1. ASSUME NEW d \in Conns, NEW i \in 1 .. Len(aq'[d]), TellsRole(aq'[d][i])
          PROVE  HasRole(Owner(d))
      BY <1>3, <1>6, <2>1 DEF ToldHave
    <2> QED  BY <1>1, <1>7, <2>1 DEF ToldHave, TellsRole
  <1>15. Starting'
    <2>1. ASSUME NEW d \in Conns, NEW i \in 1 .. Len(aq'[d]), aq'[d][i].msg = "StartGame"
          PROVE  stage # "roles" /\ slots[Owner(d)].conn = d
      BY <1>3, <1>6, <2>1 DEF Starting
    <2> QED  BY <1>1, <1>7, <2>1 DEF Starting
  <1>16. AllStart'
    BY <1>1, <1>4 DEF AllStart, Running
  <1> QED  BY <1>8, <1>9, <1>10, <1>11, <1>12, <1>13, <1>14, <1>15, <1>16

(* The role moves with the peer: the player has it as before, and no one is in  *)
(* the game while its peer is on the way.                                  *)
LEMMA AnswerTakePeerKeeps ==
  ASSUME IInv, KInv, NEW c \in Conns, AnswerTakePeer(c) PROVE KInv'
  <1> USE DEF KInv
  <1> DEFINE new == Head(aq[c]).conn
  <1>1. /\ UNCHANGED <<stage, slots, gq, gwait, starting, started, iwait, sock, client, chosen,
                       crashed>>
        /\ aq[c] # <<>> /\ Head(aq[c]).msg = "TakePeer"
        /\ role' = [role EXCEPT ![new] = role[c], ![c] = None]
        /\ Goto(new, "taken")
    BY DEF AnswerTakePeer, Handles, MovesTo, serverVars, clientVars
  <1>2. PeersTyped /\ aq[c] \in Seq(Messages) /\ 1 \in 1 .. Len(aq[c])
        /\ aq[c][1].msg = "TakePeer" /\ new = aq[c][1].conn
    BY <1>1, PeersAreTyped DEF PeersTyped
  <1>3. new \in Conns /\ pc[new] = "w_take" /\ c = First1(Owner(new))
    BY <1>2 DEF IInv, ReturnsAgree, OnlyTakeOver, SecondsSeats
  <1>4. new[2] = 2 /\ iwait.op = "answer" /\ iwait.from = new /\ iwait.got = "no"
    BY <1>3 DEF IInv, ReturnsAgree, SecondsReturn, OnlyTakeOver, OnTheWay
  <1>5. AddsNothing(aq, aq')
    BY TakenFromMailbox, FewerAdds DEF AnswerTakePeer, Handles
  <1> HIDE DEF new
  <1>6. Owner(new) \in Players /\ Owner(c) = Owner(new) /\ c[2] = 1
        /\ client[new] # "none" /\ role[new] = None
    BY <1>3, <1>4, ConnFacts DEF First1, HandsOver, NoneYet, OnTheWay
  <1>7. pc'[new] = "taken" /\ \A d \in Conns \ {new} : pc'[d] = pc[d]
    BY <1>1, <1>3, PlaceFacts
  <1>8. /\ role'[new] = role[c] /\ role'[c] = None
        /\ \A d \in Conns \ {c, new} : role'[d] = role[d]
    <2>1. role \in [Conns -> MaybeRole] /\ c # new
      BY <1>2, <1>4, <1>6 DEF PeersTyped
    <2> QED  BY <1>1, <1>3, <2>1
  <1>9. \A p : HasRole(p) => HasRole(p)'
    BY <1>3, <1>6, <1>8 DEF HasRole
  <1>10. \A p : Back(p)' <=> Back(p)
    BY <1>1 DEF Back
  <1>11. \A p \in Players : (Moved(p) => Moved(p)') /\ (p = Owner(new) => Moved(p)')
    <2>1. ASSUME NEW p \in Players PROVE First1(p) \in Conns /\ First1(p) # new
      <3>1. First1(p)[2] = 1
        BY DEF First1
      <3> QED  BY <1>4, <3>1, ConnFacts
    <2> QED  BY <1>3, <1>8, <2>1 DEF Moved
  <1>12. \A d \in Conns : Entered(d) => d # new /\ Entered(d)'
    <2>1. ~ Entered(new)
      BY <1>3 DEF Entered, OnTheWay
    <2> QED  BY <1>1, <1>7, <1>11, <2>1, ConnFacts DEF Entered
  <1>13. \A d \in Conns : InGame(d)' => d # new /\ d # c /\ InGame(d)
    <2>1. \A d \in Conns : InGame(d)' => InGame(d)
      BY <1>1, <1>7 DEF InGame
    <2>2. ~ InGame(new)
      BY <1>3 DEF Starting, Settled, OnTheWay
    <2>3. Back(Owner(c))
      BY <1>3, <1>4, <1>6 DEF Back
    <2>4. ~ InGame(c)
      BY <1>6, <2>3 DEF Starting, Settled
    <2> QED  BY <2>1, <2>2, <2>4
  <1>14. DropsComeLast' /\ \A p \in Players : Gone(p) => Gone(p)'
    <2>1. Ended
      BY <1>3, <1>7 DEF Ended
    <2> QED  BY <1>1, <2>1, GoneWhenTaken
  <1>15. FirstsGone'
    BY <1>1, <1>10, <1>14 DEF FirstsGone
  <1>16. NoneYet'
    <2>1. ASSUME NEW d \in Conns, client[d] = "none" \/ pc'[d] \in OnTheWay \ {"taken"}
          PROVE  role'[d] = None
      BY <1>6, <1>7, <1>8, <2>1 DEF NoneYet
    <2> QED  BY <1>1, <2>1 DEF NoneYet
  <1>17. SecondsSeats'
    <2>1. \A d \in Conns : pc'[d] = "taken" => Moved(Owner(d))'
      BY <1>7, <1>11, ConnFacts DEF SecondsSeats
    <2>2. \A d \in Conns : d[2] = 2 /\ slots'[Owner(d)].conn = d => Entered(d)'
      BY <1>1, <1>12 DEF SecondsSeats
    <2>3. ASSUME NEW d \in Conns, NEW i \in 1 .. Len(aq'[d]), aq'[d][i].msg = "TakePeer"
          PROVE  d = First1(Owner(aq'[d][i].conn))
      BY <1>5, <2>3 DEF SecondsSeats, AddsNothing
    <2> QED  BY <2>1, <2>2, <2>3 DEF SecondsSeats
  <1>18. HandsOver'
    BY <1>1, <1>4 DEF HandsOver
  <1>19. OwnSeat' /\ FoundHave' /\ AllHave'
    BY <1>1, <1>9 DEF OwnSeat, FoundHave, AllHave
  <1>20. ToldHave'
    BY <1>1, <1>5, <1>9, ToldKept
  <1>21. Starting'
    <2>1. ASSUME NEW d \in Conns, InGame(d)' PROVE Settled(d)'
      BY <1>1, <1>7, <1>8, <1>10, <1>13, <2>1 DEF Settled, Starting
    <2>2. ASSUME NEW d \in Conns, NEW i \in 1 .. Len(aq'[d]), aq'[d][i].msg = "StartGame"
          PROVE  stage # "roles" /\ slots[Owner(d)].conn = d
      BY <1>5, <2>2 DEF Starting, AddsNothing
    <2> QED  BY <1>1, <2>1, <2>2 DEF Starting
  <1>22. AllStart'
    BY <1>1 DEF AllStart, Running
  <1> QED  BY <1>14, <1>15, <1>16, <1>17, <1>18, <1>19, <1>20, <1>21, <1>22

(* A role is set in a seat from which no player is coming back: a selection is  *)
(* not left when the first connection is gone.                             *)
LEMMA AnswerServerKeeps ==
  ASSUME IInv, KInv, NEW c \in Conns, AnswerServer(c) PROVE KInv'
  <1> USE DEF KInv
  <1> DEFINE m == aq[c][1]
             a == Owner(c)
             answer == IF m.msg = "GetRole" THEN role[c] ELSE "done"
  <1>1. PeersTyped /\ aq[c] \in Seq(Messages) /\ aq[c] # <<>> /\ Head(aq[c]) = m
        /\ 1 \in 1 .. Len(aq[c]) /\ m.msg \in Questions
    BY PeersAreTyped DEF PeersTyped, AnswerServer, Handles, Questions
  <1>2. /\ slots[a].conn = c /\ a \in gwait.of /\ gwait.got[a] = Pending
        /\ Asks(gwait.op, m.msg) /\ (m.msg = "SelectRole" => m.what = {gq[1].what})
    BY <1>1 DEF IInv, OneQuestion
  <1>3. a \in Players /\ SeatOf(c) = a
    <2>1. a \in Players
      BY ConnFacts
    <2> QED  BY <1>2, <2>1, SeatOfOwner DEF IInv, Seated
  <1>4. /\ UNCHANGED <<stage, slots, gq, starting, started, iwait, pc, sock, client, chosen,
                       crashed>>
        /\ gwait' = [gwait EXCEPT !.got[a] = answer]
        /\ role' = IF m.msg = "SelectRole" THEN [role EXCEPT ![c] = gq[1].what] ELSE role
    BY <1>1, <1>2, <1>3 DEF AnswerServer, Reply, connVars, clientVars
  <1>5. gwait.op = "set" => /\ gq[1].what # None /\ 1 \in 1 .. Len(gq) /\ gq[1].from = c
                            /\ gq[1].cmd = "SelectRole" /\ gwait.of = {a}
    <2>1. gwait.op = "set" => gq # <<>> /\ gq[1].cmd = "SelectRole" /\ 1 \in 1 .. Len(gq)
      BY DEF IInv, HeadServed, Serves, Typed
    <2>2. gwait.op = "set" => gq[1].what # None
      BY <2>1, RolesAssumption DEF IInv, Typed
    <2>3. gwait.op = "set" => gq[1].from = c /\ gwait.of = {a}
      BY <1>2 DEF OwnSeat
    <2> QED  BY <2>1, <2>2, <2>3
  <1>6. (gwait.op = "set" <=> m.msg = "SelectRole") /\ (gwait.op = "all" => m.msg = "GetRole")
    BY <1>2 DEF Asks, GetsRole
  <1>7. AddsNothing(aq, aq')
    BY <1>1, TakenFromMailbox, FewerAdds DEF AnswerServer, Handles
  <1>8. c[2] \in {1, 2} /\ c = <<a, c[2]>> /\ client[c] # "none" /\ pc[c] \notin OnTheWay
    BY <1>2, ConnFacts
       DEF NoneYet, SecondsSeats, Entered, IInv, ReturnsAgree, SecondsReturn
  <1> HIDE DEF m, a
  <1>9. /\ gwait'.op = gwait.op /\ gwait'.of = gwait.of /\ gwait'.got[a] = answer
        /\ \A p \in Players : p # a => gwait'.got[p] = gwait.got[p]
    BY <1>3, <1>4 DEF IInv, Typed
  <1> HIDE DEF answer
  <1>10. /\ \A d \in Conns \ {c} : role'[d] = role[d]
         /\ role'[c] = role[c] \/ (gwait.op = "set" /\ role'[c] # None)
         /\ gwait.op = "set" => role'[c] # None
    BY <1>1, <1>4, <1>5, <1>6 DEF PeersTyped
  <1>11. /\ \A p : HasRole(p) => HasRole(p)'
         /\ gwait.op = "set" => HasRole(a)'
    BY <1>10 DEF HasRole, a
  <1>12. \A p : Back(p)' <=> Back(p)
    BY <1>4 DEF Back
  <1>13. gwait.op = "set" /\ c[2] = 1 => ~ Back(a)
    <2>1. c[2] = 1 => c = First1(a)
      BY <1>8 DEF First1
    <2> QED  BY <1>3, <1>5, <2>1 DEF FirstsGone, Gone
  <1>14. \A p \in Players : Back(p) /\ Moved(p) => Moved(p)'
    <2>1. ASSUME NEW p \in Players, Back(p), Moved(p) PROVE Moved(p)'
      <3>1. First1(p) \in Conns /\ First1(p)[2] = 1 /\ Owner(First1(p)) = p
        BY ConnFacts DEF First1
      <3>2. CASE First1(p) # c
        BY <1>10, <2>1, <3>1, <3>2 DEF Moved
      <3>3. CASE First1(p) = c
        BY <1>10, <1>13, <2>1, <3>1, <3>3 DEF Moved, a
      <3> QED  BY <3>2, <3>3
    <2> QED  BY <2>1
  <1>15. \A d \in Conns : d[2] = 2 /\ Entered(d) => Entered(d)'
    <2>1. \A d \in Conns : d[2] = 2 /\ Entered(d) => Back(Owner(d)) /\ Owner(d) \in Players
      BY ConnFacts DEF Entered, Back
    <2> QED  BY <1>4, <1>14, <2>1 DEF Entered
  <1>16. DropsComeLast' /\ \A p \in Players : Gone(p) => Gone(p)'
    <2>1. Ended
      BY <1>4 DEF Ended
    <2> QED  BY <1>4, <2>1, GoneWhenTaken
  <1>17. FirstsGone'
    BY <1>4, <1>12, <1>16 DEF FirstsGone
  <1>18. NoneYet'
    BY <1>4, <1>8, <1>10 DEF NoneYet
  <1>19. SecondsSeats'
    <2>1. ASSUME NEW d \in Conns, pc[d] = "taken" PROVE Moved(Owner(d))'
      <3>1. d[2] = 2 /\ client[d] # "none" /\ Owner(d) \in Players
        BY <2>1, ConnFacts DEF IInv, ReturnsAgree, SecondsReturn, OnTheWay
      <3>2. Back(Owner(d)) /\ Moved(Owner(d))
        BY <2>1, <3>1 DEF Back, SecondsSeats
      <3> QED  BY <1>14, <3>1, <3>2
    <2>2. \A d \in Conns : d[2] = 2 /\ slots'[Owner(d)].conn = d => Entered(d)'
      BY <1>4, <1>15 DEF SecondsSeats
    <2>3. ASSUME NEW d \in Conns, NEW i \in 1 .. Len(aq'[d]), aq'[d][i].msg = "TakePeer"
          PROVE  d = First1(Owner(aq'[d][i].conn))
      BY <1>7, <2>3 DEF SecondsSeats, AddsNothing
    <2> QED  BY <1>4, <2>1, <2>2, <2>3 DEF SecondsSeats
  <1>20. HandsOver'
    <2>1. iwait.op # "idle" => iwait.from \in Conns /\ iwait.from[2] = 2
      BY DEF IInv, ReturnsAgree, SecondsReturn
    <2>2. ASSUME (iwait.op = "answer" /\ iwait.got = "done") \/ iwait.op = "reconnect"
          PROVE  Entered(iwait.from)'
      <3> DEFINE d == iwait.from
      <3>1. d \in Conns /\ d[2] = 2 /\ Entered(d)
        BY <2>1, <2>2 DEF HandsOver
      <3> HIDE DEF d
      <3>2. Entered(d)'
        BY <1>4, <1>15, <3>1 DEF Entered, Moved, d
      <3> QED  BY <3>2 DEF d
    <2> QED  BY <1>4, <2>2 DEF HandsOver
  <1>21. OwnSeat'
    BY <1>4, <1>5, <1>9, <1>11 DEF OwnSeat, a
  <1>22. ToldHave'
    BY <1>4, <1>7, <1>11, ToldKept
  <1>23. FoundHave'
    <2>1. ASSUME gwait.op = "all", NEW p \in Players, NEW b \in gwait.of,
                 p < b \/ (p = b /\ gwait'.got[b] \notin {Pending, None})
          PROVE  HasRole(p)'
      <3>1. CASE p < b
        BY <1>11, <2>1, <3>1 DEF FoundHave
      <3>2. CASE p = b /\ b # a
        BY <1>9, <1>11, <2>1, <3>2, ConnFacts DEF FoundHave
      <3>3. CASE p = b /\ b = a
        <4>1. \/ p < b
              \/ role[c] # None
          BY <1>6, <1>9, <2>1, <3>3 DEF answer
        <4>2. HasRole(a) \/ p < b
          BY <4>1 DEF HasRole, a
        <4> QED  BY <1>11, <2>1, <3>1, <3>3, <4>2
      <3> QED  BY <2>1, <3>1, <3>2, <3>3
    <2> QED  BY <1>9, <2>1 DEF FoundHave
  <1>24. AllHave'
    BY <1>4, <1>11 DEF AllHave
  <1>25. Starting'
    <2>1. ASSUME NEW d \in Conns, InGame(d)' PROVE Settled(d)'
      BY <1>4, <1>10, <1>12, <2>1 DEF Settled, Starting, InGame
    <2>2. ASSUME NEW d \in Conns, NEW i \in 1 .. Len(aq'[d]), aq'[d][i].msg = "StartGame"
          PROVE  stage # "roles" /\ slots[Owner(d)].conn = d
      BY <1>7, <2>2 DEF Starting, AddsNothing
    <2> QED  BY <1>4, <2>1, <2>2 DEF Starting
  <1>26. AllStart'
    BY <1>4, <1>9 DEF AllStart, Running
  <1> QED  BY <1>16, <1>17, <1>18, <1>19, <1>20, <1>21, <1>22, <1>23, <1>24, <1>25, <1>26

-------------------------------------------------------------------------------
(* The theorems about roles at the start and after a return.                 *)

LEMMA InitKInv == Init => KInv
  <1> SUFFICES ASSUME Init PROVE KInv
    OBVIOUS
  <1>1. \A c \in Conns : Owner(c) \in Players /\ c[2] \in {1, 2} /\ c = <<Owner(c), c[2]>>
    BY ConnFacts
  <1>2. \A p \in Players : First1(p) \in Conns /\ First1(p)[2] = 1 /\ slots[p].online
                           /\ slots[p].conn = First1(p)
    BY ConnFacts DEF Init, First1
  <1>3. \A c \in Conns : /\ role[c] = None /\ chosen[c] = None /\ aq[c] = <<>> /\ sock[c] = <<>>
                         /\ pc[c] \in {"roles", "none"}
    BY DEF Init
  <1>4. ASSUME NEW c \in Conns
        PROVE  /\ c[2] = 2 => client[c] = "none"
               /\ c[2] = 1 => client[c] # "none"
    <2>1. c \in StartConns <=> c[2] = 1
      BY <1>1, <1>2 DEF StartConns, First1
    <2> QED  BY <2>1 DEF Init
  <1>5. gq = <<>> /\ gwait.op = "idle" /\ iwait.op = "idle" /\ started = {}
        /\ starting = NoConn /\ stage = "roles" /\ crashed = "no"
    BY DEF Init, ServerIdle, IntroIdle
  <1>6. FirstsGone /\ NoneYet
    BY <1>2, <1>3, <1>4 DEF FirstsGone, Back, NoneYet
  <1>7. SecondsSeats
    BY <1>1, <1>2, <1>3 DEF SecondsSeats
  <1>8. DropsComeLast /\ HandsOver /\ OwnSeat /\ FoundHave /\ AllHave /\ AllStart
    BY <1>5 DEF DropsComeLast, HandsOver, OwnSeat, FoundHave, AllHave, AllStart
  <1>9. ToldHave /\ Starting
    BY <1>3, <1>5 DEF ToldHave, Starting, InGame
  <1> QED  BY <1>6, <1>7, <1>8, <1>9 DEF KInv

LEMMA StepKInv == IInv /\ KInv /\ [Next]_vars => KInv'
  <1> SUFFICES ASSUME IInv, KInv, [Next]_vars PROVE KInv'
    OBVIOUS
  <1>1. CASE RolesServerNext
    BY <1>1, ServerKeeps
  <1>2. CASE IntroNext
    BY <1>2, EnterGameKeeps, HandOverKeeps, ReplaceSeatKeeps, EndReconnectionKeeps
       DEF IntroNext
  <1>3. ASSUME NEW c \in Conns, PeerNext(c) PROVE KInv'
    BY <1>3, TakeOverKeeps, OpenMailboxKeeps, SpawnActorKeeps, StartFailsKeeps, ForwardKeeps,
       ReadKeeps, EndKeeps, OpenGameKeeps, EnterTheGameKeeps, AnswerServerKeeps,
       AnswerTakePeerKeeps, SendTcpKeeps, BeginGameKeeps, EndWithoutHandlesKeeps DEF PeerNext
  <1>4. ASSUME NEW c \in Conns, ClientNext(c) PROVE KInv'
    BY <1>4, InputKeeps, ReturnKeeps DEF ClientNext
  <1>5. CASE UNCHANGED vars
    <2>1. UNCHANGED <<stage, slots, gq, gwait, starting, started, iwait, role, aq, pc, sock,
                      client, chosen, crashed>>
      BY <1>5 DEF vars, serverVars, actorVars, connVars, clientVars
    <2>2. First1(0) \in Conns
      BY ConnFacts
    <2>3. AddsNothing(aq, aq') /\ (InGame(First1(0))' => InGame(First1(0)))
      BY <2>1 DEF AddsNothing, InGame
    <2> QED  BY <2>1, <2>2, <2>3, PeersKeep
  <1> QED  BY <1>1, <1>2, <1>3, <1>4, <1>5 DEF Next

(* Whoever was told a role has one, on whichever connection; and all that        *)
(* AllStart, Settled and the others say of a start and of a return.            *)
THEOREM RolesAreKept == Spec => []KInv
  BY InitKInv, StepKInv, RequestsAgree, PTL DEF Spec

(* No peer comes to the game without a role: Peer<Game>::from never meets "Role  *)
(* must be selected" (server/peer.rs:191), and in the game every seat has one,  *)
(* whoever left or came back after are_all_have_roles was answered             *)
(* (server/states.rs:1097).                                                  *)
THEOREM GameStartsWithRoles == Spec => []EveryoneHasRole
  <1>1. ASSUME IInv, KInv, stage = "Game", NEW p \in Players PROVE RoleOf(p) # None
    <2>1. slots[p].conn \in Conns
      BY <1>1 DEF IInv, Typed, TypeOK
    <2>2. InGame(slots[p].conn)
      BY <1>1 DEF KInv, AllStart, InGame
    <2> QED  BY <1>1, <2>1, <2>2 DEF KInv, Starting, Settled, RoleOf
  <1>2. IInv /\ KInv => EveryoneHasRole
    BY <1>1 DEF KInv, AllStart, EveryoneHasRole
  <1> QED  BY <1>2, RequestsAgree, RolesAreKept, PTL

(* A player who was shown a role of its own has one after it has come back:      *)
(* TakePeer moves the role to the new actor (server/peer.rs:547) and no step    *)
(* after it leaves the seat without.                                         *)
THEOREM ReturnKeepsRole == Spec => []RoleKept
  <1>1. ASSUME IInv, KInv, NEW p \in Players, slots[p].conn[2] = 2, chosen[First1(p)] # None
        PROVE  RoleOf(p) # None
    <2> DEFINE c == slots[p].conn
    <2>1. c \in Conns /\ Owner(c) = p /\ c = <<p, 2>> /\ First1(p) \in Conns
          /\ Owner(First1(p)) = p
      <3>1. c \in Conns /\ Owner(c) = p
        BY <1>1 DEF IInv, Typed, TypeOK, Owned
      <3> HIDE DEF c
      <3> QED  BY <1>1, <3>1, ConnFacts DEF c
    <2>2. role[First1(p)] = None
      BY <1>1, <2>1 DEF KInv, SecondsSeats, Entered, Moved
    <2>3. PICK d \in Conns : Owner(d) = p /\ role[d] # None
      BY <1>1, <2>1 DEF KInv, ToldHave, HasRole
    <2>4. d = <<p, 1>> \/ d = <<p, 2>>
      BY <2>3, ConnFacts
    <2> QED  BY <2>1, <2>2, <2>3, <2>4 DEF RoleOf, First1
  <1>2. IInv /\ KInv => RoleKept
    BY <1>1 DEF RoleKept
  <1> QED  BY <1>2, RequestsAgree, RolesAreKept, PTL

-------------------------------------------------------------------------------
(* What a client is told, and what it shows.                               *)

(* The last message of K in q carries w; there is none. *)
LastOf(q, K, w) ==
  \E i \in 1 .. Len(q) : /\ q[i] \in K /\ q[i].what = w
                         /\ \A j \in 1 .. Len(q) : j > i => q[j] \notin K
NoneOf(q, K) == \A i \in 1 .. Len(q) : q[i] \notin K

(* What is last told of K, first through the mailbox q of the actor and then   *)
(* through the channel s to the client, is w; or the client is not told      *)
(* anything and shows it already (now).                                    *)
Comes(q, s, K, w, now) ==
  \/ LastOf(q, K, w)
  \/ NoneOf(q, K) /\ LastOf(s, K, w)
  \/ NoneOf(q, K) /\ NoneOf(s, K) /\ now

Tellings == {m \in Messages : TellsRole(m)}
Lists    == {m \in Messages : m.msg = "AvailableRoles"}

(* The stages of a connection, its actor and its client. *)
Before == {"none", "boot"} \cup OnTheWay
InStep(c) ==
  /\ pc[c] = "none" <=> client[c] = "none"
  /\ pc[c] = "ended" => client[c] = "off"
  /\ actor[c] = "none" => pc[c] \in {"none", "ended"} \cup OnTheWay
  /\ actor[c] = "boot" <=> pc[c] = "boot"
  /\ actor[c] = "on" => pc[c] \in {"roles", "ended"}
  /\ actor[c] = "dead" => pc[c] = "ended"

(* Before the actor of a connection runs, no selection of it is under way and  *)
(* it is not told one.                                                     *)
Unspoken(c) ==
  pc[c] \in Before =>
    /\ sock[c] = <<>> /\ NoneOf(aq[c], Tellings)
    /\ \A i \in 1 .. Len(gq) : gq[i].from = c => gq[i].cmd # "SelectRole"

(* A connection that has come into a seat has yet to be told the roles. *)
InSeat(c)  == slots[Owner(c)].conn = c
Welcome(c) == pc[c] = "boot" /\ InSeat(c) => aq[c] # <<>>

(* A role is set, and its client not told yet. *)
JustSet(c) ==
  gwait.op = "set" /\ InSeat(c) /\ Owner(c) \in gwait.of /\ gwait.got[Owner(c)] # Pending
SetRight == \A c \in Conns : JustSet(c) => role[c] = gq[1].what

RoleComes(c) ==
  stage = "roles" /\ client[c] = "on" /\ pc[c] = "roles" /\ ~ JustSet(c) =>
    Comes(aq[c], sock[c], Tellings, {role[c]}, chosen[c] = role[c])

(* No one has come back, and no peer is on its way to another connection. *)
Still ==
  /\ NoOneReturned
  /\ iwait.op # "reconnect"
  /\ iwait.op = "answer" => iwait.got = "no" /\ pc[iwait.from] # "taken"
NoneReturns == iwait.op = "reconnect" /\ iwait.got = "done" => ~ NoOneReturned

(* A role is set, and not everyone is told yet. *)
Taken   == {RoleOf(p) : p \in Players} \ {None}
Telling ==
  \/ gwait.op \in {"name", "collect"}
  \/ gwait.op = "set" /\ \E p \in gwait.of : gwait.got[p] # Pending
CollectRight ==
  Still /\ gwait.op = "collect" =>
    \A p \in Players : gwait.got[p] # Pending => gwait.got[p] = RoleOf(p)

ListComes(c) ==
  stage = "roles" /\ Still /\ InSeat(c) /\ slots[Owner(c)].online /\ client[c] = "on"
  /\ ~ Telling => Comes(aq[c], sock[c], Lists, Taken, items[c] = Taken)

ShowsAt(c) == InStep(c) /\ Unspoken(c) /\ Welcome(c) /\ RoleComes(c) /\ ListComes(c)
Shows == SetRight /\ NoneReturns /\ CollectRight /\ \A c \in Conns : ShowsAt(c)

SInv == Running => Shows

-------------------------------------------------------------------------------
(* Channels.                                                               *)

(* q2 is q with more messages, none of them of K. *)
Longer(q, q2, K) ==
  /\ Len(q2) >= Len(q)
  /\ \A i \in 1 .. Len(q) : q2[i] = q[i]
  /\ \A i \in 1 .. Len(q2) : i > Len(q) => q2[i] \notin K

LEMMA LongerTwice ==
  ASSUME NEW q \in Seq(Messages), NEW q2 \in Seq(Messages), NEW q3 \in Seq(Messages), NEW K,
         Longer(q, q2, K), Longer(q2, q3, K)
  PROVE  Longer(q, q3, K)
  <1>1. Len(q) \in Nat /\ Len(q2) \in Nat /\ Len(q3) \in Nat
    OBVIOUS
  <1>2. \A i \in 1 .. Len(q) : i \in 1 .. Len(q2)
    BY <1>1 DEF Longer
  <1>3. ASSUME NEW i \in 1 .. Len(q3), i > Len(q) PROVE q3[i] \notin K
    <2>1. CASE i <= Len(q2)
      BY <1>1, <1>3, <2>1 DEF Longer
    <2>2. CASE i > Len(q2)
      BY <2>2 DEF Longer
    <2> QED  BY <1>1, <2>1, <2>2
  <1> QED  BY <1>1, <1>2, <1>3 DEF Longer

LEMMA ComesLonger ==
  ASSUME NEW q \in Seq(Messages), NEW q2 \in Seq(Messages), NEW K, Longer(q, q2, K)
  PROVE  /\ NoneOf(q, K) => NoneOf(q2, K)
         /\ \A s, w, now : Comes(q, s, K, w, now) => Comes(q2, s, K, w, now)
  <1>1. Len(q) \in Nat /\ Len(q2) \in Nat
    OBVIOUS
  <1>2. NoneOf(q, K) => NoneOf(q2, K)
    BY <1>1 DEF NoneOf, Longer
  <1>3. ASSUME NEW w, LastOf(q, K, w) PROVE LastOf(q2, K, w)
    <2>1. PICK i \in 1 .. Len(q) : /\ q[i] \in K /\ q[i].what = w
                                   /\ \A j \in 1 .. Len(q) : j > i => q[j] \notin K
      BY <1>3 DEF LastOf
    <2>2. i \in 1 .. Len(q2) /\ q2[i] = q[i]
      BY <1>1, <2>1 DEF Longer
    <2>3. \A j \in 1 .. Len(q2) : j > i => q2[j] \notin K
      BY <1>1, <2>1 DEF Longer
    <2> QED  BY <2>1, <2>2, <2>3 DEF LastOf
  <1> QED  BY <1>2, <1>3 DEF Comes

LEMMA AppendIsLonger ==
  ASSUME NEW q \in Seq(Messages), NEW m \in Messages, NEW K
  PROVE  /\ Longer(q, q, K) /\ (m \notin K => Longer(q, Append(q, m), K))
         /\ m \in K => LastOf(Append(q, m), K, m.what)
  <1>1. /\ Len(q) \in Nat /\ Len(Append(q, m)) = Len(q) + 1 /\ Append(q, m)[Len(q) + 1] = m
        /\ \A i \in 1 .. Len(q) : Append(q, m)[i] = q[i]
    OBVIOUS
  <1>2. Longer(q, q, K)
    BY <1>1 DEF Longer
  <1>3. m \notin K => Longer(q, Append(q, m), K)
    BY <1>1 DEF Longer
  <1>4. m \in K => LastOf(Append(q, m), K, m.what)
    BY <1>1 DEF LastOf
  <1> QED  BY <1>2, <1>3, <1>4

(* The head of a channel is what is last told, or does not matter. *)
LEMMA TailOf ==
  ASSUME NEW q \in Seq(Messages), q # <<>>, NEW K
  PROVE  /\ NoneOf(q, K) => Head(q) \notin K /\ NoneOf(Tail(q), K)
         /\ \A w : LastOf(q, K, w) =>
              LastOf(Tail(q), K, w) \/ (Head(q) \in K /\ Head(q).what = w /\ NoneOf(Tail(q), K))
  <1> DEFINE t == Tail(q)
  <1>1. /\ Len(q) \in Nat /\ 1 \in 1 .. Len(q) /\ Head(q) = q[1] /\ Len(t) = Len(q) - 1
        /\ \A i \in 1 .. Len(t) : i + 1 \in 1 .. Len(q) /\ t[i] = q[i + 1]
    OBVIOUS
  <1>2. \A i \in 1 .. Len(q) : i = 1 \/ (i - 1 \in 1 .. Len(t) /\ t[i - 1] = q[i])
    OBVIOUS
  <1> HIDE DEF t
  <1>3. NoneOf(q, K) => Head(q) \notin K /\ NoneOf(t, K)
    BY <1>1 DEF NoneOf
  <1>4. ASSUME NEW w, LastOf(q, K, w)
        PROVE  LastOf(t, K, w) \/ (Head(q) \in K /\ Head(q).what = w /\ NoneOf(t, K))
    <2>1. PICK i \in 1 .. Len(q) : /\ q[i] \in K /\ q[i].what = w
                                   /\ \A j \in 1 .. Len(q) : j > i => q[j] \notin K
      BY <1>4 DEF LastOf
    <2>2. CASE i = 1
      <3>1. \A j \in 1 .. Len(t) : t[j] \notin K
        BY <1>1, <2>1, <2>2
      <3> QED  BY <1>1, <2>1, <2>2, <3>1 DEF NoneOf
    <2>3. CASE i # 1
      <3>1. i - 1 \in 1 .. Len(t) /\ t[i - 1] = q[i]
        BY <1>2, <2>3
      <3>2. \A j \in 1 .. Len(t) : j > i - 1 => t[j] \notin K
        BY <1>1, <2>1
      <3> QED  BY <2>1, <3>1, <3>2 DEF LastOf
    <2> QED  BY <2>2, <2>3
  <1> QED  BY <1>3, <1>4 DEF t

(* The actor takes a message that is not of K; it sends one to its client; the  *)
(* client reads one.                                                       *)
LEMMA ComesTaken ==
  ASSUME NEW q \in Seq(Messages), q # <<>>, NEW K, Head(q) \notin K
  PROVE  /\ NoneOf(q, K) => NoneOf(Tail(q), K)
         /\ \A s, w, now : Comes(q, s, K, w, now) => Comes(Tail(q), s, K, w, now)
  BY TailOf DEF Comes

LEMMA ComesSent ==
  ASSUME NEW q \in Seq(Messages), q # <<>>, NEW s \in Seq(Messages), NEW K, NEW w, NEW now,
         Comes(q, s, K, w, now)
  PROVE  Comes(Tail(q), Append(s, Head(q)), K, w, now)
  <1> DEFINE m == Head(q)
             t == Tail(q)
  <1>1. m \in Messages
    OBVIOUS
  <1>2. /\ NoneOf(q, K) => m \notin K /\ NoneOf(t, K)
        /\ LastOf(q, K, w) => LastOf(t, K, w) \/ (m \in K /\ m.what = w /\ NoneOf(t, K))
    BY TailOf
  <1>3. m \in K => LastOf(Append(s, m), K, m.what)
    BY <1>1, AppendIsLonger
  <1>4. m \notin K => /\ NoneOf(s, K) => NoneOf(Append(s, m), K)
                      /\ LastOf(s, K, w) => LastOf(Append(s, m), K, w)
    <2>1. m \notin K => Longer(s, Append(s, m), K)
      BY <1>1, AppendIsLonger
    <2>2. Append(s, m) \in Seq(Messages)
      BY <1>1
    <2>3. ASSUME m \notin K, LastOf(s, K, w) PROVE LastOf(Append(s, m), K, w)
      <3> DEFINE s2 == Append(s, m)
      <3>1. Longer(s, s2, K) /\ Len(s) \in Nat /\ Len(s2) \in Nat
        BY <2>1, <2>2, <2>3
      <3> HIDE DEF s2
      <3>2. PICK i \in 1 .. Len(s) : /\ s[i] \in K /\ s[i].what = w
                                     /\ \A j \in 1 .. Len(s) : j > i => s[j] \notin K
        BY <2>3 DEF LastOf
      <3>3. i \in 1 .. Len(s2) /\ s2[i] = s[i] /\ \A j \in 1 .. Len(s2) : j > i => s2[j] \notin K
        BY <3>1, <3>2 DEF Longer
      <3>4. LastOf(s2, K, w)
        BY <3>2, <3>3 DEF LastOf
      <3> QED  BY <3>4 DEF s2
    <2> QED  BY <2>1, <2>2, <2>3, ComesLonger
  <1> HIDE DEF m, t
  <1>5. CASE m \in K
    BY <1>2, <1>3, <1>5 DEF Comes, m, t
  <1>6. CASE m \notin K
    BY <1>2, <1>4, <1>6 DEF Comes, m, t
  <1> QED  BY <1>5, <1>6

LEMMA ComesRead ==
  ASSUME NEW s \in Seq(Messages), s # <<>>, NEW q, NEW K, NEW w, NEW now, NEW now2,
         Comes(q, s, K, w, now),
         Head(s) \in K /\ Head(s).what = w => now2,
         Head(s) \notin K /\ now => now2
  PROVE  Comes(q, Tail(s), K, w, now2)
  <1>1. /\ NoneOf(s, K) => Head(s) \notin K /\ NoneOf(Tail(s), K)
        /\ LastOf(s, K, w) => \/ LastOf(Tail(s), K, w)
                              \/ Head(s) \in K /\ Head(s).what = w /\ NoneOf(Tail(s), K)
    BY TailOf
  <1> QED  BY <1>1 DEF Comes

-------------------------------------------------------------------------------
(* A connection that has no part in a step.                                *)

LEMMA ShowTypes ==
  ASSUME IInv
  PROVE  /\ \A c \in Conns : aq[c] \in Seq(Messages) /\ sock[c] \in Seq(Messages)
         /\ gq \in Seq(Requests) /\ \A i \in 1 .. Len(gq) : gq[i] \in Requests
         /\ \A p \in Players : slots[p].conn \in Conns /\ Owner(slots[p].conn) = p
         /\ \A c \in Conns : Owner(c) \in Players
         /\ gwait.op \notin {"idle", "start"} => 1 \in 1 .. Len(gq) /\ gq # <<>>
         /\ role \in [Conns -> MaybeRole]
  <1>1. PeersTyped /\ gq \in Seq(Requests)
    BY PeersAreTyped DEF IInv, Typed
  <1>2. \A i \in 1 .. Len(gq) : gq[i] \in Requests
    BY <1>1
  <1>3. \A p \in Players : slots[p].conn \in Conns /\ Owner(slots[p].conn) = p
    BY DEF IInv, Typed, TypeOK, Owned
  <1>4. gwait.op \notin {"idle", "start"} => gq # <<>>
    BY DEF IInv, HeadServed
  <1>5. gq # <<>> => 1 \in 1 .. Len(gq)
    BY <1>1
  <1>6. /\ \A c \in Conns : aq[c] \in Seq(Messages) /\ sock[c] \in Seq(Messages)
        /\ role \in [Conns -> MaybeRole]
    BY <1>1 DEF PeersTyped
  <1> QED  BY <1>1, <1>2, <1>3, <1>4, <1>5, <1>6, ConnFacts

LEMMA MessageKinds ==
  /\ \A m \in Messages : m.msg \notin {"SelectedStatus", "AvailableRoles"} =>
       m \notin Tellings /\ m \notin Lists
  /\ Status({}) \in Messages /\ Status({}) \notin Tellings /\ Status({}) \notin Lists
  /\ \A r \in RoleNames : Status({r}) \in Tellings /\ Status({r}) \notin Lists
                          /\ Status({r}).what = {r}
  /\ \A R \in SUBSET RoleNames : Available(R) \in Lists /\ Available(R) \notin Tellings
                                 /\ Available(R).what = R
  BY MessageTypes DEF Tellings, Lists, TellsRole, Status, Available, ToActor

(* The mailbox may get other messages; nothing that it is to be told is         *)
(* decided.                                                                *)
SameRole(d) ==
  /\ pc'[d] = pc[d] /\ client'[d] = client[d] /\ sock'[d] = sock[d]
  /\ role'[d] = role[d] /\ chosen'[d] = chosen[d]
  /\ aq'[d] \in Seq(Messages)
  /\ stage' = "roles" => stage = "roles"
SameTold(d) == SameRole(d) /\ Longer(aq[d], aq'[d], Tellings) /\ (JustSet(d) => JustSet(d)')

LEMMA RoleStays ==
  ASSUME IInv, NEW d \in Conns, RoleComes(d), SameTold(d)
  PROVE  RoleComes(d)'
  <1>1. aq[d] \in Seq(Messages) /\ aq'[d] \in Seq(Messages)
    BY ShowTypes DEF SameTold, SameRole
  <1>2. \A s, w, now : Comes(aq[d], s, Tellings, w, now) => Comes(aq'[d], s, Tellings, w, now)
    BY <1>1, ComesLonger DEF SameTold
  <1> QED  BY <1>2 DEF RoleComes, SameTold, SameRole

SeatStays(d) ==
  InSeat(d)' => InSeat(d) /\ (slots'[Owner(d)].online => slots[Owner(d)].online)

LEMMA ListStays ==
  ASSUME IInv, NEW d \in Conns, ListComes(d), SeatStays(d), items'[d] = items[d],
         client'[d] = client[d], sock'[d] = sock[d], aq'[d] \in Seq(Messages),
         stage' = "roles" => stage = "roles", Longer(aq[d], aq'[d], Lists),
         Still' => Still, Telling => Telling', Still' /\ ~ Telling' => Taken' = Taken
  PROVE  ListComes(d)'
  <1>1. aq[d] \in Seq(Messages)
    BY ShowTypes
  <1>2. \A s, w, now : Comes(aq[d], s, Lists, w, now) => Comes(aq'[d], s, Lists, w, now)
    BY <1>1, ComesLonger
  <1> QED  BY <1>2 DEF ListComes, SeatStays

(* No selection of the connection is new. *)
NoSelection(d) ==
  \A i \in 1 .. Len(gq') : gq'[i].from = d /\ gq'[i].cmd = "SelectRole" =>
    \E j \in 1 .. Len(gq) : gq[j] = gq'[i]

LEMMA PlaceStays ==
  ASSUME IInv, NEW d \in Conns, InStep(d), Unspoken(d), Welcome(d),
         pc'[d] = pc[d], client'[d] = client[d], sock'[d] = sock[d], actor'[d] = actor[d],
         aq'[d] \in Seq(Messages), \E K : Longer(aq[d], aq'[d], K),
         pc[d] \in Before => Longer(aq[d], aq'[d], Tellings) /\ NoSelection(d),
         InSeat(d)' => InSeat(d)
  PROVE  InStep(d)' /\ Unspoken(d)' /\ Welcome(d)'
  <1>1. aq[d] \in Seq(Messages)
    BY ShowTypes
  <1>2. pc[d] \in Before /\ NoneOf(aq[d], Tellings) => NoneOf(aq'[d], Tellings)
    BY <1>1, ComesLonger
  <1>3. aq[d] # <<>> => aq'[d] # <<>>
    BY <1>1 DEF Longer
  <1>4. InStep(d)'
    BY DEF InStep
  <1>5. Unspoken(d)'
    BY <1>2 DEF Unspoken, NoSelection
  <1> QED  BY <1>3, <1>4, <1>5 DEF Welcome

(* A step that changes no role and no seat, and leaves alone the connections    *)
(* but c.                                                                  *)
Same(d) == /\ pc'[d] = pc[d] /\ client'[d] = client[d] /\ sock'[d] = sock[d]
           /\ actor'[d] = actor[d] /\ chosen'[d] = chosen[d] /\ items'[d] = items[d]
Adds(d) == /\ aq'[d] \in Seq(Messages)
           /\ Longer(aq[d], aq'[d], Tellings) /\ Longer(aq[d], aq'[d], Lists)
Requested(c) == gq' = gq \/ \E r \in Requests : r.from = c /\ gq' = Append(gq, r)

LEMMA HeadStays ==
  ASSUME IInv, NEW c, Requested(c)
  PROVE  /\ gwait.op = "set" => gq'[1] = gq[1]
         /\ \A d : d # c => NoSelection(d)
  <1>1. gq \in Seq(Requests)
    BY ShowTypes
  <1>2. CASE gq' = gq
    BY <1>2 DEF NoSelection
  <1>3. ASSUME NEW r \in Requests, r.from = c, gq' = Append(gq, r)
        PROVE  (gwait.op = "set" => gq'[1] = gq[1]) /\ \A d : d # c => NoSelection(d)
    <2>1. /\ Len(gq) \in Nat /\ Len(gq') = Len(gq) + 1 /\ gq'[Len(gq) + 1] = r
          /\ \A i \in 1 .. Len(gq) : gq'[i] = gq[i]
      BY <1>1, <1>3
    <2>2. \A i \in 1 .. Len(gq') : i \in 1 .. Len(gq) \/ i = Len(gq) + 1
      BY <2>1
    <2>3. gwait.op = "set" => gq'[1] = gq[1]
      BY <2>1, ShowTypes
    <2> QED  BY <1>3, <2>1, <2>2, <2>3 DEF NoSelection
  <1> QED  BY <1>2, <1>3 DEF Requested

LEMMA SameShows ==
  ASSUME IInv, NEW d \in Conns, ShowsAt(d), Same(d), Adds(d),
         pc[d] \in Before => NoSelection(d),
         UNCHANGED <<stage, slots, gwait, role>>, Still' => Still
  PROVE  ShowsAt(d)'
  <1>1. InStep(d)' /\ Unspoken(d)' /\ Welcome(d)'
    BY PlaceStays DEF ShowsAt, Same, Adds, InSeat
  <1>2. RoleComes(d)'
    BY RoleStays DEF ShowsAt, Same, Adds, SameTold, SameRole, JustSet, InSeat
  <1>3. ListComes(d)'
    <2>1. SeatStays(d) /\ (Telling => Telling') /\ Taken' = Taken
      BY DEF SeatStays, InSeat, Telling, Taken, RoleOf
    <2> QED  BY <2>1, ListStays DEF ShowsAt, Same, Adds
  <1> QED  BY <1>1, <1>2, <1>3 DEF ShowsAt

LEMMA OneShows ==
  ASSUME IInv, Shows, NEW c \in Conns, UNCHANGED <<stage, slots, gwait, role>>,
         \A d \in Conns \ {c} : Same(d) /\ Adds(d), Requested(c),
         Still' => Still, NoneReturns', ShowsAt(c)'
  PROVE  Shows'
  <1>1. (gwait.op = "set" => gq'[1] = gq[1]) /\ \A d : d # c => NoSelection(d)
    BY HeadStays
  <1>2. \A d \in Conns \ {c} : ShowsAt(d)'
    BY <1>1, SameShows DEF Shows
  <1>3. SetRight'
    BY <1>1 DEF Shows, SetRight, JustSet, InSeat
  <1>4. CollectRight'
    BY DEF Shows, CollectRight, RoleOf
  <1> QED  BY <1>2, <1>3, <1>4 DEF Shows

-------------------------------------------------------------------------------
(* Steps of the server.                                                    *)

LEMMA NoneSelects ==
  ASSUME IInv, gq' = gq \/ (gq # <<>> /\ gq' = Tail(gq)) \/ gq' = <<>>
  PROVE  \A d : NoSelection(d)
  <1>1. gq \in Seq(Requests)
    BY ShowTypes
  <1>2. \A i \in 1 .. Len(gq') : \E j \in 1 .. Len(gq) : gq[j] = gq'[i]
    <2>1. CASE gq # <<>> /\ gq' = Tail(gq)
      <3>1. \A i \in 1 .. Len(gq') : i + 1 \in 1 .. Len(gq) /\ gq'[i] = gq[i + 1]
        BY <1>1, <2>1
      <3> QED  BY <3>1
    <2>2. CASE gq' = gq \/ gq' = <<>>
      BY <2>2
    <2> QED  BY <2>1, <2>2
  <1> QED  BY <1>2 DEF NoSelection

LEMMA ServerShows ==
  ASSUME IInv, Shows, UNCHANGED <<actor, role, pc, sock, client, items, chosen>>,
         \A d \in Conns : Adds(d),
         gq' = gq \/ (gq # <<>> /\ gq' = Tail(gq)) \/ gq' = <<>>,
         \A p \in Players : /\ slots'[p].conn = slots[p].conn
                            /\ slots'[p].online => slots[p].online,
         stage' = "roles" => stage = "roles",
         gwait.op \notin {"set", "collect"}, gwait.op = "name" => gwait'.op = "collect",
         gwait'.op \in {"set", "collect"} => gwait'.got = NoAnswers,
         iwait' = iwait \/ (iwait.op = "handle" /\ iwait'.op = "handle")
  PROVE  Shows'
  <1>1. /\ \A c : InSeat(c) /\ Owner(c) \in Players <=> InSeat(c)' /\ Owner(c) \in Players
        /\ \A c \in Conns : ~ JustSet(c) /\ ~ JustSet(c)'
        /\ \A p \in Players : NoAnswers[p] = Pending
    BY ShowTypes DEF InSeat, JustSet, NoAnswers
  <1>2. /\ Still' => Still
        /\ NoneReturns'
        /\ Taken' = Taken
    BY DEF Still, NoOneReturned, NoneReturns, Shows, Taken, RoleOf
  <1>3. Telling => Telling'
    BY DEF Telling
  <1>4. \A d \in Conns : NoSelection(d)
    BY NoneSelects
  <1>5. ASSUME NEW d \in Conns PROVE ShowsAt(d)'
    <2>1. ShowsAt(d) /\ Owner(d) \in Players /\ Adds(d)
      BY ShowTypes DEF Shows
    <2>2. InStep(d)' /\ Unspoken(d)' /\ Welcome(d)'
      BY <1>1, <1>4, <2>1, PlaceStays DEF ShowsAt, Adds
    <2>3. RoleComes(d)'
      BY <1>1, <2>1, RoleStays DEF ShowsAt, Adds, SameTold, SameRole
    <2>4. ListComes(d)'
      BY <1>1, <1>2, <1>3, <2>1, ListStays DEF ShowsAt, Adds, SeatStays
    <2> QED  BY <2>2, <2>3, <2>4 DEF ShowsAt
  <1>6. SetRight'
    BY <1>1 DEF SetRight
  <1>7. CollectRight'
    BY <1>1 DEF CollectRight
  <1> QED  BY <1>2, <1>5, <1>6, <1>7 DEF Shows

LEMMA PostLonger ==
  ASSUME IInv, NEW q, MailTyped(q), NEW C, NEW m \in Messages, NEW K, NEW d \in Conns,
         m \notin K \/ d \notin C
  PROVE  Longer(q[d], Post(q, C, m)[d], K) /\ Post(q, C, m)[d] \in Seq(Messages)
  <1>1. q[d] \in Seq(Messages)
    BY DEF MailTyped
  <1>2. Post(q, C, m)[d] = IF d \in C /\ Open(d) THEN Append(q[d], m) ELSE q[d]
    BY DEF Post
  <1>3. Longer(q[d], q[d], K) /\ (m \notin K => Longer(q[d], Append(q[d], m), K))
    BY <1>1, AppendIsLonger
  <1>4. Append(q[d], m) \in Seq(Messages)
    BY <1>1
  <1> QED  BY <1>1, <1>2, <1>3, <1>4

(* What is posted and asked is nothing that clients show. *)
LEMMA PostAddsNone ==
  ASSUME IInv, NEW C, NEW m \in Messages, m \notin Tellings, m \notin Lists,
         aq' = Post(aq, C, m)
  PROVE  \A d \in Conns : Adds(d)
  BY GoesOn, PostLonger DEF Adds

LEMMA AskLonger ==
  ASSUME IInv, NEW q, MailTyped(q), NEW op, NEW P, NEW m \in Messages, m.msg \in Questions,
         AskSeats(op, q, P, m), Running', NEW K, \A k \in K : k.msg \notin Questions,
         NEW d \in Conns, Longer(aq[d], q[d], K)
  PROVE  /\ Longer(aq[d], aq'[d], K) /\ aq'[d] \in Seq(Messages)
         /\ gwait' = [op |-> op, of |-> P, got |-> NoAnswers]
  <1>1. /\ aq' = Post(q, {slots[p].conn : p \in P}, m)
        /\ gwait' = [op |-> op, of |-> P, got |-> NoAnswers]
    BY DEF AskSeats, Running
  <1>2. Longer(q[d], aq'[d], K) /\ aq'[d] \in Seq(Messages)
    BY <1>1, PostLonger
  <1>3. aq[d] \in Seq(Messages) /\ q[d] \in Seq(Messages)
    BY ShowTypes DEF MailTyped
  <1> QED  BY <1>1, <1>2, <1>3, LongerTwice

LEMMA NotAsked ==
  /\ \A k \in Tellings : k.msg \notin Questions
  /\ \A k \in Lists : k.msg \notin Questions
  BY DEF Tellings, Lists, TellsRole, Questions

(* The server asks after it has posted what is in q. *)
LEMMA AskShows ==
  ASSUME IInv, Shows, Running', NEW q, MailTyped(q),
         \A d \in Conns : Longer(aq[d], q[d], Tellings) /\ Longer(aq[d], q[d], Lists),
         gwait.op \notin {"set", "collect"}, NEW op, gwait.op = "name" => op = "collect",
         NEW P, NEW m \in Messages, m.msg \in Questions,
         AskSeats(op, q, P, m), UNCHANGED <<gq, iwait, rest>>
  PROVE  Shows'
  <1>1. \A d \in Conns : Adds(d)
    BY AskLonger, NotAsked DEF Adds
  <1>2. gwait' = [op |-> op, of |-> P, got |-> NoAnswers]
    BY DEF AskSeats, Running
  <1>3. UNCHANGED <<actor, role, pc, sock, client, items, chosen, slots, stage>>
    BY DEF rest, connVars, clientVars
  <1> QED  BY <1>1, <1>2, <1>3, ServerShows

LEMMA LongerSame == ASSUME IInv PROVE \A d \in Conns : \A K : Longer(aq[d], aq[d], K)
  <1> SUFFICES ASSUME NEW d \in Conns, NEW K PROVE Longer(aq[d], aq[d], K)
    OBVIOUS
  <1>1. aq[d] \in Seq(Messages)
    BY ShowTypes
  <1>2. Len(aq[d]) \in Nat
    BY <1>1
  <1> QED  BY <1>2 DEF Longer

LEMMA DoneShows ==
  ASSUME IInv, Shows, gq # <<>>, Finished, \A d \in Conns : Adds(d),
         gwait.op \notin {"set", "name", "collect"},
         UNCHANGED <<stage, actor, role, pc, sock, client, items, chosen>>,
         \A p \in Players : /\ slots'[p].conn = slots[p].conn
                            /\ slots'[p].online => slots[p].online,
         iwait' = iwait \/ (iwait.op = "handle" /\ iwait'.op = "handle")
  PROVE  Shows'
  <1>1. gwait'.op = "idle" /\ gq' = Tail(gq)
    BY DEF Finished, ServerIdle
  <1> QED  BY <1>1, ServerShows

(* The commands that ask, or select a role. *)
LEMMA AskingShows ==
  ASSUME IInv, KInv, Shows, Running',
         \/ SelectRole \/ SearchOn \/ StartGame \/ NextHasRole
         \/ SearchHandle \/ SearchHandleOn \/ ReconnectPeer
  PROVE  Shows'
  <1> DEFINE Common(op, P, m) ==
        /\ gwait.op \notin {"set", "name", "collect"} /\ m \in Messages /\ m.msg \in Questions
        /\ AskSeats(op, aq, P, m) /\ UNCHANGED <<gq, iwait, rest>>
  <1>1. MailTyped(aq)
    BY GoesOn
  <1>2. ASSUME NEW op, NEW P, NEW m, Common(op, P, m) PROVE Shows'
    <2>1. \A d \in Conns : Longer(aq[d], aq[d], Tellings) /\ Longer(aq[d], aq[d], Lists)
      BY LongerSame
    <2> QED  BY <1>1, <1>2, <2>1, AskShows
  <1>3. /\ Ask("GetRole") \in Messages /\ Ask("GetRole").msg \in Questions
        /\ Ask("GetUsername") \in Messages /\ Ask("GetUsername").msg \in Questions
    BY MessageTypes DEF Questions
  <1>4. CASE SelectRole
    <2>1. Common("search", {0}, Ask("GetRole"))
      BY <1>3, <1>4 DEF SelectRole, Receive
    <2> QED  BY <1>2, <2>1
  <1>5. CASE SearchOn
    <2>1. Common("search", {Asked + 1}, Ask("GetRole"))
      BY <1>3, <1>5 DEF SearchOn, Answered
    <2> QED  BY <1>2, <2>1
  <1>6. CASE StartGame
    <2>1. Common("all", {0}, Ask("GetRole"))
      BY <1>3, <1>6 DEF StartGame, Receive
    <2> QED  BY <1>2, <2>1
  <1>7. CASE NextHasRole
    <2>1. Common("all", {Asked + 1}, Ask("GetRole"))
      BY <1>3, <1>7 DEF NextHasRole, Answered
    <2> QED  BY <1>2, <2>1
  <1>8. CASE SearchHandle
    <2>1. Common("handle", {0}, Ask("GetUsername"))
      BY <1>3, <1>8 DEF SearchHandle, Receive
    <2> QED  BY <1>2, <2>1
  <1>9. CASE SearchHandleOn
    <2>1. Common("handle", {Asked + 1}, Ask("GetUsername"))
      BY <1>3, <1>9 DEF SearchHandleOn, Answered
    <2> QED  BY <1>2, <2>1
  <1>10. CASE ReconnectPeer
    <2>1. Common("rejoin", Players, Ask("GetRole"))
      BY <1>3, <1>10 DEF ReconnectPeer, Receive
    <2> QED  BY <1>2, <2>1
  <1> QED  BY <1>4, <1>5, <1>6, <1>7, <1>8, <1>9, <1>10

LEMMA DecidingShows ==
  ASSUME IInv, KInv, Shows, Running', RoleIsTaken \/ RoleIsFree \/ NotAllHaveRoles \/ AllHaveRoles
  PROVE  Shows'
  <1>1. \A op \in OfOne : Answered(op) => gwait.op = op /\ gq # <<>> /\ Head(gq) = gq[1]
    BY GoingOn
  <1>2. ~ Panic /\ "search" \in OfOne /\ "all" \in OfOne
    BY DEF Panic, Running, OfOne
  <1>3. aq' = aq => \A d \in Conns : Adds(d)
    BY LongerSame, ShowTypes DEF Adds
  <1>4. CASE RoleIsTaken
    <2>1. aq' = Post(aq, {Head(gq).from}, Status({})) /\ Finished /\ gwait.op = "search"
          /\ UNCHANGED <<iwait, rest>>
      BY <1>2, <1>4 DEF RoleIsTaken, Answered
    <2>2. \A d \in Conns : Adds(d)
      BY <2>1, MessageKinds, PostAddsNone
    <2>3. gq # <<>>
      BY <1>1, <1>2, <1>4 DEF RoleIsTaken
    <2> QED  BY <2>1, <2>2, <2>3, DoneShows DEF rest, connVars, clientVars
  <1>5. CASE RoleIsFree
    <2>1. /\ AskSeats("set", aq, {SeatOf(Head(gq).from)},
                      ToActor("SelectRole", {Head(gq).what}, NoConn))
          /\ gwait.op = "search" /\ UNCHANGED <<gq, iwait, rest>>
      BY <1>2, <1>5 DEF RoleIsFree, Answered
    <2>2. gq[1].what \in RoleNames /\ Head(gq) = gq[1]
      BY <1>1, <1>2, <1>5, ShowTypes
         DEF RoleIsFree, IInv, Typed, HeadServed, Serves, OfOne
    <2>3. ToActor("SelectRole", {Head(gq).what}, NoConn) \in Messages
          /\ ToActor("SelectRole", {Head(gq).what}, NoConn).msg \in Questions
      BY <2>2, MessageTypes DEF ToActor, Questions
    <2>4. \A d \in Conns : Longer(aq[d], aq[d], Tellings) /\ Longer(aq[d], aq[d], Lists)
      BY LongerSame
    <2>5. MailTyped(aq)
      BY GoesOn
    <2> QED  BY <2>1, <2>3, <2>4, <2>5, AskShows
  <1>6. CASE NotAllHaveRoles \/ AllHaveRoles
    <2>1. Finished /\ gwait.op = "all" /\ gq # <<>> /\ aq' = aq
          /\ UNCHANGED <<stage, slots, iwait, actor, role, pc, sock, client, items, chosen>>
      BY <1>1, <1>2, <1>6
         DEF NotAllHaveRoles, AllHaveRoles, rest, connVars, clientVars, Answered
    <2> QED  BY <1>3, <2>1, DoneShows
  <1> QED  BY <1>4, <1>5, <1>6

LEMMA StartShows == ASSUME IInv, KInv, Shows, Running', TakeStart \/ RunGame PROVE Shows'
  <1>1. CASE TakeStart
    <2>1. /\ gwait.op = "idle" /\ stage' = "moving" /\ gq' = <<>>
          /\ gwait'.op = "start" /\ \E C : aq' = Post(aq, C, Ask("StartGame"))
          /\ UNCHANGED <<slots, iwait, actor, role, pc, sock, client, items, chosen>>
      BY <1>1 DEF TakeStart, AskSeats, Running, connVars, clientVars
    <2>2. \A d \in Conns : Adds(d)
      BY <2>1, MessageTypes, MessageKinds, PostAddsNone
    <2> QED  BY <2>1, <2>2, ServerShows
  <1>2. CASE RunGame
    <2>1. /\ gwait'.op = "idle" /\ stage' = "Game" /\ gwait.op \in {"idle", "start"}
          /\ UNCHANGED <<slots, gq, iwait, aq, actor, role, pc, sock, client, items, chosen>>
      BY <1>2 DEF RunGame, ServerIdle, actorVars, connVars, clientVars, IInv, HeadServed
    <2>2. \A d \in Conns : Adds(d)
      BY <2>1, LongerSame, ShowTypes DEF Adds
    <2> QED  BY <2>1, <2>2, ServerShows
  <1> QED  BY <1>1, <1>2

LEMMA DroppingShows ==
  ASSUME IInv, KInv, Shows, Running', DropPeer \/ MarkOffline \/ HandleFound
  PROVE  Shows'
  <1>1. aq' = aq => \A d \in Conns : Adds(d)
    BY LongerSame, ShowTypes DEF Adds
  <1>2. CASE DropPeer
    <2>1. gwait.op = "idle" /\ gq # <<>>
      BY <1>2 DEF DropPeer, Receive
    <2>2. CASE Finished /\ UNCHANGED <<aq, crashed>>
      BY <1>1, <1>2, <2>1, <2>2, DoneShows DEF DropPeer, rest, connVars, clientVars
    <2>3. CASE AskSeats("drop", aq, {SeatOf(Head(gq).from)}, Ask("GetUsername"))
               /\ UNCHANGED gq
      <3>1. Ask("GetUsername") \in Messages /\ Ask("GetUsername").msg \in Questions
            /\ MailTyped(aq)
        BY MessageTypes, GoesOn DEF Questions
      <3>2. \A d \in Conns : Longer(aq[d], aq[d], Tellings) /\ Longer(aq[d], aq[d], Lists)
        BY LongerSame
      <3> QED  BY <1>2, <2>1, <2>3, <3>1, <3>2, AskShows DEF DropPeer
    <2> QED  BY <1>2, <2>2, <2>3 DEF DropPeer
  <1>3. CASE MarkOffline
    <2>1. /\ gwait.op = "drop" /\ Finished
          /\ aq' = Post(aq, OnlineSeats \ {Head(gq).from}, Ask("Chat"))
          /\ slots' = [slots EXCEPT ![Asked].online = FALSE]
          /\ UNCHANGED <<iwait, stage, actor, role, pc, sock, client, items, chosen>>
      BY <1>3 DEF MarkOffline, Answered, connVars, clientVars
    <2>2. \A p \in Players : /\ slots'[p].conn = slots[p].conn
                             /\ slots'[p].online => slots[p].online
      BY <2>1 DEF IInv, Typed, TypeOK
    <2>3. \A d \in Conns : Adds(d)
      BY <2>1, MessageTypes, MessageKinds, PostAddsNone
    <2> QED  BY <2>1, <2>2, <2>3, ShowTypes, DoneShows
  <1>4. CASE HandleFound
    <2>1. /\ gwait.op = "handle" /\ Finished /\ aq' = aq
          /\ iwait' = [iwait EXCEPT !.old = slots[Asked].conn, !.got = "done"]
          /\ UNCHANGED <<stage, slots, actor, role, pc, sock, client, items, chosen>>
      BY <1>4 DEF HandleFound, Answered, rest, connVars, clientVars
    <2>2. gq # <<>> /\ 1 \in 1 .. Len(gq) /\ gq[1].cmd = "GetPeerHandleByUsername"
      BY <2>1, ShowTypes DEF IInv, HeadServed, Serves
    <2>3. iwait.op = "handle" /\ iwait'.op = "handle"
      BY <2>1, <2>2, WaitTyped DEF IInv, ReturnsAgree, OnlyRequest, IntroWaits
    <2> QED  BY <1>1, <2>1, <2>2, <2>3, DoneShows
  <1> QED  BY <1>2, <1>3, <1>4

(* The role is set in the sender's actor, which has started: its client is told *)
(* after what is told already.                                             *)
LEMMA SeatIsOpen ==
  ASSUME IInv, KInv, NEW d \in Conns, InStep(d), client[d] = "on", InSeat(d)
  PROVE  Open(d)
  <1>1. pc[d] \in OnTheWay => Entered(d)
    BY DEF IInv, ReturnsAgree, SecondsReturn, KInv, SecondsSeats, InSeat
  <1>2. pc[d] \notin OnTheWay
    BY <1>1 DEF Entered
  <1> QED  BY <1>2 DEF InStep, Open

LEMMA RoleIsSetShows == ASSUME IInv, KInv, Shows, Running', RoleIsSet PROVE Shows'
  <1> DEFINE told == gq[1].from
             m    == Status({gq[1].what})
             q    == Post(aq, {told}, m)
  <1>1. /\ gwait.op = "set" /\ gq # <<>> /\ Head(gq) = gq[1] /\ gq[1] \in Requests
        /\ gq[1].cmd = "SelectRole" /\ 1 \in 1 .. Len(gq)
        /\ Asked \in Players /\ gwait.of = {Asked} /\ gwait.got[Asked] # Pending
    <2>1. Answered("set") /\ "set" \in OfOne
      BY DEF RoleIsSet, OfOne
    <2> QED  BY <2>1, GoingOn, ShowTypes DEF Serves
  <1>2. gq[1].what \in RoleNames
    BY <1>1 DEF IInv, Typed
  <1>3. told \in Conns /\ gwait.of = {Owner(told)} /\ slots[Owner(told)].conn = told
    BY <1>1 DEF KInv, OwnSeat, Requests
  <1>4. /\ m \in Messages /\ m \in Tellings /\ m \notin Lists /\ m.what = {gq[1].what}
    BY <1>2, MessageKinds, MessageTypes
  <1>5. /\ aq' = Post(q, {slots[p].conn : p \in gwait.of}, Ask("GetUsername"))
        /\ gwait' = [op |-> "name", of |-> gwait.of, got |-> NoAnswers]
        /\ AskSeats("name", q, gwait.of, Ask("GetUsername"))
    BY <1>1 DEF RoleIsSet, AskSeats, Running
  <1>6. UNCHANGED <<stage, slots, gq, iwait, actor, role, pc, sock, client, items, chosen>>
    BY DEF RoleIsSet, rest, connVars, clientVars
  <1>7. MailTyped(aq) /\ MailTyped(q)
    BY <1>4, GoesOn, PostFacts DEF Status, ToActor
  <1>8. Ask("GetUsername") \in Messages /\ Ask("GetUsername").msg \in Questions
    BY MessageTypes DEF Questions
  <1> HIDE DEF m, q
  <1>9. ASSUME NEW d \in Conns
        PROVE  /\ Longer(aq[d], aq'[d], Lists) /\ aq'[d] \in Seq(Messages)
               /\ d # told => Longer(aq[d], aq'[d], Tellings)
               /\ Longer(q[d], aq'[d], Tellings)
    <2>1. Longer(aq[d], q[d], Lists) /\ (d # told => Longer(aq[d], q[d], Tellings))
      BY <1>4, <1>7, PostLonger DEF q
    <2>2. Longer(aq[d], aq'[d], Lists) /\ aq'[d] \in Seq(Messages)
          /\ (d # told => Longer(aq[d], aq'[d], Tellings))
      BY <1>5, <1>7, <1>8, <2>1, AskLonger, NotAsked
    <2>3. Longer(q[d], aq'[d], Tellings)
      BY <1>5, <1>7, <1>8, NotAsked, PostLonger
    <2> QED  BY <2>1, <2>2, <2>3
  <1>10. \A d \in Conns : JustSet(d) => d = told
    BY <1>3 DEF JustSet, InSeat
  <1>11. role[told] = gq[1].what
    <2>1. JustSet(told)
      BY <1>1, <1>3 DEF JustSet, InSeat
    <2> QED  BY <1>3, <2>1 DEF Shows, SetRight
  <1>12. Telling' /\ \A d : ~ JustSet(d)'
    BY <1>5 DEF Telling, JustSet
  <1>13. ASSUME NEW d \in Conns PROVE InStep(d)' /\ Unspoken(d)' /\ Welcome(d)'
    <2>1. InStep(d) /\ Unspoken(d) /\ Welcome(d)
      BY DEF Shows, ShowsAt
    <2>2. NoSelection(d)
      BY <1>6, NoneSelects
    <2>3. pc[d] \in Before => d # told
      BY <1>1, <2>1 DEF Unspoken
    <2> QED  BY <1>6, <1>9, <2>1, <2>2, <2>3, PlaceStays DEF InSeat
  <1>14. ASSUME NEW d \in Conns, d # told PROVE RoleComes(d)'
    BY <1>6, <1>9, <1>10, <1>14, RoleStays DEF Shows, ShowsAt, SameTold, SameRole
  <1>15. ASSUME NEW d \in Conns, d = told PROVE RoleComes(d)'
    <2>1. SUFFICES ASSUME pc[told] = "roles"
                   PROVE  \A s, now : Comes(aq'[d], s, Tellings, {role[d]}, now)
      BY <1>6, <1>15 DEF RoleComes
    <2>2. Open(told)
      BY <1>3, <2>1 DEF Shows, ShowsAt, InStep, Open, Before, OnTheWay
    <2>3. q[told] = Append(aq[told], m) /\ aq[told] \in Seq(Messages) /\ q[told] \in Seq(Messages)
      BY <1>3, <1>7, <2>2 DEF q, Post, MailTyped
    <2>4. LastOf(q[told], Tellings, {role[told]})
      <3>1. LastOf(Append(aq[told], m), Tellings, m.what)
        BY <1>4, <2>3, AppendIsLonger
      <3>2. m.what = {role[told]} /\ q[told] = Append(aq[told], m)
        BY <1>4, <1>11, <2>3
      <3> QED  BY <3>1, <3>2
    <2>5. \A s, now : Comes(q[told], s, Tellings, {role[told]}, now)
      BY <2>4 DEF Comes
    <2>6. aq'[told] \in Seq(Messages) /\ Longer(q[told], aq'[told], Tellings)
      BY <1>3, <1>9
    <2>7. \A s, w, now : Comes(q[told], s, Tellings, w, now) => Comes(aq'[told], s, Tellings, w, now)
      BY <2>3, <2>6, ComesLonger
    <2> QED  BY <1>15, <2>5, <2>7
  <1>16. \A d \in Conns : ListComes(d)'
    BY <1>12 DEF ListComes
  <1>17. SetRight' /\ NoneReturns' /\ CollectRight'
    <2>1. SetRight'
      BY <1>12 DEF SetRight
    <2>2. NoneReturns'
      BY <1>6 DEF NoneReturns, NoOneReturned, Shows
    <2>3. CollectRight'
      BY <1>5 DEF CollectRight
    <2> QED  BY <2>1, <2>2, <2>3
  <1> QED  BY <1>13, <1>14, <1>15, <1>16, <1>17 DEF Shows, ShowsAt

LEMMA TellOthersShows == ASSUME IInv, KInv, Shows, Running', TellOthers PROVE Shows'
  <1> DEFINE q == Post(aq, OnlineSeats \ {Head(gq).from}, Ask("Chat"))
  <1>1. gwait.op = "name" /\ MailTyped(aq)
    BY GoesOn DEF TellOthers, Answered
  <1>2. Ask("Chat") \in Messages /\ Ask("Chat").msg = "Chat"
    BY MessageTypes
  <1>3. Ask("Chat") \notin Tellings /\ Ask("Chat") \notin Lists
    BY <1>2, MessageKinds
  <1>4. MailTyped(q)
    BY <1>1, <1>2, PostFacts
  <1>5. \A d \in Conns : Longer(aq[d], q[d], Tellings) /\ Longer(aq[d], q[d], Lists)
    BY <1>1, <1>2, <1>3, PostLonger
  <1> HIDE DEF q
  <1>6. AskSeats("collect", q, Players, Ask("GetRole")) /\ UNCHANGED <<gq, iwait, rest>>
    BY DEF TellOthers, q
  <1>7. Ask("GetRole") \in Messages /\ Ask("GetRole").msg \in Questions
    BY MessageTypes DEF Questions
  <1> QED  BY <1>1, <1>4, <1>5, <1>6, <1>7, AskShows

(* The roles that were collected are still those of the seats. *)
LEMMA TellRolesShows == ASSUME IInv, KInv, Shows, Running', TellRoles PROVE Shows'
  <1> DEFINE m == Available(Collected)
  <1>1. /\ gwait.op = "collect" /\ gwait.of = Players /\ gq # <<>> /\ Collected \in SUBSET RoleNames
        /\ \A p \in Players : gwait.got[p] # Pending
    BY GoingOn DEF TellRoles, Answered
  <1>2. m \in Messages /\ m \in Lists /\ m \notin Tellings /\ m.what = Collected
    BY <1>1, MessageKinds, MessageTypes
  <1>3. /\ aq' = Post(aq, OnlineSeats, m) /\ gq' = Tail(gq) /\ gwait'.op = "idle"
        /\ UNCHANGED <<stage, slots, iwait, actor, role, pc, sock, client, items, chosen>>
    BY DEF TellRoles, Finished, ServerIdle, rest, connVars, clientVars
  <1> HIDE DEF m
  <1>4. ASSUME NEW d \in Conns
        PROVE  /\ Longer(aq[d], aq'[d], Tellings) /\ aq'[d] \in Seq(Messages)
               /\ aq[d] \in Seq(Messages) /\ (JustSet(d) <=> JustSet(d)')
    BY <1>1, <1>2, <1>3, GoesOn, PostLonger, ShowTypes DEF JustSet
  <1>5. ASSUME NEW d \in Conns
        PROVE  InStep(d)' /\ Unspoken(d)' /\ Welcome(d)' /\ RoleComes(d)'
    <2>1. InStep(d) /\ Unspoken(d) /\ Welcome(d) /\ RoleComes(d)
      BY DEF Shows, ShowsAt
    <2>2. NoSelection(d)
      BY <1>1, <1>3, NoneSelects
    <2>3. InStep(d)' /\ Unspoken(d)' /\ Welcome(d)'
      BY <1>3, <1>4, <2>1, <2>2, PlaceStays DEF InSeat
    <2> QED  BY <1>3, <1>4, <2>1, <2>3, RoleStays DEF SameTold, SameRole
  <1>6. ASSUME NEW d \in Conns PROVE ListComes(d)'
    <2> SUFFICES ASSUME Still', InSeat(d), slots[Owner(d)].online, client[d] = "on"
                 PROVE  Comes(aq'[d], sock[d], Lists, Taken', items[d] = Taken')
      BY <1>3 DEF ListComes, InSeat
    <2>1. Open(d) /\ d \in OnlineSeats
      BY SeatIsOpen, ShowTypes DEF Shows, ShowsAt, OnlineSeats, InSeat
    <2>2. Still /\ Taken' = Taken
      BY <1>3 DEF Still, NoOneReturned, Taken, RoleOf
    <2>3. Collected = Taken
      BY <1>1, <2>2 DEF Shows, CollectRight, Collected, Taken
    <2>4. aq'[d] = Append(aq[d], m)
      BY <1>3, <2>1 DEF Post
    <2>5. LastOf(aq'[d], Lists, Taken')
      BY <1>2, <1>4, <2>2, <2>3, <2>4, AppendIsLonger
    <2> QED  BY <2>5 DEF Comes
  <1>7. SetRight' /\ NoneReturns' /\ CollectRight'
    BY <1>1, <1>3, <1>4 DEF SetRight, NoneReturns, CollectRight, NoOneReturned, Shows, JustSet
  <1> QED  BY <1>5, <1>6, <1>7 DEF Shows, ShowsAt

(* The new connection is told the roles when it has come into its seat. *)
LEMMA RejoinedShows == ASSUME IInv, KInv, Shows, Running', Rejoined PROVE Shows'
  <1> DEFINE new == iwait.from
             a   == Owner(iwait.from)
             m   == Available(Collected)
  <1>1. gwait.op = "rejoin" /\ gq # <<>> /\ Head(gq) = gq[1] /\ 1 \in 1 .. Len(gq)
        /\ gq[1].cmd = "ReconnectPeer" /\ Collected \in SUBSET RoleNames
    BY GoingOn, ShowTypes DEF Rejoined, Serves
  <1>2. iwait.op = "reconnect" /\ iwait.got = "no" /\ gq[1].from = new /\ gq[1].old = iwait.old
    BY <1>1 DEF IInv, ReturnsAgree, OnlyRequest
  <1>3. new \in Conns /\ new[2] = 2 /\ a \in Players /\ iwait.old = slots[a].conn
    BY <1>2, ConnFacts DEF IInv, ReturnsAgree, SecondsReturn, OldInSeat
  <1>4. SeatOf(iwait.old) = a
    <2>1. iwait.old \in Seated
      BY <1>3 DEF Seated
    <2> QED  BY <1>3, <2>1, SeatOfOwner DEF IInv, Owned
  <1>5. /\ UNCHANGED <<stage, actor, role, pc, sock, client, items, chosen>>
        /\ slots' = [slots EXCEPT ![a] = [conn |-> new, online |-> TRUE]]
        /\ aq' = Post(aq, {new}, m) /\ gq' = Tail(gq) /\ gwait'.op = "idle"
    BY <1>1, <1>2, <1>4 DEF Rejoined, connVars, clientVars, Finished, ServerIdle
  <1>6. /\ slots'[a] = [conn |-> new, online |-> TRUE]
        /\ \A p \in Players : p # a => slots'[p] = slots[p]
    BY <1>3, <1>5 DEF IInv, Typed, TypeOK
  <1>7. m \in Messages /\ m \notin Tellings
    BY <1>1, MessageKinds, MessageTypes
  <1> HIDE DEF new, a, m
  <1>8. ~ NoOneReturned'
    BY <1>3, <1>6 DEF NoOneReturned
  <1>9. \A d \in Conns : ~ JustSet(d) /\ ~ JustSet(d)'
    BY <1>1, <1>5 DEF JustSet
  <1>10. ASSUME NEW d \in Conns PROVE ShowsAt(d)'
    <2>1. InStep(d) /\ Unspoken(d) /\ Welcome(d) /\ RoleComes(d) /\ Owner(d) \in Players
          /\ aq[d] \in Seq(Messages)
      BY ShowTypes DEF Shows, ShowsAt
    <2>2. Longer(aq[d], aq'[d], Tellings) /\ aq'[d] \in Seq(Messages)
      BY <1>5, <1>7, GoesOn, PostLonger
    <2>3. NoSelection(d)
      BY <1>1, <1>5, NoneSelects
    <2>4. InStep(d)' /\ Unspoken(d)' /\ Welcome(d)'
      <3>1. CASE InSeat(d)' => InSeat(d)
        BY <1>5, <2>1, <2>2, <2>3, <3>1, PlaceStays
      <3>2. CASE d = new
        <4>1. InStep(d)'
          BY <1>5, <2>1 DEF InStep
        <4>2. Unspoken(d)'
          BY <1>5, <2>1, <2>2, <2>3, ComesLonger DEF Unspoken, NoSelection
        <4>3. pc[d] = "boot" => Open(d)
          BY <2>1 DEF InStep, Open
        <4>4. pc[d] = "boot" => aq'[d] = Append(aq[d], m)
          BY <1>5, <3>2, <4>3 DEF Post
        <4>5. Append(aq[d], m) # <<>>
          BY <1>7, <2>1
        <4> QED  BY <1>5, <4>1, <4>2, <4>4, <4>5 DEF Welcome
      <3>3. InSeat(d)' => InSeat(d) \/ d = new
        BY <1>3, <1>6, <2>1 DEF InSeat
      <3> QED  BY <3>1, <3>2, <3>3
    <2>5. RoleComes(d)'
      BY <1>5, <1>9, <2>1, <2>2, RoleStays DEF SameTold, SameRole
    <2>6. ListComes(d)'
      BY <1>8 DEF ListComes, Still
    <2> QED  BY <2>4, <2>5, <2>6 DEF ShowsAt
  <1>11. SetRight' /\ NoneReturns' /\ CollectRight'
    BY <1>5, <1>8, <1>9 DEF SetRight, NoneReturns, CollectRight
  <1> QED  BY <1>10, <1>11 DEF Shows

LEMMA RolesServerShows ==
  ASSUME IInv, KInv, Shows, Running', RolesServerNext PROVE Shows'
  BY AskingShows, DecidingShows, RoleIsSetShows, TellOthersShows, TellRolesShows, StartShows,
     DroppingShows, RejoinedShows DEF RolesServerNext

-------------------------------------------------------------------------------
(* Steps of clients, connections and actors.                               *)

LEMMA Elsewhere ==
  ASSUME IInv, NEW c, \A d \in Conns \ {c} : Same(d) /\ aq'[d] = aq[d]
  PROVE  \A d \in Conns \ {c} : Same(d) /\ Adds(d)
  BY LongerSame, ShowTypes DEF Adds

(* Only mailboxes of actors and of the server grow. *)
LEMMA GrowingShows ==
  ASSUME IInv, Shows, NEW c \in Conns, UNCHANGED <<stage, slots, gwait, role>>,
         \A d \in Conns : Same(d) /\ Adds(d), Requested(c),
         pc[c] \in Before => NoSelection(c), Still' => Still, NoneReturns'
  PROVE  Shows'
  <1>1. ShowsAt(c)'
    BY SameShows DEF Shows
  <1> QED  BY <1>1, OneShows

(* A connection whose client need not show anything. *)
LEMMA SilentShows ==
  ASSUME NEW c \in Conns, InStep(c)', Unspoken(c)', Welcome(c)',
         \/ client'[c] # "on"
         \/ stage' # "roles"
         \/ pc'[c] # "roles" /\ (c[2] = 2 \/ ~ Still')
  PROVE  ShowsAt(c)'
  <1>1. RoleComes(c)'
    BY DEF RoleComes
  <1>2. c[2] = 2 /\ InSeat(c)' => ~ Still'
    BY ConnFacts DEF InSeat, Still, NoOneReturned
  <1>3. ListComes(c)'
    BY <1>2 DEF ListComes
  <1> QED  BY <1>1, <1>3 DEF ShowsAt

LEMMA InputShows ==
  ASSUME IInv, Shows, NEW c \in Conns,
         (\E r \in RoleNames : Confirm(c, r)) \/ PressStart(c)
  PROVE  Shows'
  <1>1. UNCHANGED <<stage, slots, gq, gwait, iwait, actor, role, aq, pc, sock, client, items, chosen>>
    BY DEF Confirm, PressStart, serverVars, actorVars, connVars
  <1>2. \A d \in Conns : Same(d) /\ Adds(d)
    BY <1>1, LongerSame, ShowTypes DEF Same, Adds
  <1>3. NoSelection(c) /\ Requested(c)
    BY <1>1, NoneSelects DEF Requested
  <1>4. (Still' => Still) /\ NoneReturns'
    BY <1>1 DEF Still, NoOneReturned, NoneReturns, Shows
  <1> QED  BY <1>1, <1>2, <1>3, <1>4, GrowingShows

LEMMA QuitShows == ASSUME IInv, Shows, NEW c \in Conns, Quit(c) PROVE Shows'
  <1>1. UNCHANGED <<stage, slots, gq, gwait, iwait, actor, role, aq, pc, sock, items, chosen>>
        /\ client' = [client EXCEPT ![c] = "off"]
    BY DEF Quit, serverVars, actorVars, connVars
  <1>2. client'[c] = "off" /\ client[c] = "on" /\ \A d \in Conns \ {c} : client'[d] = client[d]
    BY <1>1, PeersAreTyped DEF PeersTyped, Quit
  <1>3. \A d \in Conns \ {c} : Same(d) /\ Adds(d)
    BY <1>1, <1>2, Elsewhere DEF Same
  <1>4. NoSelection(c) /\ Requested(c)
    BY <1>1, NoneSelects DEF Requested
  <1>5. (Still' => Still) /\ NoneReturns'
    BY <1>1 DEF Still, NoOneReturned, NoneReturns, Shows
  <1>6. InStep(c)' /\ Unspoken(c)' /\ Welcome(c)'
    BY <1>1, <1>2 DEF Shows, ShowsAt, InStep, Unspoken, Welcome, InSeat
  <1>7. ShowsAt(c)'
    BY <1>2, <1>6, SilentShows
  <1> QED  BY <1>1, <1>3, <1>4, <1>5, <1>7, OneShows

(* A connection goes from place to place while nothing else of it changes.     *)
LEMMA MovesShows ==
  ASSUME IInv, Shows, NEW c \in Conns, NEW place, Goto(c, place),
         UNCHANGED <<stage, slots, gwait, role, actor, sock, client, items, chosen>>,
         \A d \in Conns : Adds(d), Requested(c), NoSelection(c),
         \/ /\ place \in OnTheWay /\ pc[c] \in OnTheWay /\ c[2] = 2
         \/ /\ place \notin Before \cup {"roles", "ended"} /\ stage # "roles"
            /\ pc[c] \notin Before \cup {"roles", "ended"},
         Still' => Still, NoneReturns'
  PROVE  Shows'
  <1>1. pc'[c] = place /\ \A d \in Conns \ {c} : pc'[d] = pc[d]
    BY PlaceFacts
  <1>2. \A d \in Conns \ {c} : Same(d) /\ Adds(d)
    BY <1>1 DEF Same
  <1>3. aq[c] \in Seq(Messages) /\ aq'[c] \in Seq(Messages) /\ Longer(aq[c], aq'[c], Tellings)
    BY ShowTypes DEF Adds
  <1>4. InStep(c) /\ Unspoken(c)
    BY DEF Shows, ShowsAt
  <1>5. InStep(c)' /\ Welcome(c)'
    BY <1>1, <1>4 DEF InStep, Welcome, OnTheWay, Before
  <1>6. Unspoken(c)'
    BY <1>1, <1>3, <1>4, ComesLonger DEF Unspoken, NoSelection, Before
  <1>7. ShowsAt(c)'
    BY <1>1, <1>5, <1>6, SilentShows DEF OnTheWay, Before
  <1> QED  BY <1>2, <1>7, OneShows

LEMMA ReturnShows == ASSUME IInv, KInv, Shows, NEW c \in Conns, Return(c) PROVE Shows'
  <1>1. /\ UNCHANGED <<stage, slots, gq, gwait, iwait, actor, role, aq, sock, items, chosen>>
        /\ client' = [client EXCEPT ![c] = "on"]
    BY DEF Return, serverVars, actorVars
  <1>2. client'[c] = "on" /\ client[c] = "none" /\ \A d \in Conns \ {c} : client'[d] = client[d]
    BY <1>1, PeersAreTyped DEF PeersTyped, Return
  <1>3. pc'[c] = "entering" /\ \A d \in Conns \ {c} : pc'[d] = pc[d]
    BY PlaceFacts DEF Return
  <1>4. \A d \in Conns \ {c} : Same(d) /\ Adds(d)
    BY <1>1, <1>2, <1>3, Elsewhere DEF Same
  <1>5. NoSelection(c) /\ Requested(c)
    BY <1>1, NoneSelects DEF Requested
  <1>6. pc[c] = "none" /\ c[2] = 2
    BY <1>2 DEF Shows, ShowsAt, InStep, Return
  <1>7. (Still' => Still) /\ NoneReturns'
    <2>1. iwait.op = "answer" => iwait.from \in Conns
      BY DEF IInv, ReturnsAgree, SecondsReturn
    <2> QED  BY <1>1, <1>3, <1>6, <2>1 DEF Still, NoOneReturned, NoneReturns, Shows
  <1>8. InStep(c)' /\ Unspoken(c)' /\ Welcome(c)'
    BY <1>1, <1>2, <1>3, <1>6
       DEF Shows, ShowsAt, InStep, Unspoken, Welcome, Before, OnTheWay
  <1>9. ShowsAt(c)'
    BY <1>3, <1>6, <1>8, SilentShows
  <1> QED  BY <1>1, <1>4, <1>5, <1>7, <1>9, OneShows

(* The intro server's request says nothing of a role. *)
LEMMA IntroAsks ==
  ASSUME IInv, NEW c \in Conns, NEW r \in Requests, r.from = c, r.cmd # "SelectRole",
         gq' = gq \/ gq' = Append(gq, r)
  PROVE  Requested(c) /\ NoSelection(c)
  <1>1. gq \in Seq(Requests)
    BY ShowTypes
  <1>2. CASE gq' = gq
    BY <1>2 DEF Requested, NoSelection
  <1>3. CASE gq' = Append(gq, r)
    <2>1. \A i \in 1 .. Len(gq') :
            gq'[i] = r \/ (i \in 1 .. Len(gq) /\ gq'[i] = gq[i])
      BY <1>1, <1>3
    <2> QED  BY <1>3, <2>1 DEF Requested, NoSelection
  <1> QED  BY <1>2, <1>3

LEMMA EnterGameShows ==
  ASSUME IInv, KInv, Shows, NEW c \in Conns, EnterGame(c) PROVE Shows'
  <1>1. UNCHANGED <<stage, slots, gwait, actor, role, aq, sock, client, items, chosen>>
        /\ iwait' = Serving("handle", c, NoConn) /\ iwait.op = "idle"
        /\ Goto(c, "w_handle") /\ pc[c] = "entering"
    BY DEF EnterGame, introRest, actorVars, clientVars
  <1>2. \A d \in Conns : Adds(d)
    BY <1>1, LongerSame, ShowTypes DEF Adds
  <1>3. Requested(c) /\ NoSelection(c)
    <2> DEFINE r == Command("GetPeerHandleByUsername", c)
    <2>1. r \in Requests /\ r.from = c /\ r.cmd # "SelectRole"
      BY DEF Command, Request, Requests, MaybeRole, Maybe
    <2>2. gq' = gq \/ gq' = Append(gq, r)
      BY DEF EnterGame, ToServer
    <2> QED  BY <2>1, <2>2, IntroAsks
  <1>4. (Still' => Still) /\ NoneReturns'
    BY <1>1 DEF Still, NoOneReturned, NoneReturns, Serving
  <1>5. c[2] = 2 /\ pc[c] \in OnTheWay /\ "w_handle" \in OnTheWay
    BY <1>1 DEF IInv, ReturnsAgree, SecondsReturn, OnTheWay
  <1> QED  BY <1>1, <1>2, <1>3, <1>4, <1>5, MovesShows

LEMMA HandOverShows == ASSUME IInv, KInv, Shows, Running', HandOver PROVE Shows'
  <1> DEFINE c == iwait.from
  <1>1. UNCHANGED <<stage, slots, gq, gwait, actor, role, aq, sock, client, items, chosen>>
        /\ iwait' = Serving("answer", c, iwait.old) /\ iwait.op = "handle"
        /\ Goto(c, "take") /\ pc[c] = "w_handle"
    BY DEF HandOver, introRest, actorVars, clientVars, Running
  <1>2. \A d \in Conns : Adds(d)
    BY <1>1, LongerSame, ShowTypes DEF Adds
  <1>3. c \in Conns
    BY <1>1 DEF IInv, ReturnsAgree, SecondsReturn
  <1>4. Requested(c) /\ NoSelection(c)
    BY <1>1, NoneSelects DEF Requested
  <1>5. (Still' => Still) /\ NoneReturns'
    BY <1>1 DEF Still, NoOneReturned, NoneReturns, Serving
  <1>6. c[2] = 2 /\ pc[c] \in OnTheWay /\ "take" \in OnTheWay
    BY <1>1, <1>3 DEF IInv, ReturnsAgree, SecondsReturn, OnTheWay
  <1> HIDE DEF c
  <1> QED  BY <1>1, <1>2, <1>3, <1>4, <1>5, <1>6, MovesShows

LEMMA ReplaceSeatShows == ASSUME IInv, KInv, Shows, ReplaceSeat PROVE Shows'
  <1> DEFINE c == iwait.from
             r == Request("ReconnectPeer", iwait.from, None, iwait.old)
  <1>1. UNCHANGED <<stage, slots, gwait, pc, actor, role, aq, sock, client, items, chosen>>
        /\ iwait' = Serving("reconnect", c, iwait.old) /\ iwait.op = "answer"
        /\ (gq' = gq \/ gq' = Append(gq, r))
    BY DEF ReplaceSeat, introRest, actorVars, clientVars, ToServer
  <1>2. \A d \in Conns : Same(d) /\ Adds(d)
    BY <1>1, LongerSame, ShowTypes DEF Same, Adds
  <1>3. c \in Conns
    BY <1>1 DEF IInv, ReturnsAgree, SecondsReturn
  <1>4. r \in Requests /\ r.from = c /\ r.cmd # "SelectRole"
    BY <1>3, WaitTyped DEF Request, Requests, MaybeRole, IntroWaits
  <1> HIDE DEF c, r
  <1>5. Requested(c) /\ NoSelection(c)
    BY <1>1, <1>3, <1>4, IntroAsks
  <1>6. ~ Still' /\ NoneReturns'
    BY <1>1 DEF Still, NoneReturns, Serving
  <1> QED  BY <1>1, <1>2, <1>3, <1>5, <1>6, GrowingShows

LEMMA EndReconnectionShows == ASSUME IInv, KInv, Shows, EndReconnection PROVE Shows'
  <1>1. UNCHANGED <<stage, slots, gq, gwait, pc, actor, role, aq, sock, client, items, chosen>>
        /\ iwait'.op = "idle" /\ iwait.op = "reconnect" /\ iwait.got = "done"
    BY DEF EndReconnection, introRest, actorVars, clientVars, IntroIdle
  <1>2. \A d \in Conns : Same(d) /\ Adds(d)
    BY <1>1, LongerSame, ShowTypes DEF Same, Adds
  <1>3. ~ NoOneReturned /\ NoOneReturned' = NoOneReturned
    BY <1>1 DEF Shows, NoneReturns, NoOneReturned
  <1>4. ~ Still' /\ NoneReturns'
    BY <1>1, <1>3 DEF Still, NoneReturns
  <1>5. First1(0) \in Conns /\ Requested(First1(0)) /\ NoSelection(First1(0))
    BY <1>1, ConnFacts, NoneSelects DEF Requested
  <1> QED  BY <1>1, <1>2, <1>4, <1>5, GrowingShows

LEMMA TakeOverShows ==
  ASSUME IInv, KInv, Shows, Running', NEW c \in Conns, TakeOver(c) PROVE Shows'
  <1> DEFINE m == ToActor("TakePeer", {}, c)
  <1>1. UNCHANGED <<stage, slots, gq, gwait, iwait, actor, role, sock, client, items, chosen>>
        /\ Goto(c, "w_take") /\ pc[c] = "take"
        /\ aq' = [aq EXCEPT ![iwait.old] = Append(@, m)]
    BY DEF TakeOver, serverVars, clientVars, Running
  <1>2. m \in Messages /\ m \notin Tellings /\ m \notin Lists
    <2>1. m \in Messages /\ m.msg = "TakePeer"
      BY DEF ToActor, Messages, Maybe
    <2> QED  BY <2>1, MessageKinds
  <1> HIDE DEF m
  <1>3. \A d \in Conns : Adds(d)
    <2> SUFFICES ASSUME NEW d \in Conns PROVE Adds(d)
      OBVIOUS
    <2>1. aq[d] \in Seq(Messages) /\ (aq'[d] = aq[d] \/ aq'[d] = Append(aq[d], m))
      BY <1>1, PeersAreTyped DEF PeersTyped
    <2>2. /\ Longer(aq[d], aq[d], Tellings) /\ Longer(aq[d], aq[d], Lists)
          /\ Longer(aq[d], Append(aq[d], m), Tellings) /\ Longer(aq[d], Append(aq[d], m), Lists)
      BY <1>2, <2>1, AppendIsLonger
    <2>3. Append(aq[d], m) \in Seq(Messages)
      BY <1>2, <2>1
    <2> QED  BY <2>1, <2>2, <2>3 DEF Adds
  <1>4. Requested(c) /\ NoSelection(c)
    BY <1>1, NoneSelects DEF Requested
  <1>5. iwait.op = "answer" /\ iwait.got = "no" /\ iwait.from = c /\ c[2] = 2
    BY <1>1 DEF IInv, ReturnsAgree, OnlyTakeOver, SecondsReturn, OnTheWay
  <1>6. (Still' => Still) /\ NoneReturns'
    BY <1>1, <1>5 DEF Still, NoOneReturned, NoneReturns
  <1>7. pc[c] \in OnTheWay /\ "w_take" \in OnTheWay
    BY <1>1 DEF OnTheWay
  <1> QED  BY <1>1, <1>3, <1>4, <1>5, <1>6, <1>7, MovesShows

(* The new actor is not in its seat yet, when its mailbox opens. *)
LEMMA OpenMailboxShows ==
  ASSUME IInv, KInv, Shows, NEW c \in Conns, OpenMailbox(c) PROVE Shows'
  <1>1. UNCHANGED <<stage, slots, gq, gwait, role, aq, sock, client, items, chosen>>
        /\ pc[c] = "taken" /\ iwait' = [iwait EXCEPT !.got = "done"]
        /\ actor' = [actor EXCEPT ![c] = "boot"]
    BY DEF OpenMailbox, serverVars, clientVars
  <1>2. actor'[c] = "boot" /\ \A d \in Conns \ {c} : actor'[d] = actor[d]
    BY <1>1, PeersAreTyped DEF PeersTyped
  <1>3. pc'[c] = "boot" /\ \A d \in Conns \ {c} : pc'[d] = pc[d]
    BY PlaceFacts DEF OpenMailbox
  <1>4. \A d \in Conns \ {c} : Same(d) /\ Adds(d)
    BY <1>1, <1>2, <1>3, Elsewhere DEF Same
  <1>5. Requested(c)
    BY <1>1 DEF Requested
  <1>6. iwait.op = "answer" /\ iwait.from = c /\ c[2] = 2 /\ ~ InSeat(c)
    <2>1. iwait.op = "answer" /\ iwait.from = c /\ c[2] = 2
      BY <1>1 DEF IInv, ReturnsAgree, OnlyTakeOver, SecondsReturn, OnTheWay
    <2>2. ~ Entered(c)
      BY <1>1 DEF Entered, OnTheWay
    <2> QED  BY <2>1, <2>2 DEF KInv, SecondsSeats, InSeat
  <1>7. iwait'.op = "answer" /\ iwait'.got = "done"
    BY <1>1, <1>6, WaitTyped DEF IntroWaits
  <1>8. ~ Still' /\ NoneReturns'
    BY <1>7 DEF Still, NoneReturns
  <1>9. InStep(c)' /\ Unspoken(c)' /\ Welcome(c)'
    BY <1>1, <1>2, <1>3, <1>6
       DEF Shows, ShowsAt, InStep, Unspoken, Welcome, Before, OnTheWay, InSeat
  <1>10. ShowsAt(c)'
    BY <1>3, <1>6, <1>9, SilentShows
  <1> QED  BY <1>1, <1>4, <1>5, <1>8, <1>10, OneShows

LEMMA ToTheGameShows ==
  ASSUME IInv, KInv, Shows, NEW c \in Conns, OpenGame(c) \/ EnterTheGame(c) PROVE Shows'
  <1>1. PICK place \in {"startGame", "game"} : Goto(c, place)
    BY DEF OpenGame, EnterTheGame
  <1>2. UNCHANGED <<stage, slots, gq, gwait, iwait, actor, role, aq, sock, client, items, chosen>>
        /\ pc[c] \in {"toGame", "startGame"}
    BY DEF OpenGame, EnterTheGame, serverVars, actorVars, clientVars
  <1>3. \A d \in Conns : Adds(d)
    BY <1>2, LongerSame, ShowTypes DEF Adds
  <1>4. Requested(c) /\ NoSelection(c)
    BY <1>2, NoneSelects DEF Requested
  <1>5. stage # "roles"
    BY <1>2 DEF KInv, Starting, InGame, Settled
  <1>6. (Still' => Still) /\ NoneReturns'
    <2>1. \A d \in Conns : pc'[d] = "taken" <=> pc[d] = "taken"
      BY <1>1, <1>2, PlaceFacts
    <2>2. iwait.op = "answer" => iwait.from \in Conns
      BY DEF IInv, ReturnsAgree, SecondsReturn
    <2> QED  BY <1>2, <2>1, <2>2 DEF Still, NoOneReturned, NoneReturns, Shows
  <1>7. /\ place \notin Before \cup {"roles", "ended"}
        /\ pc[c] \notin Before \cup {"roles", "ended"}
    BY <1>1, <1>2 DEF Before, OnTheWay
  <1> QED  BY <1>1, <1>2, <1>3, <1>4, <1>5, <1>6, <1>7, MovesShows

(* Nothing of a reconnection moves. *)
LEMMA StillStays ==
  ASSUME IInv, Shows, UNCHANGED <<slots, iwait>>,
         \A d \in Conns : pc[d] = "taken" => pc'[d] = "taken"
  PROVE  (Still' => Still) /\ NoneReturns'
  <1>1. iwait.op = "answer" => iwait.from \in Conns
    BY DEF IInv, ReturnsAgree, SecondsReturn
  <1> QED  BY <1>1 DEF Still, NoOneReturned, NoneReturns, Shows

(* The actor starts: nothing is on its way to the client, which has been given   *)
(* the role that the peer came with.                                       *)
LEMMA SpawnActorShows ==
  ASSUME IInv, KInv, Shows, NEW c \in Conns, SpawnActor(c) PROVE Shows'
  <1>1. UNCHANGED <<stage, slots, gq, gwait, iwait, role, aq, sock, client, items>>
        /\ pc[c] = "boot" /\ actor' = [actor EXCEPT ![c] = "on"]
        /\ chosen' = IF client[c] = "on" THEN [chosen EXCEPT ![c] = role[c]] ELSE chosen
    BY DEF SpawnActor, serverVars
  <1>2. /\ actor'[c] = "on" /\ (client[c] = "on" => chosen'[c] = role[c])
        /\ \A d \in Conns \ {c} : actor'[d] = actor[d] /\ chosen'[d] = chosen[d]
    BY <1>1, PeersAreTyped DEF PeersTyped
  <1>3. pc'[c] = "roles" /\ \A d \in Conns \ {c} : pc'[d] = pc[d]
    BY PlaceFacts DEF SpawnActor
  <1>4. \A d \in Conns \ {c} : Same(d) /\ Adds(d)
    BY <1>1, <1>2, <1>3, Elsewhere DEF Same
  <1>5. Requested(c)
    BY <1>1 DEF Requested
  <1>6. (Still' => Still) /\ NoneReturns'
    BY <1>1, <1>3, StillStays
  <1>7. InStep(c) /\ Unspoken(c) /\ ListComes(c)
    BY DEF Shows, ShowsAt
  <1>8. InStep(c)' /\ Unspoken(c)' /\ Welcome(c)'
    BY <1>1, <1>2, <1>3, <1>7 DEF InStep, Unspoken, Welcome, Before, OnTheWay
  <1>9. RoleComes(c)'
    <2>1. sock[c] = <<>> /\ NoneOf(aq[c], Tellings)
      BY <1>1, <1>7 DEF Unspoken, Before
    <2>2. NoneOf(sock[c], Tellings)
      BY <2>1 DEF NoneOf
    <2> QED  BY <1>1, <1>2, <2>1, <2>2 DEF RoleComes, Comes
  <1>10. ListComes(c)'
    <2>1. Longer(aq[c], aq'[c], Lists) /\ aq'[c] \in Seq(Messages)
      BY <1>1, LongerSame, ShowTypes
    <2>2. Taken' = Taken /\ (Telling => Telling') /\ SeatStays(c)
      BY <1>1 DEF Taken, RoleOf, Telling, SeatStays, InSeat
    <2> QED  BY <1>1, <1>6, <1>7, <2>1, <2>2, ListStays
  <1> QED  BY <1>1, <1>4, <1>5, <1>6, <1>8, <1>9, <1>10, OneShows DEF ShowsAt

(* A connection ends, or the actor of one that has ended or ends. *)
LEMMA EndsShows ==
  ASSUME IInv, Shows, NEW c \in Conns, UNCHANGED <<stage, slots, gwait, iwait, role>>,
         \A d \in Conns \ {c} : Same(d) /\ aq'[d] = aq[d],
         pc'[c] = "ended", pc[c] # "taken", client'[c] = "off",
         actor'[c] \notin {"boot", "on"} \/ (actor'[c] = actor[c] /\ pc[c] # "boot"),
         Requested(c)
  PROVE  Shows'
  <1>1. \A d \in Conns \ {c} : Same(d) /\ Adds(d)
    BY Elsewhere
  <1>2. (Still' => Still) /\ NoneReturns'
    BY StillStays DEF Same
  <1>3. InStep(c) /\ actor[c] \in {"none", "boot", "on", "over", "dead"}
    BY PeersAreTyped DEF Shows, ShowsAt, PeersTyped
  <1>4. InStep(c)' /\ Unspoken(c)' /\ Welcome(c)'
    BY <1>3 DEF InStep, Unspoken, Welcome, Before, OnTheWay
  <1>5. ShowsAt(c)'
    BY <1>4, SilentShows
  <1> QED  BY <1>1, <1>2, <1>5, OneShows

LEMMA DeadFacts ==
  ASSUME IInv, NEW c \in Conns, actor' = [actor EXCEPT ![c] = "dead"],
         aq' = aq \/ aq' = [aq EXCEPT ![c] = <<>>]
  PROVE  actor'[c] = "dead" /\ \A d \in Conns \ {c} : actor'[d] = actor[d] /\ aq'[d] = aq[d]
  BY PeersAreTyped DEF PeersTyped

LEMMA StartFailsShows ==
  ASSUME IInv, KInv, Shows, NEW c \in Conns, StartFails(c) PROVE Shows'
  <1>1. /\ UNCHANGED <<stage, slots, gq, gwait, iwait, role, sock, client, items, chosen>>
        /\ pc[c] = "boot" /\ client[c] = "off"
    BY DEF StartFails, serverVars, clientVars
  <1>2. pc'[c] = "ended" /\ \A d \in Conns \ {c} : pc'[d] = pc[d]
    BY PlaceFacts DEF StartFails
  <1>3. actor'[c] = "dead" /\ \A d \in Conns \ {c} : actor'[d] = actor[d] /\ aq'[d] = aq[d]
    BY DeadFacts DEF StartFails, Die
  <1>4. \A d \in Conns \ {c} : Same(d) /\ aq'[d] = aq[d]
    BY <1>1, <1>2, <1>3 DEF Same
  <1>5. Requested(c)
    BY <1>1 DEF Requested
  <1> QED  BY <1>1, <1>2, <1>3, <1>4, <1>5, EndsShows

LEMMA EndWithoutHandlesShows ==
  ASSUME IInv, KInv, Shows, NEW c \in Conns, EndWithoutHandles(c) PROVE Shows'
  <1>1. /\ UNCHANGED <<stage, slots, gq, gwait, iwait, role, aq, pc, sock, client, items, chosen>>
        /\ pc[c] = "ended"
    BY DEF EndWithoutHandles, serverVars, connVars, clientVars
  <1>2. actor'[c] = "dead" /\ \A d \in Conns \ {c} : actor'[d] = actor[d] /\ aq'[d] = aq[d]
    BY DeadFacts DEF EndWithoutHandles
  <1>3. \A d \in Conns \ {c} : Same(d) /\ aq'[d] = aq[d]
    BY <1>1, <1>2 DEF Same
  <1>4. Requested(c)
    BY <1>1 DEF Requested
  <1>5. client[c] = "off"
    BY <1>1 DEF Shows, ShowsAt, InStep
  <1> QED  BY <1>1, <1>2, <1>3, <1>4, <1>5, EndsShows

LEMMA EndShows == ASSUME IInv, KInv, Shows, NEW c \in Conns, End(c) PROVE Shows'
  <1>1. /\ UNCHANGED <<stage, slots, gwait, iwait, role, actor, aq, items, chosen>>
        /\ pc[c] \in {"entering", "w_handle", "roles", "game"}
        /\ client' = [client EXCEPT ![c] = "off"] /\ sock' = [sock EXCEPT ![c] = <<>>]
    BY DEF End, actorVars
  <1>2. pc'[c] = "ended" /\ \A d \in Conns \ {c} : pc'[d] = pc[d]
    BY PlaceFacts DEF End
  <1>3. client'[c] = "off" /\ \A d \in Conns \ {c} : client'[d] = client[d] /\ sock'[d] = sock[d]
    BY <1>1, PeersAreTyped DEF PeersTyped
  <1>4. \A d \in Conns \ {c} : Same(d) /\ aq'[d] = aq[d]
    BY <1>1, <1>2, <1>3 DEF Same
  <1>5. Requested(c)
    <2>1. Command("DropPeer", c) \in Requests /\ Command("DropPeer", c).from = c
      BY DEF Command, Request, Requests, MaybeRole, Maybe
    <2>2. gq' = gq \/ gq' = Append(gq, Command("DropPeer", c))
      BY DEF End, ToServer
    <2> QED  BY <2>1, <2>2 DEF Requested
  <1> QED  BY <1>1, <1>2, <1>3, <1>4, <1>5, EndsShows

LEMMA ReadShows == ASSUME IInv, KInv, Shows, NEW c \in Conns, Read(c) PROVE Shows'
  <1>1. /\ UNCHANGED <<stage, slots, gwait, iwait, role, actor, aq, pc, sock, client, items, chosen>>
        /\ pc[c] = "roles" /\ cin[c] # <<>>
    BY DEF Read, actorVars, connVars
  <1>2. \A d \in Conns : Same(d) /\ Adds(d)
    BY <1>1, LongerSame, ShowTypes DEF Same, Adds
  <1>3. Requested(c)
    <2>1. Head(cin[c]) \in RoleNames \cup {"StartGame"}
      BY <1>1, PeersAreTyped, ChannelTyped DEF PeersTyped
    <2>2. CASE Head(cin[c]) = "StartGame"
      <3>1. Command("StartGame", c) \in Requests /\ Command("StartGame", c).from = c
        BY DEF Command, Request, Requests, MaybeRole, Maybe
      <3> QED  BY <2>2, <3>1 DEF Read, ToServer, Requested
    <2>3. CASE Head(cin[c]) # "StartGame"
      <3> DEFINE r == Request("SelectRole", c, Head(cin[c]), NoConn)
      <3>1. r \in Requests /\ r.from = c
        BY <2>1, <2>3 DEF Request, Requests, MaybeRole, Maybe
      <3>2. gq' = gq \/ gq' = Append(gq, r)
        BY <2>3 DEF Read, ToServer
      <3> QED  BY <3>1, <3>2 DEF Requested
    <2> QED  BY <2>2, <2>3
  <1>4. (Still' => Still) /\ NoneReturns'
    BY <1>1, StillStays
  <1>5. pc[c] \notin Before
    BY <1>1 DEF Before, OnTheWay
  <1> QED  BY <1>1, <1>2, <1>3, <1>4, <1>5, GrowingShows

(* The client reads a message: it is what is told last, or another comes.     *)
LEMMA ForwardShows == ASSUME IInv, KInv, Shows, NEW c \in Conns, Forward(c) PROVE Shows'
  <1> DEFINE m == Head(sock[c])
  <1>1. /\ UNCHANGED <<stage, slots, gq, gwait, iwait, role, actor, aq, pc, client>>
        /\ pc[c] = "roles" /\ sock[c] # <<>> /\ sock' = [sock EXCEPT ![c] = Tail(@)]
        /\ chosen' = IF client[c] = "on" /\ m.msg = "SelectedStatus" /\ m.what # {}
                     THEN [chosen EXCEPT ![c] = CHOOSE r \in m.what : TRUE] ELSE chosen
        /\ items' = IF client[c] = "on" /\ m.msg = "AvailableRoles"
                    THEN [items EXCEPT ![c] = m.what] ELSE items
    BY DEF Forward, serverVars, actorVars
  <1>2. sock[c] \in Seq(Messages) /\ m \in Messages /\ aq[c] \in Seq(Messages)
    BY <1>1, ShowTypes, PeersAreTyped, ChannelTyped DEF PeersTyped
  <1> HIDE DEF m
  <1>3. /\ sock'[c] = Tail(sock[c])
        /\ client[c] = "on" =>
             /\ TellsRole(m) => chosen'[c] = CHOOSE r \in m.what : TRUE
             /\ ~ TellsRole(m) => chosen'[c] = chosen[c]
             /\ m.msg = "AvailableRoles" => items'[c] = m.what
             /\ m.msg # "AvailableRoles" => items'[c] = items[c]
    BY <1>1, PeersAreTyped DEF PeersTyped, TellsRole
  <1>4. \A d \in Conns \ {c} : sock'[d] = sock[d] /\ chosen'[d] = chosen[d] /\ items'[d] = items[d]
    BY <1>1, PeersAreTyped DEF PeersTyped
  <1>5. \A d \in Conns \ {c} : Same(d) /\ Adds(d)
    BY <1>1, <1>4, Elsewhere DEF Same
  <1>6. Requested(c) /\ (Still' => Still) /\ NoneReturns'
    BY <1>1, StillStays DEF Requested
  <1>7. InStep(c) /\ RoleComes(c) /\ ListComes(c)
    BY DEF Shows, ShowsAt
  <1>8. InStep(c)' /\ Unspoken(c)' /\ Welcome(c)'
    BY <1>1, <1>7 DEF InStep, Unspoken, Welcome, Before, OnTheWay
  <1>9. RoleComes(c)'
    <2> SUFFICES ASSUME stage = "roles", client[c] = "on", ~ JustSet(c)
                 PROVE  Comes(aq[c], Tail(sock[c]), Tellings, {role[c]}, chosen'[c] = role[c])
      BY <1>1, <1>3 DEF RoleComes, JustSet, InSeat
    <2>1. Comes(aq[c], sock[c], Tellings, {role[c]}, chosen[c] = role[c])
      BY <1>1, <1>7 DEF RoleComes
    <2>2. ASSUME m \in Tellings, m.what = {role[c]} PROVE chosen'[c] = role[c]
      <3>1. (CHOOSE r \in {role[c]} : TRUE) = role[c]
        OBVIOUS
      <3> QED  BY <1>3, <2>2, <3>1 DEF Tellings
    <2>3. m \notin Tellings /\ chosen[c] = role[c] => chosen'[c] = role[c]
      BY <1>2, <1>3 DEF Tellings
    <2> QED  BY <1>1, <1>2, <2>1, <2>2, <2>3, ComesRead DEF m
  <1>10. ListComes(c)'
    <2> SUFFICES ASSUME stage = "roles", Still, InSeat(c), slots[Owner(c)].online,
                        client[c] = "on", ~ Telling
                 PROVE  Comes(aq[c], Tail(sock[c]), Lists, Taken, items'[c] = Taken)
      <3>1. Taken' = Taken /\ Telling' = Telling /\ InSeat(c)' = InSeat(c)
        BY <1>1 DEF Taken, RoleOf, Telling, InSeat
      <3> QED  BY <1>1, <1>3, <1>6, <3>1 DEF ListComes
    <2>1. Comes(aq[c], sock[c], Lists, Taken, items[c] = Taken)
      BY <1>7 DEF ListComes
    <2>2. m \in Lists /\ m.what = Taken => items'[c] = Taken
      BY <1>3 DEF Lists
    <2>3. m \notin Lists /\ items[c] = Taken => items'[c] = Taken
      BY <1>2, <1>3 DEF Lists
    <2> QED  BY <1>1, <1>2, <2>1, <2>2, <2>3, ComesRead DEF m
  <1> QED  BY <1>1, <1>5, <1>6, <1>8, <1>9, <1>10, OneShows DEF ShowsAt

(* What is last told goes on from the mailbox to the channel. *)
LEMMA SendTcpShows ==
  ASSUME IInv, KInv, Shows, Running', NEW c \in Conns, SendTcp(c) PROVE Shows'
  <1> DEFINE m == Head(aq[c])
  <1>1. /\ UNCHANGED <<stage, slots, gq, gwait, iwait, role, pc, client, items, chosen>>
        /\ actor[c] = "on" /\ aq[c] # <<>>
    BY DEF SendTcp, Handles, serverVars, clientVars
  <1>2. InStep(c) /\ RoleComes(c) /\ ListComes(c) /\ Requested(c)
        /\ (Still' => Still) /\ NoneReturns'
    BY <1>1, StillStays DEF Shows, ShowsAt, Requested
  <1>3. CASE pc[c] = "ended"
    <2>1. /\ actor' = [actor EXCEPT ![c] = "dead"] /\ aq' = [aq EXCEPT ![c] = <<>>]
          /\ sock' = sock
      BY <1>3 DEF SendTcp, Die
    <2>2. actor'[c] = "dead" /\ \A d \in Conns \ {c} : actor'[d] = actor[d] /\ aq'[d] = aq[d]
      BY <2>1, DeadFacts
    <2>3. client[c] = "off"
      BY <1>2, <1>3 DEF InStep
    <2>4. \A d \in Conns \ {c} : Same(d) /\ aq'[d] = aq[d]
      BY <1>1, <2>1, <2>2 DEF Same
    <2> QED  BY <1>1, <1>2, <1>3, <2>2, <2>3, <2>4, EndsShows
  <1>4. CASE pc[c] # "ended"
    <2>1. /\ aq' = [aq EXCEPT ![c] = Tail(@)] /\ actor' = actor
          /\ sock' = IF m.msg = "Chat" THEN sock ELSE [sock EXCEPT ![c] = Append(@, m)]
      BY <1>4 DEF SendTcp
    <2>2. aq[c] \in Seq(Messages) /\ sock[c] \in Seq(Messages) /\ m \in Messages
      BY <1>1, ShowTypes, PeersAreTyped, ChannelTyped DEF PeersTyped
    <2> HIDE DEF m
    <2>3. /\ aq'[c] = Tail(aq[c])
          /\ sock'[c] = IF m.msg = "Chat" THEN sock[c] ELSE Append(sock[c], m)
          /\ \A d \in Conns \ {c} : aq'[d] = aq[d] /\ sock'[d] = sock[d]
      BY <2>1, PeersAreTyped DEF PeersTyped
    <2>4. \A d \in Conns \ {c} : Same(d) /\ Adds(d)
      BY <1>1, <2>1, <2>3, Elsewhere DEF Same
    <2>5. pc[c] = "roles"
      BY <1>1, <1>2, <1>4 DEF InStep
    <2>6. InStep(c)' /\ Unspoken(c)' /\ Welcome(c)'
      BY <1>1, <1>2, <2>1, <2>5 DEF InStep, Unspoken, Welcome, Before, OnTheWay
    <2>7. ASSUME NEW K, K = Tellings \/ K = Lists, NEW w, NEW now, Comes(aq[c], sock[c], K, w, now)
          PROVE  Comes(aq'[c], sock'[c], K, w, now)
      <3>1. CASE m.msg = "Chat"
        <4>1. m \notin K
          BY <2>2, <2>7, <3>1, MessageKinds
        <4> QED  BY <1>1, <2>2, <2>3, <2>7, <3>1, <4>1, ComesTaken DEF m
      <3>2. CASE m.msg # "Chat"
        BY <1>1, <2>2, <2>3, <2>7, <3>2, ComesSent DEF m
      <3> QED  BY <3>1, <3>2
    <2>8. RoleComes(c)'
      BY <1>1, <1>2, <2>7 DEF RoleComes, JustSet, InSeat
    <2>9. ListComes(c)'
      <3>1. Taken' = Taken /\ Telling' = Telling /\ InSeat(c)' = InSeat(c)
        BY <1>1 DEF Taken, RoleOf, Telling, InSeat
      <3> QED  BY <1>1, <1>2, <2>7, <3>1 DEF ListComes
    <2> QED  BY <1>1, <1>2, <2>4, <2>6, <2>8, <2>9, OneShows DEF ShowsAt
  <1> QED  BY <1>3, <1>4

LEMMA BeginGameShows ==
  ASSUME IInv, KInv, Shows, Running', NEW c \in Conns, BeginGame(c) PROVE Shows'
  <1>1. /\ UNCHANGED <<stage, slots, gq, gwait, iwait, role, client, items, chosen>>
        /\ actor[c] = "on" /\ aq[c] # <<>> /\ Head(aq[c]).msg = "StartGame"
        /\ pc[c] = "roles" /\ Goto(c, "toGame")
        /\ actor' = [actor EXCEPT ![c] = "over"] /\ aq' = [aq EXCEPT ![c] = Tail(@)]
        /\ sock' = [sock EXCEPT ![c] = <<>>]
    BY DEF BeginGame, Handles, serverVars, clientVars, Running
  <1>2. pc'[c] = "toGame" /\ \A d \in Conns \ {c} : pc'[d] = pc[d]
    BY <1>1, PlaceFacts
  <1>3. /\ actor'[c] = "over"
        /\ \A d \in Conns \ {c} : actor'[d] = actor[d] /\ aq'[d] = aq[d] /\ sock'[d] = sock[d]
    BY <1>1, PeersAreTyped DEF PeersTyped
  <1>4. \A d \in Conns \ {c} : Same(d) /\ Adds(d)
    BY <1>1, <1>2, <1>3, Elsewhere DEF Same
  <1>5. Requested(c) /\ (Still' => Still) /\ NoneReturns'
    BY <1>1, <1>2, StillStays DEF Requested
  <1>6. stage # "roles"
    <2>1. 1 \in 1 .. Len(aq[c]) /\ Head(aq[c]) = aq[c][1]
      BY <1>1, ShowTypes
    <2> QED  BY <1>1, <2>1 DEF KInv, Starting
  <1>7. InStep(c)' /\ Unspoken(c)' /\ Welcome(c)'
    BY <1>1, <1>2, <1>3 DEF Shows, ShowsAt, InStep, Unspoken, Welcome, Before, OnTheWay
  <1>8. ShowsAt(c)'
    BY <1>1, <1>6, <1>7, SilentShows
  <1> QED  BY <1>1, <1>4, <1>5, <1>8, OneShows

(* An answer to the server: a role that is set is shown only after the server    *)
(* has told so; and a role that is collected is not set until all are told.  *)
LEMMA AnswerServerShows ==
  ASSUME IInv, KInv, Shows, NEW c \in Conns, AnswerServer(c) PROVE Shows'
  <1> DEFINE m == Head(aq[c])
             answer == IF m.msg = "GetRole" THEN role[c] ELSE "done"
  <1>1. /\ UNCHANGED <<stage, slots, gq, iwait, actor, pc, sock, client, items, chosen>>
        /\ actor[c] = "on" /\ aq[c] # <<>> /\ aq' = [aq EXCEPT ![c] = Tail(@)]
        /\ m.msg \in Questions
        /\ role' = IF m.msg = "SelectRole"
                   THEN [role EXCEPT ![c] = CHOOSE r \in m.what : TRUE] ELSE role
        /\ gwait' = [gwait EXCEPT !.got[SeatOf(c)] = answer]
    BY DEF AnswerServer, Handles, Reply, Questions, connVars, clientVars
  <1>2. aq[c] \in Seq(Messages) /\ m = aq[c][1] /\ 1 \in 1 .. Len(aq[c]) /\ Owner(c) \in Players
        /\ m \in Messages
    BY <1>1, ShowTypes
  <1>3. /\ InSeat(c) /\ Owner(c) \in gwait.of /\ gwait.got[Owner(c)] = Pending
        /\ Asks(gwait.op, m.msg)
        /\ m.msg = "SelectRole" => m.what = {gq[1].what}
    BY <1>1, <1>2 DEF IInv, OneQuestion, InSeat
  <1> HIDE DEF m
  <1>4. SeatOf(c) = Owner(c)
    <2>1. c \in Seated
      BY <1>2, <1>3 DEF InSeat, Seated
    <2> QED  BY <2>1, SeatOfOwner DEF IInv
  <1>5. /\ gwait'.op = gwait.op /\ gwait'.of = gwait.of
        /\ gwait'.got[Owner(c)] = answer
        /\ \A p \in Players : p # Owner(c) => gwait'.got[p] = gwait.got[p]
    BY <1>1, <1>2, <1>4 DEF IInv, Typed
  <1>6. /\ m.msg = "SelectRole" => role'[c] = gq[1].what
        /\ m.msg # "SelectRole" => role' = role
        /\ \A d \in Conns \ {c} : role'[d] = role[d]
    <2>1. m.msg = "SelectRole" => (CHOOSE r \in m.what : TRUE) = gq[1].what
      BY <1>3
    <2> QED  BY <1>1, <2>1, ShowTypes
  <1>7. aq'[c] = Tail(aq[c]) /\ aq'[c] \in Seq(Messages) /\ \A d \in Conns \ {c} : aq'[d] = aq[d]
    BY <1>1, <1>2, PeersAreTyped DEF PeersTyped
  <1>8. m \notin Tellings /\ m \notin Lists
    BY <1>1, NotAsked
  <1>9. /\ m.msg = "SelectRole" => gwait.op = "set" /\ answer = "done"
        /\ m.msg # "SelectRole" => gwait.op # "set"
        /\ gwait.op = "collect" => m.msg = "GetRole"
    BY <1>3 DEF Asks, GetsRole
  <1> HIDE DEF answer
  <1>10. /\ \A d \in Conns \ {c} : JustSet(d)' <=> JustSet(d)
         /\ m.msg = "SelectRole" => JustSet(c)'
         /\ m.msg # "SelectRole" => ~ JustSet(c)' /\ ~ JustSet(c)
    <2>1. \A d \in Conns \ {c} : InSeat(d) => Owner(d) # Owner(c)
      BY <1>3 DEF InSeat
    <2>2. \A d \in Conns : Owner(d) \in Players
      BY ShowTypes
    <2>3. \A d \in Conns : InSeat(d)' = InSeat(d)
      BY <1>1 DEF InSeat
    <2>4. \A d \in Conns \ {c} : JustSet(d)' <=> JustSet(d)
      BY <1>5, <2>1, <2>2, <2>3 DEF JustSet
    <2>5. m.msg = "SelectRole" => JustSet(c)'
      BY <1>3, <1>5, <1>9, <2>3 DEF JustSet, Pending
    <2> QED  BY <1>5, <1>9, <2>4, <2>5 DEF JustSet
  <1>11. /\ m.msg = "SelectRole" => Telling'
         /\ Telling => Telling'
    <2>1. gwait.of \subseteq Players
      BY DEF IInv, Typed, TypeOK
    <2> QED  BY <1>3, <1>5, <1>9, <2>1 DEF Telling, Pending
  <1>12. ~ Telling' => Taken' = Taken /\ role' = role
    BY <1>1, <1>6, <1>11 DEF Taken, RoleOf
  <1>13. Still' = Still
    BY <1>1 DEF Still, NoOneReturned
  <1>14. SetRight'
    BY <1>1, <1>6, <1>10 DEF Shows, SetRight
  <1>15. NoneReturns'
    BY <1>1 DEF Shows, NoneReturns, NoOneReturned
  <1>16. CollectRight'
    <2> SUFFICES ASSUME Still, gwait.op = "collect", NEW p \in Players, gwait'.got[p] # Pending
                 PROVE  gwait'.got[p] = RoleOf(p)'
      BY <1>5, <1>13 DEF CollectRight
    <2>1. m.msg = "GetRole" /\ role' = role /\ slots' = slots
      BY <1>1, <1>6, <1>9
    <2>2. CASE p = Owner(c)
      BY <1>3, <1>5, <2>1, <2>2 DEF RoleOf, InSeat, answer
    <2>3. CASE p # Owner(c)
      BY <1>5, <2>1, <2>3 DEF RoleOf, Shows, CollectRight
    <2> QED  BY <2>2, <2>3
  <1>17. ASSUME NEW d \in Conns \ {c} PROVE ShowsAt(d)'
    <2>1. ShowsAt(d) /\ NoSelection(d)
      BY <1>1, NoneSelects DEF Shows
    <2>2. aq'[d] \in Seq(Messages) /\ Longer(aq[d], aq'[d], Tellings) /\ Longer(aq[d], aq'[d], Lists)
      BY <1>7, LongerSame, ShowTypes
    <2>3. InStep(d)' /\ Unspoken(d)' /\ Welcome(d)'
      BY <1>1, <2>1, <2>2, PlaceStays DEF ShowsAt, InSeat
    <2>4. RoleComes(d)'
      BY <1>1, <1>6, <1>10, <2>1, <2>2, RoleStays DEF ShowsAt, SameTold, SameRole
    <2>5. ListComes(d)'
      <3>1. SeatStays(d)
        BY <1>1 DEF SeatStays, InSeat
      <3> QED  BY <1>1, <1>11, <1>12, <1>13, <2>1, <2>2, <3>1, ListStays DEF ShowsAt
    <2> QED  BY <2>3, <2>4, <2>5 DEF ShowsAt
  <1>18. ShowsAt(c)'
    <2>1. InStep(c) /\ RoleComes(c) /\ ListComes(c)
      BY DEF Shows, ShowsAt
    <2>2. InStep(c)' /\ Unspoken(c)' /\ Welcome(c)'
      BY <1>1, <2>1 DEF InStep, Unspoken, Welcome, Before, OnTheWay
    <2>3. ASSUME NEW K, m \notin K, NEW w, NEW now, Comes(aq[c], sock[c], K, w, now)
          PROVE  Comes(aq'[c], sock[c], K, w, now)
      BY <1>1, <1>2, <1>7, <2>3, ComesTaken DEF m
    <2>4. RoleComes(c)'
      BY <1>1, <1>6, <1>8, <1>10, <2>1, <2>3 DEF RoleComes
    <2>5. ListComes(c)'
      <3>1. InSeat(c)' = InSeat(c)
        BY <1>1 DEF InSeat
      <3> QED  BY <1>1, <1>8, <1>11, <1>12, <1>13, <2>1, <2>3, <3>1 DEF ListComes
    <2> QED  BY <2>2, <2>4, <2>5 DEF ShowsAt
  <1> QED  BY <1>14, <1>15, <1>16, <1>17, <1>18 DEF Shows

(* The seat whose role is set is that of the command's sender. *)
LEMMA JustSetHead ==
  ASSUME IInv, KInv, NEW d \in Conns, JustSet(d)
  PROVE  1 \in 1 .. Len(gq) /\ gq[1].from = d /\ gq[1].cmd = "SelectRole"
  <1>1. 1 \in 1 .. Len(gq) /\ gwait.op = "set" /\ gq[1].cmd = "SelectRole"
    BY ShowTypes DEF JustSet, IInv, HeadServed, Serves
  <1>2. gwait.of = {Owner(gq[1].from)} /\ slots[Owner(gq[1].from)].conn = gq[1].from
    BY <1>1 DEF KInv, OwnSeat
  <1> QED  BY <1>1, <1>2 DEF JustSet, InSeat

(* The peer moves; the client of the old connection has gone. *)
LEMMA AnswerTakePeerShows ==
  ASSUME IInv, KInv, Shows, NEW c \in Conns, AnswerTakePeer(c) PROVE Shows'
  <1>1. /\ UNCHANGED <<stage, slots, gq, gwait, iwait, actor, sock, client, items, chosen>>
        /\ aq[c] # <<>> /\ Head(aq[c]).msg = "TakePeer" /\ aq' = [aq EXCEPT ![c] = Tail(@)]
        /\ MovesTo(c, Head(aq[c]).conn) /\ Goto(Head(aq[c]).conn, "taken")
    BY DEF AnswerTakePeer, Handles, serverVars, clientVars
  <1>2. Head(aq[c]) = aq[c][1] /\ 1 \in 1 .. Len(aq[c])
    BY <1>1, ShowTypes
  <1>3. PICK new \in Conns : /\ pc[new] = "w_take" /\ c = First1(Owner(new))
                             /\ MovesTo(c, new) /\ Goto(new, "taken")
    BY <1>1, <1>2 DEF IInv, ReturnsAgree, OnlyTakeOver, KInv, SecondsSeats
  <1>4. new[2] = 2 /\ iwait.op = "answer" /\ iwait.from = new
    BY <1>3 DEF IInv, ReturnsAgree, SecondsReturn, OnlyTakeOver, OnTheWay
  <1>5. c # new /\ Owner(c) = Owner(new) /\ Owner(new) \in Players
    BY <1>3, <1>4, ConnFacts DEF First1
  <1>6. pc[c] = "ended" /\ \A i \in 1 .. Len(gq) : gq[i].from = c => gq[i].cmd # "SelectRole"
    <2>1. client[new] # "none"
      BY <1>3 DEF Shows, ShowsAt, InStep
    <2>2. Back(Owner(new))
      BY <1>3, <1>4, <2>1 DEF Back
    <2> QED  BY <1>3, <1>5, <2>2 DEF KInv, FirstsGone, Gone
  <1>7. \A i \in 1 .. Len(gq) : gq[i].from = new => gq[i].cmd # "SelectRole"
    BY <1>3 DEF Shows, ShowsAt, Unspoken, Before, OnTheWay
  <1>8. ~ JustSet(c) /\ ~ JustSet(new)
    BY <1>3, <1>6, <1>7, JustSetHead
  <1>9. /\ pc'[new] = "taken" /\ \A d \in Conns \ {new} : pc'[d] = pc[d]
        /\ \A d \in Conns \ {c, new} : role'[d] = role[d]
        /\ \A d \in Conns \ {c} : aq'[d] = aq[d]
    BY <1>1, <1>3, PlaceFacts, PeersAreTyped DEF MovesTo, PeersTyped
  <1>10. \A d \in Conns : JustSet(d)' = JustSet(d)
    BY <1>1 DEF JustSet, InSeat
  <1>11. ~ Still'
    BY <1>1, <1>4, <1>9 DEF Still
  <1>12. SetRight' /\ NoneReturns' /\ CollectRight'
    <2>1. SetRight'
      BY <1>1, <1>8, <1>9, <1>10 DEF Shows, SetRight
    <2> QED  BY <1>1, <1>4, <1>11, <2>1 DEF NoneReturns, CollectRight
  <1>13. \A d \in Conns : ListComes(d)'
    BY <1>11 DEF ListComes
  <1>14. ASSUME NEW d \in Conns \ {c, new} PROVE ShowsAt(d)'
    <2>1. ShowsAt(d) /\ NoSelection(d)
      BY <1>1, NoneSelects DEF Shows
    <2>2. aq'[d] \in Seq(Messages) /\ Longer(aq[d], aq'[d], Tellings)
      BY <1>9, LongerSame, ShowTypes
    <2>3. InStep(d)' /\ Unspoken(d)' /\ Welcome(d)'
      BY <1>1, <1>9, <2>1, <2>2, PlaceStays DEF ShowsAt, InSeat
    <2>4. RoleComes(d)'
      BY <1>1, <1>9, <1>10, <2>1, <2>2, RoleStays DEF ShowsAt, SameTold, SameRole
    <2> QED  BY <1>13, <2>3, <2>4 DEF ShowsAt
  <1>15. ShowsAt(c)'
    <2>1. pc'[c] = "ended"
      BY <1>5, <1>6, <1>9
    <2>2. InStep(c)' /\ Unspoken(c)' /\ Welcome(c)' /\ RoleComes(c)'
      BY <1>1, <1>6, <2>1
         DEF Shows, ShowsAt, InStep, Unspoken, Welcome, Before, OnTheWay, RoleComes
    <2> QED  BY <1>13, <2>2 DEF ShowsAt
  <1>16. ShowsAt(new)'
    <2>1. InStep(new) /\ Unspoken(new)
      BY <1>3 DEF Shows, ShowsAt
    <2>2. aq'[new] = aq[new]
      BY <1>3, <1>5, <1>9
    <2>3. InStep(new)' /\ Unspoken(new)' /\ Welcome(new)'
      BY <1>1, <1>3, <1>9, <2>1, <2>2 DEF InStep, Unspoken, Welcome, Before, OnTheWay
    <2>4. RoleComes(new)'
      BY <1>9 DEF RoleComes
    <2> QED  BY <1>3, <1>13, <2>3, <2>4 DEF ShowsAt
  <1> QED  BY <1>12, <1>14, <1>15, <1>16 DEF Shows

-------------------------------------------------------------------------------
(* The theorem about what clients show.                                    *)

LEMMA NextRuns == Next => Running
  <1>1. RolesServerNext => Running
    BY DEF RolesServerNext, Receive, Answered, SelectRole, SearchOn, RoleIsTaken, RoleIsFree,
           RoleIsSet, TellOthers, TellRoles, StartGame, NextHasRole, NotAllHaveRoles,
           AllHaveRoles, TakeStart, RunGame, DropPeer, MarkOffline, SearchHandle,
           SearchHandleOn, HandleFound, ReconnectPeer, Rejoined
  <1>2. IntroNext => Running
    BY DEF IntroNext, EnterGame, HandOver, ReplaceSeat, EndReconnection
  <1>3. \A c \in Conns : PeerNext(c) => Running
    BY DEF PeerNext, Handles, TakeOver, OpenMailbox, SpawnActor, StartFails, Forward, Read,
           End, OpenGame, EnterTheGame, AnswerServer, AnswerTakePeer, SendTcp, BeginGame,
           EndWithoutHandles
  <1>4. \A c \in Conns : ClientNext(c) => Running
    BY DEF ClientNext, Confirm, PressStart, Quit, Return
  <1> QED  BY <1>1, <1>2, <1>3, <1>4 DEF Next

LEMMA InitSInv == Init => SInv
  <1> SUFFICES ASSUME Init PROVE Shows
    BY DEF SInv
  <1>1. /\ gq = <<>> /\ gwait.op = "idle" /\ iwait.op = "idle" /\ stage = "roles"
        /\ \A p \in Players : slots[p].conn = First1(p)
    BY DEF Init, ServerIdle, IntroIdle
  <1>2. \A c \in Conns : /\ aq[c] = <<>> /\ sock[c] = <<>> /\ role[c] = None
                         /\ chosen[c] = None /\ items[c] = {}
                         /\ \/ pc[c] = "roles" /\ client[c] = "on" /\ actor[c] = "on"
                            \/ pc[c] = "none" /\ client[c] = "none" /\ actor[c] = "none"
    BY DEF Init
  <1>3. Taken = {}
    BY <1>1, <1>2, ConnFacts DEF Taken, RoleOf
  <1>4. \A K : NoneOf(<<>>, K)
    BY DEF NoneOf
  <1>5. ASSUME NEW c \in Conns PROVE ShowsAt(c)
    <2>1. InStep(c) /\ Welcome(c)
      BY <1>2 DEF InStep, Welcome
    <2>2. Unspoken(c)
      <3>1. Len(gq) = 0
        BY <1>1
      <3> QED  BY <1>2, <1>4, <3>1 DEF Unspoken
    <2>3. RoleComes(c)
      BY <1>2, <1>4 DEF RoleComes, Comes
    <2>4. ListComes(c)
      BY <1>2, <1>3, <1>4 DEF ListComes, Comes
    <2> QED  BY <2>1, <2>2, <2>3, <2>4 DEF ShowsAt
  <1>6. SetRight /\ NoneReturns /\ CollectRight
    BY <1>1 DEF SetRight, JustSet, NoneReturns, CollectRight
  <1> QED  BY <1>5, <1>6 DEF Shows

LEMMA StepSInv == IInv /\ KInv /\ SInv /\ [Next]_vars => SInv'
  <1> SUFFICES ASSUME IInv, KInv, SInv, [Next]_vars, Running' PROVE Shows'
    BY DEF SInv
  <1>1. CASE UNCHANGED vars
    <2>1. Running /\ Shows
      BY <1>1 DEF Running, vars, SInv
    <2>2. UNCHANGED <<stage, slots, gq, gwait, iwait, actor, role, aq, pc, sock, client,
                      items, chosen>>
      BY <1>1 DEF vars, serverVars, actorVars, connVars, clientVars
    <2>3. \A d \in Conns : Same(d) /\ Adds(d)
      BY <2>2, LongerSame, ShowTypes DEF Same, Adds
    <2>4. (Still' => Still) /\ NoneReturns'
      BY <2>1, <2>2, StillStays
    <2>5. First1(0) \in Conns /\ Requested(First1(0)) /\ NoSelection(First1(0))
      BY <2>2, ConnFacts, NoneSelects DEF Requested
    <2> QED  BY <2>1, <2>2, <2>3, <2>4, <2>5, GrowingShows
  <1>2. CASE Next
    <2>1. Shows
      BY <1>2, NextRuns DEF SInv
    <2>2. CASE RolesServerNext
      BY <2>1, <2>2, RolesServerShows
    <2>3. CASE IntroNext
      BY <2>1, <2>3, EnterGameShows, HandOverShows, ReplaceSeatShows, EndReconnectionShows
         DEF IntroNext
    <2>4. ASSUME NEW c \in Conns, PeerNext(c) PROVE Shows'
      BY <2>1, <2>4, TakeOverShows, OpenMailboxShows, SpawnActorShows, StartFailsShows,
         ForwardShows, ReadShows, EndShows, ToTheGameShows, AnswerServerShows,
         AnswerTakePeerShows, SendTcpShows, BeginGameShows, EndWithoutHandlesShows
         DEF PeerNext
    <2>5. ASSUME NEW c \in Conns, ClientNext(c) PROVE Shows'
      BY <2>1, <2>5, InputShows, QuitShows, ReturnShows DEF ClientNext
    <2> QED  BY <1>2, <2>2, <2>3, <2>4, <2>5 DEF Next
  <1> QED  BY <1>1, <1>2

(* What comes to a client last, through its actor's mailbox and its channel, is  *)
(* the role that the server set, and the roles that are taken (server/         *)
(* states.rs:1061-1081, 1103-1126).                                        *)
THEOREM TellingsComeRight == Spec => []SInv
  BY InitSInv, StepSInv, RequestsAgree, RolesAreKept, PTL DEF Spec

LEMMA QuietShows == ASSUME IInv, KInv, SInv PROVE ShownAgrees
  <1> SUFFICES ASSUME Quiet, NEW c \in OnlineSeats, client[c] = "on"
               PROVE  /\ chosen[c] = role[c]
                      /\ NoOneReturned => items[c] = Taken
    BY DEF ShownAgrees, Taken
  <1>1. c \in Conns /\ InSeat(c) /\ slots[Owner(c)].online
    BY ShowTypes DEF OnlineSeats, InSeat
  <1>2. stage = "roles" /\ gwait.op = "idle" /\ iwait.op = "idle" /\ aq[c] = <<>> /\ sock[c] = <<>>
    BY <1>1 DEF Quiet
  <1>3. InStep(c) /\ Welcome(c) /\ RoleComes(c) /\ ListComes(c)
    BY <1>1 DEF SInv, Quiet, Shows, ShowsAt
  <1>4. pc[c] = "roles"
    <2>1. pc[c] \in Places
      BY <1>1, PeersAreTyped DEF PeersTyped
    <2>2. pc[c] \notin OnTheWay
      <3>1. pc[c] \in OnTheWay => Entered(c)
        BY <1>1 DEF IInv, ReturnsAgree, SecondsReturn, KInv, SecondsSeats, InSeat
      <3> QED  BY <3>1 DEF Entered
    <2>3. pc[c] \notin {"none", "ended", "boot"}
      BY <1>1, <1>2, <1>3 DEF InStep, Welcome
    <2>4. pc[c] \notin {"toGame", "startGame", "game"}
      BY <1>1, <1>2 DEF KInv, Starting, InGame, Settled
    <2> QED  BY <2>1, <2>2, <2>3, <2>4 DEF Places, OnTheWay
  <1>5. \A K, w, now : Comes(<<>>, <<>>, K, w, now) => now
    BY DEF Comes, LastOf
  <1>6. chosen[c] = role[c]
    <2>1. ~ JustSet(c)
      BY <1>2 DEF JustSet
    <2> QED  BY <1>2, <1>3, <1>4, <1>5, <2>1 DEF RoleComes
  <1>7. ASSUME NoOneReturned PROVE items[c] = Taken
    <2>1. Still /\ ~ Telling
      BY <1>2, <1>7 DEF Still, Telling
    <2> QED  BY <1>1, <1>2, <1>3, <1>5, <2>1 DEF ListComes
  <1> QED  BY <1>6, <1>7

(* When nothing is under way, every client shows its own role, after a           *)
(* reconnection too, and the roles that are taken as long as no one has come    *)
(* back.  The status comes after the role is set, the list of the roles after  *)
(* the status (server/states.rs:1061-1081), and a new connection has both      *)
(* from its peer and its seat (server/peer.rs:549-568, server/states.rs:1107).  *)
THEOREM RolesShownAgree == Spec => []ShownAgrees
  BY QuietShows, TellingsComeRight, RequestsAgree, RolesAreKept, PTL
===============================================================================
