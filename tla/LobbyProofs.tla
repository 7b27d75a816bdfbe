------------------------------ MODULE LobbyProofs ------------------------------
(***************************************************************************)
(* Proofs about LobbySession, for any names, any number of places and any    *)
(* clients that come twice or leave: types, no two peers under one name, and *)
(* no one in the room left behind when the Roles start.                     *)
(*                                                                         *)
(* A name is asked of two servers one after the other, while peers go from  *)
(* the first to the second.  It cannot slip between the two, because the    *)
(* intro server serves one command to its end: while it waits for the answer *)
(* to a name it moves no one (FreeName), and the question is the only one of *)
(* its own in the mailbox of the home server (HomeAsked).  The search asks   *)
(* the actors one by one in a room that does not change meanwhile (Searches, *)
(* NamesAsked).  A peer keeps its place from the moment it enters until its  *)
(* connection has ended (PlaceKept).                                       *)
(***************************************************************************)
EXTENDS LobbySession, QueueProofs, TLAPS

(* Where a connection is that has left the intro state. *)
Past == {"startHome", "home", "toRoles", "startRoles", "roles", "ended"}

(* A connection in a login has one LoginPlayer, in the mailbox or in service. *)
LoginsOpen ==
  /\ \A i \in 1 .. Len(iq) : iq[i].cmd = "LoginPlayer" =>
       /\ pc[iq[i].from] = "w_login"
       /\ ~ (iwait.op = "id" /\ iwait.from = iq[i].from)
       /\ \A j \in 1 .. Len(iq) :
            iq[j].cmd = "LoginPlayer" /\ iq[j].from = iq[i].from => j = i
  /\ iwait.op = "id" => iwait.from \in Conns /\ pc[iwait.from] = "w_login"

(* A peer is moved out of the intro room only when the move has been made. *)
Enters ==
  /\ iwait.op \in {"enter", "add"} =>
       iwait.from \in Conns /\ slot[iwait.from] = "here" /\ iwait.got \in {"no", "done"}
  /\ iwait.op = "add" \/ (iwait.op = "enter" /\ iwait.got = "done") =>
       pc[iwait.from] \in Past

(* The peer is on its way: it is not yet in the room. *)
Awaited(c) ==
  iwait.from = c /\ (iwait.op = "enter" \/ (iwait.op = "add" /\ iwait.got = "no"))

(* A peer that has come out of its intro state is in the home room or on its  *)
(* way there; it leaves the room only when its connection has ended.       *)
PlaceKept(c) ==
  /\ client[c] = "off" => pc[c] = "none"
  /\ pc[c] = "toHome" => iwait = Serving("enter", c)
  /\ pc[c] \in {"startHome", "home"} => c \in Seats \/ Awaited(c)
  /\ c \in Seats => pc[c] \in Past
  /\ c \in Seats /\ slot[c] = "here" =>
       iwait = [op |-> "add", from |-> c, got |-> "done"]
  /\ c \in started => pc[c] \in {"startRoles", "roles", "ended"}

(* The intro server has one question in the home mailbox at most, the one it  *)
(* waits for.                                                              *)
FromIntro(cmd) == cmd \in {"AddPeer", "GetPeerIdByName"}
HomeAsked ==
  \A i \in 1 .. Len(hq) :
    /\ hq[i].cmd = "AddPeer" => iwait = Serving("add", hq[i].from)
    /\ hq[i].cmd = "GetPeerIdByName" => iwait = Serving("id", hq[i].from)
    /\ hq[i].cmd = "DropPeer" => pc[hq[i].from] = "ended"
    /\ FromIntro(hq[i].cmd) => \A j \in 1 .. Len(hq) : FromIntro(hq[j].cmd) => j = i

(* The home server and what the intro server knows of it. *)
Servers ==
  /\ server = "none" => home = "none"
  /\ home = "none" => room = <<>> /\ hwait.op = "idle"
  /\ HomeReads => news = "none" /\ server # "Roles"
  /\ ~ HomeReads => hq = <<>> /\ hwait.op = "idle"
  /\ home = "Roles" => Seats \subseteq started

(* A search for a name has passed those it has found different. *)
Searches ==
  /\ hwait.op # "idle" =>
       /\ hwait.at \in 1 .. Len(room)
       /\ hwait.got \in {Unknown, Name(room[hwait.at])}
       /\ hq # <<>>
  /\ hwait.op = "id" =>
       /\ Head(hq).cmd = "GetPeerIdByName"
       /\ \A j \in 1 .. (hwait.at - 1) :
            Name(room[j]) = Name(Head(hq).from) => hwait.found
  /\ hwait.op = "drop" => Head(hq).cmd = "DropPeer" /\ room[hwait.at] = Head(hq).from

(* The home server asks one actor at a time. *)
NamesAsked ==
  \A c \in Conns : \A i \in 1 .. Len(aq[c]) : aq[c][i] = "GetUsername" =>
    /\ hwait.op # "idle" /\ hwait.got = Unknown /\ room[hwait.at] = c
    /\ \A j \in 1 .. Len(aq[c]) : aq[c][j] = "GetUsername" => j = i

(* The name of the login in service is no one's where it was asked. *)
FreeName ==
  iwait.op = "id" =>
    \A d \in Conns \ {iwait.from} : Name(d) = Name(iwait.from) =>
      slot[d] # "here" /\ (iwait.got = "free" => d \notin Seats)

IInv ==
  /\ TypeOK /\ LoginsOpen /\ Enters /\ (\A c \in Conns : PlaceKept(c))
  /\ HomeAsked /\ Servers /\ Searches /\ NamesAsked /\ FreeName /\ NamesUnique

-------------------------------------------------------------------------------
(* The room.                                                               *)

LEMMA SeatsAdd ==
  ASSUME NEW s \in Seq(Conns), NEW c \in Conns, c \notin ToSet(s), IsInjective(s)
  PROVE  ToSet(Append(s, c)) = ToSet(s) \cup {c} /\ IsInjective(Append(s, c))
  <1> DEFINE t == Append(s, c)
  <1>1. /\ DOMAIN t = 1 .. Len(s) + 1 /\ DOMAIN s = 1 .. Len(s) /\ Len(s) \in Nat
        /\ \A i \in 1 .. Len(s) : t[i] = s[i]
        /\ t[Len(s) + 1] = c
    OBVIOUS
  <1>2. \A i \in 1 .. Len(s) : s[i] # c
    BY <1>1 DEF ToSet
  <1>3. \A i \in 1 .. Len(s) + 1 : i \in 1 .. Len(s) \/ i = Len(s) + 1
    BY <1>1
  <1> HIDE DEF t
  <1>4. ToSet(t) = ToSet(s) \cup {c}
    BY <1>1, <1>3 DEF ToSet
  <1>5. IsInjective(t)
    BY <1>1, <1>2, <1>3 DEF IsInjective
  <1> QED  BY <1>4, <1>5 DEF t

LEMMA SeatsDrop ==
  ASSUME NEW s \in Seq(Conns), NEW i \in 1 .. Len(s), IsInjective(s)
  PROVE  /\ SwapPop(s, i) \in Seq(Conns) /\ Len(SwapPop(s, i)) = Len(s) - 1
         /\ ToSet(SwapPop(s, i)) = ToSet(s) \ {s[i]} /\ IsInjective(SwapPop(s, i))
  <1> DEFINE t == SwapPop(s, i)
             n == Len(s)
  <1>1. /\ n \in Nat /\ n >= 1 /\ i \in 1 .. n /\ DOMAIN s = 1 .. n /\ n - 1 \in Nat
        /\ \A j \in 1 .. n : s[j] \in Conns
        /\ \A j, k \in 1 .. n : s[j] = s[k] => j = k
    BY DEF IsInjective
  <1>2. t = [j \in 1 .. n - 1 |-> IF j = i THEN s[n] ELSE s[j]]
    BY DEF SwapPop
  <1> HIDE DEF t, n
  <1>3. t \in Seq(Conns) /\ Len(t) = n - 1 /\ DOMAIN t = 1 .. n - 1
    BY <1>1, <1>2
  <1>4. ASSUME NEW j \in 1 .. n - 1
        PROVE  \E k \in 1 .. n : k # i /\ t[j] = s[k] /\ (k = n \/ k = j) /\ (k = n <=> j = i)
    BY <1>1, <1>2
  <1>5. IsInjective(t)
    BY <1>1, <1>2, <1>3 DEF IsInjective, n
  <1>6. ASSUME NEW k \in 1 .. n, k # i
        PROVE  \E j \in 1 .. n - 1 : t[j] = s[k]
    <2>1. CASE k = n
      <3>1. i \in 1 .. n - 1 /\ t[i] = s[n]
        BY <1>1, <1>2, <1>6, <2>1
      <3> QED  BY <2>1, <3>1
    <2>2. CASE k # n
      <3>1. k \in 1 .. n - 1 /\ t[k] = s[k]
        BY <1>1, <1>2, <1>6, <2>2
      <3> QED  BY <3>1
    <2> QED  BY <2>1, <2>2
  <1>7. ToSet(t) \subseteq ToSet(s) \ {s[i]}
    <2>1. ASSUME NEW j \in 1 .. n - 1 PROVE t[j] \in ToSet(s) /\ t[j] # s[i]
      BY <1>1, <1>4 DEF ToSet, n
    <2> QED  BY <1>3, <2>1 DEF ToSet
  <1>8. ToSet(s) \ {s[i]} \subseteq ToSet(t)
    BY <1>1, <1>3, <1>6 DEF ToSet
  <1>9. ToSet(t) = ToSet(s) \ {s[i]}
    BY <1>7, <1>8
  <1> QED  BY <1>3, <1>5, <1>9 DEF t, n

-------------------------------------------------------------------------------
(* Types.                                                                  *)

IntroMail == [cmd : {"LoginPlayer", "EnterGame", "DropPeer"}, from : Conns]
HomeMail  == [cmd : {"AddPeer", "StartRoles", "GetPeerIdByName", "DropPeer"}, from : Conns]
Places    == Loops \cup {"none", "w_login", "rejected", "failed", "toHome", "startHome",
                        "toRoles", "startRoles", "ended"}
Asked3    == {"GetUsername", "SendTcp", "StartRoles"}

LEMMA TypeFacts ==
  ASSUME TypeOK
  PROVE  /\ slot \in [Conns -> {"none", "here", "away"}]
         /\ iq \in Seq(IntroMail) /\ hq \in Seq(HomeMail)
         /\ \A i \in 1 .. Len(iq) : iq[i] \in IntroMail /\ iq[i].from \in Conns
         /\ \A i \in 1 .. Len(hq) : hq[i] \in HomeMail /\ hq[i].from \in Conns
         /\ iwait.op \in {"idle", "id", "enter", "add"} /\ iwait.from \in Maybe
         /\ iwait.got \in {"no", "free", "taken", "done"}
         /\ iwait = [op |-> iwait.op, from |-> iwait.from, got |-> iwait.got]
         /\ room \in Seq(Conns) /\ Len(room) <= Capacity /\ IsInjective(room)
         /\ Seats \subseteq Conns /\ \A i \in 1 .. Len(room) : room[i] \in Seats
         /\ \A c \in Seats : \E i \in 1 .. Len(room) : room[i] = c
         /\ hwait.op \in {"idle", "id", "drop"} /\ hwait.at \in 1 .. Capacity
         /\ hwait.got \in Names \cup {Unknown} /\ hwait.found \in BOOLEAN
         /\ started \subseteq Conns
         /\ pc \in [Conns -> Places]
         /\ aq \in [Conns -> Seq(Asked3)] /\ sock \in [Conns -> Seq({"Logged", "gone"})]
         /\ client \in [Conns -> {"off", "Intro", "Logged", "Home", "Roles", "gone"}]
         /\ cin \in [Conns -> Seq({"Login", "EnterGame", "StartRoles"})]
  <1>1. /\ room \in Seq(Conns) /\ Len(room) <= Capacity /\ IsInjective(room)
        /\ pc \in [Conns -> Places]
    BY DEF TypeOK, Places, Loops
  <1>2. DOMAIN room = 1 .. Len(room) /\ \A i \in 1 .. Len(room) : room[i] \in Conns
    BY <1>1
  <1>3. /\ Seats \subseteq Conns /\ \A i \in 1 .. Len(room) : room[i] \in Seats
        /\ \A c \in Seats : \E i \in 1 .. Len(room) : room[i] = c
    BY <1>2 DEF Seats, ToSet
  <1>4. /\ iq \in Seq(IntroMail) /\ hq \in Seq(HomeMail)
        /\ \A m \in IntroMail \cup HomeMail : m.from \in Conns
    BY DEF TypeOK, IntroMail, HomeMail
  <1>5. /\ \A i \in 1 .. Len(iq) : iq[i] \in IntroMail
        /\ \A i \in 1 .. Len(hq) : hq[i] \in HomeMail
    BY <1>4
  <1> QED  BY <1>1, <1>3, <1>4, <1>5 DEF TypeOK, IntroMail, HomeMail, Asked3

LEMMA NameFacts ==
  /\ Capacity \in Nat \ {0} /\ NoConn \notin Conns
  /\ \A c \in Conns : Name(c) \in Names /\ Name(c) # Unknown
  BY LobbyAssumption DEF Conns, NoConn, Name, Unknown

(* Mailboxes of which the first message has been taken. *)
LEMMA LoginTaken ==
  ASSUME IInv, iq # <<>>
  PROVE  /\ Tail(iq) \in Seq(IntroMail) /\ Head(iq) \in IntroMail /\ Head(iq).from \in Conns
         /\ Head(iq).cmd = "LoginPlayer" => pc[Head(iq).from] = "w_login"
         /\ \A i \in 1 .. Len(Tail(iq)) : Tail(iq)[i].cmd = "LoginPlayer" =>
              /\ pc[Tail(iq)[i].from] = "w_login" /\ Tail(iq)[i].from \in Conns
              /\ ~ (iwait.op = "id" /\ iwait.from = Tail(iq)[i].from)
              /\ \A j \in 1 .. Len(Tail(iq)) :
                   Tail(iq)[j].cmd = "LoginPlayer" /\ Tail(iq)[j].from = Tail(iq)[i].from
                     => j = i
              /\ Head(iq).cmd = "LoginPlayer" => Head(iq).from # Tail(iq)[i].from
  <1> DEFINE q == Tail(iq)
  <1>1. /\ iq \in Seq(IntroMail) /\ \A m \in IntroMail : m.from \in Conns
        /\ \A i \in 1 .. Len(iq) : iq[i].from \in Conns
    BY TypeFacts DEF IInv, IntroMail
  <1>2. /\ Head(iq) = iq[1] /\ Head(iq) \in IntroMail /\ 1 \in 1 .. Len(iq)
        /\ q \in Seq(IntroMail) /\ Len(q) \in Nat
        /\ \A i \in 1 .. Len(q) : i + 1 \in 1 .. Len(iq) /\ q[i] = iq[i + 1]
    BY <1>1, FirstTaken
  <1> HIDE DEF q
  <1>3. LoginsOpen
    BY DEF IInv
  <1>4. ASSUME NEW i \in 1 .. Len(q), q[i].cmd = "LoginPlayer"
        PROVE  /\ pc[q[i].from] = "w_login" /\ q[i].from \in Conns
               /\ ~ (iwait.op = "id" /\ iwait.from = q[i].from)
               /\ \A j \in 1 .. Len(q) : q[j].cmd = "LoginPlayer" /\ q[j].from = q[i].from
                                          => j = i
               /\ Head(iq).cmd = "LoginPlayer" => Head(iq).from # q[i].from
    <2>1. PICK k \in 1 .. Len(iq) : k = i + 1 /\ q[i] = iq[k] /\ k # 1
      BY <1>2
    <2>2. ASSUME NEW j \in 1 .. Len(q), q[j].cmd = "LoginPlayer", q[j].from = q[i].from
          PROVE  j = i
      <3>1. PICK n \in 1 .. Len(iq) : n = j + 1 /\ q[j] = iq[n]
        BY <1>2
      <3>2. n = k
        BY <1>3, <1>4, <2>1, <2>2, <3>1 DEF LoginsOpen
      <3> QED  BY <2>1, <3>1, <3>2
    <2> QED  BY <1>1, <1>2, <1>3, <1>4, <2>1, <2>2 DEF LoginsOpen
  <1>5. Head(iq).cmd = "LoginPlayer" => pc[Head(iq).from] = "w_login"
    BY <1>2, <1>3 DEF LoginsOpen
  <1> QED  BY <1>1, <1>2, <1>4, <1>5 DEF q

LEMMA HomeTaken ==
  ASSUME IInv, hq # <<>>
  PROVE  /\ Tail(hq) \in Seq(HomeMail) /\ Head(hq) \in HomeMail /\ Head(hq).from \in Conns
         /\ Head(hq).cmd = "AddPeer" => iwait = Serving("add", Head(hq).from)
         /\ Head(hq).cmd = "GetPeerIdByName" => iwait = Serving("id", Head(hq).from)
         /\ Head(hq).cmd = "DropPeer" => pc[Head(hq).from] = "ended"
         /\ \A i \in 1 .. Len(Tail(hq)) :
              /\ Tail(hq)[i].from \in Conns
              /\ Tail(hq)[i].cmd = "AddPeer" => iwait = Serving("add", Tail(hq)[i].from)
              /\ Tail(hq)[i].cmd = "GetPeerIdByName" => iwait = Serving("id", Tail(hq)[i].from)
              /\ Tail(hq)[i].cmd = "DropPeer" => pc[Tail(hq)[i].from] = "ended"
              /\ FromIntro(Tail(hq)[i].cmd) =>
                   /\ ~ FromIntro(Head(hq).cmd)
                   /\ \A j \in 1 .. Len(Tail(hq)) : FromIntro(Tail(hq)[j].cmd) => j = i
  <1> DEFINE q == Tail(hq)
  <1>1. /\ hq \in Seq(HomeMail) /\ \A m \in HomeMail : m.from \in Conns
        /\ \A i \in 1 .. Len(hq) : hq[i].from \in Conns
    BY TypeFacts DEF IInv, HomeMail
  <1>2. /\ Head(hq) = hq[1] /\ Head(hq) \in HomeMail /\ 1 \in 1 .. Len(hq)
        /\ q \in Seq(HomeMail) /\ Len(q) \in Nat
        /\ \A i \in 1 .. Len(q) : i + 1 \in 1 .. Len(hq) /\ q[i] = hq[i + 1]
    BY <1>1, FirstTaken
  <1> HIDE DEF q
  <1>3. HomeAsked
    BY DEF IInv
  <1>4. ASSUME NEW i \in 1 .. Len(q)
        PROVE  /\ q[i].from \in Conns
               /\ q[i].cmd = "AddPeer" => iwait = Serving("add", q[i].from)
               /\ q[i].cmd = "GetPeerIdByName" => iwait = Serving("id", q[i].from)
               /\ q[i].cmd = "DropPeer" => pc[q[i].from] = "ended"
               /\ FromIntro(q[i].cmd) =>
                    /\ ~ FromIntro(Head(hq).cmd)
                    /\ \A j \in 1 .. Len(q) : FromIntro(q[j].cmd) => j = i
    <2>1. PICK k \in 1 .. Len(hq) : k = i + 1 /\ q[i] = hq[k] /\ k # 1
      BY <1>2
    <2>2. ASSUME FromIntro(q[i].cmd), NEW j \in 1 .. Len(q), FromIntro(q[j].cmd)
          PROVE  j = i
      <3>1. PICK n \in 1 .. Len(hq) : n = j + 1 /\ q[j] = hq[n]
        BY <1>2
      <3>2. n = k
        BY <1>3, <2>1, <2>2, <3>1 DEF HomeAsked
      <3> QED  BY <2>1, <3>1, <3>2
    <2>3. FromIntro(q[i].cmd) => ~ FromIntro(Head(hq).cmd)
      BY <1>2, <1>3, <2>1 DEF HomeAsked
    <2> QED  BY <1>1, <1>3, <2>1, <2>2, <2>3 DEF HomeAsked
  <1>5. /\ Head(hq).cmd = "AddPeer" => iwait = Serving("add", Head(hq).from)
        /\ Head(hq).cmd = "GetPeerIdByName" => iwait = Serving("id", Head(hq).from)
        /\ Head(hq).cmd = "DropPeer" => pc[Head(hq).from] = "ended"
    BY <1>2, <1>3 DEF HomeAsked
  <1> QED  BY <1>1, <1>2, <1>4, <1>5 DEF q

-------------------------------------------------------------------------------
(* Steps of connections and clients, which only go on in the lobby.        *)

(* How the task of a connection goes on by itself. *)
Onward(d) ==
  \/ pc'[d] = pc[d]
  \/ pc[d] \in {"intro", "rejected", "failed"} /\ pc'[d] = "ended"
  \/ /\ pc[d] \in Past \ {"ended"} /\ pc'[d] \in Past \ {"startHome"}
     /\ pc'[d] = "home" => pc[d] = "startHome"
     /\ pc[d] \in {"startRoles", "roles"} => pc'[d] \in {"startRoles", "roles", "ended"}

(* What is put into the mailboxes meanwhile. *)
PutIntro(m) == m \in IntroMail /\ m.cmd # "LoginPlayer" /\ iq' = Append(iq, m)
PutHome(m) ==
  /\ m \in HomeMail /\ hq' = Append(hq, m) /\ HomeReads
  /\ m.cmd = "StartRoles" \/ (m.cmd = "DropPeer" /\ pc'[m.from] = "ended")

LEMMA OnwardStep ==
  ASSUME IInv, TypeOK', UNCHANGED <<slot, iwait, server, news, home, room>>,
         \A d \in Conns : Onward(d) /\ (client'[d] = "off" => client[d] = "off" /\ pc'[d] = pc[d]),
         \/ iq' = iq \/ (\E m \in IntroMail : PutIntro(m)) \/ (iq # <<>> /\ iq' = Tail(iq)),
         \/ hq' = hq \/ (\E m \in HomeMail : PutHome(m)) \/ (hq # <<>> /\ hq' = Tail(hq)),
         started \subseteq started',
         \A c \in started' : c \in started \/ pc'[c] = "startRoles",
         home = "run" \/ hwait'.op = "idle",
         Searches', NamesAsked'
  PROVE  IInv'
  <1>1. /\ iq \in Seq(IntroMail) /\ hq \in Seq(HomeMail) /\ Seats' = Seats
        /\ Seats \subseteq Conns /\ started \subseteq Conns /\ (HomeReads' <=> HomeReads)
    BY TypeFacts DEF IInv, Seats, HomeReads
  <1>2. LoginsOpen'
    <2>1. ASSUME \/ iq' = iq \/ \E m \in IntroMail : PutIntro(m),
                 NEW i \in 1 .. Len(iq'), iq'[i].cmd = "LoginPlayer"
          PROVE  i \in 1 .. Len(iq) /\ iq'[i] = iq[i]
      <3>1. CASE iq' = iq
        BY <2>1, <3>1
      <3>2. ASSUME NEW m \in IntroMail, PutIntro(m)
            PROVE  i \in 1 .. Len(iq) /\ iq'[i] = iq[i]
        BY <1>1, <2>1, <3>2, LastSent DEF PutIntro
      <3> QED  BY <2>1, <3>1, <3>2
    <2>2. \A d \in Conns : pc[d] = "w_login" => pc'[d] = "w_login"
      BY DEF Onward, Past
    <2>3. \A i \in 1 .. Len(iq) : iq[i].from \in Conns
      BY TypeFacts DEF IInv
    <2>4. CASE \/ iq' = iq \/ \E m \in IntroMail : PutIntro(m)
      BY <2>1, <2>2, <2>3, <2>4 DEF IInv, LoginsOpen
    <2>5. CASE iq # <<>> /\ iq' = Tail(iq)
      BY <2>2, <2>5, LoginTaken DEF IInv, LoginsOpen
    <2> QED  BY <2>4, <2>5
  <1>3. Enters'
    <2>1. \A d \in Conns : pc[d] \in Past => pc'[d] \in Past
      BY DEF Onward, Past
    <2> QED  BY <2>1 DEF IInv, Enters
  <1>4. ASSUME NEW c \in Conns PROVE PlaceKept(c)'
    BY <1>1, <1>4 DEF IInv, PlaceKept, Onward, Past, Awaited, Serving
  <1>5. HomeAsked'
    <2>1. \A d \in Conns : pc[d] = "ended" => pc'[d] = "ended"
      BY DEF Onward
    <2>2. \A i \in 1 .. Len(hq) : hq[i].from \in Conns
      BY TypeFacts DEF IInv
    <2>3. CASE hq' = hq
      <3>1. \A i \in 1 .. Len(hq) : hq[i].cmd = "DropPeer" => pc'[hq[i].from] = "ended"
        BY <2>1, <2>2 DEF IInv, HomeAsked
      <3> QED  BY <2>3, <3>1 DEF IInv, HomeAsked, Serving
    <2>4. ASSUME NEW m \in HomeMail, PutHome(m) PROVE HomeAsked'
      <3>1. \A i \in 1 .. Len(hq') : (i \in 1 .. Len(hq) /\ hq'[i] = hq[i]) \/ hq'[i] = m
        BY <1>1, <2>4, LastSent DEF PutHome
      <3>2. ~ FromIntro(m.cmd) /\ (m.cmd = "DropPeer" => pc'[m.from] = "ended")
        BY <2>4 DEF PutHome, FromIntro
      <3> QED  BY <2>1, <2>2, <3>1, <3>2 DEF IInv, HomeAsked, FromIntro, Serving
    <2>5. ASSUME hq # <<>>, hq' = Tail(hq) PROVE HomeAsked'
      BY <2>1, <2>5, HomeTaken DEF HomeAsked, Serving
    <2> QED  BY <2>3, <2>4, <2>5
  <1>6. Servers'
    BY <1>1 DEF IInv, Servers, PutHome, HomeReads
  <1>7. FreeName' /\ NamesUnique'
    <2>1. \A d \in Conns : pc[d] = "ended" => pc'[d] = "ended"
      BY DEF Onward
    <2>2. FreeName'
      BY <1>1 DEF IInv, FreeName
    <2>3. NamesUnique'
      <3>1. \A d : d \in Conns /\ pc[d] = "ended" => pc'[d] = "ended"
        BY <2>1
      <3>2. (SittingHere' = SittingHere) /\ SittingHere \subseteq Conns
        BY <1>1 DEF SittingHere
      <3> QED  BY <1>1, <3>1, <3>2 DEF IInv, NamesUnique
    <2> QED  BY <2>2, <2>3
  <1> QED  BY <1>2, <1>3, <1>4, <1>5, <1>6, <1>7 DEF IInv

LEMMA SearchKept ==
  ASSUME IInv, UNCHANGED <<hwait, room>>,
         hq' = hq \/ \E m \in HomeMail : PutHome(m),
         \A c \in Conns : aq'[c] = aq[c] \/ aq'[c] = <<>>
  PROVE  Searches' /\ NamesAsked'
  <1>1. Searches'
    <2>1. hq # <<>> => hq' # <<>> /\ Head(hq') = Head(hq)
      <3>1. CASE hq' = hq
        BY <3>1
      <3>2. ASSUME NEW m \in HomeMail, PutHome(m), hq # <<>>
            PROVE  hq' # <<>> /\ Head(hq') = Head(hq)
        <4>1. hq \in Seq(HomeMail) /\ hq' = Append(hq, m)
          BY <3>2, TypeFacts DEF IInv, PutHome
        <4> QED  BY <3>2, <4>1
      <3> QED  BY <3>1, <3>2
    <2> QED  BY <2>1 DEF IInv, Searches
  <1>2. NamesAsked'
    BY DEF IInv, NamesAsked
  <1> QED  BY <1>1, <1>2

(* A step that is none of the home server's. *)
LEMMA PeerStep ==
  ASSUME IInv, TypeOK', UNCHANGED <<slot, iwait, server, news, home, room, hwait>>,
         \A d \in Conns : Onward(d) /\ (client'[d] = "off" => client[d] = "off" /\ pc'[d] = pc[d]),
         \/ iq' = iq \/ (\E m \in IntroMail : PutIntro(m)) \/ (iq # <<>> /\ iq' = Tail(iq)),
         hq' = hq \/ \E m \in HomeMail : PutHome(m),
         started \subseteq started',
         \A c \in started' : c \in started \/ pc'[c] = "startRoles",
         \A c \in Conns : aq'[c] = aq[c] \/ aq'[c] = <<>>
  PROVE  IInv'
  <1>1. Searches' /\ NamesAsked'
    BY SearchKept
  <1>2. home = "run" \/ hwait'.op = "idle"
    BY DEF IInv, Servers, HomeReads
  <1> QED  BY <1>1, <1>2, OnwardStep

LEMMA ConnectStep ==
  ASSUME IInv, NEW c \in Conns, Connect(c) PROVE IInv'
  <1>1. /\ client[c] = "off" /\ client' = [client EXCEPT ![c] = "Intro"]
        /\ pc' = [pc EXCEPT ![c] = "intro"]
        /\ cin' = [cin EXCEPT ![c] = <<"Login">>] /\ actor' = [actor EXCEPT ![c] = "intro"]
        /\ UNCHANGED <<introVars, homeVars, aq, sock, keys, crashed>>
    BY DEF Connect, Goto
  <1>2. TypeOK'
    BY <1>1 DEF IInv, TypeOK, Loops, introVars, homeVars
  <1>3. /\ pc[c] = "none" /\ pc'[c] = "intro" /\ client'[c] = "Intro"
        /\ \A d \in Conns \ {c} : pc'[d] = pc[d] /\ client'[d] = client[d]
        /\ UNCHANGED <<slot, iq, iwait, server, news, home, room, hq, hwait, started, aq>>
    BY <1>1, TypeFacts DEF IInv, PlaceKept, introVars, homeVars
  <1>4. /\ \A d \in Conns : pc'[d] # pc[d] => d = c
        /\ Seats' = Seats /\ Seats \subseteq Conns /\ (HomeReads' <=> HomeReads)
        /\ \A i \in 1 .. Len(iq) : iq[i].from \in Conns
        /\ \A i \in 1 .. Len(hq) : hq[i].from \in Conns
    BY <1>3, TypeFacts DEF IInv, Seats, HomeReads
  <1>5. LoginsOpen' /\ Enters'
    BY <1>3, <1>4 DEF IInv, LoginsOpen, Enters, Past
  <1>6. \A d \in Conns : PlaceKept(d)'
    BY <1>3, <1>4 DEF IInv, PlaceKept, Past, Awaited, Serving
  <1>7. HomeAsked' /\ Servers'
    <2>1. HomeAsked'
      <3>1. \A i \in 1 .. Len(hq) : hq[i].cmd = "DropPeer" => pc'[hq[i].from] = "ended"
        BY <1>3, <1>4 DEF IInv, HomeAsked
      <3> QED  BY <1>3, <3>1 DEF IInv, HomeAsked, Serving
    <2> QED  BY <1>3, <1>4, <2>1 DEF IInv, Servers
  <1>8. Searches' /\ NamesAsked'
    BY <1>3, SearchKept
  <1>9. FreeName' /\ NamesUnique'
    <2>1. SittingHere' = SittingHere /\ SittingHere \subseteq Conns
      BY <1>3, <1>4 DEF SittingHere
    <2>2. \A d : d \in Conns /\ pc[d] = "ended" => pc'[d] = "ended"
      BY <1>3
    <2> QED  BY <1>3, <1>4, <2>1, <2>2 DEF IInv, FreeName, NamesUnique
  <1> QED  BY <1>2, <1>5, <1>6, <1>7, <1>8, <1>9 DEF IInv

LEMMA PressEnterStep ==
  ASSUME IInv, NEW c \in Conns, PressEnter(c) PROVE IInv'
  <1>1. UNCHANGED <<introVars, homeVars, peerVars, client, crashed>>
    BY DEF PressEnter
  <1>2. TypeOK'
    <2>1. PICK k \in {"EnterGame", "StartRoles"} :
            /\ keys' = [keys EXCEPT ![c] = @ \cup {k}]
            /\ cin' = [cin EXCEPT ![c] = Append(@, k)]
      BY DEF PressEnter, KeyOf
    <2>2. cin' \in [Conns -> Seq({"Login", "EnterGame", "StartRoles"})]
      BY <2>1, TypeFacts, LastSent DEF IInv
    <2>3. keys' \in [Conns -> SUBSET {"EnterGame", "StartRoles"}]
      BY <2>1 DEF IInv, TypeOK
    <2> QED  BY <1>1, <2>2, <2>3 DEF IInv, TypeOK, introVars, homeVars, peerVars
  <1> QED  BY <1>1, <1>2, PeerStep DEF introVars, homeVars, peerVars, Onward

LEMMA LeaveStep ==
  ASSUME IInv, NEW c \in Conns, Leave(c) PROVE IInv'
  <1>1. /\ UNCHANGED <<introVars, homeVars, peerVars, keys, crashed>>
        /\ client' = [client EXCEPT ![c] = "gone"] /\ cin' = [cin EXCEPT ![c] = <<>>]
    BY DEF Leave
  <1>2. TypeOK'
    BY <1>1 DEF IInv, TypeOK, introVars, homeVars, peerVars
  <1>3. \A d \in Conns : Onward(d) /\ (client'[d] = "off" => client[d] = "off" /\ pc'[d] = pc[d])
    BY <1>1, TypeFacts DEF IInv, Onward, peerVars
  <1> QED  BY <1>1, <1>2, <1>3, PeerStep DEF introVars, homeVars, peerVars

(* A login is put into a mailbox in which there is none of its connection. *)
LEMMA ReadLoginStep ==
  ASSUME IInv, NEW c \in Conns, ReadLogin(c) PROVE IInv'
  <1> DEFINE m == IntroCommand("LoginPlayer", c)
  <1>1. /\ pc[c] = "intro" /\ pc' = [pc EXCEPT ![c] = "w_login"]
        /\ cin[c] # <<>> /\ cin' = [cin EXCEPT ![c] = Tail(@)]
        /\ iq' = Append(iq, m)
        /\ UNCHANGED <<slot, iwait, entering, server, news, homeVars, actor, aq, sock,
                       client, keys, crashed>>
    BY DEF ReadLogin, Reads, Goto
  <1>2. m \in IntroMail /\ m.cmd = "LoginPlayer" /\ m.from = c /\ iq \in Seq(IntroMail)
    BY TypeFacts DEF IInv, IntroMail, IntroCommand
  <1> HIDE DEF m
  <1>3. /\ iq' \in Seq(IntroMail) /\ Len(iq) \in Nat
        /\ \A i \in 1 .. Len(iq') : (i \in 1 .. Len(iq) /\ iq'[i] = iq[i])
                                    \/ (i = Len(iq) + 1 /\ iq'[i] = m)
    BY <1>1, <1>2, LastSent
  <1>4. TypeOK'
    <2>1. cin' \in [Conns -> Seq({"Login", "EnterGame", "StartRoles"})]
      BY <1>1, TypeFacts, FirstTaken DEF IInv
    <2>2. pc' \in [Conns -> Places]
      BY <1>1, TypeFacts DEF IInv, Places
    <2>3. UNCHANGED <<slot, iwait, entering, server, news, home, room, hq, hwait, starting,
                      started, actor, aq, sock, client, keys, crashed>>
      BY <1>1 DEF homeVars
    <2> QED  BY <1>3, <2>1, <2>2, <2>3 DEF IInv, TypeOK, Places, IntroMail
  <1>5. /\ pc'[c] = "w_login" /\ \A d \in Conns : pc'[d] # pc[d] => d = c
        /\ UNCHANGED <<slot, iwait, server, news, home, room, hq, hwait, started, aq, client>>
        /\ Seats' = Seats /\ Seats \subseteq Conns
        /\ \A i \in 1 .. Len(iq) : iq[i].from \in Conns
        /\ \A i \in 1 .. Len(hq) : hq[i].from \in Conns
    BY <1>1, TypeFacts DEF IInv, Seats, homeVars
  <1>6. LoginsOpen'
    <2>1. \A i \in 1 .. Len(iq) : iq[i].cmd = "LoginPlayer" => iq[i].from # c
      BY <1>1 DEF IInv, LoginsOpen
    <2>2. ~ (iwait.op = "id" /\ iwait.from = c)
      BY <1>1 DEF IInv, LoginsOpen
    <2>3. \A i \in 1 .. Len(iq) : iq[i].cmd = "LoginPlayer" => pc'[iq[i].from] = "w_login"
      BY <1>5 DEF IInv, LoginsOpen
    <2>4. iwait.op = "id" => pc'[iwait.from] = "w_login" /\ iwait.from \in Conns
      BY <1>5 DEF IInv, LoginsOpen
    <2>5. ASSUME NEW i \in 1 .. Len(iq'), iq'[i].cmd = "LoginPlayer"
          PROVE  /\ pc'[iq'[i].from] = "w_login"
                 /\ ~ (iwait.op = "id" /\ iwait.from = iq'[i].from)
                 /\ \A j \in 1 .. Len(iq') :
                      iq'[j].cmd = "LoginPlayer" /\ iq'[j].from = iq'[i].from => j = i
      <3>1. CASE i = Len(iq) + 1 /\ iq'[i] = m
        BY <1>2, <1>3, <1>5, <2>1, <2>2, <3>1
      <3>2. CASE i \in 1 .. Len(iq) /\ iq'[i] = iq[i]
        <4>1. /\ LoginsOpen /\ iq[i].cmd = "LoginPlayer" /\ iq[i].from # c
              /\ pc'[iq[i].from] = "w_login" /\ ~ (iwait.op = "id" /\ iwait.from = iq[i].from)
          BY <2>1, <2>3, <2>5, <3>2 DEF IInv, LoginsOpen
        <4>2. ASSUME NEW j \in 1 .. Len(iq'), iq'[j].cmd = "LoginPlayer",
                     iq'[j].from = iq[i].from
              PROVE  j = i
          <5>1. j \in 1 .. Len(iq) /\ iq'[j] = iq[j]
            BY <1>2, <1>3, <4>1, <4>2
          <5> QED  BY <3>2, <4>1, <4>2, <5>1 DEF LoginsOpen
        <4> QED  BY <3>2, <4>1, <4>2
      <3> QED  BY <1>3, <3>1, <3>2
    <2> QED  BY <1>5, <2>4, <2>5 DEF LoginsOpen
  <1>7. Enters' /\ \A d \in Conns : PlaceKept(d)'
    <2>1. Enters'
      BY <1>1, <1>5 DEF IInv, Enters, Past
    <2>2. \A d \in Conns : PlaceKept(d)'
      BY <1>1, <1>5 DEF IInv, PlaceKept, Past, Awaited, Serving
    <2> QED  BY <2>1, <2>2
  <1>8. HomeAsked' /\ Servers'
    <2>1. \A i \in 1 .. Len(hq) : hq[i].cmd = "DropPeer" => pc'[hq[i].from] = "ended"
      BY <1>1, <1>5 DEF IInv, HomeAsked
    <2> QED  BY <1>5, <2>1 DEF IInv, HomeAsked, Serving, Servers, HomeReads
  <1>9. Searches' /\ NamesAsked'
    BY <1>5, SearchKept
  <1>10. FreeName' /\ NamesUnique'
    <2>1. SittingHere' = SittingHere /\ SittingHere \subseteq Conns
      BY <1>5 DEF SittingHere
    <2>2. \A d : d \in Conns /\ pc[d] = "ended" => pc'[d] = "ended"
      BY <1>1, <1>5
    <2> QED  BY <1>5, <2>1, <2>2 DEF IInv, FreeName, NamesUnique
  <1> QED  BY <1>4, <1>6, <1>7, <1>8, <1>9, <1>10 DEF IInv

LEMMA ReadEnterGameStep ==
  ASSUME IInv, NEW c \in Conns, ReadEnterGame(c) PROVE IInv'
  <1> DEFINE m == IntroCommand("EnterGame", c)
  <1>1. /\ cin[c] # <<>> /\ cin' = [cin EXCEPT ![c] = Tail(@)] /\ iq' = Append(iq, m)
        /\ UNCHANGED <<slot, iwait, entering, server, news, homeVars, peerVars, client,
                       keys, crashed>>
    BY DEF ReadEnterGame, Reads
  <1>2. m \in IntroMail /\ m.cmd = "EnterGame"
    BY DEF IntroMail, IntroCommand
  <1> HIDE DEF m
  <1>3. TypeOK'
    <2>1. cin' \in [Conns -> Seq({"Login", "EnterGame", "StartRoles"})]
      BY <1>1, TypeFacts, FirstTaken DEF IInv
    <2>2. iq' \in Seq(IntroMail)
      BY <1>1, <1>2, TypeFacts, LastSent DEF IInv
    <2> QED  BY <1>1, <2>1, <2>2 DEF IInv, TypeOK, IntroMail, homeVars, peerVars
  <1>4. PutIntro(m)
    BY <1>1, <1>2 DEF PutIntro
  <1> QED  BY <1>1, <1>2, <1>3, <1>4, PeerStep DEF homeVars, peerVars, Onward

LEMMA ReadStartRolesStep ==
  ASSUME IInv, NEW c \in Conns, ReadStartRoles(c) PROVE IInv'
  <1> DEFINE m == HomeCommand("StartRoles", c)
  <1>1. /\ cin[c] # <<>> /\ cin' = [cin EXCEPT ![c] = Tail(@)]
        /\ hq' = IF HomeReads THEN Append(hq, m) ELSE hq
        /\ UNCHANGED <<introVars, home, room, hwait, starting, started, peerVars,
                       client, keys, crashed>>
    BY DEF ReadStartRoles, Reads
  <1>2. m \in HomeMail /\ m.cmd = "StartRoles"
    BY DEF HomeMail, HomeCommand
  <1> HIDE DEF m
  <1>3. TypeOK'
    <2>1. cin' \in [Conns -> Seq({"Login", "EnterGame", "StartRoles"})]
      BY <1>1, TypeFacts, FirstTaken DEF IInv
    <2>2. hq' \in Seq(HomeMail)
      BY <1>1, <1>2, TypeFacts, LastSent DEF IInv
    <2> QED  BY <1>1, <2>1, <2>2 DEF IInv, TypeOK, HomeMail, introVars, peerVars
  <1>4. hq' = hq \/ PutHome(m)
    BY <1>1, <1>2 DEF PutHome
  <1> QED  BY <1>1, <1>2, <1>3, <1>4, PeerStep DEF introVars, peerVars, Onward

LEMMA ForwardStep ==
  ASSUME IInv, NEW c \in Conns, Forward(c) PROVE IInv'
  <1>1. /\ sock[c] # <<>> /\ sock' = [sock EXCEPT ![c] = Tail(@)]
        /\ client' = IF client[c] = "gone" THEN client
                     ELSE [client EXCEPT ![c] = Head(sock[c])]
        /\ UNCHANGED <<introVars, homeVars, pc, actor, aq, keys, cin, crashed>>
    BY DEF Forward
  <1>2. /\ Head(sock[c]) \in {"Logged", "gone"} /\ Tail(sock[c]) \in Seq({"Logged", "gone"})
        /\ client \in [Conns -> {"off", "Intro", "Logged", "Home", "Roles", "gone"}]
        /\ sock \in [Conns -> Seq({"Logged", "gone"})]
    BY <1>1, TypeFacts, FirstTaken DEF IInv
  <1>3. TypeOK'
    <2>1. /\ client' \in [Conns -> {"off", "Intro", "Logged", "Home", "Roles", "gone"}]
          /\ sock' \in [Conns -> Seq({"Logged", "gone"})]
      BY <1>1, <1>2
    <2> QED  BY <1>1, <2>1 DEF IInv, TypeOK, introVars, homeVars
  <1>4. \A d \in Conns : Onward(d) /\ (client'[d] = "off" => client[d] = "off" /\ pc'[d] = pc[d])
    BY <1>1, <1>2 DEF Onward
  <1> QED  BY <1>1, <1>3, <1>4, PeerStep DEF introVars, homeVars

LEMMA EndStep ==
  ASSUME IInv, NEW c \in Conns, End(c) PROVE IInv'
  <1> DEFINE m == IntroCommand("DropPeer", c)
             n == HomeCommand("DropPeer", c)
  <1>1. /\ pc[c] \in {"intro", "home", "roles", "rejected", "failed"}
        /\ pc' = [pc EXCEPT ![c] = "ended"] /\ client' = [client EXCEPT ![c] = "gone"]
        /\ sock' = [sock EXCEPT ![c] = <<>>] /\ cin' = [cin EXCEPT ![c] = <<>>]
        /\ hq' = IF pc[c] = "home" /\ HomeReads THEN Append(hq, n) ELSE hq
        /\ iq' = Append(iq, m)
        /\ UNCHANGED <<slot, iwait, entering, server, news, home, room, hwait, starting,
                       started, actor, aq, keys, crashed>>
    BY DEF End, Ends, Loops, Goto
  <1>2. /\ m \in IntroMail /\ m.cmd = "DropPeer"
        /\ n \in HomeMail /\ n.cmd = "DropPeer" /\ n.from = c
    BY DEF IntroMail, HomeMail, IntroCommand, HomeCommand
  <1> HIDE DEF m, n
  <1>3. pc'[c] = "ended" /\ \A d \in Conns : Onward(d)
                             /\ (client'[d] = "off" => client[d] = "off" /\ pc'[d] = pc[d])
    BY <1>1, TypeFacts DEF IInv, Onward, Past
  <1>4. TypeOK'
    <2>1. iq' \in Seq(IntroMail) /\ hq' \in Seq(HomeMail)
      BY <1>1, <1>2, TypeFacts, LastSent DEF IInv
    <2>2. /\ pc' \in [Conns -> Places] /\ cin' \in [Conns -> Seq({"Login", "EnterGame", "StartRoles"})]
          /\ sock' \in [Conns -> Seq({"Logged", "gone"})]
          /\ client' \in [Conns -> {"off", "Intro", "Logged", "Home", "Roles", "gone"}]
      BY <1>1, TypeFacts DEF IInv, Places
    <2> QED  BY <1>1, <2>1, <2>2 DEF IInv, TypeOK, IntroMail, HomeMail, Places, Loops
  <1>5. PutIntro(m) /\ (hq' = hq \/ PutHome(n))
    BY <1>1, <1>2, <1>3 DEF PutIntro, PutHome
  <1> QED  BY <1>1, <1>2, <1>3, <1>4, <1>5, PeerStep

LEMMA OpenRolesStep ==
  ASSUME IInv, NEW c \in Conns, OpenRoles(c) PROVE IInv'
  <1>1. /\ pc[c] = "toRoles" /\ pc' = [pc EXCEPT ![c] = "startRoles"]
        /\ sock' = [sock EXCEPT ![c] = <<>>] /\ started' = started \cup {c}
        /\ UNCHANGED <<introVars, home, room, hq, hwait, starting, actor, aq, clientVars, crashed>>
    BY DEF OpenRoles, Goto
  <1>2. TypeOK'
    <2>1. pc' \in [Conns -> Places]
      BY <1>1, TypeFacts DEF IInv, Places
    <2> QED  BY <1>1, <2>1 DEF IInv, TypeOK, Places, Loops, introVars, clientVars
  <1>3. pc'[c] = "startRoles" /\ \A d \in Conns : Onward(d)
          /\ (client'[d] = "off" => client[d] = "off" /\ pc'[d] = pc[d])
    BY <1>1, TypeFacts DEF IInv, PlaceKept, Onward, Past, clientVars
  <1> QED  BY <1>1, <1>2, <1>3, PeerStep DEF introVars, clientVars

LEMMA StartStateStep ==
  ASSUME IInv, NEW c \in Conns, StartState(c) PROVE IInv'
  <1>1. /\ pc[c] \in {"startHome", "startRoles"}
        /\ pc' = [pc EXCEPT ![c] = IF pc[c] = "startHome" THEN "home" ELSE "roles"]
        /\ actor' = IF pc[c] = "startHome" THEN [actor EXCEPT ![c] = "home"] ELSE actor
        /\ client' = client \/ \E x \in {"Home", "Roles"} : client' = [client EXCEPT ![c] = x]
        /\ UNCHANGED <<introVars, homeVars, aq, sock, keys, cin, crashed>>
    BY DEF StartState, Goto, NextPlace, NextContext
  <1>2. TypeOK'
    <2>1. pc' \in [Conns -> Places]
      BY <1>1, TypeFacts DEF IInv, Places, Loops
    <2>2. client' \in [Conns -> {"off", "Intro", "Logged", "Home", "Roles", "gone"}]
      <3>1. client \in [Conns -> {"off", "Intro", "Logged", "Home", "Roles", "gone"}]
        BY TypeFacts DEF IInv
      <3>2. CASE client' = client
        BY <3>1, <3>2
      <3>3. ASSUME NEW x \in {"Home", "Roles"}, client' = [client EXCEPT ![c] = x]
            PROVE  client' \in [Conns -> {"off", "Intro", "Logged", "Home", "Roles", "gone"}]
        BY <3>1, <3>3
      <3> QED  BY <1>1, <3>2, <3>3
    <2>3. actor' \in [Conns -> {"none", "intro", "boot", "home", "over", "dead"}]
      BY <1>1 DEF IInv, TypeOK
    <2>4. UNCHANGED <<slot, iq, iwait, entering, server, news, home, room, hq, hwait,
                      starting, started, aq, sock, keys, cin, crashed>>
      BY <1>1 DEF introVars, homeVars
    <2> QED  BY <2>1, <2>2, <2>3, <2>4 DEF IInv, TypeOK, Places
  <1>3. client[c] # "off"
    BY <1>1 DEF IInv, PlaceKept
  <1>4. \A d \in Conns : Onward(d) /\ (client'[d] = "off" => client[d] = "off" /\ pc'[d] = pc[d])
    BY <1>1, <1>3, TypeFacts DEF IInv, Onward, Past
  <1> QED  BY <1>1, <1>2, <1>4, PeerStep DEF introVars, homeVars

LEMMA StartFailsStep ==
  ASSUME IInv, NEW c \in Conns, StartFails(c) PROVE IInv'
  <1> DEFINE m == IntroCommand("DropPeer", c)
  <1>1. /\ pc[c] \in {"startHome", "startRoles"} /\ client[c] = "gone"
        /\ pc' = [pc EXCEPT ![c] = "ended"] /\ actor' = [actor EXCEPT ![c] = "dead"]
        /\ aq' = [aq EXCEPT ![c] = <<>>] /\ crashed' \in {crashed, "home"}
        /\ iq' = Append(iq, m)
        /\ UNCHANGED <<slot, iwait, entering, server, news, homeVars, sock, clientVars>>
    BY DEF StartFails, Goto, LossOfMailbox
  <1>2. m \in IntroMail /\ m.cmd = "DropPeer"
    BY DEF IntroMail, IntroCommand
  <1> HIDE DEF m
  <1>3. /\ \A d \in Conns : Onward(d)
             /\ (client'[d] = "off" => client[d] = "off" /\ pc'[d] = pc[d])
        /\ \A d \in Conns : aq'[d] = aq[d] \/ aq'[d] = <<>>
    BY <1>1, TypeFacts DEF IInv, Onward, Past, clientVars
  <1>4. TypeOK'
    <2>1. iq' \in Seq(IntroMail)
      BY <1>1, <1>2, TypeFacts, LastSent DEF IInv
    <2>2. pc' \in [Conns -> Places] /\ aq' \in [Conns -> Seq(Asked3)]
      BY <1>1, TypeFacts DEF IInv, Places
    <2> QED  BY <1>1, <2>1, <2>2
             DEF IInv, TypeOK, IntroMail, Places, Asked3, Loops, homeVars, clientVars
  <1>5. PutIntro(m)
    BY <1>1, <1>2 DEF PutIntro
  <1> QED  BY <1>1, <1>2, <1>3, <1>4, <1>5, PeerStep DEF homeVars, clientVars


(* The peer has come out of its Intro state: the intro server goes on. *)
LEMMA OpenHomeStep ==
  ASSUME IInv, NEW c \in Conns, OpenHome(c) PROVE IInv'
  <1>1. /\ pc[c] = "toHome" /\ pc' = [pc EXCEPT ![c] = "startHome"]
        /\ actor' = [actor EXCEPT ![c] = "boot"] /\ sock' = [sock EXCEPT ![c] = <<>>]
        /\ iwait' = [iwait EXCEPT !.got = "done"]
        /\ UNCHANGED <<slot, iq, entering, server, news, home, room, hq, hwait, starting,
                       started, aq, client, keys, cin, crashed>>
    BY DEF OpenHome, Goto, homeVars, clientVars
  <1>2. /\ iwait.op = "enter" /\ iwait.from = c
        /\ iwait'.op = "enter" /\ iwait'.from = c /\ iwait'.got = "done"
    BY <1>1, TypeFacts DEF IInv, PlaceKept, Serving
  <1>3. TypeOK'
    <2>1. pc' \in [Conns -> Places]
      BY <1>1, TypeFacts DEF IInv, Places
    <2>2. /\ actor' \in [Conns -> {"none", "intro", "boot", "home", "over", "dead"}]
          /\ sock' \in [Conns -> Seq({"Logged", "gone"})]
      <3>1. /\ actor \in [Conns -> {"none", "intro", "boot", "home", "over", "dead"}]
            /\ sock \in [Conns -> Seq({"Logged", "gone"})] /\ <<>> \in Seq({"Logged", "gone"})
        BY DEF IInv, TypeOK
      <3> QED  BY <1>1, <3>1
    <2>3. iwait' \in [op : {"idle", "id", "enter", "add"}, from : Maybe,
                      got : {"no", "free", "taken", "done"}]
      BY <1>1 DEF IInv, TypeOK
    <2> QED  BY <1>1, <2>1, <2>2, <2>3 DEF IInv, TypeOK, Places
  <1>4. /\ pc'[c] = "startHome" /\ \A d \in Conns : pc'[d] # pc[d] => d = c
        /\ Seats' = Seats /\ Seats \subseteq Conns
        /\ \A i \in 1 .. Len(iq) : iq[i].from \in Conns
        /\ \A i \in 1 .. Len(hq) : hq[i].from \in Conns
    BY <1>1, TypeFacts DEF IInv, Seats
  <1>5. LoginsOpen' /\ Enters'
    BY <1>1, <1>2, <1>4 DEF IInv, LoginsOpen, Enters, Past
  <1>6. \A d \in Conns : PlaceKept(d)'
    BY <1>1, <1>2, <1>4 DEF IInv, PlaceKept, Past, Awaited, Serving
  <1>7. HomeAsked' /\ Servers'
    <2>1. \A i \in 1 .. Len(hq) : ~ FromIntro(hq[i].cmd)
      BY <1>2 DEF IInv, HomeAsked, FromIntro, Serving
    <2>2. HomeAsked'
      BY <1>1, <1>4, <2>1 DEF IInv, HomeAsked, FromIntro
    <2> QED  BY <1>1, <1>4, <2>2 DEF IInv, Servers, HomeReads
  <1>8. Searches' /\ NamesAsked'
    BY <1>1, SearchKept
  <1>9. FreeName' /\ NamesUnique'
    <2>1. SittingHere' = SittingHere /\ SittingHere \subseteq Conns
      BY <1>1, <1>4 DEF SittingHere
    <2>2. \A d : d \in Conns /\ pc[d] = "ended" => pc'[d] = "ended"
      BY <1>1, <1>4
    <2> QED  BY <1>1, <1>2, <1>4, <2>1, <2>2 DEF IInv, FreeName, NamesUnique
  <1> QED  BY <1>3, <1>5, <1>6, <1>7, <1>8, <1>9 DEF IInv

LEMMA AnswerEnterGameStep ==
  ASSUME IInv, NEW c \in Conns, AnswerEnterGame(c) PROVE IInv'
  <1>1. /\ iwait = Serving("enter", c)
        /\ actor' = [actor EXCEPT ![c] = "over"]
        /\ \/ pc[c] = "intro" /\ pc' = [pc EXCEPT ![c] = "toHome"] /\ crashed' = crashed
           \/ crashed' = "intro" /\ pc' = pc
        /\ UNCHANGED <<slot, iq, iwait, entering, server, news, home, room, hq, hwait,
                       starting, started, aq, sock, client, keys, cin>>
    BY DEF AnswerEnterGame, Goto, introVars, homeVars, clientVars
  <1>2. TypeOK'
    <2>1. pc' \in [Conns -> Places] /\ crashed' \in {"no", "intro", "home", "full", "over"}
      <3>1. pc \in [Conns -> Places] /\ crashed \in {"no", "intro", "home", "full", "over"}
        BY TypeFacts DEF IInv, TypeOK
      <3>2. "toHome" \in Places
        BY DEF Places
      <3>3. CASE pc' = pc
        BY <1>1, <3>1, <3>3
      <3>4. CASE pc' = [pc EXCEPT ![c] = "toHome"]
        BY <1>1, <3>1, <3>2, <3>4
      <3> QED  BY <1>1, <3>3, <3>4
    <2>2. actor' \in [Conns -> {"none", "intro", "boot", "home", "over", "dead"}]
      BY <1>1 DEF IInv, TypeOK
    <2> QED  BY <1>1, <2>1, <2>2 DEF IInv, TypeOK, Places
  <1>3. CASE pc' = pc
    BY <1>1, <1>2, <1>3, PeerStep DEF Onward
  <1>4. CASE pc[c] = "intro" /\ pc' = [pc EXCEPT ![c] = "toHome"]
    <2>1. /\ pc'[c] = "toHome" /\ \A d \in Conns : pc'[d] # pc[d] => d = c
          /\ Seats' = Seats /\ Seats \subseteq Conns
          /\ \A i \in 1 .. Len(iq) : iq[i].from \in Conns
          /\ \A i \in 1 .. Len(hq) : hq[i].from \in Conns
      BY <1>1, <1>4, TypeFacts DEF IInv, Seats
    <2>2. LoginsOpen' /\ Enters'
      BY <1>1, <1>4, <2>1 DEF IInv, LoginsOpen, Enters, Past, Serving
    <2>3. \A d \in Conns : PlaceKept(d)'
      BY <1>1, <1>4, <2>1 DEF IInv, PlaceKept, Past, Awaited, Serving
    <2>4. HomeAsked' /\ Servers'
      <3>1. \A i \in 1 .. Len(hq) : hq[i].cmd = "DropPeer" => pc'[hq[i].from] = "ended"
        BY <1>4, <2>1 DEF IInv, HomeAsked
      <3> QED  BY <1>1, <2>1, <3>1 DEF IInv, HomeAsked, Serving, Servers, HomeReads
    <2>5. Searches' /\ NamesAsked'
      BY <1>1, SearchKept
    <2>6. FreeName' /\ NamesUnique'
      <3>1. SittingHere' = SittingHere /\ SittingHere \subseteq Conns
        BY <1>1, <2>1 DEF SittingHere
      <3>2. \A d : d \in Conns /\ pc[d] = "ended" => pc'[d] = "ended"
        BY <1>4, <2>1
      <3> QED  BY <1>1, <2>1, <3>1, <3>2 DEF IInv, FreeName, NamesUnique
    <2> QED  BY <1>2, <2>2, <2>3, <2>4, <2>5, <2>6 DEF IInv
  <1> QED  BY <1>1, <1>3, <1>4

(* The actor answers the one question for its name, if that is what it takes. *)
LEMMA HomeActorStep ==
  ASSUME IInv, NEW c \in Conns, HomeActor(c) PROVE IInv'
  <1> DEFINE msg == Head(aq[c])
  <1>1. /\ aq[c] # <<>>
        /\ \E q \in {<<>>, Tail(aq[c])} : aq' = [aq EXCEPT ![c] = q]
        /\ \/ msg # "GetUsername" /\ hwait' = hwait
           \/ msg = "GetUsername" /\ hwait' = [hwait EXCEPT !.got = Name(c)]
        /\ pc' = pc \/ (pc[c] = "home" /\ pc' = [pc EXCEPT ![c] = "toRoles"])
        /\ UNCHANGED <<slot, iq, iwait, entering, server, news, home, room, hq, starting,
                       started, sock, client, keys, cin>>
    BY DEF HomeActor, introVars, homeVars, clientVars
  <1>2. /\ actor' = actor \/ \E x \in {"dead", "over"} : actor' = [actor EXCEPT ![c] = x]
        /\ crashed' \in {crashed, "home"}
    BY DEF HomeActor, LossOfMailbox
  <1> HIDE DEF msg
  <1>3. PICK q \in {<<>>, Tail(aq[c])} : aq' = [aq EXCEPT ![c] = q]
    BY <1>1
  <1>4. /\ aq \in [Conns -> Seq(Asked3)] /\ aq[c] \in Seq(Asked3) /\ q \in Seq(Asked3)
        /\ msg = aq[c][1] /\ 1 \in 1 .. Len(aq[c]) /\ Len(q) \in Nat
        /\ \A i \in 1 .. Len(q) : i + 1 \in 1 .. Len(aq[c]) /\ q[i] = aq[c][i + 1]
    <2>1. aq \in [Conns -> Seq(Asked3)] /\ aq[c] \in Seq(Asked3)
      BY TypeFacts DEF IInv
    <2>2. CASE q = <<>>
      BY <1>1, <2>1, <2>2, FirstTaken DEF msg
    <2>3. CASE q = Tail(aq[c])
      BY <1>1, <2>1, <2>3, FirstTaken DEF msg
    <2> QED  BY <2>2, <2>3
  <1>5. TypeOK'
    <2>1. pc' \in [Conns -> Places]
      <3>1. pc \in [Conns -> Places] /\ "toRoles" \in Places
        BY TypeFacts DEF IInv, Places
      <3> QED  BY <1>1, <3>1
    <2>2. aq' \in [Conns -> Seq(Asked3)]
      BY <1>3, <1>4
    <2>3. actor' \in [Conns -> {"none", "intro", "boot", "home", "over", "dead"}]
      <3>1. actor \in [Conns -> {"none", "intro", "boot", "home", "over", "dead"}]
        BY DEF IInv, TypeOK
      <3>2. ASSUME NEW x \in {"dead", "over"}, actor' = [actor EXCEPT ![c] = x]
            PROVE  actor' \in [Conns -> {"none", "intro", "boot", "home", "over", "dead"}]
        BY <3>1, <3>2
      <3> QED  BY <1>2, <3>1, <3>2
    <2>4. hwait' \in [op : {"idle", "id", "drop"}, at : 1 .. Capacity,
                      got : Names \cup {Unknown}, found : BOOLEAN]
      <3>1. Name(c) \in Names
        BY NameFacts
      <3> QED  BY <1>1, <3>1 DEF IInv, TypeOK
    <2>5. crashed' \in {"no", "intro", "home", "full", "over"}
      BY <1>2 DEF IInv, TypeOK
    <2> QED  BY <1>1, <2>1, <2>2, <2>3, <2>4, <2>5 DEF IInv, TypeOK, Places, Asked3
  <1>6. /\ hwait'.op = hwait.op /\ hwait'.at = hwait.at /\ hwait'.found = hwait.found
        /\ msg # "GetUsername" => hwait'.got = hwait.got
        /\ msg = "GetUsername" => hwait'.got = Name(c) /\ room[hwait.at] = c
    <2>1. msg = "GetUsername" => room[hwait.at] = c
      BY <1>4 DEF IInv, NamesAsked
    <2> QED  BY <1>1, <2>1 DEF IInv, TypeOK
  <1>7. Searches'
    BY <1>1, <1>6 DEF IInv, Searches
  <1>8. NamesAsked'
    <2>1. ASSUME NEW d \in Conns, NEW i \in 1 .. Len(aq'[d]), aq'[d][i] = "GetUsername"
          PROVE  /\ hwait.op # "idle" /\ hwait.got = Unknown /\ room[hwait.at] = d
                 /\ \A j \in 1 .. Len(aq'[d]) : aq'[d][j] = "GetUsername" => j = i
                 /\ msg # "GetUsername"
      <3>1. NamesAsked /\ Len(q) \in Nat
        BY <1>4 DEF IInv
      <3>2. CASE d # c
        <4>1. aq'[d] = aq[d]
          BY <1>3, <1>4, <3>2
        <4>2. /\ hwait.op # "idle" /\ hwait.got = Unknown /\ room[hwait.at] = d
              /\ \A j \in 1 .. Len(aq[d]) : aq[d][j] = "GetUsername" => j = i
          BY <2>1, <3>1, <4>1 DEF NamesAsked
        <4> QED  BY <1>6, <3>2, <4>1, <4>2
      <3>3. CASE d = c
        <4>1. aq'[d] = q
          BY <1>3, <1>4, <3>3
        <4>2. PICK k \in 1 .. Len(aq[c]) : k = i + 1 /\ q[i] = aq[c][k]
          BY <1>4, <2>1, <4>1
        <4>3. /\ hwait.op # "idle" /\ hwait.got = Unknown /\ room[hwait.at] = d
              /\ \A n \in 1 .. Len(aq[c]) : aq[c][n] = "GetUsername" => n = k
          BY <2>1, <3>1, <3>3, <4>1, <4>2 DEF NamesAsked
        <4>4. ASSUME NEW j \in 1 .. Len(q), q[j] = "GetUsername" PROVE j = i
          <5>1. j + 1 \in 1 .. Len(aq[c]) /\ aq[c][j + 1] = "GetUsername"
            BY <1>4, <4>4
          <5>2. j + 1 = k
            BY <4>3, <5>1
          <5> QED  BY <4>2, <5>2, <3>1
        <4>5. msg # "GetUsername"
          <5>1. k # 1
            BY <2>1, <3>1, <4>1, <4>2
          <5> QED  BY <1>4, <4>3, <5>1
        <4> QED  BY <4>1, <4>3, <4>4, <4>5
      <3> QED  BY <3>2, <3>3
    <2> QED  BY <1>1, <1>6, <2>1 DEF NamesAsked
  <1>9. \A d \in Conns : Onward(d) /\ (client'[d] = "off" => client[d] = "off" /\ pc'[d] = pc[d])
    BY <1>1, TypeFacts DEF IInv, PlaceKept, Onward, Past
  <1>10. home = "run" \/ hwait'.op = "idle"
    BY <1>6 DEF IInv, Servers, HomeReads
  <1> QED  BY <1>1, <1>5, <1>7, <1>8, <1>9, <1>10, OnwardStep


-------------------------------------------------------------------------------
(* Steps of the home server.                                               *)

(* It takes one command when it has no search to finish. *)
LEMMA ReceiveFacts ==
  ASSUME IInv, NEW cmd, Receive(cmd)
  PROVE  /\ home = "run" /\ HomeReads /\ hwait.op = "idle" /\ hq # <<>>
         /\ Head(hq).cmd = cmd /\ Head(hq).from \in Conns /\ Tail(hq) \in Seq(HomeMail)
         /\ \A c \in Conns : \A i \in 1 .. Len(aq[c]) : aq[c][i] # "GetUsername"
  <1>1. home = "run" /\ hwait.op = "idle" /\ hq # <<>> /\ Head(hq).cmd = cmd
    BY DEF Receive
  <1> QED  BY <1>1, HomeTaken DEF IInv, NamesAsked, HomeReads

LEMMA AddPeerStep ==
  ASSUME IInv, AddPeer PROVE IInv'
  <1> DEFINE c == Head(hq).from
  <1>1. /\ home = "run" /\ HomeReads /\ hwait.op = "idle" /\ hq # <<>>
        /\ Head(hq).cmd = "AddPeer" /\ c \in Conns /\ Tail(hq) \in Seq(HomeMail)
    BY ReceiveFacts DEF AddPeer
  <1>2. /\ hq' = Tail(hq)
        /\ \/ /\ room' = Append(room, c) /\ Len(room) < Capacity
              /\ iwait' = [iwait EXCEPT !.got = "done"] /\ crashed' = crashed
           \/ crashed' = "full" /\ room' = room /\ iwait' = iwait
        /\ UNCHANGED <<slot, iq, entering, server, news, home, hwait, starting, started,
                       pc, actor, aq, sock, client, keys, cin>>
    BY DEF AddPeer, peerVars, clientVars
  <1>3. iwait = Serving("add", c)
    BY <1>1, HomeTaken
  <1>4. Searches' /\ NamesAsked'
    BY <1>1, <1>2 DEF IInv, Searches, NamesAsked
  <1> HIDE DEF c
  <1>5. CASE room' = room /\ iwait' = iwait /\ crashed' = "full"
    <2>1. TypeOK'
      BY <1>1, <1>2, <1>5 DEF IInv, TypeOK, HomeMail
    <2> QED  BY <1>1, <1>2, <1>4, <1>5, <2>1, OnwardStep DEF Onward
  <1>6. CASE /\ room' = Append(room, c) /\ Len(room) < Capacity
             /\ iwait' = [iwait EXCEPT !.got = "done"] /\ crashed' = crashed
    <2>1. /\ iwait.op = "add" /\ iwait.from = c /\ iwait.got = "no"
          /\ iwait' = [op |-> "add", from |-> c, got |-> "done"]
      BY <1>3, <1>6 DEF Serving
    <2>2. slot[c] = "here" /\ pc[c] \in Past /\ c \notin Seats
      BY <1>1, <2>1 DEF IInv, Enters, PlaceKept
    <2>3. /\ room' \in Seq(Conns) /\ Len(room') <= Capacity /\ IsInjective(room')
          /\ Seats' = Seats \cup {c} /\ Seats \subseteq Conns
      <3>1. /\ room \in Seq(Conns) /\ IsInjective(room) /\ Seats \subseteq Conns
            /\ Len(room) \in Nat
        BY TypeFacts DEF IInv
      <3>2. Seats' = Seats \cup {c} /\ IsInjective(room')
        BY <1>1, <1>6, <2>2, <3>1, SeatsAdd DEF Seats
      <3>3. Len(room') = Len(room) + 1 /\ room' \in Seq(Conns)
        BY <1>1, <1>6, <3>1
      <3> QED  BY <1>6, <3>1, <3>2, <3>3, NameFacts
    <2>4. TypeOK'
      <3>1. iwait' \in [op : {"idle", "id", "enter", "add"}, from : Maybe,
                        got : {"no", "free", "taken", "done"}]
        BY <1>1, <2>1 DEF Maybe
      <3> QED  BY <1>1, <1>2, <1>6, <2>3, <3>1 DEF IInv, TypeOK, HomeMail
    <2>5. LoginsOpen' /\ Enters'
      BY <1>1, <1>2, <2>1, <2>2 DEF IInv, LoginsOpen, Enters
    <2>6. ASSUME NEW d \in Conns PROVE PlaceKept(d)'
      <3>1. CASE d = c
        BY <1>2, <2>1, <2>2, <2>3, <3>1 DEF IInv, PlaceKept, Past
      <3>2. CASE d # c
        <4>1. d \in Seats' <=> d \in Seats
          BY <2>3, <3>2
        <4> QED  BY <1>2, <2>1, <3>2, <4>1 DEF IInv, PlaceKept, Awaited, Serving
      <3> QED  BY <3>1, <3>2
    <2>7. HomeAsked'
      <3>1. FromIntro(Head(hq).cmd)
        BY <1>1 DEF FromIntro
      <3>2. \A i \in 1 .. Len(Tail(hq)) : ~ FromIntro(Tail(hq)[i].cmd)
        BY <1>1, <3>1, HomeTaken
      <3>3. \A i \in 1 .. Len(Tail(hq)) :
               Tail(hq)[i].cmd = "DropPeer" => pc'[Tail(hq)[i].from] = "ended"
        BY <1>1, <1>2, HomeTaken
      <3> QED  BY <1>2, <3>2, <3>3 DEF HomeAsked, FromIntro
    <2>8. Servers'
      BY <1>1, <1>2 DEF IInv, Servers, HomeReads
    <2>9. FreeName' /\ NamesUnique'
      <3>1. SittingHere' = SittingHere
        BY <1>1, <1>2, <2>2, <2>3 DEF SittingHere
      <3>2. \A e \in Seats : e \in Seats'
        BY <2>3
      <3> QED  BY <1>2, <2>1, <3>1, <3>2 DEF IInv, FreeName, NamesUnique
    <2> QED  BY <1>4, <2>4, <2>5, <2>6, <2>7, <2>8, <2>9 DEF IInv
  <1> QED  BY <1>2, <1>5, <1>6

LEMMA StartRolesStep ==
  ASSUME IInv, StartRoles PROVE IInv'
  <1>1. /\ home = "run" /\ hwait.op = "idle" /\ hq # <<>> /\ Tail(hq) \in Seq(HomeMail)
        /\ Head(hq).from \in Conns
    BY ReceiveFacts DEF StartRoles
  <1>2. /\ hq' = Tail(hq) /\ starting' \in {starting, Head(hq).from}
        /\ crashed' \in {crashed, "home"}
        /\ UNCHANGED <<slot, iq, iwait, entering, server, news, home, room, hwait, started,
                       pc, actor, aq, sock, client, keys, cin>>
    BY DEF StartRoles, introVars, peerVars, clientVars
  <1>3. TypeOK'
    <2>1. starting' \in Maybe /\ crashed' \in {"no", "intro", "home", "full", "over"}
      BY <1>1, <1>2 DEF IInv, TypeOK, Maybe
    <2> QED  BY <1>1, <1>2, <2>1 DEF IInv, TypeOK, HomeMail
  <1>4. Searches' /\ NamesAsked'
    BY <1>1, <1>2 DEF IInv, Searches, NamesAsked
  <1> QED  BY <1>1, <1>2, <1>3, <1>4, OnwardStep DEF Onward

(* The name of one in the room is asked for, and of no one else. *)
LEMMA AskStep ==
  ASSUME IInv, NEW op \in {"id", "drop"}, NEW i \in 1 .. Len(room), NEW found \in BOOLEAN,
         hwait.op = "idle" \/ hwait.got # Unknown, room' = room,
         NEW p \in Conns, room[i] = p, aq' = [aq EXCEPT ![p] = Append(@, "GetUsername")],
         hwait' = [op |-> op, at |-> i, got |-> Unknown, found |-> found]
  PROVE  /\ NamesAsked' /\ aq' \in [Conns -> Seq(Asked3)]
         /\ hwait' \in [op : {"idle", "id", "drop"}, at : 1 .. Capacity,
                        got : Names \cup {Unknown}, found : BOOLEAN]
  <1>1. /\ aq \in [Conns -> Seq(Asked3)] /\ Len(room) <= Capacity
        /\ Len(room) \in Nat
    <2>1. TypeOK
      BY DEF IInv
    <2>2. aq \in [Conns -> Seq(Asked3)] /\ room \in Seq(Conns) /\ Len(room) <= Capacity
      BY <2>1, TypeFacts
    <2> QED  BY <2>2
  <1>2. aq' = [aq EXCEPT ![p] = Append(aq[p], "GetUsername")]
    OBVIOUS
  <1>3. \A c \in Conns : \A k \in 1 .. Len(aq[c]) : aq[c][k] # "GetUsername"
    BY DEF IInv, NamesAsked
  <1>4. hwait'.op # "idle" /\ hwait'.got = Unknown /\ room'[hwait'.at] = p
    OBVIOUS
  <1>5. /\ Append(aq[p], "GetUsername") \in Seq(Asked3) /\ Len(aq[p]) \in Nat
        /\ \A k \in 1 .. Len(Append(aq[p], "GetUsername")) :
             k = Len(aq[p]) + 1 \/ Append(aq[p], "GetUsername")[k] # "GetUsername"
    <2>1. aq[p] \in Seq(Asked3) /\ "GetUsername" \in Asked3
      BY <1>1 DEF Asked3
    <2> QED  BY <1>1, <1>3, <2>1, LastSent
  <1>6. NamesAsked'
    <2>1. ASSUME NEW c \in Conns, NEW k \in 1 .. Len(aq'[c]), aq'[c][k] = "GetUsername"
          PROVE  c = p /\ \A j \in 1 .. Len(aq'[c]) : aq'[c][j] = "GetUsername" => j = k
      <3>1. CASE c # p
        BY <1>1, <1>2, <1>3, <2>1, <3>1
      <3>2. CASE c = p
        BY <1>1, <1>2, <1>5, <2>1, <3>2
      <3> QED  BY <3>1, <3>2
    <2> QED  BY <1>4, <2>1 DEF NamesAsked
  <1>7. aq' \in [Conns -> Seq(Asked3)]
    BY <1>1, <1>2, <1>5
  <1>8. i \in 1 .. Capacity
    BY <1>1, NameFacts
  <1> QED  BY <1>6, <1>7, <1>8


(* The answer to the intro server: the name is that of no one in the room. *)
LEMMA IdAnswered ==
  ASSUME IInv, home = "run", hq # <<>>, Head(hq).cmd = "GetPeerIdByName", hq' = Tail(hq),
         NEW got \in {"free", "taken"}, iwait' = [iwait EXCEPT !.got = got],
         got = "free" => \A d \in Seats : Name(d) # Name(Head(hq).from),
         hwait.op = "idle" \/ hwait.got # Unknown, hwait' \in {hwait, HomeIdle},
         hwait'.op = "idle",
         UNCHANGED <<slot, iq, entering, server, news, home, room, starting, started, pc,
                     actor, aq, sock, client, keys, cin, crashed>>
  PROVE  IInv'
  <1> DEFINE c == Head(hq).from
  <1>1. /\ iwait.op = "id" /\ iwait.from = c /\ c \in Conns /\ Tail(hq) \in Seq(HomeMail)
        /\ iwait' = [op |-> "id", from |-> c, got |-> got]
    BY HomeTaken DEF Serving
  <1>2. \A d \in Conns : \A k \in 1 .. Len(aq[d]) : aq[d][k] # "GetUsername"
    BY DEF IInv, NamesAsked
  <1>3. \A d \in Seats : got = "free" => Name(d) # Name(c)
    OBVIOUS
  <1> HIDE DEF c
  <1>4. TypeOK'
    <2>1. hwait' \in [op : {"idle", "id", "drop"}, at : 1 .. Capacity,
                      got : Names \cup {Unknown}, found : BOOLEAN]
      <3>1. HomeIdle \in [op : {"idle", "id", "drop"}, at : 1 .. Capacity,
                          got : Names \cup {Unknown}, found : BOOLEAN]
        BY NameFacts DEF HomeIdle
      <3> QED  BY <3>1 DEF IInv, TypeOK
    <2>2. iwait' \in [op : {"idle", "id", "enter", "add"}, from : Maybe,
                      got : {"no", "free", "taken", "done"}]
      BY <1>1 DEF Maybe
    <2> QED  BY <1>1, <2>1, <2>2 DEF IInv, TypeOK, HomeMail
  <1>5. LoginsOpen' /\ Enters'
    BY <1>1 DEF IInv, LoginsOpen, Enters
  <1>6. Seats' = Seats /\ Seats \subseteq Conns
    BY TypeFacts DEF IInv, Seats
  <1>7. \A d \in Conns : PlaceKept(d)'
    BY <1>1, <1>6 DEF IInv, PlaceKept, Awaited, Serving
  <1>8. HomeAsked'
    <2>1. \A i \in 1 .. Len(Tail(hq)) : ~ FromIntro(Tail(hq)[i].cmd)
      <3>1. FromIntro(Head(hq).cmd)
        BY DEF FromIntro
      <3> QED  BY <3>1, HomeTaken
    <2>2. \A i \in 1 .. Len(Tail(hq)) :
             Tail(hq)[i].cmd = "DropPeer" => pc'[Tail(hq)[i].from] = "ended"
      BY HomeTaken
    <2> QED  BY <2>1, <2>2 DEF HomeAsked, FromIntro
  <1>9. Servers' /\ Searches'
    BY <1>6 DEF IInv, Servers, Searches, HomeReads
  <1>10. NamesAsked'
    BY <1>2 DEF NamesAsked
  <1>11. FreeName' /\ NamesUnique'
    <2>1. SittingHere' = SittingHere
      BY <1>6 DEF SittingHere
    <2>2. FreeName'
      BY <1>1, <1>3, <1>6 DEF IInv, FreeName
    <2> QED  BY <1>6, <2>1, <2>2 DEF IInv, NamesUnique
  <1> QED  BY <1>4, <1>5, <1>7, <1>8, <1>9, <1>10, <1>11 DEF IInv

(* A server that panics in the middle of a step. *)
LEMMA TypeKept ==
  ASSUME TypeOK, crashed' \in {crashed, "home", "intro", "full"},
         UNCHANGED <<slot, iq, iwait, entering, server, news, home, room, hq, hwait,
                     starting, started, pc, actor, aq, sock, client, keys, cin>>
  PROVE  TypeOK'
  <1>1. crashed' \in {"no", "intro", "home", "full", "over"}
    BY DEF TypeOK
  <1> QED  BY <1>1 DEF TypeOK

(* A step that only asks one in the room, or finds that it cannot. *)
LEMMA AskedStep ==
  ASSUME IInv, home = "run", NEW op \in {"id", "drop"}, NEW i \in 1 .. Len(room),
         NEW found \in BOOLEAN, hwait.op = "idle" \/ hwait.got # Unknown,
         Ask(op, i, found), hq # <<>>,
         op = "id" => /\ Head(hq).cmd = "GetPeerIdByName"
                      /\ \A j \in 1 .. (i - 1) :
                           Name(room[j]) = Name(Head(hq).from) => found,
         op = "drop" => Head(hq).cmd = "DropPeer" /\ room[i] = Head(hq).from,
         UNCHANGED <<slot, iq, iwait, entering, server, news, home, room, hq, starting,
                     started, pc, actor, sock, client, keys, cin>>
  PROVE  IInv'
  <1>1. \/ /\ aq' = [aq EXCEPT ![room[i]] = Append(@, "GetUsername")]
           /\ hwait' = [op |-> op, at |-> i, got |-> Unknown, found |-> found]
           /\ crashed' = crashed
        \/ crashed' = "home" /\ aq' = aq /\ hwait' = hwait
    BY DEF Ask
  <1>2. CASE crashed' = "home" /\ aq' = aq /\ hwait' = hwait
    <2>1. UNCHANGED <<slot, iq, iwait, entering, server, news, home, room, hq, hwait,
                      starting, started, pc, actor, aq, sock, client, keys, cin>>
      BY <1>2
    <2>2. TypeOK'
      BY <1>2, <2>1, TypeKept DEF IInv
    <2>3. Searches' /\ NamesAsked'
      BY <1>2, SearchKept
    <2> QED  BY <1>2, <2>2, <2>3, OnwardStep DEF Onward
  <1>3. CASE /\ aq' = [aq EXCEPT ![room[i]] = Append(@, "GetUsername")]
             /\ hwait' = [op |-> op, at |-> i, got |-> Unknown, found |-> found]
             /\ crashed' = crashed
    <2>1. room[i] \in Conns /\ Len(room) \in Nat
      BY TypeFacts DEF IInv
    <2>2. PICK p \in Conns : room[i] = p
      BY <2>1
    <2>3. aq' = [aq EXCEPT ![p] = Append(@, "GetUsername")]
      BY <1>3, <2>2
    <2>4. /\ NamesAsked' /\ aq' \in [Conns -> Seq(Asked3)]
          /\ hwait' \in [op : {"idle", "id", "drop"}, at : 1 .. Capacity,
                         got : Names \cup {Unknown}, found : BOOLEAN]
      BY <1>3, <2>2, <2>3, AskStep
    <2>5. TypeOK'
      BY <1>3, <2>4 DEF IInv, TypeOK, Asked3
    <2>6. Searches'
      BY <1>3 DEF Searches
    <2> QED  BY <2>4, <2>5, <2>6, OnwardStep DEF Onward
  <1> QED  BY <1>1, <1>2, <1>3

LEMMA SearchIdStep ==
  ASSUME IInv, SearchId PROVE IInv'
  <1>1. /\ home = "run" /\ hwait.op = "idle" /\ hq # <<>>
        /\ Head(hq).cmd = "GetPeerIdByName"
    BY ReceiveFacts DEF SearchId
  <1>2. UNCHANGED <<slot, iq, entering, server, news, home, room, starting, started, pc,
                    actor, sock, client, keys, cin>>
    BY DEF SearchId, clientVars
  <1>3. CASE room = <<>>
    <2>1. /\ hq' = Tail(hq) /\ iwait' = [iwait EXCEPT !.got = "free"]
          /\ UNCHANGED <<aq, hwait, crashed>>
      BY <1>3 DEF SearchId
    <2>2. Seats = {}
      BY <1>3, TypeFacts DEF IInv
    <2> QED  BY <1>1, <1>2, <2>1, <2>2, IdAnswered
  <1>4. CASE room # <<>>
    <2>1. Ask("id", 1, FALSE) /\ UNCHANGED <<hq, iwait>>
      BY <1>4 DEF SearchId
    <2>2. 1 \in 1 .. Len(room)
      BY <1>4, TypeFacts DEF IInv
    <2>3. 1 .. (1 - 1) = {}
      OBVIOUS
    <2> QED  BY <1>1, <1>2, <2>1, <2>2, <2>3, AskedStep
  <1> QED  BY <1>3, <1>4

LEMMA SearchNextStep ==
  ASSUME IInv, SearchNext PROVE IInv'
  <1> DEFINE found == hwait.found \/ hwait.got = Name(Head(hq).from)
  <1>1. /\ hwait.op = "id" /\ hwait.got # Unknown
        /\ UNCHANGED <<slot, iq, entering, server, news, home, room, starting, started, pc,
                       actor, sock, client, keys, cin>>
        /\ \/ /\ hwait.at < Len(room) /\ Ask("id", hwait.at + 1, found)
              /\ UNCHANGED <<hq, iwait>>
           \/ /\ ~ hwait.at < Len(room) /\ hq' = Tail(hq) /\ hwait' = HomeIdle
              /\ iwait' = [iwait EXCEPT !.got = IF found THEN "taken" ELSE "free"]
              /\ UNCHANGED <<aq, crashed>>
    BY DEF SearchNext, clientVars
  <1>2. /\ home = "run" /\ hq # <<>> /\ Head(hq).cmd = "GetPeerIdByName"
        /\ hwait.at \in 1 .. Len(room) /\ hwait.got = Name(room[hwait.at])
        /\ \A j \in 1 .. (hwait.at - 1) :
             Name(room[j]) = Name(Head(hq).from) => hwait.found
    BY <1>1 DEF IInv, Searches, Servers, HomeReads
  <1>3. found \in BOOLEAN /\ Len(room) \in Nat
    BY TypeFacts DEF IInv
  <1>4. \A j \in 1 .. hwait.at : Name(room[j]) = Name(Head(hq).from) => found
    <2>1. \A j \in 1 .. hwait.at : j \in 1 .. (hwait.at - 1) \/ j = hwait.at
      BY <1>2, <1>3
    <2> QED  BY <1>2, <2>1
  <1> HIDE DEF found
  <1>5. CASE hwait.at < Len(room) /\ Ask("id", hwait.at + 1, found) /\ UNCHANGED <<hq, iwait>>
    <2>1. hwait.at + 1 \in 1 .. Len(room) /\ (hwait.at + 1) - 1 = hwait.at
      BY <1>2, <1>3, <1>5
    <2> QED  BY <1>1, <1>2, <1>3, <1>4, <1>5, <2>1, AskedStep
  <1>6. CASE /\ ~ hwait.at < Len(room) /\ hq' = Tail(hq) /\ hwait' = HomeIdle
             /\ iwait' = [iwait EXCEPT !.got = IF found THEN "taken" ELSE "free"]
             /\ UNCHANGED <<aq, crashed>>
    <2>1. hwait.at = Len(room)
      BY <1>2, <1>3, <1>6
    <2>2. ASSUME ~ found, NEW d \in Seats PROVE Name(d) # Name(Head(hq).from)
      <3>1. PICK i \in 1 .. Len(room) : room[i] = d
        BY TypeFacts DEF IInv
      <3> QED  BY <1>4, <2>1, <2>2, <3>1
    <2>3. PICK got \in {"free", "taken"} :
             iwait' = [iwait EXCEPT !.got = got] /\ (got = "free" => ~ found)
      BY <1>6
    <2>4. hwait'.op = "idle"
      BY <1>6 DEF HomeIdle
    <2> QED  BY <1>1, <1>2, <1>6, <2>2, <2>3, <2>4, IdAnswered
  <1> QED  BY <1>1, <1>5, <1>6

LEMMA DropPeerStep ==
  ASSUME IInv, DropPeer PROVE IInv'
  <1>1. /\ home = "run" /\ hwait.op = "idle" /\ hq # <<>> /\ Tail(hq) \in Seq(HomeMail)
        /\ Head(hq).cmd = "DropPeer"
    BY ReceiveFacts DEF DropPeer
  <1>2. /\ UNCHANGED <<slot, iq, iwait, entering, server, news, home, room, starting,
                       started, pc, actor, sock, client, keys, cin>>
        /\ \/ /\ Head(hq).from \in Seats /\ Ask("drop", PlaceOf(Head(hq).from), FALSE)
              /\ hq' = hq
           \/ hq' = Tail(hq) /\ UNCHANGED <<aq, hwait, crashed>>
    BY DEF DropPeer, introVars, clientVars
  <1>3. CASE hq' = Tail(hq) /\ UNCHANGED <<aq, hwait, crashed>>
    <2>1. TypeOK'
      BY <1>1, <1>2, <1>3 DEF IInv, TypeOK, HomeMail
    <2>2. Searches' /\ NamesAsked'
      BY <1>1, <1>2, <1>3 DEF IInv, Searches, NamesAsked
    <2> QED  BY <1>1, <1>2, <1>3, <2>1, <2>2, OnwardStep DEF Onward
  <1>4. CASE /\ Head(hq).from \in Seats /\ Ask("drop", PlaceOf(Head(hq).from), FALSE)
             /\ hq' = hq
    <2> DEFINE i == PlaceOf(Head(hq).from)
    <2>1. /\ \E j \in DOMAIN room : room[j] = Head(hq).from
          /\ DOMAIN room = 1 .. Len(room)
      BY <1>4, TypeFacts DEF IInv, Seats, ToSet
    <2>2. i \in 1 .. Len(room) /\ room[i] = Head(hq).from
      BY <2>1 DEF PlaceOf
    <2> HIDE DEF i
    <2>3. Ask("drop", i, FALSE)
      BY <1>4 DEF i
    <2> QED  BY <1>1, <1>2, <1>4, <2>2, <2>3, AskedStep
  <1> QED  BY <1>2, <1>3, <1>4


(* The one that is dropped has ended; the others keep their places. *)
LEMMA DroppedStep ==
  ASSUME IInv, Dropped PROVE IInv'
  <1> DEFINE c == Head(hq).from
  <1>1. /\ hwait.op = "drop" /\ hwait.got # Unknown
        /\ hq' = Tail(hq) /\ hwait' = HomeIdle /\ room' = SwapPop(room, hwait.at)
        /\ \E S : aq' = [d \in Conns |-> IF d \in S THEN Append(aq[d], "SendTcp") ELSE aq[d]]
        /\ UNCHANGED <<slot, iq, iwait, entering, server, news, home, starting, started, pc,
                       actor, sock, client, keys, cin, crashed>>
    <2>1. \E S : aq' = [d \in Conns |-> IF d \in S THEN Append(aq[d], "SendTcp") ELSE aq[d]]
      <3> DEFINE S == {d \in Conns : d \in ToSet(room') /\ HomeMailbox(d)}
      <3>1. aq' = [d \in Conns |-> IF d \in S THEN Append(aq[d], "SendTcp") ELSE aq[d]]
        BY DEF Dropped
      <3> QED  BY <3>1
    <2> QED  BY <2>1 DEF Dropped, introVars, clientVars
  <1>2. /\ home = "run" /\ hq # <<>> /\ Head(hq).cmd = "DropPeer" /\ c \in Conns
        /\ hwait.at \in 1 .. Len(room) /\ room[hwait.at] = c /\ pc[c] = "ended"
        /\ Tail(hq) \in Seq(HomeMail)
    BY <1>1, HomeTaken DEF IInv, Searches, Servers, HomeReads
  <1> HIDE DEF c
  <1>3. /\ room \in Seq(Conns) /\ IsInjective(room) /\ Len(room) <= Capacity
        /\ Seats \subseteq Conns /\ Len(room) \in Nat /\ aq \in [Conns -> Seq(Asked3)]
    BY TypeFacts DEF IInv
  <1>4. /\ room' \in Seq(Conns) /\ IsInjective(room') /\ Len(room') <= Capacity
        /\ Seats' = Seats \ {c}
    <2> DEFINE t == SwapPop(room, hwait.at)
    <2>1. /\ t \in Seq(Conns) /\ Len(t) = Len(room) - 1 /\ IsInjective(t)
          /\ ToSet(t) = ToSet(room) \ {room[hwait.at]}
      BY <1>2, <1>3, SeatsDrop
    <2>2. room' = t
      BY <1>1
    <2> HIDE DEF t
    <2>3. Len(t) <= Capacity
      BY <1>3, <2>1, NameFacts
    <2> QED  BY <1>2, <2>1, <2>2, <2>3 DEF Seats
  <1>5. PICK S : aq' = [d \in Conns |-> IF d \in S THEN Append(aq[d], "SendTcp") ELSE aq[d]]
    BY <1>1
  <1>6. ASSUME NEW d \in Conns
        PROVE  /\ aq'[d] \in Seq(Asked3)
               /\ \A k \in 1 .. Len(aq'[d]) : aq'[d][k] # "GetUsername"
    <2>1. /\ aq[d] \in Seq(Asked3) /\ "SendTcp" \in Asked3
          /\ \A k \in 1 .. Len(aq[d]) : aq[d][k] # "GetUsername"
      BY <1>1, <1>3 DEF IInv, NamesAsked, Asked3
    <2>2. CASE d \in S
      <3>1. aq'[d] = Append(aq[d], "SendTcp")
        BY <1>5, <2>2
      <3>2. \A k \in 1 .. Len(aq'[d]) : k \in 1 .. Len(aq[d]) \/ k = Len(aq[d]) + 1
        BY <2>1, <3>1, LastSent
      <3> QED  BY <2>1, <3>1, <3>2, LastSent
    <2>3. CASE d \notin S
      BY <1>5, <2>1, <2>3
    <2> QED  BY <2>2, <2>3
  <1>7. TypeOK'
    <2>1. hwait' \in [op : {"idle", "id", "drop"}, at : 1 .. Capacity,
                      got : Names \cup {Unknown}, found : BOOLEAN]
      BY <1>1, NameFacts DEF HomeIdle
    <2>2. aq' \in [Conns -> Seq(Asked3)]
      BY <1>5, <1>6
    <2> QED  BY <1>1, <1>2, <1>4, <2>1, <2>2 DEF IInv, TypeOK, HomeMail, Asked3
  <1>8. LoginsOpen' /\ Enters'
    BY <1>1 DEF IInv, LoginsOpen, Enters
  <1>9. \A d \in Conns : PlaceKept(d)'
    BY <1>1, <1>2, <1>4 DEF IInv, PlaceKept, Past, Awaited, Serving
  <1>10. HomeAsked'
    BY <1>1, <1>2, HomeTaken DEF HomeAsked, Serving
  <1>11. Servers' /\ Searches' /\ NamesAsked'
    <2>1. hwait'.op = "idle"
      BY <1>1 DEF HomeIdle
    <2>2. Servers'
      BY <1>1, <1>2, <1>4, <2>1 DEF IInv, Servers, HomeReads
    <2> QED  BY <1>6, <2>1, <2>2 DEF Searches, NamesAsked
  <1>12. FreeName' /\ NamesUnique'
    <2>1. FreeName'
      BY <1>1, <1>4 DEF IInv, FreeName
    <2>2. SittingHere' \subseteq SittingHere
      BY <1>1, <1>4 DEF SittingHere
    <2>3. NamesUnique'
      BY <1>1, <1>2, <2>2 DEF IInv, NamesUnique
    <2> QED  BY <2>1, <2>3
  <1> QED  BY <1>7, <1>8, <1>9, <1>10, <1>11, <1>12 DEF IInv

(* The room goes on to Roles: what is in the mailbox is never read. *)
LEMMA TakeStartStep ==
  ASSUME IInv, TakeStart PROVE IInv'
  <1>1. /\ home = "run" /\ hwait.op = "idle" /\ home' = "moving" /\ news' = "Roles" /\ hq' = <<>>
        /\ \/ \E S : aq' = [d \in Conns |-> IF d \in S THEN Append(aq[d], "StartRoles")
                                            ELSE aq[d]]
           \/ aq' = aq
        /\ crashed' \in {crashed, "home"}
        /\ UNCHANGED <<slot, iq, iwait, entering, server, room, hwait, starting, started, pc,
                       actor, sock, client, keys, cin>>
    BY DEF TakeStart, clientVars
  <1>2. /\ Seats' = Seats /\ Seats \subseteq Conns /\ aq \in [Conns -> Seq(Asked3)]
        /\ server # "none"
    BY <1>1, TypeFacts DEF IInv, Seats, Servers
  <1>3. ASSUME NEW d \in Conns
        PROVE  /\ aq'[d] \in Seq(Asked3)
               /\ \A k \in 1 .. Len(aq'[d]) : aq'[d][k] # "GetUsername"
    <2>1. /\ aq[d] \in Seq(Asked3) /\ "StartRoles" \in Asked3
          /\ \A k \in 1 .. Len(aq[d]) : aq[d][k] # "GetUsername"
      BY <1>1, <1>2 DEF IInv, NamesAsked, Asked3
    <2>2. CASE aq'[d] = Append(aq[d], "StartRoles")
      <3>1. \A k \in 1 .. Len(aq'[d]) : k \in 1 .. Len(aq[d]) \/ k = Len(aq[d]) + 1
        BY <2>1, <2>2, LastSent
      <3> QED  BY <2>1, <2>2, <3>1, LastSent
    <2>3. CASE aq'[d] = aq[d]
      BY <2>1, <2>3
    <2> QED  BY <1>1, <2>2, <2>3
  <1>4. TypeOK'
    <2>1. aq' \in [Conns -> Seq(Asked3)]
      <3>1. aq' = [d \in Conns |-> aq'[d]]
        BY <1>1, <1>2
      <3> QED  BY <1>3, <3>1
    <2>2. hq' \in Seq(HomeMail)
      BY <1>1
    <2>3. crashed' \in {"no", "intro", "home", "full", "over"}
      BY <1>1 DEF IInv, TypeOK
    <2> QED  BY <1>1, <2>1, <2>2, <2>3 DEF IInv, TypeOK, Asked3, HomeMail
  <1>5. LoginsOpen' /\ Enters' /\ HomeAsked'
    BY <1>1 DEF IInv, LoginsOpen, Enters, HomeAsked
  <1>6. \A d \in Conns : PlaceKept(d)'
    BY <1>1, <1>2 DEF IInv, PlaceKept, Past, Awaited, Serving
  <1>7. Servers' /\ Searches' /\ NamesAsked'
    BY <1>1, <1>2, <1>3 DEF Servers, Searches, NamesAsked, HomeReads
  <1>8. FreeName' /\ NamesUnique'
    <2>1. SittingHere' = SittingHere
      BY <1>1, <1>2 DEF SittingHere
    <2> QED  BY <1>1, <1>2, <2>1 DEF IInv, FreeName, NamesUnique
  <1> QED  BY <1>4, <1>5, <1>6, <1>7, <1>8 DEF IInv

LEMMA RunRolesStep ==
  ASSUME IInv, RunRoles PROVE IInv'
  <1>1. /\ home = "moving" /\ Seats \subseteq started /\ home' = "Roles"
        /\ UNCHANGED <<slot, iq, iwait, entering, server, news, room, hq, hwait, starting,
                       started, pc, actor, aq, sock, client, keys, cin, crashed>>
    BY DEF RunRoles, AllStarted, introVars, peerVars, clientVars
  <1>2. Seats' = Seats /\ SittingHere' = SittingHere
    BY <1>1 DEF Seats, SittingHere, ToSet
  <1>3. TypeOK'
    BY <1>1 DEF IInv, TypeOK
  <1>4. LoginsOpen' /\ Enters' /\ HomeAsked'
    BY <1>1 DEF IInv, LoginsOpen, Enters, HomeAsked
  <1>5. \A d \in Conns : PlaceKept(d)'
    BY <1>1, <1>2 DEF IInv, PlaceKept, Past, Awaited, Serving
  <1>6. Servers' /\ Searches' /\ NamesAsked'
    BY <1>1, <1>2 DEF IInv, Servers, Searches, NamesAsked, HomeReads
  <1>7. FreeName' /\ NamesUnique'
    BY <1>1, <1>2 DEF IInv, FreeName, NamesUnique
  <1> QED  BY <1>3, <1>4, <1>5, <1>6, <1>7 DEF IInv


-------------------------------------------------------------------------------
(* Steps of the intro server.                                              *)

(* It answers a login, or drops it: the name is that of a peer that is here,  *)
(* or the connection goes on without a place.                              *)
LEMMA LoginOver ==
  ASSUME IInv, TypeOK', NEW c \in Conns, pc[c] = "w_login",
         NEW place \in {"intro", "rejected", "failed"}, pc' = [pc EXCEPT ![c] = place],
         \/ iq' = iq /\ iwait.op = "id" /\ iwait.from = c
         \/ /\ iwait.op = "idle" /\ iq # <<>> /\ iq' = Tail(iq)
            /\ Head(iq).cmd = "LoginPlayer" /\ Head(iq).from = c,
         iwait'.op = "idle", hq = <<>> \/ iwait.op = "idle" \/ iwait.got # "no",
         \/ slot' = slot
         \/ /\ slot' = [slot EXCEPT ![c] = "here"]
            /\ \A d \in Conns \ {c} : Name(d) = Name(c) =>
                 /\ slot[d] # "here"
                 /\ d \in Seats => home \in {"moving", "Roles"} /\ pc[d] = "ended",
         Servers', UNCHANGED <<home, room, hq, hwait, started, aq, client>>
  PROVE  IInv'
  <1>1. /\ pc'[c] = place /\ \A d \in Conns : pc'[d] # pc[d] => d = c
        /\ Seats' = Seats /\ Seats \subseteq Conns
        /\ \A i \in 1 .. Len(iq) : iq[i].from \in Conns
        /\ \A i \in 1 .. Len(hq) : hq[i].from \in Conns
        /\ \A d \in Conns : slot'[d] = "here" => slot[d] = "here" \/ d = c
    BY TypeFacts DEF IInv, Seats
  <1>2. \A d \in Conns : pc[d] = "ended" => pc'[d] = "ended" /\ d # c
    BY <1>1
  <1>3. LoginsOpen'
    <2>1. CASE iq' = iq /\ iwait.op = "id" /\ iwait.from = c
      BY <1>1, <2>1 DEF IInv, LoginsOpen
    <2>2. CASE /\ iwait.op = "idle" /\ iq # <<>> /\ iq' = Tail(iq)
               /\ Head(iq).cmd = "LoginPlayer" /\ Head(iq).from = c
      BY <1>1, <2>2, LoginTaken DEF LoginsOpen
    <2> QED  BY <2>1, <2>2
  <1>4. Enters'
    BY DEF Enters
  <1>5. ASSUME NEW d \in Conns PROVE PlaceKept(d)'
    <2>1. iwait.op \in {"idle", "id"}
      OBVIOUS
    <2>2. CASE d = c
      BY <1>1, <2>2 DEF IInv, PlaceKept, Past
    <2>3. CASE d # c
      BY <1>1, <2>1, <2>3 DEF IInv, PlaceKept, Past, Awaited, Serving
    <2> QED  BY <2>2, <2>3
  <1>6. HomeAsked'
    <2>1. \A i \in 1 .. Len(hq) : ~ FromIntro(hq[i].cmd)
      BY DEF IInv, HomeAsked, FromIntro, Serving
    <2>2. \A i \in 1 .. Len(hq) : hq[i].cmd = "DropPeer" => pc'[hq[i].from] = "ended"
      BY <1>1, <1>2 DEF IInv, HomeAsked
    <2> QED  BY <2>1, <2>2 DEF HomeAsked, FromIntro
  <1>7. Searches' /\ NamesAsked'
    BY SearchKept
  <1>8. FreeName'
    BY DEF FreeName
  <1>9. NamesUnique'
    <2>1. SittingHere' \subseteq SittingHere \cup {c} /\ SittingHere \subseteq Conns
      BY <1>1 DEF SittingHere
    <2>2. CASE slot' = slot
      <3>1. SittingHere' = SittingHere
        BY <1>1, <2>2 DEF SittingHere
      <3> QED  BY <1>1, <1>2, <2>1, <3>1 DEF IInv, NamesUnique
    <2>3. CASE \A d \in Conns \ {c} : Name(d) = Name(c) =>
                 /\ slot[d] # "here"
                 /\ d \in Seats => home \in {"moving", "Roles"} /\ pc[d] = "ended"
      <3>1. ASSUME NEW d \in SittingHere', d # c, Name(d) = Name(c)
            PROVE  home \in {"moving", "Roles"} /\ d \in Seats /\ pc[d] = "ended"
        BY <2>1, <2>3, <3>1 DEF SittingHere
      <3>2. ASSUME NEW a \in SittingHere', NEW b \in SittingHere', Name(a) = Name(b), a # b
            PROVE  /\ home \in {"moving", "Roles"}
                   /\ \E e \in {a, b} : e \in Seats /\ pc[e] = "ended"
        <4>1. CASE a = c
          BY <3>1, <3>2, <4>1
        <4>2. CASE b = c
          BY <3>1, <3>2, <4>2
        <4>3. CASE a # c /\ b # c
          BY <2>1, <3>2, <4>3 DEF IInv, NamesUnique
        <4> QED  BY <4>1, <4>2, <4>3
      <3> QED  BY <1>1, <1>2, <3>2 DEF NamesUnique
    <2> QED  BY <2>2, <2>3
  <1> QED  BY <1>3, <1>4, <1>5, <1>6, <1>7, <1>8, <1>9 DEF IInv

(* The types after a login is over. *)
LEMMA LoginTypes ==
  ASSUME TypeOK, NEW c \in Conns, NEW place \in {"intro", "rejected", "failed"},
         pc' = [pc EXCEPT ![c] = place],
         slot' = slot \/ slot' = [slot EXCEPT ![c] = "here"],
         sock' = sock \/ \E msg \in {"Logged", "gone"} : sock' = [sock EXCEPT ![c] = <<msg>>],
         iq' = iq \/ iq' \in Seq(IntroMail), iwait' = iwait \/ iwait' = IntroIdle,
         entering' \in {entering, NoConn}, server' \in {server, "Roles"},
         news' \in {news, "none"},
         UNCHANGED <<home, room, hq, hwait, starting, started, actor, aq, client, keys, cin,
                     crashed>>
  PROVE  TypeOK'
  <1>1. pc' \in [Conns -> Places]
    BY TypeFacts DEF Places, Loops
  <1>2. slot' \in [Conns -> {"none", "here", "away"}]
    BY TypeFacts
  <1>3. sock' \in [Conns -> Seq({"Logged", "gone"})]
    <2>1. sock \in [Conns -> Seq({"Logged", "gone"})]
      BY TypeFacts
    <2>2. ASSUME NEW msg \in {"Logged", "gone"}, sock' = [sock EXCEPT ![c] = <<msg>>]
          PROVE  sock' \in [Conns -> Seq({"Logged", "gone"})]
      BY <2>1, <2>2
    <2> QED  BY <2>1, <2>2
  <1>4. /\ iq' \in Seq(IntroMail)
        /\ iwait' \in [op : {"idle", "id", "enter", "add"}, from : Maybe,
                       got : {"no", "free", "taken", "done"}]
        /\ entering' \in Maybe /\ server' \in {"none", "Home", "Roles"}
        /\ news' \in {"none", "Roles"}
    BY DEF TypeOK, IntroIdle, Maybe, IntroMail
  <1> QED  BY <1>1, <1>2, <1>3, <1>4 DEF TypeOK, Places, IntroMail

LEMMA IntroReceiveFacts ==
  ASSUME IInv, NEW cmd, IntroReceive(cmd)
  PROVE  /\ iwait.op = "idle" /\ iq # <<>> /\ Head(iq).cmd = cmd /\ Head(iq).from \in Conns
         /\ Tail(iq) \in Seq(IntroMail)
         /\ cmd = "LoginPlayer" => pc[Head(iq).from] = "w_login"
  <1>1. iwait.op = "idle" /\ iq # <<>> /\ Head(iq).cmd = cmd
    BY DEF IntroReceive
  <1> QED  BY <1>1, LoginTaken

LEMMA LoginRejectedStep ==
  ASSUME IInv, LoginRejected PROVE IInv'
  <1> DEFINE c == Head(iq).from
  <1>1. /\ iwait.op = "idle" /\ iq # <<>> /\ Head(iq).cmd = "LoginPlayer" /\ c \in Conns
        /\ Tail(iq) \in Seq(IntroMail) /\ pc[c] = "w_login"
    BY IntroReceiveFacts DEF LoginRejected
  <1>2. /\ pc' = [pc EXCEPT ![c] = "rejected"] /\ sock' = [sock EXCEPT ![c] = <<"gone">>]
        /\ iq' = Tail(iq)
        /\ UNCHANGED <<slot, iwait, entering, server, news, home, room, hq, hwait, starting,
                       started, actor, aq, client, keys, cin, crashed>>
    BY DEF LoginRejected, Reject, Goto, homeVars, clientVars
  <1>3. Head(iq).from = c
    OBVIOUS
  <1> HIDE DEF c
  <1>4. TypeOK'
    BY <1>1, <1>2, LoginTypes DEF IInv
  <1>5. Servers'
    BY <1>2, TypeFacts DEF IInv, Servers, HomeReads, Seats
  <1> QED  BY <1>1, <1>2, <1>3, <1>4, <1>5, LoginOver

LEMMA LoginAcceptedStep ==
  ASSUME IInv, LoginAccepted PROVE IInv'
  <1> DEFINE c == Head(iq).from
  <1>1. /\ iwait.op = "idle" /\ iq # <<>> /\ Head(iq).cmd = "LoginPlayer" /\ c \in Conns
        /\ Tail(iq) \in Seq(IntroMail) /\ pc[c] = "w_login"
    BY IntroReceiveFacts DEF LoginAccepted
  <1>2. /\ pc' = [pc EXCEPT ![c] = "intro"] /\ sock' = [sock EXCEPT ![c] = <<"Logged">>]
        /\ slot' = [slot EXCEPT ![c] = "here"] /\ iq' = Tail(iq)
        /\ ~ NameIsHere(c) /\ (server = "none" \/ (home = "Roles" /\ ~ InRoles(c)))
        /\ UNCHANGED <<iwait, entering, server, news, home, room, hq, hwait, starting,
                       started, actor, aq, client, keys, cin, crashed>>
    BY DEF LoginAccepted, Accept, Goto, homeVars, clientVars
  <1>3. Head(iq).from = c
    OBVIOUS
  <1> HIDE DEF c
  <1>4. TypeOK'
    BY <1>1, <1>2, LoginTypes DEF IInv
  <1>5. Servers'
    BY <1>2, TypeFacts DEF IInv, Servers, HomeReads, Seats
  <1>6. ASSUME NEW d \in Conns \ {c}, Name(d) = Name(c)
        PROVE  /\ slot[d] # "here"
               /\ d \in Seats => home \in {"moving", "Roles"} /\ pc[d] = "ended"
    <2>1. server = "none" => Seats = {}
      BY TypeFacts DEF IInv, Servers
    <2> QED  BY <1>2, <1>6, <2>1 DEF NameIsHere, InRoles
  <1> QED  BY <1>1, <1>2, <1>3, <1>4, <1>5, <1>6, LoginOver

LEMMA LoginAnsweredStep ==
  ASSUME IInv, LoginAnswered PROVE IInv'
  <1> DEFINE c == iwait.from
  <1>1. /\ iwait.op = "id" /\ iwait.got # "no" /\ iwait' = IntroIdle
        /\ UNCHANGED <<iq, entering, server, news, home, room, hq, hwait, starting,
                       started, actor, aq, client, keys, cin, crashed>>
        /\ \/ iwait.got = "free" /\ Accept(c)
           \/ Reject(c)
    BY DEF LoginAnswered, homeVars, clientVars
  <1>2. c \in Conns /\ pc[c] = "w_login" /\ iwait'.op = "idle"
    BY <1>1 DEF IInv, LoginsOpen, IntroIdle
  <1>3. Servers'
    BY <1>1, TypeFacts DEF IInv, Servers, HomeReads, Seats
  <1>4. CASE iwait.got = "free" /\ Accept(c)
    <2>1. /\ pc' = [pc EXCEPT ![c] = "intro"] /\ sock' = [sock EXCEPT ![c] = <<"Logged">>]
          /\ slot' = [slot EXCEPT ![c] = "here"]
      BY <1>4 DEF Accept, Goto
    <2>2. \A d \in Conns \ {c} : Name(d) = Name(c) => slot[d] # "here" /\ d \notin Seats
      BY <1>1, <1>4 DEF IInv, FreeName
    <2>3. iwait.from = c
      OBVIOUS
    <2> HIDE DEF c
    <2>4. TypeOK'
      BY <1>1, <1>2, <2>1, LoginTypes DEF IInv
    <2> QED  BY <1>1, <1>2, <1>3, <2>1, <2>2, <2>3, <2>4, LoginOver
  <1>5. CASE Reject(c)
    <2>1. /\ pc' = [pc EXCEPT ![c] = "rejected"] /\ sock' = [sock EXCEPT ![c] = <<"gone">>]
          /\ slot' = slot
      BY <1>5 DEF Reject, Goto
    <2>2. iwait.from = c
      OBVIOUS
    <2> HIDE DEF c
    <2>3. TypeOK'
      BY <1>1, <1>2, <2>1, LoginTypes DEF IInv
    <2> QED  BY <1>1, <1>2, <1>3, <2>1, <2>2, <2>3, LoginOver
  <1> QED  BY <1>1, <1>4, <1>5


(* A step of the intro server that leaves the connections where they are. *)
LEMMA IntroStep ==
  ASSUME IInv, TypeOK', UNCHANGED <<pc, client, home, room, hwait, started, aq>>,
         iq' = iq \/ (iq # <<>> /\ iq' = Tail(iq)),
         iwait'.op = "id" => pc[iwait'.from] = "w_login" /\ iwait'.from \in Conns
                             /\ \A i \in 1 .. Len(iq') :
                                  iq'[i].cmd = "LoginPlayer" => iq'[i].from # iwait'.from,
         \A d \in Conns : slot'[d] = "here" => slot[d] = "here",
         hq' = hq \/ \E m \in HomeMail : HomeReads /\ hq' = Append(hq, m),
         Enters', \A d \in Conns : PlaceKept(d)', HomeAsked', Servers', FreeName'
  PROVE  IInv'
  <1>1. LoginsOpen'
    <2>1. CASE iq' = iq
      BY <2>1 DEF IInv, LoginsOpen
    <2>2. CASE iq # <<>> /\ iq' = Tail(iq)
      BY <2>2, LoginTaken DEF LoginsOpen
    <2> QED  BY <2>1, <2>2
  <1>2. Searches' /\ NamesAsked'
    <2>1. hq \in Seq(HomeMail)
      BY TypeFacts DEF IInv
    <2>2. hq # <<>> => hq' # <<>> /\ Head(hq') = Head(hq)
      BY <2>1
    <2> QED  BY <2>2 DEF IInv, Searches, NamesAsked
  <1>3. NamesUnique'
    <2>1. Seats' = Seats
      BY DEF Seats
    <2>2. SittingHere' \subseteq SittingHere
      BY <2>1 DEF SittingHere
    <2> QED  BY <2>1, <2>2 DEF IInv, NamesUnique
  <1> QED  BY <1>1, <1>2, <1>3 DEF IInv

(* While it serves no one, nothing of its own is in the home server's mailbox. *)
LEMMA NothingAsked ==
  ASSUME IInv, iwait.op \in {"idle", "enter"} \/ iwait.got # "no"
  PROVE  /\ \A i \in 1 .. Len(hq) : ~ FromIntro(hq[i].cmd)
         /\ \A i \in 1 .. Len(hq) : hq[i].cmd = "DropPeer" => pc[hq[i].from] = "ended"
  BY DEF IInv, HomeAsked, FromIntro, Serving

LEMMA AskHomeStep ==
  ASSUME IInv, AskHome PROVE IInv'
  <1> DEFINE c == Head(iq).from
             m == HomeCommand("GetPeerIdByName", c)
  <1>1. /\ iwait.op = "idle" /\ iq # <<>> /\ Head(iq).cmd = "LoginPlayer" /\ c \in Conns
        /\ Tail(iq) \in Seq(IntroMail) /\ pc[c] = "w_login"
    BY IntroReceiveFacts DEF AskHome
  <1>2. /\ iwait' = [op |-> "id", from |-> c, got |-> "no"] /\ iq' = Tail(iq)
        /\ hq' = IF HomeReads THEN Append(hq, m) ELSE hq
        /\ ~ NameIsHere(c) /\ server = "Home"
        /\ UNCHANGED <<slot, entering, server, news, home, room, hwait, starting, started,
                       pc, actor, aq, sock, client, keys, cin, crashed>>
    BY DEF AskHome, Serving, ToHome, peerVars, clientVars
  <1>3. /\ m \in HomeMail /\ m.cmd = "GetPeerIdByName" /\ m.from = c
        /\ hq \in Seq(HomeMail) /\ Len(hq) \in Nat
    BY <1>1, TypeFacts DEF IInv, HomeMail, HomeCommand
  <1>4. \A i \in 1 .. Len(iq') : iq'[i].cmd = "LoginPlayer" => iq'[i].from # c
    BY <1>1, <1>2, LoginTaken
  <1> HIDE DEF c, m
  <1>5. TypeOK'
    <2>1. hq' \in Seq(HomeMail)
      BY <1>2, <1>3
    <2>2. iwait' \in [op : {"idle", "id", "enter", "add"}, from : Maybe,
                      got : {"no", "free", "taken", "done"}]
      BY <1>1, <1>2 DEF Maybe
    <2> QED  BY <1>1, <1>2, <2>1, <2>2 DEF IInv, TypeOK, HomeMail, IntroMail
  <1>6. Seats' = Seats
    BY <1>2 DEF Seats
  <1>7. Enters' /\ FreeName'
    BY <1>1, <1>2, <1>6 DEF IInv, Enters, FreeName, NameIsHere
  <1>8. \A d \in Conns : PlaceKept(d)'
    BY <1>1, <1>2, <1>6 DEF IInv, PlaceKept, Past, Awaited, Serving
  <1>9. HomeAsked'
    <2>1. /\ \A i \in 1 .. Len(hq) : ~ FromIntro(hq[i].cmd)
          /\ \A i \in 1 .. Len(hq) : hq[i].cmd = "DropPeer" => pc'[hq[i].from] = "ended"
      BY <1>1, <1>2, NothingAsked
    <2>2. CASE hq' = hq
      BY <2>1, <2>2 DEF HomeAsked, FromIntro
    <2>3. CASE hq' = Append(hq, m)
      <3>1. \A i \in 1 .. Len(hq') : (i \in 1 .. Len(hq) /\ hq'[i] = hq[i])
                                     \/ (i = Len(hq) + 1 /\ hq'[i] = m)
        BY <1>3, <2>3, LastSent
      <3>2. iwait' = Serving("id", c)
        BY <1>2 DEF Serving
      <3>3. ASSUME NEW i \in 1 .. Len(hq')
            PROVE  /\ hq'[i].cmd # "AddPeer"
                   /\ hq'[i].cmd = "GetPeerIdByName" => hq'[i].from = c
                   /\ hq'[i].cmd = "DropPeer" => pc'[hq'[i].from] = "ended"
                   /\ FromIntro(hq'[i].cmd) => i = Len(hq) + 1
        <4>1. CASE i \in 1 .. Len(hq) /\ hq'[i] = hq[i]
          BY <2>1, <4>1 DEF FromIntro
        <4>2. CASE i = Len(hq) + 1 /\ hq'[i] = m
          BY <1>3, <4>2
        <4> QED  BY <3>1, <4>1, <4>2
      <3> QED  BY <3>2, <3>3 DEF HomeAsked
    <2> QED  BY <1>2, <2>2, <2>3
  <1>10. Servers'
    BY <1>2, <1>6 DEF IInv, Servers, HomeReads
  <1> QED  BY <1>1, <1>2, <1>3, <1>4, <1>5, <1>7, <1>8, <1>9, <1>10, IntroStep

LEMMA ReceiveEnterGameStep ==
  ASSUME IInv, ReceiveEnterGame PROVE IInv'
  <1>1. /\ iq # <<>> /\ Head(iq).from \in Conns /\ Tail(iq) \in Seq(IntroMail)
    BY IntroReceiveFacts DEF ReceiveEnterGame
  <1>2. /\ iq' = Tail(iq) /\ entering' \in {entering, Head(iq).from}
        /\ crashed' \in {crashed, "intro"}
        /\ UNCHANGED <<slot, iwait, server, news, home, room, hq, hwait, starting, started,
                       pc, actor, aq, sock, client, keys, cin>>
    BY DEF ReceiveEnterGame, homeVars, peerVars, clientVars
  <1>3. TypeOK'
    <2>1. entering' \in Maybe /\ crashed' \in {"no", "intro", "home", "full", "over"}
      BY <1>1, <1>2 DEF IInv, TypeOK, Maybe
    <2> QED  BY <1>1, <1>2, <2>1 DEF IInv, TypeOK, IntroMail
  <1> QED  BY <1>1, <1>2, <1>3, PeerStep DEF Onward

LEMMA TakeEnteringStep ==
  ASSUME IInv, TakeEntering PROVE IInv'
  <1>1. /\ iwait.op = "idle" /\ entering \in Conns /\ entering' = NoConn
        /\ \/ /\ slot[entering] = "here" /\ crashed' = crashed
              /\ iwait' = [op |-> "enter", from |-> entering, got |-> "no"]
           \/ crashed' = "intro" /\ iwait' = iwait
        /\ UNCHANGED <<slot, iq, server, news, home, room, hq, hwait, starting, started,
                       pc, actor, aq, sock, client, keys, cin>>
    BY DEF TakeEntering, Serving, IInv, TypeOK, Maybe, homeVars, peerVars, clientVars
  <1>2. TypeOK'
    <2>1. /\ entering' \in Maybe /\ crashed' \in {"no", "intro", "home", "full", "over"}
          /\ iwait' \in [op : {"idle", "id", "enter", "add"}, from : Maybe,
                         got : {"no", "free", "taken", "done"}]
      BY <1>1 DEF IInv, TypeOK, Maybe
    <2> QED  BY <1>1, <2>1 DEF IInv, TypeOK
  <1>3. CASE iwait' = iwait
    BY <1>1, <1>2, <1>3, PeerStep DEF Onward
  <1>4. CASE /\ slot[entering] = "here"
             /\ iwait' = [op |-> "enter", from |-> entering, got |-> "no"]
    <2>1. Seats' = Seats
      BY <1>1 DEF Seats
    <2>2. Enters' /\ FreeName' /\ Servers'
      BY <1>1, <1>4, <2>1 DEF IInv, Enters, FreeName, Servers, HomeReads
    <2>3. \A d \in Conns : PlaceKept(d)'
      BY <1>1, <1>4, <2>1 DEF IInv, PlaceKept, Past, Awaited, Serving
    <2>4. HomeAsked'
      BY <1>1, NothingAsked DEF HomeAsked, FromIntro
    <2> QED  BY <1>1, <1>2, <1>4, <2>2, <2>3, <2>4, IntroStep
  <1> QED  BY <1>1, <1>3, <1>4

(* The first peer to enter: the room that did not exist is its own. *)
LEMMA StartHomeServerStep ==
  ASSUME IInv, StartHomeServer PROVE IInv'
  <1> DEFINE c == iwait.from
  <1>1. /\ iwait.op = "enter" /\ iwait.got = "done" /\ server = "none" /\ server' = "Home"
        /\ home' = "run" /\ room' = <<c>> /\ slot' = [slot EXCEPT ![c] = "away"]
        /\ iwait' = IntroIdle
        /\ UNCHANGED <<iq, entering, news, hq, hwait, starting, started, pc, actor, aq, sock,
                       client, keys, cin, crashed>>
    BY DEF StartHomeServer, peerVars, clientVars
  <1>2. /\ home = "none" /\ HomeReads /\ news = "none" /\ hwait.op = "idle" /\ Seats = {}
        /\ c \in Conns /\ slot[c] = "here" /\ pc[c] \in Past /\ iwait.from = c
    BY <1>1, TypeFacts DEF IInv, Enters, Servers, HomeReads
  <1> HIDE DEF c
  <1>3. /\ room' \in Seq(Conns) /\ Len(room') <= Capacity /\ IsInjective(room')
        /\ Seats' = {c}
    BY <1>1, <1>2, NameFacts DEF Seats, ToSet, IsInjective
  <1>4. /\ slot' \in [Conns -> {"none", "here", "away"}] /\ slot'[c] = "away"
        /\ \A d \in Conns \ {c} : slot'[d] = slot[d]
    BY <1>1, <1>2, TypeFacts DEF IInv
  <1>5. TypeOK'
    <2>1. iwait' \in [op : {"idle", "id", "enter", "add"}, from : Maybe,
                      got : {"no", "free", "taken", "done"}]
      BY <1>1 DEF IntroIdle, Maybe
    <2> QED  BY <1>1, <1>3, <1>4, <2>1 DEF IInv, TypeOK
  <1>6. LoginsOpen' /\ Enters' /\ FreeName'
    BY <1>1 DEF IInv, LoginsOpen, Enters, FreeName, IntroIdle
  <1>7. ASSUME NEW d \in Conns PROVE PlaceKept(d)'
    <2>1. CASE d = c
      BY <1>1, <1>2, <1>3, <1>4, <2>1 DEF IInv, PlaceKept, Past
    <2>2. CASE d # c
      BY <1>1, <1>2, <1>3, <1>4, <2>2 DEF IInv, PlaceKept, Past, Awaited, Serving
    <2> QED  BY <2>1, <2>2
  <1>8. HomeAsked'
    BY <1>1, NothingAsked DEF HomeAsked, FromIntro
  <1>9. Servers' /\ Searches' /\ NamesAsked'
    BY <1>1, <1>2 DEF IInv, Servers, Searches, NamesAsked, HomeReads
  <1>10. NamesUnique'
    <2>1. SittingHere' \subseteq SittingHere
      BY <1>2, <1>3, <1>4 DEF SittingHere
    <2> QED  BY <1>2, <2>1 DEF IInv, NamesUnique
  <1> QED  BY <1>5, <1>6, <1>7, <1>8, <1>9, <1>10 DEF IInv

LEMMA AddToHomeStep ==
  ASSUME IInv, AddToHome PROVE IInv'
  <1> DEFINE c == iwait.from
             m == HomeCommand("AddPeer", c)
  <1>1. /\ iwait.op = "enter" /\ iwait.got = "done" /\ server = "Home"
        /\ iwait' = [op |-> "add", from |-> c, got |-> "no"]
        /\ hq' = IF HomeReads THEN Append(hq, m) ELSE hq
        /\ UNCHANGED <<slot, iq, entering, server, news, home, room, hwait, starting, started,
                       pc, actor, aq, sock, client, keys, cin, crashed>>
    BY DEF AddToHome, Serving, ToHome, peerVars, clientVars
  <1>2. /\ c \in Conns /\ slot[c] = "here" /\ pc[c] \in Past /\ iwait.from = c
    BY <1>1 DEF IInv, Enters
  <1>3. /\ m \in HomeMail /\ m.cmd = "AddPeer" /\ m.from = c
        /\ hq \in Seq(HomeMail) /\ Len(hq) \in Nat
    BY <1>2, TypeFacts DEF IInv, HomeMail, HomeCommand
  <1> HIDE DEF c, m
  <1>4. TypeOK'
    <2>1. hq' \in Seq(HomeMail)
      BY <1>1, <1>3
    <2>2. iwait' \in [op : {"idle", "id", "enter", "add"}, from : Maybe,
                      got : {"no", "free", "taken", "done"}]
      BY <1>1, <1>2 DEF Maybe
    <2> QED  BY <1>1, <2>1, <2>2 DEF IInv, TypeOK, HomeMail
  <1>5. Seats' = Seats
    BY <1>1 DEF Seats
  <1>6. Enters' /\ FreeName' /\ Servers'
    BY <1>1, <1>2, <1>5 DEF IInv, Enters, FreeName, Servers, HomeReads
  <1>7. \A d \in Conns : PlaceKept(d)'
    BY <1>1, <1>2, <1>5 DEF IInv, PlaceKept, Past, Awaited, Serving
  <1>8. HomeAsked'
    <2>1. /\ \A i \in 1 .. Len(hq) : ~ FromIntro(hq[i].cmd)
          /\ \A i \in 1 .. Len(hq) : hq[i].cmd = "DropPeer" => pc'[hq[i].from] = "ended"
      BY <1>1, NothingAsked
    <2>2. CASE hq' = hq
      BY <2>1, <2>2 DEF HomeAsked, FromIntro
    <2>3. CASE hq' = Append(hq, m)
      <3>1. \A i \in 1 .. Len(hq') : (i \in 1 .. Len(hq) /\ hq'[i] = hq[i])
                                     \/ (i = Len(hq) + 1 /\ hq'[i] = m)
        BY <1>3, <2>3, LastSent
      <3>2. iwait' = Serving("add", c)
        BY <1>1 DEF Serving
      <3>3. ASSUME NEW i \in 1 .. Len(hq')
            PROVE  /\ hq'[i].cmd # "GetPeerIdByName"
                   /\ hq'[i].cmd = "AddPeer" => hq'[i].from = c
                   /\ hq'[i].cmd = "DropPeer" => pc'[hq'[i].from] = "ended"
                   /\ FromIntro(hq'[i].cmd) => i = Len(hq) + 1
        <4>1. CASE i \in 1 .. Len(hq) /\ hq'[i] = hq[i]
          BY <2>1, <4>1 DEF FromIntro
        <4>2. CASE i = Len(hq) + 1 /\ hq'[i] = m
          BY <1>3, <4>2
        <4> QED  BY <3>1, <4>1, <4>2
      <3> QED  BY <3>2, <3>3 DEF HomeAsked
    <2> QED  BY <1>1, <2>2, <2>3
  <1> QED  BY <1>1, <1>3, <1>4, <1>6, <1>7, <1>8, IntroStep

LEMMA AddedToHomeStep ==
  ASSUME IInv, AddedToHome PROVE IInv'
  <1> DEFINE c == iwait.from
  <1>1. /\ iwait.op = "add" /\ iwait.got = "done" /\ slot' = [slot EXCEPT ![c] = "away"]
        /\ iwait' = IntroIdle
        /\ UNCHANGED <<iq, entering, server, news, home, room, hq, hwait, starting, started,
                       pc, actor, aq, sock, client, keys, cin, crashed>>
    BY DEF AddedToHome, homeVars, peerVars, clientVars
  <1>2. c \in Conns /\ iwait.from = c /\ iwait'.op = "idle"
    BY <1>1 DEF IInv, Enters, IntroIdle
  <1> HIDE DEF c
  <1>3. /\ slot' \in [Conns -> {"none", "here", "away"}] /\ slot'[c] = "away"
        /\ \A d \in Conns \ {c} : slot'[d] = slot[d]
    BY <1>1, <1>2, TypeFacts DEF IInv
  <1>4. TypeOK'
    <2>1. iwait' \in [op : {"idle", "id", "enter", "add"}, from : Maybe,
                      got : {"no", "free", "taken", "done"}]
      BY <1>1 DEF IntroIdle, Maybe
    <2> QED  BY <1>1, <1>3, <2>1 DEF IInv, TypeOK
  <1>5. Seats' = Seats
    BY <1>1 DEF Seats
  <1>6. Enters' /\ FreeName' /\ Servers'
    BY <1>1, <1>2, <1>5 DEF IInv, Enters, FreeName, Servers, HomeReads
  <1>7. ASSUME NEW d \in Conns PROVE PlaceKept(d)'
    <2>1. CASE d = c
      BY <1>1, <1>2, <1>3, <1>5, <2>1 DEF IInv, PlaceKept, Past, Awaited, Serving
    <2>2. CASE d # c
      BY <1>1, <1>2, <1>3, <1>5, <2>2 DEF IInv, PlaceKept, Past, Awaited, Serving
    <2> QED  BY <2>1, <2>2
  <1>8. HomeAsked'
    BY <1>1, NothingAsked DEF HomeAsked, FromIntro
  <1>9. \A d \in Conns : slot'[d] = "here" => slot[d] = "here"
    BY <1>3
  <1> QED  BY <1>1, <1>2, <1>4, <1>6, <1>7, <1>8, <1>9, IntroStep

(* The Roles server takes the place of the home server, which reads no more. *)
LEMMA SetServerStep ==
  ASSUME IInv, SetServer PROVE IInv'
  <1>1. /\ news = "Roles" /\ iwait.op \in {"idle", "id"} /\ server' = news /\ news' = "none"
        /\ entering' = NoConn /\ iwait' = IntroIdle
        /\ IF iwait.op = "id" THEN pc' = [pc EXCEPT ![iwait.from] = "failed"] ELSE pc' = pc
        /\ UNCHANGED <<slot, iq, home, room, hq, hwait, starting, started, actor, aq, sock,
                       client, keys, cin, crashed>>
    BY DEF SetServer, Goto, IInv, TypeOK, homeVars, clientVars
  <1>2. ~ HomeReads /\ hq = <<>> /\ hwait.op = "idle" /\ iwait'.op = "idle"
    BY <1>1 DEF IInv, Servers, IntroIdle
  <1>3. Seats' = Seats
    BY <1>1 DEF Seats
  <1>4. Servers'
    BY <1>1, <1>2, <1>3 DEF IInv, Servers, HomeReads
  <1>5. CASE iwait.op = "id"
    <2>1. PICK c \in Conns : iwait.from = c /\ pc[c] = "w_login"
      BY <1>5 DEF IInv, LoginsOpen
    <2>2. pc' = [pc EXCEPT ![c] = "failed"]
      BY <1>1, <1>5, <2>1
    <2>3. TypeOK'
      BY <1>1, <2>2, LoginTypes DEF IInv
    <2> QED  BY <1>1, <1>2, <1>4, <1>5, <2>1, <2>2, <2>3, LoginOver
  <1>6. CASE iwait.op = "idle"
    <2>1. TypeOK'
      <3>1. /\ entering' \in Maybe /\ server' \in {"none", "Home", "Roles"}
            /\ news' \in {"none", "Roles"}
            /\ iwait' \in [op : {"idle", "id", "enter", "add"}, from : Maybe,
                           got : {"no", "free", "taken", "done"}]
        BY <1>1 DEF IntroIdle, Maybe
      <3>2. pc' = pc
        BY <1>1, <1>6
      <3> QED  BY <1>1, <3>1, <3>2 DEF IInv, TypeOK
    <2>2. Enters' /\ FreeName'
      BY <1>2 DEF Enters, FreeName
    <2>3. \A d \in Conns : PlaceKept(d)'
      BY <1>1, <1>2, <1>3, <1>6 DEF IInv, PlaceKept, Past, Awaited, Serving
    <2>4. HomeAsked'
      BY <1>1, <1>2 DEF HomeAsked
    <2> QED  BY <1>1, <1>2, <1>4, <1>6, <2>1, <2>2, <2>3, <2>4, IntroStep
  <1> QED  BY <1>1, <1>5, <1>6

LEMMA IntroDropPeerStep ==
  ASSUME IInv, IntroDropPeer PROVE IInv'
  <1> DEFINE c == Head(iq).from
  <1>1. /\ iwait.op = "idle" /\ iq # <<>> /\ c \in Conns /\ Tail(iq) \in Seq(IntroMail)
    BY IntroReceiveFacts DEF IntroDropPeer
  <1>2. /\ iq' = Tail(iq) /\ slot' = [slot EXCEPT ![c] = "none"] /\ crashed' \in {crashed, "over"}
        /\ UNCHANGED <<iwait, entering, server, news, home, room, hq, hwait, starting, started,
                       pc, actor, aq, sock, client, keys, cin>>
    BY DEF IntroDropPeer, homeVars, peerVars, clientVars
  <1> HIDE DEF c
  <1>3. /\ slot' \in [Conns -> {"none", "here", "away"}]
        /\ \A d \in Conns : slot'[d] = "here" => slot[d] = "here"
    BY <1>1, <1>2, TypeFacts DEF IInv
  <1>4. TypeOK'
    <2>1. crashed' \in {"no", "intro", "home", "full", "over"}
      BY <1>2 DEF IInv, TypeOK
    <2> QED  BY <1>1, <1>2, <1>3, <2>1 DEF IInv, TypeOK, IntroMail
  <1>5. Seats' = Seats
    BY <1>2 DEF Seats
  <1>6. Enters' /\ FreeName' /\ Servers'
    BY <1>1, <1>2, <1>5 DEF IInv, Enters, FreeName, Servers, HomeReads
  <1>7. \A d \in Conns : PlaceKept(d)'
    BY <1>1, <1>2, <1>3, <1>5 DEF IInv, PlaceKept, Past, Awaited, Serving
  <1>8. HomeAsked'
    BY <1>2 DEF IInv, HomeAsked, Serving
  <1> QED  BY <1>1, <1>2, <1>3, <1>4, <1>6, <1>7, <1>8, IntroStep


-------------------------------------------------------------------------------
(* The invariant, and what it gives.                                       *)

LEMMA InitInv ==
  ASSUME Init PROVE IInv
  <1>1. /\ \A c \in Conns : slot[c] = "none" /\ pc[c] = "none" /\ aq[c] = <<>>
        /\ iwait.op = "idle" /\ iq = <<>> /\ hq = <<>> /\ room = <<>> /\ started = {}
        /\ hwait.op = "idle" /\ server = "none" /\ home = "none" /\ news = "none"
    BY DEF Init, IntroIdle, HomeIdle
  <1>2. Seats = {} /\ IsInjective(room)
    BY <1>1 DEF Seats, ToSet, IsInjective
  <1>3. TypeOK
    <2>1. /\ HomeIdle \in [op : {"idle", "id", "drop"}, at : 1 .. Capacity,
                           got : Names \cup {Unknown}, found : BOOLEAN]
          /\ IntroIdle \in [op : {"idle", "id", "enter", "add"}, from : Maybe,
                            got : {"no", "free", "taken", "done"}]
      BY NameFacts DEF HomeIdle, IntroIdle, Maybe
    <2>2. room \in Seq(Conns) /\ Len(room) <= Capacity
      BY <1>1, NameFacts
    <2> QED  BY <1>2, <2>1, <2>2 DEF Init, TypeOK, Maybe
  <1>4. SittingHere = {}
    BY <1>1, <1>2 DEF SittingHere
  <1> QED
    BY <1>1, <1>2, <1>3, <1>4
    DEF IInv, LoginsOpen, Enters, PlaceKept, HomeAsked, Servers, Searches, NamesAsked,
        FreeName, NamesUnique, HomeReads, Past

LEMMA StepInv ==
  ASSUME IInv, [Next]_vars PROVE IInv'
  <1>1. CASE IntroServerNext
    BY <1>1, LoginRejectedStep, LoginAcceptedStep, AskHomeStep, LoginAnsweredStep,
       ReceiveEnterGameStep, TakeEnteringStep, StartHomeServerStep, AddToHomeStep,
       AddedToHomeStep, SetServerStep, IntroDropPeerStep
    DEF IntroServerNext
  <1>2. CASE HomeServerNext
    BY <1>2, AddPeerStep, StartRolesStep, SearchIdStep, SearchNextStep, DropPeerStep,
       DroppedStep, TakeStartStep, RunRolesStep
    DEF HomeServerNext
  <1>3. ASSUME NEW c \in Conns, PeerNext(c) PROVE IInv'
    BY <1>3, ReadLoginStep, ReadEnterGameStep, ReadStartRolesStep, ForwardStep, EndStep,
       OpenHomeStep, OpenRolesStep, StartStateStep, StartFailsStep, AnswerEnterGameStep,
       HomeActorStep
    DEF PeerNext
  <1>4. ASSUME NEW c \in Conns, ClientNext(c) PROVE IInv'
    BY <1>4, ConnectStep, PressEnterStep, LeaveStep DEF ClientNext
  <1>5. CASE UNCHANGED vars
    <2>1. UNCHANGED <<slot, iq, iwait, entering, server, news, home, room, hq, hwait,
                      starting, started, pc, actor, aq, sock, client, keys, cin, crashed>>
      BY <1>5 DEF vars, introVars, homeVars, peerVars, clientVars
    <2>2. TypeOK'
      BY <2>1, TypeKept DEF IInv
    <2> QED  BY <2>1, <2>2, PeerStep DEF Onward
  <1> QED  BY <1>1, <1>2, <1>3, <1>4, <1>5 DEF Next

LEMMA Invariance == Spec => []IInv
  <1>1. Init => IInv
    BY InitInv
  <1>2. IInv /\ [Next]_vars => IInv'
    BY StepInv
  <1> QED  BY <1>1, <1>2, PTL DEF Spec

(* Every value of the state has its type, with any names, any number of        *)
(* places and any clients that come twice or leave: in particular the home   *)
(* room holds at most Capacity connections, each of them once (try_push and  *)
(* swap_pop, server/states.rs:567 and 1006).                                *)
THEOREM LobbyTypeOK == Spec => []TypeOK
  <1>1. IInv => TypeOK
    BY DEF IInv
  <1> QED  BY <1>1, Invariance, PTL

(* Two peers never sit under one name, as in LobbySession: the name of a login *)
(* that waits for the home server is no one's in the intro room, and after the *)
(* answer "free" no one's in the home room, whoever moves or leaves meanwhile *)
(* (login_player, server/states.rs:407-476).                                *)
THEOREM NamesStayUnique == Spec => []NamesUnique
  <1>1. IInv => NamesUnique
    BY DEF IInv
  <1> QED  BY <1>1, Invariance, PTL

(* Those in the room start the Roles together, as in LobbySession: a peer that *)
(* is in the Home state when the Roles server runs waits for an AddPeer that  *)
(* is never read (run_state and async_from, server/states.rs:309 and 723).    *)
THEOREM NoPeerLeftBehind == Spec => []NoOneLeftBehind
  <1>1. IInv => NoOneLeftBehind
    <2>1. ASSUME IInv, home = "Roles", NEW c \in Conns,
                 pc[c] \in {"toHome", "startHome", "home"}
          PROVE  iwait.from = c /\ c \notin Seats
      <3>1. PlaceKept(c) /\ Seats \subseteq started
        BY <2>1 DEF IInv, Servers
      <3>2. c \notin Seats
        BY <2>1, <3>1 DEF PlaceKept
      <3> QED  BY <2>1, <3>1, <3>2 DEF PlaceKept, Awaited, Serving
    <2> QED  BY <2>1 DEF NoOneLeftBehind
  <1> QED  BY <1>1, Invariance, PTL
===============================================================================
