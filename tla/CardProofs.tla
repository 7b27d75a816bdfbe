------------------------------ MODULE CardProofs ------------------------------
(***************************************************************************)
(* Proofs about CardGame, for every number of players and every deck.       *)
(*                                                                         *)
(* The turn is a token.  The active player has it, and it is in exactly one *)
(* place: a Turn message in the mailbox of the actor or on its way to the   *)
(* client, the client's open choice, or the move on its way back            *)
(* (TurnHeld).  So moves are made in the phase they were chosen for, until a *)
(* client confirms twice for one Turn message: the invariant is proved up to *)
(* then (OnceEach), and the types whatever is pressed (TypedStep).          *)
(*                                                                         *)
(* What a client chooses from may be old.  After its discard a player has   *)
(* one more move to make, so a synchronisation gets ahead of the next       *)
(* choice but one (FreshInTime): what is shown at an attack has the         *)
(* monsters of this cycle, and no list survives a deal that changes it.     *)
(*                                                                         *)
(* A list without a card shows no cursor, and it must not get a card again   *)
(* while the keys move in it.  Monsters that are gone stay gone for the      *)
(* cycle (StaysEmpty), a hand that is empty at an attack stays empty until    *)
(* the deal (HandEmptied), and the client that attacks without a card has     *)
(* ended before its next turn (HandLeft).                                   *)
(***************************************************************************)
EXTENDS CardGame, TurnsProofs, QueueProofs, WellFoundedInduction,
        FiniteSetTheorems, TLAPS

-------------------------------------------------------------------------------
(* The token.                                                              *)

NoTurn(q)     == \A i \in 1 .. Len(q) : q[i].msg # "Turn"
OnlyWaits(q)  == \A i \in 1 .. Len(q) : q[i].msg = "Turn" => q[i].status = Wait
NoMoveIn(q)   == \A i \in 1 .. Len(q) : q[i].msg # "Move"

(* The last Turn message is that of the phase, at i. *)
TokenAt(q, i, phase) ==
  /\ q[i].msg = "Turn" /\ q[i].status = phase
  /\ \A j \in 1 .. Len(q) : q[j].msg = "Turn" /\ j # i => j < i /\ q[j].status = Wait

Places(w) == {w[s].at : s \in DOMAIN w}

(* The move m of player p is one that its actor can make. *)
Playable(p, m) ==
  /\ m.msg = "Move" /\ m.kind = turn.phase
  /\ m.kind = "DropAbility" => m.card \in Places(hand[p])
  /\ m.kind = "SelectAbility" => m.card \in Ranks
  /\ m.kind = "AttachMonster" => m.card \in Places(turn.monsters)
  /\ m.kind = "Defend" => m.card = None

MoveAt(p, i) ==
  /\ Playable(p, aq[p][i])
  /\ \A j \in 1 .. Len(aq[p]) : aq[p][j].msg = "Move" => j = i

Chose(p)   == view[p] = Wait \/ pressed[p]
NoMoves(p) == cin[p] = <<>> /\ NoMoveIn(aq[p]) /\ actor[p] # "attacked"
NoTurns(p) == NoTurn(aq[p]) /\ NoTurn(out[p])

NotHeld(p) == OnlyWaits(aq[p]) /\ OnlyWaits(out[p]) /\ Chose(p) /\ NoMoves(p)

InMailbox(p) ==
  /\ \E i \in 1 .. Len(aq[p]) : TokenAt(aq[p], i, turn.phase)
  /\ OnlyWaits(out[p]) /\ Chose(p) /\ NoMoves(p)
OnTheWay(p) ==
  /\ \E i \in 1 .. Len(out[p]) : TokenAt(out[p], i, turn.phase)
  /\ NoTurn(aq[p]) /\ Chose(p) /\ NoMoves(p)
AtClient(p) == NoTurns(p) /\ view[p] = turn.phase /\ ~ pressed[p] /\ NoMoves(p)
Played(p) ==
  /\ NoTurns(p) /\ Chose(p)
  /\ Len(cin[p]) = 1 /\ Playable(p, cin[p][1])
  /\ NoMoveIn(aq[p]) /\ actor[p] # "attacked"
AtActor(p) ==
  /\ NoTurns(p) /\ Chose(p)
  /\ cin[p] = <<>> /\ actor[p] # "attacked" /\ pc[p] = "w_move"
  /\ \E i \in 1 .. Len(aq[p]) : MoveAt(p, i)
Attacking(p) ==
  /\ NoTurns(p) /\ Chose(p)
  /\ cin[p] = <<>> /\ NoMoveIn(aq[p]) /\ actor[p] = "attacked"
  /\ turn.phase = "AttachMonster" /\ pc[p] = "w_move"

Held(p) == \/ InMailbox(p) \/ OnTheWay(p) \/ AtClient(p)
           \/ Played(p) \/ AtActor(p) \/ Attacking(p)

HasTurn(p) == IF p = Active(turn) THEN Held(p) ELSE NotHeld(p)
TurnHeld == \A p \in Players : HasTurn(p)

(* A client that is not to play will know. *)
WaitComes(p) ==
  p # Active(turn) => view[p] = Wait \/ ~ NoTurn(aq[p]) \/ ~ NoTurn(out[p])

-------------------------------------------------------------------------------
(* Hands.                                                                  *)

Full(w) == (\A s \in Hand!Slots : w[s].on) \/ Hand!EndOfItems(w, RankCount)

ToBeFull(p) ==
  \/ turn.phase = "DropAbility" /\ p >= Active(turn)
  \/ turn.phase = "Defend" /\ p < Active(turn)
Dealt(p) == ToBeFull(p) => Full(hand[p])

(* The slots of a list that a client shows are slots of the hand. *)
FromHand(p, cards) == \A s \in Hand!Slots : cards.hand[s] \in {None, hand[p][s].at}
HandShown(p) ==
  /\ FromHand(p, shown[p])
  /\ \A i \in 1 .. Len(out[p]) :
       out[p][i].msg = "UpdateGameData" => FromHand(p, out[p][i].cards)

-------------------------------------------------------------------------------
(* What is shown is fresh when it matters.                                 *)

Empty(items) == Filled(items) = {}
NoneOn(w)    == \A s \in DOMAIN w : ~ w[s].on

OnTable(items) ==
  /\ \A s \in Line!Slots : items[s] \in {None, turn.monsters[s].at}
  /\ Empty(items) => NoneOn(turn.monsters)

Good(p, cards) ==
  /\ OnTable(cards.monsters)
  /\ \A s \in Hand!Slots : ~ hand[p][s].on => cards.hand[s] = None

(* After message i no monsters are shown any more. *)
StaysEmpty(p, i) ==
  /\ \A j \in 1 .. Len(out[p]) :
       j > i /\ out[p][j].msg = "UpdateGameData" => Empty(out[p][j].cards.monsters)
  /\ actor[p] = "syncing" => Empty(seen[p])

(* Good, and when no monster is left then for the rest of the cycle. *)
GoodAt(p, i, cards) == Good(p, cards) /\ (Empty(cards.monsters) => StaysEmpty(p, i))

GoodFrom(p, k) ==
  \A i \in 1 .. Len(out[p]) :
    i >= k /\ out[p][i].msg = "UpdateGameData" => GoodAt(p, i, out[p][i].cards)
AllGood(p) == GoodAt(p, 0, shown[p]) /\ GoodFrom(p, 1)
FreshBefore(p, i) ==
  \/ AllGood(p)
  \/ \E k \in 1 .. Len(out[p]) :
       k < i /\ out[p][k].msg = "UpdateGameData" /\ GoodFrom(p, k)
Fresh(p) == FreshBefore(p, Len(out[p]) + 1)

SyncFirst(p) ==
  \E i \in 1 .. Len(aq[p]) :
    /\ aq[p][i].msg = "SyncWithClient"
    /\ \A j \in 1 .. Len(aq[p]) : aq[p][j].msg = "Move" => i < j

(* From the discard to the deal of a player; from its selection; from its     *)
(* attack.                                                                 *)
Discarded(p) ==
  \/ turn.phase = "DropAbility" /\ p < Active(turn)
  \/ turn.phase \in {"SelectAbility", "AttachMonster"}
  \/ turn.phase = "Defend" /\ p >= Active(turn)
Attacked(p) ==
  \/ turn.phase \in {"SelectAbility", "AttachMonster"} /\ p < Active(turn)
  \/ turn.phase = "Defend" /\ p >= Active(turn)
Attacks(p) == turn.phase = "AttachMonster" /\ p = Active(turn)

FreshInTime(p) ==
  /\ Discarded(p) =>
       /\ actor[p] = "syncing" => OnTable(seen[p])
       /\ Fresh(p) \/ actor[p] = "syncing" \/ SyncFirst(p) \/ pc[p] = "answer"
  /\ Attacked(p) => AllGood(p)
  /\ Attacks(p) =>
       /\ chosen[p] # None
       /\ Fresh(p)
       /\ \A i \in 1 .. Len(out[p]) :
            out[p][i].msg = "Turn" /\ out[p][i].status = "AttachMonster" => FreshBefore(p, i)
       /\ NoTurns(p) => AllGood(p)

-------------------------------------------------------------------------------
(* The latest of what is shown.                                            *)

Current(p) == [hand |-> Items(hand[p]), monsters |-> Items(turn.monsters)]

LastIsCurrent(p) ==
  \/ /\ shown[p] = Current(p)
     /\ \A i \in 1 .. Len(out[p]) : out[p][i].msg # "UpdateGameData"
  \/ \E i \in 1 .. Len(out[p]) :
       /\ out[p][i].msg = "UpdateGameData" /\ out[p][i].cards = Current(p)
       /\ \A j \in 1 .. Len(out[p]) : out[p][j].msg = "UpdateGameData" => j <= i

CurrentComes(p) ==
  \/ \E q \in Players : pc[q] = "answer" \/ actor[q] = "attacked"
  \/ \E i \in 1 .. Len(aq[p]) : aq[p][i].msg = "SyncWithClient"
  \/ actor[p] = "syncing" /\ seen[p] = Items(turn.monsters)
  \/ actor[p] # "syncing" /\ LastIsCurrent(p)

(* TypeOK, with what the steps rely on. *)
Typed ==
  /\ TypeOK
  /\ HasActive(turn)
  /\ \A p \in Players :
       move[p].kind \in {"SelectAbility", "AttachMonster"} => move[p].card \in Ranks \cup Monsters

Parts(p) == HasTurn(p) /\ WaitComes(p) /\ Dealt(p) /\ HandShown(p) /\ FreshInTime(p)

IInv == /\ Typed /\ crashed # "actor"
        /\ \A p \in Players : Parts(p) /\ CurrentComes(p)

-------------------------------------------------------------------------------
(* Least elements: the scans of windows and of lists find what they look for. *)

LEMMA Smallest ==
  ASSUME NEW T \in SUBSET Nat, T # {}
  PROVE  \E x \in T : \A y \in T : x <= y
  <1> DEFINE Less == OpToRel(<, Nat)
  <1>1. \E x \in T : \A y \in T : ~ (<<y, x>> \in Less)
    <2>1. IsWellFoundedOn(Less, Nat)
      BY NatLessThanWellFounded
    <2> HIDE DEF Less
    <2> QED  BY <2>1, WFMin
  <1>2. \A x, y \in Nat : x < y => <<x, y>> \in Less
    BY DEF OpToRel
  <1>3. \A x, y \in Nat : ~ (y < x) => x <= y
    OBVIOUS
  <1> QED  BY <1>1, <1>2, <1>3

LEMMA ConstantFacts ==
  /\ HandSize \in Nat \ {0} /\ RankCount \in Nat /\ HandSize <= RankCount
  /\ MonstersPerLine \in Nat \ {0} /\ DeckSize \in Nat /\ MonstersPerLine <= DeckSize
  /\ PlayerCount \in Nat \ {0}
  /\ Hand!Slots \subseteq Nat /\ Hand!Slots = 0 .. (HandSize - 1)
  /\ Line!Slots \subseteq Nat /\ Line!Slots = 0 .. (MonstersPerLine - 1)
  /\ None \notin Ranks /\ None \notin Monsters
  /\ Players \subseteq Nat
  BY CardAssumption, DeckAssumption, PlayerCountAssumption
     DEF Hand!Slots, Line!Slots, None, Ranks, Monsters, Players

(* Only what is on changes in a hand when a card is dropped. *)
LEMMA HandDrop ==
  ASSUME NEW w \in Hand!Window(RankCount), NEW i \in Ranks,
         ~ Hand!AlreadyNotActive(w, i)
  PROVE  /\ Hand!DeactivateByIndex(w, i) \in Hand!Window(RankCount)
         /\ \A s \in Hand!Slots : Hand!DeactivateByIndex(w, i)[s].at = w[s].at
         /\ NoneOn(w) => NoneOn(Hand!DeactivateByIndex(w, i))
  <1> DEFINE H == Hand!Holders(w, i)
             f == Hand!First(H)
  <1>1. H \in SUBSET Nat /\ H # {}
    BY ConstantFacts DEF Hand!AlreadyNotActive, Hand!Holders
  <1>2. f \in H
    BY <1>1, Smallest DEF Hand!First
  <1>3. f \in Hand!Slots /\ w[f].at = i
    BY <1>2 DEF Hand!Holders
  <1>4. Hand!DeactivateByIndex(w, i) = [w EXCEPT ![f] = [on |-> FALSE, at |-> i]]
    BY DEF Hand!DeactivateByIndex, Hand!Disable
  <1> HIDE DEF H, f
  <1> QED  BY <1>3, <1>4 DEF Hand!Window, Ranks, NoneOn

LEMMA LineDrop ==
  ASSUME NEW w \in Line!Window(DeckSize), NEW i \in Monsters,
         ~ Line!AlreadyNotActive(w, i)
  PROVE  /\ Line!DeactivateByIndex(w, i) \in Line!Window(DeckSize)
         /\ \A s \in Line!Slots : Line!DeactivateByIndex(w, i)[s].at = w[s].at
         /\ NoneOn(w) => NoneOn(Line!DeactivateByIndex(w, i))
  <1> DEFINE H == Line!Holders(w, i)
             f == Line!First(H)
  <1>1. H \in SUBSET Nat /\ H # {}
    BY ConstantFacts DEF Line!AlreadyNotActive, Line!Holders
  <1>2. f \in H
    BY <1>1, Smallest DEF Line!First
  <1>3. f \in Line!Slots /\ w[f].at = i
    BY <1>2 DEF Line!Holders
  <1>4. Line!DeactivateByIndex(w, i) = [w EXCEPT ![f] = [on |-> FALSE, at |-> i]]
    BY DEF Line!DeactivateByIndex, Line!Disable
  <1> HIDE DEF H, f
  <1> QED  BY <1>3, <1>4 DEF Line!Window, Monsters, NoneOn

(* A deal fills the hand, as far as the deck goes, and keeps what is on. *)
LEMMA HandDeal ==
  ASSUME NEW w \in Hand!Window(RankCount)
  PROVE  LET d == Hand!NextActives(w, RankCount)
         IN  /\ d \in Hand!Window(RankCount) /\ Full(d)
             /\ \A s \in Hand!Slots : w[s].on => d[s].at = w[s].at
  <1> DEFINE d == Hand!NextActives(w, RankCount)
             E == Hand!Exhausted(w, RankCount)
  <1>1. \A s \in Hand!Slots : w[s] \in [on : BOOLEAN, at : 0 .. (RankCount - 1)]
    BY DEF Hand!Window
  <1>2. E \subseteq Hand!Slots /\ \A e \in E : ~ (e < e)
    BY ConstantFacts DEF Hand!Exhausted
  <1>3. ASSUME NEW s \in Hand!Slots
        PROVE  /\ d[s] \in [on : BOOLEAN, at : 0 .. (RankCount - 1)]
               /\ w[s].on => d[s].at = w[s].at
               /\ E = {} => d[s].on
               /\ s \in E => d[s] = w[s]
    <2>1. CASE \A e \in E : s < e
      <3>1. s \notin E
        BY <1>2, <2>1
      <3>2. Hand!NextIndex(w, s) \in 0 .. (RankCount - 1)
        BY <1>1, <3>1, ConstantFacts DEF Hand!Exhausted, Hand!NextIndex
      <3>3. d[s] = [on |-> TRUE, at |-> Hand!NextIndex(w, s)]
        BY <2>1 DEF Hand!NextActives, Hand!Enable
      <3> QED  BY <3>1, <3>2, <3>3 DEF Hand!NextIndex
    <2>2. CASE ~ \A e \in E : s < e
      <3>1. d[s] = w[s]
        BY <2>2 DEF Hand!NextActives
      <3> QED  BY <1>1, <2>2, <3>1
    <2> QED  BY <2>1, <2>2
  <1>4. d \in Hand!Window(RankCount)
    BY <1>3 DEF Hand!NextActives, Hand!Window
  <1>5. CASE E = {}
    BY <1>3, <1>4, <1>5 DEF Full
  <1>6. CASE E # {}
    <2>1. PICK e \in E : TRUE
      BY <1>6
    <2>2. e \in Hand!Exhausted(d, RankCount)
      BY <1>2, <1>3, <2>1 DEF Hand!Exhausted, Hand!NextIndex
    <2>3. Full(d)
      BY <2>2 DEF Full, Hand!EndOfItems
    <2> QED  BY <1>3, <1>4, <2>3
  <1> QED  BY <1>5, <1>6

(* What is sent of a window are its places, where it is on. *)
LEMMA ItemsOf ==
  /\ \A w \in Hand!Window(RankCount) :
       /\ Items(w) \in [Hand!Slots -> Ranks \cup {None}]
       /\ \A s \in Hand!Slots : /\ Items(w)[s] \in {None, w[s].at}
                                /\ ~ w[s].on => Items(w)[s] = None
  /\ \A w \in Line!Window(DeckSize) :
       /\ Items(w) \in [Line!Slots -> Monsters \cup {None}]
       /\ \A s \in Line!Slots : Items(w)[s] \in {None, w[s].at}
  BY DEF Items, Hand!Window, Line!Window, Ranks, Monsters

(* Nothing is sent of a window in which nothing is on. *)
LEMMA EmptyItems ==
  /\ \A w \in Hand!Window(RankCount) : Empty(Items(w)) <=> NoneOn(w)
  /\ \A w \in Line!Window(DeckSize) : Empty(Items(w)) <=> NoneOn(w)
  <1>1. \A w : DOMAIN Items(w) = DOMAIN w
    BY DEF Items
  <1>2. ASSUME NEW w, \A s \in DOMAIN w : w[s].at # None
        PROVE  Empty(Items(w)) <=> NoneOn(w)
    BY <1>1, <1>2 DEF Empty, Filled, NoneOn, Items
  <1>3. /\ \A w \in Hand!Window(RankCount) : \A s \in DOMAIN w : w[s].at # None
        /\ \A w \in Line!Window(DeckSize) : \A s \in DOMAIN w : w[s].at # None
    BY ConstantFacts DEF Hand!Window, Line!Window, None
  <1> QED  BY <1>2, <1>3

(* A loop is at path[k] after k rounds. *)
IsLoop(list, n, step, path) ==
  \A k \in 1 .. n : path[k] = IF list[path[k - 1]] # None THEN path[k - 1]
                             ELSE step[path[k - 1]]

(* The rounds of a loop are determined by its beginning and its step. *)
LEMMA LoopStops ==
  ASSUME NEW n \in Nat, NEW list, Length(list) = n, NEW step,
         NEW path \in [0 .. n -> 0 .. n], IsLoop(list, n, step, path)
  PROVE  Stops(list, path[0], step) = path[n]
  <1> DEFINE Is(f) == f = [k \in 0 .. Length(list) |->
                                 IF k = 0 THEN path[0]
                                 ELSE IF list[f[k - 1]] # None THEN f[k - 1]
                                 ELSE step[f[k - 1]]]
             place == CHOOSE f : Is(f)
  <1>1. Is(path)
    <2>1. \A k \in 0 .. n : path[k] = IF k = 0 THEN path[0]
                                      ELSE IF list[path[k - 1]] # None THEN path[k - 1]
                                      ELSE step[path[k - 1]]
      <3>1. \A k \in 0 .. n : k = 0 \/ k \in 1 .. n
        OBVIOUS
      <3>2. \A k \in 1 .. n : k # 0
        OBVIOUS
      <3> QED  BY <3>1, <3>2 DEF IsLoop
    <2> QED  BY <2>1
  <1>2. Is(place)
    <2> HIDE DEF Is
    <2> QED  BY <1>1
  <1>3. Stops(list, path[0], step) = place[n]
    BY DEF Stops
  <1> HIDE DEF place
  <1>4. \A k \in 0 .. n : place[k] = IF k = 0 THEN path[0]
                                     ELSE IF list[place[k - 1]] # None THEN place[k - 1]
                                     ELSE step[place[k - 1]]
    BY <1>2 DEF Is
  <1> HIDE DEF Is
  <1>5. ASSUME NEW j \in 0 .. n, place[j] # path[j] PROVE FALSE
    <2> DEFINE T == {k \in 0 .. n : place[k] # path[k]}
    <2>1. T \in SUBSET Nat /\ T # {}
      <3>1. 0 .. n \subseteq Nat /\ j \in T
        BY <1>5
      <3> QED  BY <3>1
    <2>2. PICK k \in T : \A m \in T : k <= m
      <3> HIDE DEF T
      <3> QED  BY <2>1, Smallest
    <2>3. k \in 0 .. n /\ k # 0
      BY <1>4, <2>2
    <2>4. k - 1 \in 0 .. n /\ k - 1 \notin T /\ k \in 1 .. n
      <3>1. k - 1 \in 0 .. n /\ k \in 1 .. n /\ ~ (k <= k - 1)
        BY <2>3
      <3> HIDE DEF T
      <3> QED  BY <2>2, <3>1
    <2>5. place[k - 1] = path[k - 1]
      BY <2>4
    <2>6. place[k] = path[k]
      BY <1>4, <2>3, <2>4, <2>5 DEF IsLoop
    <2> QED  BY <2>2, <2>6
  <1> QED  BY <1>3, <1>5

(* The steps of a loop over places that are all empty. *)
Walks(n, walk, step) ==
  /\ \A m \in 0 .. (n - 1) : walk[m] \in 0 .. (n - 1)
  /\ \A m \in 0 .. (n - 2) : step[walk[m]] = walk[m + 1]

(* A loop that walks over places one after another stops at the first item of  *)
(* its walk.                                                               *)
LEMMA LoopFinds ==
  ASSUME NEW n \in Nat \ {0}, NEW list, DOMAIN list = 0 .. (n - 1), Length(list) = n,
         NEW walk, NEW step,
         Walks(n, walk, step),
         NEW d \in 0 .. (n - 1), walk[d] \in Filled(list)
  PROVE  Stops(list, walk[0], step) \in Filled(list)
  <1> DEFINE T == {m \in 0 .. (n - 1) : walk[m] \in Filled(list)}
  <1>1. T \in SUBSET Nat /\ T # {}
    <2>1. d \in T
      OBVIOUS
    <2>2. 0 .. (n - 1) \subseteq Nat
      OBVIOUS
    <2> QED  BY <2>1, <2>2
  <1>2. PICK e \in T : \A m \in T : e <= m
    <2> HIDE DEF T
    <2> QED  BY <1>1, Smallest
  <1>3. e \in 0 .. (n - 1) /\ walk[e] \in Filled(list)
        /\ \A m \in 0 .. (n - 1) : m < e => walk[m] \notin Filled(list)
    BY <1>2
  <1> HIDE DEF T
  <1> DEFINE path == [k \in 0 .. n |-> IF k <= e THEN walk[k] ELSE walk[e]]
  <1>4. path \in [0 .. n -> 0 .. n] /\ path[0] = walk[0] /\ path[n] = walk[e]
    <2>1. \A k \in 0 .. n : k <= e => k \in 0 .. (n - 1)
      BY <1>3
    <2>2. 0 .. (n - 1) \subseteq 0 .. n /\ 0 \in 0 .. n /\ n \in 0 .. n /\ 0 <= e /\ ~ (n <= e)
      BY <1>3
    <2>3. \A k \in 0 .. n : (IF k <= e THEN walk[k] ELSE walk[e]) \in 0 .. n
      BY <1>3, <2>1, <2>2 DEF Walks
    <2> QED  BY <2>2, <2>3
  <1>5. ASSUME NEW k \in 1 .. n
        PROVE  path[k] = IF list[path[k - 1]] # None THEN path[k - 1]
                         ELSE step[path[k - 1]]
    <2>1. k \in 0 .. n /\ k - 1 \in 0 .. n /\ k - 1 \in Int
      OBVIOUS
    <2>2. CASE k <= e
      <3>1. k - 1 \in 0 .. (n - 2) /\ k - 1 + 1 = k /\ k - 1 \in 0 .. (n - 1) /\ k - 1 < e
            /\ k - 1 <= e
        BY <1>3, <2>2
      <3>2. path[k - 1] = walk[k - 1] /\ path[k] = walk[k]
        BY <2>1, <2>2, <3>1
      <3>3. list[walk[k - 1]] = None
        BY <1>3, <3>1 DEF Filled, Walks
      <3>4. step[walk[k - 1]] = walk[k]
        BY <3>1 DEF Walks
      <3> QED  BY <3>2, <3>3, <3>4
    <2>3. CASE ~ (k <= e)
      <3>1. k - 1 <= e => k - 1 = e
        BY <1>3, <2>3
      <3>2. path[k - 1] = walk[e] /\ path[k] = walk[e]
        BY <2>1, <2>3, <3>1
      <3>3. list[walk[e]] # None
        BY <1>3 DEF Filled
      <3> QED  BY <3>2, <3>3
    <2> QED  BY <2>2, <2>3
  <1>6. IsLoop(list, n, step, path)
    BY <1>5 DEF IsLoop
  <1> HIDE DEF path
  <1>7. PICK rounds \in [0 .. n -> 0 .. n] :
          rounds[0] = walk[0] /\ rounds[n] = walk[e] /\ IsLoop(list, n, step, rounds)
    BY <1>4, <1>6
  <1>8. Stops(list, rounds[0], step) = rounds[n]
    <2>1. IsLoop(list, n, step, rounds)
      BY <1>7
    <2> QED  BY <2>1, LoopStops
  <1> QED  BY <1>3, <1>7, <1>8

(* The keys find an item if there is one. *)
LEMMA KeysFind ==
  ASSUME NEW n \in Nat \ {0}, NEW list, DOMAIN list = 0 .. (n - 1),
         NEW from \in (0 .. (n - 1)) \cup {None}, ~ Lost(list, from)
  PROVE  \A to \in {NextPlace(list, from), PrevPlace(list, from)} :
           IF Filled(list) = {} THEN to = None ELSE to \in Filled(list)
  <1>1. CASE Filled(list) = {}
    BY <1>1 DEF NextPlace, PrevPlace
  <1>2. CASE Filled(list) # {}
    <2>1. Length(list) = n /\ Last(list) = n - 1
      <3>1. Cardinality(0 .. (n - 1)) = n
        BY FS_Interval
      <3> QED  BY <3>1 DEF Length, Last
    <2>2. from \in 0 .. (n - 1)
      BY <1>2 DEF Lost, None
    <2>3. PICK j \in 0 .. (n - 1) : j \in Filled(list)
      BY <1>2 DEF Filled
    <2>4. NextPlace(list, from) \in Filled(list)
      <3>1. CASE from >= n - 1
        <4> DEFINE walk == [m \in 0 .. (n - 1) |-> m]
        <4>1. Walks(n, walk, Right(list))
          BY DEF Walks, Right
        <4>2. walk[0] = 0 /\ walk[j] = j
          OBVIOUS
        <4>3. Stops(list, walk[0], Right(list)) \in Filled(list)
          <5> HIDE DEF walk
          <5> QED  BY <2>1, <2>3, <4>1, <4>2, LoopFinds
        <4> QED  BY <1>2, <2>1, <3>1, <4>2, <4>3 DEF NextPlace
      <3>2. CASE ~ (from >= n - 1)
        <4> DEFINE walk == [m \in 0 .. (n - 1) |-> IF from + 1 + m < n THEN from + 1 + m
                                                   ELSE from + 1 + m - n]
                   d == IF j >= from + 1 THEN j - (from + 1) ELSE j + n - (from + 1)
        <4>1. \A m \in 0 .. (n - 1) : walk[m] \in 0 .. (n - 1)
          BY <2>2
        <4>2. Walks(n, walk, RightRound(list))
          BY <2>1, <2>2, <4>1 DEF Walks, RightRound
        <4>3. walk[0] = from + 1 /\ d \in 0 .. (n - 1) /\ walk[d] = j
          BY <2>2, <3>2
        <4>4. Stops(list, walk[0], RightRound(list)) \in Filled(list)
          <5> HIDE DEF walk, d
          <5> QED  BY <2>1, <2>3, <4>2, <4>3, LoopFinds
        <4> QED  BY <1>2, <2>1, <3>2, <4>3, <4>4 DEF NextPlace
      <3> QED  BY <3>1, <3>2
    <2>5. PrevPlace(list, from) \in Filled(list)
      <3>1. CASE from = 0
        <4> DEFINE walk == [m \in 0 .. (n - 1) |-> n - 1 - m]
                   d == n - 1 - j
        <4>1. \A m \in 0 .. (n - 1) : walk[m] \in 0 .. (n - 1)
          OBVIOUS
        <4>2. Walks(n, walk, Left(list))
          BY <4>1 DEF Walks, Left
        <4>3. walk[0] = n - 1 /\ d \in 0 .. (n - 1) /\ walk[d] = j
          OBVIOUS
        <4>4. Stops(list, walk[0], Left(list)) \in Filled(list)
          <5> HIDE DEF walk, d
          <5> QED  BY <2>1, <2>3, <4>2, <4>3, LoopFinds
        <4> QED  BY <1>2, <2>1, <3>1, <4>3, <4>4 DEF PrevPlace
      <3>2. CASE from # 0
        <4> DEFINE walk == [m \in 0 .. (n - 1) |-> IF m <= from - 1 THEN from - 1 - m
                                                   ELSE from - 1 - m + n]
                   d == IF j <= from - 1 THEN from - 1 - j ELSE from - 1 - j + n
        <4>1. \A m \in 0 .. (n - 1) : walk[m] \in 0 .. (n - 1)
          BY <2>2
        <4>2. Walks(n, walk, LeftRound(list))
          BY <2>1, <2>2, <4>1 DEF Walks, LeftRound
        <4>3. walk[0] = from - 1 /\ d \in 0 .. (n - 1) /\ walk[d] = j
          BY <2>2, <3>2
        <4>4. Stops(list, walk[0], LeftRound(list)) \in Filled(list)
          <5> HIDE DEF walk, d
          <5> QED  BY <2>1, <2>3, <4>2, <4>3, LoopFinds
        <4> QED  BY <1>2, <2>1, <3>2, <4>3, <4>4 DEF PrevPlace
      <3> QED  BY <3>1, <3>2
    <2> QED  BY <1>2, <2>4, <2>5
  <1> QED  BY <1>1, <1>2

-------------------------------------------------------------------------------
(* Mailboxes and channels.                                                 *)

LEMMA TakenTurns ==
  ASSUME NEW S, NEW q \in Seq(S), q # <<>>
  PROVE  /\ NoTurn(q) => NoTurn(Tail(q)) /\ Head(q).msg # "Turn"
         /\ OnlyWaits(q) => /\ OnlyWaits(Tail(q))
                            /\ Head(q).msg = "Turn" => Head(q).status = Wait
         /\ NoMoveIn(q) => NoMoveIn(Tail(q)) /\ Head(q).msg # "Move"
         /\ \A ph : \A i \in 1 .. Len(q) : TokenAt(q, i, ph) =>
              IF i = 1 THEN NoTurn(Tail(q)) /\ Head(q).msg = "Turn" /\ Head(q).status = ph
              ELSE /\ i - 1 \in 1 .. Len(Tail(q)) /\ TokenAt(Tail(q), i - 1, ph)
                   /\ Head(q).msg = "Turn" => Head(q).status = Wait
  BY FirstTaken DEF NoTurn, OnlyWaits, NoMoveIn, TokenAt

LEMMA SentOther ==
  ASSUME NEW S, NEW q \in Seq(S), NEW m \in S, m.msg # "Turn"
  PROVE  /\ NoTurn(Append(q, m)) <=> NoTurn(q)
         /\ OnlyWaits(q) => OnlyWaits(Append(q, m))
         /\ NoMoveIn(q) /\ m.msg # "Move" => NoMoveIn(Append(q, m))
         /\ \A ph : \A i \in 1 .. Len(Append(q, m)) :
              TokenAt(Append(q, m), i, ph) <=> i \in 1 .. Len(q) /\ TokenAt(q, i, ph)
  BY LastSent DEF NoTurn, OnlyWaits, NoMoveIn, TokenAt

LEMMA SentTurn ==
  ASSUME NEW S, NEW q \in Seq(S), NEW m \in S, m.msg = "Turn"
  PROVE  /\ ~ NoTurn(Append(q, m))
         /\ OnlyWaits(q) /\ m.status = Wait => OnlyWaits(Append(q, m))
         /\ NoMoveIn(q) => NoMoveIn(Append(q, m))
         /\ OnlyWaits(q) => TokenAt(Append(q, m), Len(q) + 1, m.status)
  BY LastSent DEF NoTurn, OnlyWaits, NoMoveIn, TokenAt

Mail == [msg : {"SyncWithClient"}] \cup Moves \cup ToClient

LEMMA TypeFacts ==
  ASSUME Typed, NEW p \in Players
  PROVE  /\ turn \in Turn /\ turn.phase \in Phases /\ HasActive(turn)
         /\ turn.monsters \in Line!Window(DeckSize)
         /\ hand[p] \in Hand!Window(RankCount) /\ chosen[p] \in Ranks \cup {None}
         /\ aq[p] \in Seq(Mail) /\ out[p] \in Seq(ToClient) /\ cin[p] \in Seq(Moves)
         /\ actor[p] \in {"idle", "attacked", "syncing"}
         /\ seen[p] \in [Line!Slots -> Monsters \cup {None}]
         /\ pc[p] \in {"read", "w_move", "answer"} /\ move[p] \in Moves
         /\ view[p] \in Statuses /\ pressed[p] \in BOOLEAN /\ shown[p] \in Shown
         /\ late \in [confirm : 0 .. LateConfirms, cursor : 0 .. LateKeys]
         /\ at[p] \in [hand : Hand!Slots \cup {None}, monsters : Line!Slots \cup {None}]
         /\ Active(turn) \in Players /\ Wait \notin Phases
  <1>1. Active(turn) \in Players
    BY SwitchFacts DEF Typed, TypeOK
  <1>2. turn.phase \in Phases /\ turn.monsters \in Line!Window(DeckSize)
    BY DEF Typed, TypeOK, Turn
  <1> QED  BY <1>1, <1>2 DEF Typed, TypeOK, Mail, Phases, Wait

-------------------------------------------------------------------------------
(* The types hold whatever the clients press: no step needs a client to wait   *)
(* for its turn.                                                           *)

LEMMA StopTyped == ASSUME Typed, NEW what \in {"client", "actor"}, Stop(what) PROVE Typed'
  BY DEF Stop, Typed, TypeOK, serverVars, connVars, clientVars

(* Late keys are counted, and within their bounds. *)
LEMMA CountedTyped ==
  ASSUME Typed, NEW p \in Players, NEW key \in {"confirm", "cursor"}, MayPress(p, key)
  PROVE  /\ Counted(p, key) \in [confirm : 0 .. LateConfirms, cursor : 0 .. LateKeys]
         /\ Counted(p, key).confirm >= late.confirm /\ Counted(p, key).cursor >= late.cursor
         /\ pressed[p] => Counted(p, key)[key] # 0
  <1>1. late \in [confirm : 0 .. LateConfirms, cursor : 0 .. LateKeys]
        /\ LateConfirms \in Nat /\ LateKeys \in Nat
    BY CardAssumption DEF Typed, TypeOK
  <1>2. CASE pressed[p] /\ key = "confirm"
    BY <1>1, <1>2 DEF Counted, MayPress, LateBound
  <1>3. CASE pressed[p] /\ key = "cursor"
    BY <1>1, <1>3 DEF Counted, MayPress, LateBound
  <1>4. CASE ~ pressed[p]
    BY <1>1, <1>4 DEF Counted
  <1> QED  BY <1>2, <1>3, <1>4

LEMMA CursorFacts ==
  ASSUME Typed, NEW p \in Players, MoveCursor(p), crashed' = crashed
  PROVE  \E which \in {"hand", "monsters"} : \E to \in Int :
           /\ which = ListFor(view[p])
           /\ at' = [at EXCEPT ![p][which] = to]
           /\ which = "hand" => to \in Hand!Slots \cup {None}
           /\ which = "monsters" => to \in Line!Slots \cup {None}
           /\ Filled(shown[p][which]) # {} => OnItem(shown[p][which], to)
           /\ late' = Counted(p, "cursor")
           /\ UNCHANGED <<serverVars, connVars, out, cin, view, pressed, shown, crashed>>
  <1> DEFINE which == ListFor(view[p])
             list  == shown[p][which]
             from  == at[p][which]
  <1>1. ~ Lost(list, from)
    BY DEF MoveCursor, Stop, Running
  <1>2. PICK to \in {NextPlace(list, from), PrevPlace(list, from)} :
          /\ at' = [at EXCEPT ![p][which] = to]
          /\ late' = Counted(p, "cursor")
          /\ UNCHANGED <<serverVars, connVars, out, cin, view, pressed, shown, crashed>>
    BY <1>1 DEF MoveCursor
  <1>3. CASE which = "hand"
    <2>1. list \in [Hand!Slots -> Ranks \cup {None}] /\ from \in Hand!Slots \cup {None}
      BY <1>3, TypeFacts DEF Shown
    <2>2. IF Filled(list) = {} THEN to = None ELSE to \in Filled(list)
      BY <1>1, <2>1, KeysFind, ConstantFacts
    <2>3. Filled(list) \subseteq Hand!Slots
      BY <2>1 DEF Filled
    <2>4. to \in Hand!Slots \cup {None} /\ to \in Int
      BY <2>2, <2>3, ConstantFacts DEF None
    <2>5. Filled(list) # {} => OnItem(list, to)
      BY <2>2, <2>3, ConstantFacts DEF OnItem, None, Filled
    <2> HIDE DEF which, list, from
    <2> QED  BY <1>2, <1>3, <2>4, <2>5 DEF which, list
  <1>4. CASE which = "monsters"
    <2>1. list \in [Line!Slots -> Monsters \cup {None}] /\ from \in Line!Slots \cup {None}
      BY <1>4, TypeFacts DEF Shown
    <2>2. IF Filled(list) = {} THEN to = None ELSE to \in Filled(list)
      BY <1>1, <2>1, KeysFind, ConstantFacts
    <2>3. Filled(list) \subseteq Line!Slots
      BY <2>1 DEF Filled
    <2>4. to \in Line!Slots \cup {None} /\ to \in Int
      BY <2>2, <2>3, ConstantFacts DEF None
    <2>5. Filled(list) # {} => OnItem(list, to)
      BY <2>2, <2>3, ConstantFacts DEF OnItem, None, Filled
    <2> HIDE DEF which, list, from
    <2> QED  BY <1>2, <1>4, <2>4, <2>5 DEF which, list
  <1> QED  BY <1>3, <1>4 DEF ListFor

LEMMA CursorTyped ==
  ASSUME Typed, NEW p \in Players, MoveCursor(p) PROVE Typed'
  <1>1. CASE Stop("client")
    BY <1>1, StopTyped
  <1>2. CASE crashed' = crashed
    <2>1. PICK which \in {"hand", "monsters"}, to \in Int :
           /\ at' = [at EXCEPT ![p][which] = to]
           /\ which = "hand" => to \in Hand!Slots \cup {None}
           /\ which = "monsters" => to \in Line!Slots \cup {None}
           /\ late' = Counted(p, "cursor")
           /\ UNCHANGED <<serverVars, connVars, out, cin, view, pressed, shown, crashed>>
      BY <1>2, CursorFacts
    <2>2. at' \in [Players -> [hand     : Hand!Slots \cup {None},
                               monsters : Line!Slots \cup {None}]]
      BY <2>1 DEF Typed, TypeOK
    <2>3. late' \in [confirm : 0 .. LateConfirms, cursor : 0 .. LateKeys]
      BY <2>1, CountedTyped DEF MoveCursor
    <2> QED  BY <2>1, <2>2, <2>3 DEF Typed, TypeOK, serverVars, connVars
  <1> QED  BY <1>1, <1>2 DEF MoveCursor

LEMMA ConfirmTyped ==
  ASSUME Typed, NEW p \in Players, ConfirmSelected(p) PROVE Typed'
  <1>1. CASE Stop("client")
    BY <1>1, StopTyped
  <1>2. ASSUME NEW card, MoveMsg(view[p], card) \in Moves, Send(p, card) PROVE Typed'
    <2>1. /\ cin' = [cin EXCEPT ![p] = Append(@, MoveMsg(view[p], card))]
          /\ pressed' = [pressed EXCEPT ![p] = TRUE]
          /\ late' = Counted(p, "confirm")
          /\ UNCHANGED <<serverVars, connVars, out, view, shown, at, crashed>>
      BY <1>2 DEF Send
    <2>2. cin' \in [Players -> Seq(Moves)] /\ pressed' \in [Players -> BOOLEAN]
      BY <1>2, <2>1 DEF Typed, TypeOK
    <2>3. late' \in [confirm : 0 .. LateConfirms, cursor : 0 .. LateKeys]
      BY <2>1, CountedTyped DEF ConfirmSelected
    <2> QED  BY <2>1, <2>2, <2>3 DEF Typed, TypeOK, serverVars, connVars
  <1>3. CASE view[p] = "Defend"
    BY <1>2, <1>3 DEF ConfirmSelected, MoveMsg, Moves
  <1>4. CASE view[p] # "Defend" /\ OnItem(shown[p][ListFor(view[p])], at[p][ListFor(view[p])])
    <2> DEFINE card == shown[p][ListFor(view[p])][at[p][ListFor(view[p])]]
    <2>1. Send(p, card)
      BY <1>4 DEF ConfirmSelected
    <2>2. MoveMsg(view[p], card) \in Moves
      <3>1. CASE view[p] = "AttachMonster"
        <4>1. card = shown[p].monsters[at[p].monsters] /\ card # None /\ at[p].monsters # None
          BY <1>4, <3>1 DEF ListFor, OnItem
        <4>2. card \in Monsters
          BY <4>1, TypeFacts DEF Shown
        <4> QED  BY <3>1, <4>2 DEF MoveMsg, Moves
      <3>2. CASE view[p] # "AttachMonster"
        <4>1. card = shown[p].hand[at[p].hand] /\ card # None /\ at[p].hand # None
          BY <1>4, <3>2 DEF ListFor, OnItem
        <4>2. card \in Ranks
          BY <4>1, TypeFacts DEF Shown
        <4> QED  BY <1>4, <3>2, <4>2 DEF ConfirmSelected, MoveMsg, Moves, Phases
      <3> QED  BY <3>1, <3>2
    <2> HIDE DEF card
    <2> QED  BY <1>2, <2>1, <2>2
  <1> QED  BY <1>1, <1>3, <1>4 DEF ConfirmSelected

LEMMA ReceiveTyped ==
  ASSUME Typed, NEW p \in Players, ReceiveMessage(p) PROVE Typed'
  <1> DEFINE m == Head(out[p])
  <1>1. CASE Stop("client")
    BY <1>1, StopTyped
  <1>2. CASE ~ Stop("client")
    <2>1. /\ out[p] # <<>> /\ out' = [out EXCEPT ![p] = Tail(@)]
          /\ view' = IF m.msg = "Turn" THEN [view EXCEPT ![p] = m.status] ELSE view
          /\ pressed' = IF m.msg = "Turn" THEN [pressed EXCEPT ![p] = FALSE] ELSE pressed
          /\ shown' = IF m.msg = "UpdateGameData" THEN [shown EXCEPT ![p] = m.cards] ELSE shown
          /\ UNCHANGED <<serverVars, connVars, cin, late, at, crashed>>
      BY <1>2 DEF ReceiveMessage
    <2>2. m \in ToClient /\ Tail(out[p]) \in Seq(ToClient)
      BY <2>1, TypeFacts, FirstTaken
    <2>3. /\ m.msg = "Turn" => m.status \in Statuses
          /\ m.msg = "UpdateGameData" => m.cards \in Shown
      BY <2>2 DEF ToClient
    <2> HIDE DEF m
    <2>4. /\ out' \in [Players -> Seq(ToClient)] /\ view' \in [Players -> Statuses]
          /\ pressed' \in [Players -> BOOLEAN] /\ shown' \in [Players -> Shown]
      BY <2>1, <2>2, <2>3 DEF Typed, TypeOK
    <2> QED  BY <2>1, <2>4 DEF Typed, TypeOK, serverVars, connVars
  <1> QED  BY <1>1, <1>2 DEF ReceiveMessage

LEMMA ReadMoveTyped ==
  ASSUME Typed, NEW p \in Players, ReadMove(p) PROVE Typed'
  <1>0. PICK m : m = Head(cin[p])
    OBVIOUS
  <1>1. /\ cin[p] # <<>> /\ cin' = [cin EXCEPT ![p] = Tail(@)]
        /\ UNCHANGED <<turn, hand, chosen, actor, seen, out, view, pressed, late, shown, at,
                       crashed>>
    BY DEF ReadMove
  <1>2. m \in Moves /\ m \in Mail /\ Tail(cin[p]) \in Seq(Moves) /\ aq[p] \in Seq(Mail)
    BY <1>0, <1>1, TypeFacts, FirstTaken DEF Mail
  <1>3. cin' \in [Players -> Seq(Moves)]
    BY <1>1, <1>2 DEF Typed, TypeOK
  <1>4. CASE Active(turn) = p
    <2>1. /\ move' = [move EXCEPT ![p] = m] /\ pc' = [pc EXCEPT ![p] = "w_move"]
          /\ aq' = [aq EXCEPT ![p] = Append(@, m)]
      BY <1>0, <1>4 DEF ReadMove
    <2>2. Append(aq[p], m) \in Seq(Mail)
      BY <1>2, LastSent
    <2>3. aq' \in [Players -> Seq(Mail)]
      BY <2>1, <2>2 DEF Typed, TypeOK, Mail
    <2>4. m.kind \in {"SelectAbility", "AttachMonster"} => m.card \in Ranks \cup Monsters
      BY <1>2 DEF Moves, Wait
    <2>5. /\ move' \in [Players -> Moves] /\ pc' \in [Players -> {"read", "w_move", "answer"}]
          /\ \A r \in Players : move'[r].kind \in {"SelectAbility", "AttachMonster"}
                                  => move'[r].card \in Ranks \cup Monsters
      BY <1>2, <2>1, <2>4 DEF Typed, TypeOK
    <2> QED  BY <1>1, <1>3, <2>3, <2>5 DEF Typed, TypeOK, Mail
  <1>5. CASE Active(turn) # p
    <2>1. move' = move /\ aq' = aq /\ pc' = [pc EXCEPT ![p] = "answer"]
      BY <1>5 DEF ReadMove
    <2>2. pc' \in [Players -> {"read", "w_move", "answer"}]
      BY <2>1 DEF Typed, TypeOK
    <2> QED  BY <1>1, <1>3, <2>1, <2>2 DEF Typed, TypeOK
  <1> QED  BY <1>4, <1>5

(* Only an attack or a selected ability comes back to the client. *)
LEMMA ResultTyped ==
  ASSUME Typed, NEW p \in Players
  PROVE  \E m \in ToClient : /\ m.msg = "Accepted"
                             /\ Results(p) # <<>> => Results(p) = <<m>>
  <1>1. CASE move[p].kind \in {"SelectAbility", "AttachMonster"}
    <2>1. Accepted(move[p]) \in ToClient
      BY <1>1 DEF Typed, Accepted, ToClient, Phases
    <2> QED  BY <1>1, <2>1 DEF Results, Accepted
  <1>2. CASE move[p].kind \notin {"SelectAbility", "AttachMonster"}
    <2>1. [msg |-> "Accepted", kind |-> "Defend", card |-> 0] \in ToClient
      BY ConstantFacts DEF ToClient, Phases, Ranks
    <2> QED  BY <1>2, <2>1 DEF Results
  <1> QED  BY <1>1, <1>2

LEMMA EndOfTurnTyped ==
  ASSUME Typed, NEW p \in Players, EndOfTurn(p) PROVE Typed'
  <1>1. PICK m \in ToClient : Results(p) # <<>> => Results(p) = <<m>>
    BY ResultTyped
  <1>2. /\ pc' = [pc EXCEPT ![p] = "read"] /\ move' = [move EXCEPT ![p] = NoMove]
        /\ out' = [out EXCEPT ![p] = @ \o Results(p)]
        /\ aq' = [q \in Players |-> Append(aq[q], Sync)]
        /\ UNCHANGED <<turn, hand, chosen, actor, seen, clientVars, crashed>>
    BY DEF EndOfTurn, Synced
  <1>3. out[p] \in Seq(ToClient) /\ Sync \in Mail /\ \A r \in Players : aq[r] \in Seq(Mail)
    BY TypeFacts DEF Mail, Sync
  <1>4. out[p] \o Results(p) \in Seq(ToClient)
    <2>1. out[p] \o <<>> \in Seq(ToClient) /\ out[p] \o <<m>> \in Seq(ToClient)
      BY <1>3
    <2> QED  BY <1>1, <2>1
  <1>5. out' \in [Players -> Seq(ToClient)]
    BY <1>2, <1>4 DEF Typed, TypeOK
  <1>6. aq' \in [Players -> Seq(Mail)]
    BY <1>2, <1>3, LastSent
  <1>7. NoMove \in Moves /\ NoMove.kind = "Wait"
    BY DEF NoMove, MoveMsg, Moves, Wait
  <1>8. move' \in [Players -> Moves]
        /\ \A r \in Players : move'[r].kind \in {"SelectAbility", "AttachMonster"}
                                => move'[r].card \in Ranks \cup Monsters
    BY <1>2, <1>7 DEF Typed, TypeOK
  <1>9. pc' \in [Players -> {"read", "w_move", "answer"}]
    BY <1>2 DEF Typed, TypeOK
  <1> QED  BY <1>2, <1>5, <1>6, <1>8, <1>9 DEF Typed, TypeOK, Mail, clientVars

LEMMA ForwardTyped ==
  ASSUME Typed, NEW p \in Players, ForwardTcp(p) PROVE Typed'
  <1> DEFINE m == Head(aq[p])
  <1>1. aq[p] \in Seq(Mail) /\ aq[p] # <<>> /\ m.msg = "Turn"
        /\ m \in Mail /\ Tail(aq[p]) \in Seq(Mail) /\ out[p] \in Seq(ToClient)
    BY TypeFacts, FirstTaken DEF ForwardTcp, Takes
  <1>2. m \in ToClient
    BY <1>1 DEF Mail, Moves
  <1>3. /\ aq' = [aq EXCEPT ![p] = Tail(@)] /\ out' = [out EXCEPT ![p] = Append(@, m)]
        /\ UNCHANGED <<turn, hand, chosen, actor, seen, connVars, clientVars, crashed>>
    BY DEF ForwardTcp
  <1> HIDE DEF m
  <1>4. aq' \in [Players -> Seq(Mail)]
    BY <1>1, <1>3 DEF Typed, TypeOK, Mail
  <1>5. out' \in [Players -> Seq(ToClient)]
    BY <1>1, <1>2, <1>3, LastSent DEF Typed, TypeOK
  <1> QED  BY <1>3, <1>4, <1>5 DEF Typed, TypeOK, Mail, connVars, clientVars

LEMMA SwitchTyped ==
  ASSUME Typed, NEW p \in Players, NEW q \in [Players -> Seq(Mail)],
         SwitchToNext(p, turn, q),
         hand' \in [Players -> Hand!Window(RankCount)],
         chosen' \in [Players -> Ranks \cup {None}]
  PROVE  Typed'
  <1>1. /\ turn' = SwitchToNextPlayer(turn)
        /\ aq' = [r \in Players |-> Append(q[r], TurnMsg(StatusOf(turn', r)))]
        /\ pc' = [pc EXCEPT ![p] = "answer"] /\ actor' = [actor EXCEPT ![p] = "idle"]
        /\ UNCHANGED <<seen, move, out, clientVars, crashed>>
    BY DEF SwitchToNext
  <1>2. turn' \in Turn /\ turn'.phase \in Phases /\ HasActive(turn)'
    BY <1>1, SwitchFacts DEF Typed, TypeOK, Turn
  <1>3. \A r \in Players : TurnMsg(StatusOf(turn', r)) \in Mail
    BY <1>2 DEF TurnMsg, StatusOf, Mail, ToClient, Statuses
  <1>4. aq' \in [Players -> Seq(Mail)]
    BY <1>1, <1>3, LastSent
  <1>5. /\ pc' \in [Players -> {"read", "w_move", "answer"}]
        /\ actor' \in [Players -> {"idle", "attacked", "syncing"}]
    BY <1>1 DEF Typed, TypeOK
  <1> QED  BY <1>1, <1>2, <1>4, <1>5 DEF Typed, TypeOK, Mail, clientVars

(* The mailboxes when a move has been taken. *)
LEMMA RestFacts ==
  ASSUME Typed, NEW p \in Players, Tail(aq[p]) \in Seq(Mail)
  PROVE  /\ Rest(p) \in [Players -> Seq(Mail)] /\ Rest(p)[p] = Tail(aq[p])
         /\ \A r \in Players : r # p => Rest(p)[r] = aq[r]
  BY DEF Rest, Typed, TypeOK, Mail

(* A move in a mailbox carries a card of the deck it is about. *)
LEMMA TakenTyped ==
  ASSUME Typed, NEW p \in Players, NEW kind, TakesMove(p, kind)
  PROVE  /\ Tail(aq[p]) \in Seq(Mail) /\ Rest(p) \in [Players -> Seq(Mail)]
         /\ kind \in {"DropAbility", "SelectAbility"} => CardOf(p) \in Ranks
         /\ kind = "AttachMonster" => CardOf(p) \in Monsters
  <1> DEFINE m == Head(aq[p])
  <1>1. m \in Mail /\ m.msg = "Move" /\ m.kind = kind /\ Tail(aq[p]) \in Seq(Mail)
    BY TypeFacts, FirstTaken DEF TakesMove, Takes
  <1>2. m \in Moves
    BY <1>1 DEF Mail, ToClient
  <1> HIDE DEF m
  <1>3. /\ kind \in {"DropAbility", "SelectAbility"} => m.card \in Ranks
        /\ kind = "AttachMonster" => m.card \in Monsters
    BY <1>1, <1>2 DEF Moves, Wait
  <1> QED  BY <1>1, <1>3, RestFacts DEF CardOf, m

LEMMA DropAbilityTyped ==
  ASSUME Typed, NEW p \in Players, DropAbility(p) PROVE Typed'
  <1>1. Rest(p) \in [Players -> Seq(Mail)] /\ CardOf(p) \in Ranks
    BY TakenTyped DEF DropAbility
  <1>2. CASE Hand!AlreadyNotActive(hand[p], CardOf(p))
    BY <1>2, StopTyped DEF DropAbility
  <1>3. CASE ~ Hand!AlreadyNotActive(hand[p], CardOf(p))
    <2>1. hand' = [hand EXCEPT ![p] = Hand!DeactivateByIndex(@, CardOf(p))]
          /\ SwitchToNext(p, turn, Rest(p)) /\ chosen' = chosen
      BY <1>3 DEF DropAbility
    <2>2. Hand!DeactivateByIndex(hand[p], CardOf(p)) \in Hand!Window(RankCount)
      BY <1>1, <1>3, HandDrop, TypeFacts
    <2>3. /\ hand' \in [Players -> Hand!Window(RankCount)]
          /\ chosen' \in [Players -> Ranks \cup {None}]
      BY <2>1, <2>2 DEF Typed, TypeOK
    <2> QED  BY <1>1, <2>1, <2>3, SwitchTyped
  <1> QED  BY <1>2, <1>3

LEMMA SelectAbilityTyped ==
  ASSUME Typed, NEW p \in Players, SelectAbility(p) PROVE Typed'
  <1>1. Rest(p) \in [Players -> Seq(Mail)] /\ CardOf(p) \in Ranks
    BY TakenTyped DEF SelectAbility
  <1>2. chosen' = [chosen EXCEPT ![p] = CardOf(p)] /\ SwitchToNext(p, turn, Rest(p))
        /\ hand' = hand
    BY DEF SelectAbility
  <1>3. /\ hand' \in [Players -> Hand!Window(RankCount)]
        /\ chosen' \in [Players -> Ranks \cup {None}]
    BY <1>1, <1>2 DEF Typed, TypeOK
  <1> QED  BY <1>1, <1>2, <1>3, SwitchTyped

LEMMA AttackTyped ==
  ASSUME Typed, NEW p \in Players, Attack(p) PROVE Typed'
  <1>1. Rest(p) \in [Players -> Seq(Mail)] /\ CardOf(p) \in Monsters
    BY TakenTyped DEF Attack
  <1>2. CASE Stop("actor")
    BY <1>2, StopTyped
  <1>3. CASE ~ Stop("actor")
    <2>1. /\ ~ Line!AlreadyNotActive(turn.monsters, CardOf(p))
          /\ turn' = [turn EXCEPT !.monsters = Line!DeactivateByIndex(@, CardOf(p))]
          /\ actor' = [actor EXCEPT ![p] = "attacked"] /\ aq' = Rest(p)
          /\ UNCHANGED <<hand, chosen, seen, connVars, out, clientVars, crashed>>
      BY <1>3 DEF Attack
    <2>2. Line!DeactivateByIndex(turn.monsters, CardOf(p)) \in Line!Window(DeckSize)
      BY <1>1, <2>1, LineDrop, TypeFacts
    <2>3. turn' \in Turn /\ turn'.peers = turn.peers
      BY <2>1, <2>2, TypeFacts DEF Turn
    <2>4. HasActive(turn)' /\ actor' \in [Players -> {"idle", "attacked", "syncing"}]
      BY <2>1, <2>3 DEF Typed, TypeOK, HasActive
    <2> QED  BY <1>1, <2>1, <2>3, <2>4 DEF Typed, TypeOK, Mail, connVars, clientVars
  <1> QED  BY <1>2, <1>3

LEMMA EndAttackTyped ==
  ASSUME Typed, NEW p \in Players, EndAttack(p) PROVE Typed'
  <1>1. SwitchToNext(p, turn, aq) /\ hand' = hand /\ chosen' = chosen
    BY DEF EndAttack
  <1>2. /\ aq \in [Players -> Seq(Mail)] /\ hand' \in [Players -> Hand!Window(RankCount)]
        /\ chosen' \in [Players -> Ranks \cup {None}]
    BY <1>1 DEF Typed, TypeOK, Mail
  <1> QED  BY <1>1, <1>2, SwitchTyped

LEMMA ContinueTyped ==
  ASSUME Typed, NEW p \in Players, ContinueGame(p) PROVE Typed'
  <1>1. Rest(p) \in [Players -> Seq(Mail)]
    BY TakenTyped DEF ContinueGame
  <1>2. hand' = [hand EXCEPT ![p] = Hand!NextActives(@, RankCount)]
        /\ SwitchToNext(p, turn, Rest(p)) /\ chosen' = chosen
    BY DEF ContinueGame
  <1>3. Hand!NextActives(hand[p], RankCount) \in Hand!Window(RankCount)
    BY HandDeal, TypeFacts
  <1>4. /\ hand' \in [Players -> Hand!Window(RankCount)]
        /\ chosen' \in [Players -> Ranks \cup {None}]
    BY <1>2, <1>3 DEF Typed, TypeOK
  <1> QED  BY <1>1, <1>2, <1>4, SwitchTyped

LEMMA StartSyncTyped ==
  ASSUME Typed, NEW p \in Players, StartSync(p) PROVE Typed'
  <1>1. /\ aq[p] # <<>> /\ aq' = [aq EXCEPT ![p] = Tail(aq[p])]
        /\ actor' = [actor EXCEPT ![p] = "syncing"]
        /\ seen' = [seen EXCEPT ![p] = Items(turn.monsters)]
        /\ UNCHANGED <<turn, hand, chosen, connVars, out, clientVars, crashed>>
    BY DEF StartSync, Takes, Rest
  <1>2. Tail(aq[p]) \in Seq(Mail)
    BY <1>1, TypeFacts, FirstTaken
  <1>3. Items(turn.monsters) \in [Line!Slots -> Monsters \cup {None}]
    BY ItemsOf, TypeFacts
  <1>4. aq' \in [Players -> Seq(Mail)]
    BY <1>1, <1>2 DEF Typed, TypeOK, Mail
  <1>5. /\ actor' \in [Players -> {"idle", "attacked", "syncing"}]
        /\ seen' \in [Players -> [Line!Slots -> Monsters \cup {None}]]
    BY <1>1, <1>3 DEF Typed, TypeOK
  <1> QED  BY <1>1, <1>4, <1>5 DEF Typed, TypeOK, Mail, connVars, clientVars

LEMMA EndSyncTyped ==
  ASSUME Typed, NEW p \in Players, EndSync(p) PROVE Typed'
  <1> DEFINE m == Update([hand |-> Items(hand[p]), monsters |-> seen[p]])
  <1>1. /\ actor' = [actor EXCEPT ![p] = "idle"] /\ seen' = [seen EXCEPT ![p] = Unseen]
        /\ out' = [out EXCEPT ![p] = Append(@, m)]
        /\ UNCHANGED <<turn, hand, chosen, aq, connVars, clientVars, crashed>>
    BY DEF EndSync
  <1>2. m.cards \in Shown /\ m.cards = [hand |-> Items(hand[p]), monsters |-> seen[p]]
    BY TypeFacts, ItemsOf DEF Update, Shown
  <1>3. m \in ToClient
    BY <1>2 DEF Update, ToClient
  <1> HIDE DEF m
  <1>4. out' \in [Players -> Seq(ToClient)]
    BY <1>1, <1>3, LastSent DEF Typed, TypeOK
  <1>5. /\ actor' \in [Players -> {"idle", "attacked", "syncing"}]
        /\ seen' \in [Players -> [Line!Slots -> Monsters \cup {None}]]
    BY <1>1 DEF Typed, TypeOK, Unseen
  <1> QED  BY <1>1, <1>4, <1>5 DEF Typed, TypeOK, connVars, clientVars

LEMMA TypedStep == ASSUME Typed, [Next]_vars PROVE Typed'
  <1>1. ASSUME UNCHANGED vars PROVE Typed'
    BY <1>1 DEF vars, Typed, TypeOK, serverVars, connVars, clientVars
  <1>2. ASSUME NEW p \in Players, Client(p) PROVE Typed'
    BY <1>2, CursorTyped, ConfirmTyped, ReceiveTyped DEF Client
  <1>3. ASSUME NEW p \in Players, ServerSide(p) PROVE Typed'
    BY <1>3, ReadMoveTyped, EndOfTurnTyped, ForwardTyped, DropAbilityTyped,
       SelectAbilityTyped, AttackTyped, EndAttackTyped, ContinueTyped, StartSyncTyped,
       EndSyncTyped DEF ServerSide
  <1> QED  BY <1>1, <1>2, <1>3 DEF Next

(* Late keys stay counted: a run in which nothing is late now had nothing late *)
(* before.                                                                 *)
LEMMA LateGrows ==
  ASSUME Typed, [Next]_vars
  PROVE  (OnceEach' => OnceEach) /\ (KeysFirst' => KeysFirst)
  <1>1. CASE late' = late
    BY <1>1 DEF OnceEach, KeysFirst
  <1>2. ASSUME NEW p \in Players, NEW key \in {"confirm", "cursor"}, MayPress(p, key),
               late' = Counted(p, key)
        PROVE  (OnceEach' => OnceEach) /\ (KeysFirst' => KeysFirst)
    <2>1. late \in [confirm : 0 .. LateConfirms, cursor : 0 .. LateKeys]
          /\ LateConfirms \in Nat /\ LateKeys \in Nat
      BY CardAssumption DEF Typed, TypeOK
    <2>2. late'.confirm >= late.confirm /\ late'.cursor >= late.cursor
      BY <1>2, CountedTyped
    <2> QED  BY <2>1, <2>2 DEF OnceEach, KeysFirst
  <1>3. ASSUME NEW p \in Players, MoveCursor(p), late' # late
        PROVE  MayPress(p, "cursor") /\ late' = Counted(p, "cursor")
    BY <1>3 DEF MoveCursor, Stop, clientVars
  <1>4. ASSUME NEW p \in Players, ConfirmSelected(p), late' # late
        PROVE  MayPress(p, "confirm") /\ late' = Counted(p, "confirm")
    BY <1>4 DEF ConfirmSelected, Send, Stop, clientVars
  <1>5. ASSUME NEW p \in Players, ReceiveMessage(p) PROVE late' = late
    BY <1>5 DEF ReceiveMessage, Stop, clientVars
  <1>6. ASSUME NEW p \in Players, ServerSide(p) PROVE late' = late
    BY <1>6 DEF ServerSide, ReadMove, EndOfTurn, ForwardTcp, DropAbility, SelectAbility,
                Attack, EndAttack, ContinueGame, StartSync, EndSync, SwitchToNext, Stop,
                clientVars
  <1>7. ASSUME NEW p \in Players, Client(p)
        PROVE  (OnceEach' => OnceEach) /\ (KeysFirst' => KeysFirst)
    BY <1>1, <1>2, <1>3, <1>4, <1>5, <1>7 DEF Client
  <1>8. CASE UNCHANGED vars
    BY <1>1, <1>8 DEF vars, clientVars
  <1> QED  BY <1>1, <1>6, <1>7, <1>8 DEF Next

-------------------------------------------------------------------------------
(* Who has no part in a step.                                              *)

(* What a player's part of the invariant is about, but for the turn: what it  *)
(* shows and will show, and where its token is.                            *)
SameShown(p) ==
  /\ hand'[p] = hand[p] /\ chosen'[p] = chosen[p] /\ aq'[p] = aq[p]
  /\ actor'[p] = actor[p] /\ seen'[p] = seen[p] /\ out'[p] = out[p]
  /\ shown'[p] = shown[p]
Same(p) ==
  /\ SameShown(p) /\ pc'[p] = pc[p]
  /\ cin'[p] = cin[p] /\ view'[p] = view[p] /\ pressed'[p] = pressed[p]

(* What is good stays good while the places of the monsters and the hand stay,*)
(* and no monster comes to the table.                                      *)
SameTable ==
  /\ \A s \in Line!Slots : turn'.monsters[s].at = turn.monsters[s].at
  /\ NoneOn(turn.monsters) => NoneOn(turn'.monsters)

LEMMA FreshKept ==
  ASSUME Typed, NEW p \in Players, hand'[p] = hand[p], out'[p] = out[p], shown'[p] = shown[p],
         SameTable,
         actor'[p] = "syncing" => \/ actor[p] = "syncing" /\ seen'[p] = seen[p]
                                  \/ seen'[p] = Items(turn.monsters)
  PROVE  /\ \A items : OnTable(items) => OnTable(items)'
         /\ AllGood(p) => AllGood(p)'
         /\ \A i : FreshBefore(p, i) => FreshBefore(p, i)'
         /\ Fresh(p) => Fresh(p)'
  <1>1. /\ \A items : OnTable(items) => OnTable(items)'
        /\ \A c : Good(p, c) => Good(p, c)'
    BY DEF Good, OnTable, SameTable
  <1>2. \A i, c : GoodAt(p, i, c) => GoodAt(p, i, c)'
    <2>1. NoneOn(turn.monsters) => Empty(Items(turn.monsters))
      BY TypeFacts, EmptyItems
    <2>2. \A i : NoneOn(turn.monsters) /\ StaysEmpty(p, i) => StaysEmpty(p, i)'
      BY <2>1 DEF StaysEmpty
    <2>3. \A c : Good(p, c) /\ Empty(c.monsters) => NoneOn(turn.monsters)
      BY DEF Good, OnTable
    <2> QED  BY <1>1, <2>2, <2>3 DEF GoodAt
  <1>3. \A k : GoodFrom(p, k) => GoodFrom(p, k)'
    BY <1>2 DEF GoodFrom
  <1>4. AllGood(p) => AllGood(p)'
    BY <1>2, <1>3 DEF AllGood
  <1>5. \A i : FreshBefore(p, i) => FreshBefore(p, i)'
    BY <1>3, <1>4 DEF FreshBefore
  <1>6. Fresh(p) => Fresh(p)'
    BY <1>5 DEF Fresh
  <1> QED  BY <1>1, <1>4, <1>5, <1>6

LEMMA FreshStaysInPhase ==
  ASSUME Typed, NEW p \in Players, FreshInTime(p), SameShown(p),
         turn'.phase = turn.phase, Active(turn)' = Active(turn), SameTable,
         pc[p] = "answer" => pc'[p] = "answer"
  PROVE  FreshInTime(p)'
  <1>1. /\ \A items : OnTable(items) => OnTable(items)'
        /\ AllGood(p) => AllGood(p)'
        /\ \A i : FreshBefore(p, i) => FreshBefore(p, i)'
        /\ Fresh(p) => Fresh(p)'
    BY FreshKept DEF SameShown
  <1>2. (NoTurns(p)' <=> NoTurns(p)) /\ (SyncFirst(p)' <=> SyncFirst(p))
    BY DEF NoTurns, SyncFirst, SameShown
  <1>3. /\ Discarded(p)' <=> Discarded(p)
        /\ Attacked(p)' <=> Attacked(p)
        /\ Attacks(p)' <=> Attacks(p)
    BY DEF Discarded, Attacked, Attacks
  <1> QED  BY <1>1, <1>2, <1>3 DEF FreshInTime, SameShown

LEMMA FreshStays ==
  ASSUME Typed, NEW p \in Players, FreshInTime(p), SameShown(p), turn' = turn,
         pc[p] = "answer" => pc'[p] = "answer"
  PROVE  FreshInTime(p)'
  <1>1. Active(turn)' = Active(turn) /\ SameTable
    BY DEF SameTable
  <1> QED  BY <1>1, FreshStaysInPhase

LEMMA Untouched ==
  ASSUME Typed, NEW p \in Players, Parts(p), Same(p), turn' = turn
  PROVE  Parts(p)'
  <1> USE DEF Same
  <1>1. HasTurn(p)'
    BY DEF Parts, HasTurn, NotHeld, Held, InMailbox, OnTheWay, AtClient, Played, AtActor,
           Attacking, NoMoves, NoTurns, Chose, MoveAt, Playable, SameShown
  <1>2. WaitComes(p)' /\ Dealt(p)' /\ HandShown(p)'
    BY DEF Parts, WaitComes, Dealt, ToBeFull, HandShown, FromHand, SameShown
  <1>3. FreshInTime(p)'
    BY FreshStays DEF Parts
  <1> QED  BY <1>1, <1>2, <1>3 DEF Parts

Busy == \E q \in Players : pc[q] = "answer" \/ actor[q] = "attacked"

LEMMA StillComes ==
  ASSUME NEW p \in Players, CurrentComes(p), SameShown(p), turn' = turn, Busy => Busy'
  PROVE  CurrentComes(p)'
  BY DEF CurrentComes, Busy, SameShown, LastIsCurrent, Current

(* A step in which nothing moves but a cursor. *)
LEMMA OnlyCursors ==
  ASSUME IInv, UNCHANGED <<serverVars, pc, out, cin, view, pressed, shown>>,
         Typed', crashed' # "actor"
  PROVE  IInv'
  <1>1. turn' = turn /\ (Busy => Busy') /\ \A p \in Players : Same(p)
    BY DEF serverVars, Same, SameShown, Busy
  <1>2. \A p \in Players : Parts(p)' /\ CurrentComes(p)'
    BY <1>1, Untouched, StillComes DEF IInv, Same
  <1> QED  BY <1>2 DEF IInv

LEMMA StopStep ==
  ASSUME IInv, NEW what \in {"client"}, Stop(what)
  PROVE  IInv'
  <1>1. Typed'
    BY StopTyped DEF IInv
  <1> QED  BY <1>1, OnlyCursors DEF Stop, connVars, clientVars

-------------------------------------------------------------------------------
(* The keys.                                                               *)

LEMMA MoveCursorStep ==
  ASSUME IInv, NEW p \in Players, MoveCursor(p) PROVE IInv'
  <1>1. CASE Stop("client")
    BY <1>1, StopStep
  <1>2. CASE crashed' = crashed
    <2>1. UNCHANGED <<serverVars, connVars, out, cin, view, pressed, shown, crashed>>
      BY <1>2, CursorFacts DEF IInv
    <2>2. Typed'
      BY CursorTyped DEF IInv
    <2> QED  BY <2>1, <2>2, OnlyCursors DEF IInv, serverVars, connVars
  <1> QED  BY <1>1, <1>2 DEF MoveCursor

(* A client that chooses has the turn, and shows what it can play. *)
LEMMA ChoiceFacts ==
  ASSUME IInv, NEW p \in Players, view[p] \in Phases, ~ pressed[p]
  PROVE  /\ p = Active(turn) /\ AtClient(p) /\ view[p] = turn.phase
         /\ \A card : (view[p] = "Defend" /\ card = None) 
                      \/ (view[p] # "Defend"
                          /\ OnItem(shown[p][ListFor(view[p])], at[p][ListFor(view[p])])
                          /\ card = shown[p][ListFor(view[p])][at[p][ListFor(view[p])]])
              => Playable(p, MoveMsg(view[p], card)) /\ MoveMsg(view[p], card) \in Moves
  <1>1. Parts(p) /\ ~ Chose(p)
    BY TypeFacts DEF IInv, Chose
  <1>2. p = Active(turn) /\ AtClient(p) /\ view[p] = turn.phase
    BY <1>1 DEF Parts, HasTurn, Held, NotHeld, InMailbox, OnTheWay, AtClient, Played, AtActor,
                Attacking
  <1>3. CASE view[p] = "Defend"
    BY <1>2, <1>3 DEF Playable, MoveMsg, Moves, Phases
  <1>4. ASSUME view[p] # "Defend",
               OnItem(shown[p][ListFor(view[p])], at[p][ListFor(view[p])])
        PROVE  LET card == shown[p][ListFor(view[p])][at[p][ListFor(view[p])]]
               IN  Playable(p, MoveMsg(view[p], card)) /\ MoveMsg(view[p], card) \in Moves
    <2>1. CASE view[p] = "AttachMonster"
      <3> DEFINE s == at[p].monsters
                 card == shown[p].monsters[s]
      <3>1. s \in Line!Slots /\ card # None /\ card \in Monsters
        BY <1>4, <2>1, TypeFacts DEF IInv, ListFor, OnItem, Shown
      <3>2. OnTable(shown[p].monsters)
        BY <1>1, <1>2, <2>1 DEF Parts, FreshInTime, Attacks, AtClient, AllGood, GoodAt, Good
      <3>3. card = turn.monsters[s].at
        BY <3>1, <3>2 DEF OnTable
      <3>4. card \in Places(turn.monsters)
        BY <3>1, <3>3, TypeFacts DEF Places, Line!Window, IInv
      <3> QED  BY <1>2, <2>1, <3>1, <3>4 DEF Playable, MoveMsg, Moves, Phases, ListFor
    <2>2. CASE view[p] # "AttachMonster"
      <3> DEFINE s == at[p].hand
                 card == shown[p].hand[s]
      <3>1. s \in Hand!Slots /\ card # None /\ card \in Ranks
        BY <1>4, <2>2, TypeFacts DEF IInv, ListFor, OnItem, Shown
      <3>2. card = hand[p][s].at
        BY <1>1, <3>1 DEF Parts, HandShown, FromHand
      <3>3. card \in Places(hand[p])
        BY <3>1, <3>2, TypeFacts DEF Places, Hand!Window, IInv
      <3> QED  BY <1>2, <1>4, <2>2, <3>1, <3>3 DEF Playable, MoveMsg, Moves, Phases, ListFor
    <2> QED  BY <2>1, <2>2
  <1> QED  BY <1>2, <1>3, <1>4

LEMMA ConfirmStep ==
  ASSUME IInv, NEW p \in Players, ConfirmSelected(p), OnceEach' PROVE IInv'
  <1>1. CASE Stop("client")
    BY <1>1, StopStep
  <1>2. ASSUME NEW m \in Moves, NEW card, m = MoveMsg(view[p], card), Send(p, card),
               Playable(p, m)
        PROVE  IInv'
    <2>0. /\ late' = Counted(p, "confirm") /\ ~ pressed[p]
          /\ late' \in [confirm : 0 .. LateConfirms, cursor : 0 .. LateKeys]
      <3>1. late' = Counted(p, "confirm") /\ MayPress(p, "confirm") /\ late'.confirm = 0
        BY <1>2 DEF ConfirmSelected, Send, OnceEach
      <3> QED  BY <3>1, CountedTyped, TypeFacts DEF IInv
    <2>1. p = Active(turn) /\ AtClient(p)
      BY <2>0, ChoiceFacts DEF ConfirmSelected
    <2>2. cin[p] = <<>> /\ cin' = [cin EXCEPT ![p] = Append(@, m)]
          /\ pressed' = [pressed EXCEPT ![p] = TRUE]
          /\ UNCHANGED <<serverVars, connVars, out, view, shown, at, crashed>>
      BY <1>2, <2>1 DEF Send, AtClient, NoMoves
    <2>3. cin'[p] = <<m>>
      BY <2>2 DEF IInv, Typed, TypeOK
    <2>4. Typed'
      BY ConfirmTyped DEF IInv
    <2>5. turn' = turn /\ (Busy => Busy') /\ \A r \in Players : SameShown(r) /\ pc'[r] = pc[r]
      BY <2>2 DEF serverVars, connVars, SameShown, Busy
    <2>6. \A r \in Players \ {p} : Same(r)
      BY <2>2, <2>5 DEF Same, IInv, Typed, TypeOK
    <2>7. HasTurn(p)'
      <3>1. pressed'[p] /\ Playable(p, m)'
        <4>1. pressed'[p]
          BY <2>2 DEF IInv, Typed, TypeOK
        <4>2. Playable(p, m)'
          BY <1>2, <2>5 DEF Playable, SameShown
        <4> QED  BY <4>1, <4>2
      <3>2. Played(p)'
        BY <2>1, <2>3, <2>5, <3>1 DEF Played, AtClient, NoTurns, NoMoves, Chose, SameShown
      <3> QED  BY <2>1, <2>5, <3>2 DEF HasTurn, Held
    <2>8. Parts(p)'
      <3>1. WaitComes(p)' /\ Dealt(p)' /\ HandShown(p)'
        BY <2>1, <2>5 DEF IInv, Parts, WaitComes, Dealt, ToBeFull, HandShown, FromHand, SameShown
      <3>2. FreshInTime(p)'
        BY <2>5, FreshStays DEF IInv, Parts
      <3> QED  BY <2>7, <3>1, <3>2 DEF Parts
    <2>9. \A r \in Players : Parts(r)' /\ CurrentComes(r)'
      BY <2>5, <2>6, <2>8, Untouched, StillComes DEF IInv
    <2> QED  BY <2>2, <2>4, <2>9 DEF IInv
  <1>3. ASSUME NEW card, Send(p, card),
               \/ view[p] = "Defend" /\ card = None
               \/ /\ view[p] # "Defend"
                  /\ OnItem(shown[p][ListFor(view[p])], at[p][ListFor(view[p])])
                  /\ card = shown[p][ListFor(view[p])][at[p][ListFor(view[p])]]
        PROVE  IInv'
    <2>1. view[p] \in Phases /\ MayPress(p, "confirm")
      BY DEF ConfirmSelected
    <2>2. ~ pressed[p]
      BY <1>3, <2>1, CountedTyped DEF Send, OnceEach, IInv
    <2>3. Playable(p, MoveMsg(view[p], card)) /\ MoveMsg(view[p], card) \in Moves
      BY <1>3, <2>1, <2>2, ChoiceFacts
    <2> QED  BY <1>2, <1>3, <2>3
  <1>4. CASE view[p] = "Defend" /\ Send(p, None)
    BY <1>3, <1>4
  <1>5. CASE /\ view[p] # "Defend"
             /\ OnItem(shown[p][ListFor(view[p])], at[p][ListFor(view[p])])
             /\ Send(p, shown[p][ListFor(view[p])][at[p][ListFor(view[p])]])
    BY <1>3, <1>5
  <1> QED  BY <1>1, <1>4, <1>5 DEF ConfirmSelected

-------------------------------------------------------------------------------
(* A client receives.                                                      *)

LEMMA OutTaken ==
  ASSUME Typed, NEW p \in Players, out[p] # <<>>, out'[p] = Tail(out[p]), turn' = turn,
         hand'[p] = hand[p], actor'[p] = actor[p], seen'[p] = seen[p],
         shown'[p] = IF Head(out[p]).msg = "UpdateGameData" THEN Head(out[p]).cards
                                                            ELSE shown[p]
  PROVE  /\ AllGood(p) => AllGood(p)'
         /\ FreshBefore(p, 1) => AllGood(p)'
         /\ \A i \in 1 .. Len(out[p]) + 1 : FreshBefore(p, i) => FreshBefore(p, i - 1)'
         /\ Fresh(p) => Fresh(p)'
         /\ HandShown(p) => HandShown(p)'
         /\ LastIsCurrent(p) => LastIsCurrent(p)'
  <1> DEFINE q == out[p]
             t == out'[p]
  <1>1. q \in Seq(ToClient) /\ q # <<>>
    BY TypeFacts
  <1>2. /\ Head(q) = q[1] /\ Len(q) \in Nat /\ 1 \in 1 .. Len(q)
        /\ Len(t) = Len(q) - 1
        /\ \A i \in 1 .. Len(t) : i + 1 \in 1 .. Len(q) /\ t[i] = q[i + 1]
        /\ \A i \in 1 .. Len(q) : i = 1 \/ (i - 1 \in 1 .. Len(t) /\ t[i - 1] = q[i])
    BY <1>1, FirstTaken
  <1> HIDE DEF q, t
  <1>3. /\ \A c : \A i \in 1 .. Len(q), n \in Nat :
             n + 1 = i /\ GoodAt(p, i, c) => GoodAt(p, n, c)'
        /\ \A c : GoodAt(p, 0, c) => GoodAt(p, 0, c)'
    <2>1. \A c : Good(p, c)' <=> Good(p, c)
      BY DEF Good, OnTable
    <2>2. ASSUME NEW i \in 0 .. Len(q), StaysEmpty(p, i), NEW n \in Nat, n + 1 >= i
          PROVE  StaysEmpty(p, n)'
      <3>1. ASSUME NEW j \in 1 .. Len(t), j > n, t[j].msg = "UpdateGameData"
            PROVE  Empty(t[j].cards.monsters)
        <4>1. j + 1 \in 1 .. Len(q) /\ t[j] = q[j + 1] /\ j + 1 > i
          BY <1>2, <2>2, <3>1
        <4> QED  BY <2>2, <3>1, <4>1 DEF StaysEmpty, q
      <3> QED  BY <2>2, <3>1 DEF StaysEmpty, t
    <2>3. \A i \in 1 .. Len(q), n \in Nat : i \in 0 .. Len(q) /\ (n + 1 = i => n + 1 >= i)
      BY <1>2
    <2>4. 0 \in 0 .. Len(q) /\ 0 \in Nat /\ 0 + 1 >= 0
      BY <1>2
    <2> QED  BY <2>1, <2>2, <2>3, <2>4 DEF GoodAt
  <1>4. \A k \in 1 .. Len(q), n \in Nat : n + 1 = k /\ GoodFrom(p, k) => GoodFrom(p, n)'
    <2>1. ASSUME NEW k \in 1 .. Len(q), NEW n \in Nat, n + 1 = k, GoodFrom(p, k),
                 NEW j \in 1 .. Len(t), j >= n, t[j].msg = "UpdateGameData",
                 NEW c, c = t[j].cards
          PROVE  GoodAt(p, j, c)'
      <3>1. PICK i \in 1 .. Len(q) : i = j + 1 /\ t[j] = q[i] /\ i >= k /\ j \in Nat
        BY <1>2, <2>1
      <3>2. GoodAt(p, i, c)
        BY <2>1, <3>1 DEF GoodFrom, q
      <3> QED  BY <1>3, <3>1, <3>2
    <2>2. ASSUME NEW k \in 1 .. Len(q), NEW n \in Nat, n + 1 = k, GoodFrom(p, k)
          PROVE  GoodFrom(p, n)'
      BY <2>1, <2>2 DEF GoodFrom, t
    <2> QED  BY <2>2
  <1>5. ASSUME GoodFrom(p, 1), (shown'[p] = shown[p] /\ GoodAt(p, 0, shown[p]))
                               \/ Head(q).msg = "UpdateGameData"
        PROVE  AllGood(p)'
    <2>1. GoodFrom(p, 1)'
      <3>1. GoodFrom(p, 0)'
        BY <1>2, <1>4, <1>5
      <3> QED  BY <1>2, <3>1 DEF GoodFrom
    <2>2. GoodAt(p, 0, shown[p])'
      <3>1. CASE Head(q).msg = "UpdateGameData"
        <4>1. GoodAt(p, 1, Head(q).cards)
          BY <1>2, <1>5, <3>1 DEF GoodFrom, q
        <4>2. \A c : GoodAt(p, 1, c) => GoodAt(p, 0, c)'
          BY <1>2, <1>3
        <4>3. shown'[p] = Head(q).cards
          BY <3>1 DEF q
        <4> QED  BY <4>1, <4>2, <4>3
      <3>2. CASE Head(q).msg # "UpdateGameData"
        BY <1>3, <1>5, <3>2 DEF q
      <3> QED  BY <3>1, <3>2
    <2> QED  BY <2>1, <2>2 DEF AllGood
  <1>6. AllGood(p) => AllGood(p)'
    BY <1>5 DEF AllGood, q
  <1>7. ASSUME NEW i \in 1 .. Len(q) + 1, FreshBefore(p, i)
        PROVE  FreshBefore(p, i - 1)' /\ (i = 1 => AllGood(p)')
    <2>1. CASE AllGood(p)
      BY <1>6, <2>1 DEF FreshBefore
    <2>2. ASSUME NEW k \in 1 .. Len(q), k < i, q[k].msg = "UpdateGameData", GoodFrom(p, k)
          PROVE  FreshBefore(p, i - 1)' /\ i # 1
      <3>1. CASE k = 1
        BY <1>2, <1>5, <2>2, <3>1 DEF FreshBefore
      <3>2. CASE k # 1
        <4>1. k - 1 \in 1 .. Len(t) /\ t[k - 1].msg = "UpdateGameData" /\ k - 1 < i - 1
              /\ GoodFrom(p, k - 1)'
          BY <1>2, <1>4, <2>2, <3>2
        <4> QED  BY <2>2, <4>1 DEF FreshBefore, t
      <3> QED  BY <3>1, <3>2
    <2> QED  BY <1>7, <2>1, <2>2 DEF FreshBefore, q
  <1>8. Fresh(p) => Fresh(p)'
    <2>1. Len(q) + 1 \in 1 .. Len(q) + 1 /\ Len(q) + 1 - 1 = Len(t) + 1
      BY <1>2
    <2> QED  BY <1>7, <2>1 DEF Fresh, q, t
  <1>9. HandShown(p) => HandShown(p)'
    <2>1. \A c : FromHand(p, c)' <=> FromHand(p, c)
      BY DEF FromHand
    <2> QED  BY <1>2, <2>1 DEF HandShown, q, t
  <1>10. LastIsCurrent(p) => LastIsCurrent(p)'
    <2>1. Current(p)' = Current(p)
      BY DEF Current
    <2>2. CASE /\ shown[p] = Current(p)
               /\ \A i \in 1 .. Len(q) : q[i].msg # "UpdateGameData"
      BY <1>2, <2>1, <2>2 DEF LastIsCurrent, q, t
    <2>3. ASSUME NEW i \in 1 .. Len(q), q[i].msg = "UpdateGameData", q[i].cards = Current(p),
                 \A j \in 1 .. Len(q) : q[j].msg = "UpdateGameData" => j <= i
          PROVE  LastIsCurrent(p)'
      <3>1. CASE i = 1
        BY <1>2, <2>1, <2>3, <3>1 DEF LastIsCurrent, q, t
      <3>2. CASE i # 1
        <4>1. i - 1 \in 1 .. Len(t) /\ t[i - 1] = q[i]
          BY <1>2, <3>2
        <4>2. \A j \in 1 .. Len(t) : t[j].msg = "UpdateGameData" => j <= i - 1
          BY <1>2, <2>3
        <4> QED  BY <2>1, <2>3, <4>1, <4>2 DEF LastIsCurrent, t
      <3> QED  BY <3>1, <3>2
    <2> QED  BY <2>2, <2>3 DEF LastIsCurrent, q
  <1>11. FreshBefore(p, 1) => AllGood(p)'
    BY <1>2, <1>7
  <1> QED  BY <1>6, <1>7, <1>8, <1>9, <1>10, <1>11 DEF q

LEMMA ReceiveStep ==
  ASSUME IInv, NEW p \in Players, ReceiveMessage(p) PROVE IInv'
  <1> DEFINE q == out[p]
             m == Head(out[p])
  <1>1. CASE Stop("client")
    BY <1>1, StopStep
  <1>2. CASE ~ Stop("client")
    <2>1. /\ q # <<>> /\ out' = [out EXCEPT ![p] = Tail(@)]
          /\ view' = IF m.msg = "Turn" THEN [view EXCEPT ![p] = m.status] ELSE view
          /\ pressed' = IF m.msg = "Turn" THEN [pressed EXCEPT ![p] = FALSE] ELSE pressed
          /\ shown' = IF m.msg = "UpdateGameData" THEN [shown EXCEPT ![p] = m.cards] ELSE shown
          /\ UNCHANGED <<serverVars, connVars, cin, late, at, crashed>>
      BY <1>2 DEF ReceiveMessage
    <2>2. q \in Seq(ToClient) /\ m \in ToClient /\ m = q[1] /\ Tail(q) \in Seq(ToClient)
          /\ 1 \in 1 .. Len(q) /\ Len(q) \in Nat
      BY <2>1, TypeFacts, FirstTaken DEF IInv
    <2>3. /\ m.msg = "Turn" => m.status \in Statuses
          /\ m.msg = "UpdateGameData" => m.cards \in Shown
      BY <2>2 DEF ToClient
    <2>4. /\ out' \in [Players -> Seq(ToClient)] /\ out'[p] = Tail(q)
          /\ view' \in [Players -> Statuses]
          /\ view'[p] = IF m.msg = "Turn" THEN m.status ELSE view[p]
          /\ pressed' \in [Players -> BOOLEAN]
          /\ pressed'[p] = IF m.msg = "Turn" THEN FALSE ELSE pressed[p]
          /\ shown' \in [Players -> Shown]
          /\ shown'[p] = IF m.msg = "UpdateGameData" THEN m.cards ELSE shown[p]
      BY <2>1, <2>2, <2>3 DEF IInv, Typed, TypeOK
    <2>5. Typed'
      BY ReceiveTyped DEF IInv
    <2>6. /\ turn' = turn /\ (Busy => Busy')
          /\ \A r \in Players \ {p} : Same(r)
          /\ hand'[p] = hand[p] /\ chosen'[p] = chosen[p] /\ aq'[p] = aq[p]
          /\ actor'[p] = actor[p] /\ seen'[p] = seen[p] /\ pc'[p] = pc[p] /\ cin'[p] = cin[p]
      BY <2>1 DEF serverVars, connVars, Same, SameShown, Busy, IInv, Typed, TypeOK
    <2> HIDE DEF q, m
    <2>7. /\ AllGood(p) => AllGood(p)'
          /\ FreshBefore(p, 1) => AllGood(p)'
          /\ \A i \in 1 .. Len(q) + 1 : FreshBefore(p, i) => FreshBefore(p, i - 1)'
          /\ Fresh(p) => Fresh(p)'
          /\ HandShown(p) => HandShown(p)'
          /\ LastIsCurrent(p) => LastIsCurrent(p)'
      BY <2>1, <2>4, <2>6, OutTaken DEF IInv, q, m
    <2>8. HasTurn(p)'
      <3>1. /\ NoTurn(q) => NoTurn(out'[p]) /\ m.msg # "Turn"
            /\ OnlyWaits(q) => OnlyWaits(out'[p]) /\ (m.msg = "Turn" => m.status = Wait)
            /\ \A i \in 1 .. Len(q) : TokenAt(q, i, turn.phase) =>
                 IF i = 1 THEN NoTurn(out'[p]) /\ m.msg = "Turn" /\ m.status = turn.phase
                 ELSE /\ i - 1 \in 1 .. Len(out'[p]) /\ TokenAt(out'[p], i - 1, turn.phase)
                      /\ m.msg = "Turn" => m.status = Wait
        BY <2>1, <2>2, <2>4, TakenTurns DEF q, m
      <3>2. \A c : Playable(p, c)' <=> Playable(p, c)
        BY <2>6 DEF Playable
      <3>3. /\ NoMoves(p)' <=> NoMoves(p)
            /\ \A i : MoveAt(p, i)' <=> MoveAt(p, i)
        BY <2>6, <3>2 DEF NoMoves, MoveAt
      <3>4. Chose(p) /\ (m.msg = "Turn" => m.status = Wait) => Chose(p)'
        BY <2>4 DEF Chose
      <3>5. HasTurn(p)
        BY DEF IInv, Parts
      <3>6. ASSUME NotHeld(p) PROVE NotHeld(p)'
        <4>1. NotHeld(p)'
          BY <2>6, <3>1, <3>3, <3>4, <3>6 DEF NotHeld, q
        <4> QED  BY <4>1
      <3>7. ASSUME InMailbox(p) PROVE Held(p)'
        <4>1. InMailbox(p)'
          BY <2>6, <3>1, <3>3, <3>4, <3>7 DEF InMailbox, q
        <4> QED  BY <4>1 DEF Held
      <3>8. ASSUME OnTheWay(p) PROVE Held(p)'
        <4>1. PICK i \in 1 .. Len(q) : TokenAt(q, i, turn.phase)
          BY <3>8 DEF OnTheWay, q
        <4>2. CASE i = 1
          <5>1. AtClient(p)'
            BY <2>4, <2>6, <3>1, <3>3, <3>8, <4>1, <4>2 DEF OnTheWay, AtClient, NoTurns
          <5> QED  BY <5>1 DEF Held
        <4>3. CASE i # 1
          <5>1. OnTheWay(p)'
            BY <2>6, <3>1, <3>3, <3>4, <3>8, <4>1, <4>3 DEF OnTheWay
          <5> QED  BY <5>1 DEF Held
        <4> QED  BY <4>2, <4>3
      <3>9. ASSUME NoTurns(p), AtClient(p) \/ Played(p) \/ AtActor(p) \/ Attacking(p)
            PROVE  Held(p)'
        <4>1. NoTurns(p)' /\ view'[p] = view[p] /\ pressed'[p] = pressed[p]
          BY <2>4, <2>6, <3>1, <3>9 DEF NoTurns, q
        <4>2. AtClient(p)' \/ Played(p)' \/ AtActor(p)' \/ Attacking(p)'
          BY <2>6, <3>2, <3>3, <3>9, <4>1 DEF AtClient, Played, AtActor, Attacking, Chose
        <4> QED  BY <4>2 DEF Held
      <3>10. Held(p) => \/ InMailbox(p) \/ OnTheWay(p)
                        \/ NoTurns(p) /\ (AtClient(p) \/ Played(p) \/ AtActor(p) \/ Attacking(p))
        BY DEF Held, AtClient, Played, AtActor, Attacking
      <3>11. (Held(p) => Held(p)') /\ (NotHeld(p) => NotHeld(p)')
        BY <3>6, <3>7, <3>8, <3>9, <3>10
      <3> QED  BY <2>6, <3>5, <3>11 DEF HasTurn
    <2>9. WaitComes(p)'
      <3>1. NoTurn(q) \/ m.msg = "Turn" \/ ~ NoTurn(out'[p])
        <4>1. \A i \in 1 .. Len(q) :
                q[i] = m \/ (i - 1 \in 1 .. Len(Tail(q)) /\ Tail(q)[i - 1] = q[i])
          BY <2>1, <2>2, FirstTaken
        <4>2. \A i \in 1 .. Len(q) :
                q[i] = m \/ \E j \in 1 .. Len(out'[p]) : out'[p][j] = q[i]
          BY <2>4, <4>1
        <4> QED  BY <4>2 DEF NoTurn
      <3>2. m.msg = "Turn" /\ p # Active(turn) => m.status = Wait
        BY <2>1, <2>2, TakenTurns DEF IInv, Parts, HasTurn, NotHeld, q, m
      <3> QED  BY <2>4, <2>6, <3>1, <3>2 DEF IInv, Parts, WaitComes, q
    <2>10. Dealt(p)' /\ HandShown(p)'
      BY <2>6, <2>7 DEF IInv, Parts, Dealt, ToBeFull
    <2>11. FreshInTime(p)'
      <3>1. /\ Discarded(p)' <=> Discarded(p)
            /\ Attacked(p)' <=> Attacked(p)
            /\ Attacks(p)' <=> Attacks(p)
            /\ SyncFirst(p)' <=> SyncFirst(p)
            /\ \A items : OnTable(items)' <=> OnTable(items)
        BY <2>6 DEF Discarded, Attacked, Attacks, SyncFirst, OnTable
      <3>2. FreshInTime(p)
        BY DEF IInv, Parts
      <3>3. ASSUME Attacks(p)
            PROVE  /\ chosen'[p] # None /\ Fresh(p)'
                   /\ \A i \in 1 .. Len(out'[p]) :
                        out'[p][i].msg = "Turn" /\ out'[p][i].status = "AttachMonster"
                          => FreshBefore(p, i)'
                   /\ NoTurns(p)' => AllGood(p)'
        <4>1. \A i \in 1 .. Len(out'[p]) :
                i + 1 \in 1 .. Len(q) /\ (i + 1) - 1 = i /\ out'[p][i] = q[i + 1]
          BY <2>1, <2>2, <2>4, FirstTaken DEF q
        <4>2. ASSUME NoTurns(p)' PROVE AllGood(p)'
          <5>1. CASE NoTurns(p)
            BY <2>7, <3>2, <3>3, <5>1 DEF FreshInTime
          <5>2. CASE ~ NoTurns(p)
            <6>1. ~ NoTurn(q) /\ NoTurn(out'[p])
              BY <2>6, <4>2, <5>2 DEF NoTurns, q
            <6>2. OnTheWay(p)
              BY <2>6, <3>3, <4>2, <5>2
                 DEF IInv, Parts, HasTurn, Attacks, Held, InMailbox, AtClient, Played, AtActor,
                     Attacking, NoTurns, NoTurn, TokenAt
            <6>3. PICK i \in 1 .. Len(q) : TokenAt(q, i, turn.phase)
              BY <6>2 DEF OnTheWay, q
            <6>4. i = 1
              <7>1. i # 1 => TokenAt(out'[p], i - 1, turn.phase) /\ i - 1 \in 1 .. Len(out'[p])
                BY <2>1, <2>2, <2>4, <6>3, TakenTurns DEF q
              <7> QED  BY <6>1, <7>1 DEF NoTurn, TokenAt
            <6>5. FreshBefore(p, 1)
              BY <2>2, <3>2, <3>3, <6>3, <6>4 DEF FreshInTime, TokenAt, Attacks, q
            <6> QED  BY <2>7, <6>5
          <5> QED  BY <5>1, <5>2
        <4>3. \A i \in 1 .. Len(q) :
                q[i].msg = "Turn" /\ q[i].status = "AttachMonster" => FreshBefore(p, i)
          BY <3>2, <3>3 DEF FreshInTime, q
        <4>4. chosen'[p] # None /\ Fresh(p)'
          BY <2>6, <2>7, <3>2, <3>3 DEF FreshInTime
        <4>5. \A i \in 1 .. Len(q) : i \in 1 .. Len(q) + 1
          BY <2>2
        <4>6. ASSUME NEW i \in 1 .. Len(out'[p]), out'[p][i].msg = "Turn",
                     out'[p][i].status = "AttachMonster"
              PROVE  FreshBefore(p, i)'
          <5>1. FreshBefore(p, i + 1)
            BY <4>1, <4>3, <4>6
          <5>2. FreshBefore(p, (i + 1) - 1)'
            BY <2>7, <4>1, <4>5, <5>1
          <5> QED  BY <4>1, <5>2
        <4> QED  BY <4>2, <4>4, <4>6
      <3> QED  BY <2>6, <2>7, <3>1, <3>2, <3>3 DEF FreshInTime
    <2>12. CurrentComes(p)'
      BY <2>6, <2>7 DEF IInv, CurrentComes, Busy
    <2>13. \A r \in Players : Parts(r)' /\ CurrentComes(r)'
      BY <2>6, <2>8, <2>9, <2>10, <2>11, <2>12, Untouched, StillComes DEF IInv, Parts, Same
    <2> QED  BY <2>1, <2>5, <2>13 DEF IInv
  <1> QED  BY <1>1, <1>2 DEF ReceiveMessage

-------------------------------------------------------------------------------
(* A message to a client.                                                  *)

LEMMA OutSent ==
  ASSUME Typed, NEW p \in Players, NEW m \in ToClient, out'[p] = Append(out[p], m),
         turn' = turn, hand'[p] = hand[p], shown'[p] = shown[p],
         IF m.msg = "UpdateGameData" THEN /\ actor[p] = "syncing" /\ m.cards.monsters = seen[p]
                                          /\ actor'[p] # "syncing"
                                     ELSE actor'[p] = actor[p] /\ seen'[p] = seen[p]
  PROVE  /\ (m.msg = "UpdateGameData" => Good(p, m.cards)) =>
              /\ AllGood(p) => AllGood(p)'
              /\ \A i \in 1 .. Len(out[p]) + 1 : FreshBefore(p, i) => FreshBefore(p, i)'
              /\ Fresh(p) \/ m.msg = "UpdateGameData" => Fresh(p)'
         /\ HandShown(p) /\ (m.msg = "UpdateGameData" => FromHand(p, m.cards))
              => HandShown(p)'
         /\ m.msg # "UpdateGameData" /\ LastIsCurrent(p) => LastIsCurrent(p)'
         /\ m.msg = "UpdateGameData" /\ m.cards = Current(p) => LastIsCurrent(p)'
  <1> DEFINE q == out[p]
             t == out'[p]
  <1>1. q \in Seq(ToClient)
    BY TypeFacts
  <1>2. /\ Len(t) = Len(q) + 1 /\ Len(q) \in Nat /\ t[Len(q) + 1] = m
        /\ \A i \in 1 .. Len(q) : i \in 1 .. Len(t) /\ t[i] = q[i]
        /\ \A i \in 1 .. Len(t) : i \in 1 .. Len(q) \/ i = Len(q) + 1
        /\ Len(q) + 1 \in 1 .. Len(t)
    BY <1>1, LastSent
  <1> HIDE DEF q, t
  <1>3. /\ \A c : Good(p, c)' <=> Good(p, c)
        /\ \A c : FromHand(p, c)' <=> FromHand(p, c)
        /\ Current(p)' = Current(p)
    BY DEF Good, OnTable, FromHand, Current
  <1>4. ASSUME m.msg = "UpdateGameData" => Good(p, m.cards)
        PROVE  /\ AllGood(p) => AllGood(p)'
               /\ \A i \in 1 .. Len(q) + 1 : FreshBefore(p, i) => FreshBefore(p, i)'
               /\ Fresh(p) \/ m.msg = "UpdateGameData" => Fresh(p)'
    <2> PICK n \in Nat : n = Len(q) + 1
      BY <1>2
    <2>0. /\ \A i, c : GoodAt(p, i, c) => GoodAt(p, i, c)'
          /\ m.msg = "UpdateGameData" => GoodAt(p, n, m.cards)'
      <3>1. \A i : StaysEmpty(p, i) => StaysEmpty(p, i)'
        BY <1>2 DEF StaysEmpty, q, t
      <3>2. m.msg = "UpdateGameData" => StaysEmpty(p, n)'
        BY <1>2 DEF StaysEmpty, t
      <3> QED  BY <1>3, <1>4, <3>1, <3>2 DEF GoodAt
    <2>1. \A k : GoodFrom(p, k) => GoodFrom(p, k)'
      BY <1>2, <2>0 DEF GoodFrom, q, t
    <2>2. AllGood(p) => AllGood(p)'
      BY <2>0, <2>1 DEF AllGood
    <2>3. \A i : FreshBefore(p, i) => FreshBefore(p, i)'
      BY <1>2, <2>1, <2>2 DEF FreshBefore, q, t
    <2>4. Fresh(p) => Fresh(p)'
      <3>1. \A i, j \in Nat : i <= j /\ FreshBefore(p, i)' => FreshBefore(p, j)'
        BY <1>2 DEF FreshBefore, t
      <3>2. Len(q) + 1 \in Nat /\ Len(t) + 1 \in Nat /\ Len(q) + 1 <= Len(t) + 1
        BY <1>2
      <3>3. ASSUME Fresh(p) PROVE Fresh(p)'
        <4>1. FreshBefore(p, Len(q) + 1)
          BY <3>3 DEF Fresh, q
        <4> QED  BY <2>3, <3>1, <3>2, <4>1 DEF Fresh, t
      <3> QED  BY <3>3
    <2>5. m.msg = "UpdateGameData" => Fresh(p)'
      <3>1. m.msg = "UpdateGameData" => GoodFrom(p, n)'
        BY <1>2, <2>0 DEF GoodFrom, t
      <3> QED  BY <1>2, <3>1 DEF Fresh, FreshBefore, t
    <2> QED  BY <2>2, <2>3, <2>4, <2>5
  <1>5. HandShown(p) /\ (m.msg = "UpdateGameData" => FromHand(p, m.cards)) => HandShown(p)'
    BY <1>2, <1>3 DEF HandShown, q, t
  <1>6. m.msg # "UpdateGameData" /\ LastIsCurrent(p) => LastIsCurrent(p)'
    BY <1>2, <1>3 DEF LastIsCurrent, q, t
  <1>7. m.msg = "UpdateGameData" /\ m.cards = Current(p) => LastIsCurrent(p)'
    BY <1>2, <1>3 DEF LastIsCurrent, t
  <1> QED  BY <1>4, <1>5, <1>6, <1>7 DEF q

-------------------------------------------------------------------------------
(* The connection.                                                         *)

LEMMA ReadMoveStep ==
  ASSUME IInv, NEW p \in Players, ReadMove(p) PROVE IInv'
  <1>0. PICK m : m = Head(cin[p])
    OBVIOUS
  <1>1. HasTurn(p) /\ cin[p] # <<>> /\ pc[p] = "read"
    BY DEF IInv, Parts, ReadMove
  <1>2. p = Active(turn) /\ Played(p)
    BY <1>1 DEF HasTurn, Held, NotHeld, InMailbox, OnTheWay, AtClient, AtActor, Attacking,
                NoMoves
  <1>3. cin[p] \in Seq(Moves) /\ aq[p] \in Seq(Mail) /\ m = cin[p][1] /\ m \in Moves
        /\ m \in Mail /\ Tail(cin[p]) = <<>>
    <2>1. cin[p] \in Seq(Moves) /\ aq[p] \in Seq(Mail)
      BY TypeFacts DEF IInv
    <2>2. m \in Moves /\ m = cin[p][1] /\ Tail(cin[p]) \in Seq(Moves) /\ Len(Tail(cin[p])) = 0
      BY <1>0, <1>1, <1>2, <2>1, FirstTaken DEF Played
    <2>3. \A t \in Seq(Moves) : Len(t) = 0 => t = <<>>
      OBVIOUS
    <2> QED  BY <1>0, <2>1, <2>2, <2>3 DEF Mail
  <1>4. /\ cin' = [cin EXCEPT ![p] = <<>>] /\ move' = [move EXCEPT ![p] = m]
        /\ pc' = [pc EXCEPT ![p] = "w_move"] /\ aq' = [aq EXCEPT ![p] = Append(@, m)]
        /\ UNCHANGED <<turn, hand, chosen, actor, seen, out, view, pressed, late, shown, at, crashed>>
    BY <1>0, <1>2, <1>3 DEF ReadMove
  <1>5. Playable(p, m) /\ m.msg = "Move"
    BY <1>2, <1>3 DEF Played, Playable
  <1>7. Typed'
    BY ReadMoveTyped DEF IInv
  <1>8. /\ aq'[p] = Append(aq[p], m) /\ cin'[p] = <<>> /\ pc'[p] = "w_move"
        /\ turn' = turn /\ hand'[p] = hand[p] /\ chosen'[p] = chosen[p]
        /\ actor'[p] = actor[p] /\ seen'[p] = seen[p] /\ out'[p] = out[p]
        /\ view'[p] = view[p] /\ pressed'[p] = pressed[p] /\ shown'[p] = shown[p]
        /\ (Busy => Busy')
    BY <1>1, <1>4 DEF IInv, Typed, TypeOK, Busy
  <1>9. \A r \in Players \ {p} : Same(r)
    BY <1>4 DEF Same, SameShown, IInv, Typed, TypeOK
  <1>10. /\ Len(aq'[p]) = Len(aq[p]) + 1 /\ Len(aq[p]) \in Nat /\ aq'[p][Len(aq[p]) + 1] = m
         /\ \A i \in 1 .. Len(aq[p]) : i \in 1 .. Len(aq'[p]) /\ aq'[p][i] = aq[p][i]
         /\ \A i \in 1 .. Len(aq'[p]) : i \in 1 .. Len(aq[p]) \/ i = Len(aq[p]) + 1
         /\ Len(aq[p]) + 1 \in 1 .. Len(aq'[p])
    BY <1>3, <1>8, LastSent
  <1>11. AtActor(p)'
    <2>1. NoTurns(p)'
      BY <1>2, <1>5, <1>8, <1>10 DEF Played, NoTurns, NoTurn
    <2>2. Chose(p)'
      BY <1>2, <1>8 DEF Played, Chose
    <2>3. Playable(p, m)'
      BY <1>5, <1>8 DEF Playable
    <2>4. PICK n : n = Len(aq[p]) + 1
      OBVIOUS
    <2>5. MoveAt(p, n)' /\ n \in 1 .. Len(aq'[p])
      BY <1>2, <1>10, <2>3, <2>4 DEF Played, MoveAt, NoMoveIn
    <2> QED  BY <1>2, <1>8, <2>1, <2>2, <2>5 DEF AtActor, Played
  <1>12. Parts(p)'
    <2>1. HasTurn(p)' /\ WaitComes(p)'
      BY <1>2, <1>8, <1>11 DEF HasTurn, Held, WaitComes
    <2>2. Dealt(p)' /\ HandShown(p)'
      BY <1>8 DEF IInv, Parts, Dealt, ToBeFull, HandShown, FromHand
    <2>3. FreshInTime(p)'
      <3>1. /\ \A items : OnTable(items) => OnTable(items)'
            /\ AllGood(p) => AllGood(p)'
            /\ \A i : FreshBefore(p, i) => FreshBefore(p, i)'
            /\ Fresh(p) => Fresh(p)'
        BY <1>8, FreshKept DEF SameTable, IInv
      <3>2. SyncFirst(p) => SyncFirst(p)'
        <4>1. \A j \in 1 .. Len(aq'[p]) : aq'[p][j].msg = "Move" => j = Len(aq[p]) + 1
          BY <1>2, <1>10 DEF Played, NoMoveIn
        <4>2. \A i \in 1 .. Len(aq[p]) : i < Len(aq[p]) + 1
          BY <1>10
        <4> QED  BY <1>10, <4>1, <4>2 DEF SyncFirst
      <3>3. /\ Discarded(p)' <=> Discarded(p)
            /\ Attacked(p)' <=> Attacked(p)
            /\ Attacks(p)' <=> Attacks(p)
        BY <1>8 DEF Discarded, Attacked, Attacks
      <3> QED  BY <1>1, <1>2, <1>8, <3>1, <3>2, <3>3 DEF IInv, Parts, FreshInTime, Played
    <2> QED  BY <2>1, <2>2, <2>3 DEF Parts
  <1>13. CurrentComes(p)'
    <2>1. LastIsCurrent(p) => LastIsCurrent(p)'
      BY <1>8 DEF LastIsCurrent, Current
    <2> QED  BY <1>8, <1>10, <2>1 DEF IInv, CurrentComes, Busy
  <1>14. \A r \in Players : Parts(r)' /\ CurrentComes(r)'
    BY <1>8, <1>9, <1>12, <1>13, Untouched, StillComes DEF IInv, Same
  <1> QED  BY <1>4, <1>7, <1>14 DEF IInv

-------------------------------------------------------------------------------
(* The end of a turn: a synchronisation for everyone.                      *)

(* No move is in the mailbox of an actor whose connection has its answer. *)
LEMMA NoneMoving ==
  ASSUME NEW p \in Players, HasTurn(p), pc[p] # "w_move"
  PROVE  NoMoveIn(aq[p]) /\ actor[p] # "attacked" /\ ~ AtActor(p)
  BY DEF HasTurn, NotHeld, Held, InMailbox, OnTheWay, AtClient, Played, AtActor, Attacking,
         NoMoves

LEMMA SyncAdded ==
  ASSUME IInv, NEW p \in Players, turn' = turn, hand'[p] = hand[p], chosen'[p] = chosen[p],
         actor'[p] = actor[p], seen'[p] = seen[p], cin'[p] = cin[p], view'[p] = view[p],
         pressed'[p] = pressed[p], shown'[p] = shown[p],
         aq'[p] = Append(aq[p], Sync),
         pc'[p] = pc[p] \/ pc[p] = "answer",
         NEW m \in ToClient, m.msg = "Accepted",
         out'[p] = out[p] \/ out'[p] = Append(out[p], m)
  PROVE  Parts(p)' /\ CurrentComes(p)'
  <1>1. aq[p] \in Seq(Mail) /\ Sync \in Mail /\ out[p] \in Seq(ToClient)
    BY TypeFacts DEF IInv, Mail, Sync
  <1>2. /\ Len(aq'[p]) = Len(aq[p]) + 1 /\ Len(aq[p]) \in Nat /\ aq'[p][Len(aq[p]) + 1] = Sync
        /\ \A i \in 1 .. Len(aq[p]) : i \in 1 .. Len(aq'[p]) /\ aq'[p][i] = aq[p][i]
        /\ \A i \in 1 .. Len(aq'[p]) : i \in 1 .. Len(aq[p]) \/ i = Len(aq[p]) + 1
        /\ Len(aq[p]) + 1 \in 1 .. Len(aq'[p])
    BY <1>1, LastSent
  <1>3. /\ NoTurn(aq'[p]) <=> NoTurn(aq[p])
        /\ OnlyWaits(aq[p]) => OnlyWaits(aq'[p])
        /\ NoMoveIn(aq[p]) => NoMoveIn(aq'[p])
        /\ \A ph : \A i \in 1 .. Len(aq'[p]) :
             TokenAt(aq'[p], i, ph) <=> i \in 1 .. Len(aq[p]) /\ TokenAt(aq[p], i, ph)
    BY <1>1, SentOther DEF Sync
  <1>4. /\ NoTurn(out'[p]) <=> NoTurn(out[p])
        /\ OnlyWaits(out[p]) => OnlyWaits(out'[p])
        /\ \A ph : \A i \in 1 .. Len(out[p]) :
             TokenAt(out[p], i, ph) => i \in 1 .. Len(out'[p]) /\ TokenAt(out'[p], i, ph)
    <2>1. CASE out'[p] = out[p]
      BY <2>1
    <2>2. CASE out'[p] = Append(out[p], m)
      BY <1>1, <2>2, SentOther, LastSent
    <2> QED  BY <2>1, <2>2
  <1>5. HasTurn(p)'
    <2>1. HasTurn(p)
      BY DEF IInv, Parts
    <2>2. (NoTurns(p) => NoTurns(p)') /\ (Chose(p) => Chose(p)') /\ (NoMoves(p) => NoMoves(p)')
      BY <1>3, <1>4 DEF NoTurns, Chose, NoMoves
    <2>3. \A c : Playable(p, c)' <=> Playable(p, c)
      BY DEF Playable
    <2>4. \A i \in 1 .. Len(aq[p]) : MoveAt(p, i) => MoveAt(p, i)'
      BY <1>2, <2>3 DEF MoveAt, Sync
    <2>5. NotHeld(p) => NotHeld(p)'
      BY <1>3, <1>4, <2>2 DEF NotHeld
    <2>6. InMailbox(p) => InMailbox(p)'
      BY <1>2, <1>3, <1>4, <2>2 DEF InMailbox
    <2>7. OnTheWay(p) => OnTheWay(p)'
      BY <1>3, <1>4, <2>2 DEF OnTheWay
    <2>8. AtClient(p) => AtClient(p)'
      BY <2>2 DEF AtClient
    <2>9. Played(p) => Played(p)'
      BY <1>3, <2>2, <2>3 DEF Played
    <2>10. AtActor(p) => AtActor(p)'
      BY <1>2, <2>2, <2>4 DEF AtActor
    <2>11. Attacking(p) => Attacking(p)'
      BY <1>3, <2>2 DEF Attacking
    <2> QED  BY <2>1, <2>5, <2>6, <2>7, <2>8, <2>9, <2>10, <2>11 DEF HasTurn, Held
  <1>6. /\ AllGood(p) => AllGood(p)'
        /\ \A i \in 1 .. Len(out[p]) + 1 : FreshBefore(p, i) => FreshBefore(p, i)'
        /\ Fresh(p) => Fresh(p)'
        /\ HandShown(p) => HandShown(p)'
    <2>1. CASE out'[p] = out[p]
      BY <2>1, FreshKept DEF HandShown, FromHand, SameTable, IInv
    <2>2. CASE out'[p] = Append(out[p], m)
      BY <2>2, OutSent DEF IInv
    <2> QED  BY <2>1, <2>2
  <1>7. WaitComes(p)' /\ Dealt(p)' /\ HandShown(p)'
    BY <1>3, <1>4, <1>6 DEF IInv, Parts, WaitComes, Dealt, ToBeFull
  <1>8. FreshInTime(p)'
    <2>1. /\ Discarded(p)' <=> Discarded(p)
          /\ Attacked(p)' <=> Attacked(p)
          /\ Attacks(p)' <=> Attacks(p)
          /\ \A items : OnTable(items)' <=> OnTable(items)
          /\ NoTurns(p)' <=> NoTurns(p)
      BY <1>3, <1>4 DEF Discarded, Attacked, Attacks, OnTable, NoTurns
    <2>2. SyncFirst(p) => SyncFirst(p)'
      BY <1>2 DEF SyncFirst, Sync
    <2>3. pc[p] = "answer" => SyncFirst(p)'
      <3>1. pc[p] = "answer" => NoMoveIn(aq'[p]) /\ Sync.msg = "SyncWithClient"
        BY <1>3, NoneMoving DEF IInv, Parts, Sync
      <3> QED  BY <1>2, <3>1 DEF SyncFirst, NoMoveIn
    <2>4. \A i \in 1 .. Len(out'[p]) : out'[p][i].msg = "Turn"
            => i \in 1 .. Len(out[p]) /\ out'[p][i] = out[p][i] /\ i \in 1 .. Len(out[p]) + 1
      <3>1. CASE out'[p] = out[p]
        BY <1>1, <3>1
      <3>2. CASE out'[p] = Append(out[p], m)
        BY <1>1, <3>2, LastSent
      <3> QED  BY <3>1, <3>2
    <2> QED  BY <1>6, <2>1, <2>2, <2>3, <2>4 DEF IInv, Parts, FreshInTime
  <1>9. CurrentComes(p)'
    BY <1>2 DEF CurrentComes, Sync
  <1> QED  BY <1>5, <1>7, <1>8, <1>9 DEF Parts

LEMMA EndOfTurnStep ==
  ASSUME IInv, NEW p \in Players, EndOfTurn(p) PROVE IInv'
  <1>1. PICK m \in ToClient : /\ m.msg = "Accepted"
                              /\ Results(p) # <<>> => Results(p) = <<m>>
    BY ResultTyped DEF IInv
  <1>2. /\ pc[p] = "answer" /\ pc' = [pc EXCEPT ![p] = "read"]
        /\ move' = [move EXCEPT ![p] = NoMove]
        /\ out' = [out EXCEPT ![p] = @ \o Results(p)]
        /\ aq' = [q \in Players |-> Append(aq[q], Sync)]
        /\ UNCHANGED <<turn, hand, chosen, actor, seen, clientVars, crashed>>
    BY DEF EndOfTurn, Synced
  <1>3. out[p] \in Seq(ToClient) /\ Sync \in Mail /\ \A r \in Players : aq[r] \in Seq(Mail)
    BY TypeFacts DEF IInv, Mail, Sync
  <1>4. out'[p] = out[p] \/ out'[p] = Append(out[p], m)
    <2>1. out'[p] = out[p] \o Results(p)
      BY <1>2 DEF IInv, Typed, TypeOK
    <2>2. out[p] \o <<>> = out[p] /\ out[p] \o <<m>> = Append(out[p], m)
      BY <1>1, <1>3
    <2> QED  BY <1>1, <2>1, <2>2
  <1>5. Typed'
    BY EndOfTurnTyped DEF IInv
  <1>6. ASSUME NEW r \in Players PROVE Parts(r)' /\ CurrentComes(r)'
    <2>1. /\ aq'[r] = Append(aq[r], Sync)
          /\ pc'[r] = pc[r] \/ pc[r] = "answer"
          /\ out'[r] = out[r] \/ out'[r] = Append(out[r], m)
      BY <1>2, <1>4 DEF IInv, Typed, TypeOK
    <2>2. /\ turn' = turn /\ hand'[r] = hand[r] /\ chosen'[r] = chosen[r]
          /\ actor'[r] = actor[r] /\ seen'[r] = seen[r] /\ cin'[r] = cin[r]
          /\ view'[r] = view[r] /\ pressed'[r] = pressed[r] /\ shown'[r] = shown[r]
      BY <1>2 DEF clientVars
    <2> QED  BY <1>1, <2>1, <2>2, SyncAdded
  <1> QED  BY <1>2, <1>5, <1>6 DEF IInv

-------------------------------------------------------------------------------
(* The actor: messages for the client.                                     *)

LEMMA ForwardStep ==
  ASSUME IInv, NEW p \in Players, ForwardTcp(p) PROVE IInv'
  <1>0. PICK m : m = Head(aq[p])
    OBVIOUS
  <1>1. aq[p] \in Seq(Mail) /\ aq[p] # <<>> /\ m = aq[p][1] /\ m.msg = "Turn"
        /\ m \in Mail /\ Tail(aq[p]) \in Seq(Mail) /\ out[p] \in Seq(ToClient)
    BY <1>0, TypeFacts, FirstTaken DEF IInv, ForwardTcp, Takes
  <1>2. m \in ToClient
    BY <1>1 DEF Mail, Moves
  <1>3. /\ aq' = [aq EXCEPT ![p] = Tail(@)] /\ out' = [out EXCEPT ![p] = Append(@, m)]
        /\ UNCHANGED <<turn, hand, chosen, actor, seen, connVars, clientVars, crashed>>
    BY <1>0 DEF ForwardTcp
  <1>4. Typed'
    BY ForwardTyped DEF IInv
  <1>5. /\ aq'[p] = Tail(aq[p]) /\ out'[p] = Append(out[p], m)
        /\ turn' = turn /\ hand'[p] = hand[p] /\ chosen'[p] = chosen[p]
        /\ actor'[p] = actor[p] /\ seen'[p] = seen[p] /\ pc'[p] = pc[p] /\ cin'[p] = cin[p]
        /\ view'[p] = view[p] /\ pressed'[p] = pressed[p] /\ shown'[p] = shown[p]
        /\ (Busy => Busy')
    BY <1>3 DEF IInv, Typed, TypeOK, connVars, clientVars, Busy
  <1>6. \A r \in Players \ {p} : Same(r)
    BY <1>3 DEF Same, SameShown, IInv, Typed, TypeOK, connVars, clientVars
  <1>7. /\ Len(aq'[p]) = Len(aq[p]) - 1 /\ 1 \in 1 .. Len(aq[p])
        /\ \A i \in 1 .. Len(aq'[p]) : i + 1 \in 1 .. Len(aq[p]) /\ aq'[p][i] = aq[p][i + 1]
        /\ \A i \in 1 .. Len(aq[p]) :
             i = 1 \/ (i - 1 \in 1 .. Len(aq'[p]) /\ aq'[p][i - 1] = aq[p][i])
    BY <1>1, <1>5, FirstTaken
  <1>8. HasTurn(p)'
    <2>1. HasTurn(p)
      BY DEF IInv, Parts
    <2>2. ~ NoTurns(p)
      BY <1>1, <1>7 DEF NoTurns, NoTurn
    <2>3. /\ OnlyWaits(aq[p]) => OnlyWaits(aq'[p]) /\ m.status = Wait
          /\ NoMoveIn(aq[p]) => NoMoveIn(aq'[p])
          /\ \A i \in 1 .. Len(aq[p]) : TokenAt(aq[p], i, turn.phase) =>
               IF i = 1 THEN NoTurn(aq'[p]) /\ m.status = turn.phase
               ELSE /\ i - 1 \in 1 .. Len(aq'[p]) /\ TokenAt(aq'[p], i - 1, turn.phase)
                    /\ m.status = Wait
      BY <1>0, <1>1, <1>5, TakenTurns
    <2>4. /\ OnlyWaits(out[p]) /\ m.status = Wait => OnlyWaits(out'[p])
          /\ \A n : n = Len(out[p]) + 1 =>
               /\ n \in 1 .. Len(out'[p])
               /\ OnlyWaits(out[p]) => TokenAt(out'[p], n, m.status)
      BY <1>1, <1>2, <1>5, SentTurn, LastSent
    <2>5. (Chose(p) => Chose(p)') /\ (NoMoves(p) => NoMoves(p)')
      BY <1>5, <2>3 DEF Chose, NoMoves
    <2>6. NotHeld(p) => NotHeld(p)'
      BY <2>3, <2>4, <2>5 DEF NotHeld
    <2>7. ASSUME InMailbox(p) PROVE Held(p)'
      <3>1. PICK i \in 1 .. Len(aq[p]) : TokenAt(aq[p], i, turn.phase)
        BY <2>7 DEF InMailbox
      <3>2. CASE i = 1
        <4>1. OnTheWay(p)'
          BY <1>5, <2>3, <2>4, <2>5, <2>7, <3>1, <3>2 DEF InMailbox, OnTheWay
        <4> QED  BY <4>1 DEF Held
      <3>3. CASE i # 1
        <4>1. InMailbox(p)'
          BY <1>5, <2>3, <2>4, <2>5, <2>7, <3>1, <3>3 DEF InMailbox
        <4> QED  BY <4>1 DEF Held
      <3> QED  BY <3>2, <3>3
    <2>8. ~ OnTheWay(p)
      BY <1>1, <1>7 DEF OnTheWay, NoTurn
    <2> QED  BY <1>5, <2>1, <2>2, <2>6, <2>7, <2>8
             DEF HasTurn, Held, AtClient, Played, AtActor, Attacking
  <1>9. ~ NoTurn(out'[p])
    BY <1>1, <1>2, <1>5, SentTurn
  <1>10. /\ AllGood(p) => AllGood(p)'
         /\ \A i \in 1 .. Len(out[p]) + 1 : FreshBefore(p, i) => FreshBefore(p, i)'
         /\ Fresh(p) => Fresh(p)'
         /\ HandShown(p) => HandShown(p)'
         /\ LastIsCurrent(p) => LastIsCurrent(p)'
    BY <1>1, <1>2, <1>5, OutSent DEF IInv
  <1>11. FreshInTime(p)'
    <2>1. /\ Discarded(p)' <=> Discarded(p)
          /\ Attacked(p)' <=> Attacked(p)
          /\ Attacks(p)' <=> Attacks(p)
          /\ \A items : OnTable(items)' <=> OnTable(items)
      BY <1>5 DEF Discarded, Attacked, Attacks, OnTable
    <2>2. SyncFirst(p) => SyncFirst(p)'
      <3>1. ASSUME NEW i \in 1 .. Len(aq[p]), aq[p][i].msg = "SyncWithClient",
                   \A j \in 1 .. Len(aq[p]) : aq[p][j].msg = "Move" => i < j
            PROVE  SyncFirst(p)'
        <4>1. PICK n \in 1 .. Len(aq'[p]) : n = i - 1 /\ aq'[p][n] = aq[p][i]
          BY <1>1, <1>7, <3>1
        <4>2. ASSUME NEW j \in 1 .. Len(aq'[p]), aq'[p][j].msg = "Move"
              PROVE  n < j
          <5>1. PICK k \in 1 .. Len(aq[p]) : k = j + 1 /\ aq[p][k].msg = "Move"
            BY <1>7, <4>2
          <5>2. i < k
            BY <3>1, <5>1
          <5> QED  BY <4>1, <5>1, <5>2
        <4> QED  BY <3>1, <4>1, <4>2 DEF SyncFirst
      <3> QED  BY <3>1 DEF SyncFirst
    <2>3. ASSUME NEW i \in 1 .. Len(out'[p])
          PROVE  i \in 1 .. Len(out[p]) + 1
                 /\ ((i \in 1 .. Len(out[p]) /\ out'[p][i] = out[p][i]) \/ i = Len(out[p]) + 1)
      BY <1>1, <1>2, <1>5, LastSent
    <2>4. ~ NoTurns(p)'
      BY <1>9 DEF NoTurns
    <2>5. \A i \in 1 .. Len(out'[p]) : Attacks(p) /\ out'[p][i].msg = "Turn"
             /\ out'[p][i].status = "AttachMonster" => FreshBefore(p, i)'
      BY <1>10, <2>3 DEF IInv, Parts, FreshInTime, Fresh
    <2> QED  BY <1>5, <1>10, <2>1, <2>2, <2>4, <2>5 DEF IInv, Parts, FreshInTime
  <1>12. Parts(p)'
    BY <1>5, <1>8, <1>9, <1>10, <1>11 DEF IInv, Parts, WaitComes, Dealt, ToBeFull
  <1>13. CurrentComes(p)'
    <2>1. (\E i \in 1 .. Len(aq[p]) : aq[p][i].msg = "SyncWithClient")
            => \E i \in 1 .. Len(aq'[p]) : aq'[p][i].msg = "SyncWithClient"
      BY <1>1, <1>7
    <2> QED  BY <1>5, <1>10, <2>1 DEF IInv, CurrentComes, Busy
  <1>14. \A r \in Players : Parts(r)' /\ CurrentComes(r)'
    BY <1>5, <1>6, <1>12, <1>13, Untouched, StillComes DEF IInv, Same
  <1> QED  BY <1>3, <1>4, <1>14 DEF IInv

-------------------------------------------------------------------------------
(* The actor: synchronisation.                                             *)

LEMMA StartSyncStep ==
  ASSUME IInv, NEW p \in Players, StartSync(p) PROVE IInv'
  <1>1. /\ aq[p] # <<>> /\ Head(aq[p]).msg = "SyncWithClient" /\ actor[p] = "idle"
        /\ aq' = [aq EXCEPT ![p] = Tail(aq[p])]
        /\ actor' = [actor EXCEPT ![p] = "syncing"]
        /\ seen' = [seen EXCEPT ![p] = Items(turn.monsters)]
        /\ UNCHANGED <<turn, hand, chosen, connVars, out, clientVars, crashed>>
    BY DEF StartSync, Takes, Rest
  <1>2. aq[p] \in Seq(Mail) /\ Tail(aq[p]) \in Seq(Mail) /\ Head(aq[p]) = aq[p][1]
    BY <1>1, TypeFacts, FirstTaken DEF IInv
  <1>3. Items(turn.monsters) \in [Line!Slots -> Monsters \cup {None}]
        /\ OnTable(Items(turn.monsters))
    <2>1. turn.monsters \in Line!Window(DeckSize)
      BY DEF IInv, Typed, TypeOK, Turn
    <2> QED  BY <2>1, ItemsOf, EmptyItems DEF OnTable
  <1>4. Typed'
    BY StartSyncTyped DEF IInv
  <1>5. /\ aq'[p] = Tail(aq[p]) /\ actor'[p] = "syncing" /\ seen'[p] = Items(turn.monsters)
        /\ turn' = turn /\ hand'[p] = hand[p] /\ chosen'[p] = chosen[p]
        /\ out'[p] = out[p] /\ pc'[p] = pc[p] /\ cin'[p] = cin[p]
        /\ view'[p] = view[p] /\ pressed'[p] = pressed[p] /\ shown'[p] = shown[p]
        /\ (Busy => Busy')
    BY <1>1 DEF IInv, Typed, TypeOK, connVars, clientVars, Busy
  <1>6. \A r \in Players \ {p} : Same(r)
    BY <1>1 DEF Same, SameShown, IInv, Typed, TypeOK, connVars, clientVars
  <1>7. /\ Len(aq'[p]) = Len(aq[p]) - 1 /\ Len(aq[p]) \in Nat
        /\ \A i \in 1 .. Len(aq'[p]) : i + 1 \in 1 .. Len(aq[p]) /\ aq'[p][i] = aq[p][i + 1]
        /\ \A i \in 1 .. Len(aq[p]) :
             i = 1 \/ (i - 1 \in 1 .. Len(aq'[p]) /\ aq'[p][i - 1] = aq[p][i])
    <2>1. /\ Len(Tail(aq[p])) = Len(aq[p]) - 1 /\ Len(aq[p]) \in Nat
          /\ \A i \in 1 .. Len(Tail(aq[p])) :
               i + 1 \in 1 .. Len(aq[p]) /\ Tail(aq[p])[i] = aq[p][i + 1]
          /\ \A i \in 1 .. Len(aq[p]) :
               i = 1 \/ (i - 1 \in 1 .. Len(Tail(aq[p])) /\ Tail(aq[p])[i - 1] = aq[p][i])
      BY <1>1, <1>2, FirstTaken
    <2> QED  BY <1>5, <2>1
  <1>8. /\ NoTurn(aq'[p]) <=> NoTurn(aq[p])
        /\ OnlyWaits(aq[p]) => OnlyWaits(aq'[p])
        /\ NoMoveIn(aq[p]) => NoMoveIn(aq'[p])
        /\ \A i \in 1 .. Len(aq[p]) : TokenAt(aq[p], i, turn.phase) =>
             i - 1 \in 1 .. Len(aq'[p]) /\ TokenAt(aq'[p], i - 1, turn.phase)
    <2>1. /\ NoTurn(aq[p]) => NoTurn(aq'[p])
          /\ OnlyWaits(aq[p]) => OnlyWaits(aq'[p])
          /\ NoMoveIn(aq[p]) => NoMoveIn(aq'[p])
          /\ \A i \in 1 .. Len(aq[p]) : TokenAt(aq[p], i, turn.phase) =>
               i - 1 \in 1 .. Len(aq'[p]) /\ TokenAt(aq'[p], i - 1, turn.phase)
      BY <1>1, <1>2, <1>5, TakenTurns
    <2>2. NoTurn(aq'[p]) => NoTurn(aq[p])
      BY <1>1, <1>2, <1>7 DEF NoTurn
    <2> QED  BY <2>1, <2>2
  <1>9. HasTurn(p)'
    <2>1. HasTurn(p)
      BY DEF IInv, Parts
    <2>2. (NoTurns(p) => NoTurns(p)') /\ (Chose(p) => Chose(p)') /\ (NoMoves(p) => NoMoves(p)')
      BY <1>1, <1>5, <1>8 DEF NoTurns, Chose, NoMoves
    <2>3. \A c : Playable(p, c)' <=> Playable(p, c)
      BY <1>5 DEF Playable
    <2>4. NotHeld(p) => NotHeld(p)'
      BY <1>5, <1>8, <2>2 DEF NotHeld
    <2>5. InMailbox(p) => InMailbox(p)'
      BY <1>5, <1>8, <2>2 DEF InMailbox
    <2>6. OnTheWay(p) => OnTheWay(p)'
      BY <1>5, <1>8, <2>2 DEF OnTheWay
    <2>7. AtClient(p) => AtClient(p)'
      BY <1>5, <2>2 DEF AtClient
    <2>8. Played(p) => Played(p)'
      BY <1>5, <1>8, <2>2, <2>3 DEF Played
    <2>9. ASSUME AtActor(p) PROVE AtActor(p)'
      <3>1. PICK i \in 1 .. Len(aq[p]) : MoveAt(p, i)
        BY <2>9 DEF AtActor
      <3>2. i # 1
        BY <1>1, <1>2, <3>1 DEF MoveAt, Playable
      <3>3. PICK n \in 1 .. Len(aq'[p]) : n = i - 1 /\ aq'[p][n] = aq[p][i]
        BY <1>7, <3>2
      <3>4. ASSUME NEW j \in 1 .. Len(aq'[p]), aq'[p][j].msg = "Move"
            PROVE  j = n
        <4>1. PICK k \in 1 .. Len(aq[p]) : k = j + 1 /\ aq[p][k].msg = "Move"
          BY <1>7, <3>4
        <4>2. k = i
          BY <3>1, <4>1 DEF MoveAt
        <4> QED  BY <3>3, <4>1, <4>2
      <3>5. MoveAt(p, n)'
        BY <2>3, <3>1, <3>3, <3>4 DEF MoveAt
      <3> QED  BY <1>5, <2>2, <2>9, <3>5 DEF AtActor
    <2>10. ~ Attacking(p)
      BY <1>1 DEF Attacking
    <2> QED  BY <1>5, <2>1, <2>4, <2>5, <2>6, <2>7, <2>8, <2>9, <2>10 DEF HasTurn, Held
  <1>10. WaitComes(p)' /\ Dealt(p)' /\ HandShown(p)'
    BY <1>5, <1>8 DEF IInv, Parts, WaitComes, Dealt, ToBeFull, HandShown, FromHand
  <1>11. FreshInTime(p)'
    <2>1. /\ \A items : OnTable(items) => OnTable(items)'
          /\ AllGood(p) => AllGood(p)'
          /\ \A i : FreshBefore(p, i) => FreshBefore(p, i)'
          /\ Fresh(p) => Fresh(p)'
      BY <1>5, FreshKept DEF SameTable, IInv
    <2>2. /\ Attacked(p)' <=> Attacked(p)
          /\ Attacks(p)' <=> Attacks(p)
          /\ NoTurns(p)' <=> NoTurns(p)
      BY <1>5, <1>8 DEF Attacked, Attacks, NoTurns
    <2>3. OnTable(seen[p])'
      BY <1>3, <1>5 DEF OnTable
    <2> QED  BY <1>5, <2>1, <2>2, <2>3 DEF IInv, Parts, FreshInTime
  <1>12. Parts(p)'
    BY <1>9, <1>10, <1>11 DEF Parts
  <1>13. CurrentComes(p)'
    BY <1>5 DEF CurrentComes
  <1>14. \A r \in Players : Parts(r)' /\ CurrentComes(r)'
    BY <1>5, <1>6, <1>12, <1>13, Untouched, StillComes DEF IInv, Same
  <1> QED  BY <1>1, <1>4, <1>14 DEF IInv

LEMMA EndSyncStep ==
  ASSUME IInv, NEW p \in Players, EndSync(p) PROVE IInv'
  <1>0. PICK m : m = Update([hand |-> Items(hand[p]), monsters |-> seen[p]])
    OBVIOUS
  <1>1. /\ actor[p] = "syncing" /\ actor' = [actor EXCEPT ![p] = "idle"]
        /\ seen' = [seen EXCEPT ![p] = Unseen] /\ out' = [out EXCEPT ![p] = Append(@, m)]
        /\ UNCHANGED <<turn, hand, chosen, aq, connVars, clientVars, crashed>>
    BY <1>0 DEF EndSync
  <1>2. m.msg = "UpdateGameData" /\ m.cards.hand = Items(hand[p]) /\ m.cards.monsters = seen[p]
        /\ m.cards = [hand |-> Items(hand[p]), monsters |-> seen[p]]
    BY <1>0 DEF Update
  <1>3. hand[p] \in Hand!Window(RankCount) /\ out[p] \in Seq(ToClient)
        /\ seen[p] \in [Line!Slots -> Monsters \cup {None}]
    BY TypeFacts DEF IInv
  <1>4. m \in ToClient /\ FromHand(p, m.cards)
        /\ (OnTable(seen[p]) => Good(p, m.cards))
    <2>1. m.cards \in Shown
      BY <1>2, <1>3, ItemsOf DEF Shown
    <2>2. m \in ToClient
      BY <1>0, <1>2, <2>1 DEF Update, ToClient
    <2> QED  BY <1>2, <1>3, <2>2, ItemsOf DEF FromHand, Good
  <1>5. Typed'
    BY EndSyncTyped DEF IInv
  <1>6. /\ out'[p] = Append(out[p], m) /\ actor'[p] = "idle" /\ aq'[p] = aq[p]
        /\ turn' = turn /\ hand'[p] = hand[p] /\ chosen'[p] = chosen[p]
        /\ pc'[p] = pc[p] /\ cin'[p] = cin[p]
        /\ view'[p] = view[p] /\ pressed'[p] = pressed[p] /\ shown'[p] = shown[p]
        /\ (Busy => Busy')
    BY <1>1 DEF IInv, Typed, TypeOK, connVars, clientVars, Busy
  <1>7. \A r \in Players \ {p} : Same(r)
    BY <1>1 DEF Same, SameShown, IInv, Typed, TypeOK, connVars, clientVars
  <1>8. /\ NoTurn(out'[p]) <=> NoTurn(out[p])
        /\ OnlyWaits(out[p]) => OnlyWaits(out'[p])
        /\ \A ph : \A i \in 1 .. Len(out[p]) :
             TokenAt(out[p], i, ph) => i \in 1 .. Len(out'[p]) /\ TokenAt(out'[p], i, ph)
        /\ \A i \in 1 .. Len(out'[p]) : out'[p][i].msg = "Turn"
             => i \in 1 .. Len(out[p]) /\ out'[p][i] = out[p][i] /\ i \in 1 .. Len(out[p]) + 1
    <2>1. m.msg # "Turn"
      BY <1>2
    <2> QED  BY <1>3, <1>4, <1>6, <2>1, SentOther, LastSent
  <1>9. HasTurn(p)'
    <2>1. HasTurn(p)
      BY DEF IInv, Parts
    <2>2. (NoTurns(p) => NoTurns(p)') /\ (Chose(p) => Chose(p)') /\ (NoMoves(p) => NoMoves(p)')
      BY <1>6, <1>8 DEF NoTurns, Chose, NoMoves
    <2>3. \A c : Playable(p, c)' <=> Playable(p, c)
      BY <1>6 DEF Playable
    <2>4. \A i : MoveAt(p, i)' <=> MoveAt(p, i)
      BY <1>6, <2>3 DEF MoveAt
    <2>5. NotHeld(p) => NotHeld(p)'
      BY <1>6, <1>8, <2>2 DEF NotHeld
    <2>6. InMailbox(p) => InMailbox(p)'
      BY <1>6, <1>8, <2>2 DEF InMailbox
    <2>7. OnTheWay(p) => OnTheWay(p)'
      BY <1>6, <1>8, <2>2 DEF OnTheWay
    <2>8. AtClient(p) => AtClient(p)'
      BY <1>6, <2>2 DEF AtClient
    <2>9. Played(p) => Played(p)'
      BY <1>6, <2>2, <2>3 DEF Played
    <2>10. AtActor(p) => AtActor(p)'
      BY <1>6, <2>2, <2>4 DEF AtActor
    <2>11. ~ Attacking(p)
      BY <1>1 DEF Attacking
    <2> QED  BY <1>6, <2>1, <2>5, <2>6, <2>7, <2>8, <2>9, <2>10, <2>11 DEF HasTurn, Held
  <1>10. /\ OnTable(seen[p]) =>
              /\ AllGood(p) => AllGood(p)'
              /\ \A i \in 1 .. Len(out[p]) + 1 : FreshBefore(p, i) => FreshBefore(p, i)'
              /\ Fresh(p)'
         /\ HandShown(p) => HandShown(p)'
         /\ seen[p] = Items(turn.monsters) => LastIsCurrent(p)'
    BY <1>1, <1>2, <1>4, <1>6, OutSent DEF IInv, Current
  <1>11. WaitComes(p)' /\ Dealt(p)' /\ HandShown(p)'
    BY <1>6, <1>8, <1>10 DEF IInv, Parts, WaitComes, Dealt, ToBeFull
  <1>12. FreshInTime(p)'
    <2>1. /\ Discarded(p)' <=> Discarded(p)
          /\ Attacked(p)' <=> Attacked(p)
          /\ Attacks(p)' <=> Attacks(p)
          /\ NoTurns(p)' <=> NoTurns(p)
      BY <1>6, <1>8 DEF Discarded, Attacked, Attacks, NoTurns
    <2>2. Attacked(p) \/ Attacks(p) => Discarded(p)
      BY DEF Discarded, Attacked, Attacks
    <2>3. Discarded(p) => OnTable(seen[p])
      BY <1>1 DEF IInv, Parts, FreshInTime
    <2> QED  BY <1>6, <1>8, <1>10, <2>1, <2>2, <2>3 DEF IInv, Parts, FreshInTime
  <1>13. Parts(p)'
    BY <1>9, <1>11, <1>12 DEF Parts
  <1>14. CurrentComes(p)'
    <2>1. Busy \/ seen[p] = Items(turn.monsters)
          \/ \E i \in 1 .. Len(aq[p]) : aq[p][i].msg = "SyncWithClient"
      BY <1>1 DEF IInv, CurrentComes, Busy
    <2> QED  BY <1>6, <1>10, <2>1 DEF CurrentComes, Busy
  <1>15. \A r \in Players : Parts(r)' /\ CurrentComes(r)'
    BY <1>6, <1>7, <1>13, <1>14, Untouched, StillComes DEF IInv, Same
  <1> QED  BY <1>1, <1>5, <1>15 DEF IInv

-------------------------------------------------------------------------------
(* The actor: moves.                                                       *)

(* A move at the head of a mailbox is that of the active player, and playable. *)
LEMMA MoveTaken ==
  ASSUME IInv, NEW p \in Players, NEW kind, TakesMove(p, kind)
  PROVE  /\ p = Active(turn) /\ kind = turn.phase /\ kind \in Phases
         /\ Playable(p, Head(aq[p])) /\ Tail(aq[p]) \in Seq(Mail)
         /\ NoTurn(Tail(aq[p])) /\ NoMoveIn(Tail(aq[p])) /\ NoTurns(p)
         /\ Chose(p) /\ cin[p] = <<>> /\ actor[p] = "idle" /\ pc[p] = "w_move"
         /\ Discarded(p) => Fresh(p)
  <1>1. /\ aq[p] # <<>> /\ Head(aq[p]).msg = "Move" /\ Head(aq[p]).kind = kind
        /\ actor[p] = "idle"
    BY DEF TakesMove, Takes
  <1>2. /\ aq[p] \in Seq(Mail) /\ Tail(aq[p]) \in Seq(Mail) /\ Head(aq[p]) = aq[p][1]
        /\ 1 \in 1 .. Len(aq[p])
        /\ \A i \in 1 .. Len(Tail(aq[p])) :
             i + 1 \in 1 .. Len(aq[p]) /\ Tail(aq[p])[i] = aq[p][i + 1] /\ i + 1 # 1
        /\ NoTurn(aq[p]) => NoTurn(Tail(aq[p]))
    BY <1>1, TypeFacts, FirstTaken, TakenTurns DEF IInv
  <1>3. HasTurn(p) /\ ~ NoMoveIn(aq[p])
    BY <1>1, <1>2 DEF IInv, Parts, NoMoveIn
  <1>4. p = Active(turn) /\ AtActor(p)
    BY <1>3 DEF HasTurn, Held, NotHeld, InMailbox, OnTheWay, AtClient, Played, Attacking, NoMoves
  <1>5. MoveAt(p, 1)
    BY <1>1, <1>2, <1>4 DEF AtActor, MoveAt
  <1>6. NoMoveIn(Tail(aq[p]))
    BY <1>2, <1>5 DEF NoMoveIn, MoveAt
  <1>7. ~ SyncFirst(p)
    BY <1>1, <1>2 DEF SyncFirst
  <1>8. kind = turn.phase /\ Playable(p, Head(aq[p])) /\ kind \in Phases
    BY <1>1, <1>2, <1>5, TypeFacts DEF MoveAt, Playable, IInv
  <1> QED  BY <1>1, <1>2, <1>4, <1>6, <1>7, <1>8
           DEF AtActor, NoTurns, IInv, Parts, FreshInTime

(* An attack takes a monster off the table. *)
LEMMA AttackFacts ==
  ASSUME IInv, NEW p \in Players, Attack(p)
  PROVE  /\ p = Active(turn) /\ turn.phase = "AttachMonster"
         /\ Tail(aq[p]) \in Seq(Mail) /\ NoTurn(Tail(aq[p])) /\ NoMoveIn(Tail(aq[p]))
         /\ NoTurns(p) /\ Chose(p) /\ cin[p] = <<>> /\ pc[p] = "w_move"
         /\ Discarded(p) => Fresh(p)
         /\ actor' = [actor EXCEPT ![p] = "attacked"]
         /\ aq' = [aq EXCEPT ![p] = Tail(@)]
         /\ UNCHANGED <<hand, chosen, seen, connVars, out, clientVars, crashed>>
         /\ turn' \in Turn /\ turn'.phase = turn.phase /\ SameTable
         /\ Active(turn)' = Active(turn) /\ HasActive(turn)'
  <1> DEFINE card == CardOf(p)
             w    == turn.monsters
  <1>1. /\ p = Active(turn) /\ turn.phase = "AttachMonster" /\ Playable(p, Head(aq[p]))
        /\ Tail(aq[p]) \in Seq(Mail) /\ NoTurn(Tail(aq[p])) /\ NoMoveIn(Tail(aq[p]))
        /\ NoTurns(p) /\ Chose(p) /\ cin[p] = <<>> /\ pc[p] = "w_move"
        /\ Discarded(p) => Fresh(p)
    BY MoveTaken DEF Attack
  <1>2. w \in Line!Window(DeckSize) /\ turn \in Turn
    BY TypeFacts DEF IInv
  <1>3. card \in Monsters /\ ~ Line!AlreadyNotActive(w, card)
    <2>1. card \in Places(w)
      BY <1>1 DEF Playable, CardOf
    <2>2. PICK s \in Line!Slots : card = w[s].at
      BY <1>2, <2>1 DEF Places, Line!Window
    <2>3. card \in Monsters
      BY <1>2, <2>2 DEF Line!Window, Monsters
    <2> QED  BY <2>2, <2>3 DEF Line!AlreadyNotActive, Line!Holders
  <1>4. chosen[p] # None
    BY <1>1 DEF IInv, Parts, FreshInTime, Attacks
  <1>5. /\ turn' = [turn EXCEPT !.monsters = Line!DeactivateByIndex(@, card)]
        /\ actor' = [actor EXCEPT ![p] = "attacked"]
        /\ aq' = [aq EXCEPT ![p] = Tail(@)]
        /\ UNCHANGED <<hand, chosen, seen, connVars, out, clientVars, crashed>>
    BY <1>3, <1>4 DEF Attack, Rest
  <1>6. /\ Line!DeactivateByIndex(w, card) \in Line!Window(DeckSize)
        /\ \A s \in Line!Slots : Line!DeactivateByIndex(w, card)[s].at = w[s].at
        /\ NoneOn(w) => NoneOn(Line!DeactivateByIndex(w, card))
    BY <1>2, <1>3, LineDrop
  <1> HIDE DEF card
  <1>7. /\ turn' \in Turn /\ turn'.phase = turn.phase /\ turn'.peers = turn.peers
        /\ SameTable
    BY <1>2, <1>5, <1>6 DEF Turn, SameTable
  <1>8. Active(turn)' = Active(turn) /\ HasActive(turn)'
    BY <1>7 DEF Active, HasActive, IInv, Typed
  <1> QED  BY <1>1, <1>5, <1>7, <1>8

LEMMA AttackStep ==
  ASSUME IInv, NEW p \in Players, Attack(p) PROVE IInv'
  <1>1. /\ p = Active(turn) /\ turn.phase = "AttachMonster"
        /\ Tail(aq[p]) \in Seq(Mail) /\ NoTurn(Tail(aq[p])) /\ NoMoveIn(Tail(aq[p]))
        /\ NoTurns(p) /\ Chose(p) /\ cin[p] = <<>> /\ pc[p] = "w_move"
        /\ Discarded(p) => Fresh(p)
    BY AttackFacts
  <1>2. /\ actor' = [actor EXCEPT ![p] = "attacked"]
        /\ aq' = [aq EXCEPT ![p] = Tail(@)]
        /\ UNCHANGED <<hand, chosen, seen, connVars, out, clientVars, crashed>>
    BY AttackFacts
  <1>3. turn' \in Turn /\ turn'.phase = turn.phase /\ SameTable
    BY AttackFacts
  <1>4. Active(turn)' = Active(turn) /\ HasActive(turn)'
    BY AttackFacts
  <1>5. Typed'
    BY AttackTyped DEF IInv
  <1>6. /\ aq'[p] = Tail(aq[p]) /\ actor'[p] = "attacked" /\ seen'[p] = seen[p]
         /\ hand'[p] = hand[p] /\ chosen'[p] = chosen[p]
         /\ out'[p] = out[p] /\ pc'[p] = pc[p] /\ cin'[p] = cin[p]
         /\ view'[p] = view[p] /\ pressed'[p] = pressed[p] /\ shown'[p] = shown[p]
    BY <1>2 DEF IInv, Typed, TypeOK, connVars, clientVars
  <1>7. ASSUME NEW r \in Players, r # p PROVE Parts(r)'
    <2>1. Same(r)
      BY <1>2, <1>7 DEF Same, SameShown, IInv, Typed, TypeOK, connVars, clientVars
    <2>2. NotHeld(r)
      BY <1>1, <1>7 DEF IInv, Parts, HasTurn
    <2>3. NotHeld(r)'
      BY <2>1, <2>2 DEF NotHeld, Chose, NoMoves, Same, SameShown
    <2>4. HasTurn(r)' /\ WaitComes(r)' /\ Dealt(r)' /\ HandShown(r)'
      BY <1>1, <1>3, <1>4, <1>7, <2>1, <2>3
         DEF IInv, Parts, HasTurn, WaitComes, Dealt, ToBeFull, HandShown, FromHand, Same, SameShown
    <2>5. FreshInTime(r)'
      BY <1>3, <1>4, <2>1, FreshStaysInPhase DEF IInv, Parts, Same
    <2> QED  BY <2>4, <2>5 DEF Parts
  <1>8. Parts(p)'
    <2>1. NoTurns(p)' /\ Chose(p)'
      BY <1>1, <1>6 DEF NoTurns, Chose
    <2>2. Attacking(p)'
      BY <1>1, <1>3, <1>6, <2>1 DEF Attacking
    <2>3. HasTurn(p)' /\ WaitComes(p)' /\ Dealt(p)' /\ HandShown(p)'
      BY <1>1, <1>3, <1>4, <1>6, <2>2
         DEF IInv, Parts, HasTurn, Held, WaitComes, Dealt, ToBeFull, HandShown, FromHand
    <2>4. FreshInTime(p)'
      <3>1. (AllGood(p) => AllGood(p)') /\ (Fresh(p) => Fresh(p)')
            /\ (\A i : FreshBefore(p, i) => FreshBefore(p, i)')
        BY <1>3, <1>6, FreshKept DEF IInv
      <3>2. Attacks(p) /\ Discarded(p) /\ ~ Attacked(p)'
        BY <1>1, <1>3, <1>4, ConstantFacts DEF Attacks, Discarded, Attacked
      <3> QED  BY <1>1, <1>6, <3>1, <3>2 DEF IInv, Parts, FreshInTime
    <2> QED  BY <2>3, <2>4 DEF Parts
  <1>9. \A r \in Players : CurrentComes(r)'
    BY <1>6 DEF CurrentComes
  <1> QED  BY <1>2, <1>5, <1>7, <1>8, <1>9 DEF IInv

-------------------------------------------------------------------------------
(* The switch to the next player.                                          *)

(* Who is where in the cycle after a switch was there before, or has just     *)
(* played.                                                                 *)
LEMMA SwitchPhases ==
  ASSUME Typed, turn' = SwitchToNextPlayer(turn), NEW r \in Players
  PROVE  /\ turn' \in Turn /\ HasActive(turn)' /\ Active(turn)' \in Players
         /\ r # Active(turn) => /\ Discarded(r)' => Discarded(r)
                                /\ Attacked(r)' => Attacked(r)
                                /\ ~ Attacks(r)'
                                /\ ToBeFull(r)' => ToBeFull(r)
         /\ r = Active(turn) => /\ Attacked(r)' => turn.phase = "AttachMonster"
                                /\ Attacks(r)' => turn.phase = "SelectAbility"
                                /\ ToBeFull(r)' => turn.phase = "Defend"
         /\ Discarded(r)' => turn'.monsters = turn.monsters
         /\ Attacked(r)' \/ Attacks(r)' => Discarded(r)'
  <1> DEFINE a == Active(turn)
             b == Active(turn)'
  <1>1. turn \in Turn /\ turn.phase \in Phases /\ HasActive(turn)
    BY DEF Typed, TypeOK, Turn
  <1>2. /\ turn' \in Turn /\ HasActive(turn') /\ a \in Players /\ Active(turn') \in Players
        /\ turn.phase = "DropAbility" =>
             IF a = PlayerCount - 1
             THEN turn'.phase = "SelectAbility" /\ Active(turn') = 0
             ELSE turn'.phase = "DropAbility" /\ Active(turn') = a + 1
        /\ turn.phase = "SelectAbility" =>
             turn'.phase = "AttachMonster" /\ Active(turn') = a
        /\ turn.phase = "AttachMonster" =>
             IF a = PlayerCount - 1
             THEN turn'.phase = "Defend" /\ Active(turn') = 0
             ELSE turn'.phase = "SelectAbility" /\ Active(turn') = a + 1
        /\ turn.phase = "Defend" =>
             IF a = PlayerCount - 1
             THEN turn'.phase = "DropAbility" /\ Active(turn') = 0
             ELSE turn'.phase = "Defend" /\ Active(turn') = a + 1
        /\ turn'.phase # "DropAbility" \/ Active(turn') # 0 => turn'.monsters = turn.monsters
    BY <1>1, SwitchFacts
  <1>3. b = Active(turn') /\ HasActive(turn)' = HasActive(turn')
    OBVIOUS
  <1>4. r \in Nat /\ a \in Nat /\ r <= PlayerCount - 1 /\ a <= PlayerCount - 1
        /\ PlayerCount \in Nat \ {0}
    BY <1>2, ConstantFacts DEF Players
  <1> HIDE DEF a, b
  <1> USE DEF Discarded, Attacked, Attacks, ToBeFull
  <1>5. CASE turn.phase = "DropAbility"
    BY <1>2, <1>3, <1>4, <1>5 DEF a, b
  <1>6. CASE turn.phase = "SelectAbility"
    BY <1>2, <1>3, <1>4, <1>6 DEF a, b
  <1>7. CASE turn.phase = "AttachMonster"
    BY <1>2, <1>3, <1>4, <1>7 DEF a, b
  <1>8. CASE turn.phase = "Defend"
    BY <1>2, <1>3, <1>4, <1>8 DEF a, b
  <1> QED  BY <1>1, <1>5, <1>6, <1>7, <1>8 DEF Phases

LEMMA SwitchStep ==
  ASSUME IInv, NEW p \in Players, p = Active(turn),
         NEW q \in [Players -> Seq(Mail)], SwitchToNext(p, turn, q),
         \A r \in Players : r # p => q[r] = aq[r],
         NoTurn(q[p]), NoMoveIn(q[p]), NoTurns(p), Chose(p), cin[p] = <<>>,
         hand' \in [Players -> Hand!Window(RankCount)],
         \A r \in Players : r # p => hand'[r] = hand[r],
         chosen' \in [Players -> Ranks \cup {None}],
         \A r \in Players : r # p => chosen'[r] = chosen[r],
         turn.phase = "Defend" => Full(hand'[p]),
         turn.phase = "AttachMonster" => hand'[p] = hand[p],
         turn.phase = "SelectAbility" =>
           hand'[p] = hand[p] /\ chosen'[p] # None /\ Fresh(p),
         HandShown(p)'
  PROVE  IInv'
  <1>1. /\ turn' = SwitchToNextPlayer(turn)
        /\ aq' = [r \in Players |-> Append(q[r], TurnMsg(StatusOf(turn', r)))]
        /\ pc' = [pc EXCEPT ![p] = "answer"] /\ actor' = [actor EXCEPT ![p] = "idle"]
        /\ UNCHANGED <<seen, move, out, clientVars, crashed>>
    BY DEF SwitchToNext
  <1>2. turn' \in Turn /\ turn'.phase \in Phases /\ HasActive(turn)'
    BY <1>1, SwitchPhases DEF IInv, Turn
  <1>3. ASSUME NEW r \in Players
        PROVE  LET m == TurnMsg(StatusOf(turn', r))
               IN  /\ m \in Mail /\ m.msg = "Turn"
                   /\ m.status = IF r = Active(turn') THEN turn'.phase ELSE Wait
    BY <1>2 DEF TurnMsg, StatusOf, Mail, ToClient, Statuses
  <1>4. Typed'
    BY SwitchTyped DEF IInv
  <1>5. ASSUME NEW r \in Players
        PROVE  /\ aq'[r] = Append(q[r], TurnMsg(StatusOf(turn', r)))
               /\ pc'[r] = IF r = p THEN "answer" ELSE pc[r]
               /\ actor'[r] = IF r = p THEN "idle" ELSE actor[r]
               /\ seen'[r] = seen[r] /\ out'[r] = out[r] /\ cin'[r] = cin[r]
               /\ view'[r] = view[r] /\ pressed'[r] = pressed[r] /\ shown'[r] = shown[r]
    BY <1>1 DEF IInv, Typed, TypeOK, clientVars
  <1>6. ASSUME NEW r \in Players
        PROVE  OnlyWaits(q[r]) /\ OnlyWaits(out[r]) /\ Chose(r) /\ cin[r] = <<>>
               /\ NoMoveIn(q[r]) /\ actor'[r] # "attacked"
    <2>1. CASE r = p
      BY <1>5, <2>1 DEF NoTurns, NoTurn, OnlyWaits
    <2>2. CASE r # p
      BY <1>5, <2>2 DEF IInv, Parts, HasTurn, NotHeld, NoMoves
    <2> QED  BY <2>1, <2>2
  <1>7. ASSUME NEW r \in Players PROVE HasTurn(r)' /\ WaitComes(r)'
    <2>1. /\ ~ NoTurn(aq'[r]) /\ NoMoveIn(aq'[r])
          /\ r # Active(turn') => OnlyWaits(aq'[r])
          /\ r = Active(turn') => \E i \in 1 .. Len(aq'[r]) : TokenAt(aq'[r], i, turn'.phase)
      <3>1. PICK m \in Mail : /\ m = TurnMsg(StatusOf(turn', r)) /\ m.msg = "Turn"
                              /\ m.status = IF r = Active(turn') THEN turn'.phase ELSE Wait
        BY <1>3
      <3>2. aq'[r] = Append(q[r], m) /\ q[r] \in Seq(Mail)
        BY <1>5, <3>1
      <3>3. Len(q[r]) + 1 \in 1 .. Len(aq'[r])
        BY <3>2, LastSent
      <3>4. /\ ~ NoTurn(Append(q[r], m))
            /\ m.status = Wait => OnlyWaits(Append(q[r], m))
            /\ NoMoveIn(Append(q[r], m))
            /\ TokenAt(Append(q[r], m), Len(q[r]) + 1, m.status)
        BY <1>6, <3>1, <3>2, SentTurn
      <3> QED  BY <3>1, <3>2, <3>3, <3>4
    <2>2. Chose(r)' /\ NoMoves(r)'
      BY <1>5, <1>6, <2>1 DEF Chose, NoMoves
    <2>3. r # Active(turn') => NotHeld(r)'
      BY <1>5, <1>6, <2>1, <2>2 DEF NotHeld
    <2>4. r = Active(turn') => InMailbox(r)'
      BY <1>5, <1>6, <2>1, <2>2 DEF InMailbox
    <2>5. Active(turn)' = Active(turn')
      OBVIOUS
    <2> QED  BY <2>1, <2>3, <2>4, <2>5 DEF HasTurn, Held, WaitComes
  <1>8. ASSUME NEW r \in Players, r # p PROVE Dealt(r)' /\ HandShown(r)' /\ FreshInTime(r)'
    <2>1. Parts(r) /\ hand'[r] = hand[r] /\ chosen'[r] = chosen[r]
      BY <1>8 DEF IInv
    <2>2. Dealt(r)'
      <3>1. ToBeFull(r)' => ToBeFull(r)
        BY <1>1, <1>8, SwitchPhases DEF IInv
      <3>2. Full(hand[r])' <=> Full(hand[r])
        BY <2>1 DEF Full, Hand!EndOfItems, Hand!Exhausted, Hand!NextIndex
      <3> QED  BY <2>1, <3>1, <3>2 DEF Parts, Dealt
    <2>3. HandShown(r)'
      <3>1. shown'[r] = shown[r] /\ out'[r] = out[r]
        BY <1>5
      <3>2. \A c : FromHand(r, c)' <=> FromHand(r, c)
        BY <2>1 DEF FromHand
      <3> QED  BY <2>1, <3>1, <3>2 DEF Parts, HandShown
    <2>4. CASE Discarded(r)'
      <3>1. Discarded(r) /\ turn'.monsters = turn.monsters /\ ~ Attacks(r)'
            /\ (Attacked(r)' => Attacked(r))
        BY <1>1, <1>8, <2>4, SwitchPhases DEF IInv
      <3>2. (\A items : OnTable(items) => OnTable(items)') /\ (AllGood(r) => AllGood(r)')
            /\ (Fresh(r) => Fresh(r)')
        BY <1>5, <1>8, <2>1, <3>1, FreshKept DEF SameTable, IInv
      <3>3. SyncFirst(r) => SyncFirst(r)'
        <4>1. PICK m \in Mail : m = TurnMsg(StatusOf(turn', r)) /\ m.msg = "Turn"
          BY <1>3
        <4>2. aq'[r] = Append(aq[r], m) /\ aq[r] \in Seq(Mail)
          BY <1>5, <1>8, <4>1
        <4>3. /\ \A i \in 1 .. Len(aq[r]) : i \in 1 .. Len(aq'[r]) /\ aq'[r][i] = aq[r][i]
              /\ \A i \in 1 .. Len(aq'[r]) : aq'[r][i].msg = "Move" =>
                   i \in 1 .. Len(aq[r]) /\ aq'[r][i] = aq[r][i]
          BY <4>1, <4>2, LastSent
        <4>4. \A i \in 1 .. Len(aq[r]) :
                aq[r][i].msg = "SyncWithClient"
                /\ (\A j \in 1 .. Len(aq[r]) : aq[r][j].msg = "Move" => i < j)
                => i \in 1 .. Len(aq'[r]) /\ aq'[r][i].msg = "SyncWithClient"
                   /\ \A j \in 1 .. Len(aq'[r]) : aq'[r][j].msg = "Move" => i < j
          BY <4>3
        <4> QED  BY <4>4 DEF SyncFirst
      <3>4. pc'[r] = pc[r] /\ actor'[r] = actor[r] /\ seen'[r] = seen[r]
        BY <1>5, <1>8
      <3>5. actor'[r] = "syncing" => OnTable(seen[r])'
        BY <2>1, <3>1, <3>2, <3>4 DEF Parts, FreshInTime
      <3>6. Fresh(r)' \/ actor'[r] = "syncing" \/ SyncFirst(r)' \/ pc'[r] = "answer"
        BY <2>1, <3>1, <3>2, <3>3, <3>4 DEF Parts, FreshInTime
      <3>7. Attacked(r)' => AllGood(r)'
        BY <2>1, <3>1, <3>2 DEF Parts, FreshInTime
      <3> QED  BY <2>2, <2>3, <3>1, <3>5, <3>6, <3>7 DEF FreshInTime
    <2>5. CASE ~ Discarded(r)'
      <3>1. ~ Attacked(r)' /\ ~ Attacks(r)'
        BY <1>1, <2>5, SwitchPhases DEF IInv
      <3> QED  BY <2>5, <3>1, <2>2, <2>3 DEF FreshInTime
    <2> QED  BY <2>2, <2>3, <2>4, <2>5
  <1>9. Dealt(p)' /\ FreshInTime(p)'
    <2>1. Dealt(p)'
      BY <1>1, SwitchPhases DEF IInv, Dealt
    <2>2. ASSUME Attacked(p)' PROVE AllGood(p)'
      <3>1. turn.phase = "AttachMonster" /\ turn'.monsters = turn.monsters
        BY <1>1, <2>2, SwitchPhases DEF IInv
      <3>2. AllGood(p)
        BY <3>1 DEF IInv, Parts, FreshInTime, Attacks
      <3> QED  BY <1>5, <3>1, <3>2, FreshKept DEF SameTable, IInv
    <2>3. ASSUME Attacks(p)'
          PROVE  chosen'[p] # None /\ Fresh(p)' /\ ~ NoTurns(p)' /\ NoTurn(out'[p])
      <3>1. turn.phase = "SelectAbility" /\ turn'.monsters = turn.monsters
        BY <1>1, <2>3, SwitchPhases DEF IInv
      <3>2. chosen'[p] # None /\ Fresh(p)'
        BY <1>5, <3>1, FreshKept DEF SameTable, IInv
      <3>3. ~ NoTurn(aq'[p])
        <4>1. PICK m \in Mail : m = TurnMsg(StatusOf(turn', p)) /\ m.msg = "Turn"
          BY <1>3
        <4>2. aq'[p] = Append(q[p], m) /\ q[p] \in Seq(Mail)
          BY <1>5, <4>1
        <4> QED  BY <4>1, <4>2, SentTurn
      <3> QED  BY <1>5, <3>2, <3>3 DEF NoTurns
    <2>4. actor'[p] = "idle" /\ pc'[p] = "answer"
      BY <1>5
    <2> QED  BY <2>1, <2>2, <2>3, <2>4 DEF FreshInTime, NoTurn
  <1>10. \A r \in Players : CurrentComes(r)'
    <2>1. pc'[p] = "answer"
      BY <1>5
    <2> QED  BY <2>1 DEF CurrentComes
  <1>11. \A r \in Players : Parts(r)'
    BY <1>7, <1>8, <1>9 DEF Parts
  <1> QED  BY <1>1, <1>4, <1>10, <1>11 DEF IInv

-------------------------------------------------------------------------------
(* The moves that switch to the next player.                               *)

LEMMA DropAbilityStep ==
  ASSUME IInv, NEW p \in Players, DropAbility(p) PROVE IInv'
  <1> DEFINE card == CardOf(p)
             w    == hand[p]
             d    == Hand!DeactivateByIndex(w, card)
  <1>1. /\ p = Active(turn) /\ turn.phase = "DropAbility" /\ Playable(p, Head(aq[p]))
        /\ Tail(aq[p]) \in Seq(Mail) /\ NoTurn(Tail(aq[p])) /\ NoMoveIn(Tail(aq[p]))
        /\ NoTurns(p) /\ Chose(p) /\ cin[p] = <<>>
    BY MoveTaken DEF DropAbility
  <1>2. w \in Hand!Window(RankCount) /\ chosen \in [Players -> Ranks \cup {None}]
    BY TypeFacts DEF IInv, Typed, TypeOK
  <1>3. card \in Ranks /\ ~ Hand!AlreadyNotActive(w, card)
    <2>1. card \in Places(w)
      BY <1>1 DEF Playable, CardOf
    <2>2. PICK s \in Hand!Slots : card = w[s].at
      BY <1>2, <2>1 DEF Places, Hand!Window
    <2>3. card \in Ranks
      BY <1>2, <2>2 DEF Hand!Window, Ranks
    <2> QED  BY <2>2, <2>3 DEF Hand!AlreadyNotActive, Hand!Holders
  <1>4. /\ hand' = [hand EXCEPT ![p] = d] /\ SwitchToNext(p, turn, Rest(p)) /\ chosen' = chosen
    BY <1>3 DEF DropAbility
  <1>5. d \in Hand!Window(RankCount) /\ \A s \in Hand!Slots : d[s].at = w[s].at
    BY <1>2, <1>3, HandDrop
  <1> HIDE DEF card, d
  <1>6. /\ hand' \in [Players -> Hand!Window(RankCount)] /\ hand'[p] = d
        /\ \A r \in Players : r # p => hand'[r] = hand[r]
    BY <1>4, <1>5 DEF IInv, Typed, TypeOK
  <1>7. HandShown(p)'
    <2>1. \A c : FromHand(p, c) => FromHand(p, c)'
      BY <1>5, <1>6 DEF FromHand
    <2>2. shown'[p] = shown[p] /\ out'[p] = out[p]
      BY <1>4 DEF SwitchToNext, clientVars
    <2> QED  BY <2>1, <2>2 DEF IInv, Parts, HandShown
  <1>8. /\ Rest(p) \in [Players -> Seq(Mail)] /\ Rest(p)[p] = Tail(aq[p])
        /\ \A r \in Players : r # p => Rest(p)[r] = aq[r]
    BY <1>1, RestFacts DEF IInv
  <1>9. /\ chosen' \in [Players -> Ranks \cup {None}]
        /\ \A r \in Players : r # p => chosen'[r] = chosen[r]
        /\ turn.phase \notin {"Defend", "AttachMonster", "SelectAbility"}
    BY <1>1, <1>2, <1>4
  <1>10. /\ hand' \in [Players -> Hand!Window(RankCount)]
         /\ \A r \in Players : r # p => hand'[r] = hand[r]
         /\ SwitchToNext(p, turn, Rest(p))
    BY <1>4, <1>6
  <1> QED  BY <1>1, <1>7, <1>8, <1>9, <1>10, SwitchStep

LEMMA SelectAbilityStep ==
  ASSUME IInv, NEW p \in Players, SelectAbility(p) PROVE IInv'
  <1>1. /\ p = Active(turn) /\ turn.phase = "SelectAbility" /\ Playable(p, Head(aq[p]))
        /\ Tail(aq[p]) \in Seq(Mail) /\ NoTurn(Tail(aq[p])) /\ NoMoveIn(Tail(aq[p]))
        /\ NoTurns(p) /\ Chose(p) /\ cin[p] = <<>> /\ Fresh(p)
    BY MoveTaken DEF SelectAbility, Discarded
  <1>2. PICK card \in Ranks : card = CardOf(p) /\ card # None
    BY <1>1, ConstantFacts DEF Playable, CardOf
  <1>3. /\ chosen' = [chosen EXCEPT ![p] = card]
        /\ SwitchToNext(p, turn, Rest(p)) /\ hand' = hand
    BY <1>2 DEF SelectAbility
  <1>4. /\ chosen' \in [Players -> Ranks \cup {None}] /\ chosen'[p] # None
        /\ \A r \in Players : r # p => chosen'[r] = chosen[r]
        /\ hand' \in [Players -> Hand!Window(RankCount)]
        /\ \A r \in Players : hand'[r] = hand[r]
    BY <1>2, <1>3 DEF IInv, Typed, TypeOK
  <1>5. HandShown(p)'
    <2>1. \A c : FromHand(p, c)' <=> FromHand(p, c)
      BY <1>4 DEF FromHand
    <2>2. shown'[p] = shown[p] /\ out'[p] = out[p]
      BY <1>3 DEF SwitchToNext, clientVars
    <2> QED  BY <2>1, <2>2 DEF IInv, Parts, HandShown
  <1>6. /\ Rest(p) \in [Players -> Seq(Mail)] /\ Rest(p)[p] = Tail(aq[p])
        /\ \A r \in Players : r # p => Rest(p)[r] = aq[r]
    BY <1>1, RestFacts DEF IInv
  <1>7. SwitchToNext(p, turn, Rest(p))
    BY <1>3
  <1>8. turn.phase = "SelectAbility" =>
          hand'[p] = hand[p] /\ chosen'[p] # None /\ Fresh(p)
    BY <1>1, <1>4
  <1>9. (turn.phase = "Defend" => Full(hand'[p])) /\ hand'[p] = hand[p]
        /\ \A r \in Players : r # p => hand'[r] = hand[r]
    BY <1>1, <1>4
  <1> QED  BY <1>1, <1>4, <1>5, <1>6, <1>7, <1>8, <1>9, SwitchStep

LEMMA EndAttackStep ==
  ASSUME IInv, NEW p \in Players, EndAttack(p) PROVE IInv'
  <1>1. SwitchToNext(p, turn, aq) /\ hand' = hand /\ chosen' = chosen /\ actor[p] = "attacked"
    BY DEF EndAttack
  <1>2. HasTurn(p) /\ HandShown(p)
    BY DEF IInv, Parts
  <1>3. p = Active(turn) /\ Attacking(p)
    BY <1>1, <1>2 DEF HasTurn, Held, NotHeld, InMailbox, OnTheWay, AtClient, Played, AtActor,
                      NoMoves
  <1>4. /\ turn.phase = "AttachMonster" /\ NoTurn(aq[p]) /\ NoMoveIn(aq[p])
        /\ NoTurns(p) /\ Chose(p) /\ cin[p] = <<>>
    BY <1>3 DEF Attacking, NoTurns
  <1>5. /\ aq \in [Players -> Seq(Mail)] /\ hand' \in [Players -> Hand!Window(RankCount)]
        /\ chosen' \in [Players -> Ranks \cup {None}]
        /\ \A r \in Players : hand'[r] = hand[r] /\ chosen'[r] = chosen[r]
    BY <1>1 DEF IInv, Typed, TypeOK, Mail
  <1>6. HandShown(p)'
    <2>1. \A c : FromHand(p, c)' <=> FromHand(p, c)
      BY <1>5 DEF FromHand
    <2>2. shown'[p] = shown[p] /\ out'[p] = out[p]
      BY <1>1 DEF SwitchToNext, clientVars
    <2> QED  BY <1>2, <2>1, <2>2 DEF HandShown
  <1> QED  BY <1>1, <1>3, <1>4, <1>5, <1>6, SwitchStep

(* All that is shown after an attack is without the cards discarded, so a deal *)
(* takes no shown card from its slot.                                      *)
LEMMA ContinueStep ==
  ASSUME IInv, NEW p \in Players, ContinueGame(p) PROVE IInv'
  <1> DEFINE w == hand[p]
             d == Hand!NextActives(w, RankCount)
  <1>1. /\ p = Active(turn) /\ turn.phase = "Defend"
        /\ Tail(aq[p]) \in Seq(Mail) /\ NoTurn(Tail(aq[p])) /\ NoMoveIn(Tail(aq[p]))
        /\ NoTurns(p) /\ Chose(p) /\ cin[p] = <<>>
    BY MoveTaken DEF ContinueGame
  <1>2. w \in Hand!Window(RankCount) /\ chosen \in [Players -> Ranks \cup {None}]
    BY TypeFacts DEF IInv, Typed, TypeOK
  <1>3. hand' = [hand EXCEPT ![p] = d] /\ SwitchToNext(p, turn, Rest(p)) /\ chosen' = chosen
    BY DEF ContinueGame
  <1>4. /\ d \in Hand!Window(RankCount) /\ Full(d)
        /\ \A s \in Hand!Slots : w[s].on => d[s].at = w[s].at
    BY <1>2, HandDeal
  <1> HIDE DEF d
  <1>5. /\ hand' \in [Players -> Hand!Window(RankCount)] /\ hand'[p] = d /\ Full(hand'[p])
        /\ \A r \in Players : r # p => hand'[r] = hand[r]
    BY <1>3, <1>4 DEF IInv, Typed, TypeOK
  <1>6. HandShown(p)'
    <2>1. AllGood(p) /\ HandShown(p)
      BY <1>1, ConstantFacts DEF IInv, Parts, FreshInTime, Attacked
    <2>2. \A c : FromHand(p, c) /\ Good(p, c) => FromHand(p, c)'
      BY <1>4, <1>5 DEF FromHand, Good
    <2>3. shown'[p] = shown[p] /\ out'[p] = out[p]
      BY <1>3 DEF SwitchToNext, clientVars
    <2>4. FromHand(p, shown[p]) /\ Good(p, shown[p])
      BY <2>1 DEF AllGood, GoodAt, HandShown
    <2>5. \A i \in 1 .. Len(out[p]) : out[p][i].msg = "UpdateGameData" =>
            FromHand(p, out[p][i].cards) /\ Good(p, out[p][i].cards)
      <3>1. \A i \in 1 .. Len(out[p]) : i >= 1
        OBVIOUS
      <3> QED  BY <2>1, <3>1 DEF AllGood, GoodFrom, GoodAt, HandShown
    <2> QED  BY <2>2, <2>3, <2>4, <2>5 DEF HandShown
  <1>7. /\ Rest(p) \in [Players -> Seq(Mail)] /\ Rest(p)[p] = Tail(aq[p])
        /\ \A r \in Players : r # p => Rest(p)[r] = aq[r]
    BY <1>1, RestFacts DEF IInv
  <1>8. /\ chosen' \in [Players -> Ranks \cup {None}]
        /\ \A r \in Players : r # p => chosen'[r] = chosen[r]
        /\ turn.phase \notin {"AttachMonster", "SelectAbility"}
    BY <1>1, <1>2, <1>3
  <1>9. /\ hand' \in [Players -> Hand!Window(RankCount)] /\ Full(hand'[p])
        /\ \A r \in Players : r # p => hand'[r] = hand[r]
        /\ SwitchToNext(p, turn, Rest(p))
    BY <1>3, <1>5
  <1> QED  BY <1>1, <1>6, <1>7, <1>8, <1>9, SwitchStep

-------------------------------------------------------------------------------
(* The invariant.                                                          *)

LEMMA InitInv == ASSUME Init PROVE IInv
  <1>1. /\ turn = StartTurn /\ turn \in Turn /\ HasActive(turn) /\ Active(turn) = 0
        /\ turn.phase = "DropAbility" /\ turn.monsters \in Line!Window(DeckSize)
    BY StartFacts DEF Init, StartTurn, Turn
  <1>2. Hand!WithItems \in Hand!Window(RankCount) /\ \A s \in Hand!Slots : Hand!WithItems[s].on
    BY ConstantFacts DEF Hand!WithItems, Hand!Window, Hand!Enable
  <1>3. ASSUME NEW p \in Players
        PROVE  LET m == TurnMsg(StatusOf(turn, p))
               IN  /\ m \in Mail /\ m.msg = "Turn"
                   /\ m.status = IF p = 0 THEN "DropAbility" ELSE Wait
    BY <1>1 DEF TurnMsg, StatusOf, Mail, ToClient, Statuses, Phases
  <1>4. ASSUME NEW p \in Players PROVE Current(p) \in Shown /\ shown[p] = Current(p)
    BY <1>1, <1>2, ItemsOf DEF Init, Current, Shown
  <1>5. Typed
    <2>1. shown \in [Players -> Shown]
      BY <1>4 DEF Init
    <2>2. aq \in [Players -> Seq(Mail)]
      BY <1>3 DEF Init
    <2>3. NoMove \in Moves /\ NoMove.kind \notin {"SelectAbility", "AttachMonster"}
      BY DEF NoMove, MoveMsg, Moves, Wait
    <2>4. 0 \in Hand!Slots /\ 0 \in Line!Slots
      BY ConstantFacts
    <2>5. /\ hand \in [Players -> Hand!Window(RankCount)]
          /\ seen \in [Players -> [Line!Slots -> Monsters \cup {None}]]
          /\ move \in [Players -> Moves] /\ view \in [Players -> Statuses]
      BY <1>2, <2>3 DEF Init, Unseen, Statuses
    <2>6. at \in [Players -> [hand     : Hand!Slots \cup {None},
                              monsters : Line!Slots \cup {None}]]
      BY <2>4 DEF Init
    <2>7. \A p \in Players : move[p].kind \notin {"SelectAbility", "AttachMonster"}
      BY <2>3 DEF Init
    <2>8. late \in [confirm : 0 .. LateConfirms, cursor : 0 .. LateKeys]
      BY CardAssumption DEF Init
    <2>9. /\ chosen \in [Players -> Ranks \cup {None}]
          /\ actor \in [Players -> {"idle", "attacked", "syncing"}]
          /\ pc \in [Players -> {"read", "w_move", "answer"}]
          /\ out \in [Players -> Seq(ToClient)] /\ cin \in [Players -> Seq(Moves)]
          /\ pressed \in [Players -> BOOLEAN] /\ crashed \in {"no", "client", "actor"}
      BY DEF Init
    <2>10. TypeOK
      BY <1>1, <2>1, <2>2, <2>5, <2>6, <2>8, <2>9 DEF TypeOK, Mail
    <2> QED  BY <1>1, <2>7, <2>10 DEF Typed
  <1>6. ASSUME NEW p \in Players PROVE Parts(p) /\ CurrentComes(p)
    <2>1. /\ aq[p] = <<TurnMsg(StatusOf(turn, p))>> /\ out[p] = <<>> /\ cin[p] = <<>>
          /\ actor[p] = "idle" /\ view[p] = Wait /\ hand[p] = Hand!WithItems
      BY DEF Init
    <2>2. PICK m : m = TurnMsg(StatusOf(turn, p))
      OBVIOUS
    <2>3. /\ aq[p] = <<m>> /\ m.msg = "Turn"
          /\ m.status = IF p = 0 THEN turn.phase ELSE Wait
      BY <1>1, <1>3, <2>1, <2>2
    <2>4. Len(aq[p]) = 1 /\ aq[p][1] = m /\ \A i \in 1 .. Len(aq[p]) : i = 1
      BY <2>3
    <2>5. Chose(p) /\ NoMoves(p) /\ OnlyWaits(out[p]) /\ ~ NoTurn(aq[p])
      BY <2>1, <2>3, <2>4 DEF Chose, NoMoves, NoMoveIn, OnlyWaits, NoTurn
    <2>6. HasTurn(p)
      <3>1. CASE p = 0
        <4>1. 1 \in 1 .. Len(aq[p]) /\ TokenAt(aq[p], 1, turn.phase)
          BY <2>3, <2>4, <3>1 DEF TokenAt
        <4>2. InMailbox(p)
          BY <2>5, <4>1 DEF InMailbox
        <4> QED  BY <1>1, <3>1, <4>2 DEF HasTurn, Held
      <3>2. CASE p # 0
        BY <1>1, <2>3, <2>4, <2>5, <3>2 DEF HasTurn, NotHeld, OnlyWaits
      <3> QED  BY <3>1, <3>2
    <2>7. WaitComes(p) /\ Dealt(p)
      BY <1>2, <2>1 DEF WaitComes, Dealt, Full
    <2>8. HandShown(p)
      <3>1. FromHand(p, shown[p])
        <4>1. shown[p].hand = Items(Hand!WithItems)
          <5>1. shown[p] = [hand |-> Items(hand[p]), monsters |-> Items(turn.monsters)]
            BY <1>4 DEF Current
          <5> QED  BY <2>1, <5>1
        <4>2. \A s \in Hand!Slots :
                Items(Hand!WithItems)[s] \in {None, Hand!WithItems[s].at}
          BY <1>2, ItemsOf
        <4> QED  BY <2>1, <4>1, <4>2 DEF FromHand
      <3> QED  BY <2>1, <3>1 DEF HandShown
    <2>9. FreshInTime(p)
      BY <1>1, ConstantFacts DEF FreshInTime, Discarded, Attacked, Attacks, Players
    <2>10. CurrentComes(p)
      BY <1>4, <2>1 DEF CurrentComes, LastIsCurrent
    <2> QED  BY <2>6, <2>7, <2>8, <2>9, <2>10 DEF Parts
  <1>7. crashed # "actor"
    BY DEF Init
  <1> QED  BY <1>5, <1>6, <1>7 DEF IInv

LEMMA StepInv == ASSUME IInv, [Next]_vars, OnceEach' PROVE IInv'
  <1>1. ASSUME UNCHANGED vars PROVE IInv'
    <2>1. UNCHANGED <<serverVars, connVars, out, clientVars, crashed>>
      BY <1>1 DEF vars
    <2>2. Typed'
      BY TypedStep DEF IInv
    <2> QED  BY <2>1, <2>2, OnlyCursors DEF IInv, connVars, clientVars
  <1>2. ASSUME NEW p \in Players, Client(p) PROVE IInv'
    BY <1>2, MoveCursorStep, ConfirmStep, ReceiveStep DEF Client
  <1>3. ASSUME NEW p \in Players, ServerSide(p) PROVE IInv'
    BY <1>3, ReadMoveStep, EndOfTurnStep, ForwardStep, DropAbilityStep, SelectAbilityStep,
       AttackStep, EndAttackStep, ContinueStep, StartSyncStep, EndSyncStep DEF ServerSide
  <1> QED  BY <1>1, <1>2, <1>3 DEF Next

LEMMA TypesInvariance == Spec => []Typed
  <1>1. Init => Typed
    BY InitInv DEF IInv
  <1>2. Typed /\ [Next]_vars => Typed'
    BY TypedStep
  <1> QED  BY <1>1, <1>2, PTL DEF Spec

(* The invariant holds until a client confirms twice for a Turn message. *)
LEMMA Invariance == Spec => [](Typed /\ (OnceEach => IInv))
  <1>1. Init => Typed /\ (OnceEach => IInv)
    BY InitInv DEF IInv
  <1>2. Typed /\ (OnceEach => IInv) /\ [Next]_vars => (Typed /\ (OnceEach => IInv))'
    BY TypedStep, LateGrows, StepInv
  <1> QED  BY <1>1, <1>2, PTL DEF Spec

-------------------------------------------------------------------------------
(* Lists that become empty, and the cursors in them.                       *)

(* After message i the hand is shown without a card, as it is. *)
HandStaysEmpty(p, i) ==
  /\ NoneOn(hand[p])
  /\ \A j \in 1 .. Len(out[p]) :
       j > i /\ out[p][j].msg = "UpdateGameData" => Empty(out[p][j].cards.hand)

HandEmptied(p) ==
  /\ Empty(shown[p].hand) => HandStaysEmpty(p, 0)
  /\ \A i \in 1 .. Len(out[p]) :
       out[p][i].msg = "UpdateGameData" /\ Empty(out[p][i].cards.hand) => HandStaysEmpty(p, i)

(* The connection keeps the move that its actor has yet to make. *)
MoveKept(p) == \A i \in 1 .. Len(aq[p]) : aq[p][i].msg = "Move" => move[p] = aq[p][i]

(* A client that selects an ability without a card in its hand ends when it   *)
(* reads that the ability was accepted, and that is before its next turn.  *)
Ending(p, i) ==
  /\ out[p][i].msg = "Accepted" /\ out[p][i].kind = "SelectAbility" /\ FreshBefore(p, i)
  /\ turn.phase = "Defend" /\ p = Active(turn) =>
       ~ NoTurn(aq[p]) \/ \E j \in 1 .. Len(out[p]) : i < j /\ out[p][j].msg = "Turn"
Ends(p) == \E i \in 1 .. Len(out[p]) : Ending(p, i)

HandLeft(p) ==
  Attacks(p) \/ Attacked(p) =>
    \/ ~ NoneOn(hand[p])
    \/ Attacks(p) /\ pc[p] = "answer" /\ move[p].kind = "SelectAbility"
    \/ Ends(p)

CursorsLost(p) ==
  /\ at[p].hand = None => Empty(shown[p].hand)
  /\ at[p].monsters = None =>
       view[p] = "AttachMonster" /\ ~ pressed[p] /\ Empty(shown[p].monsters)

Lists(p) == HandEmptied(p) /\ MoveKept(p) /\ HandLeft(p) /\ CursorsLost(p)

CInv == IInv /\ \A p \in Players : Lists(p)

-------------------------------------------------------------------------------
(* Who has no part in a step.                                              *)

LEMMA HandStaysEmptied ==
  ASSUME NEW p \in Players, HandEmptied(p), out'[p] = out[p], shown'[p] = shown[p],
         NoneOn(hand[p]) => NoneOn(hand'[p])
  PROVE  HandEmptied(p)'
  <1>1. \A i : HandStaysEmpty(p, i) => HandStaysEmpty(p, i)'
    BY DEF HandStaysEmpty
  <1> QED  BY <1>1 DEF HandEmptied

LEMMA HandStaysLeft ==
  ASSUME NEW p \in Players, HandLeft(p), turn'.phase = turn.phase,
         Active(turn)' = Active(turn), hand'[p] = hand[p], out'[p] = out[p],
         NoTurn(aq[p])' => NoTurn(aq[p]),
         pc[p] = "answer" => pc'[p] = "answer" /\ move'[p] = move[p],
         \A i : FreshBefore(p, i) => FreshBefore(p, i)'
  PROVE  HandLeft(p)'
  <1>1. (Attacked(p)' <=> Attacked(p)) /\ (Attacks(p)' <=> Attacks(p))
    BY DEF Attacked, Attacks
  <1>2. \A i \in 1 .. Len(out[p]) : Ending(p, i) => Ending(p, i)'
    BY DEF Ending
  <1>3. Ends(p) => Ends(p)'
    BY <1>2 DEF Ends
  <1> QED  BY <1>1, <1>3 DEF HandLeft

LEMMA CursorsStay ==
  ASSUME NEW p \in Players, CursorsLost(p), view'[p] = view[p], pressed'[p] = pressed[p],
         shown'[p] = shown[p], at'[p] = at[p]
  PROVE  CursorsLost(p)'
  BY DEF CursorsLost

LEMMA ListsStay ==
  ASSUME Typed, NEW p \in Players, Lists(p), SameShown(p), pc'[p] = pc[p],
         move'[p] = move[p], turn' = turn
  PROVE  HandEmptied(p)' /\ MoveKept(p)' /\ HandLeft(p)'
  <1>1. \A i : FreshBefore(p, i) => FreshBefore(p, i)'
    BY FreshKept DEF SameShown, SameTable
  <1>2. HandLeft(p)'
    BY <1>1, HandStaysLeft DEF Lists, SameShown
  <1>3. HandEmptied(p)'
    BY HandStaysEmptied DEF Lists, SameShown
  <1> QED  BY <1>2, <1>3 DEF Lists, MoveKept, SameShown

LEMMA ListsUntouched ==
  ASSUME Typed, NEW p \in Players, Lists(p), Same(p), move'[p] = move[p], at'[p] = at[p],
         turn' = turn
  PROVE  Lists(p)'
  <1>1. HandEmptied(p)' /\ MoveKept(p)' /\ HandLeft(p)'
    BY ListsStay DEF Same
  <1>2. CursorsLost(p)'
    BY CursorsStay DEF Lists, Same, SameShown
  <1> QED  BY <1>1, <1>2 DEF Lists

LEMMA NothingMoves ==
  ASSUME CInv, UNCHANGED <<serverVars, connVars, out, clientVars>>
  PROVE  \A r \in Players : Lists(r)'
  <1>1. \A r \in Players : Same(r) /\ move'[r] = move[r] /\ at'[r] = at[r] /\ turn' = turn
    BY DEF serverVars, connVars, clientVars, Same, SameShown
  <1> QED  BY <1>1, ListsUntouched DEF CInv, IInv

-------------------------------------------------------------------------------
(* The client.                                                             *)

LEMMA MoveCursorLists ==
  ASSUME CInv, NEW p \in Players, MoveCursor(p), KeysFirst'
  PROVE  \A r \in Players : Lists(r)'
  <1>1. CASE Stop("client")
    BY <1>1, NothingMoves DEF Stop
  <1>2. CASE crashed' = crashed
    <2>1. PICK which \in {"hand", "monsters"}, to \in Int :
           /\ which = ListFor(view[p])
           /\ at' = [at EXCEPT ![p][which] = to]
           /\ Filled(shown[p][which]) # {} => OnItem(shown[p][which], to)
           /\ late' = Counted(p, "cursor")
           /\ UNCHANGED <<serverVars, connVars, out, cin, view, pressed, shown, crashed>>
      BY <1>2, CursorFacts DEF CInv, IInv
    <2>2. /\ view[p] \in Phases /\ ~ pressed[p]
          /\ to = None => Empty(shown[p][which])
      <3>1. ~ pressed[p]
        <4>1. MayPress(p, "cursor") /\ late'.cursor = 0
          BY DEF MoveCursor, KeysFirst
        <4> QED  BY <2>1, <4>1, CountedTyped, TypeFacts DEF CInv, IInv
      <3> QED  BY <2>1, <3>1 DEF MoveCursor, OnItem, Empty
    <2>3. /\ \A r \in Players : Same(r) /\ move'[r] = move[r] /\ turn' = turn
          /\ \A r \in Players \ {p} : at'[r] = at[r]
          /\ at'[p] = [at[p] EXCEPT ![which] = to]
      BY <2>1 DEF serverVars, connVars, Same, SameShown, CInv, IInv, Typed, TypeOK
    <2>4. at[p] \in [hand : Hand!Slots \cup {None}, monsters : Line!Slots \cup {None}]
      BY TypeFacts DEF CInv, IInv
    <2>5. CursorsLost(p)'
      <3>1. CASE which = "hand"
        <4>1. at'[p].hand = to /\ at'[p].monsters = at[p].monsters
          BY <2>3, <2>4, <3>1
        <4> QED  BY <2>2, <2>3, <3>1, <4>1 DEF CInv, Lists, CursorsLost, Same, SameShown
      <3>2. CASE which = "monsters"
        <4>1. at'[p].hand = at[p].hand /\ at'[p].monsters = to
          BY <2>3, <2>4, <3>2
        <4>2. view[p] = "AttachMonster"
          BY <2>1, <3>2 DEF ListFor
        <4> QED  BY <2>2, <2>3, <3>2, <4>1, <4>2 DEF CInv, Lists, CursorsLost, Same, SameShown
      <3> QED  BY <3>1, <3>2
    <2>6. HandEmptied(p)' /\ MoveKept(p)' /\ HandLeft(p)'
      BY <2>3, ListsStay DEF CInv, IInv, Same
    <2>7. \A r \in Players \ {p} : Lists(r)'
      BY <2>3, ListsUntouched DEF CInv, IInv
    <2> QED  BY <2>5, <2>6, <2>7 DEF Lists
  <1> QED  BY <1>1, <1>2 DEF MoveCursor

(* A client that has no cursor in the monsters can confirm nothing. *)
LEMMA ConfirmLists ==
  ASSUME CInv, NEW p \in Players, ConfirmSelected(p)
  PROVE  \A r \in Players : Lists(r)'
  <1>1. CASE Stop("client")
    BY <1>1, NothingMoves DEF Stop
  <1>2. ASSUME NEW card, Send(p, card),
               view[p] = "AttachMonster" => OnItem(shown[p].monsters, at[p].monsters)
        PROVE  \A r \in Players : Lists(r)'
    <2>1. /\ \A r \in Players : SameShown(r) /\ pc'[r] = pc[r] /\ move'[r] = move[r]
          /\ \A r \in Players : view'[r] = view[r] /\ shown'[r] = shown[r] /\ at'[r] = at[r]
          /\ \A r \in Players \ {p} : Same(r) /\ turn' = turn
          /\ turn' = turn
      BY <1>2 DEF Send, serverVars, connVars, SameShown, Same, CInv, IInv, Typed, TypeOK
    <2>2. at[p].monsters # None
      BY <1>2 DEF CInv, Lists, CursorsLost, OnItem
    <2>3. CursorsLost(p)'
      BY <2>1, <2>2 DEF CInv, Lists, CursorsLost
    <2>4. HandEmptied(p)' /\ MoveKept(p)' /\ HandLeft(p)'
      BY <2>1, ListsStay DEF CInv, IInv
    <2>5. \A r \in Players \ {p} : Lists(r)'
      BY <2>1, ListsUntouched DEF CInv, IInv
    <2> QED  BY <2>3, <2>4, <2>5 DEF Lists
  <1>3. ListFor("AttachMonster") = "monsters"
    BY DEF ListFor
  <1> QED  BY <1>1, <1>2, <1>3 DEF ConfirmSelected

LEMMA ReceiveLists ==
  ASSUME CInv, NEW p \in Players, ReceiveMessage(p)
  PROVE  \A r \in Players : Lists(r)'
  <1> DEFINE q == out[p]
             t == out'[p]
             m == Head(out[p])
  <1>1. CASE Stop("client")
    BY <1>1, NothingMoves DEF Stop
  <1>2. CASE ~ Stop("client")
    <2>1. /\ q # <<>> /\ out' = [out EXCEPT ![p] = Tail(@)]
          /\ m.msg = "Accepted" => Shows(p, m)
          /\ view' = IF m.msg = "Turn" THEN [view EXCEPT ![p] = m.status] ELSE view
          /\ pressed' = IF m.msg = "Turn" THEN [pressed EXCEPT ![p] = FALSE] ELSE pressed
          /\ shown' = IF m.msg = "UpdateGameData" THEN [shown EXCEPT ![p] = m.cards] ELSE shown
          /\ UNCHANGED <<serverVars, connVars, cin, late, at, crashed>>
      BY <1>2 DEF ReceiveMessage
    <2>2. /\ q \in Seq(ToClient) /\ m \in ToClient /\ m = q[1] /\ Len(q) \in Nat
          /\ 1 \in 1 .. Len(q)
      BY <2>1, TypeFacts, FirstTaken DEF CInv, IInv
    <2>3. /\ t = Tail(q)
          /\ view'[p] = IF m.msg = "Turn" THEN m.status ELSE view[p]
          /\ pressed'[p] = IF m.msg = "Turn" THEN FALSE ELSE pressed[p]
          /\ shown'[p] = IF m.msg = "UpdateGameData" THEN m.cards ELSE shown[p]
          /\ turn' = turn /\ hand'[p] = hand[p] /\ aq'[p] = aq[p] /\ actor'[p] = actor[p]
          /\ seen'[p] = seen[p] /\ pc'[p] = pc[p] /\ move'[p] = move[p] /\ at'[p] = at[p]
      BY <2>1 DEF serverVars, connVars, CInv, IInv, Typed, TypeOK
    <2>4. /\ \A i \in 1 .. Len(t) : i + 1 \in 1 .. Len(q) /\ t[i] = q[i + 1] /\ i \in Nat
          /\ \A i \in 1 .. Len(q) : i = 1 \/ (i - 1 \in 1 .. Len(t) /\ t[i - 1] = q[i])
          /\ \A i \in 1 .. Len(q) : i \in 1 .. Len(q) + 1
      <3>1. /\ Len(Tail(q)) = Len(q) - 1
            /\ \A i \in 1 .. Len(Tail(q)) : i + 1 \in 1 .. Len(q) /\ Tail(q)[i] = q[i + 1]
            /\ \A i \in 1 .. Len(q) :
                 i = 1 \/ (i - 1 \in 1 .. Len(Tail(q)) /\ Tail(q)[i - 1] = q[i])
        BY <2>1, <2>2, FirstTaken
      <3> QED  BY <2>2, <2>3, <3>1
    <2>5. \A r \in Players \ {p} : Lists(r)'
      <3>1. \A r \in Players \ {p} : Same(r) /\ move'[r] = move[r] /\ at'[r] = at[r]
        BY <2>1 DEF serverVars, connVars, Same, SameShown, CInv, IInv, Typed, TypeOK
      <3> QED  BY <2>3, <3>1, ListsUntouched DEF CInv, IInv
    <2> HIDE DEF q, t, m
    <2>6. HandEmptied(p)'
      <3>1. ASSUME NEW i \in Nat, HandStaysEmpty(p, i), NEW n \in Nat, n + 1 >= i
            PROVE  HandStaysEmpty(p, n)'
        <4>1. ASSUME NEW j \in 1 .. Len(t), j > n, t[j].msg = "UpdateGameData"
              PROVE  Empty(t[j].cards.hand)
          <5>1. j + 1 \in 1 .. Len(q) /\ t[j] = q[j + 1] /\ j + 1 > i
            BY <2>4, <3>1, <4>1
          <5> QED  BY <3>1, <4>1, <5>1 DEF HandStaysEmpty, q
        <4> QED  BY <2>3, <3>1, <4>1 DEF HandStaysEmpty, t
      <3>2. HandEmptied(p)
        BY DEF CInv, Lists
      <3>3. Empty(shown'[p].hand) => HandStaysEmpty(p, 0)'
        <4>1. CASE m.msg = "UpdateGameData"
          BY <2>2, <2>3, <3>1, <3>2, <4>1 DEF HandEmptied, q
        <4>2. CASE m.msg # "UpdateGameData"
          BY <2>3, <3>1, <3>2, <4>2 DEF HandEmptied
        <4> QED  BY <4>1, <4>2
      <3>4. ASSUME NEW i \in 1 .. Len(t), t[i].msg = "UpdateGameData", Empty(t[i].cards.hand)
            PROVE  HandStaysEmpty(p, i)'
        <4>1. PICK k \in 1 .. Len(q) : k = i + 1 /\ t[i] = q[k] /\ i \in Nat /\ k \in Nat
          BY <2>4
        <4>2. HandStaysEmpty(p, k)
          BY <3>2, <3>4, <4>1 DEF HandEmptied, q
        <4> QED  BY <3>1, <4>1, <4>2
      <3> QED  BY <3>3, <3>4 DEF HandEmptied, t
    <2>7. HandLeft(p)'
      <3>1. \A i \in 1 .. Len(q) + 1 : FreshBefore(p, i) => FreshBefore(p, i - 1)'
        BY <2>1, <2>3, OutTaken DEF CInv, IInv, q, t, m
      <3>2. ASSUME Ending(p, 1) PROVE ~ NoneOn(hand[p])
        <4>1. m.msg = "Accepted" /\ m.kind = "SelectAbility"
          BY <2>2, <3>2 DEF Ending, q
        <4>2. AllGood(p)
          <5>1. \A k \in 1 .. Len(out[p]) : ~ (k < 1)
            BY <2>2 DEF q
          <5> QED  BY <3>2, <5>1 DEF Ending, FreshBefore
        <4>3. \A s \in Hand!Slots : ~ hand[p][s].on => shown[p].hand[s] = None
          BY <4>2 DEF AllGood, GoodAt, Good
        <4>4. PICK s \in DOMAIN shown[p].hand : shown[p].hand[s] = m.card
          BY <2>1, <4>1 DEF Shows, ListFor
        <4>5. s \in Hand!Slots /\ s \in DOMAIN hand[p]
          BY <4>4, TypeFacts DEF CInv, IInv, Shown, Hand!Window
        <4>6. m.card # None
          BY <2>2, <4>1, ConstantFacts DEF ToClient
        <4> QED  BY <4>3, <4>4, <4>5, <4>6 DEF NoneOn
      <3>3. ASSUME NEW i \in 1 .. Len(q), i # 1, Ending(p, i) PROVE Ends(p)'
        <4>1. PICK n \in 1 .. Len(t) : n = i - 1 /\ t[n] = q[i]
          BY <2>4, <3>3
        <4>2. FreshBefore(p, n)'
          BY <2>4, <3>1, <3>3, <4>1 DEF Ending
        <4>3. ASSUME NEW j \in 1 .. Len(q), i < j, q[j].msg = "Turn"
              PROVE  \E k \in 1 .. Len(t) : n < k /\ t[k].msg = "Turn"
          <5>1. j # 1
            BY <2>2, <4>3
          <5>2. j - 1 \in 1 .. Len(t) /\ t[j - 1] = q[j] /\ n < j - 1
            BY <2>4, <4>1, <4>3, <5>1
          <5> QED  BY <4>3, <5>2
        <4>4. Ending(p, n)'
          BY <2>3, <3>3, <4>1, <4>2, <4>3 DEF Ending, q, t
        <4> QED  BY <4>1, <4>4 DEF Ends, t
      <3>4. Ends(p) => ~ NoneOn(hand[p]) \/ Ends(p)'
        BY <3>2, <3>3 DEF Ends, q
      <3>5. (Attacked(p)' <=> Attacked(p)) /\ (Attacks(p)' <=> Attacks(p))
        BY <2>3 DEF Attacked, Attacks
      <3> QED  BY <2>3, <3>4, <3>5 DEF CInv, Lists, HandLeft
    <2>8. CursorsLost(p)'
      <3>1. CursorsLost(p) /\ HandEmptied(p)
        BY DEF CInv, Lists
      <3>2. ASSUME at[p].hand = None PROVE Empty(shown'[p].hand)
        <4>1. Empty(shown[p].hand) /\ HandStaysEmpty(p, 0)
          BY <3>1, <3>2 DEF CursorsLost, HandEmptied
        <4>2. m.msg = "UpdateGameData" => Empty(m.cards.hand)
          BY <2>2, <4>1 DEF HandStaysEmpty, q
        <4> QED  BY <2>3, <4>1, <4>2
      <3>3. ASSUME at[p].monsters = None
            PROVE  m.msg # "Turn" /\ Empty(shown'[p].monsters)
        <4>1. view[p] = "AttachMonster" /\ ~ pressed[p] /\ Empty(shown[p].monsters)
          BY <3>1, <3>3 DEF CursorsLost
        <4>2. p = Active(turn) /\ AtClient(p) /\ view[p] = turn.phase
          BY <4>1, ChoiceFacts DEF CInv, Phases
        <4>3. m.msg # "Turn"
          BY <2>2, <4>2 DEF AtClient, NoTurns, NoTurn, q
        <4>4. AllGood(p)
          BY <4>1, <4>2 DEF AtClient, CInv, IInv, Parts, FreshInTime, Attacks
        <4>5. StaysEmpty(p, 0)
          BY <4>1, <4>4 DEF AllGood, GoodAt
        <4>6. m.msg = "UpdateGameData" => Empty(m.cards.monsters)
          BY <2>2, <4>5 DEF StaysEmpty, q
        <4> QED  BY <2>3, <4>1, <4>3, <4>6
      <3> QED  BY <2>3, <3>1, <3>2, <3>3 DEF CursorsLost
    <2>9. Lists(p)'
      <3>1. MoveKept(p)'
        BY <2>3 DEF CInv, Lists, MoveKept
      <3> QED  BY <2>6, <2>7, <2>8, <3>1 DEF Lists
    <2> QED  BY <2>5, <2>9
  <1> QED  BY <1>1, <1>2 DEF ReceiveMessage

-------------------------------------------------------------------------------
(* The connection.                                                         *)

LEMMA ReadMoveLists ==
  ASSUME CInv, NEW p \in Players, ReadMove(p)
  PROVE  \A r \in Players : Lists(r)'
  <1>1. HasTurn(p) /\ cin[p] # <<>> /\ pc[p] = "read"
    BY DEF CInv, IInv, Parts, ReadMove
  <1>2. p = Active(turn) /\ Played(p)
    BY <1>1 DEF HasTurn, Held, NotHeld, InMailbox, OnTheWay, AtClient, AtActor, Attacking,
                NoMoves
  <1>3. PICK m : m = Head(cin[p])
    OBVIOUS
  <1>4. aq[p] \in Seq(Mail) /\ m \in Mail /\ m.msg = "Move"
    <2>1. cin[p] \in Seq(Moves) /\ aq[p] \in Seq(Mail)
      BY TypeFacts DEF CInv, IInv
    <2>2. m \in Moves
      BY <1>1, <1>3, <2>1, FirstTaken
    <2> QED  BY <2>1, <2>2 DEF Mail, Moves
  <1>5. /\ move' = [move EXCEPT ![p] = m] /\ pc' = [pc EXCEPT ![p] = "w_move"]
        /\ aq' = [aq EXCEPT ![p] = Append(@, m)] /\ cin' = [cin EXCEPT ![p] = Tail(@)]
        /\ UNCHANGED <<turn, hand, chosen, actor, seen, out, view, pressed, late, shown, at, crashed>>
    BY <1>2, <1>3 DEF ReadMove
  <1>6. \A r \in Players \ {p} : Lists(r)'
    <2>1. \A r \in Players \ {p} : Same(r) /\ move'[r] = move[r] /\ at'[r] = at[r] /\ turn' = turn
      BY <1>5 DEF Same, SameShown, CInv, IInv, Typed, TypeOK
    <2> QED  BY <2>1, ListsUntouched DEF CInv, IInv
  <1>7. /\ aq'[p] = Append(aq[p], m) /\ move'[p] = m /\ turn' = turn /\ SameTable
        /\ UNCHANGED <<hand, actor, seen, out, view, pressed, late, shown, at>>
    BY <1>5 DEF CInv, IInv, Typed, TypeOK, SameTable
  <1>8. MoveKept(p)'
    BY <1>2, <1>4, <1>7, LastSent DEF Played, NoMoveIn, MoveKept
  <1>9. HandLeft(p)'
    <2>1. NoTurn(aq[p])' => NoTurn(aq[p])
      BY <1>2 DEF Played, NoTurns
    <2>2. \A i : FreshBefore(p, i) => FreshBefore(p, i)'
      BY <1>7, FreshKept DEF CInv, IInv
    <2> QED  BY <1>1, <1>7, <2>1, <2>2, HandStaysLeft DEF CInv, Lists
  <1>10. HandEmptied(p)' /\ CursorsLost(p)'
    BY <1>7, HandStaysEmptied, CursorsStay DEF CInv, Lists
  <1> QED  BY <1>6, <1>8, <1>9, <1>10 DEF Lists

(* A message that is no list is put into the channel to a client, or one with *)
(* the hand as it is.                                                      *)
LEMMA HandSent ==
  ASSUME Typed, NEW p \in Players, HandEmptied(p), NEW m \in ToClient,
         out'[p] = Append(out[p], m), hand'[p] = hand[p], shown'[p] = shown[p],
         m.msg = "UpdateGameData" => m.cards.hand = Items(hand[p])
  PROVE  HandEmptied(p)'
  <1> DEFINE q == out[p]
             t == out'[p]
  <1>1. q \in Seq(ToClient) /\ hand[p] \in Hand!Window(RankCount)
    BY TypeFacts
  <1>2. /\ Len(t) = Len(q) + 1 /\ Len(q) \in Nat /\ t[Len(q) + 1] = m
        /\ \A i \in 1 .. Len(q) : i \in 1 .. Len(t) /\ t[i] = q[i]
        /\ \A i \in 1 .. Len(t) : i \in 1 .. Len(q) \/ i = Len(q) + 1
    BY <1>1, LastSent
  <1> HIDE DEF q, t
  <1>3. m.msg = "UpdateGameData" => (Empty(m.cards.hand) <=> NoneOn(hand[p]))
    BY <1>1, EmptyItems
  <1>4. \A i : HandStaysEmpty(p, i) => HandStaysEmpty(p, i)'
    BY <1>2, <1>3 DEF HandStaysEmpty, q, t
  <1>5. \A i \in 1 .. Len(t) : i = Len(q) + 1 /\ NoneOn(hand[p]) => HandStaysEmpty(p, i)'
    BY <1>2 DEF HandStaysEmpty, t
  <1>6. Empty(shown'[p].hand) => HandStaysEmpty(p, 0)'
    BY <1>4 DEF HandEmptied
  <1>7. ASSUME NEW i \in 1 .. Len(t), t[i].msg = "UpdateGameData", Empty(t[i].cards.hand)
        PROVE  HandStaysEmpty(p, i)'
    <2>1. CASE i \in 1 .. Len(q)
      BY <1>2, <1>4, <1>7, <2>1 DEF HandEmptied, q
    <2>2. CASE i = Len(q) + 1
      BY <1>2, <1>3, <1>5, <1>7, <2>2
    <2> QED  BY <1>2, <2>1, <2>2
  <1> QED  BY <1>6, <1>7 DEF HandEmptied, t

LEMMA EndsSent ==
  ASSUME Typed, NEW p \in Players, NEW m \in ToClient, out'[p] = Append(out[p], m),
         turn' = turn, NoTurn(aq[p])' => NoTurn(aq[p]) \/ m.msg = "Turn",
         \A i \in 1 .. Len(out[p]) + 1 : FreshBefore(p, i) => FreshBefore(p, i)'
  PROVE  Ends(p) => Ends(p)'
  <1> DEFINE q == out[p]
             t == out'[p]
  <1>1. q \in Seq(ToClient)
    BY TypeFacts
  <1>2. /\ Len(t) = Len(q) + 1 /\ Len(q) \in Nat /\ t[Len(q) + 1] = m
        /\ Len(q) + 1 \in 1 .. Len(t)
        /\ \A i \in 1 .. Len(q) :
             i \in 1 .. Len(t) /\ t[i] = q[i] /\ i \in 1 .. Len(q) + 1 /\ i < Len(q) + 1
    BY <1>1, LastSent
  <1> HIDE DEF q, t
  <1>3. ASSUME NEW i \in 1 .. Len(q), Ending(p, i) PROVE Ending(p, i)'
    BY <1>2, <1>3 DEF Ending, q, t
  <1> QED  BY <1>2, <1>3 DEF Ends, q, t

LEMMA EndOfTurnLists ==
  ASSUME CInv, NEW p \in Players, EndOfTurn(p)
  PROVE  \A r \in Players : Lists(r)'
  <1>1. /\ pc[p] = "answer" /\ pc' = [pc EXCEPT ![p] = "read"]
        /\ move' = [move EXCEPT ![p] = NoMove]
        /\ out' = [out EXCEPT ![p] = @ \o Results(p)]
        /\ aq' = [q \in Players |-> Append(aq[q], Sync)]
        /\ UNCHANGED <<turn, hand, chosen, actor, seen, clientVars, crashed>>
    BY DEF EndOfTurn, Synced
  <1>2. Sync \in Mail /\ Sync.msg = "SyncWithClient"
        /\ \A r \in Players : aq[r] \in Seq(Mail) /\ out[r] \in Seq(ToClient)
    BY TypeFacts DEF CInv, IInv, Mail, Sync
  <1>3. /\ turn' = turn /\ SameTable
        /\ UNCHANGED <<hand, actor, seen, view, pressed, late, shown, at>>
    BY <1>1 DEF clientVars, SameTable
  <1>4. ASSUME NEW r \in Players
        PROVE  /\ NoTurn(aq[r])' => NoTurn(aq[r])
               /\ CursorsLost(r)'
               /\ MoveKept(r)'
    <2>1. aq'[r] = Append(aq[r], Sync)
      BY <1>1
    <2>2. NoTurn(aq[r])' => NoTurn(aq[r])
      BY <1>2, <2>1, SentOther
    <2>3. CursorsLost(r)'
      BY <1>3, CursorsStay DEF CInv, Lists
    <2>4. CASE r = p
      <3>1. NoMoveIn(aq[r])
        BY <1>1, <2>4, NoneMoving DEF CInv, IInv, Parts
      <3>2. NoMoveIn(aq'[r])
        BY <1>2, <2>1, <3>1, SentOther
      <3> QED  BY <2>2, <2>3, <3>2 DEF MoveKept, NoMoveIn
    <2>5. CASE r # p
      <3>1. move'[r] = move[r]
        BY <1>1, <2>5 DEF CInv, IInv, Typed, TypeOK
      <3>2. MoveKept(r)'
        BY <1>2, <2>1, <3>1, LastSent DEF CInv, Lists, MoveKept
      <3> QED  BY <2>2, <2>3, <3>2
    <2> QED  BY <2>4, <2>5
  <1>5. ASSUME NEW r \in Players, out'[r] = out[r]
        PROVE  /\ HandEmptied(r)'
               /\ \A i : FreshBefore(r, i) => FreshBefore(r, i)'
    <2>1. \A i : FreshBefore(r, i) => FreshBefore(r, i)'
      BY <1>3, <1>5, FreshKept DEF CInv, IInv
    <2> QED  BY <1>3, <1>5, <2>1, HandStaysEmptied DEF CInv, Lists
  <1>6. ASSUME NEW r \in Players, r # p PROVE Lists(r)'
    <2>1. out'[r] = out[r] /\ move'[r] = move[r] /\ pc'[r] = pc[r]
      BY <1>1, <1>6 DEF CInv, IInv, Typed, TypeOK
    <2>2. HandLeft(r)'
      BY <1>3, <1>4, <1>5, <2>1, HandStaysLeft DEF CInv, Lists
    <2> QED  BY <1>4, <1>5, <2>1, <2>2 DEF Lists
  <1>7. HandEmptied(p)' /\ HandLeft(p)'
    <2>1. out'[p] = out[p] \o Results(p)
      BY <1>1 DEF CInv, IInv, Typed, TypeOK
    <2>2. CASE move[p].kind \in {"SelectAbility", "AttachMonster"}
      <3>1. PICK m \in ToClient : /\ m.msg = "Accepted" /\ m.kind = move[p].kind
                                  /\ Results(p) = <<m>>
        <4>1. Accepted(move[p]) \in ToClient
          BY <2>2 DEF CInv, IInv, Typed, Accepted, ToClient, Phases
        <4> QED  BY <2>2, <4>1 DEF Results, Accepted
      <3>2. out'[p] = Append(out[p], m)
        <4>1. out[p] \o <<m>> = Append(out[p], m)
          BY <1>2, <3>1
        <4> QED  BY <2>1, <3>1, <4>1
      <3>3. \A i \in 1 .. Len(out[p]) + 1 : FreshBefore(p, i) => FreshBefore(p, i)'
        BY <1>3, <3>1, <3>2, OutSent DEF CInv, IInv
      <3>4. HandEmptied(p)'
        BY <1>3, <3>1, <3>2, HandSent DEF CInv, IInv, Lists
      <3>5. Ends(p) => Ends(p)'
        BY <1>3, <1>4, <3>1, <3>2, <3>3, EndsSent DEF CInv, IInv
      <3>6. ASSUME Attacks(p), move[p].kind = "SelectAbility" PROVE Ends(p)'
        <4>1. PICK n : n = Len(out[p]) + 1
          OBVIOUS
        <4>2. n \in 1 .. Len(out'[p]) /\ out'[p][n] = m /\ n \in 1 .. Len(out[p]) + 1
          BY <1>2, <3>1, <3>2, <4>1, LastSent
        <4>3. FreshBefore(p, n)
          BY <3>6, <4>1 DEF CInv, IInv, Parts, FreshInTime, Fresh
        <4>4. FreshBefore(p, n)'
          BY <3>3, <4>2, <4>3
        <4>5. turn'.phase # "Defend"
          BY <1>3, <3>6 DEF Attacks
        <4>6. Ending(p, n)'
          BY <3>1, <3>6, <4>2, <4>4, <4>5 DEF Ending
        <4> QED  BY <4>2, <4>6 DEF Ends
      <3>7. (Attacked(p)' <=> Attacked(p)) /\ (Attacks(p)' <=> Attacks(p))
        BY <1>3 DEF Attacked, Attacks
      <3>8. HandLeft(p)'
        BY <1>3, <3>5, <3>6, <3>7 DEF CInv, Lists, HandLeft
      <3> QED  BY <3>4, <3>8
    <2>3. CASE move[p].kind \notin {"SelectAbility", "AttachMonster"}
      <3>1. out'[p] = out[p]
        BY <1>2, <2>1, <2>3 DEF Results
      <3>2. (Attacked(p)' <=> Attacked(p)) /\ (Attacks(p)' <=> Attacks(p))
        BY <1>3 DEF Attacked, Attacks
      <3>3. \A i : Ending(p, i) => Ending(p, i)'
        BY <1>3, <1>4, <1>5, <3>1 DEF Ending
      <3>4. Ends(p) => Ends(p)'
        BY <3>1, <3>3 DEF Ends
      <3>5. HandLeft(p)'
        BY <1>3, <2>3, <3>2, <3>4 DEF CInv, Lists, HandLeft
      <3> QED  BY <1>5, <3>1, <3>5
    <2> QED  BY <2>2, <2>3
  <1> QED  BY <1>4, <1>6, <1>7 DEF Lists

-------------------------------------------------------------------------------
(* The actor: messages for the client.                                     *)

(* A message has been taken from a mailbox.                               *)
LEMMA MoveStaysKept ==
  ASSUME Typed, NEW p \in Players, MoveKept(p), move'[p] = move[p], aq[p] # <<>>,
         aq'[p] = Tail(aq[p])
  PROVE  MoveKept(p)'
  <1>1. aq[p] \in Seq(Mail)
    BY TypeFacts
  <1>2. \A i \in 1 .. Len(aq'[p]) : i + 1 \in 1 .. Len(aq[p]) /\ aq'[p][i] = aq[p][i + 1]
    BY <1>1, FirstTaken
  <1> QED  BY <1>2 DEF MoveKept

LEMMA ForwardLists ==
  ASSUME CInv, NEW p \in Players, ForwardTcp(p)
  PROVE  \A r \in Players : Lists(r)'
  <1>0. PICK m : m = Head(aq[p])
    OBVIOUS
  <1>1. aq[p] \in Seq(Mail) /\ aq[p] # <<>> /\ m.msg = "Turn" /\ m \in Mail
        /\ out[p] \in Seq(ToClient)
    BY <1>0, TypeFacts, FirstTaken DEF CInv, IInv, ForwardTcp, Takes
  <1>2. m \in ToClient
    BY <1>1 DEF Mail, Moves
  <1>3. /\ aq' = [aq EXCEPT ![p] = Tail(@)] /\ out' = [out EXCEPT ![p] = Append(@, m)]
        /\ UNCHANGED <<turn, hand, chosen, actor, seen, connVars, clientVars, crashed>>
    BY <1>0 DEF ForwardTcp
  <1>4. /\ aq'[p] = Tail(aq[p]) /\ out'[p] = Append(out[p], m) /\ turn' = turn
        /\ UNCHANGED <<hand, actor, seen, pc, move, view, pressed, late, shown, at>>
    BY <1>3 DEF CInv, IInv, Typed, TypeOK, connVars, clientVars
  <1>5. \A r \in Players \ {p} : Lists(r)'
    <2>1. \A r \in Players \ {p} : Same(r) /\ move'[r] = move[r] /\ at'[r] = at[r]
      BY <1>3 DEF Same, SameShown, CInv, IInv, Typed, TypeOK, connVars, clientVars
    <2> QED  BY <1>4, <2>1, ListsUntouched DEF CInv, IInv
  <1>6. HandEmptied(p)' /\ MoveKept(p)' /\ CursorsLost(p)'
    <2>1. HandEmptied(p)'
      BY <1>1, <1>2, <1>4, HandSent DEF CInv, IInv, Lists
    <2>2. MoveKept(p)'
      BY <1>1, <1>4, MoveStaysKept DEF CInv, IInv, Lists
    <2> QED  BY <1>4, <2>1, <2>2, CursorsStay DEF CInv, Lists
  <1>7. HandLeft(p)'
    <2>1. \A i \in 1 .. Len(out[p]) + 1 : FreshBefore(p, i) => FreshBefore(p, i)'
      BY <1>1, <1>2, <1>4, OutSent DEF CInv, IInv
    <2>2. Ends(p) => Ends(p)'
      BY <1>1, <1>2, <1>4, <2>1, EndsSent DEF CInv, IInv
    <2>3. (Attacked(p)' <=> Attacked(p)) /\ (Attacks(p)' <=> Attacks(p))
      BY <1>4 DEF Attacked, Attacks
    <2> QED  BY <1>4, <2>2, <2>3 DEF CInv, Lists, HandLeft
  <1> QED  BY <1>5, <1>6, <1>7 DEF Lists

LEMMA StartSyncLists ==
  ASSUME CInv, NEW p \in Players, StartSync(p)
  PROVE  \A r \in Players : Lists(r)'
  <1>1. /\ aq[p] # <<>> /\ Head(aq[p]).msg = "SyncWithClient"
        /\ aq' = [aq EXCEPT ![p] = Tail(aq[p])]
        /\ actor' = [actor EXCEPT ![p] = "syncing"]
        /\ seen' = [seen EXCEPT ![p] = Items(turn.monsters)]
        /\ UNCHANGED <<turn, hand, chosen, connVars, out, clientVars, crashed>>
    BY DEF StartSync, Takes, Rest
  <1>2. /\ aq'[p] = Tail(aq[p]) /\ seen'[p] = Items(turn.monsters)
        /\ turn' = turn /\ SameTable
        /\ UNCHANGED <<hand, out, pc, move, view, pressed, late, shown, at>>
    BY <1>1 DEF CInv, IInv, Typed, TypeOK, connVars, clientVars, SameTable
  <1>3. \A r \in Players \ {p} : Lists(r)'
    <2>1. \A r \in Players \ {p} : Same(r) /\ move'[r] = move[r] /\ at'[r] = at[r]
      BY <1>1 DEF Same, SameShown, CInv, IInv, Typed, TypeOK, connVars, clientVars
    <2> QED  BY <1>2, <2>1, ListsUntouched DEF CInv, IInv
  <1>4. HandEmptied(p)' /\ MoveKept(p)' /\ CursorsLost(p)'
    <2>1. MoveKept(p)'
      BY <1>1, <1>2, MoveStaysKept DEF CInv, IInv, Lists
    <2> QED  BY <1>2, <2>1, HandStaysEmptied, CursorsStay DEF CInv, Lists
  <1>5. HandLeft(p)'
    <2>1. NoTurn(aq[p])' => NoTurn(aq[p])
      <3>1. aq[p] \in Seq(Mail)
        BY TypeFacts DEF CInv, IInv
      <3>2. /\ Head(aq[p]) = aq[p][1]
            /\ \A i \in 1 .. Len(aq[p]) :
                 i = 1 \/ (i - 1 \in 1 .. Len(Tail(aq[p])) /\ Tail(aq[p])[i - 1] = aq[p][i])
        BY <1>1, <3>1, FirstTaken
      <3>3. NoTurn(Tail(aq[p])) => NoTurn(aq[p])
        BY <1>1, <3>2 DEF NoTurn
      <3> QED  BY <1>2, <3>3
    <2>2. \A i : FreshBefore(p, i) => FreshBefore(p, i)'
      BY <1>2, FreshKept DEF CInv, IInv
    <2> QED  BY <1>2, <2>1, <2>2, HandStaysLeft DEF CInv, Lists
  <1> QED  BY <1>3, <1>4, <1>5 DEF Lists

LEMMA EndSyncLists ==
  ASSUME CInv, NEW p \in Players, EndSync(p)
  PROVE  \A r \in Players : Lists(r)'
  <1>0. PICK m : m = Update([hand |-> Items(hand[p]), monsters |-> seen[p]])
    OBVIOUS
  <1>1. /\ actor[p] = "syncing" /\ actor' = [actor EXCEPT ![p] = "idle"]
        /\ seen' = [seen EXCEPT ![p] = Unseen] /\ out' = [out EXCEPT ![p] = Append(@, m)]
        /\ UNCHANGED <<turn, hand, chosen, aq, connVars, clientVars, crashed>>
    BY <1>0 DEF EndSync
  <1>2. m.msg = "UpdateGameData" /\ m.cards.hand = Items(hand[p]) /\ m.cards.monsters = seen[p]
        /\ m.cards = [hand |-> Items(hand[p]), monsters |-> seen[p]]
    BY <1>0 DEF Update
  <1>3. hand[p] \in Hand!Window(RankCount) /\ seen[p] \in [Line!Slots -> Monsters \cup {None}]
    BY TypeFacts DEF CInv, IInv
  <1>4. m \in ToClient /\ (OnTable(seen[p]) => Good(p, m.cards))
    <2>1. m.cards \in Shown
      BY <1>2, <1>3, ItemsOf DEF Shown
    <2>2. m \in ToClient
      BY <1>0, <1>2, <2>1 DEF Update, ToClient
    <2> QED  BY <1>2, <1>3, <2>2, ItemsOf DEF Good
  <1>5. /\ out'[p] = Append(out[p], m) /\ actor'[p] = "idle" /\ turn' = turn
        /\ UNCHANGED <<hand, aq, pc, move, view, pressed, late, shown, at>>
    BY <1>1 DEF CInv, IInv, Typed, TypeOK, connVars, clientVars
  <1>6. \A r \in Players \ {p} : Lists(r)'
    <2>1. \A r \in Players \ {p} : Same(r) /\ move'[r] = move[r] /\ at'[r] = at[r]
      BY <1>1 DEF Same, SameShown, CInv, IInv, Typed, TypeOK, connVars, clientVars
    <2> QED  BY <1>5, <2>1, ListsUntouched DEF CInv, IInv
  <1>7. HandEmptied(p)' /\ MoveKept(p)' /\ CursorsLost(p)'
    <2>1. HandEmptied(p)'
      BY <1>2, <1>4, <1>5, HandSent DEF CInv, IInv, Lists
    <2> QED  BY <1>5, <2>1, CursorsStay DEF CInv, Lists, MoveKept
  <1>8. HandLeft(p)'
    <2>1. (Attacked(p)' <=> Attacked(p)) /\ (Attacks(p)' <=> Attacks(p))
      BY <1>5 DEF Attacked, Attacks
    <2>2. ASSUME Attacks(p) \/ Attacked(p) PROVE Ends(p) => Ends(p)'
      <3>1. OnTable(seen[p])
        BY <1>1, <2>2 DEF CInv, IInv, Parts, FreshInTime, Discarded, Attacks, Attacked
      <3>2. \A i \in 1 .. Len(out[p]) + 1 : FreshBefore(p, i) => FreshBefore(p, i)'
        BY <1>1, <1>2, <1>4, <1>5, <3>1, OutSent DEF CInv, IInv
      <3> QED  BY <1>4, <1>5, <3>2, EndsSent DEF CInv, IInv
    <2> QED  BY <1>5, <2>1, <2>2 DEF CInv, Lists, HandLeft
  <1> QED  BY <1>6, <1>7, <1>8 DEF Lists

-------------------------------------------------------------------------------
(* The actor: moves.                                                       *)

LEMMA AttackLists ==
  ASSUME CInv, NEW p \in Players, Attack(p)
  PROVE  \A r \in Players : Lists(r)'
  <1>1. /\ p = Active(turn) /\ turn.phase = "AttachMonster" /\ NoTurns(p) /\ pc[p] = "w_move"
        /\ NoMoveIn(Tail(aq[p]))
        /\ actor' = [actor EXCEPT ![p] = "attacked"]
        /\ aq' = [aq EXCEPT ![p] = Tail(@)]
        /\ UNCHANGED <<hand, chosen, seen, connVars, out, clientVars, crashed>>
        /\ turn'.phase = turn.phase /\ SameTable /\ Active(turn)' = Active(turn)
    BY AttackFacts DEF CInv
  <1>2. /\ UNCHANGED <<hand, seen, out, pc, move, view, pressed, late, shown, at>>
        /\ aq'[p] = Tail(aq[p]) /\ actor'[p] = "attacked"
        /\ \A r \in Players : r # p => aq'[r] = aq[r] /\ actor'[r] = actor[r]
    BY <1>1 DEF CInv, IInv, Typed, TypeOK, connVars, clientVars
  <1>3. ASSUME NEW r \in Players PROVE Lists(r)'
    <2>1. HandEmptied(r)' /\ CursorsLost(r)'
      BY <1>2, HandStaysEmptied, CursorsStay DEF CInv, Lists
    <2>2. MoveKept(r)' /\ (NoTurn(aq[r])' => NoTurn(aq[r]))
      <3>1. CASE r = p
        <4>1. NoTurn(aq[p]) /\ NoMoveIn(aq'[p])
          BY <1>1, <1>2 DEF NoTurns
        <4> QED  BY <3>1, <4>1 DEF MoveKept, NoMoveIn
      <3>2. CASE r # p
        BY <1>2, <3>2 DEF CInv, Lists, MoveKept
      <3> QED  BY <3>1, <3>2
    <2>3. \A i : FreshBefore(r, i) => FreshBefore(r, i)'
      BY <1>1, <1>2, FreshKept DEF CInv, IInv
    <2>4. HandLeft(r)'
      BY <1>1, <1>2, <2>2, <2>3, HandStaysLeft DEF CInv, Lists
    <2> QED  BY <2>1, <2>2, <2>4 DEF Lists
  <1> QED  BY <1>3

LEMMA SwitchLists ==
  ASSUME CInv, NEW p \in Players, p = Active(turn),
         NEW q \in [Players -> Seq(Mail)], SwitchToNext(p, turn, q),
         \A r \in Players : r # p => q[r] = aq[r],
         NoMoveIn(q[p]), pc[p] # "answer",
         \A r \in Players : r # p => hand'[r] = hand[r],
         turn.phase = "AttachMonster" => hand'[p] = hand[p],
         turn.phase = "SelectAbility" => move[p].kind = "SelectAbility",
         HandEmptied(p)'
  PROVE  \A r \in Players : Lists(r)'
  <1>1. /\ turn' = SwitchToNextPlayer(turn)
        /\ aq' = [r \in Players |-> Append(q[r], TurnMsg(StatusOf(turn', r)))]
        /\ pc' = [pc EXCEPT ![p] = "answer"] /\ actor' = [actor EXCEPT ![p] = "idle"]
        /\ UNCHANGED <<seen, move, out, clientVars, crashed>>
    BY DEF SwitchToNext
  <1>2. turn' \in Turn /\ turn'.phase \in Phases
    BY <1>1, SwitchPhases DEF CInv, IInv, Turn
  <1>3. /\ UNCHANGED <<seen, move, out, view, pressed, late, shown, at>>
        /\ pc'[p] = "answer"
        /\ \A r \in Players : actor'[r] = "syncing" => actor[r] = "syncing"
    BY <1>1 DEF CInv, IInv, Typed, TypeOK, clientVars
  <1>4. ASSUME NEW r \in Players PROVE ~ NoTurn(aq'[r]) /\ MoveKept(r)'
    <2>1. PICK m \in Mail : m = TurnMsg(StatusOf(turn', r)) /\ m.msg = "Turn"
      <3>1. LET m == TurnMsg(StatusOf(turn', r)) IN m \in Mail /\ m.msg = "Turn"
        BY <1>2 DEF TurnMsg, StatusOf, Mail, ToClient, Statuses
      <3> QED  BY <3>1
    <2>2. aq'[r] = Append(q[r], m) /\ q[r] \in Seq(Mail)
      BY <1>1, <2>1
    <2>3. ~ NoTurn(aq'[r])
      BY <2>1, <2>2, SentTurn
    <2>4. NoMoveIn(q[r])
      BY DEF CInv, IInv, Parts, HasTurn, NotHeld, NoMoves
    <2>5. NoMoveIn(aq'[r])
      BY <2>1, <2>2, <2>4, SentTurn
    <2> QED  BY <2>3, <2>5 DEF MoveKept, NoMoveIn
  <1>5. \A r \in Players : HandEmptied(r)' /\ CursorsLost(r)'
    BY <1>3, HandStaysEmptied, CursorsStay DEF CInv, Lists
  <1>6. ASSUME NEW r \in Players, Attacked(r)', hand'[r] = hand[r], ~ NoneOn(hand[r]) \/ Ends(r)
        PROVE  HandLeft(r)'
    <2>1. turn'.monsters = turn.monsters
      BY <1>1, <1>6, SwitchPhases DEF CInv, IInv
    <2>2. \A i : FreshBefore(r, i) => FreshBefore(r, i)'
      BY <1>3, <1>6, <2>1, FreshKept DEF CInv, IInv, SameTable
    <2>3. \A i \in 1 .. Len(out[r]) : Ending(r, i) => Ending(r, i)'
      BY <1>3, <1>4, <2>2 DEF Ending
    <2>4. Ends(r) => Ends(r)'
      BY <1>3, <2>3 DEF Ends
    <2> QED  BY <1>6, <2>4 DEF HandLeft
  <1>7. ASSUME NEW r \in Players PROVE HandLeft(r)'
    <2>1. HandLeft(r)
      BY DEF CInv, Lists
    <2>2. CASE r # p
      <3>1. (Attacked(r)' => Attacked(r)) /\ ~ Attacks(r)' /\ ~ Attacks(r)
        BY <1>1, <2>2, SwitchPhases DEF CInv, IInv, Attacks
      <3> QED  BY <1>6, <2>1, <2>2, <3>1 DEF HandLeft
    <2>3. CASE r = p
      <3>1. /\ Attacked(p)' => turn.phase = "AttachMonster"
            /\ Attacks(p)' => turn.phase = "SelectAbility"
        BY <1>1, SwitchPhases DEF CInv, IInv
      <3>2. Attacked(p)' => Attacks(p) /\ hand'[p] = hand[p]
        BY <3>1 DEF Attacks
      <3>3. Attacks(p)' => HandLeft(p)'
        BY <1>3, <3>1 DEF HandLeft
      <3> QED  BY <1>6, <2>1, <2>3, <3>2, <3>3 DEF HandLeft
    <2> QED  BY <2>2, <2>3
  <1> QED  BY <1>4, <1>5, <1>7 DEF Lists

(* What the move at the head of a mailbox leaves behind. *)
LEMMA TakenMoveLists ==
  ASSUME CInv, NEW p \in Players, NEW kind, TakesMove(p, kind), SwitchToNext(p, turn, Rest(p)),
         \A r \in Players : r # p => hand'[r] = hand[r],
         kind = "AttachMonster" => hand'[p] = hand[p],
         HandEmptied(p)'
  PROVE  \A r \in Players : Lists(r)'
  <1>1. /\ p = Active(turn) /\ kind = turn.phase /\ pc[p] = "w_move"
        /\ Tail(aq[p]) \in Seq(Mail) /\ NoMoveIn(Tail(aq[p]))
    BY MoveTaken DEF CInv
  <1>2. /\ Rest(p) \in [Players -> Seq(Mail)] /\ Rest(p)[p] = Tail(aq[p])
        /\ \A r \in Players : r # p => Rest(p)[r] = aq[r]
    BY <1>1, RestFacts DEF CInv, IInv
  <1>3. move[p].kind = kind
    <2>1. /\ aq[p] # <<>> /\ aq[p] \in Seq(Mail)
          /\ Head(aq[p]).msg = "Move" /\ Head(aq[p]).kind = kind
      BY TypeFacts DEF TakesMove, Takes, CInv, IInv
    <2>2. Head(aq[p]) = aq[p][1] /\ 1 \in 1 .. Len(aq[p])
      BY <2>1, FirstTaken
    <2> QED  BY <2>1, <2>2 DEF CInv, Lists, MoveKept
  <1> QED  BY <1>1, <1>2, <1>3, SwitchLists

LEMMA DropAbilityLists ==
  ASSUME CInv, NEW p \in Players, DropAbility(p)
  PROVE  \A r \in Players : Lists(r)'
  <1> DEFINE card == CardOf(p)
             d    == Hand!DeactivateByIndex(hand[p], card)
  <1>1. TakesMove(p, "DropAbility")
    BY DEF DropAbility
  <1>2. CASE Stop("actor")
    BY <1>2, NothingMoves DEF Stop
  <1>3. CASE /\ ~ Hand!AlreadyNotActive(hand[p], card)
             /\ hand' = [hand EXCEPT ![p] = d] /\ SwitchToNext(p, turn, Rest(p))
    <2>1. hand[p] \in Hand!Window(RankCount)
      BY TypeFacts DEF CInv, IInv
    <2>2. card \in Ranks
      <3>1. Playable(p, Head(aq[p])) /\ turn.phase = "DropAbility"
        BY <1>1, MoveTaken DEF CInv
      <3>2. card \in Places(hand[p])
        BY <3>1 DEF Playable, CardOf
      <3> QED  BY <2>1, <3>2 DEF Places, Hand!Window, Ranks
    <2>3. NoneOn(hand[p]) => NoneOn(d)
      BY <1>3, <2>1, <2>2, HandDrop
    <2> HIDE DEF card, d
    <2>4. hand'[p] = d /\ \A r \in Players : r # p => hand'[r] = hand[r]
      BY <1>3 DEF CInv, IInv, Typed, TypeOK
    <2>5. HandEmptied(p)'
      <3>1. out' = out /\ shown' = shown
        BY <1>3 DEF SwitchToNext, clientVars
      <3> QED  BY <2>3, <2>4, <3>1, HandStaysEmptied DEF CInv, Lists
    <2> QED  BY <1>1, <1>3, <2>4, <2>5, TakenMoveLists
  <1> QED  BY <1>2, <1>3 DEF DropAbility

LEMMA SelectAbilityLists ==
  ASSUME CInv, NEW p \in Players, SelectAbility(p)
  PROVE  \A r \in Players : Lists(r)'
  <1>1. /\ TakesMove(p, "SelectAbility") /\ SwitchToNext(p, turn, Rest(p)) /\ hand' = hand
        /\ out' = out /\ shown' = shown
    BY DEF SelectAbility, SwitchToNext, clientVars
  <1>2. HandEmptied(p)'
    BY <1>1, HandStaysEmptied DEF CInv, Lists
  <1> QED  BY <1>1, <1>2, TakenMoveLists

LEMMA EndAttackLists ==
  ASSUME CInv, NEW p \in Players, EndAttack(p)
  PROVE  \A r \in Players : Lists(r)'
  <1>1. /\ actor[p] = "attacked" /\ SwitchToNext(p, turn, aq) /\ hand' = hand
        /\ out' = out /\ shown' = shown
    BY DEF EndAttack, SwitchToNext, clientVars
  <1>2. HandEmptied(p)'
    BY <1>1, HandStaysEmptied DEF CInv, Lists
  <1>3. p = Active(turn) /\ Attacking(p)
    BY <1>1 DEF CInv, IInv, Parts, HasTurn, Held, NotHeld, InMailbox, OnTheWay, AtClient, Played,
                AtActor, NoMoves
  <1>4. aq \in [Players -> Seq(Mail)]
    BY DEF CInv, IInv, Typed, TypeOK, Mail
  <1> QED  BY <1>1, <1>2, <1>3, <1>4, SwitchLists DEF Attacking

(* A player who defends has a card left, so no list without a card is on its  *)
(* way when the hand is dealt again.                                       *)
LEMMA ContinueLists ==
  ASSUME CInv, NEW p \in Players, ContinueGame(p)
  PROVE  \A r \in Players : Lists(r)'
  <1>1. /\ TakesMove(p, "Defend") /\ SwitchToNext(p, turn, Rest(p))
        /\ out' = out /\ shown' = shown
        /\ \A r \in Players : r # p => hand'[r] = hand[r]
    BY DEF ContinueGame, SwitchToNext, clientVars, CInv, IInv, Typed, TypeOK
  <1>2. p = Active(turn) /\ turn.phase = "Defend" /\ NoTurns(p)
    BY <1>1, MoveTaken DEF CInv
  <1>3. ~ NoneOn(hand[p])
    <2>1. Attacked(p) /\ ~ Attacks(p)
      BY <1>2, ConstantFacts DEF Attacked, Attacks
    <2>2. ~ Ends(p)
      BY <1>2 DEF Ends, Ending, NoTurns, NoTurn
    <2> QED  BY <2>1, <2>2 DEF CInv, Lists, HandLeft
  <1>4. HandEmptied(p)'
    BY <1>1, <1>3 DEF CInv, Lists, HandEmptied, HandStaysEmpty
  <1> QED  BY <1>1, <1>4, TakenMoveLists

-------------------------------------------------------------------------------
LEMMA InitLists == ASSUME Init PROVE CInv
  <1>1. IInv
    BY InitInv
  <1>2. ASSUME NEW p \in Players PROVE Lists(p)
    <2>1. /\ aq[p] = <<TurnMsg(StatusOf(turn, p))>> /\ out[p] = <<>>
          /\ hand[p] = Hand!WithItems /\ at[p] = [hand |-> 0, monsters |-> 0]
          /\ turn = StartTurn
          /\ shown[p] = [hand |-> Items(hand[p]), monsters |-> Items(turn.monsters)]
      BY DEF Init
    <2>2. ~ NoneOn(hand[p])
      BY <2>1, ConstantFacts DEF NoneOn, Hand!WithItems, Hand!Enable
    <2>3. HandEmptied(p)
      <3>1. ~ Empty(shown[p].hand)
        BY <1>1, <2>1, <2>2, EmptyItems, TypeFacts DEF IInv
      <3> QED  BY <2>1, <3>1 DEF HandEmptied
    <2>4. MoveKept(p)
      BY <2>1 DEF MoveKept, TurnMsg
    <2>5. HandLeft(p) /\ CursorsLost(p)
      BY <2>1, <2>2 DEF HandLeft, CursorsLost, None
    <2> QED  BY <2>3, <2>4, <2>5 DEF Lists
  <1> QED  BY <1>1, <1>2 DEF CInv

LEMMA StepLists == ASSUME CInv, [Next]_vars, OnceEach', KeysFirst' PROVE CInv'
  <1>1. IInv'
    BY StepInv DEF CInv
  <1>2. ASSUME UNCHANGED vars PROVE \A r \in Players : Lists(r)'
    BY <1>2, NothingMoves DEF vars
  <1>3. ASSUME NEW p \in Players, Client(p) PROVE \A r \in Players : Lists(r)'
    BY <1>3, MoveCursorLists, ConfirmLists, ReceiveLists DEF Client
  <1>4. ASSUME NEW p \in Players, ServerSide(p) PROVE \A r \in Players : Lists(r)'
    BY <1>4, ReadMoveLists, EndOfTurnLists, ForwardLists, DropAbilityLists, SelectAbilityLists,
       AttackLists, EndAttackLists, ContinueLists, StartSyncLists, EndSyncLists DEF ServerSide
  <1>5. \A r \in Players : Lists(r)'
    BY <1>2, <1>3, <1>4 DEF Next
  <1> QED  BY <1>1, <1>5 DEF CInv

LEMMA ListsInvariance == Spec => [](Typed /\ (OnceEach /\ KeysFirst => CInv))
  <1>1. Init => Typed /\ (OnceEach /\ KeysFirst => CInv)
    BY InitLists DEF CInv, IInv
  <1>2. Typed /\ (OnceEach /\ KeysFirst => CInv) /\ [Next]_vars
          => (Typed /\ (OnceEach /\ KeysFirst => CInv))'
    BY TypedStep, LateGrows, StepLists
  <1> QED  BY <1>1, <1>2, PTL DEF Spec

-------------------------------------------------------------------------------
(* The theorems.                                                           *)

(* The variables stay within their types, whatever the clients press and when: *)
(* no step of an actor, a connection or a client leaves the states that the  *)
(* code has names for.                                                     *)
THEOREM CardsTypeOK == Spec => []TypeOK
  <1>1. Typed => TypeOK
    BY DEF Typed
  <1> QED  BY <1>1, TypesInvariance, PTL

(* Until a client confirms twice for one Turn message, no move is refused: the *)
(* actor finds the discarded card in its hand, and an attacker has an ability *)
(* and a monster that is on the table, however old what the client shows is  *)
(* (server/peer.rs:1126-1184).                                             *)
THEOREM MovesNeverRefused == Spec => []MovesAccepted
  <1>1. Typed /\ (OnceEach => IInv) => MovesAccepted
    BY DEF IInv, MovesAccepted
  <1> QED  BY <1>1, Invariance, PTL

(* Until a client confirms twice for one Turn message, who has to discard has  *)
(* been dealt new cards since the last discard, or the deck is at its end     *)
(* (server/peer.rs:1178-1183).                                             *)
THEOREM FullHandToDiscard == Spec => []DealtBeforeDiscard
  <1>1. ASSUME IInv PROVE DealtBeforeDiscard
    <2>1. \A p \in Players : Dealt(p)
      BY <1>1 DEF IInv, Parts
    <2> QED  BY <2>1 DEF DealtBeforeDiscard, Dealt, ToBeFull, Full
  <1>2. Typed /\ (OnceEach => IInv) => DealtBeforeDiscard
    BY <1>1 DEF DealtBeforeDiscard
  <1> QED  BY <1>2, Invariance, PTL

(* When no message is under way every client shows the game as the server and *)
(* the actors have it: its hand, the monsters and whose turn it is, though    *)
(* what is sent for one move may be older than what was sent for another      *)
(* (server/peer.rs:1185-1196, server/states.rs:1276-1328).  Proved until a     *)
(* client confirms twice for one Turn message.                             *)
THEOREM ClientsShowTheGame == Spec => [](OnceEach => ClientsAgree)
  <1>1. ASSUME IInv, Quiet, NEW p \in Players
        PROVE  shown[p] = Current(p) /\ view[p] = StatusOf(turn, p)
    <2>1. /\ aq[p] = <<>> /\ out[p] = <<>> /\ cin[p] = <<>> /\ actor[p] = "idle"
          /\ \A r \in Players : pc[r] = "read" /\ actor[r] = "idle"
      BY <1>1 DEF Quiet
    <2>2. /\ \A i \in 1 .. Len(aq[p]) : FALSE
          /\ \A i \in 1 .. Len(out[p]) : FALSE
          /\ Len(cin[p]) # 1 /\ NoTurns(p)
      BY <2>1 DEF NoTurns, NoTurn
    <2>3. Parts(p) /\ CurrentComes(p)
      BY <1>1 DEF IInv
    <2>4. shown[p] = Current(p)
      BY <2>1, <2>2, <2>3 DEF CurrentComes, LastIsCurrent
    <2>5. CASE p = Active(turn)
      <3>1. Held(p)
        BY <2>3, <2>5 DEF Parts, HasTurn
      <3>2. AtClient(p)
        BY <2>1, <2>2, <3>1 DEF Held, InMailbox, OnTheWay, Played, AtActor, Attacking
      <3> QED  BY <2>4, <2>5, <3>2 DEF AtClient, StatusOf
    <2>6. CASE p # Active(turn)
      BY <2>2, <2>3, <2>4, <2>6 DEF Parts, WaitComes, NoTurns, StatusOf
    <2> QED  BY <2>5, <2>6
  <1>2. Typed /\ (OnceEach => IInv) => (OnceEach => ClientsAgree)
    BY <1>1 DEF ClientsAgree, Current
  <1> QED  BY <1>2, Invariance, PTL

(* A cursor that moves comes to an item as long as the list has one, in every *)
(* list that can be under it: the loops of next and prev end, and where they  *)
(* should (protocol/details.rs:64-115).                                     *)
THEOREM CursorsFindCards == Spec => KeysFindCards
  <1> DEFINE Finds == \A p \in Players : \A which \in {"hand", "monsters"} :
                        at'[p][which] # at[p][which] /\ Filled(shown[p][which]) # {}
                          => OnItem(shown[p][which], at'[p][which])
  <1>1. ASSUME Typed, [Next]_vars PROVE [Finds]_vars
    <2>1. ASSUME at' = at PROVE Finds
      BY <2>1
    <2>2. ASSUME NEW p \in Players, MoveCursor(p) PROVE Finds
      <3>1. CASE Stop("client")
        BY <2>1, <3>1 DEF Stop, clientVars
      <3>2. CASE crashed' = crashed
        <4>1. PICK key \in {"hand", "monsters"}, to \in Int :
                /\ at' = [at EXCEPT ![p][key] = to]
                /\ Filled(shown[p][key]) # {} => OnItem(shown[p][key], to)
          BY <1>1, <2>2, <3>2, CursorFacts
        <4>2. at \in [Players -> [hand     : Hand!Slots \cup {None},
                                  monsters : Line!Slots \cup {None}]]
          BY <1>1 DEF Typed, TypeOK
        <4> QED  BY <4>1, <4>2
      <3> QED  BY <2>2, <3>1, <3>2 DEF MoveCursor
    <2>3. ASSUME NEW p \in Players, Client(p) PROVE Finds
      BY <2>1, <2>2, <2>3 DEF Client, ConfirmSelected, ReceiveMessage, Send, Stop, clientVars
    <2>4. ASSUME NEW p \in Players, ServerSide(p) PROVE at' = at
      BY <2>4 DEF ServerSide, ReadMove, EndOfTurn, ForwardTcp, DropAbility, SelectAbility,
                  Attack, EndAttack, ContinueGame, StartSync, EndSync, SwitchToNext, Stop,
                  clientVars
    <2> QED  BY <1>1, <2>1, <2>3, <2>4 DEF Next
  <1>2. Typed /\ [Next]_vars => [Finds]_vars
    BY <1>1
  <1> QED  BY <1>2, TypesInvariance, PTL DEF Spec, KeysFindCards

(* The list that the keys of a client move in has a cursor, or nothing in it: *)
(* the screen can be drawn whatever has been put under the cursor, also after *)
(* all the monsters, or the last cards of a deck, are gone, until a client    *)
(* presses a key after it has confirmed (client/ui/game.rs:256, 377,         *)
(* protocol/details.rs:64-115).                                            *)
THEOREM CursorsAreDrawn == Spec => []CursorDrawn
  <1>1. ASSUME CInv, NEW p \in Players, view[p] \in Phases \ {"Defend"}
        PROVE  ~ Lost(shown[p][ListFor(view[p])], at[p][ListFor(view[p])])
    BY <1>1 DEF CInv, Lists, CursorsLost, Lost, Empty, ListFor
  <1>2. Typed /\ (OnceEach /\ KeysFirst => CInv) => CursorDrawn
    BY <1>1 DEF CursorDrawn, CursorKept
  <1> QED  BY <1>2, ListsInvariance, PTL
===============================================================================
