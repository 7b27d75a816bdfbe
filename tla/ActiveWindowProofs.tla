-------------------------- MODULE ActiveWindowProofs --------------------------
(***************************************************************************)
(* TypeOK, NoSharedItem and NoRedeal for every number of slots and items.  *)
(*                                                                         *)
(* NoSharedItem is not inductive: nothing in it says that moving one slot  *)
(* by ActiveCount keeps clear of the others.  The strengthening says why:  *)
(* slot s only ever holds the items s, s + ActiveCount, s + 2*ActiveCount, *)
(* ..., its column of the list, and the columns of two slots are disjoint. *)
(* NoRedeal needs that a slot has passed all that was shown of its column.  *)
(***************************************************************************)
EXTENDS ActiveWindow, WellFoundedInduction, TLAPS

(* The items a slot can hold: its own number plus whole laps. *)
InColumn(i, s) == \E lap \in Nat : i = s + lap * ActiveCount

InOwnColumn == \A s \in Slots : InColumn(actives[s].at, s)

(* An EndOfItems names a slot. *)
EofIsSlot == (last.call = "next" /\ ~ last.ok) => last.item \in Slots

IInv ==
  /\ TypeOK
  /\ InOwnColumn
  /\ EofIsSlot

-------------------------------------------------------------------------------
(* Two different slots have no item in common. *)
LEMMA ColumnsDisjoint ==
  ASSUME NEW s \in Slots, NEW t \in Slots, NEW i, InColumn(i, s), InColumn(i, t)
  PROVE  s = t
<1>1. ActiveCount \in Nat \ {0}
  BY ActiveCountAssumption
<1>2. PICK k \in Nat : i = s + k * ActiveCount
  BY DEF InColumn
<1>3. PICK l \in Nat : i = t + l * ActiveCount
  BY DEF InColumn
<1>4. /\ s \in Nat /\ s < ActiveCount
      /\ t \in Nat /\ t < ActiveCount
  BY <1>1 DEF Slots
<1>5. ASSUME NEW m \in Nat, NEW n \in Nat, m < n
      PROVE  m * ActiveCount + ActiveCount <= n * ActiveCount
  <2>1. n - m - 1 \in Nat
    BY <1>5
  <2>2. (n - m - 1) * ActiveCount >= 0
    BY <2>1, <1>1
  <2>3. n * ActiveCount = m * ActiveCount + ActiveCount + (n - m - 1) * ActiveCount
    BY <1>1, <1>5
  <2>4. /\ n * ActiveCount \in Nat
        /\ m * ActiveCount \in Nat
        /\ (n - m - 1) * ActiveCount \in Int
    BY <1>1, <2>1
  <2> QED
    BY <2>2, <2>3, <2>4, <1>1
<1>6. /\ k * ActiveCount \in Nat
      /\ l * ActiveCount \in Nat
  BY <1>1
<1>7. CASE k < l
  <2>1. k * ActiveCount + ActiveCount <= l * ActiveCount
    BY <1>5, <1>7
  <2> QED
    BY <2>1, <1>1, <1>2, <1>3, <1>4, <1>6
<1>8. CASE l < k
  <2>1. l * ActiveCount + ActiveCount <= k * ActiveCount
    BY <1>5, <1>8
  <2> QED
    BY <2>1, <1>1, <1>2, <1>3, <1>4, <1>6
<1>9. CASE k = l
  BY <1>9, <1>2, <1>3, <1>4, <1>6
<1> QED
  BY <1>7, <1>8, <1>9

(* A slot starts in its own column, and a lap further is still in it. *)
LEMMA ColumnStart ==
  ASSUME NEW s \in Slots
  PROVE  InColumn(s, s)
<1>1. s \in Int /\ s = s + 0 * ActiveCount
  BY ActiveCountAssumption DEF Slots
<1> QED
  BY <1>1 DEF InColumn

LEMMA ColumnStep ==
  ASSUME NEW s \in Slots, NEW i, InColumn(i, s)
  PROVE  InColumn(i + ActiveCount, s)
<1>1. PICK k \in Nat : i = s + k * ActiveCount
  BY DEF InColumn
<1>2. s \in Int /\ ActiveCount \in Nat
  BY ActiveCountAssumption DEF Slots
<1>3. i + ActiveCount = s + (k + 1) * ActiveCount
  BY <1>1, <1>2
<1> QED
  BY <1>3 DEF InColumn

(* The scan from the left finds an element of a set of slots. *)
LEMMA FirstSlot ==
  ASSUME NEW S \in SUBSET Slots, S # {}
  PROVE  First(S) \in S
<1> DEFINE Less == OpToRel(<, Nat)
<1>1. S \subseteq Nat
  BY ActiveCountAssumption DEF Slots
<1>2. \E x \in S : \A y \in S : ~ (<<y, x>> \in Less)
  <2>1. IsWellFoundedOn(Less, Nat)
    BY NatLessThanWellFounded
  <2> HIDE DEF Less
  <2> QED
    BY <1>1, <2>1, WFMin
<1>3. \A x, y \in Nat : x < y => <<x, y>> \in Less
  BY DEF OpToRel
<1>4. \A x, y \in Nat : ~ (y < x) => x <= y
  OBVIOUS
<1>5. \E x \in S : \A y \in S : x <= y
  BY <1>1, <1>2, <1>3, <1>4
<1> QED
  BY <1>5 DEF First

-------------------------------------------------------------------------------
(* Facts about the constants that every step below uses. *)
LEMMA ConstantFacts ==
  /\ ActiveCount \in Nat \ {0}
  /\ ItemCount \in Nat
  /\ ActiveCount <= ItemCount
  /\ Slots \subseteq Nat
  /\ Slots \subseteq Items
  /\ Items \subseteq Nat
BY ActiveCountAssumption, ItemCountAssumption DEF Slots, Items

(* with_items and reset. *)
LEMMA StartFacts ==
  /\ WithItems \in Window(ItemCount)
  /\ \A s \in Slots : InColumn(WithItems[s].at, s)
  /\ ActiveItems(WithItems) \subseteq Items
<1>1. \A s \in Slots : WithItems[s] = [on |-> TRUE, at |-> s]
  BY DEF WithItems, Enable
<1>2. \A s \in Slots : [on |-> TRUE, at |-> s] \in [on : BOOLEAN, at : Items]
  BY ConstantFacts
<1>3. WithItems \in Window(ItemCount)
  BY <1>1, <1>2 DEF WithItems, Enable, Window, Items
<1>4. ASSUME NEW s \in Slots
      PROVE  InColumn(WithItems[s].at, s)
  <2>1. WithItems[s].at = s
    BY DEF WithItems, Enable
  <2> QED
    BY <2>1, ColumnStart
<1>5. ActiveItems(WithItems) \subseteq Items
  BY <1>3 DEF ActiveItems, ActiveItem, Window, Items
<1> QED
  BY <1>3, <1>4, <1>5

(* What is shown is a set of items of the list. *)
LEMMA ShownAreItems ==
  ASSUME NEW a \in Window(ItemCount)
  PROVE  ActiveItems(a) \subseteq Items
BY DEF ActiveItems, ActiveItem, Window, Items

(* deactivate_item_by_index and deactivate_item. *)
LEMMA DeactivateFacts ==
  ASSUME NEW a \in Window(ItemCount), \A s \in Slots : InColumn(a[s].at, s),
         NEW i \in Items, ~ AlreadyNotActive(a, i)
  PROVE  /\ DeactivateByIndex(a, i) \in Window(ItemCount)
         /\ \A s \in Slots : InColumn(DeactivateByIndex(a, i)[s].at, s)
<1> DEFINE f == First(Holders(a, i))
           b == DeactivateByIndex(a, i)
<1>1. f \in Slots /\ a[f].at = i
  <2>1. Holders(a, i) \in SUBSET Slots /\ Holders(a, i) # {}
    BY DEF Holders, AlreadyNotActive
  <2>2. f \in Holders(a, i)
    BY <2>1, FirstSlot
  <2> QED
    BY <2>2 DEF Holders
<1>2. \A s \in Slots : b[s].at = a[s].at /\ b[s] \in [on : BOOLEAN, at : Items]
  BY <1>1 DEF DeactivateByIndex, Disable, Window, Items
<1>3. b \in Window(ItemCount)
  BY <1>2 DEF DeactivateByIndex, Window, Items
<1> QED
  BY <1>2, <1>3

(* next_actives. *)
LEMMA NextActivesFacts ==
  ASSUME NEW a \in Window(ItemCount), \A s \in Slots : InColumn(a[s].at, s)
  PROVE  /\ NextActives(a, ItemCount) \in Window(ItemCount)
         /\ \A s \in Slots : InColumn(NextActives(a, ItemCount)[s].at, s)
         /\ EndOfItems(a, ItemCount) => Eof(a, ItemCount) \in Slots
<1> DEFINE b == NextActives(a, ItemCount)
<1>1. EndOfItems(a, ItemCount) => Eof(a, ItemCount) \in Slots
  <2>1. Exhausted(a, ItemCount) \in SUBSET Slots
    BY DEF Exhausted
  <2> QED
    BY <2>1, FirstSlot DEF EndOfItems, Eof
<1>2. ASSUME NEW s \in Slots
      PROVE  b[s] \in [on : BOOLEAN, at : Items] /\ InColumn(b[s].at, s)
  <2>1. a[s] \in [on : BOOLEAN, at : Items]
    BY DEF Window, Items
  <2>2. CASE \A e \in Exhausted(a, ItemCount) : s < e
    <3>1. b[s] = [on |-> TRUE, at |-> NextIndex(a, s)]
      BY <2>2 DEF NextActives, Enable
    <3>2. s \notin Exhausted(a, ItemCount)
      BY <2>2, ConstantFacts
    <3>3. NextIndex(a, s) \in Items
      BY <2>1, <3>2, ConstantFacts DEF Exhausted, NextIndex, Items
    <3>4. InColumn(NextIndex(a, s), s)
      BY ColumnStep DEF NextIndex
    <3> QED
      BY <3>1, <3>3, <3>4
  <2>3. CASE ~ \A e \in Exhausted(a, ItemCount) : s < e
    <3>1. b[s] = a[s]
      BY <2>3 DEF NextActives
    <3> QED
      BY <2>1, <3>1
  <2> QED
    BY <2>2, <2>3
<1>3. b \in Window(ItemCount)
  BY <1>2 DEF NextActives, Window, Items
<1> QED
  BY <1>1, <1>2, <1>3

(* repeat_after_eof. *)
LEMMA RepeatFacts ==
  ASSUME NEW a \in Window(ItemCount), \A s \in Slots : InColumn(a[s].at, s),
         NEW eof \in Slots
  PROVE  /\ RepeatAfterEof(a, eof) \in Window(ItemCount)
         /\ \A s \in Slots : InColumn(RepeatAfterEof(a, eof)[s].at, s)
         /\ Restarted(eof) \subseteq Slots
<1> DEFINE b == RepeatAfterEof(a, eof)
<1>1. ASSUME NEW s \in Slots
      PROVE  b[s] \in [on : BOOLEAN, at : Items] /\ InColumn(b[s].at, s)
  <2>1. CASE s \in Restarted(eof)
    <3>1. b[s] = [on |-> TRUE, at |-> s]
      BY <2>1 DEF RepeatAfterEof, Enable
    <3> QED
      BY <3>1, ColumnStart, ConstantFacts
  <2>2. CASE s \notin Restarted(eof)
    <3>1. b[s] = a[s]
      BY <2>2 DEF RepeatAfterEof
    <3> QED
      BY <3>1 DEF Window, Items
  <2> QED
    BY <2>1, <2>2
<1>2. b \in Window(ItemCount)
  BY <1>1 DEF RepeatAfterEof, Window, Items
<1>3. Restarted(eof) \subseteq Slots
  BY ConstantFacts DEF Restarted, Slots
<1> QED
  BY <1>1, <1>2, <1>3

-------------------------------------------------------------------------------
THEOREM InitInv == Init => IInv
<1> SUFFICES ASSUME Init PROVE IInv
  OBVIOUS
<1>1. last = [call |-> "with_items", item |-> NoItem, ok |-> TRUE]
  BY DEF Init, Answer
<1>2. TypeOK
  <2>1. last \in Answers
    BY <1>1 DEF Answers
  <2> QED
    BY <2>1, StartFacts DEF Init, TypeOK
<1>3. InOwnColumn
  BY StartFacts DEF Init, InOwnColumn
<1>4. EofIsSlot
  BY <1>1 DEF EofIsSlot
<1> QED
  BY <1>2, <1>3, <1>4 DEF IInv

THEOREM StepInv == IInv /\ [Next]_vars => IInv'
<1> SUFFICES ASSUME IInv, [Next]_vars PROVE IInv'
  OBVIOUS
<1> USE DEF IInv, InOwnColumn
<1>0. actives \in Window(ItemCount) /\ last \in Answers /\ shown \subseteq Items
  BY DEF TypeOK
<1>1. ASSUME NEW i \in Items, Deactivate(i)
      PROVE  IInv'
  <2>1. /\ last' \in Answers
        /\ last'.call = "deactivate"
        /\ shown' \subseteq Items
    <3>1. \/ last' = [call |-> "deactivate", item |-> i, ok |-> TRUE]
          \/ last' = [call |-> "deactivate", item |-> i, ok |-> FALSE]
      BY <1>1 DEF Deactivate, Answer
    <3>2. shown' = shown
      BY <1>1 DEF Deactivate
    <3>3. \A ok \in BOOLEAN :
            [call |-> "deactivate", item |-> i, ok |-> ok] \in Answers
      BY DEF Answers
    <3>4. last'.call = "deactivate"
      BY <3>1
    <3> QED
      BY <1>0, <3>1, <3>2, <3>3, <3>4
  <2>2. CASE AlreadyNotActive(actives, i)
    BY <1>0, <1>1, <2>1, <2>2 DEF Deactivate, TypeOK, EofIsSlot
  <2>3. CASE ~ AlreadyNotActive(actives, i)
    <3>1. actives' = DeactivateByIndex(actives, i)
      BY <1>1, <2>3 DEF Deactivate
    <3> QED
      BY <1>0, <2>1, <2>3, <3>1, DeactivateFacts DEF TypeOK, EofIsSlot
  <2> QED
    BY <2>2, <2>3
<1>2. CASE DeactivateUnknown
  BY <1>0, <1>2 DEF DeactivateUnknown, Answer, Answers, TypeOK, EofIsSlot
<1>3. CASE Next_actives
  <2>1. /\ actives' = NextActives(actives, ItemCount)
        /\ shown' = shown \cup ActiveItems(actives')
    BY <1>3 DEF Next_actives
  <2>2. /\ actives' \in Window(ItemCount)
        /\ InOwnColumn'
        /\ EndOfItems(actives, ItemCount) => Eof(actives, ItemCount) \in Slots
    BY <1>0, <2>1, NextActivesFacts
  <2>3. shown' \subseteq Items
    BY <1>0, <2>1, <2>2, ShownAreItems
  <2>4. last' \in Answers /\ EofIsSlot'
    BY <1>3, <2>2, ConstantFacts DEF Next_actives, Answer, Answers, EofIsSlot
  <2> QED
    BY <2>2, <2>3, <2>4 DEF TypeOK
<1>4. CASE Repeat_after_eof
  <2>1. last.item \in Slots
    BY <1>4 DEF Repeat_after_eof, EofIsSlot
  <2>2. /\ actives' = RepeatAfterEof(actives, last.item)
        /\ shown' \subseteq shown \cup Restarted(last.item)
        /\ last' = [call |-> "repeat", item |-> NoItem, ok |-> TRUE]
    BY <1>4 DEF Repeat_after_eof, Answer
  <2>3. /\ actives' \in Window(ItemCount)
        /\ InOwnColumn'
        /\ Restarted(last.item) \subseteq Slots
    BY <1>0, <2>1, <2>2, RepeatFacts
  <2>4. shown' \subseteq Items
    BY <1>0, <2>2, <2>3, ConstantFacts
  <2>5. last' \in Answers /\ EofIsSlot'
    BY <2>2 DEF Answers, EofIsSlot
  <2> QED
    BY <2>3, <2>4, <2>5 DEF TypeOK
<1>5. CASE Reset
  <2>1. /\ actives' = WithItems
        /\ shown' = ActiveItems(WithItems)
        /\ last' = [call |-> "reset", item |-> NoItem, ok |-> TRUE]
    BY <1>5 DEF Reset, Answer
  <2>2. last' \in Answers /\ EofIsSlot'
    BY <2>1 DEF Answers, EofIsSlot
  <2> QED
    BY <2>1, <2>2, StartFacts DEF TypeOK
<1>6. CASE UNCHANGED vars
  BY <1>0, <1>6 DEF vars, TypeOK, EofIsSlot
<1> QED
  BY <1>1, <1>2, <1>3, <1>4, <1>5, <1>6 DEF Next

(* The invariant gives the property: two slots of one column are one slot. *)
LEMMA InvGivesNoSharedItem == IInv => NoSharedItem
BY ColumnsDisjoint DEF IInv, InOwnColumn, NoSharedItem

-------------------------------------------------------------------------------
(* Every position a slot holds is an item of the list, whatever the number  *)
(* of slots and items: active_items never indexes out of the list.         *)
THEOREM WindowTypeOK == Spec => []TypeOK
<1>1. IInv => TypeOK
  BY DEF IInv
<1> QED
  BY <1>1, InitInv, StepInv, PTL DEF Spec

(* No item is ever held by two slots, whatever the number of slots and items. *)
THEOREM WindowNoSharedItem == Spec => []NoSharedItem
BY InitInv, StepInv, InvGivesNoSharedItem, PTL DEF Spec

-------------------------------------------------------------------------------
(* The items seen since a slot last started over lie behind it: no item of   *)
(* the slot's column that has been shown is further than the slot is now.   *)
ShownBehind ==
  \A s \in Slots : \A i \in shown : InColumn(i, s) => i <= actives[s].at

(* The columns of the history variable are the columns of the invariant. *)
LEMMA ColumnsAgree ==
  ASSUME NEW s \in Slots, NEW i \in Items, InColumn(i, s)
  PROVE  i \in Column(s)
<1>1. PICK k \in Nat : i = s + k * ActiveCount
  BY DEF InColumn
<1>2. s \in Nat /\ ActiveCount \in Nat \ {0}
  BY ConstantFacts
<1> DEFINE p == k * ActiveCount
           q == p \div ActiveCount
<1>3. p \in Nat /\ i - s = p
  BY <1>1, <1>2
<1>4. /\ q \in Int
      /\ p = ActiveCount * q + (p % ActiveCount)
      /\ p % ActiveCount \in 0 .. (ActiveCount - 1)
  <2> HIDE DEF p
  <2>1. /\ p \div ActiveCount \in Int
        /\ p = ActiveCount * (p \div ActiveCount) + (p % ActiveCount)
        /\ p % ActiveCount \in 0 .. (ActiveCount - 1)
    BY <1>2, <1>3
  <2> QED
    BY <2>1
<1> HIDE DEF q
<1>5. p % ActiveCount = (k - q) * ActiveCount
  <2> DEFINE r == p % ActiveCount
  <2>1. r \in Int /\ p = ActiveCount * q + r
    BY <1>4, <1>2
  <2> HIDE DEF r
  <2>2. r = k * ActiveCount - ActiveCount * q
    BY <1>2, <1>4, <2>1
  <2>3. r = (k - q) * ActiveCount
    BY <1>2, <1>4, <2>2
  <2> QED
    BY <2>3 DEF r
<1> HIDE DEF p
<1>6. k - q < 1
  <2> SUFFICES ASSUME k - q >= 1 PROVE FALSE
    BY <1>4
  <2>1. (k - q - 1) * ActiveCount >= 0
    BY <1>2, <1>4
  <2>2. (k - q) * ActiveCount = (k - q - 1) * ActiveCount + ActiveCount
    BY <1>2, <1>4
  <2> QED
    BY <1>2, <1>4, <1>5, <2>1, <2>2
<1>7. k - q > -1
  <2> SUFFICES ASSUME k - q <= -1 PROVE FALSE
    BY <1>4
  <2>1. (q - k - 1) * ActiveCount >= 0
    BY <1>2, <1>4
  <2>2. (k - q) * ActiveCount = - ((q - k - 1) * ActiveCount) - ActiveCount
    BY <1>2, <1>4
  <2> QED
    BY <1>2, <1>4, <1>5, <2>1, <2>2
<1>8. k - q = 0
  BY <1>4, <1>6, <1>7
<1>9. p % ActiveCount = 0
  BY <1>2, <1>5, <1>8
<1> QED
  BY <1>3, <1>9 DEF Column

(* next_actives moves a slot forward or leaves it where it is; a slot that   *)
(* comes to an item it did not show is one that has moved.                  *)
LEMMA NextMovesForward ==
  ASSUME NEW a \in Window(ItemCount), NEW s \in Slots
  PROVE  LET b == NextActives(a, ItemCount)[s]
         IN  \/ b = a[s]
             \/ a[s].on /\ b.on /\ b.at = a[s].at
             \/ ~ a[s].on /\ b.at = a[s].at + ActiveCount
<1>1. a[s] \in [on : BOOLEAN, at : Items]
  BY DEF Window, Items
<1> QED
  BY <1>1 DEF NextActives, NextIndex, Enable

(* Every slot starts at the first item of its column. *)
LEMMA StartBehind ==
  ASSUME NEW s \in Slots, NEW i \in ActiveItems(WithItems), InColumn(i, s)
  PROVE  i <= WithItems[s].at
<1>1. \A t \in Slots : WithItems[t].at = t
  BY DEF WithItems, Enable
<1>2. PICK t \in Slots : i = WithItems[t].at
  BY DEF ActiveItems, ActiveItem
<1>3. i = t /\ InColumn(i, t)
  BY <1>1, <1>2, ColumnStart
<1>4. s = t
  BY <1>3, ColumnsDisjoint
<1> QED
  BY <1>1, <1>3, <1>4, ConstantFacts

(* Every call keeps what has been seen behind its slot. *)
LEMMA ShownStaysBehind == IInv /\ ShownBehind /\ [Next]_vars => ShownBehind'
<1> SUFFICES ASSUME IInv, ShownBehind, [Next]_vars PROVE ShownBehind'
  OBVIOUS
<1>0. /\ actives \in Window(ItemCount) /\ shown \subseteq Items
      /\ \A s \in Slots : InColumn(actives[s].at, s)
      /\ \A s \in Slots : actives[s] \in [on : BOOLEAN, at : Items]
      /\ \A s \in Slots : actives[s].at \in Nat
  BY ConstantFacts DEF IInv, TypeOK, InOwnColumn, Window, Items
<1>1. ASSUME NEW i \in Items, Deactivate(i)
      PROVE  ShownBehind'
  <2>1. CASE AlreadyNotActive(actives, i)
    BY <1>1, <2>1 DEF Deactivate, ShownBehind
  <2>2. CASE ~ AlreadyNotActive(actives, i)
    <3> DEFINE f == First(Holders(actives, i))
    <3>1. f \in Slots /\ actives[f].at = i
      <4>1. Holders(actives, i) \in SUBSET Slots /\ Holders(actives, i) # {}
        BY <2>2 DEF Holders, AlreadyNotActive
      <4>2. f \in Holders(actives, i)
        BY <4>1, FirstSlot
      <4> QED
        BY <4>2 DEF Holders
    <3>2. actives' = DeactivateByIndex(actives, i) /\ shown' = shown
      BY <1>1, <2>2 DEF Deactivate
    <3>3. \A s \in Slots : actives'[s].at = actives[s].at
      BY <1>0, <3>1, <3>2 DEF DeactivateByIndex, Disable, Window
    <3> QED
      BY <3>2, <3>3 DEF ShownBehind
  <2> QED
    BY <2>1, <2>2
<1>2. CASE DeactivateUnknown
  BY <1>2 DEF DeactivateUnknown, ShownBehind
<1>3. CASE Next_actives
  <2>1. /\ actives' = NextActives(actives, ItemCount)
        /\ shown' = shown \cup ActiveItems(actives')
    BY <1>3 DEF Next_actives
  <2>2. /\ actives' \in Window(ItemCount)
        /\ \A s \in Slots : InColumn(actives'[s].at, s)
    BY <1>0, <2>1, NextActivesFacts
  <2>3. \A s \in Slots : actives'[s].at \in Nat /\ actives[s].at <= actives'[s].at
    <3> TAKE s \in Slots
    <3>1. actives'[s].at \in Nat
      BY <2>2, ConstantFacts DEF Window, Items
    <3>2. \/ actives'[s].at = actives[s].at
          \/ actives'[s].at = actives[s].at + ActiveCount
      BY <1>0, <2>1, NextMovesForward
    <3> QED
      BY <1>0, <3>1, <3>2, ConstantFacts
  <2>4. ASSUME NEW s \in Slots, NEW i \in shown', InColumn(i, s)
        PROVE  i <= actives'[s].at
    <3>1. CASE i \in shown
      <4>1. i <= actives[s].at /\ i \in Nat
        BY <1>0, <2>4, <3>1, ConstantFacts DEF ShownBehind
      <4> QED
        BY <1>0, <2>3, <4>1
    <3>2. CASE i \in ActiveItems(actives')
      <4>1. PICK t \in Slots : i = actives'[t].at
        BY <3>2 DEF ActiveItems, ActiveItem
      <4>2. t = s
        BY <2>2, <2>4, <4>1, ColumnsDisjoint
      <4> QED
        BY <2>3, <4>1, <4>2
    <3> QED
      BY <2>1, <3>1, <3>2
  <2> QED
    BY <2>4 DEF ShownBehind
<1>4. CASE Repeat_after_eof
  <2> DEFINE again == Restarted(last.item)
  <2>1. last.item \in Slots /\ again \subseteq Slots
    BY <1>0, <1>4, RepeatFacts DEF Repeat_after_eof, IInv, EofIsSlot
  <2>2. /\ actives' = RepeatAfterEof(actives, last.item)
        /\ shown' = (shown \ UNION {Column(s) : s \in again}) \cup again
    BY <1>4 DEF Repeat_after_eof
  <2> HIDE DEF again
  <2>3. ASSUME NEW s \in Slots, NEW i \in shown', InColumn(i, s)
        PROVE  i <= actives'[s].at
    <3>1. i \in again => i = s
      BY <2>1, <2>3, ColumnStart, ColumnsDisjoint
    <3>2. CASE s \in again
      <4>1. actives'[s].at = s
        BY <2>2, <2>3, <3>2 DEF RepeatAfterEof, Enable, again
      <4>2. i \in again
        BY <1>0, <2>2, <2>3, <3>2, ColumnsAgree
      <4> QED
        BY <3>1, <4>1, <4>2, ConstantFacts
    <3>3. CASE s \notin again
      <4>1. actives'[s] = actives[s]
        BY <2>2, <2>3, <3>3 DEF RepeatAfterEof, again
      <4>2. i \in shown
        BY <2>2, <3>1, <3>3
      <4> QED
        BY <2>3, <4>1, <4>2 DEF ShownBehind
    <3> QED
      BY <3>2, <3>3
  <2> QED
    BY <2>3 DEF ShownBehind
<1>5. CASE Reset
  <2>1. actives' = WithItems /\ shown' = ActiveItems(WithItems)
    BY <1>5 DEF Reset
  <2> QED
    BY <2>1, StartBehind DEF ShownBehind
<1>6. CASE UNCHANGED vars
  BY <1>6 DEF vars, ShownBehind
<1> QED
  BY <1>1, <1>2, <1>3, <1>4, <1>5, <1>6 DEF Next

(* Outside a restart, only an item that no slot has passed is enabled. *)
LEMMA DealsUnseen ==
  ASSUME IInv, ShownBehind, [Next]_vars, last'.call \in {"deactivate", "next"},
         NEW i \in ActiveItems(actives') \ ActiveItems(actives)
  PROVE  i \notin shown
<1>0. /\ actives \in Window(ItemCount)
      /\ \A s \in Slots : InColumn(actives[s].at, s)
      /\ \A s \in Slots : actives[s].at \in Nat
  BY ConstantFacts DEF IInv, TypeOK, InOwnColumn, Window, Items
<1>1. PICK s \in Slots : actives'[s].on /\ i = actives'[s].at
  BY DEF ActiveItems, ActiveItem
<1>2. ~ (actives[s].on /\ actives[s].at = i)
  BY DEF ActiveItems, ActiveItem
<1>3. actives'[s] # actives[s]
  BY <1>1, <1>2
<1>4. ASSUME NEW j \in Items, Deactivate(j)
      PROVE  FALSE
  <2>1. \/ actives' = actives
        \/ actives' = DeactivateByIndex(actives, j)
    BY <1>4 DEF Deactivate
  <2>2. actives'[s] = actives[s] \/ ~ actives'[s].on
    BY <1>0, <2>1 DEF DeactivateByIndex, Disable, Window
  <2> QED
    BY <1>1, <1>3, <2>2
<1>5. CASE Next_actives
  <2>1. actives' = NextActives(actives, ItemCount)
    BY <1>5 DEF Next_actives
  <2>2. InColumn(i, s)
    BY <1>0, <1>1, <2>1, NextActivesFacts
  <2>3. i = actives[s].at + ActiveCount
    BY <1>0, <1>1, <1>2, <1>3, <2>1, NextMovesForward
  <2>4. ~ (i <= actives[s].at)
    BY <1>0, <2>3, ConstantFacts
  <2> QED
    BY <2>2, <2>4 DEF ShownBehind
<1>6. ~ Repeat_after_eof /\ ~ Reset
  BY DEF Repeat_after_eof, Reset, Answer
<1>7. ~ DeactivateUnknown /\ ~ UNCHANGED vars
  BY <1>3 DEF DeactivateUnknown, vars
<1> QED
  BY <1>4, <1>5, <1>6, <1>7 DEF Next

(* A card that has left the hand is not dealt again before the list starts   *)
(* over, whatever the number of slots and items.                            *)
THEOREM WindowNoRedeal == Spec => NoRedeal
<1> DEFINE Inv == IInv /\ ShownBehind
           Deals == last'.call \in {"deactivate", "next"} =>
                      \A i \in ActiveItems(actives') \ ActiveItems(actives) : i \notin shown
<1>1. Init => Inv
  BY InitInv, StartBehind DEF Init, ShownBehind
<1>2. Inv /\ [Next]_vars => Inv'
  BY StepInv, ShownStaysBehind
<1>3. Inv /\ [Next]_vars => [Deals]_vars
  BY DealsUnseen
<1> QED
  BY <1>1, <1>2, <1>3, PTL DEF Spec, NoRedeal
===============================================================================
