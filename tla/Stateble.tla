------------------------------- MODULE Stateble -------------------------------
(***************************************************************************)
(* The window of active items over a fixed list, server/details.rs.        *)
(*                                                                         *)
(* A Stateble<A, ACTIVE_COUNT> is a list of items and an array of          *)
(* ACTIVE_COUNT slots; a slot holds the position of an item and says       *)
(* whether that item is enabled.  The game uses it three times: over the   *)
(* players of a room (one slot: whose turn it is), over the monster deck   *)
(* (two slots: the monsters on the table) and over a player's ability      *)
(* deck (three slots: the hand).                                           *)
(*                                                                         *)
(* Items are told apart only by their position (the decks and the room     *)
(* hold no item twice), so a list is the number n of its items.            *)
(***************************************************************************)
EXTENDS Integers, FiniteSets

CONSTANT ActiveCount          \* ACTIVE_COUNT: number of slots

ASSUME ActiveCountAssumption == ActiveCount \in Nat \ {0}

Slots == 0 .. (ActiveCount - 1)

(* ActiveState *)
Enable(i)  == [on |-> TRUE,  at |-> i]
Disable(i) == [on |-> FALSE, at |-> i]

(* What an `actives` array over n items can be. *)
Window(n) == [Slots -> [on : BOOLEAN, at : 0 .. (n - 1)]]

(* The smallest element: what a scan from the left meets first. *)
First(S) == CHOOSE s \in S : \A t \in S : s <= t

(* with_items, and reset: slot s shows item s. *)
WithItems == [s \in Slots |-> Enable(s)]

(* active_items: the enabled items, slot by slot, and as a set. *)
ActiveItem(a, s) == IF a[s].on THEN {a[s].at} ELSE {}
ActiveItems(a)   == UNION {ActiveItem(a, s) : s \in Slots}

(* deactivate_item_by_index: the first slot that holds i, enabled or not.   *)
(* AlreadyNotActive is the answer when there is none.                      *)
Holders(a, i)           == {s \in Slots : a[s].at = i}
AlreadyNotActive(a, i)  == Holders(a, i) = {}
DeactivateByIndex(a, i) == [a EXCEPT ![First(Holders(a, i))] = Disable(i)]

(* Mutated forms of the next definitions, each the slip its name says. *)
StepByOne(a, s)       == IF a[s].on THEN a[s].at ELSE a[s].at + 1
StepByNone(a, s)      == a[s].at
LengthIsAnIndex(a, n) == {s \in Slots : a[s].at + ActiveCount > n}

(* next_actives: a disabled slot moves ActiveCount items further.  The loop *)
(* stops at the first slot with no item left and keeps what it has done.   *)
NextIndex(a, s)  == IF a[s].on THEN a[s].at ELSE a[s].at + ActiveCount
Exhausted(a, n)  == {s \in Slots : NextIndex(a, s) >= n}
EndOfItems(a, n) == Exhausted(a, n) # {}
Eof(a, n)        == First(Exhausted(a, n))
NextActives(a, n) ==
  [s \in Slots |-> IF \A e \in Exhausted(a, n) : s < e
                   THEN Enable(NextIndex(a, s))
                   ELSE a[s]]

(* repeat_after_eof: the first ActiveCount - eof slots start over. *)
Restarted(eof) == 0 .. (ActiveCount - eof - 1)
RepeatAfterEof(a, eof) ==
  [s \in Slots |-> IF s \in Restarted(eof) THEN Enable(s) ELSE a[s]]
===============================================================================
