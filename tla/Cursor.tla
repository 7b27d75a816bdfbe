-------------------------------- MODULE Cursor --------------------------------
(***************************************************************************)
(* The cursor of a client over a list whose places may be empty:            *)
(* StatefulList<Option<E>>, client/ui/details.rs and protocol/details.rs.   *)
(*                                                                         *)
(* A list is a function on 0 .. n-1; an empty place holds None.  The cursor *)
(* is a place, or None.  The list is replaced under the cursor: nothing     *)
(* keeps the cursor on an item.                                            *)
(***************************************************************************)
EXTENDS Integers, FiniteSets

None == -1

Filled(list) == {i \in DOMAIN list : list[i] # None}
Length(list) == Cardinality(DOMAIN list)
Last(list)   == Length(list) - 1

(* A list that is not empty must have a cursor, "Must be Some". *)
Lost(list, at) == at = None /\ Filled(list) # {}

(* A step of the loops of next and prev, and of those that join the ends. *)
Right(list)      == [i \in DOMAIN list |-> i + 1]
RightRound(list) == [i \in DOMAIN list |-> IF i >= Last(list) THEN 0 ELSE i + 1]
Left(list)       == [i \in DOMAIN list |-> i - 1]
LeftRound(list)  == [i \in DOMAIN list |-> IF i = 0 THEN Last(list) ELSE i - 1]

(* Where a loop stops that begins at a place and steps while the place is      *)
(* empty: place[k] is the place after k rounds.  Bound: a round for each place,  *)
(* after which the loops would be where they began.                        *)
Stops(list, from, step) ==
  LET place[k \in 0 .. Length(list)] ==
        IF k = 0 THEN from
        ELSE IF list[place[k - 1]] # None THEN place[k - 1]
        ELSE step[place[k - 1]]
  IN  place[Length(list)]

(* Mutated: past the end of the list; an empty place is not skipped; the only  *)
(* item is not found from its own place.                                   *)
NextBeyond(list, at) == IF Filled(list) = {} THEN None ELSE at + 1
PrevUnchecked(list, at) ==
  IF Filled(list) = {} THEN None
  ELSE IF at = 0 THEN Last(list) ELSE at - 1
NextOther(list, at) ==
  IF Filled(list) \ {at} = {} THEN None
  ELSE Stops(list, IF at >= Last(list) THEN 0 ELSE at + 1, RightRound(list))

NextPlace(list, at) ==
  IF Filled(list) = {} THEN None
  ELSE IF at >= Last(list) THEN Stops(list, 0, Right(list))
  ELSE Stops(list, at + 1, RightRound(list))

PrevPlace(list, at) ==
  IF Filled(list) = {} THEN None
  ELSE IF at = 0 THEN Stops(list, Last(list), Left(list))
  ELSE Stops(list, at - 1, LeftRound(list))

(* active(): the item under the cursor. *)
OnItem(list, at) == at # None /\ list[at] # None
===============================================================================
