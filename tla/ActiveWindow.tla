----------------------------- MODULE ActiveWindow -----------------------------
(***************************************************************************)
(* One Stateble under every sequence of calls its owners make on it.       *)
(*                                                                         *)
(*   deactivate_item_by_index  the switch of players, a dropped ability    *)
(*   deactivate_item           a killed monster                            *)
(*   next_actives              every owner                                 *)
(*   repeat_after_eof          the players, on the EndOfItems they got     *)
(*   reset                     declared, called by no one                  *)
(*                                                                         *)
(* `last` keeps what the last call answered: repeat_after_eof consumes an  *)
(* EndOfItems, which only next_actives makes.  `shown` is a history        *)
(* variable: the items that have been enabled since their slot last        *)
(* started over.                                                           *)
(***************************************************************************)
EXTENDS Stateble

CONSTANT ItemCount            \* number of items in the list

ASSUME ItemCountAssumption == ItemCount \in Nat /\ ActiveCount <= ItemCount

Items == 0 .. (ItemCount - 1)

VARIABLES actives,            \* the array of slots
          last,               \* [call, item, ok]: the last call and its answer
          shown               \* history: items enabled since the last restart

vars == <<actives, last, shown>>

NoItem == -1
Answers == [call : {"with_items", "deactivate", "next", "repeat", "reset"},
            item : Items \cup {NoItem},
            ok   : BOOLEAN]

Answer(call, item, ok) == [call |-> call, item |-> item, ok |-> ok]

Init ==
  /\ actives = WithItems
  /\ last = Answer("with_items", NoItem, TRUE)
  /\ shown = ActiveItems(WithItems)

(* Both calls look for a slot that holds item i; deactivate_item first turns *)
(* an item into its position.                                              *)
Deactivate(i) ==
  /\ IF AlreadyNotActive(actives, i)
     THEN /\ last' = Answer("deactivate", i, FALSE)
          /\ UNCHANGED actives
     ELSE /\ last' = Answer("deactivate", i, TRUE)
          /\ actives' = DeactivateByIndex(actives, i)
  /\ UNCHANGED shown

(* deactivate_item of an item the list does not have. *)
DeactivateUnknown ==
  /\ last' = Answer("deactivate", NoItem, FALSE)
  /\ UNCHANGED <<actives, shown>>

Next_actives ==
  /\ actives' = NextActives(actives, ItemCount)
  /\ last' = IF EndOfItems(actives, ItemCount)
             THEN Answer("next", Eof(actives, ItemCount), FALSE)
             ELSE Answer("next", NoItem, TRUE)
  /\ shown' = shown \cup ActiveItems(actives')

(* The items that belong to slot s: s, s + ActiveCount, ... *)
Column(s) == {i \in Items : (i - s) % ActiveCount = 0}

Repeat_after_eof ==
  /\ last.call = "next"
  /\ ~ last.ok
  /\ actives' = RepeatAfterEof(actives, last.item)
  /\ shown' = (shown \ UNION {Column(s) : s \in Restarted(last.item)})
                 \cup Restarted(last.item)
  /\ last' = Answer("repeat", NoItem, TRUE)

Reset ==
  /\ actives' = WithItems
  /\ shown' = ActiveItems(WithItems)
  /\ last' = Answer("reset", NoItem, TRUE)

Next ==
  \/ \E i \in Items : Deactivate(i)
  \/ DeactivateUnknown
  \/ Next_actives
  \/ Repeat_after_eof
  \/ Reset

Spec == Init /\ [][Next]_vars

-------------------------------------------------------------------------------
(* Every slot holds the position of an item, so that active_items, which    *)
(* indexes the list with it, never panics (server/details.rs:68-73).       *)
TypeOK ==
  /\ actives \in Window(ItemCount)
  /\ last \in Answers
  /\ shown \subseteq Items

(* No item is on the table twice: two slots never hold the same position.  *)
(* DeactivateByIndex changes only the first holder, which is right only     *)
(* because of this.  The loop of next_actives that stops half-way and       *)
(* repeat_after_eof, which restarts some slots and not others, both keep it.*)
NoSharedItem ==
  \A s, t \in Slots : s # t => actives[s].at # actives[t].at

(* A card that has left the window stays out: outside a restart, an item    *)
(* that becomes enabled was not enabled before in this pass over the list. *)
NoRedeal ==
  [][ last'.call \in {"deactivate", "next"} =>
        \A i \in ActiveItems(actives') \ ActiveItems(actives) : i \notin shown ]_vars
===============================================================================
