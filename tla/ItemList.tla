------------------------------ MODULE ItemList ------------------------------
(***************************************************************************)
(* What a b_stack promises: a list that items are added to at one end and  *)
(* taken from at both.  Its one weakness is explicit: when memory is short *)
(* an item may be refused, and an item that is asked for may be lost, the  *)
(* caller being told that the list is empty.                               *)
(***************************************************************************)
EXTENDS Integers, Sequences

CONSTANTS Items, Null

VARIABLES
  list,       \* the items, oldest first
  result,     \* what the last call returned
  released,   \* what the last list held when it was destroyed
  memory      \* "ample", or "short" when an allocation may fail

listVars == <<list, result, released, memory>>

ListInit ==
  /\ list = << >> /\ result = Null /\ released = << >>
  /\ memory \in {"ample", "short"}

Create ==
  list = << >> /\ released' = << >> /\ UNCHANGED <<list, result, memory>>

Add == \E item \in Items :
  list' = Append(list, item) /\ result' = item /\ UNCHANGED <<released, memory>>

Refuse ==
  memory = "short" /\ result' = Null /\ UNCHANGED <<list, released, memory>>

TakeLast ==
  /\ list # << >>
  /\ result' = list[Len(list)] /\ list' = SubSeq(list, 1, Len(list) - 1)
  /\ UNCHANGED <<released, memory>>

TakeFirst ==
  /\ list # << >>
  /\ result' = list[1] /\ list' = Tail(list)
  /\ UNCHANGED <<released, memory>>

TakeNothing ==
  list = << >> /\ result' = Null /\ UNCHANGED <<list, released, memory>>

Lose ==
  /\ memory = "short" /\ list # << >>
  /\ list' \in {SubSeq(list, 1, Len(list) - 1), Tail(list)}
  /\ result' = Null
  /\ UNCHANGED <<released, memory>>

Look == \E index \in 1..(Len(list) + 1) :
  /\ result' = IF index <= Len(list) THEN list[index] ELSE Null
  /\ UNCHANGED <<list, released, memory>>

Turn ==
  /\ list' = [i \in 1..Len(list) |-> list[Len(list) + 1 - i]]
  /\ UNCHANGED <<result, released, memory>>

Destroy ==
  list' = << >> /\ released' = list /\ UNCHANGED <<result, memory>>

ListNext ==
  \/ Create \/ Add \/ Refuse
  \/ TakeLast \/ TakeFirst \/ TakeNothing \/ Lose
  \/ Look \/ Turn \/ Destroy

ListSpec == ListInit /\ [][ListNext]_listVars
=============================================================================
