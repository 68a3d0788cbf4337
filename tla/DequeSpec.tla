------------------------------- MODULE DequeSpec -------------------------------
(***************************************************************************)
(* What a work-stealing deque promises: the owner puts and takes at the     *)
(* back, thieves take at the front, and every item is handed out once.      *)
(***************************************************************************)
EXTENDS Naturals, Sequences

VARIABLES
  items,      \* what is in the deque
  taken       \* how often each item has been handed out

Init == items = <<>> /\ taken = [x \in DOMAIN taken |-> 0]

Put ==
  /\ Len(items') = Len(items) + 1
  /\ SubSeq(items', 1, Len(items)) = items
  /\ UNCHANGED taken

HandOut(x) == taken' = [taken EXCEPT ![x] = @ + 1]

Pop ==
  /\ items # <<>>
  /\ HandOut(items[Len(items)])
  /\ items' = SubSeq(items, 1, Len(items) - 1)

Steal ==
  /\ items # <<>>
  /\ HandOut(Head(items))
  /\ items' = Tail(items)

Next == Put \/ Pop \/ Steal

Spec == Init /\ [][Next]_<<items, taken>>
================================================================================
