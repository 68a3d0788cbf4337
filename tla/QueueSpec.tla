------------------------------- MODULE QueueSpec -------------------------------
(***************************************************************************)
(* What a bounded first-in first-out queue promises: what is put in comes   *)
(* out once, in the order it went in, and there is never more of it than    *)
(* the capacity.                                                            *)
(***************************************************************************)
EXTENDS Naturals, Sequences

CONSTANTS Consumers, Cap

VARIABLES
  items,      \* what is in the queue, oldest first
  out         \* what each consumer has taken and not yet copied out

Init == items = <<>> /\ out = [c \in Consumers |-> <<>>]

\* One item, or a batch, is added at the back.
Put ==
  /\ Len(items') \in Len(items) + 1 .. Cap
  /\ SubSeq(items', 1, Len(items)) = items
  /\ UNCHANGED out

\* One item, or a batch, goes from the front to a consumer.
Take(c) ==
  \E n \in 1 .. Len(items) :
    /\ items' = SubSeq(items, n + 1, Len(items))
    /\ out' = [out EXCEPT ![c] = SubSeq(items, 1, n)]

\* The consumer has its copy.
Copied(c) ==
  /\ out' = [out EXCEPT ![c] = <<>>]
  /\ UNCHANGED items

Clear == items' = <<>> /\ UNCHANGED out

Next == Put \/ Clear \/ \E c \in Consumers : Take(c) \/ Copied(c)

Spec == Init /\ [][Next]_<<items, out>>
================================================================================
