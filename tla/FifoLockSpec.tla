------------------------------ MODULE FifoLockSpec -----------------------------
(***************************************************************************)
(* What a first-come first-served lock promises: threads queue up, the head *)
(* of the queue and nobody else gets the lock.  A thread that only tries    *)
(* the lock may leave the queue again before it has it.                     *)
(***************************************************************************)
EXTENDS Sequences, SequencesExt

CONSTANT Threads

VARIABLES
  queue,      \* the threads in the order they arrived, the holder first
  held        \* whether the head of the queue has the lock

Init == queue = <<>> /\ held = FALSE

Arrive(t) ==
  /\ t \notin ToSet(queue)
  /\ queue' = Append(queue, t)
  /\ UNCHANGED held

Grant ==
  /\ ~held
  /\ queue # <<>>
  /\ held' = TRUE
  /\ UNCHANGED queue

\* Arriving at an empty queue and getting the lock in one step.
Take(t) ==
  /\ queue = <<>>
  /\ queue' = <<t>>
  /\ held' = TRUE

Withdraw(t) ==
  /\ t \in ToSet(queue)
  /\ ~(held /\ Head(queue) = t)
  /\ queue' = Remove(queue, t)
  /\ UNCHANGED held

Release ==
  /\ held
  /\ queue' = Tail(queue)
  /\ held' = FALSE

Next ==
  \/ Grant
  \/ Release
  \/ \E t \in Threads : Arrive(t) \/ Take(t) \/ Withdraw(t)

Spec == Init /\ [][Next]_<<queue, held>>
================================================================================
