------------------------------- MODULE MutexSpec -------------------------------
(***************************************************************************)
(* What every exclusive lock of mutex/ promises, and nothing about how:     *)
(* the lock is taken only when nobody has it, and given back only by the    *)
(* thread that has it.  The detailed lock modules are shown to implement    *)
(* this specification under a refinement mapping of holder.                 *)
(***************************************************************************)
CONSTANT Threads

VARIABLE holder      \* the set of threads inside the critical section

Init == holder = {}

Acquire(t) == holder = {} /\ holder' = {t}

Release(t) == holder = {t} /\ holder' = {}

Next == \E t \in Threads : Acquire(t) \/ Release(t)

Spec == Init /\ [][Next]_holder
================================================================================
