--------------------------------- MODULE LockSet -------------------------------
(***************************************************************************)
(* mutex/locks.hpp: lock_all and try_lock_all over any locks.  lock_all     *)
(* blocks on one lock, tries the others in order, and when one refuses      *)
(* gives everything back and blocks on that one next.                       *)
(***************************************************************************)
EXTENDS Integers, Sequences, FiniteSets

CONSTANTS Threads, Locks, Nobody,
  Order           \* each thread's arguments, in its own order

VARIABLES
  holder,         \* of each lock
  pc,
  start, pos      \* the argument to block on, or 0 in try_lock_all; the one to try

vars == <<holder, pc, start, pos>>

Goto(t, l) == pc' = [pc EXCEPT ![t] = l]

Init ==
  /\ holder = [l \in Locks |-> Nobody]
  /\ pc = [t \in Threads |-> "idle"]
  /\ start = [t \in Threads |-> 0]
  /\ pos = [t \in Threads |-> 1]

Lock(t) ==
  /\ pc[t] = "idle"
  /\ start' = [start EXCEPT ![t] = 1]
  /\ Goto(t, "block")
  /\ UNCHANGED <<holder, pos>>

TryLock(t) ==
  /\ pc[t] = "idle"
  /\ Goto(t, "try")
  /\ UNCHANGED <<holder, start, pos>>

Block(t) ==
  /\ pc[t] = "block"
  /\ holder[Order[t][start[t]]] = Nobody
  /\ holder' = [holder EXCEPT ![Order[t][start[t]]] = t]
  /\ Goto(t, "try")
  /\ UNCHANGED <<start, pos>>

\* One turn of the loop over the others.
Try(t) ==
  /\ pc[t] = "try"
  /\ pos[t] <= Len(Order[t])
  /\ \/ /\ pos[t] = start[t]
        /\ pos' = [pos EXCEPT ![t] = @ + 1]
        /\ UNCHANGED <<holder, pc>>
     \/ /\ pos[t] # start[t]
        /\ holder[Order[t][pos[t]]] = Nobody
        /\ holder' = [holder EXCEPT ![Order[t][pos[t]]] = t]
        /\ pos' = [pos EXCEPT ![t] = @ + 1]
        /\ UNCHANGED pc
     \/ /\ pos[t] # start[t]
        /\ holder[Order[t][pos[t]]] # Nobody
        /\ Goto(t, "back")
        /\ UNCHANGED <<holder, pos>>
  /\ UNCHANGED start

Enter(t) ==
  /\ pc[t] = "try"
  /\ pos[t] > Len(Order[t])
  /\ Goto(t, "cs")
  /\ UNCHANGED <<holder, start, pos>>

Held(t) == {i \in DOMAIN Order[t] : holder[Order[t][i]] = t}

\* The arguments in their order, the one that was blocked on last.
First(t) ==
  LET others == Held(t) \ {start[t]} IN
  IF others = {} THEN start[t] ELSE CHOOSE i \in others : \A j \in others : i <= j

\* Mutated form: the lock that was blocked on is kept.
GiveBackOthers(t) ==
  /\ pc[t] = "back"
  /\ IF Held(t) \ {start[t]} # {}
     THEN holder' = [holder EXCEPT ![Order[t][First(t)]] = Nobody] /\ UNCHANGED <<pc, start, pos>>
     ELSE /\ start' = [start EXCEPT ![t] = IF @ = 0 THEN 0 ELSE pos[t]]
          /\ pos' = [pos EXCEPT ![t] = 1]
          /\ Goto(t, IF start[t] = 0 THEN "idle" ELSE "block")
          /\ UNCHANGED holder

\* A lock refused: everything is given back, and lock_all starts with that one.
GiveBack(t) ==
  /\ pc[t] = "back"
  /\ IF Held(t) # {}
     THEN holder' = [holder EXCEPT ![Order[t][First(t)]] = Nobody] /\ UNCHANGED <<pc, start, pos>>
     ELSE /\ start' = [start EXCEPT ![t] = IF @ = 0 THEN 0 ELSE pos[t]]
          /\ pos' = [pos EXCEPT ![t] = 1]
          /\ Goto(t, IF start[t] = 0 THEN "idle" ELSE "block")
          /\ UNCHANGED holder

\* The caller's unlock(locks...) releases one lock after the other.
Unlock(t) ==
  /\ pc[t] = "cs"
  /\ start' = [start EXCEPT ![t] = 0]
  /\ pos' = [pos EXCEPT ![t] = 1]
  /\ Goto(t, "leave")
  /\ UNCHANGED holder

Leave(t) ==
  /\ pc[t] = "leave"
  /\ IF Held(t) # {}
     THEN holder' = [holder EXCEPT ![Order[t][First(t)]] = Nobody] /\ UNCHANGED pc
     ELSE Goto(t, "idle") /\ UNCHANGED holder
  /\ UNCHANGED <<start, pos>>

Running(t) == Block(t) \/ Try(t) \/ Enter(t) \/ GiveBack(t) \/ Unlock(t) \/ Leave(t)

Next == \E t \in Threads : Running(t) \/ Lock(t) \/ TryLock(t)

Spec == Init /\ [][Next]_vars

--------------------------------------------------------------------------------
(* Properties. *)

TypeOK ==
  /\ holder \in [Locks -> Threads \cup {Nobody}]
  /\ pc \in [Threads -> {"idle", "block", "try", "back", "cs", "leave"}]
  /\ \A t \in Threads : start[t] \in 0 .. Len(Order[t]) /\ pos[t] \in 1 .. Len(Order[t]) + 1

\* "deadlock-free multi-acquire": who blocks holds nothing, so that there is no
\* cycle of waits whatever the orders of the arguments; who is inside holds all,
\* and who has left or given up nothing.
BlocksEmptyHanded ==
  \A t \in Threads :
    /\ pc[t] \in {"idle", "block"} => Held(t) = {}
    /\ pc[t] = "cs" => Held(t) = DOMAIN Order[t]
================================================================================
