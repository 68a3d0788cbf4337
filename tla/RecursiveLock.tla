------------------------------ MODULE RecursiveLock ----------------------------
(***************************************************************************)
(* mutex/locks/recursive_lock.hpp: an owner and a depth, two words that are *)
(* changed one after the other.                                             *)
(***************************************************************************)
EXTENDS Integers

CONSTANTS Threads, Nobody,
  MaxDepth        \* bound: how deep a thread locks

VARIABLES
  owner, depth,
  pc,
  mine            \* auxiliary: how often a thread has locked and not unlocked

vars == <<owner, depth, pc, mine>>

Goto(t, l) == pc' = [pc EXCEPT ![t] = l]

Init ==
  /\ owner = Nobody
  /\ depth = 0
  /\ pc = [t \in Threads |-> "idle"]
  /\ mine = [t \in Threads |-> 0]

Counted(t, n) == mine' = [mine EXCEPT ![t] = @ + n]

\* operator() and try_lock(): the load of the owner.
LoadOwner(t) ==
  /\ pc[t] \in {"idle", "wait"}
  /\ mine[t] < MaxDepth
  /\ \/ owner = t /\ depth' = depth + 1 /\ Counted(t, 1) /\ Goto(t, "idle")
     \/ owner = Nobody /\ Goto(t, "cas") /\ UNCHANGED <<depth, mine>>
     \/ owner \notin {t, Nobody} /\ Goto(t, "wait") /\ UNCHANGED <<depth, mine>>
  /\ UNCHANGED owner

\* The compare-exchange; a try_lock() that fails returns.
CasOwner(t) ==
  /\ pc[t] = "cas"
  /\ IF owner = Nobody
     THEN owner' = t /\ Goto(t, "first")
     ELSE (\E l \in {"wait", "idle"} : Goto(t, l)) /\ UNCHANGED owner
  /\ UNCHANGED <<depth, mine>>

FirstDepth(t) ==
  /\ pc[t] = "first"
  /\ depth' = 1
  /\ Counted(t, 1)
  /\ Goto(t, "idle")
  /\ UNCHANGED owner

\* Mutated form: the owner is cleared before the depth.
UnlockOwnerFirst(t) ==
  /\ \/ pc[t] = "idle" /\ owner = t /\ depth > 1 /\ depth' = depth - 1 /\ Counted(t, -1) /\ UNCHANGED <<owner, pc>>
     \/ pc[t] = "idle" /\ owner = t /\ depth = 1 /\ owner' = Nobody /\ Counted(t, -1) /\ Goto(t, "clear") /\ UNCHANGED depth
     \/ pc[t] = "clear" /\ depth' = 0 /\ Goto(t, "idle") /\ UNCHANGED <<owner, mine>>

\* unlock(): only the owner's, and only at a depth above zero, does anything.
Unlock(t) ==
  /\ pc[t] = "idle"
  /\ owner = t
  /\ depth > 0
  /\ depth' = depth - 1
  /\ Counted(t, -1)
  /\ Goto(t, IF depth > 1 THEN "idle" ELSE "clear")
  /\ UNCHANGED owner

ClearOwner(t) ==
  /\ pc[t] = "clear"
  /\ owner' = Nobody
  /\ Goto(t, "idle")
  /\ UNCHANGED <<depth, mine>>

Running(t) ==
  \/ pc[t] = "wait" /\ LoadOwner(t)
  \/ CasOwner(t) \/ FirstDepth(t) \/ ClearOwner(t)

Next == \E t \in Threads : Running(t) \/ LoadOwner(t) \/ Unlock(t)

Spec == Init /\ [][Next]_vars

--------------------------------------------------------------------------------
(* Properties. *)

TypeOK ==
  /\ owner \in Threads \cup {Nobody}
  /\ depth \in 0 .. MaxDepth
  /\ pc \in [Threads -> {"idle", "wait", "cas", "first", "clear"}]
  /\ mine \in [Threads -> 0 .. MaxDepth]

\* The depth is what its owner has locked and not unlocked, and who has not
\* unlocked is the owner: neither word is ever seen with the other's old value.
DepthCounted ==
  /\ \A t \in Threads : mine[t] > 0 \/ pc[t] \in {"first", "clear"} => owner = t
  /\ owner # Nobody => depth = mine[owner]
  /\ owner = Nobody => depth = 0
================================================================================
