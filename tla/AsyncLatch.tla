------------------------------- MODULE AsyncLatch ------------------------------
(***************************************************************************)
(* tasks/async_latch.hpp and tasks/fork_group.hpp: the counts coroutines    *)
(* wait for.  The latch only counts down; a fork group counts up with every *)
(* spawn() and down with every member that completes, and can be waited for *)
(* again and again.  kind says which of the two the behaviour is about.     *)
(***************************************************************************)
EXTENDS WaiterList

CONSTANTS
  Expected,       \* the latch's initial count
  Steps,          \* the arguments count_down() is called with
  MaxSpawns       \* bound: how many members are spawned

VARIABLES
  kind,       \* "latch" or "group"
  count,      \* __count, or __outstanding
  spawns

latchVars == <<kind, count, spawns>>
vars == <<listVars, pc, latchVars>>

LatchInit(k) ==
  /\ ListInit
  /\ kind = k
  /\ count = IF k = "latch" THEN Expected ELSE 0
  /\ spawns = 0

Init == \E k \in {"latch", "group"} : LatchInit(k)

\* What a waiter waits for.
Open == count <= 0

--------------------------------------------------------------------------------
(* The waiters: co_await of the latch, or of join(). *)

AwaitReady(t) ==
  /\ pc[t] = "idle"
  /\ Goto(t, IF Open THEN "idle" ELSE "suspend")
  /\ UNCHANGED <<listVars, latchVars>>

AwaitSuspend(t) ==
  /\ pc[t] = "suspend"
  /\ PushUnless(t, Open)
  /\ UNCHANGED latchVars

--------------------------------------------------------------------------------
(* The latch. *)

\* Mutated form: only a count of exactly zero wakes.
CountDownToZero(t, n) ==
  /\ kind = "latch"
  /\ pc[t] = "idle"
  /\ count > 0
  /\ count' = count - n
  /\ Goto(t, IF count - n = 0 THEN "swap" ELSE "idle")
  /\ UNCHANGED <<listVars, kind, spawns>>

\* count_down(n), up to the decrement: the call that crosses zero wakes.  Calls
\* on an open latch change nothing that is read again; count > 0 bounds them.
CountDown(t, n) ==
  /\ kind = "latch"
  /\ pc[t] = "idle"
  /\ count > 0
  /\ count' = count - n
  /\ Goto(t, IF count - n <= 0 THEN "swap" ELSE "idle")
  /\ UNCHANGED <<listVars, kind, spawns>>

--------------------------------------------------------------------------------
(* The fork group.  A member is a task of its own, started by the scheduler. *)

\* spawn(): the member t is counted before it runs.  It goes on to complete(),
\* as does the spawner itself when the bridge cannot be allocated.
Spawn(t) ==
  /\ kind = "group"
  /\ pc[t] = "idle"
  /\ spawns < MaxSpawns
  /\ spawns' = spawns + 1
  /\ count' = count + 1
  /\ Goto(t, "member")
  /\ UNCHANGED <<listVars, kind>>

\* __complete(), up to the decrement.
Complete(t) ==
  /\ pc[t] = "member"
  /\ count' = count - 1
  /\ Goto(t, IF count - 1 = 0 THEN "swap" ELSE "idle")
  /\ UNCHANGED <<listVars, kind, spawns>>

\* The list is taken: swap_all(), or swap_all_under() with a second look at
\* the count, because another member may have been spawned since.
Swap(t) ==
  /\ pc[t] = "swap"
  /\ IF kind = "latch" THEN SwapAll(t) ELSE SwapAllUnder(t, Open)
  /\ UNCHANGED latchVars

Wake(t) == WakeAll(t) /\ UNCHANGED latchVars

--------------------------------------------------------------------------------
Running(t) == AwaitSuspend(t) \/ Complete(t) \/ Swap(t) \/ Wake(t)

Calls(t) == AwaitReady(t) \/ Spawn(t) \/ \E n \in Steps : CountDown(t, n)

Next == \E t \in Tasks : Running(t) \/ Calls(t)

Spec == Init /\ [][Next]_vars

--------------------------------------------------------------------------------
(* Properties. *)

TypeOK ==
  /\ ListTypeOK
  /\ \A t \in Tasks : pc[t] \in ListPCs \cup {"member"}
  /\ kind \in {"latch", "group"}
  /\ count \in (1 - Expected) .. (Expected + MaxSpawns)
  /\ spawns \in 0 .. MaxSpawns

\* Nobody is on the list of an open latch or of an empty group unless a task is
\* about to take the list.
NobodyStranded ==
  /\ ParkedAreListed
  /\ head # Null /\ Open => \E t \in Tasks : pc[t] = "swap"

\* Somebody waits at a latch that is open or for a group that is empty.
Pending == Open /\ \E t \in Tasks : pc[t] # "idle"
================================================================================
