------------------------------ MODULE AsyncBarrier -----------------------------
(***************************************************************************)
(* tasks/async_barrier.hpp: the cyclic barrier for coroutines.  The last to *)
(* arrive resets the count, moves the generation and takes the list in one  *)
(* step, and wakes the others, some of whom arrive again meanwhile.         *)
(***************************************************************************)
EXTENDS WaiterList

CONSTANTS
  GenBits,        \* width of the generation (32 in the code)
  MaxRounds       \* bound: how often each task arrives

VARIABLES
  count, gen,
  mygen,      \* the generation an arriving task has seen
  rounds      \* auxiliary: how often each task has arrived

barrierVars == <<count, gen, mygen, rounds>>
vars == <<listVars, pc, barrierVars>>

Threshold == Cardinality(Tasks)

Init ==
  /\ ListInit
  /\ count = Threshold
  /\ gen = 0
  /\ mygen = [t \in Tasks |-> 0]
  /\ rounds = [t \in Tasks |-> 0]

--------------------------------------------------------------------------------
\* await_ready(), up to the load of the generation.
LoadGen(t) ==
  /\ pc[t] = "idle"
  /\ rounds[t] < MaxRounds
  /\ mygen' = [mygen EXCEPT ![t] = gen]
  /\ Goto(t, "arrive")
  /\ UNCHANGED <<listVars, count, gen, rounds>>

\* The decrement: the last to arrive completes the generation.
Arrive(t) ==
  /\ pc[t] = "arrive"
  /\ count' = count - 1
  /\ rounds' = [rounds EXCEPT ![t] = @ + 1]
  /\ Goto(t, IF count = 1 THEN "refill" ELSE "suspend")
  /\ UNCHANGED <<listVars, gen, mygen>>

\* Mutated form: the count is left where the last arrival put it.
RefillNot(t) ==
  /\ pc[t] = "refill"
  /\ Goto(t, "swap")
  /\ UNCHANGED <<listVars, count, gen, mygen, rounds>>

Refill(t) ==
  /\ pc[t] = "refill"
  /\ count' = Threshold
  /\ Goto(t, "swap")
  /\ UNCHANGED <<listVars, gen, mygen, rounds>>

\* swap_all_under() with the bump of the generation under the lock.
Fire(t) ==
  /\ pc[t] = "swap"
  /\ gen' = (gen + 1) % 2 ^ GenBits
  /\ SwapAll(t)
  /\ UNCHANGED <<count, mygen, rounds>>

AwaitSuspend(t) ==
  /\ pc[t] = "suspend"
  /\ PushUnless(t, gen # mygen[t])
  /\ UNCHANGED barrierVars

Wake(t) == WakeAll(t) /\ UNCHANGED barrierVars

--------------------------------------------------------------------------------
Running(t) == LoadGen(t) \/ Arrive(t) \/ Refill(t) \/ Fire(t) \/ AwaitSuspend(t) \/ Wake(t)

Next == \E t \in Tasks : Running(t)

Spec == Init /\ [][Next]_vars

--------------------------------------------------------------------------------
(* Properties. *)

TypeOK ==
  /\ ListTypeOK
  /\ \A t \in Tasks : pc[t] \in ListPCs \cup {"arrive", "refill"}
  /\ count \in 0 .. Threshold
  /\ gen \in 0 .. (2 ^ GenBits - 1)
  /\ mygen \in [Tasks -> 0 .. (2 ^ GenBits - 1)]
  /\ rounds \in [Tasks -> 0 .. MaxRounds]

\* Whoever is past its n-th arrival finds everybody at least at the n-th: no
\* early arrival of a task that was resumed first is taken for a late one.
Lockstep ==
  \A t, u \in Tasks : pc[t] \in {"idle", "waking", "arrive"} => rounds[u] >= rounds[t]

\* Nobody is left on the list of a generation that is over.
NobodyStranded ==
  /\ ParkedAreListed
  /\ \A t \in Chain(head) : mygen[t] = gen

\* Somebody has not been through all the rounds.
Pending == \E t \in Tasks : rounds[t] < MaxRounds \/ pc[t] # "idle"
================================================================================
