-------------------------------- MODULE Barrier --------------------------------
(***************************************************************************)
(* sync/latch.hpp: barrier, the reusable barrier for threads, on top of the *)
(* event count of EventCount.                                               *)
(*                                                                          *)
(* One word packs the generation and the number of arrivals still missing.  *)
(* The last arrival starts the next generation and notifies; the others     *)
(* spin or sleep until the generation is no longer theirs.                  *)
(***************************************************************************)
EXTENDS EventCount, FiniteSetsExt

CONSTANTS
  Droppers,       \* threads that may be the ones to call arrive_and_drop()
  GenBits,        \* width of the generation (32 in the code)
  MaxRounds       \* bound on the arrivals of each thread

VARIABLES
  droppers,     \* threads that call arrive_and_drop(); the others wait
  gen, cnt,     \* the two halves of the word state
  pc,
  mine,         \* the generation a thread arrived in
  arrived,      \* how often a thread has arrived
  passed        \* how often a thread has returned

barrierVars == <<droppers, gen, cnt, pc, mine, arrived, passed>>
vars == <<epoch, waiters, gpc, key, droppers, gen, cnt, pc, mine, arrived, passed>>

threshold == Cardinality(Threads)

Goto(t, l) == pc' = [pc EXCEPT ![t] = l]

Init ==
  /\ GateInit
  /\ droppers \in SUBSET Droppers
  /\ gen = 0
  /\ cnt = threshold
  /\ pc = [t \in Threads |-> "idle"]
  /\ mine = [t \in Threads |-> 0]
  /\ arrived = [t \in Threads |-> 0]
  /\ passed = [t \in Threads |-> 0]

--------------------------------------------------------------------------------
\* Mutated form: the generation moves but the count is not set up again.
CountArrivalOnce ==
  IF cnt = 1
  THEN gen' = (gen + 1) % 2 ^ GenBits /\ cnt' = cnt
  ELSE cnt' = cnt - 1 /\ UNCHANGED gen

\* Mutated form: the last arrival counts down like any other.
CountArrivalPlain ==
  cnt' = cnt - 1 /\ gen' = IF cnt = 1 THEN (gen + 1) % 2 ^ GenBits ELSE gen

\* The compare-exchange both calls make: the last arrival turns the word over.
CountArrival ==
  IF cnt = 1
  THEN gen' = (gen + 1) % 2 ^ GenBits /\ cnt' = threshold
  ELSE cnt' = cnt - 1 /\ UNCHANGED gen

Return(t) == passed' = [passed EXCEPT ![t] = passed[t] + 1]

ArriveAndWait(t) ==
  /\ pc[t] = "idle"
  /\ arrived[t] < MaxRounds
  /\ CountArrival
  /\ arrived' = [arrived EXCEPT ![t] = arrived[t] + 1]
  /\ mine' = [mine EXCEPT ![t] = gen]
  /\ Goto(t, IF cnt = 1 THEN "notify" ELSE "wait")
  /\ UNCHANGED <<droppers, passed>> /\ UNCHANGED gateVars

ArriveAndDrop(t) ==
  /\ pc[t] = "idle"
  /\ arrived[t] < MaxRounds
  /\ CountArrival
  /\ arrived' = [arrived EXCEPT ![t] = arrived[t] + 1]
  /\ IF cnt = 1
     THEN Goto(t, "notify") /\ UNCHANGED passed
     ELSE Return(t) /\ UNCHANGED pc
  /\ UNCHANGED <<droppers, mine>> /\ UNCHANGED gateVars

\* The last arrival calls notify_all() and returns when that is over.
Notify(t) ==
  /\ pc[t] = "notify"
  /\ NotifyAll(t)
  /\ Goto(t, "notified")
  /\ UNCHANGED <<droppers, gen, cnt, mine, arrived, passed>>

Notified(t) ==
  /\ pc[t] = "notified" /\ gpc[t] = "out"
  /\ Return(t)
  /\ Goto(t, "idle")
  /\ UNCHANGED <<droppers, gen, cnt, mine, arrived>> /\ UNCHANGED gateVars

\* The load at the head of the loop sees a new generation.
Pass(t) ==
  /\ pc[t] = "wait" /\ gpc[t] = "out"
  /\ gen # mine[t]
  /\ Return(t)
  /\ Goto(t, "idle")
  /\ UNCHANGED <<droppers, gen, cnt, mine, arrived>> /\ UNCHANGED gateVars

\* The load saw the same generation and the backoff is used up.
Prepare(t) ==
  /\ pc[t] = "wait"
  /\ gen = mine[t]
  /\ PrepareWait(t)
  /\ UNCHANGED barrierVars

\* The load between prepare_wait() and commit_wait().
LookAgain(t) ==
  /\ pc[t] = "wait" /\ gpc[t] = "armed"
  /\ IF gen # mine[t]
     THEN CancelWait(t) /\ Return(t) /\ Goto(t, "idle")
     ELSE Goto(t, "commit") /\ UNCHANGED passed /\ UNCHANGED gateVars
  /\ UNCHANGED <<droppers, gen, cnt, mine, arrived>>

Commit(t) ==
  /\ pc[t] = "commit"
  /\ CommitWait(t)
  /\ UNCHANGED barrierVars

Leave(t) ==
  /\ LeaveWait(t)
  /\ Goto(t, "wait")
  /\ UNCHANGED <<droppers, gen, cnt, mine, arrived, passed>>

--------------------------------------------------------------------------------
Arrive(t) == IF t \in droppers THEN ArriveAndDrop(t) ELSE ArriveAndWait(t)

Gate(t) == (ReadKey(t) \/ LookAll(t) \/ WakeAll(t)) /\ UNCHANGED barrierVars

Running(t) ==
  \/ Notify(t) \/ Notified(t) \/ Pass(t) \/ Prepare(t) \/ LookAgain(t)
  \/ Commit(t) \/ Leave(t) \/ Gate(t)

Interrupted(t) == Spurious(t) /\ UNCHANGED barrierVars

\* Every thread has made its rounds.
Ended ==
  /\ \A t \in Threads : passed[t] = MaxRounds
  /\ UNCHANGED vars

Next ==
  \/ \E t \in Threads : Arrive(t) \/ Running(t) \/ Interrupted(t)
  \/ Ended

Spec == Init /\ [][Next]_vars

\* Threads keep running inside the barrier, and every one of them comes back to it.
FairSpec ==
  Spec /\ \A t \in Threads : WF_vars(Running(t)) /\ WF_vars(Arrive(t))

--------------------------------------------------------------------------------
(* Properties. *)

TypeOK ==
  /\ GateTypeOK
  /\ droppers \subseteq Droppers
  /\ gen \in 0 .. (2 ^ GenBits - 1)
  /\ cnt \in 1 .. threshold
  /\ pc \in [Threads -> {"idle", "notify", "notified", "wait", "commit"}]
  /\ mine \in [Threads -> 0 .. (2 ^ GenBits - 1)]
  /\ arrived \in [Threads -> 0 .. MaxRounds]
  /\ passed \in [Threads -> 0 .. MaxRounds]

\* arrive_and_wait() lets nobody ahead: a thread returns for the n-th time only
\* when every participant has arrived n times, however the generation wraps.
Lockstep ==
  droppers = {} => \A t, u \in Threads : passed[t] <= arrived[u]

\* With arrive_and_drop() too, a phase ends only when it is full: a waiter that
\* has returned n times has seen n times as many arrivals as there are threads.
PhaseFull ==
  \A t \in Threads \ droppers :
    passed[t] * threshold <= MapThenSumSet(LAMBDA u : arrived[u], Threads)

\* A thread asleep in a generation that is over has a notifier on its way to it:
\* the turn-over and notify_all() are separate steps, as are the last look at
\* the generation and the sleep.
NobodyLeftBehind ==
  \A t \in Asleep :
    gen # mine[t] =>
      \E u \in Threads : pc[u] = "notify" \/ gpc[u] \in {"lookall", "wakeall"}

\* All rounds are completed by everybody: the barrier never blocks for ever
\* while all its threads keep arriving.
Complete == \A t \in Threads : passed[t] = MaxRounds
================================================================================
