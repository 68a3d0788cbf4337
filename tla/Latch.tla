--------------------------------- MODULE Latch ---------------------------------
(***************************************************************************)
(* sync/latch.hpp: latch, the single-use countdown for threads.  A waiter   *)
(* sleeps on the count it loaded; only the call that brings the count to    *)
(* zero wakes.                                                              *)
(***************************************************************************)
EXTENDS Integers

CONSTANTS
  Threads,
  Expected,       \* the initial count
  Steps           \* the arguments count_down() is called with

VARIABLES
  counter,
  pc,
  seen        \* the count a waiter loaded last

vars == <<counter, pc, seen>>

PCs == {"idle", "wait", "park", "asleep", "wake", "passed"}

Goto(t, l) == pc' = [pc EXCEPT ![t] = l]

Init ==
  /\ counter = Expected
  /\ pc = [t \in Threads |-> "idle"]
  /\ seen = [t \in Threads |-> 0]

\* count_down(n): one successful compare-exchange, then a wake at zero.
CountDown(t, n) ==
  /\ pc[t] = "idle"
  /\ n > 0
  /\ counter > 0
  /\ counter' = counter - (IF counter < n THEN counter ELSE n)
  /\ Goto(t, IF counter' <= 0 THEN "wake" ELSE "idle")
  /\ UNCHANGED seen

WakeAll(t) ==
  /\ pc[t] = "wake"
  /\ pc' = [u \in Threads |->
              IF u = t THEN "idle" ELSE IF pc[u] = "asleep" THEN "wait" ELSE pc[u]]
  /\ UNCHANGED <<counter, seen>>

\* wait()
WaitCall(t) ==
  /\ pc[t] = "idle"
  /\ Goto(t, "wait")
  /\ UNCHANGED <<counter, seen>>

\* The load: return, or sleep on the value once the backoff is used up.
WaitLoad(t) ==
  /\ pc[t] = "wait"
  /\ seen' = [seen EXCEPT ![t] = counter]
  /\ Goto(t, IF counter <= 0 THEN "passed" ELSE "park")
  /\ UNCHANGED counter

WaitPark(t) ==
  /\ pc[t] = "park"
  /\ Goto(t, IF counter = seen[t] THEN "asleep" ELSE "wait")
  /\ UNCHANGED <<counter, seen>>

Spurious(t) ==
  /\ pc[t] = "asleep"
  /\ Goto(t, "wait")
  /\ UNCHANGED <<counter, seen>>

\* The caller goes on; it may call again.
Return(t) ==
  /\ pc[t] = "passed"
  /\ Goto(t, "idle")
  /\ UNCHANGED <<counter, seen>>

--------------------------------------------------------------------------------
Running(t) == WakeAll(t) \/ WaitLoad(t) \/ WaitPark(t) \/ Return(t)

Calls(t) == WaitCall(t) \/ (\E n \in Steps : CountDown(t, n)) \/ Spurious(t)

Next == \E t \in Threads : Running(t) \/ Calls(t)

Spec == Init /\ [][Next]_vars

FairSpec == Spec /\ \A t \in Threads : WF_vars(Running(t))

--------------------------------------------------------------------------------
(* Properties. *)

TypeOK ==
  /\ counter \in 0 .. Expected
  /\ pc \in [Threads -> PCs]
  /\ seen \in [Threads -> 0 .. Expected]

\* The calls that do not reach zero wake nobody, so that a waiter may be asleep
\* on an old count; once the count is zero nobody stays asleep unless a wake is
\* on its way.
SleepersJustified ==
  (\E t \in Threads : pc[t] = "asleep") =>
    counter > 0 \/ \E t \in Threads : pc[t] = "wake"

\* Once the count is zero every waiter returns.
Owed(t) == pc[t] \in {"wait", "park", "asleep"} /\ counter = 0
Paid(t) == pc[t] = "passed"
================================================================================
