--------------------------------- MODULE DoOnce --------------------------------
(***************************************************************************)
(* mutex/once.hpp: do_once<F>.  The thread that moves the gate from         *)
(* uninitialised to running calls F; the others yield until it is done.  An *)
(* F that throws moves the gate back and somebody else calls it again.      *)
(***************************************************************************)
EXTENDS Integers, FiniteSets

CONSTANT Threads

VARIABLES
  gate,           \* "uninit", "running" or "done"
  pc,
  completed       \* auxiliary: how often F ran to its end

vars == <<gate, pc, completed>>

Goto(t, l) == pc' = [pc EXCEPT ![t] = l]

Init ==
  /\ gate = "uninit"
  /\ pc = [t \in Threads |-> "idle"]
  /\ completed = 0

Call(t) ==
  /\ pc[t] = "idle"
  /\ Goto(t, "look")
  /\ UNCHANGED <<gate, completed>>

\* The load: done, or the compare-exchange comes next, or another turn.
Look(t) ==
  /\ pc[t] = "look"
  /\ gate # "running"
  /\ Goto(t, IF gate = "done" THEN "returned" ELSE "cas")
  /\ UNCHANGED <<gate, completed>>

\* Mutated form: the gate is stored without comparing.
EnterBlindly(t) ==
  /\ pc[t] = "cas"
  /\ gate' = "running"
  /\ Goto(t, "run")
  /\ UNCHANGED completed

Enter(t) ==
  /\ pc[t] = "cas"
  /\ IF gate = "uninit"
     THEN gate' = "running" /\ Goto(t, "run")
     ELSE Goto(t, "look") /\ UNCHANGED gate
  /\ UNCHANGED completed

\* F returns ...
Complete(t) ==
  /\ pc[t] = "run"
  /\ completed' = completed + 1
  /\ Goto(t, "publish")
  /\ UNCHANGED gate

Publish(t) ==
  /\ pc[t] = "publish"
  /\ gate' = "done"
  /\ Goto(t, "returned")
  /\ UNCHANGED completed

\* ... or throws, and the guard opens the gate again.
Throw(t) ==
  /\ pc[t] = "run"
  /\ gate' = "uninit"
  /\ Goto(t, "thrown")
  /\ UNCHANGED completed

Running(t) == Look(t) \/ Enter(t) \/ Complete(t) \/ Publish(t) \/ Throw(t)

Next == \E t \in Threads : Running(t) \/ Call(t)

Spec == Init /\ [][Next]_vars

--------------------------------------------------------------------------------
(* Properties. *)

TypeOK ==
  /\ gate \in {"uninit", "running", "done"}
  /\ pc \in [Threads -> {"idle", "look", "cas", "run", "publish", "returned", "thrown"}]
  /\ completed \in Nat

\* Nobody passes before F has run to its end, and it does so once.
OnceDone ==
  /\ completed <= 1
  /\ (\E t \in Threads : pc[t] = "returned") => completed = 1

\* The gate is running exactly while one thread is in F or about to publish.
OneRuns ==
  Cardinality({t \in Threads : pc[t] \in {"run", "publish"}}) = IF gate = "running" THEN 1 ELSE 0

\* Somebody is in the middle of a call.
Pending == \E t \in Threads : pc[t] \notin {"idle", "returned", "thrown"}
================================================================================
