------------------------------ MODULE EventQueue -------------------------------
(***************************************************************************)
(* The producer/consumer shape event_count exists for, as its test drives   *)
(* it: a counter of items, a producer that notifies one waiter per item and *)
(* all of them at the end, consumers that look again between prepare_wait() *)
(* and commit_wait().                                                       *)
(***************************************************************************)
EXTENDS EventCount

CONSTANTS
  Producers,
  MaxItems        \* items each producer makes

VARIABLES
  items,      \* items made and not taken
  made,       \* items a producer has made
  pc          \* where each thread is in its own code

queueVars == <<items, made, pc>>
vars == <<epoch, waiters, gpc, key, items, made, pc>>

Consumers == Threads \ Producers

Init ==
  /\ GateInit
  /\ items = 0
  /\ made = [t \in Producers |-> 0]
  /\ pc = [t \in Threads |-> "look"]

Goto(t, l) == pc' = [pc EXCEPT ![t] = l]

\* No item will be made any more.
Done == \A t \in Producers : pc[t] \in {"stopping", "stopped"}

--------------------------------------------------------------------------------
Produce(t) ==
  /\ pc[t] = "look" /\ gpc[t] = "out"
  /\ made[t] < MaxItems
  /\ items' = items + 1
  /\ made' = [made EXCEPT ![t] = made[t] + 1]
  /\ Goto(t, "tell")
  /\ UNCHANGED gateVars

Tell(t) ==
  /\ pc[t] = "tell"
  /\ NotifyOne(t)
  /\ Goto(t, "look")
  /\ UNCHANGED <<items, made>>

SetDone(t) ==
  /\ pc[t] = "look" /\ gpc[t] = "out"
  /\ made[t] = MaxItems
  /\ Goto(t, "stopping")
  /\ UNCHANGED <<items, made>> /\ UNCHANGED gateVars

TellDone(t) ==
  /\ pc[t] = "stopping"
  /\ NotifyAll(t)
  /\ Goto(t, "stopped")
  /\ UNCHANGED <<items, made>>

\* The consumer's first look: take an item, leave, or prepare to sleep.
Consume(t) ==
  /\ pc[t] = "look" /\ gpc[t] = "out"
  /\ items > 0
  /\ items' = items - 1
  /\ UNCHANGED <<made, pc>> /\ UNCHANGED gateVars

Finish(t) ==
  /\ pc[t] = "look" /\ gpc[t] = "out"
  /\ items = 0 /\ Done
  /\ Goto(t, "finished")
  /\ UNCHANGED <<items, made>> /\ UNCHANGED gateVars

Prepare(t) ==
  /\ pc[t] = "look"
  /\ items = 0 /\ ~Done
  /\ PrepareWait(t)
  /\ UNCHANGED queueVars

\* The second look, between prepare_wait() and commit_wait().
LookAgain(t) ==
  /\ pc[t] = "look" /\ gpc[t] = "armed"
  /\ IF items # 0 \/ Done
     THEN CancelWait(t) /\ UNCHANGED pc
     ELSE Goto(t, "sleep") /\ UNCHANGED gateVars
  /\ UNCHANGED <<items, made>>

Commit(t) ==
  /\ pc[t] = "sleep"
  /\ CommitWait(t)
  /\ UNCHANGED queueVars

Leave(t) ==
  /\ LeaveWait(t)
  /\ Goto(t, "look")
  /\ UNCHANGED <<items, made>>

--------------------------------------------------------------------------------
Running(t) ==
  \/ t \in Consumers /\ (Consume(t) \/ Finish(t) \/ Prepare(t) \/ LookAgain(t) \/ Commit(t) \/ Leave(t))
  \/ t \in Producers /\ (Produce(t) \/ Tell(t) \/ SetDone(t) \/ TellDone(t))
  \/ (ReadKey(t) \/ LookOne(t) \/ LookAll(t) \/ WakeOne(t) \/ WakeAll(t)) /\ UNCHANGED queueVars

Kernel(t) ==
  /\ Spurious(t) \/ TimedOut(t)
  /\ UNCHANGED queueVars

\* Everybody is done; the system stays as it is.
Ended ==
  /\ \A t \in Consumers : pc[t] = "finished"
  /\ \A t \in Producers : pc[t] = "stopped" /\ gpc[t] = "out"
  /\ UNCHANGED vars

Next == (\E t \in Threads : Running(t) \/ Kernel(t)) \/ Ended

Spec == Init /\ [][Next]_vars

FairSpec == Spec /\ \A t \in Threads : WF_vars(Running(t))

--------------------------------------------------------------------------------
(* Properties. *)

TypeOK ==
  /\ GateTypeOK
  /\ items \in Nat
  /\ made \in [Producers -> 0 .. MaxItems]
  /\ pc \in [Threads -> {"look", "tell", "stopping", "stopped", "sleep", "finished"}]

\* Consumers that are certain to look at the items before they can sleep.
Alert ==
  {t \in Consumers :
     \/ pc[t] = "look"
     \/ gpc[t] = "leave"
     \/ gpc[t] \in {"armed", "commit"} /\ key[t] # epoch}

Telling ==
  {t \in Producers : pc[t] = "tell" \/ gpc[t] \in {"lookone", "wakeone"}}

\* No wake-up is lost between the second look and the sleep: while anybody
\* sleeps, each item has a consumer that will look again, or a producer whose
\* notify_one() is not over.
NoItemOverslept ==
  Asleep # {} => items <= Cardinality(Alert) + Cardinality(Telling)

\* "nothing is lost, nobody sleeps forever": all items are taken and every
\* consumer learns that no more will come, whether or not its sleeps time out.
Consumed == items = 0 /\ \A t \in Consumers : pc[t] = "finished"
================================================================================
