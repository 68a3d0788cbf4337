------------------------------ MODULE EventCount -------------------------------
(***************************************************************************)
(* sync/event_count.hpp: the condition counter over a futex.                *)
(*                                                                          *)
(* A waiter announces itself, reads the epoch as its key, looks at its      *)
(* condition again and then either cancels or sleeps while the epoch is     *)
(* still its key.  A notifier moves the epoch and wakes if anybody has      *)
(* announced itself.  The users, EventQueue and Barrier, add the condition. *)
(***************************************************************************)
EXTENDS Integers, FiniteSets

CONSTANTS
  Threads,
  EpochBits       \* width of the epoch (32 in the code)

VARIABLES
  epoch,
  waiters,
  gpc,        \* where each thread is inside the event count
  key         \* the epoch a waiter read in prepare_wait()

gateVars == <<epoch, waiters, gpc, key>>

GatePCs ==
  {"out", "prepare", "armed", "commit", "asleep", "leave", "lookone", "lookall", "wakeone", "wakeall"}

Asleep == {t \in Threads : gpc[t] = "asleep"}

GoGate(t, l) == gpc' = [gpc EXCEPT ![t] = l]

GateInit ==
  /\ epoch = 0
  /\ waiters = 0
  /\ gpc = [t \in Threads |-> "out"]
  /\ key = [t \in Threads |-> 0]

GateTypeOK ==
  /\ epoch \in 0 .. (2 ^ EpochBits - 1)
  /\ waiters \in 0 .. Cardinality(Threads)
  /\ gpc \in [Threads -> GatePCs]
  /\ key \in [Threads -> 0 .. (2 ^ EpochBits - 1)]

--------------------------------------------------------------------------------
(* The waiter. *)

\* prepare_wait(), up to the announcement.
PrepareWait(t) ==
  /\ gpc[t] = "out"
  /\ waiters' = waiters + 1
  /\ GoGate(t, "prepare")
  /\ UNCHANGED <<epoch, key>>

\* prepare_wait() returns the epoch.
ReadKey(t) ==
  /\ gpc[t] = "prepare"
  /\ key' = [key EXCEPT ![t] = epoch]
  /\ GoGate(t, "armed")
  /\ UNCHANGED <<epoch, waiters>>

CancelWait(t) ==
  /\ gpc[t] = "armed"
  /\ waiters' = waiters - 1
  /\ GoGate(t, "out")
  /\ UNCHANGED <<epoch, key>>

\* Mutated form: the sleep does not compare the epoch.
CommitWaitUnchecked(t) ==
  /\ gpc[t] \in {"armed", "commit"}
  /\ GoGate(t, "asleep")
  /\ UNCHANGED <<epoch, waiters, key>>

\* One turn of commit_wait()'s loop: the load and the kernel compare the epoch.
CommitWait(t) ==
  /\ gpc[t] \in {"armed", "commit"}
  /\ GoGate(t, IF epoch = key[t] THEN "asleep" ELSE "leave")
  /\ UNCHANGED <<epoch, waiters, key>>

\* A sleep ends early: EINTR, or ETIMEDOUT when the caller gave a timeout.
Spurious(t) ==
  /\ gpc[t] = "asleep"
  /\ GoGate(t, "commit")
  /\ UNCHANGED <<epoch, waiters, key>>

TimedOut(t) ==
  /\ gpc[t] = "asleep"
  /\ GoGate(t, "leave")
  /\ UNCHANGED <<epoch, waiters, key>>

\* The withdrawal at the end of commit_wait().
LeaveWait(t) ==
  /\ gpc[t] = "leave"
  /\ waiters' = waiters - 1
  /\ GoGate(t, "out")
  /\ UNCHANGED <<epoch, key>>

--------------------------------------------------------------------------------
(* The notifier. *)

Bump == epoch' = (epoch + 1) % 2 ^ EpochBits

\* notify_one() and notify_all(), up to the new epoch.
NotifyOne(t) ==
  /\ gpc[t] = "out"
  /\ Bump
  /\ GoGate(t, "lookone")
  /\ UNCHANGED <<waiters, key>>

NotifyAll(t) ==
  /\ gpc[t] = "out"
  /\ Bump
  /\ GoGate(t, "lookall")
  /\ UNCHANGED <<waiters, key>>

\* The load of __waiters.
LookOne(t) ==
  /\ gpc[t] = "lookone"
  /\ GoGate(t, IF waiters # 0 THEN "wakeone" ELSE "out")
  /\ UNCHANGED <<epoch, waiters, key>>

LookAll(t) ==
  /\ gpc[t] = "lookall"
  /\ GoGate(t, IF waiters # 0 THEN "wakeall" ELSE "out")
  /\ UNCHANGED <<epoch, waiters, key>>

WakeOne(t) ==
  /\ gpc[t] = "wakeone"
  /\ IF Asleep = {}
     THEN GoGate(t, "out")
     ELSE \E u \in Asleep : gpc' = [gpc EXCEPT ![u] = "commit", ![t] = "out"]
  /\ UNCHANGED <<epoch, waiters, key>>

WakeAll(t) ==
  /\ gpc[t] = "wakeall"
  /\ gpc' = [u \in Threads |->
               IF u = t THEN "out" ELSE IF gpc[u] = "asleep" THEN "commit" ELSE gpc[u]]
  /\ UNCHANGED <<epoch, waiters, key>>
================================================================================
