------------------------------- MODULE Semaphore -------------------------------
(***************************************************************************)
(* sync/semaphore.hpp: basic_semaphore, the counting semaphore for threads. *)
(*                                                                          *)
(* counter holds the permits, or below zero the number of waiters that      *)
(* found none; wakeups the permits handed to such waiters and not yet       *)
(* picked up.  A waiter sleeps on wakeups while it is zero.                 *)
(***************************************************************************)
EXTENDS Integers, FiniteSets

CONSTANTS
  Threads,
  Permits,        \* the initial count
  Plenty,         \* what abort() stores in counter (2^30) ...
  AllTokens,      \* ... and in wakeups (2^31 - 1): more than there are threads
  MaxFlags,       \* bound on the number of flag() calls
  MaxGrants       \* bound on the number of permits taken

VARIABLES
  counter,
  wakeups,
  pc,
  flags,        \* how many times flag() has been called
  granted,      \* how many permits have been taken
  aborted       \* whether abort() has been called since the last reset()

vars == <<counter, wakeups, pc, flags, granted, aborted>>

PCs == {"idle", "loop", "asleep", "token", "wake", "abort1", "abort2"}

In(l) == {t \in Threads : pc[t] = l}

Goto(t, l) == pc' = [pc EXCEPT ![t] = l]

Init ==
  /\ counter = Permits
  /\ wakeups = 0
  /\ pc = [t \in Threads |-> "idle"]
  /\ flags = 0
  /\ granted = 0
  /\ aborted = FALSE

--------------------------------------------------------------------------------
(* wait() and try_wait(). *)

\* The sub_fetch: a permit was there, or the caller is now counted as waiting.
Wait(t) ==
  /\ pc[t] = "idle"
  /\ granted < MaxGrants
  /\ counter' = counter - 1
  /\ IF counter' >= 0
     THEN granted' = granted + 1 /\ UNCHANGED pc
     ELSE Goto(t, "loop") /\ UNCHANGED granted
  /\ UNCHANGED <<wakeups, flags, aborted>>

\* wakeups was seen above zero and the compare-exchange took one token.
TakeToken(t) ==
  /\ pc[t] = "loop"
  /\ wakeups > 0
  /\ wakeups' = wakeups - 1
  /\ granted' = granted + 1
  /\ Goto(t, "idle")
  /\ UNCHANGED <<counter, flags, aborted>>

\* wakeups was seen zero, and the kernel sees it zero too.
Sleep(t) ==
  /\ pc[t] = "loop"
  /\ wakeups = 0
  /\ Goto(t, "asleep")
  /\ UNCHANGED <<counter, wakeups, flags, granted, aborted>>

Spurious(t) ==
  /\ pc[t] = "asleep"
  /\ Goto(t, "loop")
  /\ UNCHANGED <<counter, wakeups, flags, granted, aborted>>

TryWait(t) ==
  /\ pc[t] = "idle"
  /\ granted < MaxGrants
  /\ counter > 0
  /\ counter' = counter - 1
  /\ granted' = granted + 1
  /\ UNCHANGED <<wakeups, pc, flags, aborted>>

--------------------------------------------------------------------------------
(* flag(). *)

\* Mutated form: the permit that brings the count to zero is not handed over.
FlagOffByOne(t) ==
  /\ pc[t] = "idle"
  /\ flags < MaxFlags
  /\ flags' = flags + 1
  /\ counter' = counter + 1
  /\ Goto(t, IF counter' < 0 THEN "token" ELSE "idle")
  /\ UNCHANGED <<wakeups, granted, aborted>>

Flag(t) ==
  /\ pc[t] = "idle"
  /\ flags < MaxFlags
  /\ flags' = flags + 1
  /\ counter' = counter + 1
  /\ Goto(t, IF counter' <= 0 THEN "token" ELSE "idle")
  /\ UNCHANGED <<wakeups, granted, aborted>>

HandToken(t) ==
  /\ pc[t] = "token"
  /\ wakeups' = wakeups + 1
  /\ Goto(t, "wake")
  /\ UNCHANGED <<counter, flags, granted, aborted>>

\* wake_futex(&wakeups, 1)
WakeOne(t) ==
  /\ pc[t] = "wake"
  /\ IF In("asleep") = {}
     THEN Goto(t, "idle")
     ELSE \E u \in In("asleep") : pc' = [pc EXCEPT ![u] = "loop", ![t] = "idle"]
  /\ UNCHANGED <<counter, wakeups, flags, granted, aborted>>

--------------------------------------------------------------------------------
(* abort() and reset(). *)

Abort(t) ==
  /\ pc[t] = "idle"
  /\ ~aborted
  /\ aborted' = TRUE
  /\ counter' = Plenty
  /\ Goto(t, "abort1")
  /\ UNCHANGED <<wakeups, flags, granted>>

AbortTokens(t) ==
  /\ pc[t] = "abort1"
  /\ wakeups' = AllTokens
  /\ Goto(t, "abort2")
  /\ UNCHANGED <<counter, flags, granted, aborted>>

\* Mutated form: abort() wakes one waiter, as flag() does.
AbortWakesOne(t) ==
  /\ pc[t] = "abort2"
  /\ IF In("asleep") = {}
     THEN Goto(t, "idle")
     ELSE \E u \in In("asleep") : pc' = [pc EXCEPT ![u] = "loop", ![t] = "idle"]
  /\ UNCHANGED <<counter, wakeups, flags, granted, aborted>>

AbortWake(t) ==
  /\ pc[t] = "abort2"
  /\ pc' = [u \in Threads |->
              IF u = t THEN "idle" ELSE IF pc[u] = "asleep" THEN "loop" ELSE pc[u]]
  /\ UNCHANGED <<counter, wakeups, flags, granted, aborted>>

\* reset(): two plain stores, for a semaphore nobody is using.
Reset ==
  /\ In("idle") = Threads
  /\ counter' = Permits
  /\ wakeups' = 0
  /\ flags' = 0
  /\ granted' = 0
  /\ aborted' = FALSE
  /\ UNCHANGED pc

--------------------------------------------------------------------------------
\* A thread inside a call keeps running.
Running(t) ==
  \/ TakeToken(t) \/ Sleep(t)
  \/ HandToken(t) \/ WakeOne(t)
  \/ AbortTokens(t) \/ AbortWake(t)

Calls(t) == Wait(t) \/ TryWait(t) \/ Flag(t) \/ Abort(t) \/ Spurious(t)

Next ==
  \/ \E t \in Threads : Running(t) \/ Calls(t)
  \/ Reset

Spec == Init /\ [][Next]_vars

FairSpec == Spec /\ \A t \in Threads : WF_vars(Running(t))

--------------------------------------------------------------------------------
(* Properties. *)

Waiting == In("loop") \cup In("asleep")

TypeOK ==
  /\ counter \in Int /\ counter >= -Cardinality(Threads)
  /\ wakeups \in 0 .. (AllTokens + Cardinality(Threads))
  /\ pc \in [Threads -> PCs]
  /\ flags \in 0 .. MaxFlags
  /\ granted \in 0 .. (MaxGrants + Cardinality(Threads))
  /\ aborted \in BOOLEAN

\* wait(), try_wait() and flag() keep the books balanced between their separate
\* atomic steps: every permit ever flagged was taken, is in counter, or is on
\* its way to a waiter that counter shows as debt.
BooksBalance ==
  ~aborted =>
    /\ counter = Permits + flags - granted - Cardinality(Waiting)
    /\ Cardinality(Waiting) =
         wakeups + Cardinality(In("token")) + (IF counter < 0 THEN -counter ELSE 0)

\* No token is left lying next to a sleeper: flag() wakes one sleeper per token,
\* and there are never more tokens than awake waiters and wakes on their way
\* unless nobody sleeps.
NoTokenOverslept ==
  In("asleep") # {} =>
    \/ wakeups <= Cardinality(In("loop")) + Cardinality(In("wake"))
    \/ In("abort2") # {}

\* A waiter returns from wait() once the count stays at or above zero: after
\* enough flag() calls, and after abort(), of which the code says "every parked
\* waiter finds a token".
Owed(t) == t \in Waiting
Paid(t) == t \notin Waiting \/ counter < 0
================================================================================
