------------------------------- MODULE FutexMutex ------------------------------
(***************************************************************************)
(* mutex/locks/futex_mutex.hpp: the adaptive mutex (timed_mutex,            *)
(* adaptive_mutex).  One word, three values, and a futex to sleep on.       *)
(*                                                                          *)
(* Every atomic operation on __s is one action.  The bounded spin is a      *)
(* choice between taking the free word and giving up.  The kernel's futex   *)
(* is external: the wait compares and goes to sleep in one step, a sleeper  *)
(* may return early (EINTR), a wake ends the sleep of at most one sleeper,  *)
(* and a sleeper with a timeout may return ETIMEDOUT while nobody woke it.  *)
(***************************************************************************)
EXTENDS Integers

CONSTANT Threads

VARIABLES
  s,        \* the word __s
  pc,       \* where each thread is
  timed     \* whether a thread's current call is try_lock_until

vars == <<s, pc, timed>>

Free == 0
Held == 1
Contended == 2

\* Where a thread that has given up spinning may be.
Parked == {"swap", "clock", "wait", "asleep", "expire"}

PCs == {"idle", "spin", "cs", "wake", "expwake"} \cup Parked

Sleepers == {t \in Threads : pc[t] = "asleep"}

Goto(t, l) == pc' = [pc EXCEPT ![t] = l]

Init ==
  /\ s = Free
  /\ pc = [t \in Threads |-> "idle"]
  /\ timed = [t \in Threads |-> FALSE]

--------------------------------------------------------------------------------
(* The kernel's side of the futex. *)

\* FUTEX_WAKE with count 1, as the tail of a call of t: one sleeper, if there
\* is one, returns to its swap; t's call returns.
FutexWake(t) ==
  IF Sleepers = {}
  THEN Goto(t, "idle")
  ELSE \E u \in Sleepers : pc' = [pc EXCEPT ![u] = "swap", ![t] = "idle"]

\* The kernel may end a sleep without a wake (EINTR).
Spurious(t) ==
  /\ pc[t] = "asleep"
  /\ Goto(t, "swap")
  /\ UNCHANGED <<s, timed>>

\* ETIMEDOUT: only a sleep that has a timeout and that nobody has ended.
TimedOut(t) ==
  /\ pc[t] = "asleep"
  /\ timed[t]
  /\ Goto(t, "expire")
  /\ UNCHANGED <<s, timed>>

--------------------------------------------------------------------------------
(* The lock's operations. *)

\* Mutated form: the word is tested by an earlier load only, not by the exchange.
TakeFreeUnchecked(t) ==
  /\ s' = Held
  /\ Goto(t, "cs")

\* A successful compare-exchange of __free by __held.
TakeFree(t) ==
  /\ s = Free
  /\ s' = Held
  /\ Goto(t, "cs")

\* try_lock(): one strong compare-exchange; a failure changes nothing.
TryLock(t) ==
  /\ pc[t] = "idle"
  /\ TakeFree(t)
  /\ timed' = [timed EXCEPT ![t] = FALSE]

\* operator() and try_lock_until(): the compare-exchange they begin with.
Lock(t, withDeadline) ==
  /\ pc[t] = "idle"
  /\ timed' = [timed EXCEPT ![t] = withDeadline]
  /\ \/ TakeFree(t)
     \/ s # Free /\ Goto(t, "spin") /\ UNCHANGED s

\* __spin_phase(): the weak compare-exchange wins, or the backoff says park.
SpinTake(t) ==
  /\ pc[t] = "spin"
  /\ TakeFree(t)
  /\ UNCHANGED timed

SpinPark(t) ==
  /\ pc[t] = "spin"
  /\ Goto(t, "swap")
  /\ UNCHANGED <<s, timed>>

\* Mutated form: a woken thread takes the free word as held, not as contended.
SwapAsHeld(t) ==
  /\ pc[t] = "swap"
  /\ s' = IF s = Free THEN Held ELSE Contended
  /\ Goto(t, IF s = Free THEN "cs" ELSE IF timed[t] THEN "clock" ELSE "wait")
  /\ UNCHANGED timed

\* Mutated form: contention is counted up instead of swapped in.
SwapByAdding(t) ==
  /\ pc[t] = "swap"
  /\ s' = s + 1
  /\ Goto(t, IF s = Free THEN "cs" ELSE IF timed[t] THEN "clock" ELSE "wait")
  /\ UNCHANGED timed

\* c = __s.swap(__contended): the lock is taken, as contended, when c was free.
Swap(t) ==
  /\ pc[t] = "swap"
  /\ s' = Contended
  /\ Goto(t, IF s = Free THEN "cs" ELSE IF timed[t] THEN "clock" ELSE "wait")
  /\ UNCHANGED timed

\* try_lock_until reads the clock before every sleep.
CheckDeadline(t) ==
  /\ pc[t] = "clock"
  /\ \E l \in {"wait", "expire"} : Goto(t, l)
  /\ UNCHANGED <<s, timed>>

\* futex_wait(&__s, __contended): asleep only if the word still says contended.
Wait(t) ==
  /\ pc[t] = "wait"
  /\ Goto(t, IF s = Contended THEN "asleep" ELSE "swap")
  /\ UNCHANGED <<s, timed>>

\* Out of time: pass a wake on if the word says contended, and return false.
Expire(t) ==
  /\ pc[t] = "expire"
  /\ Goto(t, IF s = Contended THEN "expwake" ELSE "idle")
  /\ UNCHANGED <<s, timed>>

ExpireWake(t) ==
  /\ pc[t] = "expwake"
  /\ FutexWake(t)
  /\ UNCHANGED <<s, timed>>

\* Mutated form: unlock() is a plain store and never wakes anybody.
UnlockSilently(t) ==
  /\ pc[t] = "cs"
  /\ s' = Free
  /\ Goto(t, "idle")
  /\ UNCHANGED timed

\* unlock(): swap in __free, then wake one sleeper if the word was contended.
Unlock(t) ==
  /\ pc[t] = "cs"
  /\ s' = Free
  /\ Goto(t, IF s = Contended THEN "wake" ELSE "idle")
  /\ UNCHANGED timed

UnlockWake(t) ==
  /\ pc[t] = "wake"
  /\ FutexWake(t)
  /\ UNCHANGED <<s, timed>>

--------------------------------------------------------------------------------
\* What a running thread does inside a call; it never pauses for ever there.
Running(t) ==
  \/ SpinTake(t) \/ SpinPark(t) \/ Swap(t) \/ CheckDeadline(t) \/ Wait(t)
  \/ Expire(t) \/ ExpireWake(t) \/ Unlock(t) \/ UnlockWake(t)

\* What the callers and the kernel may do, or not.
Environment(t) ==
  \/ TryLock(t)
  \/ \E d \in BOOLEAN : Lock(t, d)
  \/ Spurious(t)
  \/ TimedOut(t)

Next == \E t \in Threads : Running(t) \/ Environment(t)

Spec == Init /\ [][Next]_vars

\* Threads keep running inside lock() and unlock(), and critical sections end.
FairSpec == Spec /\ \A t \in Threads : WF_vars(Running(t))

--------------------------------------------------------------------------------
(* Properties. *)

TypeOK ==
  /\ s \in {Free, Held, Contended}
  /\ pc \in [Threads -> PCs]
  /\ timed \in [Threads -> BOOLEAN]

Holders == {t \in Threads : pc[t] = "cs"}

\* The lock is exclusive, whichever of the five ways in each thread took
\* (fast path, try_lock, spin, swap after a sleep, swap after EAGAIN), and the
\* word is free exactly when nobody holds the lock: unlock()'s plain swap
\* relies on it.
MutualExclusion ==
  /\ \A t, u \in Holders : t = u
  /\ s = Free <=> Holders = {}

\* unlock() sends its one wake only when it saw contended, and a woken thread
\* may lose the lock to a barging one.  Still no sleeper is ever forgotten: if
\* anybody sleeps, then the word says contended, so that the next unlock wakes,
\* or a wake is on its way, or an awake thread is about to swap contended in.
SleeperRemembered ==
  Sleepers # {} =>
    \/ s = Contended
    \/ \E t \in Threads : pc[t] \in {"wake", "swap"}

Abstract == INSTANCE MutexSpec WITH holder <- Holders

\* The mutex implements the abstract lock: the sleeps, wakes and timeouts of
\* operator(), try_lock_until and unlock are invisible to the callers.
ImplementsMutex == Abstract!Spec

\* A thread in operator() (no deadline) that the others leave alone gets the
\* lock, whatever they did before: their unlocks, their timeouts and the kernel
\* never leave it asleep next to a free lock.
LoneWaiterServed ==
  \A t \in Threads :
    [](/\ pc[t] \in Parked \cup {"spin"}
       /\ ~timed[t]
       /\ [](\A u \in Threads \ {t} : pc[u] = "idle")
       => <>(pc[t] = "cs"))
================================================================================
