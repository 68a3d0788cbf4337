------------------------------ MODULE SharedMutex ------------------------------
(***************************************************************************)
(* mutex/locks/shared_mutex.hpp: the reader/writer lock for threads.        *)
(*                                                                          *)
(* __s holds the writer bit and the number of readers; __ww the number of   *)
(* writers inside operator() that do not have the lock yet.  Readers wait   *)
(* for __ww to be zero by spinning, and for the writer bit by sleeping on   *)
(* __s; writers sleep on __s whatever it is, as long as it is not zero.     *)
(* Each load, exchange and futex call is an action.                         *)
(***************************************************************************)
EXTENDS Integers, FiniteSets

CONSTANTS
  Readers,      \* threads that call the shared side
  Writers,      \* threads that call the exclusive side
  Wr,           \* the writer bit (2^31 in the code), above the reader count
  MaxStrays     \* bound on calls of unlock_shared by a thread that holds nothing

ASSUME WrAssumption == Wr \in Nat \ {0}
ASSUME StraysAssumption == MaxStrays \in Nat
ASSUME ReadersFit == IsFiniteSet(Readers) /\ Cardinality(Readers) < Wr
ASSUME WritersFinite == IsFiniteSet(Writers)

VARIABLES
  s,          \* the word __s
  ww,         \* the word __ww
  pc,         \* where each thread is
  seen,       \* the value of __s a thread loaded last
  strays      \* how many stray unlock_shared calls have been made

vars == <<s, ww, pc, seen, strays>>

Threads == Readers \cup Writers

RMask == Wr - 1
Words == 0 .. (2 * Wr - 1)

WriterBit(n) == n >= Wr

\* Unsigned arithmetic on the word.
Inc(n) == (n + 1) % (2 * Wr)
Dec(n) == (n - 1) % (2 * Wr)

WriterPCs == {"w_try", "w_park", "w_asleep", "w_dec", "writing"}
ReaderPCs ==
  {"r_gate", "r_load", "r_cas", "r_park", "r_asleep", "t_load", "t_cas", "reading", "undo"}

PCs == {"idle", "wake"} \cup WriterPCs \cup ReaderPCs

Goto(t, l) == pc' = [pc EXCEPT ![t] = l]

Init ==
  /\ s = 0
  /\ ww = 0
  /\ pc = [t \in Threads |-> "idle"]
  /\ seen = [t \in Threads |-> 0]
  /\ strays = 0

--------------------------------------------------------------------------------
(* The kernel's futex. *)

\* Where a thread whose sleep ends continues.
Awoken(l) ==
  CASE l = "w_asleep" -> "w_try"
    [] l = "r_asleep" -> "r_gate"
    [] OTHER          -> l

\* Mutated form: sleep without the kernel's comparison.
ParkUnchecked(t, asleep) ==
  /\ Goto(t, asleep)
  /\ UNCHANGED <<s, ww, seen, strays>>

\* futex_wait(&__s, seen): asleep only if the word still is what was loaded.
Park(t, asleep) ==
  /\ Goto(t, IF s = seen[t] THEN asleep ELSE Awoken(asleep))
  /\ UNCHANGED <<s, ww, seen, strays>>

Spurious(t) ==
  /\ pc[t] \in {"w_asleep", "r_asleep"}
  /\ Goto(t, Awoken(pc[t]))
  /\ UNCHANGED <<s, ww, seen, strays>>

\* __wake_all(), as the tail of an unlock: every sleeper goes on.
WakeAll(t) ==
  /\ pc[t] = "wake"
  /\ pc' = [u \in Threads |-> IF u = t THEN "idle" ELSE Awoken(pc[u])]
  /\ UNCHANGED <<s, ww, seen, strays>>

--------------------------------------------------------------------------------
(* The exclusive side. *)

\* operator(): announce a writer, loop, and withdraw the announcement.
LockEnter(t) ==
  /\ pc[t] = "idle"
  /\ ww' = ww + 1
  /\ Goto(t, "w_try")
  /\ UNCHANGED <<s, seen, strays>>

\* The load saw zero and the weak compare-exchange won.
LockTake(t) ==
  /\ pc[t] = "w_try"
  /\ s = 0
  /\ s' = Wr
  /\ Goto(t, "w_dec")
  /\ UNCHANGED <<ww, seen, strays>>

\* The load saw something else and the backoff is used up.
LockGiveUp(t) ==
  /\ pc[t] = "w_try"
  /\ s # 0
  /\ seen' = [seen EXCEPT ![t] = s]
  /\ Goto(t, "w_park")
  /\ UNCHANGED <<s, ww, strays>>

LockPark(t) == pc[t] = "w_park" /\ Park(t, "w_asleep")

LockDone(t) ==
  /\ pc[t] = "w_dec"
  /\ ww' = ww - 1
  /\ Goto(t, "writing")
  /\ UNCHANGED <<s, seen, strays>>

\* Mutated form: try_lock() shares the tail of operator(), which withdraws a writer.
TryLockWithdrawing(t) ==
  /\ pc[t] = "idle"
  /\ s = 0
  /\ s' = Wr
  /\ Goto(t, "w_dec")
  /\ UNCHANGED <<ww, seen, strays>>

TryLock(t) ==
  /\ pc[t] = "idle"
  /\ s = 0
  /\ s' = Wr
  /\ Goto(t, "writing")
  /\ UNCHANGED <<ww, seen, strays>>

Unlock(t) ==
  /\ pc[t] = "writing"
  /\ s' = 0
  /\ Goto(t, "wake")
  /\ UNCHANGED <<ww, seen, strays>>

--------------------------------------------------------------------------------
(* The shared side. *)

\* lock_shared() and try_lock_shared() both begin with the load of __ww.
LockSharedCall(t) ==
  /\ pc[t] = "idle"
  /\ Goto(t, "r_gate")
  /\ UNCHANGED <<s, ww, seen, strays>>

\* Mutated form: readers do not wait for announced writers.
GateOpen(t) ==
  /\ pc[t] = "r_gate"
  /\ Goto(t, "r_load")
  /\ UNCHANGED <<s, ww, seen, strays>>

Gate(t) ==
  /\ pc[t] = "r_gate"
  /\ ww = 0
  /\ Goto(t, "r_load")
  /\ UNCHANGED <<s, ww, seen, strays>>

\* The load of __s: with the writer bit spin or sleep, else try to add a reader.
LoadShared(t) ==
  /\ pc[t] = "r_load"
  /\ seen' = [seen EXCEPT ![t] = s]
  /\ \E l \in IF WriterBit(s) THEN {"r_gate", "r_park"} ELSE {"r_cas"} : Goto(t, l)
  /\ UNCHANGED <<s, ww, strays>>

ParkShared(t) == pc[t] = "r_park" /\ Park(t, "r_asleep")

\* Mutated form: a store in place of the compare-exchange.
TakeSharedStore(t) ==
  /\ pc[t] = "r_cas"
  /\ s' = Inc(seen[t])
  /\ Goto(t, "reading")
  /\ UNCHANGED <<ww, seen, strays>>

\* The compare-exchange of seen by seen + 1; failing, back to the gate.
TakeShared(t) ==
  /\ pc[t] = "r_cas"
  /\ IF s = seen[t]
     THEN s' = Inc(s) /\ Goto(t, "reading")
     ELSE UNCHANGED s /\ Goto(t, "r_gate")
  /\ UNCHANGED <<ww, seen, strays>>

\* A weak compare-exchange may fail although the word has not changed.
TakeSharedFails(t) ==
  /\ pc[t] = "r_cas"
  /\ Goto(t, "r_gate")
  /\ UNCHANGED <<s, ww, seen, strays>>

TryLockShared(t) ==
  /\ pc[t] = "idle"
  /\ ww = 0
  /\ Goto(t, "t_load")
  /\ UNCHANGED <<s, ww, seen, strays>>

\* Mutated form: try_lock_shared() does not look at the writer bit.
TryLoadSharedBlind(t) ==
  /\ pc[t] = "t_load"
  /\ seen' = [seen EXCEPT ![t] = s]
  /\ Goto(t, "t_cas")
  /\ UNCHANGED <<s, ww, strays>>

TryLoadShared(t) ==
  /\ pc[t] = "t_load"
  /\ seen' = [seen EXCEPT ![t] = s]
  /\ Goto(t, IF WriterBit(s) THEN "idle" ELSE "t_cas")
  /\ UNCHANGED <<s, ww, strays>>

TryTakeShared(t) ==
  /\ pc[t] = "t_cas"
  /\ IF s = seen[t]
     THEN s' = Inc(s) /\ Goto(t, "reading")
     ELSE UNCHANGED s /\ Goto(t, "idle")
  /\ UNCHANGED <<ww, seen, strays>>

\* unlock_shared(): count down; undo an underflow; wake when nobody is left.
CountDown(t) ==
  LET n == Dec(s)
  IN  /\ s' = n
      /\ Goto(t, IF n % Wr = RMask THEN "undo" ELSE IF n % Wr = 0 THEN "wake" ELSE "idle")
      /\ UNCHANGED <<ww, seen>>

UnlockShared(t) ==
  /\ pc[t] = "reading"
  /\ CountDown(t)
  /\ UNCHANGED strays

\* unlock_shared() called once too often, by a thread that holds nothing.
StrayUnlockShared(t) ==
  /\ pc[t] = "idle"
  /\ strays < MaxStrays
  /\ strays' = strays + 1
  /\ CountDown(t)

\* The repair: the fetch_add that follows, and the wake.
UndoUnderflow(t) ==
  /\ pc[t] = "undo"
  /\ s' = Inc(s)
  /\ Goto(t, "wake")
  /\ UNCHANGED <<ww, seen, strays>>

--------------------------------------------------------------------------------
\* What a thread does once it is inside a call.
RunningWriter(t) ==
  \/ LockTake(t) \/ LockGiveUp(t) \/ LockPark(t) \/ LockDone(t)
  \/ Unlock(t) \/ WakeAll(t)

RunningReader(t) ==
  \/ Gate(t) \/ LoadShared(t) \/ ParkShared(t) \/ TakeShared(t)
  \/ TryLoadShared(t) \/ TryTakeShared(t)
  \/ UnlockShared(t) \/ WakeAll(t)

\* The calls, the kernel's spurious wakeups, the spurious exchange failures.
WriterCalls(t) == LockEnter(t) \/ TryLock(t) \/ Spurious(t)

ReaderCalls(t) ==
  LockSharedCall(t) \/ TryLockShared(t) \/ TakeSharedFails(t) \/ Spurious(t)

Next ==
  \/ \E t \in Writers : RunningWriter(t) \/ WriterCalls(t)
  \/ \E t \in Readers : RunningReader(t) \/ ReaderCalls(t)

Spec == Init /\ [][Next]_vars

\* With threads that call unlock_shared() once too often.
StraySpec ==
  Init /\ [][Next \/ \E t \in Readers : StrayUnlockShared(t) \/ UndoUnderflow(t)]_vars

\* Threads keep running inside the calls, and critical sections end.
FairSpec ==
  /\ Spec
  /\ \A t \in Writers : WF_vars(RunningWriter(t))
  /\ \A t \in Readers : WF_vars(RunningReader(t))

--------------------------------------------------------------------------------
(* Properties. *)

TypeOK ==
  /\ s \in Words
  /\ ww \in 0 .. Cardinality(Writers)
  /\ pc \in [Threads -> PCs]
  /\ seen \in [Threads -> Words]
  /\ strays \in 0 .. MaxStrays

ReadersIn == {t \in Readers : pc[t] = "reading"}
WritersIn == {t \in Writers : pc[t] \in {"w_dec", "writing"}}

\* A writer is alone, and the one word says who is inside: the writer bit alone
\* for a writer, else the exact number of readers.  unlock() stores 0 and
\* unlock_shared() wakes on 0 on the strength of this.
WordTruthful ==
  IF WritersIn = {}
  THEN s = Cardinality(ReadersIn)
  ELSE s = Wr /\ ReadersIn = {} /\ Cardinality(WritersIn) = 1

\* The test "one unlock_shared too many after the last reader leaves it usable":
\* whenever no call is under way, the lock is free.
StrayLeavesUsable == (\A t \in Threads : pc[t] = "idle") => s = 0

Waking == \E t \in Threads : pc[t] = "wake"

\* A reader sleeps only while a writer holds the lock, a writer only while
\* somebody does, or else the wake-up is already on its way: the loads before
\* the sleeps may be stale, the sleeps are not.
SleepersJustified ==
  /\ (\E t \in Readers : pc[t] = "r_asleep") => WriterBit(s) \/ Waking
  /\ (\E t \in Writers : pc[t] = "w_asleep") => s # 0 \/ Waking

Abstract == INSTANCE RWLockSpec WITH reading <- ReadersIn, writing <- WritersIn

\* The lock implements the abstract reader/writer lock.
ImplementsRWLock == Abstract!Spec

\* The test "a writer is not starved by a continuous reader storm": while a
\* writer waits in lock(), some writer gets the lock although readers keep
\* coming, since none passes the gate while the writer is announced.
WritersNotStarved ==
  (\E t \in Writers : pc[t] \in {"w_try", "w_park", "w_asleep"}) ~> WritersIn # {}
================================================================================
