--------------------------- MODULE FutexMutex_proofs ---------------------------
(***************************************************************************)
(* For any set of threads: the mutex is exclusive, it never forgets a       *)
(* sleeper, and it implements the abstract lock.                            *)
(***************************************************************************)
EXTENDS FutexMutex, TLAPS

USE DEF Free, Held, Contended

\* Every word of the state keeps its type under every step of the mutex.
THEOREM Typing == Spec => []TypeOK
<1>1. Init => TypeOK
  BY DEF Init, TypeOK, PCs
<1>2. TypeOK /\ [Next]_vars => TypeOK'
  BY DEF TypeOK, PCs, Parked, Next, vars, Running, Environment, TakeFree, TryLock, Lock,
         SpinTake, SpinPark, Swap, CheckDeadline, Wait, Expire, ExpireWake,
         Unlock, UnlockWake, FutexWake, Spurious, TimedOut, Goto, Sleepers
<1> QED
  BY <1>1, <1>2, PTL DEF Spec

--------------------------------------------------------------------------------
\* The inductive invariant of the lock: MutualExclusion is inductive by itself
\* once the state is typed, since each way in tests the word and takes it in
\* one atomic operation.
LEMMA ExclusionStep == TypeOK /\ MutualExclusion /\ [Next]_vars => MutualExclusion'
<1> SUFFICES ASSUME TypeOK, MutualExclusion, [Next]_vars PROVE MutualExclusion'
  OBVIOUS
<1> USE DEF TypeOK, PCs, Parked, MutualExclusion, Holders, Goto
<1>1. CASE UNCHANGED vars
  BY <1>1 DEF vars
<1>2. ASSUME NEW t \in Threads, TryLock(t) \/ (\E d \in BOOLEAN : Lock(t, d)) \/ SpinTake(t)
      PROVE  MutualExclusion'
  BY <1>2 DEF TryLock, Lock, SpinTake, TakeFree
<1>3. ASSUME NEW t \in Threads, Swap(t)
      PROVE  MutualExclusion'
  BY <1>3 DEF Swap
<1>4. ASSUME NEW t \in Threads, Unlock(t)
      PROVE  MutualExclusion'
  BY <1>4 DEF Unlock
<1>5. ASSUME NEW t \in Threads,
             \/ SpinPark(t) \/ CheckDeadline(t) \/ Wait(t) \/ Expire(t)
             \/ Spurious(t) \/ TimedOut(t)
      PROVE  MutualExclusion'
  BY <1>5 DEF SpinPark, CheckDeadline, Wait, Expire, Spurious, TimedOut
<1>6. ASSUME NEW t \in Threads, ExpireWake(t) \/ UnlockWake(t)
      PROVE  MutualExclusion'
  BY <1>6 DEF ExpireWake, UnlockWake, FutexWake, Sleepers
<1> QED
  BY <1>1, <1>2, <1>3, <1>4, <1>5, <1>6 DEF Next, Running, Environment

\* Two threads are never both between lock and unlock, and the word is free
\* exactly when nobody is: for any number of threads, whichever way they enter.
THEOREM Exclusion == Spec => []MutualExclusion
<1>1. Init => MutualExclusion
  BY DEF Init, MutualExclusion, Holders
<1> QED
  BY <1>1, Typing, ExclusionStep, PTL DEF Spec

--------------------------------------------------------------------------------
\* A step never leaves a sleeper that neither the word nor an awake thread
\* remembers.
LEMMA RememberStep == TypeOK /\ SleeperRemembered /\ [Next]_vars => SleeperRemembered'
<1> SUFFICES ASSUME TypeOK, SleeperRemembered, [Next]_vars PROVE SleeperRemembered'
  OBVIOUS
<1> USE DEF TypeOK, PCs, Parked, SleeperRemembered, Sleepers, Goto
<1>1. CASE UNCHANGED vars
  BY <1>1 DEF vars
<1>2. ASSUME NEW t \in Threads, TryLock(t) \/ (\E d \in BOOLEAN : Lock(t, d)) \/ SpinTake(t)
      PROVE  SleeperRemembered'
  BY <1>2 DEF TryLock, Lock, SpinTake, TakeFree
<1>3. ASSUME NEW t \in Threads, Swap(t) \/ Wait(t) \/ CheckDeadline(t) \/ Expire(t)
      PROVE  SleeperRemembered'
  BY <1>3 DEF Swap, Wait, CheckDeadline, Expire
<1>4. ASSUME NEW t \in Threads, Unlock(t)
      PROVE  SleeperRemembered'
  BY <1>4 DEF Unlock
<1>5. ASSUME NEW t \in Threads, SpinPark(t) \/ Spurious(t) \/ TimedOut(t)
      PROVE  SleeperRemembered'
  BY <1>5 DEF SpinPark, Spurious, TimedOut
<1>6. ASSUME NEW t \in Threads, ExpireWake(t) \/ UnlockWake(t)
      PROVE  SleeperRemembered'
  BY <1>6 DEF ExpireWake, UnlockWake, FutexWake
<1> QED
  BY <1>1, <1>2, <1>3, <1>4, <1>5, <1>6 DEF Next, Running, Environment

\* No unlock, timeout or barging thread makes the mutex forget a sleeper.
THEOREM Remembrance == Spec => []SleeperRemembered
<1>1. Init => SleeperRemembered
  BY DEF Init, SleeperRemembered, Sleepers
<1> QED
  BY <1>1, Typing, RememberStep, PTL DEF Spec

--------------------------------------------------------------------------------
\* Every step of the mutex is an acquire, a release or invisible.
LEMMA StepSimulation ==
  TypeOK /\ MutualExclusion /\ [Next]_vars => [Abstract!Next]_Holders
<1> SUFFICES ASSUME TypeOK, MutualExclusion, [Next]_vars
             PROVE  Abstract!Next \/ Holders' = Holders
  OBVIOUS
<1> USE DEF TypeOK, PCs, Parked, MutualExclusion, Goto
<1>1. CASE UNCHANGED vars
  BY <1>1 DEF vars, Holders
<1>2. ASSUME NEW t \in Threads, TakeFree(t), pc[t] # "cs"
      PROVE  Abstract!Acquire(t)
  BY <1>2 DEF TakeFree, Holders, Abstract!Acquire
<1>3. ASSUME NEW t \in Threads, Swap(t)
      PROVE  Abstract!Acquire(t) \/ Holders' = Holders
  <2>1. CASE s = Free
    BY <1>3, <2>1 DEF Swap, Holders, Abstract!Acquire
  <2>2. CASE s # Free
    BY <1>3, <2>2 DEF Swap, Holders
  <2> QED
    BY <2>1, <2>2
<1>4. ASSUME NEW t \in Threads, Unlock(t)
      PROVE  Abstract!Release(t)
  BY <1>4 DEF Unlock, Holders, Abstract!Release
<1>5. ASSUME NEW t \in Threads,
             \/ SpinPark(t) \/ CheckDeadline(t) \/ Wait(t) \/ Expire(t)
             \/ Spurious(t) \/ TimedOut(t)
      PROVE  Holders' = Holders
  BY <1>5 DEF SpinPark, CheckDeadline, Wait, Expire, Spurious, TimedOut, Holders
<1>6. ASSUME NEW t \in Threads, ExpireWake(t) \/ UnlockWake(t)
      PROVE  Holders' = Holders
  BY <1>6 DEF ExpireWake, UnlockWake, FutexWake, Sleepers, Holders
<1>7. ASSUME NEW t \in Threads, TryLock(t) \/ (\E d \in BOOLEAN : Lock(t, d)) \/ SpinTake(t)
      PROVE  Abstract!Acquire(t) \/ Holders' = Holders
  BY <1>2, <1>7 DEF TryLock, Lock, SpinTake, Holders
<1> QED
  BY <1>1, <1>3, <1>4, <1>5, <1>6, <1>7 DEF Next, Running, Environment, Abstract!Next

\* The adaptive mutex implements the abstract lock for any set of threads.
THEOREM Implementation == Spec => ImplementsMutex
<1>1. Init => Abstract!Init
  BY DEF Init, Holders, Abstract!Init
<1> QED
  BY <1>1, Typing, Exclusion, StepSimulation, PTL DEF Spec, ImplementsMutex, Abstract!Spec
================================================================================
