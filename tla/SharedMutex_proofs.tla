--------------------------- MODULE SharedMutex_proofs --------------------------
(***************************************************************************)
(* For any finite numbers of readers and writers: the one word of the       *)
(* reader/writer mutex tells exactly who is inside, nobody sleeps without a *)
(* reason, and the mutex implements the abstract reader/writer lock.        *)
(***************************************************************************)
EXTENDS SharedMutex, FiniteSetTheorems, TLAPS

\* The writers __ww counts: announced by operator() and not yet withdrawn.
Announced == {t \in Writers : pc[t] \in {"w_try", "w_park", "w_asleep", "w_dec"}}

\* What the values loaded from the word are good for: an exchange only starts
\* from a value without the writer bit, a reader only sleeps on one with it, a
\* writer on any but zero; and no reader count ever has to be repaired.
SeenUseful ==
  \A t \in Threads :
    /\ pc[t] \in {"r_cas", "t_cas"} => seen[t] < Wr
    /\ pc[t] = "r_park" => seen[t] >= Wr
    /\ pc[t] = "w_park" => seen[t] # 0
    /\ pc[t] # "undo"

\* The inductive invariant: TypeOK with the exact meaning of __ww, and
\* WordTruthful with what each thread knows about the word.
IInv ==
  /\ TypeOK
  /\ ww = Cardinality(Announced)
  /\ SeenUseful
  /\ WordTruthful
  /\ SleepersJustified

--------------------------------------------------------------------------------
(* Arithmetic on the word, and the finite sets of threads. *)

\* Adding a reader to a word without the writer bit does not wrap.
LEMMA IncSmall == ASSUME NEW n \in Nat, n < Wr PROVE Inc(n) = n + 1
  BY WrAssumption DEF Inc

\* Taking a reader off a count above zero does not wrap.
LEMMA DecSmall == ASSUME NEW n \in Nat, 0 < n, n < Wr PROVE Dec(n) = n - 1
  BY WrAssumption DEF Dec

\* The mask leaves a reader count as it is.
LEMMA ModSmall == ASSUME NEW n \in Nat, n < Wr PROVE n % Wr = n
  BY WrAssumption

\* The threads inside are finite sets, smaller than the writer bit.
LEMMA Inside ==
  /\ IsFiniteSet(ReadersIn) /\ Cardinality(ReadersIn) \in Nat
  /\ Cardinality(ReadersIn) < Wr
  /\ IsFiniteSet(WritersIn)
  /\ IsFiniteSet(Announced) /\ Cardinality(Announced) \in 0 .. Cardinality(Writers)
<1>1. ReadersIn \in SUBSET Readers /\ WritersIn \in SUBSET Writers /\ Announced \in SUBSET Writers
  BY DEF ReadersIn, WritersIn, Announced
<1>2. /\ IsFiniteSet(ReadersIn) /\ Cardinality(ReadersIn) <= Cardinality(Readers)
      /\ IsFiniteSet(WritersIn)
      /\ IsFiniteSet(Announced) /\ Cardinality(Announced) <= Cardinality(Writers)
  BY <1>1, FS_Subset, ReadersFit, WritersFinite
<1>3. Cardinality(Readers) \in Nat /\ Cardinality(Writers) \in Nat
  BY FS_CardinalityType, ReadersFit, WritersFinite
<1>4. Cardinality(ReadersIn) \in Nat /\ Cardinality(Announced) \in Nat
  BY <1>2, FS_CardinalityType
<1> QED
  BY <1>2, <1>3, <1>4, ReadersFit, WrAssumption

\* The writer bit is set exactly while a writer is inside; the word is zero
\* exactly while nobody is.
LEMMA WordReads ==
  ASSUME TypeOK, WordTruthful
  PROVE  /\ s < Wr <=> WritersIn = {}
         /\ s = 0 <=> WritersIn = {} /\ ReadersIn = {}
         /\ s <= Wr
         /\ \A t \in ReadersIn : WritersIn = {} /\ s = Cardinality(ReadersIn) /\ 0 < s
         /\ \A t \in WritersIn : WritersIn = {t} /\ ReadersIn = {} /\ s = Wr
<1>1. Cardinality(ReadersIn) = 0 <=> ReadersIn = {}
  BY Inside, FS_EmptySet
<1>2. Cardinality(WritersIn) = 1 => \E x : WritersIn = {x}
  BY Inside, FS_Singleton
<1>3. CASE WritersIn = {}
  BY <1>1, <1>3, Inside, WrAssumption DEF WordTruthful
<1>4. CASE WritersIn # {}
  BY <1>1, <1>2, <1>4, Inside, WrAssumption DEF WordTruthful
<1> QED
  BY <1>3, <1>4

--------------------------------------------------------------------------------
(* The actions by what they do to the sets of threads inside. *)

\* Steps that neither change a word nor anybody's being inside.
Quiet(t) ==
  \/ LockGiveUp(t) \/ LockPark(t) \/ LockSharedCall(t) \/ Gate(t) \/ LoadShared(t)
  \/ ParkShared(t) \/ TakeSharedFails(t) \/ TryLockShared(t) \/ TryLoadShared(t)
  \/ Spurious(t) \/ WakeAll(t)
  \/ TakeShared(t) /\ s # seen[t]
  \/ TryTakeShared(t) /\ s # seen[t]

\* The exchange that adds a reader.
EnterShared(t) == (TakeShared(t) \/ TryTakeShared(t)) /\ s = seen[t]

\* Every step is one of seven kinds.
LEMMA Kinds ==
  ASSUME Next
  PROVE  \/ \E t \in Threads : Quiet(t)
         \/ \E t \in Writers : LockEnter(t) \/ LockTake(t) \/ TryLock(t) \/ LockDone(t) \/ Unlock(t)
         \/ \E t \in Readers : EnterShared(t) \/ UnlockShared(t)
  BY DEF Next, RunningWriter, RunningReader, WriterCalls, ReaderCalls, Quiet, EnterShared, Threads

\* A quiet step leaves the words and the sets alone.
LEMMA QuietStep ==
  ASSUME TypeOK, NEW t \in Threads, Quiet(t)
  PROVE  /\ s' = s /\ ww' = ww /\ strays' = strays
         /\ ReadersIn' = ReadersIn /\ WritersIn' = WritersIn /\ Announced' = Announced
<1> USE DEF TypeOK, Threads, Goto, Park, Awoken, ReadersIn, WritersIn, Announced
<1>1. CASE LockGiveUp(t) \/ LockPark(t) \/ LockSharedCall(t) \/ Gate(t) \/ TryLockShared(t)
  BY <1>1 DEF LockGiveUp, LockPark, LockSharedCall, Gate, TryLockShared
<1>2. CASE LoadShared(t) \/ ParkShared(t) \/ TakeSharedFails(t) \/ TryLoadShared(t)
  BY <1>2 DEF LoadShared, ParkShared, TakeSharedFails, TryLoadShared
<1>3. CASE Spurious(t) \/ WakeAll(t)
  BY <1>3 DEF Spurious, WakeAll
<1>4. CASE (TakeShared(t) \/ TryTakeShared(t)) /\ s # seen[t]
  BY <1>4 DEF TakeShared, TryTakeShared
<1> QED
  BY <1>1, <1>2, <1>3, <1>4 DEF Quiet

\* What the loud steps do to the sets; the words are in the actions.
LEMMA LoudStep ==
  ASSUME TypeOK
  PROVE  /\ \A t \in Writers : LockEnter(t) =>
              /\ ReadersIn' = ReadersIn /\ WritersIn' = WritersIn
              /\ t \notin Announced /\ Announced' = Announced \cup {t}
         /\ \A t \in Writers : LockTake(t) =>
              /\ ReadersIn' = ReadersIn /\ WritersIn' = WritersIn \cup {t}
              /\ Announced' = Announced
         /\ \A t \in Writers : TryLock(t) =>
              /\ ReadersIn' = ReadersIn /\ WritersIn' = WritersIn \cup {t}
              /\ Announced' = Announced
         /\ \A t \in Writers : LockDone(t) =>
              /\ ReadersIn' = ReadersIn /\ WritersIn' = WritersIn
              /\ t \in Announced /\ Announced' = Announced \ {t}
         /\ \A t \in Writers : Unlock(t) =>
              /\ ReadersIn' = ReadersIn /\ t \in WritersIn /\ WritersIn' = WritersIn \ {t}
              /\ Announced' = Announced
         /\ \A t \in Readers : EnterShared(t) =>
              /\ t \notin ReadersIn /\ ReadersIn' = ReadersIn \cup {t}
              /\ WritersIn' = WritersIn /\ Announced' = Announced
         /\ \A t \in Readers : UnlockShared(t) =>
              /\ t \in ReadersIn /\ ReadersIn' = ReadersIn \ {t}
              /\ WritersIn' = WritersIn /\ Announced' = Announced
<1> USE DEF TypeOK, Threads, Goto, ReadersIn, WritersIn, Announced
<1>1. ASSUME NEW t \in Writers, LockEnter(t)
      PROVE  /\ ReadersIn' = ReadersIn /\ WritersIn' = WritersIn
             /\ t \notin Announced /\ Announced' = Announced \cup {t}
  BY <1>1 DEF LockEnter
<1>2. ASSUME NEW t \in Writers, LockTake(t)
      PROVE  /\ ReadersIn' = ReadersIn /\ WritersIn' = WritersIn \cup {t}
             /\ Announced' = Announced
  BY <1>2 DEF LockTake
<1>3. ASSUME NEW t \in Writers, TryLock(t)
      PROVE  /\ ReadersIn' = ReadersIn /\ WritersIn' = WritersIn \cup {t}
             /\ Announced' = Announced
  BY <1>3 DEF TryLock
<1>4. ASSUME NEW t \in Writers, LockDone(t)
      PROVE  /\ ReadersIn' = ReadersIn /\ WritersIn' = WritersIn
             /\ t \in Announced /\ Announced' = Announced \ {t}
  BY <1>4 DEF LockDone
<1>5. ASSUME NEW t \in Writers, Unlock(t)
      PROVE  /\ ReadersIn' = ReadersIn /\ t \in WritersIn /\ WritersIn' = WritersIn \ {t}
             /\ Announced' = Announced
  BY <1>5 DEF Unlock
<1>6. ASSUME NEW t \in Readers, EnterShared(t)
      PROVE  /\ t \notin ReadersIn /\ ReadersIn' = ReadersIn \cup {t}
             /\ WritersIn' = WritersIn /\ Announced' = Announced
  BY <1>6 DEF EnterShared, TakeShared, TryTakeShared
<1>7. ASSUME NEW t \in Readers, UnlockShared(t)
      PROVE  /\ t \in ReadersIn /\ ReadersIn' = ReadersIn \ {t}
             /\ WritersIn' = WritersIn /\ Announced' = Announced
  BY <1>7 DEF UnlockShared, CountDown
<1> QED
  BY <1>1, <1>2, <1>3, <1>4, <1>5, <1>6, <1>7

\* A reader that leaves counts one down, never repairs, and wakes at zero.
LEMMA LeaveShared ==
  ASSUME IInv, NEW t \in Readers, UnlockShared(t)
  PROVE  /\ s' = s - 1 /\ s \in 1 .. (Wr - 1)
         /\ pc' = [pc EXCEPT ![t] = IF s = 1 THEN "wake" ELSE "idle"]
<1>1. t \in ReadersIn
  BY LoudStep DEF IInv
<1>2. s = Cardinality(ReadersIn) /\ 0 < s /\ s < Wr /\ s \in Nat
  BY <1>1, WordReads, Inside DEF IInv
<1>3. Dec(s) = s - 1
  BY <1>2, DecSmall
<1>4. s - 1 \in Nat /\ s - 1 < Wr - 1
  BY <1>2, WrAssumption
<1>5. (s - 1) % Wr = s - 1
  BY <1>4, ModSmall, WrAssumption
<1>6. /\ s' = Dec(s)
      /\ pc' = [pc EXCEPT ![t] = IF Dec(s) % Wr = RMask THEN "undo"
                                 ELSE IF Dec(s) % Wr = 0 THEN "wake" ELSE "idle"]
  BY DEF UnlockShared, CountDown, Goto
<1>7. (s - 1) % Wr # RMask /\ ((s - 1) % Wr = 0 <=> s = 1)
  BY <1>2, <1>4, <1>5, WrAssumption DEF RMask
<1>8. s \in 1 .. (Wr - 1)
  BY <1>2, WrAssumption
<1> QED
  BY <1>3, <1>6, <1>7, <1>8

\* A reader that enters counts one up, from a word without the writer bit.
LEMMA ArriveShared ==
  ASSUME IInv, NEW t \in Readers, EnterShared(t)
  PROVE  s' = s + 1 /\ s < Wr /\ s \in Nat /\ WritersIn = {}
<1>1. s < Wr /\ s \in Nat
  BY WrAssumption DEF IInv, TypeOK, Words, SeenUseful, Threads, EnterShared, TakeShared, TryTakeShared
<1>2. Inc(s) = s + 1
  BY <1>1, IncSmall
<1> QED
  BY <1>1, <1>2, WordReads DEF IInv, EnterShared, TakeShared, TryTakeShared

--------------------------------------------------------------------------------
(* Each conjunct of the invariant is kept by every step. *)

\* Places and loaded values keep their types.
LEMMA PlaceStep ==
  IInv /\ [Next]_vars => /\ pc' \in [Threads -> PCs]
                         /\ seen' \in [Threads -> Words]
                         /\ strays' \in 0 .. MaxStrays
<1> SUFFICES ASSUME IInv, [Next]_vars
             PROVE  /\ pc' \in [Threads -> PCs]
                    /\ seen' \in [Threads -> Words]
                    /\ strays' \in 0 .. MaxStrays
  OBVIOUS
<1> USE DEF IInv, TypeOK, PCs, WriterPCs, ReaderPCs, Threads, Goto, Park, Awoken
<1>1. CASE UNCHANGED vars
  BY <1>1 DEF vars
<1>2. ASSUME NEW t \in Threads, Quiet(t)
      PROVE  /\ pc' \in [Threads -> PCs]
             /\ seen' \in [Threads -> Words]
             /\ strays' \in 0 .. MaxStrays
  BY <1>2 DEF Quiet, LockGiveUp, LockPark, LockSharedCall, Gate, LoadShared, ParkShared,
              TakeSharedFails, TryLockShared, TryLoadShared, Spurious, WakeAll, TakeShared, TryTakeShared
<1>3. ASSUME NEW t \in Writers,
             LockEnter(t) \/ LockTake(t) \/ TryLock(t) \/ LockDone(t) \/ Unlock(t)
      PROVE  /\ pc' \in [Threads -> PCs]
             /\ seen' \in [Threads -> Words]
             /\ strays' \in 0 .. MaxStrays
  BY <1>3 DEF LockEnter, LockTake, TryLock, LockDone, Unlock
<1>4. ASSUME NEW t \in Readers, EnterShared(t) \/ UnlockShared(t)
      PROVE  /\ pc' \in [Threads -> PCs]
             /\ seen' \in [Threads -> Words]
             /\ strays' \in 0 .. MaxStrays
  BY <1>4 DEF EnterShared, TakeShared, TryTakeShared, UnlockShared, CountDown
<1> QED
  BY <1>1, <1>2, <1>3, <1>4, Kinds

\* The word stays a word.
LEMMA WordStep == IInv /\ [Next]_vars => s' \in Words
<1> SUFFICES ASSUME IInv, [Next]_vars PROVE s' \in Words
  OBVIOUS
<1> USE WrAssumption DEF Words
<1>0. s \in Words /\ TypeOK
  BY DEF IInv, TypeOK
<1>1. CASE UNCHANGED vars
  BY <1>0, <1>1 DEF vars
<1>2. ASSUME NEW t \in Threads, Quiet(t) PROVE s' \in Words
  BY <1>0, <1>2, QuietStep
<1>3. ASSUME NEW t \in Writers,
             LockEnter(t) \/ LockTake(t) \/ TryLock(t) \/ LockDone(t) \/ Unlock(t)
      PROVE  s' \in Words
  BY <1>0, <1>3 DEF LockEnter, LockTake, TryLock, LockDone, Unlock
<1>4. ASSUME NEW t \in Readers, EnterShared(t) \/ UnlockShared(t) PROVE s' \in Words
  BY <1>4, ArriveShared, LeaveShared
<1> QED
  BY <1>1, <1>2, <1>3, <1>4, Kinds

\* __ww counts the announced writers.
LEMMA AnnouncedStep ==
  IInv /\ [Next]_vars => ww' = Cardinality(Announced') /\ ww' \in 0 .. Cardinality(Writers)
<1> SUFFICES ASSUME IInv, [Next]_vars
             PROVE  ww' = Cardinality(Announced') /\ ww' \in 0 .. Cardinality(Writers)
  OBVIOUS
<1>0. ww = Cardinality(Announced) /\ TypeOK /\ IsFiniteSet(Announced)
  BY Inside DEF IInv
<1>1. ASSUME UNCHANGED vars PROVE ww' = Cardinality(Announced')
  BY <1>0, <1>1 DEF vars, Announced
<1>2. ASSUME NEW t \in Threads, Quiet(t) PROVE ww' = Cardinality(Announced')
  BY <1>0, <1>2, QuietStep
<1>3. ASSUME NEW t \in Writers, LockEnter(t) PROVE ww' = Cardinality(Announced')
  BY <1>0, <1>3, LoudStep, FS_AddElement DEF LockEnter
<1>4. ASSUME NEW t \in Writers, LockDone(t) PROVE ww' = Cardinality(Announced')
  BY <1>0, <1>4, LoudStep, FS_RemoveElement DEF LockDone
<1>5. ASSUME NEW t \in Writers, LockTake(t) \/ TryLock(t) \/ Unlock(t)
      PROVE  ww' = Cardinality(Announced')
  BY <1>0, <1>5, LoudStep DEF LockTake, TryLock, Unlock
<1>6. ASSUME NEW t \in Readers, EnterShared(t) \/ UnlockShared(t)
      PROVE  ww' = Cardinality(Announced')
  BY <1>0, <1>6, LoudStep DEF EnterShared, TakeShared, TryTakeShared, UnlockShared, CountDown
<1>7. ww' = Cardinality(Announced')
  BY <1>1, <1>2, <1>3, <1>4, <1>5, <1>6, Kinds
<1>8. Announced' \in SUBSET Writers
  BY DEF Announced
<1>9. Cardinality(Announced') \in Nat /\ Cardinality(Announced') <= Cardinality(Writers)
      /\ Cardinality(Writers) \in Nat
  BY <1>8, FS_Subset, FS_CardinalityType, WritersFinite
<1> QED
  BY <1>7, <1>9

\* What the loaded values are good for.
LEMMA SeenStep == IInv /\ [Next]_vars => SeenUseful'
<1> SUFFICES ASSUME IInv, [Next]_vars PROVE SeenUseful'
  OBVIOUS
<1> USE WrAssumption DEF IInv, TypeOK, Words, SeenUseful, Threads, Goto, Park, Awoken
<1>1. CASE UNCHANGED vars
  BY <1>1 DEF vars
<1>2. ASSUME NEW t \in Threads, Quiet(t) PROVE SeenUseful'
  <2>1. CASE LockGiveUp(t) \/ LoadShared(t) \/ TryLoadShared(t)
    BY <2>1 DEF LockGiveUp, LoadShared, TryLoadShared, WriterBit
  <2>2. CASE LockPark(t) \/ ParkShared(t) \/ Spurious(t)
    BY <2>2 DEF LockPark, ParkShared, Spurious
  <2>3. CASE LockSharedCall(t) \/ Gate(t) \/ TryLockShared(t) \/ TakeSharedFails(t)
    BY <2>3 DEF LockSharedCall, Gate, TryLockShared, TakeSharedFails
  <2>4. CASE WakeAll(t)
    BY <2>4 DEF WakeAll
  <2>5. CASE (TakeShared(t) \/ TryTakeShared(t)) /\ s # seen[t]
    BY <2>5 DEF TakeShared, TryTakeShared
  <2> QED
    BY <1>2, <2>1, <2>2, <2>3, <2>4, <2>5 DEF Quiet
<1>3. ASSUME NEW t \in Writers,
             LockEnter(t) \/ LockTake(t) \/ TryLock(t) \/ LockDone(t) \/ Unlock(t)
      PROVE  SeenUseful'
  BY <1>3 DEF LockEnter, LockTake, TryLock, LockDone, Unlock
<1>4. ASSUME NEW t \in Readers, EnterShared(t) PROVE SeenUseful'
  BY <1>4 DEF EnterShared, TakeShared, TryTakeShared
<1>5. ASSUME NEW t \in Readers, UnlockShared(t) PROVE SeenUseful'
  BY <1>5, LeaveShared DEF UnlockShared, CountDown
<1> QED
  BY <1>1, <1>2, <1>3, <1>4, <1>5, Kinds

\* The word keeps telling who is inside.
LEMMA TruthStep == IInv /\ [Next]_vars => WordTruthful'
<1> SUFFICES ASSUME IInv, [Next]_vars PROVE WordTruthful'
  OBVIOUS
<1>0. TypeOK /\ WordTruthful
  BY DEF IInv
<1>1. CASE UNCHANGED vars
  BY <1>0, <1>1 DEF vars, WordTruthful, ReadersIn, WritersIn
<1>2. ASSUME NEW t \in Threads, Quiet(t) PROVE WordTruthful'
  BY <1>0, <1>2, QuietStep DEF WordTruthful
<1>3. ASSUME NEW t \in Writers, LockEnter(t) \/ LockDone(t) PROVE WordTruthful'
  BY <1>0, <1>3, LoudStep DEF WordTruthful, LockEnter, LockDone
<1>4. ASSUME NEW t \in Writers, LockTake(t) \/ TryLock(t) PROVE WordTruthful'
  <2>1. s = 0 /\ s' = Wr
    BY <1>4 DEF LockTake, TryLock
  <2>2. WritersIn = {} /\ ReadersIn = {}
    BY <1>0, <2>1, WordReads
  <2>3. WritersIn' = {t} /\ ReadersIn' = {}
    BY <1>0, <1>4, <2>2, LoudStep
  <2>4. Cardinality({t}) = 1
    BY FS_Singleton
  <2> QED
    BY <2>1, <2>3, <2>4 DEF WordTruthful
<1>5. ASSUME NEW t \in Writers, Unlock(t) PROVE WordTruthful'
  <2>1. WritersIn' = {} /\ ReadersIn' = {}
    BY <1>0, <1>5, LoudStep, WordReads
  <2> QED
    BY <1>5, <2>1, FS_EmptySet DEF WordTruthful, Unlock
<1>6. ASSUME NEW t \in Readers, EnterShared(t) PROVE WordTruthful'
  <2>1. s' = s + 1 /\ WritersIn' = {} /\ s = Cardinality(ReadersIn)
    BY <1>0, <1>6, LoudStep, ArriveShared DEF WordTruthful
  <2>2. Cardinality(ReadersIn') = Cardinality(ReadersIn) + 1
    BY <1>0, <1>6, LoudStep, Inside, FS_AddElement
  <2> QED
    BY <2>1, <2>2 DEF WordTruthful
<1>7. ASSUME NEW t \in Readers, UnlockShared(t) PROVE WordTruthful'
  <2>1. s' = s - 1 /\ WritersIn' = {} /\ s = Cardinality(ReadersIn)
    BY <1>0, <1>7, LoudStep, LeaveShared, WordReads
  <2>2. Cardinality(ReadersIn') = Cardinality(ReadersIn) - 1
    BY <1>0, <1>7, LoudStep, Inside, FS_RemoveElement
  <2> QED
    BY <2>1, <2>2 DEF WordTruthful
<1> QED
  BY <1>1, <1>2, <1>3, <1>4, <1>5, <1>6, <1>7, Kinds

\* Nobody is left asleep without a reason or a wake-up on its way.
LEMMA SleepersStep == IInv /\ [Next]_vars => SleepersJustified'
<1> SUFFICES ASSUME IInv, [Next]_vars PROVE SleepersJustified'
  OBVIOUS
<1> USE WrAssumption DEF SleepersJustified, Waking, WriterBit, Goto, Awoken
<1>0. TypeOK /\ SeenUseful /\ SleepersJustified /\ pc \in [Threads -> PCs] /\ s \in Nat
  BY DEF IInv, TypeOK, Words
<1>1. CASE UNCHANGED vars
  BY <1>0, <1>1 DEF vars
<1>2. ASSUME NEW t \in Threads, Quiet(t) PROVE SleepersJustified'
  <2>1. s' = s
    BY <1>0, <1>2, QuietStep
  <2>2. CASE LockPark(t) \/ ParkShared(t)
    BY <1>0, <2>1, <2>2 DEF LockPark, ParkShared, Park, SeenUseful, Threads
  <2>3. CASE WakeAll(t)
    BY <1>0, <2>1, <2>3 DEF WakeAll, Threads
  <2>4. CASE Spurious(t)
    BY <1>0, <2>1, <2>4 DEF Spurious, Threads
  <2>5. CASE LockGiveUp(t) \/ LoadShared(t) \/ TryLoadShared(t)
    BY <1>0, <2>1, <2>5 DEF LockGiveUp, LoadShared, TryLoadShared, Threads
  <2>6. CASE LockSharedCall(t) \/ Gate(t) \/ TryLockShared(t) \/ TakeSharedFails(t)
    BY <1>0, <2>1, <2>6 DEF LockSharedCall, Gate, TryLockShared, TakeSharedFails, Threads
  <2>7. CASE (TakeShared(t) \/ TryTakeShared(t)) /\ s # seen[t]
    BY <1>0, <2>1, <2>7 DEF TakeShared, TryTakeShared, Threads
  <2> QED
    BY <1>2, <2>2, <2>3, <2>4, <2>5, <2>6, <2>7 DEF Quiet
<1>3. ASSUME NEW t \in Writers, LockEnter(t) \/ LockDone(t) PROVE SleepersJustified'
  BY <1>0, <1>3 DEF LockEnter, LockDone, Threads
<1>4. ASSUME NEW t \in Writers, LockTake(t) \/ TryLock(t) PROVE SleepersJustified'
  BY <1>4 DEF LockTake, TryLock
<1>5. ASSUME NEW t \in Writers, Unlock(t) PROVE SleepersJustified'
  BY <1>0, <1>5 DEF Unlock, Threads
<1>6. ASSUME NEW t \in Readers, EnterShared(t) PROVE SleepersJustified'
  <2>1. s' = s + 1 /\ s < Wr
    BY <1>6, ArriveShared
  <2> QED
    BY <1>0, <1>6, <2>1 DEF EnterShared, TakeShared, TryTakeShared, Threads
<1>7. ASSUME NEW t \in Readers, UnlockShared(t) PROVE SleepersJustified'
  <2>1. /\ s' = s - 1 /\ s \in 1 .. (Wr - 1)
        /\ pc' = [pc EXCEPT ![t] = IF s = 1 THEN "wake" ELSE "idle"]
        /\ pc[t] = "reading"
    BY <1>7, LeaveShared DEF UnlockShared
  <2> QED
    BY <1>0, <2>1 DEF Threads
<1> QED
  BY <1>1, <1>2, <1>3, <1>4, <1>5, <1>6, <1>7, Kinds

--------------------------------------------------------------------------------
(* The theorems. *)

\* Initially nobody is inside, announced or asleep, and the words are zero.
LEMMA InitIInv == Init => IInv
<1> SUFFICES ASSUME Init PROVE IInv
  OBVIOUS
<1>1. ReadersIn = {} /\ WritersIn = {} /\ Announced = {}
  BY DEF Init, ReadersIn, WritersIn, Announced, Threads
<1>2. Cardinality(Writers) \in Nat /\ Cardinality({}) = 0
  BY FS_CardinalityType, FS_EmptySet, WritersFinite
<1>3. TypeOK
  BY <1>2, WrAssumption, StraysAssumption DEF Init, TypeOK, Words, PCs
<1>4. SeenUseful /\ SleepersJustified
  BY DEF Init, SeenUseful, SleepersJustified, Threads
<1> QED
  BY <1>1, <1>2, <1>3, <1>4 DEF Init, IInv, WordTruthful

\* The invariant holds throughout.
LEMMA Invariance == Spec => []IInv
<1>1. IInv /\ [Next]_vars => IInv'
  BY PlaceStep, WordStep, AnnouncedStep, SeenStep, TruthStep, SleepersStep DEF IInv, TypeOK
<1> QED
  BY <1>1, InitIInv, PTL DEF Spec

\* Types: above all, __ww never runs below zero or past the number of writers,
\* although operator() adds and takes off without looking.
THEOREM Typing == Spec => []TypeOK
<1>1. IInv => TypeOK
  BY DEF IInv
<1> QED
  BY <1>1, Invariance, PTL

\* A writer is alone inside, and __s is the writer bit for it or the exact
\* number of readers: no reader is lost in the exchanges of operator(),
\* lock_shared() and try_lock_shared(), the stores of unlock() or the
\* decrements of unlock_shared().
THEOREM Truth == Spec => []WordTruthful
<1>1. IInv => WordTruthful
  BY DEF IInv
<1> QED
  BY <1>1, Invariance, PTL

\* No thread sleeps on __s in a state in which nothing will wake it.
THEOREM Justification == Spec => []SleepersJustified
<1>1. IInv => SleepersJustified
  BY DEF IInv
<1> QED
  BY <1>1, Invariance, PTL

\* Every step enters, leaves or is invisible to the abstract lock.
LEMMA StepSimulation == IInv /\ [Next]_vars => [Abstract!Next]_<<ReadersIn, WritersIn>>
<1> SUFFICES ASSUME IInv, [Next]_vars
             PROVE  Abstract!Next \/ UNCHANGED <<ReadersIn, WritersIn>>
  OBVIOUS
<1>0. TypeOK /\ WordTruthful
  BY DEF IInv
<1>1. CASE UNCHANGED vars
  BY <1>1 DEF vars, ReadersIn, WritersIn
<1>2. ASSUME NEW t \in Threads, Quiet(t) PROVE UNCHANGED <<ReadersIn, WritersIn>>
  BY <1>0, <1>2, QuietStep
<1>3. ASSUME NEW t \in Writers, LockEnter(t) \/ LockDone(t)
      PROVE  UNCHANGED <<ReadersIn, WritersIn>>
  BY <1>0, <1>3, LoudStep
<1>4. ASSUME NEW t \in Writers, LockTake(t) \/ TryLock(t) PROVE Abstract!Enter(t)
  <2>1. s = 0
    BY <1>4 DEF LockTake, TryLock
  <2> QED
    BY <1>0, <1>4, <2>1, LoudStep, WordReads DEF Abstract!Enter
<1>5. ASSUME NEW t \in Writers, Unlock(t) PROVE Abstract!Leave(t)
  BY <1>0, <1>5, LoudStep, WordReads DEF Abstract!Leave
<1>6. ASSUME NEW t \in Readers, EnterShared(t) PROVE Abstract!EnterShared(t)
  BY <1>0, <1>6, LoudStep, ArriveShared DEF Abstract!EnterShared
<1>7. ASSUME NEW t \in Readers, UnlockShared(t) PROVE Abstract!LeaveShared(t)
  BY <1>0, <1>7, LoudStep DEF Abstract!LeaveShared
<1> QED
  BY <1>1, <1>2, <1>3, <1>4, <1>5, <1>6, <1>7, Kinds DEF Abstract!Next

\* The mutex implements the abstract reader/writer lock for any finite sets of
\* readers and writers.
THEOREM Implementation == Spec => ImplementsRWLock
<1>1. Init => Abstract!Init
  BY DEF Init, ReadersIn, WritersIn, Abstract!Init, Threads
<1> QED
  BY <1>1, Invariance, StepSimulation, PTL DEF Spec, ImplementsRWLock, Abstract!Spec
================================================================================
