---------------------------- MODULE Semaphore_proofs ---------------------------
(***************************************************************************)
(* sync/semaphore.hpp: no permit is lost and none is taken twice, and no    *)
(* token is left next to a sleeper, for any number of threads, permits and  *)
(* calls.                                                                   *)
(***************************************************************************)
EXTENDS Semaphore, TLAPS, FiniteSetTheorems

\* What the constants have to be.
Sizes ==
  /\ IsFiniteSet(Threads)
  /\ Permits \in Nat /\ Plenty \in Nat /\ AllTokens \in Nat

--------------------------------------------------------------------------------
(* The inductive invariant. *)

Shapes ==
  /\ counter \in Int /\ wakeups \in Nat /\ flags \in Nat /\ granted \in Nat
  /\ pc \in [Threads -> PCs]

\* The threads at a place of the code, and how many they are.
At(f, l) == {t \in Threads : f[t] = l}
Number(f, l) == Cardinality(At(f, l))

\* BooksBalance, by the places of the code.
Books ==
  ~aborted =>
    /\ counter = Permits + flags - granted - (Number(pc, "loop") + Number(pc, "asleep"))
    /\ Number(pc, "loop") + Number(pc, "asleep") =
         wakeups + Number(pc, "token") + (IF counter < 0 THEN -counter ELSE 0)

\* NoTokenOverslept, likewise.
TokensWatched ==
  Number(pc, "asleep") # 0 =>
    wakeups <= Number(pc, "loop") + Number(pc, "wake") \/ Number(pc, "abort2") # 0

\* Who is in the middle of abort() has marked it.
AbortMarked == \A t \in Threads : pc[t] \in {"abort1", "abort2"} => aborted

IInv == Shapes /\ Books /\ TokensWatched /\ AbortMarked

--------------------------------------------------------------------------------
(* Counting threads. *)

\* The threads at a place can be counted.
LEMMA Counted ==
  ASSUME IsFiniteSet(Threads), NEW f, NEW l
  PROVE  /\ IsFiniteSet(At(f, l))
         /\ Number(f, l) \in Nat
         /\ At(f, l) = {} <=> Number(f, l) = 0
<1>1. IsFiniteSet(At(f, l))
  BY FS_Subset DEF At
<1> QED
  BY <1>1, FS_CardinalityType, FS_EmptySet DEF Number

\* How the number at l changes when a thread goes from k to m.
Change(k, m, l) == IF l = m THEN 1 ELSE IF l = k THEN -1 ELSE 0

\* One thread's step changes two numbers by one.
LEMMA Moves ==
  ASSUME IsFiniteSet(Threads), NEW f \in [Threads -> PCs], NEW t \in Threads,
         NEW m \in PCs, f[t] # m, NEW l \in PCs
  PROVE  /\ Number([f EXCEPT ![t] = m], l) = Number(f, l) + Change(f[t], m, l)
         /\ l = f[t] => Number(f, l) # 0
<1> DEFINE g == [f EXCEPT ![t] = m]
<1>1. l = m => At(g, l) = At(f, l) \cup {t} /\ t \notin At(f, l)
  BY DEF At
<1>2. l = f[t] => At(g, l) = At(f, l) \ {t} /\ t \in At(f, l)
  BY DEF At
<1>3. l # f[t] /\ l # m => At(g, l) = At(f, l)
  BY DEF At
<1>4. IsFiniteSet(At(f, l)) /\ Number(f, l) \in Nat /\ (At(f, l) = {} <=> Number(f, l) = 0)
  BY Counted
<1>5. t \notin At(f, l) => Cardinality(At(f, l) \cup {t}) = Cardinality(At(f, l)) + 1
  BY <1>4, FS_AddElement
<1>6. t \in At(f, l) => Cardinality(At(f, l) \ {t}) = Cardinality(At(f, l)) - 1
  BY <1>4, FS_RemoveElement
<1> HIDE DEF g
<1>7. Number(g, l) = Number(f, l) + Change(f[t], m, l)
  <2>1. CASE l = m
    BY <1>1, <1>4, <1>5, <2>1 DEF Number, Change
  <2>2. CASE l = f[t]
    BY <1>2, <1>4, <1>6, <2>2 DEF Number, Change
  <2>3. CASE l # f[t] /\ l # m
    BY <1>3, <1>4, <2>3 DEF Number, Change
  <2> QED
    BY <2>1, <2>2, <2>3
<1>8. l = f[t] => Number(f, l) # 0
  BY <1>2, <1>4
<1> QED
  BY <1>7, <1>8 DEF g

\* What a step from k to m does to the places the invariant is about.
Shifted(k, m) ==
  /\ Number(pc', "loop") = Number(pc, "loop") + Change(k, m, "loop")
  /\ Number(pc', "asleep") = Number(pc, "asleep") + Change(k, m, "asleep")
  /\ Number(pc', "token") = Number(pc, "token") + Change(k, m, "token")
  /\ Number(pc', "wake") = Number(pc, "wake") + Change(k, m, "wake")
  /\ Number(pc', "abort2") = Number(pc, "abort2") + Change(k, m, "abort2")
  /\ Number(pc, k) # 0

\* A step of a thread from k to m shifts the numbers that way.
LEMMA Tally ==
  ASSUME IsFiniteSet(Threads), pc \in [Threads -> PCs], NEW t \in Threads,
         NEW k \in PCs, NEW m \in PCs, k # m, pc[t] = k, pc' = [pc EXCEPT ![t] = m]
  PROVE  Shifted(k, m)
<1>1. "loop" \in PCs /\ "asleep" \in PCs /\ "token" \in PCs /\ "wake" \in PCs /\ "abort2" \in PCs
  BY DEF PCs
<1>2. \A l \in PCs : /\ Number([pc EXCEPT ![t] = m], l) = Number(pc, l) + Change(pc[t], m, l)
                     /\ l = pc[t] => Number(pc, l) # 0
  BY Moves
<1>3. \A l \in PCs : Number(pc', l) = Number(pc, l) + Change(k, m, l)
  BY <1>2
<1>4. Number(pc, k) # 0
  BY <1>2
<1> QED
  BY <1>1, <1>3, <1>4 DEF Shifted

\* The numbers the invariant speaks of are natural.
LEMMA Numbers ==
  ASSUME IsFiniteSet(Threads), NEW f
  PROVE  /\ Number(f, "loop") \in Nat /\ Number(f, "asleep") \in Nat
         /\ Number(f, "token") \in Nat /\ Number(f, "wake") \in Nat
         /\ Number(f, "abort2") \in Nat
  BY Counted

\* The waiters are those that look and those that sleep.
LEMMA WaitersCounted ==
  ASSUME IsFiniteSet(Threads)
  PROVE  Cardinality(Waiting) = Number(pc, "loop") + Number(pc, "asleep")
<1> DEFINE A == At(pc, "loop")
           B == At(pc, "asleep")
<1>1. IsFiniteSet(A) /\ IsFiniteSet(B)
  BY Counted
<1>2. A \cap B = {}
  BY DEF At
<1>3. Waiting = A \cup B
  BY DEF Waiting, In, At
<1> HIDE DEF A, B
<1>4. Cardinality(A) \in Nat /\ Cardinality(B) \in Nat
  BY <1>1, FS_CardinalityType
<1>5. Cardinality(A \cap B) = 0
  BY <1>2, FS_EmptySet
<1>6. Cardinality(A \cup B) = Cardinality(A) + Cardinality(B) - Cardinality(A \cap B)
  BY <1>1, FS_Union
<1> QED
  BY <1>3, <1>4, <1>5, <1>6 DEF Number, A, B

--------------------------------------------------------------------------------
(* The steps. *)

\* A waiter that takes a token: the debt to it is paid.
LEMMA TakeTokenStep ==
  ASSUME Sizes, IInv, NEW t \in Threads, TakeToken(t)
  PROVE  IInv'
<1>1. /\ pc[t] = "loop" /\ pc' = [pc EXCEPT ![t] = "idle"]
      /\ wakeups > 0 /\ wakeups' = wakeups - 1 /\ granted' = granted + 1
      /\ UNCHANGED <<counter, flags, aborted>>
  BY DEF TakeToken, Goto
<1>2. IsFiniteSet(Threads) /\ Permits \in Nat /\ Shapes
  BY DEF Sizes, IInv
<1>3. Shifted("loop", "idle")
  BY <1>1, <1>2, Tally DEF Shapes, PCs
<1>4. Shapes' /\ AbortMarked'
  BY <1>1, <1>2 DEF Sizes, IInv, Shapes, PCs, AbortMarked
<1>5. Books'
  BY <1>1, <1>2, <1>3, Numbers DEF IInv, Shapes, Books, Shifted, Change
<1>6. TokensWatched'
  BY <1>1, <1>2, <1>3, Numbers DEF IInv, Shapes, TokensWatched, Shifted, Change
<1> QED
  BY <1>4, <1>5, <1>6 DEF IInv

\* The kernel lets a thread sleep only while there is no token.
LEMMA SleepStep ==
  ASSUME Sizes, IInv, NEW t \in Threads, Sleep(t)
  PROVE  IInv'
<1>1. /\ pc[t] = "loop" /\ pc' = [pc EXCEPT ![t] = "asleep"]
      /\ wakeups = 0 /\ UNCHANGED <<counter, wakeups, flags, granted, aborted>>
  BY DEF Sleep, Goto
<1>2. IsFiniteSet(Threads) /\ Permits \in Nat /\ Shapes
  BY DEF Sizes, IInv
<1>3. Shifted("loop", "asleep")
  BY <1>1, <1>2, Tally DEF Shapes, PCs
<1>4. Shapes' /\ AbortMarked'
  BY <1>1, <1>2 DEF Sizes, IInv, Shapes, PCs, AbortMarked
<1>5. Books'
  BY <1>1, <1>2, <1>3, Numbers DEF IInv, Shapes, Books, Shifted, Change
<1>6. TokensWatched'
  BY <1>1, <1>2, <1>3, Numbers DEF IInv, Shapes, TokensWatched, Shifted, Change
<1> QED
  BY <1>4, <1>5, <1>6 DEF IInv

\* A futex wait may return for no reason.
LEMMA SpuriousStep ==
  ASSUME Sizes, IInv, NEW t \in Threads, Spurious(t)
  PROVE  IInv'
<1>1. /\ pc[t] = "asleep" /\ pc' = [pc EXCEPT ![t] = "loop"]
      /\ UNCHANGED <<counter, wakeups, flags, granted, aborted>>
  BY DEF Spurious, Goto
<1>2. IsFiniteSet(Threads) /\ Permits \in Nat /\ Shapes
  BY DEF Sizes, IInv
<1>3. Shifted("asleep", "loop")
  BY <1>1, <1>2, Tally DEF Shapes, PCs
<1>4. Shapes' /\ AbortMarked'
  BY <1>1, <1>2 DEF Sizes, IInv, Shapes, PCs, AbortMarked
<1>5. Books'
  BY <1>1, <1>2, <1>3, Numbers DEF IInv, Shapes, Books, Shifted, Change
<1>6. TokensWatched'
  BY <1>1, <1>2, <1>3, Numbers DEF IInv, Shapes, TokensWatched, Shifted, Change
<1> QED
  BY <1>4, <1>5, <1>6 DEF IInv

\* flag() hands the permit over; its wake is still to come.
LEMMA HandTokenStep ==
  ASSUME Sizes, IInv, NEW t \in Threads, HandToken(t)
  PROVE  IInv'
<1>1. /\ pc[t] = "token" /\ pc' = [pc EXCEPT ![t] = "wake"]
      /\ wakeups' = wakeups + 1
      /\ UNCHANGED <<counter, flags, granted, aborted>>
  BY DEF HandToken, Goto
<1>2. IsFiniteSet(Threads) /\ Permits \in Nat /\ Shapes
  BY DEF Sizes, IInv
<1>3. Shifted("token", "wake")
  BY <1>1, <1>2, Tally DEF Shapes, PCs
<1>4. Shapes' /\ AbortMarked'
  BY <1>1, <1>2 DEF Sizes, IInv, Shapes, PCs, AbortMarked
<1>5. Books'
  BY <1>1, <1>2, <1>3, Numbers DEF IInv, Shapes, Books, Shifted, Change
<1>6. TokensWatched'
  BY <1>1, <1>2, <1>3, Numbers DEF IInv, Shapes, TokensWatched, Shifted, Change
<1> QED
  BY <1>4, <1>5, <1>6 DEF IInv

\* abort() begins: from here on the books are closed.
LEMMA AbortStep ==
  ASSUME Sizes, IInv, NEW t \in Threads, Abort(t)
  PROVE  IInv'
<1>1. /\ pc[t] = "idle" /\ pc' = [pc EXCEPT ![t] = "abort1"]
      /\ aborted' = TRUE /\ counter' = Plenty
      /\ UNCHANGED <<wakeups, flags, granted>>
  BY DEF Abort, Goto
<1>2. IsFiniteSet(Threads) /\ Permits \in Nat /\ Shapes
  BY DEF Sizes, IInv
<1>3. Shifted("idle", "abort1")
  BY <1>1, <1>2, Tally DEF Shapes, PCs
<1>4. Shapes' /\ AbortMarked'
  BY <1>1, <1>2 DEF Sizes, IInv, Shapes, PCs, AbortMarked
<1>5. Books'
  BY <1>1, <1>2, <1>3, Numbers DEF IInv, Shapes, Books, Shifted, Change
<1>6. TokensWatched'
  BY <1>1, <1>2, <1>3, Numbers DEF IInv, Shapes, TokensWatched, Shifted, Change
<1> QED
  BY <1>4, <1>5, <1>6 DEF IInv

\* abort() gives tokens to all; its wake is still to come.
LEMMA AbortTokensStep ==
  ASSUME Sizes, IInv, NEW t \in Threads, AbortTokens(t)
  PROVE  IInv'
<1>1. /\ pc[t] = "abort1" /\ pc' = [pc EXCEPT ![t] = "abort2"]
      /\ wakeups' = AllTokens /\ aborted
      /\ UNCHANGED <<counter, flags, granted, aborted>>
  BY DEF AbortTokens, Goto, IInv, AbortMarked
<1>2. IsFiniteSet(Threads) /\ Permits \in Nat /\ Shapes
  BY DEF Sizes, IInv
<1>3. Shifted("abort1", "abort2")
  BY <1>1, <1>2, Tally DEF Shapes, PCs
<1>4. Shapes' /\ AbortMarked'
  BY <1>1, <1>2 DEF Sizes, IInv, Shapes, PCs, AbortMarked
<1>5. Books'
  BY <1>1, <1>2, <1>3, Numbers DEF IInv, Shapes, Books, Shifted, Change
<1>6. TokensWatched'
  BY <1>1, <1>2, <1>3, Numbers DEF IInv, Shapes, TokensWatched, Shifted, Change
<1> QED
  BY <1>4, <1>5, <1>6 DEF IInv

\* wait() that finds no permit.
LEMMA WaitInDebtStep ==
  ASSUME Sizes, IInv, NEW t \in Threads, Wait(t), ~(counter' >= 0)
  PROVE  IInv'
<1>1. /\ pc[t] = "idle" /\ pc' = [pc EXCEPT ![t] = "loop"]
      /\ counter' = counter - 1 /\ ~(counter' >= 0)
      /\ UNCHANGED <<granted, wakeups, flags, aborted>>
  BY DEF Wait, Goto
<1>2. IsFiniteSet(Threads) /\ Permits \in Nat /\ Shapes
  BY DEF Sizes, IInv
<1>3. Shifted("idle", "loop")
  BY <1>1, <1>2, Tally DEF Shapes, PCs
<1>4. Shapes' /\ AbortMarked'
  BY <1>1, <1>2 DEF Sizes, IInv, Shapes, PCs, AbortMarked
<1>5. Books'
  BY <1>1, <1>2, <1>3, Numbers DEF IInv, Shapes, Books, Shifted, Change
<1>6. TokensWatched'
  BY <1>1, <1>2, <1>3, Numbers DEF IInv, Shapes, TokensWatched, Shifted, Change
<1> QED
  BY <1>4, <1>5, <1>6 DEF IInv

\* flag() with a waiter to hand the permit to.
LEMMA FlagInDebtStep ==
  ASSUME Sizes, IInv, NEW t \in Threads, Flag(t), counter' <= 0
  PROVE  IInv'
<1>1. /\ pc[t] = "idle" /\ pc' = [pc EXCEPT ![t] = "token"]
      /\ counter' = counter + 1 /\ counter' <= 0 /\ flags' = flags + 1
      /\ UNCHANGED <<wakeups, granted, aborted>>
  BY DEF Flag, Goto
<1>2. IsFiniteSet(Threads) /\ Permits \in Nat /\ Shapes
  BY DEF Sizes, IInv
<1>3. Shifted("idle", "token")
  BY <1>1, <1>2, Tally DEF Shapes, PCs
<1>4. Shapes' /\ AbortMarked'
  BY <1>1, <1>2 DEF Sizes, IInv, Shapes, PCs, AbortMarked
<1>5. Books'
  BY <1>1, <1>2, <1>3, Numbers DEF IInv, Shapes, Books, Shifted, Change
<1>6. TokensWatched'
  BY <1>1, <1>2, <1>3, Numbers DEF IInv, Shapes, TokensWatched, Shifted, Change
<1> QED
  BY <1>4, <1>5, <1>6 DEF IInv

\* The calls that are over in one step: a permit is taken from counter or put there.
LEMMA PlainStep ==
  ASSUME Sizes, IInv, NEW t \in Threads,
         \/ Wait(t) /\ counter' >= 0
         \/ TryWait(t)
         \/ Flag(t) /\ ~(counter' <= 0)
  PROVE  IInv'
<1>1. IsFiniteSet(Threads) /\ Permits \in Nat /\ Shapes
  BY DEF Sizes, IInv
<1>2. pc' = pc /\ UNCHANGED <<wakeups, aborted>>
  BY <1>1 DEF Wait, TryWait, Flag, Goto, Shapes
<1>3. \/ counter' = counter - 1 /\ counter' >= 0 /\ granted' = granted + 1 /\ flags' = flags
      \/ counter' = counter + 1 /\ counter' > 0 /\ granted' = granted /\ flags' = flags + 1
  <2>1. CASE Wait(t) /\ counter' >= 0
    BY <2>1 DEF Wait
  <2>2. CASE TryWait(t)
    BY <1>1, <2>2 DEF TryWait, Shapes
  <2>3. CASE Flag(t) /\ ~(counter' <= 0)
    BY <1>1, <2>3 DEF Flag, Shapes
  <2> QED
    BY <2>1, <2>2, <2>3
<1>4. Shapes' /\ AbortMarked' /\ TokensWatched'
  BY <1>1, <1>2, <1>3 DEF IInv, Shapes, AbortMarked, TokensWatched
<1>5. Books'
  BY <1>1, <1>2, <1>3, Numbers DEF IInv, Shapes, Books
<1> QED
  BY <1>4, <1>5 DEF IInv

\* flag() wakes one sleeper, if there is one, for the token it has handed over.
LEMMA WakeOneStep ==
  ASSUME Sizes, IInv, NEW t \in Threads, WakeOne(t)
  PROVE  IInv'
<1>1. IsFiniteSet(Threads) /\ Permits \in Nat /\ Shapes
  BY DEF Sizes, IInv
<1>2. pc[t] = "wake" /\ UNCHANGED <<counter, wakeups, flags, granted, aborted>>
  BY DEF WakeOne
<1>3. CASE In("asleep") = {}
  <2>1. pc' = [pc EXCEPT ![t] = "idle"]
    BY <1>3 DEF WakeOne, Goto
  <2>2. Shifted("wake", "idle")
    BY <1>1, <1>2, <2>1, Tally DEF Shapes, PCs
  <2>3. Number(pc, "asleep") = 0
    BY <1>1, <1>3, Counted DEF In, At
  <2>4. Shapes' /\ AbortMarked'
    BY <1>1, <1>2, <2>1 DEF IInv, Shapes, PCs, AbortMarked
  <2>5. Books'
    BY <1>1, <1>2, <2>2, Numbers DEF IInv, Shapes, Books, Shifted, Change
  <2>6. TokensWatched'
    BY <2>2, <2>3 DEF TokensWatched, Shifted, Change
  <2> QED
    BY <2>4, <2>5, <2>6 DEF IInv
<1>4. ASSUME NEW u \in In("asleep"), pc' = [pc EXCEPT ![u] = "loop", ![t] = "idle"]
      PROVE  IInv'
  <2> DEFINE f == [pc EXCEPT ![u] = "loop"]
  <2>1. u \in Threads /\ pc[u] = "asleep" /\ u # t
    BY <1>2 DEF In
  <2>2. f \in [Threads -> PCs] /\ f[t] = "wake" /\ pc' = [f EXCEPT ![t] = "idle"]
    BY <1>1, <1>2, <1>4, <2>1 DEF Shapes, PCs
  <2>3. "loop" \in PCs /\ "idle" \in PCs /\ pc[u] # "loop" /\ pc[t] # "idle" /\ f[t] # "idle"
    BY <1>2, <2>1, <2>2 DEF PCs
  <2>4. \A l \in PCs : Number(f, l) = Number(pc, l) + Change("asleep", "loop", l)
    <3>1. \A l \in PCs : Number(f, l) = Number(pc, l) + Change(pc[u], "loop", l)
      BY <1>1, <2>1, <2>3, Moves DEF Shapes
    <3> QED
      BY <2>1, <3>1
  <2> HIDE DEF f
  <2>5. \A l \in PCs : Number(pc', l) = Number(f, l) + Change("wake", "idle", l)
    <3>1. \A l \in PCs : Number([f EXCEPT ![t] = "idle"], l) = Number(f, l) + Change(f[t], "idle", l)
      BY <1>1, <2>2, <2>3, Moves
    <3> QED
      BY <2>2, <3>1
  <2>6. "asleep" \in PCs /\ "token" \in PCs /\ "wake" \in PCs /\ "abort2" \in PCs
    BY DEF PCs
  <2>7. /\ Number(pc', "loop") = Number(pc, "loop") + 1
        /\ Number(pc', "asleep") = Number(pc, "asleep") - 1
        /\ Number(pc', "token") = Number(pc, "token")
        /\ Number(pc', "wake") = Number(pc, "wake") - 1
        /\ Number(pc', "abort2") = Number(pc, "abort2")
    <3>1. /\ Number(f, "loop") = Number(pc, "loop") + 1
          /\ Number(f, "asleep") = Number(pc, "asleep") - 1
          /\ Number(f, "token") = Number(pc, "token")
          /\ Number(f, "wake") = Number(pc, "wake")
          /\ Number(f, "abort2") = Number(pc, "abort2")
      BY <1>1, <2>3, <2>4, <2>6, Numbers DEF Change
    <3>2. /\ Number(pc', "loop") = Number(f, "loop")
          /\ Number(pc', "asleep") = Number(f, "asleep")
          /\ Number(pc', "token") = Number(f, "token")
          /\ Number(pc', "wake") = Number(f, "wake") - 1
          /\ Number(pc', "abort2") = Number(f, "abort2")
      BY <1>1, <2>3, <2>5, <2>6, Numbers DEF Change
    <3> QED
      BY <3>1, <3>2
  <2>8. Number(pc, "asleep") # 0
    BY <1>1, <2>1, Counted DEF At
  <2>9. Shapes'
    BY <1>1, <1>2, <2>2, <2>3 DEF Shapes
  <2>10. AbortMarked'
    BY <1>1, <1>2, <1>4, <2>1 DEF IInv, Shapes, AbortMarked
  <2>11. Books'
    BY <1>1, <1>2, <2>7, Numbers DEF IInv, Shapes, Books
  <2>12. TokensWatched'
    BY <1>1, <1>2, <2>7, <2>8, Numbers DEF IInv, Shapes, TokensWatched
  <2> QED
    BY <2>9, <2>10, <2>11, <2>12 DEF IInv
<1> QED
  BY <1>3, <1>4 DEF WakeOne

\* abort() wakes everybody.
LEMMA AbortWakeStep ==
  ASSUME Sizes, IInv, NEW t \in Threads, AbortWake(t)
  PROVE  IInv'
<1>1. aborted /\ aborted' = aborted
  BY DEF AbortWake, IInv, AbortMarked
<1>2. At(pc', "asleep") = {}
  BY DEF AbortWake, At
<1>3. Number(pc', "asleep") = 0
  BY <1>2, Counted DEF Sizes
<1>4. Shapes'
  BY DEF AbortWake, IInv, Shapes, PCs
<1> QED
  BY <1>1, <1>3, <1>4 DEF IInv, Books, TokensWatched, AbortMarked

\* reset() is for a semaphore nobody is using.
LEMMA ResetStep ==
  ASSUME Sizes, IInv, Reset
  PROVE  IInv'
<1>1. \A t \in Threads : pc[t] = "idle" /\ pc' = pc
  BY DEF Reset, In
<1>2. At(pc', "loop") = {} /\ At(pc', "asleep") = {} /\ At(pc', "token") = {}
  BY <1>1 DEF At
<1>3. Number(pc', "loop") = 0 /\ Number(pc', "asleep") = 0 /\ Number(pc', "token") = 0
  BY <1>2, Counted DEF Sizes
<1>4. Shapes' /\ AbortMarked'
  BY <1>1 DEF Sizes, Reset, IInv, Shapes, AbortMarked
<1>5. Books' /\ TokensWatched'
  BY <1>3 DEF Sizes, Reset, Books, TokensWatched
<1> QED
  BY <1>4, <1>5 DEF IInv

\* IInv holds at first and every step of a call keeps it.
LEMMA Inductive ==
  ASSUME Sizes
  PROVE  Spec => []IInv
<1>1. Init => IInv
  <2> SUFFICES ASSUME Init PROVE IInv
    OBVIOUS
  <2>1. At(pc, "loop") = {} /\ At(pc, "asleep") = {} /\ At(pc, "token") = {}
    BY DEF Init, At
  <2>2. Number(pc, "loop") = 0 /\ Number(pc, "asleep") = 0 /\ Number(pc, "token") = 0
    BY <2>1, Counted DEF Sizes
  <2>3. Shapes /\ AbortMarked
    BY DEF Sizes, Init, Shapes, PCs, AbortMarked
  <2>4. Books /\ TokensWatched
    BY <2>2 DEF Sizes, Init, Books, TokensWatched
  <2> QED
    BY <2>3, <2>4 DEF IInv
<1>2. IInv /\ [Next]_vars => IInv'
  <2> SUFFICES ASSUME IInv, [Next]_vars PROVE IInv'
    OBVIOUS
  <2>1. ASSUME NEW t \in Threads, Running(t) PROVE IInv'
    BY <2>1, TakeTokenStep, SleepStep, HandTokenStep, WakeOneStep, AbortTokensStep, AbortWakeStep DEF Running
  <2>2. ASSUME NEW t \in Threads, Calls(t) PROVE IInv'
    BY <2>2, WaitInDebtStep, FlagInDebtStep, PlainStep, AbortStep, SpuriousStep DEF Calls
  <2>3. CASE UNCHANGED vars
    BY <2>3 DEF vars, IInv, Shapes, Books, TokensWatched, AbortMarked
  <2> QED
    BY <2>1, <2>2, <2>3, ResetStep DEF Next
<1> QED
  BY <1>1, <1>2, PTL DEF Spec

\* wait(), try_wait() and flag() change counter and wakeups one after the other;
\* in between the two words still account for every permit.
THEOREM Balance ==
  ASSUME Sizes
  PROVE  Spec => []BooksBalance
<1>1. IInv => BooksBalance
  <2>1. Cardinality(Waiting) = Number(pc, "loop") + Number(pc, "asleep")
    BY WaitersCounted DEF Sizes
  <2>2. Cardinality(In("token")) = Number(pc, "token")
    BY DEF In, At, Number
  <2> QED
    BY <2>1, <2>2 DEF IInv, Books, BooksBalance
<1> QED
  BY <1>1, Inductive, PTL

\* Until abort() no more calls of wait() and try_wait() have returned with a permit
\* than the constructor and flag() have given.
NeverTooMany == ~aborted => granted <= Permits + flags

\* A permit is never taken twice: not by a waiter that takes the token of another,
\* and not by a try_wait() between the steps of a flag().
THEOREM Bounded ==
  ASSUME Sizes
  PROVE  Spec => []NeverTooMany
<1>1. IInv => NeverTooMany
  <2> SUFFICES ASSUME IInv, ~aborted PROVE granted <= Permits + flags
    BY DEF NeverTooMany
  <2>1. IsFiniteSet(Threads) /\ Permits \in Nat /\ Shapes
    BY DEF Sizes, IInv
  <2> QED
    BY <2>1, Numbers DEF IInv, Books, Shapes
<1> QED
  BY <1>1, Inductive, PTL

\* flag() adds the token before it wakes, and a thread sleeps only while the kernel
\* finds no token: no token lies next to a sleeper without a wake on its way or an
\* awake waiter to take it.
THEOREM NoneOverslept ==
  ASSUME Sizes
  PROVE  Spec => []NoTokenOverslept
<1>1. IInv => NoTokenOverslept
  <2> SUFFICES ASSUME IInv PROVE NoTokenOverslept
    OBVIOUS
  <2>1. \A l : In(l) = At(pc, l)
    BY DEF In, At
  <2>2. /\ In("asleep") # {} => Number(pc, "asleep") # 0
        /\ Number(pc, "abort2") # 0 => In("abort2") # {}
    BY <2>1, Counted DEF Sizes
  <2>3. Cardinality(In("loop")) = Number(pc, "loop") /\ Cardinality(In("wake")) = Number(pc, "wake")
    BY <2>1 DEF Number
  <2> QED
    BY <2>2, <2>3 DEF IInv, TokensWatched, NoTokenOverslept
<1> QED
  BY <1>1, Inductive, PTL
================================================================================
