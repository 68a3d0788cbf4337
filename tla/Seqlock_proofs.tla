----------------------------- MODULE Seqlock_proofs ----------------------------
(***************************************************************************)
(* mutex/locks/seqlock.hpp: a copy that load() or try_load() returns is one *)
(* value, for any number of threads and stores, any size of the payload and *)
(* any width of the sequence, provided that a reader is never overtaken by  *)
(* as many stores as bring the sequence round (Overtakes).                  *)
(***************************************************************************)
EXTENDS Seqlock, TLAPS

--------------------------------------------------------------------------------
(* The sequence, counted without a bound and then wrapped. *)

\* A number is a multiple of the modulus and its remainder.
LEMMA Division ==
  ASSUME NEW a \in Nat, NEW m \in Nat \ {0}
  PROVE  /\ a % m \in 0 .. m - 1
         /\ \E q \in Nat : a = (q * m) + (a % m)
<1>1. a % m \in 0 .. m - 1
  OBVIOUS
<1>2. a \div m \in Nat /\ a = ((a \div m) * m) + (a % m)
  OBVIOUS
<1>3. QED
  BY <1>1, <1>2

\* The remainder of a number written that way.
LEMMA Remainder ==
  ASSUME NEW m \in Nat \ {0}, NEW q \in Nat, NEW r \in 0 .. m - 1
  PROVE  ((q * m) + r) % m = r
  OBVIOUS

\* Counting on from a sequence that has wrapped is counting and then wrapping.
LEMMA Successor ==
  ASSUME NEW a \in Nat, NEW m \in Nat \ {0}
  PROVE  ((a % m) + 1) % m = (a + 1) % m
<1>1. PICK q \in Nat : a = (q * m) + (a % m)
  BY Division
<1>2. a % m \in 0 .. m - 1
  BY Division
<1>3. CASE a % m < m - 1
  <2>1. (a % m) + 1 \in 0 .. m - 1
    BY <1>2, <1>3
  <2>2. ((q * m) + ((a % m) + 1)) % m = (a % m) + 1
    BY <2>1, Remainder
  <2>3. ((0 * m) + ((a % m) + 1)) % m = (a % m) + 1
    BY <2>1, Remainder
  <2>4. a + 1 = (q * m) + ((a % m) + 1)
    BY <1>1, <1>2
  <2>5. QED
    BY <2>2, <2>3, <2>4, <1>2
<1>4. CASE a % m = m - 1
  <2>1. (q + 1) * m = (q * m) + m
    OBVIOUS
  <2>2. a + 1 = ((q + 1) * m) + 0
    BY <1>1, <1>4, <2>1
  <2>3. (((q + 1) * m) + 0) % m = 0
    BY Remainder
  <2>4. ((1 * m) + 0) % m = 0
    BY Remainder
  <2>5. QED
    BY <2>2, <2>3, <2>4, <1>4
<1>5. QED
  BY <1>2, <1>3, <1>4

\* Wrapping at an even modulus keeps even and odd apart: the test of s0 & 1 in load().
LEMMA Parity ==
  ASSUME NEW h \in Nat \ {0}, NEW a \in Nat
  PROVE  /\ ((2 * a) % (2 * h)) % 2 = 0
         /\ ((2 * a + 1) % (2 * h)) % 2 = 1
<1>1. PICK q \in Nat : 2 * a = (q * (2 * h)) + ((2 * a) % (2 * h))
  BY Division, 2 * h \in Nat \ {0}, 2 * a \in Nat
<1>2. PICK p \in Nat : 2 * a + 1 = (p * (2 * h)) + ((2 * a + 1) % (2 * h))
  BY Division, 2 * h \in Nat \ {0}, 2 * a + 1 \in Nat
<1>3. q * (2 * h) = 2 * (q * h) /\ p * (2 * h) = 2 * (p * h) /\ q * h \in Nat /\ p * h \in Nat
  OBVIOUS
<1>4. (2 * a) % (2 * h) \in Nat /\ (2 * a + 1) % (2 * h) \in Nat
  BY Division, 2 * h \in Nat \ {0}, 2 * a \in Nat, 2 * a + 1 \in Nat
<1>5. (2 * a) % (2 * h) = 2 * (a - q * h) /\ (2 * a + 1) % (2 * h) = 2 * (a - p * h) + 1
  BY <1>1, <1>2, <1>3, <1>4
<1>6. QED
  BY <1>3, <1>5

\* Two even sequences that agree are of the same store if they are less than half
\* the values of the sequence stores apart.
LEMMA Distance ==
  ASSUME NEW h \in Nat \ {0}, NEW a \in Nat, NEW b \in Nat,
         b <= a, a - b < h, (2 * a) % (2 * h) = (2 * b) % (2 * h)
  PROVE  a = b
<1>1. PICK q \in Nat : 2 * a = (q * (2 * h)) + ((2 * a) % (2 * h))
  BY Division, 2 * h \in Nat \ {0}, 2 * a \in Nat
<1>2. PICK p \in Nat : 2 * b = (p * (2 * h)) + ((2 * b) % (2 * h))
  BY Division, 2 * h \in Nat \ {0}, 2 * b \in Nat
<1>3. q * (2 * h) = 2 * (q * h) /\ p * (2 * h) = 2 * (p * h) /\ q * h \in Nat /\ p * h \in Nat
  OBVIOUS
<1>4. (2 * a) % (2 * h) \in Nat
  BY Division, 2 * h \in Nat \ {0}, 2 * a \in Nat
<1>5. a - b = q * h - p * h
  BY <1>1, <1>2, <1>3, <1>4
<1>6. q * h - p * h = (q - p) * h
  OBVIOUS
<1>7. q - p >= 1 => (q - p) * h >= h
  OBVIOUS
<1>8. q - p <= -1 => (q - p) * h <= -h
  OBVIOUS
<1>9. QED
  BY <1>5, <1>6, <1>7, <1>8
--------------------------------------------------------------------------------
(* The inductive invariant. *)

\* The sequence is odd while a writer is at the words.
Storing == \E t \in Threads : pc[t] \in {"store", "even"}

SeqCounts ==
  /\ Storing => seq = (2 * stores + 1) % Modulus
  /\ ~Storing => seq = (2 * stores) % Modulus

\* What the words hold: the last complete store, up to where the writer has come.
DataKnown ==
  /\ ~Storing => \A c \in Cells : data[c] = stores
  /\ \A t \in Threads :
       /\ pc[t] = "store" => \A c \in Cells : c >= k[t] \/ data[c] = stores + 1
       /\ pc[t] = "even" => \A c \in Cells : data[c] = stores + 1

CursorKnown ==
  \A t \in Threads :
    /\ pc[t] = "store" => k[t] \in Cells
    /\ pc[t] \notin {"store", "copy"} => k[t] = 1

\* A reader in the middle of a copy.  As long as no store has begun since it
\* looked at the sequence, what it has copied is the value of that moment.
CopyKnown ==
  \A t \in Threads : pc[t] = "copy" =>
    /\ s0[t] = (2 * since[t]) % Modulus
    /\ since[t] <= stores
    /\ stores - since[t] < Half
    /\ since[t] = stores /\ ~Storing => \A c \in Cells : c >= k[t] \/ out[t][c] = since[t]

IInv == TypeOK /\ OneWriter /\ SeqCounts /\ DataKnown /\ CursorKnown /\ CopyKnown /\ Untorn

\* What is assumed of the constants.
Sizes == Words \in Nat \ {0} /\ Half \in Nat \ {0} /\ Nobody \notin Threads

\* IInv holds of the seqlock as constructed.
LEMMA Initially == ASSUME Sizes, Init PROVE IInv
<1>1. 0 % Modulus = 0 /\ Modulus \in Nat \ {0}
  <2>1. Modulus \in Nat \ {0}
    BY DEF Sizes, Modulus
  <2>2. ((0 * Modulus) + 0) % Modulus = 0
    BY <2>1, Remainder
  <2>3. QED
    BY <2>1, <2>2
<1>2. ~Storing
  BY DEF Init, Storing
<1>3. TypeOK
  BY <1>1 DEF Init, TypeOK, Sizes, Cells
<1>4. QED
  BY <1>1, <1>2, <1>3 DEF Init, IInv, OneWriter, SeqCounts, DataKnown, CursorKnown, CopyKnown, Untorn

\* Only one thread is between lock and unlock of the mutex.
LEMMA Alone ==
  ASSUME OneWriter, NEW t \in Threads, NEW u \in Threads,
         pc[t] \in {"odd", "store", "even", "unlock"},
         pc[u] \in {"odd", "store", "even", "unlock"}
  PROVE  t = u
  BY DEF OneWriter

\* A step of a thread that is not at the words before or after it.
LEMMA Elsewhere ==
  ASSUME TypeOK, NEW t \in Threads, NEW l, pc' = [pc EXCEPT ![t] = l],
         pc[t] \notin {"store", "even"}, l \notin {"store", "even"}
  PROVE  Storing' <=> Storing
  BY DEF TypeOK, Storing

\* Each step of a writer or reader keeps the invariant.
LEMMA Step == ASSUME Sizes, IInv, [Next]_vars PROVE IInv'
<1> USE DEF IInv, Sizes
<1>0. Modulus \in Nat \ {0} /\ Modulus = 2 * Half /\ seq \in Nat /\ stores \in Nat
  BY DEF Modulus, TypeOK
<1>m. \A n \in Nat : n % Modulus \in 0 .. Modulus - 1
  BY <1>0, Division
<1>1. ASSUME NEW t \in Threads, Lock(t) PROVE IInv'
  <2>1. Storing' <=> Storing
    BY <1>1, Elsewhere DEF Lock, Goto
  <2>2. \A u \in Threads : pc[u] \notin {"odd", "store", "even", "unlock"}
    BY <1>1 DEF Lock, OneWriter
  <2>3. TypeOK'
    BY <1>1 DEF Lock, Goto, TypeOK, readVars
  <2>4. OneWriter'
    BY <1>1, <2>2 DEF Lock, Goto, TypeOK, OneWriter
  <2>5. SeqCounts' /\ DataKnown' /\ CursorKnown'
    BY <1>1, <2>1 DEF Lock, Goto, TypeOK, readVars, SeqCounts, DataKnown, CursorKnown, Cells, Modulus
  <2>6. CopyKnown' /\ Untorn'
    BY <1>1, <2>1 DEF Lock, Goto, TypeOK, readVars, CopyKnown, Untorn, Cells, Modulus
  <2>7. QED
    BY <2>3, <2>4, <2>5, <2>6
<1>2. ASSUME NEW t \in Threads, MakeOdd(t) PROVE IInv'
  <2>1. Storing' /\ ~Storing
    <3>1. Storing'
      BY <1>2 DEF MakeOdd, Goto, TypeOK, Storing
    <3>2. ~Storing
      BY <1>2, Alone DEF MakeOdd, Storing
    <3>3. QED
      BY <3>1, <3>2
  <2>2. seq' = (2 * stores + 1) % Modulus
    <3>1. seq = (2 * stores) % Modulus /\ 2 * stores \in Nat
      BY <1>0, <2>1 DEF SeqCounts
    <3>2. QED
      BY <1>0, <1>2, <3>1, Successor DEF MakeOdd
  <2>3. TypeOK'
    <3>1. seq' \in 0 .. Modulus - 1
      BY <1>0, <1>m, <2>2
    <3>2. QED
      BY <1>2, <3>1 DEF MakeOdd, Goto, TypeOK, readVars, Modulus
  <2>4. OneWriter'
    BY <1>2 DEF MakeOdd, Goto, TypeOK, OneWriter
  <2>5. SeqCounts'
    BY <1>2, <2>1, <2>2 DEF MakeOdd, SeqCounts, Modulus
  <2>6. CursorKnown'
    <3>1. UNCHANGED k /\ \A u \in Threads : u # t => pc'[u] = pc[u]
      BY <1>2 DEF MakeOdd, Goto, TypeOK
    <3>2. pc'[t] = "store" /\ k[t] = 1
      BY <1>2 DEF MakeOdd, Goto, TypeOK, CursorKnown
    <3>3. 1 \in Cells
      BY DEF Cells
    <3>4. QED
      BY <3>1, <3>2, <3>3 DEF CursorKnown, Cells
  <2>7. DataKnown'
    <3>1. k[t] = 1
      BY <1>2 DEF MakeOdd, CursorKnown
    <3>2. \A u \in Threads : u # t => pc'[u] \notin {"store", "even"}
      BY <1>2, Alone DEF MakeOdd, Goto, TypeOK
    <3>3. pc'[t] = "store" /\ k'[t] = 1
      BY <1>2, <3>1 DEF MakeOdd, Goto, TypeOK
    <3>4. QED
      BY <2>1, <3>2, <3>3 DEF DataKnown, Cells
  <2>8. CopyKnown' /\ Untorn'
    BY <1>2, <2>1 DEF MakeOdd, Goto, TypeOK, readVars, CopyKnown, Untorn, Cells, Modulus
  <2>9. QED
    BY <2>3, <2>4, <2>5, <2>6, <2>7, <2>8
<1>3. ASSUME NEW t \in Threads, StoreWord(t) PROVE IInv'
  <2>1. Storing' /\ Storing
    BY <1>3 DEF StoreWord, Goto, TypeOK, Storing
  <2>2. k[t] \in Cells
    BY <1>3 DEF StoreWord, CursorKnown
  <2>3. /\ data' \in [Cells -> Nat]
        /\ UNCHANGED <<seq, w, stores, s0, out, since>>
    BY <1>3, <2>2 DEF StoreWord, TypeOK, readVars
  <2>4. /\ TypeOK' /\ CursorKnown'
    <3>1. CASE k[t] < Words
      <4>1. k' = [k EXCEPT ![t] = @ + 1] /\ pc' = pc /\ k[t] + 1 \in Cells
        BY <1>3, <2>2, <3>1 DEF StoreWord, Cells
      <4>2. TypeOK'
        <5>1. k[t] + 1 \in 1 .. Words + 1
          BY <4>1 DEF Cells
        <5>2. k' \in [Threads -> 1 .. Words + 1]
          BY <4>1, <5>1, k \in [Threads -> 1 .. Words + 1], ZenonT(20) DEF TypeOK
        <5>3. QED
          BY <2>3, <4>1, <5>2 DEF TypeOK, Modulus
      <4>3. CursorKnown'
        <5>1. k'[t] = k[t] + 1 /\ \A u \in Threads : u # t => k'[u] = k[u]
          BY <4>1 DEF TypeOK
        <5>2. pc[t] = "store"
          BY <1>3 DEF StoreWord
        <5>3. QED
          BY <4>1, <5>1, <5>2 DEF CursorKnown
      <4>4. QED
        BY <4>2, <4>3
    <3>2. CASE ~(k[t] < Words)
      <4>1. k' = [k EXCEPT ![t] = 1] /\ pc' = [pc EXCEPT ![t] = "even"]
        BY <1>3, <3>2 DEF StoreWord, Goto
      <4>2. TypeOK'
        <5>1. 1 \in 1 .. Words + 1
          OBVIOUS
        <5>2. k' \in [Threads -> 1 .. Words + 1]
          BY <4>1, <5>1, k \in [Threads -> 1 .. Words + 1], Zenon DEF TypeOK
        <5>3. QED
          BY <2>3, <4>1, <5>2 DEF TypeOK, Modulus
      <4>3. CursorKnown'
        BY <4>1 DEF TypeOK, CursorKnown, Cells
      <4>4. QED
        BY <4>2, <4>3
    <3>3. QED
      BY <3>1, <3>2
  <2>5. OneWriter' /\ SeqCounts'
    BY <1>3, <2>1 DEF StoreWord, Goto, TypeOK, OneWriter, SeqCounts, Modulus
  <2>6. DataKnown'
    <3>1. \A u \in Threads : u # t => pc'[u] \notin {"store", "even"}
      BY <1>3, Alone DEF StoreWord, Goto, TypeOK
    <3>2. \A c \in Cells : c > k[t] \/ data'[c] = stores' + 1
      BY <1>3, <2>2 DEF StoreWord, TypeOK, DataKnown, Cells
    <3>3. pc'[t] = "store" => k'[t] = k[t] + 1
      BY <1>3 DEF StoreWord, Goto, TypeOK
    <3>4. pc'[t] = "even" => k[t] = Words
      BY <1>3, <2>2 DEF StoreWord, Goto, TypeOK, Cells
    <3>5. QED
      BY <2>1, <2>2, <3>1, <3>2, <3>3, <3>4 DEF DataKnown, Cells
  <2>7. CopyKnown' /\ Untorn'
    BY <1>3, <2>1 DEF StoreWord, Goto, TypeOK, readVars, CopyKnown, Untorn, Cells, Modulus
  <2>8. QED
    BY <2>4, <2>5, <2>6, <2>7
<1>4. ASSUME NEW t \in Threads, MakeEven(t) PROVE IInv'
  <2>1. Storing /\ ~Storing'
    <3>1. \A u \in Threads : u # t => pc[u] \notin {"store", "even"}
      BY <1>4, Alone DEF MakeEven
    <3>2. QED
      BY <1>4, <3>1 DEF MakeEven, Goto, TypeOK, Storing
  <2>2. seq' = (2 * stores') % Modulus
    <3>1. seq = (2 * stores + 1) % Modulus /\ 2 * stores + 1 \in Nat /\ 2 * stores' = (2 * stores + 1) + 1
      BY <1>0, <1>4, <2>1 DEF SeqCounts, MakeEven
    <3>2. QED
      BY <1>0, <1>4, <3>1, Successor DEF MakeEven
  <2>3. TypeOK'
    <3>1. stores' \in Nat /\ 2 * stores' \in Nat
      BY <1>4, <1>0 DEF MakeEven
    <3>2. seq' \in 0 .. Modulus - 1
      BY <1>m, <2>2, <3>1
    <3>3. QED
      BY <1>4, <3>1, <3>2 DEF MakeEven, Goto, TypeOK, readVars, Modulus
  <2>4. OneWriter' /\ CursorKnown'
    BY <1>4 DEF MakeEven, Goto, TypeOK, OneWriter, CursorKnown, Cells
  <2>5. SeqCounts'
    BY <2>1, <2>2 DEF SeqCounts, Modulus
  <2>6. DataKnown'
    BY <1>4, <2>1 DEF MakeEven, TypeOK, DataKnown, Cells, Storing
  <2>7. CopyKnown'
    <3>1. ASSUME NEW u \in Threads, pc'[u] = "copy"
          PROVE  /\ pc[u] = "copy"
                 /\ s0'[u] = s0[u] /\ since'[u] = since[u]
                 /\ since[u] < stores' /\ stores' - since[u] < Half
      BY <1>4, <3>1 DEF MakeEven, Goto, TypeOK, readVars, CopyKnown, Overtakes
    <3>2. stores' \in Nat
      BY <1>4, <1>0 DEF MakeEven
    <3>3. QED
      BY <3>1, <3>2 DEF CopyKnown, TypeOK, Modulus
  <2>8. Untorn'
    BY <1>4 DEF MakeEven, Goto, TypeOK, readVars, Untorn, Cells
  <2>9. QED
    BY <2>3, <2>4, <2>5, <2>6, <2>7, <2>8
<1>5. ASSUME NEW t \in Threads, Unlock(t) PROVE IInv'
  <2>1. Storing' <=> Storing
    BY <1>5, Elsewhere DEF Unlock, Goto
  <2>2. TypeOK'
    BY <1>5 DEF Unlock, Goto, TypeOK, readVars
  <2>3. OneWriter'
    BY <1>5, Alone DEF Unlock, Goto, TypeOK, OneWriter
  <2>4. SeqCounts' /\ DataKnown' /\ CursorKnown'
    BY <1>5, <2>1 DEF Unlock, Goto, TypeOK, SeqCounts, DataKnown, CursorKnown, Cells, Modulus
  <2>5. CopyKnown' /\ Untorn'
    BY <1>5, <2>1 DEF Unlock, Goto, TypeOK, readVars, CopyKnown, Untorn, Cells, Modulus
  <2>6. QED
    BY <2>2, <2>3, <2>4, <2>5
<1>6. ASSUME NEW t \in Threads, Load(t) PROVE IInv'
  <2>1. Storing' <=> Storing
    BY <1>6, Elsewhere DEF Load, Goto
  <2>2. TypeOK' /\ OneWriter'
    BY <1>6 DEF Load, Goto, TypeOK, OneWriter, lockVars, readVars
  <2>3. SeqCounts' /\ DataKnown' /\ CursorKnown'
    BY <1>6, <2>1 DEF Load, Goto, TypeOK, lockVars, SeqCounts, DataKnown, CursorKnown, Cells, Modulus
  <2>4. CopyKnown' /\ Untorn'
    BY <1>6, <2>1 DEF Load, Goto, TypeOK, lockVars, readVars, CopyKnown, Untorn, Cells, Modulus
  <2>5. QED
    BY <2>2, <2>3, <2>4
<1>7. ASSUME NEW t \in Threads, LoadSeq(t) PROVE IInv'
  <2>1. Storing' <=> Storing
    BY <1>7, Elsewhere DEF LoadSeq, Goto
  <2>2. TypeOK' /\ OneWriter'
    BY <1>7 DEF LoadSeq, Goto, TypeOK, OneWriter, lockVars
  <2>3. SeqCounts' /\ DataKnown' /\ CursorKnown'
    BY <1>7, <2>1 DEF LoadSeq, Goto, TypeOK, lockVars, SeqCounts, DataKnown, CursorKnown, Cells, Modulus
  <2>4. ~Storing
    <3>1. ((2 * stores + 1) % Modulus) % 2 = 1
      BY <1>0, Parity
    <3>2. QED
      BY <1>7, <3>1 DEF LoadSeq, SeqCounts
  <2>5. /\ s0'[t] = (2 * since'[t]) % Modulus
        /\ since'[t] = stores /\ k'[t] = 1
    BY <1>7, <2>4 DEF LoadSeq, TypeOK, SeqCounts, CursorKnown
  <2>6. CopyKnown'
    <3>1. /\ UNCHANGED <<stores, k, out>>
          /\ \A u \in Threads : u # t => pc'[u] = pc[u] /\ s0'[u] = s0[u] /\ since'[u] = since[u]
      BY <1>7 DEF LoadSeq, Goto, TypeOK, lockVars
    <3>2. \A c \in Cells : c >= k'[t]
      BY <2>5 DEF Cells
    <3>3. since'[t] <= stores' /\ stores' - since'[t] < Half
      BY <1>0, <2>5, <3>1
    <3>4. QED
      BY <2>1, <2>5, <3>1, <3>2, <3>3 DEF CopyKnown, Cells, Modulus
  <2>7. Untorn'
    BY <1>7 DEF LoadSeq, Goto, TypeOK, Untorn, Cells
  <2>8. QED
    BY <2>2, <2>3, <2>6, <2>7
<1>8. ASSUME NEW t \in Threads, CopyWord(t) PROVE IInv'
  <2>1. Storing' <=> Storing
    BY <1>8 DEF CopyWord, Storing
  <2>2. k[t] \in Cells
    BY <1>8 DEF CopyWord, TypeOK, Cells
  <2>3. TypeOK' /\ OneWriter'
    <3>0. data[k[t]] \in Nat
      BY <2>2 DEF TypeOK
    <3>1. k[t] + 1 \in 1 .. Words + 1
      BY <2>2 DEF Cells
    <3>2. k' \in [Threads -> 1 .. Words + 1]
      BY <1>8, <3>1, k \in [Threads -> 1 .. Words + 1], Zenon DEF CopyWord, TypeOK
    <3>3. out' \in [Threads -> [Cells -> Nat]]
      BY <1>8, <2>2, <3>0 DEF CopyWord, TypeOK
    <3>4. QED
      BY <1>8, <3>2, <3>3 DEF CopyWord, TypeOK, OneWriter, lockVars, Modulus
  <2>4. SeqCounts' /\ DataKnown' /\ CursorKnown'
    BY <1>8, <2>1 DEF CopyWord, TypeOK, lockVars, SeqCounts, DataKnown, CursorKnown, Cells, Modulus
  <2>5. out'[t] = [out[t] EXCEPT ![k[t]] = data[k[t]]] /\ k'[t] = k[t] + 1
    BY <1>8 DEF CopyWord, TypeOK
  <2>6. since[t] = stores /\ ~Storing => \A c \in Cells : c >= k'[t] \/ out'[t][c] = since[t]
    <3>1. SUFFICES ASSUME since[t] = stores, ~Storing, NEW c \in Cells, ~(c >= k'[t])
                   PROVE  out'[t][c] = since[t]
      OBVIOUS
    <3>2. c = k[t] \/ ~(c >= k[t])
      BY <2>2, <2>5, <3>1 DEF Cells
    <3>3. out[t] \in [Cells -> Nat]
      BY DEF TypeOK
    <3>4. CASE c = k[t]
      BY <2>2, <2>5, <3>1, <3>3, <3>4 DEF DataKnown
    <3>5. CASE c # k[t]
      BY <1>8, <2>5, <3>1, <3>2, <3>3, <3>5 DEF CopyKnown, CopyWord
    <3>6. QED
      BY <3>4, <3>5
  <2>7. CopyKnown'
    BY <1>8, <2>1, <2>6 DEF CopyWord, TypeOK, lockVars, CopyKnown, Cells, Modulus
  <2>8. Untorn'
    BY <1>8 DEF CopyWord, TypeOK, Untorn, Cells
  <2>9. QED
    BY <2>3, <2>4, <2>7, <2>8
<1>9. ASSUME NEW t \in Threads, Check(t) PROVE IInv'
  <2>1. PICK l \in {"got", "load", "idle"} :
          /\ pc' = [pc EXCEPT ![t] = l]
          /\ l = "got" <=> seq = s0[t]
    BY <1>9 DEF Check, Goto
  <2>2. Storing' <=> Storing
    BY <1>9, <2>1, Elsewhere DEF Check
  <2>3. /\ k' = [k EXCEPT ![t] = 1]
        /\ s0' \in [Threads -> 0 .. Modulus - 1]
        /\ out' \in [Threads -> [Cells -> Nat]]
        /\ since' \in [Threads -> Nat]
    <3>1. 0 \in 0 .. Modulus - 1
      BY <1>0
    <3>2. CASE UNCHANGED readVars
      BY <1>9, <3>2 DEF Check, TypeOK, readVars
    <3>3. CASE Forget(t)
      BY <1>9, <3>1, <3>3 DEF Check, Forget, TypeOK
    <3>4. QED
      BY <1>9, <3>2, <3>3 DEF Check
  <2>4. k' \in [Threads -> 1 .. Words + 1]
    <3>1. 1 \in 1 .. Words + 1
      OBVIOUS
    <3>2. QED
      BY <2>3, <3>1, k \in [Threads -> 1 .. Words + 1], Zenon DEF TypeOK
  <2>5. TypeOK' /\ OneWriter'
    BY <1>9, <2>1, <2>3, <2>4 DEF Check, TypeOK, OneWriter, lockVars, Modulus
  <2>6. SeqCounts' /\ DataKnown' /\ CursorKnown'
    BY <1>9, <2>1, <2>2, <2>3 DEF Check, TypeOK, lockVars, SeqCounts, DataKnown, CursorKnown, Modulus
  <2>7. /\ UNCHANGED stores
        /\ \A u \in Threads : u # t =>
             /\ pc'[u] = pc[u] /\ k'[u] = k[u]
             /\ s0'[u] = s0[u] /\ since'[u] = since[u] /\ out'[u] = out[u]
    <3>1. UNCHANGED stores /\ \A u \in Threads : u # t => pc'[u] = pc[u] /\ k'[u] = k[u]
      BY <1>9, <2>1, <2>3 DEF Check, TypeOK, lockVars
    <3>2. CASE UNCHANGED readVars
      BY <3>1, <3>2 DEF readVars
    <3>3. CASE Forget(t)
      BY <3>1, <3>3 DEF Forget, TypeOK
    <3>4. QED
      BY <1>9, <3>2, <3>3 DEF Check
  <2>8. CopyKnown'
    <3>1. pc'[t] # "copy"
      BY <2>1 DEF TypeOK
    <3>2. QED
      BY <2>2, <2>7, <3>1 DEF CopyKnown, Cells, Modulus
  <2>9. Untorn'
    <3>1. ASSUME seq = s0[t] PROVE \A c \in Cells : out'[t][c] = since'[t]
      <4>1. UNCHANGED <<out, since>>
        BY <1>9, <3>1 DEF Check, readVars
      <4>2. /\ since[t] \in Nat /\ since[t] <= stores /\ stores - since[t] < Half
            /\ s0[t] = (2 * since[t]) % Modulus
        BY <1>9 DEF Check, CopyKnown, TypeOK
      <4>3. ~Storing
        <5>1. ((2 * stores + 1) % Modulus) % 2 = 1 /\ ((2 * since[t]) % Modulus) % 2 = 0
          BY <1>0, <4>2, Parity
        <5>2. QED
          BY <3>1, <4>2, <5>1 DEF SeqCounts
      <4>4. since[t] = stores
        <5>1. (2 * stores) % Modulus = (2 * since[t]) % Modulus
          BY <3>1, <4>2, <4>3 DEF SeqCounts
        <5>2. QED
          BY <1>0, <4>2, <5>1, Distance
      <4>5. \A c \in Cells : ~(c >= k[t])
        BY <1>9 DEF Check, Cells, TypeOK
      <4>6. QED
        BY <1>9, <4>1, <4>3, <4>4, <4>5 DEF Check, CopyKnown
    <3>2. pc'[t] = "got" => seq = s0[t]
      BY <2>1 DEF TypeOK
    <3>3. QED
      BY <2>7, <3>1, <3>2 DEF Untorn, Cells
  <2>10. QED
    BY <2>5, <2>6, <2>8, <2>9
<1>10. ASSUME NEW t \in Threads, Return(t) PROVE IInv'
  <2>1. Storing' <=> Storing
    BY <1>10, Elsewhere DEF Return, Goto
  <2>2. TypeOK' /\ OneWriter'
    <3>1. 0 \in 0 .. Modulus - 1
      BY <1>0
    <3>2. /\ s0' \in [Threads -> 0 .. Modulus - 1]
          /\ out' \in [Threads -> [Cells -> Nat]]
          /\ since' \in [Threads -> Nat]
      BY <1>10, <3>1 DEF Return, Forget, TypeOK
    <3>3. QED
      BY <1>10, <3>2 DEF Return, Goto, TypeOK, OneWriter, lockVars, Modulus
  <2>3. SeqCounts' /\ DataKnown' /\ CursorKnown'
    BY <1>10, <2>1 DEF Return, Goto, TypeOK, lockVars, SeqCounts, DataKnown, CursorKnown, Modulus
  <2>4. /\ UNCHANGED <<stores, k>>
        /\ \A u \in Threads : u # t =>
             pc'[u] = pc[u] /\ s0'[u] = s0[u] /\ since'[u] = since[u] /\ out'[u] = out[u]
    BY <1>10 DEF Return, Goto, Forget, TypeOK, lockVars
  <2>5. pc'[t] = "idle"
    BY <1>10 DEF Return, Goto, TypeOK
  <2>6. CopyKnown' /\ Untorn'
    BY <2>1, <2>4, <2>5 DEF CopyKnown, Untorn, Cells, Modulus
  <2>7. QED
    BY <2>2, <2>3, <2>6
<1>11. CASE UNCHANGED vars
  <2>1. Storing' <=> Storing
    BY <1>11 DEF vars, Storing
  <2>2. TypeOK' /\ OneWriter' /\ SeqCounts' /\ DataKnown'
    BY <1>11, <2>1 DEF vars, lockVars, readVars, TypeOK, OneWriter, SeqCounts, DataKnown, Cells, Modulus
  <2>3. CursorKnown' /\ CopyKnown' /\ Untorn'
    BY <1>11, <2>1 DEF vars, lockVars, readVars, CursorKnown, CopyKnown, Untorn, Cells, Modulus
  <2>4. QED
    BY <2>2, <2>3
<1>12. QED
  BY <1>1, <1>2, <1>3, <1>4, <1>5, <1>6, <1>7, <1>8, <1>9, <1>10, <1>11
  DEF Next, Running, Calls

--------------------------------------------------------------------------------
(* What follows from it. *)

\* IInv holds at every moment.
LEMMA Invariant == ASSUME Sizes PROVE Spec => []IInv
  BY Initially, Step, PTL DEF Spec

\* seqlock.hpp: whatever load() or try_load() returns is the value of one store,
\* the last that was complete when the read began.
THEOREM NoTornRead == ASSUME Sizes PROVE Spec => []Untorn
<1>1. IInv => Untorn
  BY DEF IInv
<1>2. QED
  BY Invariant, <1>1, PTL

\* seqlock.hpp: writers exclude each other for as long as the sequence is odd.
THEOREM OneWriterAtATime == ASSUME Sizes PROVE Spec => []OneWriter
<1>1. IInv => OneWriter
  BY DEF IInv
<1>2. QED
  BY Invariant, <1>1, PTL
================================================================================
