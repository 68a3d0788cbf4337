--------------------------- MODULE TicketLock_proofs ---------------------------
(***************************************************************************)
(* mutex/locks/ticket_lock.hpp: the threads are served one at a time and in *)
(* the order of their tickets, for any number of threads and any width of   *)
(* the counters, across the wrap and with try_lock() in between, provided   *)
(* that the threads and the tickets drawn during one try_lock() are fewer   *)
(* than a counter has values.                                               *)
(***************************************************************************)
EXTENDS TicketLock, TLAPS, FiniteSetTheorems

Turn == 2 ^ Width
Wrap(x) == x % Turn

\* What the constants have to be.
Sizes ==
  /\ Turn \in Nat \ {0}
  /\ Seed \in Counters
  /\ MaxOvertaking \in Nat
  /\ IsFiniteSet(Threads)
  /\ Cardinality(Threads) + MaxOvertaking < Turn

--------------------------------------------------------------------------------
(* The inductive invariant. *)

Shapes ==
  /\ next \in 0 .. Turn - 1 /\ serving \in 0 .. Turn - 1
  /\ pc \in [Threads -> {"idle", "wait", "cs", "try1", "try2"}]
  /\ my \in [Threads -> 0 .. Turn - 1]
  /\ queue \in Seq(Threads)
  /\ since \in [Threads -> 0 .. MaxOvertaking]

\* The queue has each thread that waits or is inside once.
QueuedOnce ==
  /\ \A i, j \in 1 .. Len(queue) : queue[i] = queue[j] => i = j
  /\ \A i \in 1 .. Len(queue) : pc[queue[i]] \in {"wait", "cs"}
  /\ \A t \in Threads : pc[t] \in {"wait", "cs"} => \E i \in 1 .. Len(queue) : queue[i] = t

\* next is as many tickets after the value a try_lock() loaded as are in the queue
\* or more, but not a turn.
TryBounded ==
  \A t \in Trying :
    \E d \in Len(queue) .. Cardinality(Threads) + since[t] : next = Wrap(my[t] + d)

\* TicketsInOrder, with the next ticket computed from the length of the queue.
Order ==
  /\ Len(queue) < Turn
  /\ next = Wrap(serving + Len(queue))
  /\ \A i \in 1 .. Len(queue) : my[queue[i]] = Wrap(serving + (i - 1))
  /\ \A t \in Threads : pc[t] = "cs" => queue # <<>> /\ queue[1] = t

IInv == Shapes /\ QueuedOnce /\ TryBounded /\ Order

--------------------------------------------------------------------------------
(* Counting round. *)

\* The remainder of what is less than two turns, and of what is less than one below zero.
LEMMA Wraps ==
  ASSUME Turn \in Nat \ {0}
  PROVE  /\ \A x \in 0 .. Turn - 1 : Wrap(x) = x
         /\ \A x \in Turn .. 2 * Turn - 1 : Wrap(x) = x - Turn
         /\ \A x \in -Turn .. -1 : Wrap(x) = x + Turn
<1> DEFINE m == Turn
<1>0. m \in Nat \ {0}
  OBVIOUS
<1> HIDE DEF m
<1>1. ASSUME NEW x \in 0 .. m - 1 PROVE x % m = x
  BY <1>0
<1>2. ASSUME NEW x \in m .. 2 * m - 1 PROVE x % m = x - m
  BY <1>0
<1>3. ASSUME NEW x \in -m .. -1 PROVE x % m = x + m
  BY <1>0
<1> QED
  BY <1>1, <1>2, <1>3 DEF m, Wrap

\* How far the counters are apart.
LEMMA Apart ==
  ASSUME Turn \in Nat \ {0},
         NEW n \in 0 .. Turn - 1, NEW s \in 0 .. Turn - 1, NEW l \in 0 .. Turn - 1
  PROVE  l = Wrap(n - s) <=> n = Wrap(s + l)
<1>1. /\ (s + l < Turn => Wrap(s + l) = s + l)
      /\ (s + l >= Turn => Wrap(s + l) = (s + l) - Turn)
  BY Wraps
<1>2. /\ (n >= s => Wrap(n - s) = n - s)
      /\ (n < s => Wrap(n - s) = (n - s) + Turn)
  BY Wraps
<1> HIDE DEF Turn
<1> QED
  BY <1>1, <1>2

\* Counting on less than a turn comes back to the same value only by staying there.
LEMMA Stays ==
  ASSUME Turn \in Nat \ {0}, NEW s \in 0 .. Turn - 1, NEW k \in 0 .. Turn - 1, Wrap(s + k) = s
  PROVE  k = 0
  BY Wraps

\* Counting on by one and then by some is counting on by one more.
LEMMA CountsOn ==
  ASSUME Turn \in Nat \ {0}, NEW s \in 0 .. Turn - 1, NEW k \in 0 .. Turn - 1
  PROVE  /\ Wrap(Wrap(s + 1) + k) = Wrap(s + (k + 1))
         /\ Wrap(Wrap(s + k) + 1) = Wrap(s + (k + 1))
         /\ Wrap(s + 1) \in 0 .. Turn - 1
<1>1. Wrap(2 * Turn) = 0
  <2> DEFINE m == Turn
  <2>1. m \in Nat \ {0}
    OBVIOUS
  <2> HIDE DEF m
  <2>2. (2 * m) % m = 0
    BY <2>1
  <2> QED
    BY <2>2 DEF m, Wrap
<1> QED
  BY <1>1, Wraps

--------------------------------------------------------------------------------
(* Lemmas on the queue. *)

\* A queue in which nobody is twice is no longer than there are threads.
LEMMA QueueFits ==
  ASSUME NEW T, IsFiniteSet(T), NEW q \in Seq(T),
         \A i, j \in 1 .. Len(q) : q[i] = q[j] => i = j
  PROVE  Len(q) <= Cardinality(T)
<1>1. Len(q) \in Nat /\ Cardinality(T) \in Nat
  BY FS_CardinalityType
<1>2. IsFiniteSet(1 .. Len(q)) /\ Cardinality(1 .. Len(q)) = Len(q)
  <2>1. PICK n \in Nat : n = Len(q)
    BY <1>1
  <2>2. 1 \in Int /\ n \in Int
    OBVIOUS
  <2>3. IsFiniteSet(1 .. n) /\ Cardinality(1 .. n) = IF 1 > n THEN 0 ELSE n - 1 + 1
    BY <2>2, FS_Interval
  <2>4. (IF 1 > n THEN 0 ELSE n - 1 + 1) = n
    OBVIOUS
  <2> QED
    BY <2>1, <2>3, <2>4
<1>3. q \in [1 .. Len(q) -> T]
  OBVIOUS
<1>4. SUFFICES ASSUME Cardinality(T) < Len(q) PROVE FALSE
  BY <1>1
<1>5. \E i, j \in 1 .. Len(q) : i # j /\ q[i] = q[j]
  BY <1>2, <1>3, <1>4, FS_PigeonHole
<1> QED
  BY <1>5

\* What a queue is after a thread has joined it.
LEMMA Appended ==
  ASSUME NEW T, NEW q \in Seq(T), NEW x \in T
  PROVE  /\ Append(q, x) \in Seq(T)
         /\ Len(Append(q, x)) = Len(q) + 1
         /\ \A i \in 1 .. Len(q) : Append(q, x)[i] = q[i]
         /\ Append(q, x)[Len(q) + 1] = x
         /\ Append(q, x) # <<>>
  OBVIOUS

\* What a queue is after its first thread has left it.
LEMMA Rest ==
  ASSUME NEW T, NEW q \in Seq(T), q # <<>>
  PROVE  /\ Tail(q) \in Seq(T)
         /\ Len(q) \in Nat \ {0}
         /\ Len(Tail(q)) = Len(q) - 1
         /\ \A i \in 1 .. Len(q) - 1 : Tail(q)[i] = q[i + 1]
         /\ Head(q) = q[1]
  OBVIOUS

\* Restating the definitions with the name of the modulus.
LEMMA Restated ==
  /\ Counters = 0 .. Turn - 1
  /\ \A c : Inc(c) = Wrap(c + 1)
  BY DEF Counters, Inc, Turn, Wrap

--------------------------------------------------------------------------------
(* The steps. *)

\* Whoever draws a ticket becomes the last of the queue.
LEMMA DrawStep ==
  ASSUME Sizes, IInv, NEW t \in Threads, NEW l \in {"wait", "cs"},
         Draw(t), pc[t] \notin {"wait", "cs"}, l = "cs" => queue = <<>>,
         pc' = [pc EXCEPT ![t] = l], my' = [my EXCEPT ![t] = next], serving' = serving
  PROVE  IInv'
<1> DEFINE n == Len(queue)
<1>1. /\ Turn \in Nat \ {0} /\ n \in Nat /\ MaxOvertaking \in Nat /\ IsFiniteSet(Threads)
      /\ Cardinality(Threads) \in Nat /\ Cardinality(Threads) + MaxOvertaking < Turn
      /\ queue \in Seq(Threads) /\ next \in 0 .. Turn - 1 /\ serving \in 0 .. Turn - 1
      /\ n < Turn
  BY FS_CardinalityType DEF Sizes, IInv, Shapes, Order
<1>2. /\ queue' \in Seq(Threads) /\ Len(queue') = n + 1 /\ queue'[n + 1] = t
      /\ \A i \in 1 .. n : queue'[i] = queue[i]
      /\ queue' # <<>>
  BY <1>1, Appended DEF Draw
<1>3. next' = Wrap(next + 1)
  BY Restated DEF Draw
<1>4. next' \in 0 .. Turn - 1
  BY <1>1, <1>3, CountsOn
<1>5. /\ \A u \in Trying \ {t} : since[u] < MaxOvertaking
      /\ since' = [u \in Threads |-> IF u \in Trying \ {t} THEN since[u] + 1 ELSE 0]
  BY DEF Draw
<1>6. since' \in [Threads -> 0 .. MaxOvertaking]
  BY <1>1, <1>5 DEF IInv, Shapes
<1> HIDE DEF n
<1>7. Shapes'
  BY <1>1, <1>2, <1>4, <1>6 DEF IInv, Shapes
<1>8. \A i \in 1 .. n : queue[i] # t /\ queue[i] \in Threads
  BY <1>1 DEF IInv, QueuedOnce, n
<1>9. QueuedOnce'
  <2>1. \A i \in 1 .. n + 1 : i \in 1 .. n \/ i = n + 1
    BY <1>1
  <2>2. \A i, j \in 1 .. n + 1 : queue'[i] = queue'[j] => i = j
    BY <1>2, <1>8, <2>1 DEF IInv, QueuedOnce, n
  <2>3. ASSUME NEW i \in 1 .. n + 1
        PROVE  pc'[queue'[i]] \in {"wait", "cs"}
    <3>1. CASE i \in 1 .. n
      <4>1. pc'[queue[i]] = pc[queue[i]]
        BY <1>8, <3>1 DEF IInv, Shapes
      <4>2. pc[queue[i]] \in {"wait", "cs"}
        BY <3>1 DEF IInv, QueuedOnce, n
      <4> QED
        BY <1>2, <3>1, <4>1, <4>2
    <3>2. CASE i = n + 1
      BY <1>2, <3>2 DEF IInv, Shapes
    <3> QED
      BY <2>1, <3>1, <3>2
  <2>4. ASSUME NEW u \in Threads, pc'[u] \in {"wait", "cs"}
        PROVE  \E i \in 1 .. n + 1 : queue'[i] = u
    <3>1. CASE u = t
      BY <1>1, <1>2, <3>1
    <3>2. CASE u # t
      <4>1. pc[u] \in {"wait", "cs"}
        BY <2>4, <3>2 DEF IInv, Shapes
      <4>2. PICK i \in 1 .. n : queue[i] = u
        BY <4>1 DEF IInv, QueuedOnce, n
      <4> QED
        BY <1>1, <1>2, <4>2
    <3> QED
      BY <3>1, <3>2
  <2> QED
    BY <1>2, <2>2, <2>3, <2>4 DEF QueuedOnce
<1>10. n + 1 <= Cardinality(Threads)
  <2>1. \A i, j \in 1 .. Len(queue') : queue'[i] = queue'[j] => i = j
    BY <1>9 DEF QueuedOnce
  <2>2. Len(queue') <= Cardinality(Threads)
    BY <1>1, <1>2, <2>1, QueueFits
  <2> QED
    BY <1>2, <2>2
<1>11. TryBounded'
  <2> SUFFICES ASSUME NEW u \in Trying'
               PROVE  \E d \in n + 1 .. Cardinality(Threads) + since'[u] : next' = Wrap(my'[u] + d)
    BY <1>2 DEF TryBounded
  <2>1. u \in Threads /\ u # t /\ u \in Trying
    BY DEF Trying, IInv, Shapes
  <2>2. my'[u] = my[u] /\ my[u] \in 0 .. Turn - 1 /\ since'[u] = since[u] + 1 /\ since[u] \in 0 .. MaxOvertaking
    BY <1>5, <2>1 DEF IInv, Shapes
  <2>3. since[u] < MaxOvertaking
    BY <1>5, <2>1
  <2>4. PICK d \in n .. Cardinality(Threads) + since[u] : next = Wrap(my[u] + d)
    BY <2>1 DEF IInv, TryBounded, n
  <2>5. d \in 0 .. Turn - 1 /\ d + 1 \in n + 1 .. Cardinality(Threads) + since'[u]
    BY <1>1, <2>2, <2>3
  <2>6. next' = Wrap(my[u] + (d + 1))
    BY <1>1, <1>3, <2>2, <2>4, <2>5, CountsOn
  <2> QED
    BY <2>2, <2>5, <2>6
<1>12. Order'
  <2>2. n + 1 < Turn
    BY <1>1, <1>10
  <2>3. next' = Wrap(serving + (n + 1))
    <3>1. next = Wrap(serving + n)
      BY DEF IInv, Order, n
    <3>2. n \in 0 .. Turn - 1
      BY <1>1
    <3> QED
      BY <1>1, <1>3, <3>1, <3>2, CountsOn
  <2>4. ASSUME NEW i \in 1 .. n + 1
        PROVE  my'[queue'[i]] = Wrap(serving + (i - 1))
    <3>1. CASE i = n + 1
      <4>1. my'[t] = next
        BY DEF IInv, Shapes
      <4>2. next = Wrap(serving + n) /\ (n + 1) - 1 = n
        BY <1>1 DEF IInv, Order, n
      <4> QED
        BY <1>2, <3>1, <4>1, <4>2
    <3>2. CASE i \in 1 .. n
      <4>1. queue'[i] = queue[i] /\ my'[queue[i]] = my[queue[i]]
        BY <1>2, <1>8, <3>2 DEF IInv, Shapes
      <4> QED
        BY <3>2, <4>1 DEF IInv, Order, n
    <3> QED
      BY <1>1, <3>1, <3>2
  <2>5. ASSUME NEW u \in Threads, pc'[u] = "cs"
        PROVE  queue'[1] = u
    <3>1. CASE u = t
      <4>1. queue = <<>>
        BY <2>5, <3>1 DEF IInv, Shapes
      <4>2. n = 0
        BY <4>1 DEF n
      <4> QED
        BY <1>2, <3>1, <4>2
    <3>2. CASE u # t
      <4>1. pc[u] = "cs"
        BY <2>5, <3>2 DEF IInv, Shapes
      <4>2. queue # <<>> /\ queue[1] = u
        BY <4>1 DEF IInv, Order
      <4>3. 1 \in 1 .. n
        BY <1>1, <4>2 DEF n
      <4> QED
        BY <1>2, <4>2, <4>3
    <3> QED
      BY <3>1, <3>2
  <2> QED
    BY <1>2, <2>2, <2>3, <2>4, <2>5 DEF Order
<1> QED
  BY <1>7, <1>9, <1>11, <1>12 DEF IInv

\* unlock() serves the second of the queue.
LEMMA UnlockStep ==
  ASSUME Sizes, IInv, NEW t \in Threads, Unlock(t)
  PROVE  IInv'
<1> DEFINE n == Len(queue)
<1>1. queue # <<>> /\ queue[1] = t
  BY DEF Unlock, IInv, Order
<1>2. /\ Turn \in Nat \ {0} /\ queue \in Seq(Threads) /\ serving \in 0 .. Turn - 1
      /\ next \in 0 .. Turn - 1 /\ n < Turn /\ n \in Nat
  BY DEF Sizes, IInv, Shapes, Order
<1>3. /\ queue' \in Seq(Threads) /\ n \in Nat \ {0} /\ Len(queue') = n - 1
      /\ \A i \in 1 .. n - 1 : queue'[i] = queue[i + 1]
  BY <1>1, <1>2, Rest DEF Unlock
<1>4. /\ serving' = Wrap(serving + 1) /\ next' = next
      /\ pc' = [pc EXCEPT ![t] = "idle"] /\ my' = [my EXCEPT ![t] = 0]
      /\ since' = [since EXCEPT ![t] = 0]
  BY Restated DEF Unlock, Return, Goto
<1>5. serving' \in 0 .. Turn - 1
  BY <1>2, <1>4, CountsOn
<1> HIDE DEF n
<1>6. Shapes'
  BY <1>2, <1>3, <1>4, <1>5 DEF Sizes, IInv, Shapes
<1>7. \A i \in 1 .. n - 1 : i + 1 \in 1 .. n /\ queue[i + 1] \in Threads /\ queue[i + 1] # t
  <2>1. \A i \in 1 .. n - 1 : i + 1 \in 1 .. n /\ i + 1 # 1 /\ 1 \in 1 .. n
    BY <1>2, <1>3
  <2>2. \A i \in 1 .. n : queue[i] \in Threads
    BY <1>2 DEF n
  <2>3. \A i, j \in 1 .. n : queue[i] = queue[j] => i = j
    BY DEF IInv, QueuedOnce, n
  <2> QED
    BY <1>1, <2>1, <2>2, <2>3
<1>8. QueuedOnce'
  <2>1. ASSUME NEW i \in 1 .. n - 1, NEW j \in 1 .. n - 1, queue'[i] = queue'[j]
        PROVE  i = j
    <3>1. queue[i + 1] = queue[j + 1] /\ i + 1 \in 1 .. n /\ j + 1 \in 1 .. n
      BY <1>3, <1>7, <2>1
    <3>2. i + 1 = j + 1
      BY <3>1 DEF IInv, QueuedOnce, n
    <3> QED
      BY <1>2, <3>2
  <2>2. ASSUME NEW i \in 1 .. n - 1
        PROVE  pc'[queue'[i]] \in {"wait", "cs"}
    <3>1. pc[queue[i + 1]] \in {"wait", "cs"}
      BY <1>7 DEF IInv, QueuedOnce, n
    <3> QED
      BY <1>3, <1>4, <1>7, <3>1 DEF IInv, Shapes
  <2>3. ASSUME NEW u \in Threads, pc'[u] \in {"wait", "cs"}
        PROVE  \E i \in 1 .. n - 1 : queue'[i] = u
    <3>1. u # t /\ pc[u] \in {"wait", "cs"}
      BY <1>4, <2>3 DEF IInv, Shapes
    <3>2. PICK j \in 1 .. n : queue[j] = u
      BY <3>1 DEF IInv, QueuedOnce, n
    <3>3. j # 1
      BY <1>1, <3>1, <3>2
    <3>4. j - 1 \in 1 .. n - 1 /\ (j - 1) + 1 = j
      BY <1>2, <3>3
    <3> QED
      BY <1>3, <3>2, <3>4
  <2> QED
    BY <1>3, <2>1, <2>2, <2>3 DEF QueuedOnce
<1>9. TryBounded'
  <2> SUFFICES ASSUME NEW u \in Trying'
               PROVE  \E d \in n - 1 .. Cardinality(Threads) + since'[u] : next' = Wrap(my'[u] + d)
    BY <1>3 DEF TryBounded
  <2>1. u \in Threads /\ u # t /\ u \in Trying
    BY <1>4 DEF Trying, IInv, Shapes
  <2>2. my'[u] = my[u] /\ since'[u] = since[u]
    BY <1>4, <2>1 DEF IInv, Shapes
  <2>3. PICK d \in n .. Cardinality(Threads) + since[u] : next = Wrap(my[u] + d)
    BY <2>1 DEF IInv, TryBounded, n
  <2>4. d \in n - 1 .. Cardinality(Threads) + since'[u]
    BY <1>2, <2>2
  <2> QED
    BY <1>4, <2>2, <2>3, <2>4
<1>10. Order'
  <2>1. n - 1 < Turn /\ n - 1 \in 0 .. Turn - 1
    BY <1>2, <1>3
  <2>2. next' = Wrap(serving' + (n - 1))
    <3>1. next = Wrap(serving + n) /\ (n - 1) + 1 = n
      BY <1>2 DEF IInv, Order, n
    <3>2. Wrap(Wrap(serving + 1) + (n - 1)) = Wrap(serving + ((n - 1) + 1))
      BY <1>2, <2>1, CountsOn
    <3> QED
      BY <1>4, <3>1, <3>2
  <2>3. ASSUME NEW i \in 1 .. n - 1
        PROVE  my'[queue'[i]] = Wrap(serving' + (i - 1))
    <3>1. my'[queue'[i]] = my[queue[i + 1]]
      BY <1>3, <1>4, <1>7 DEF IInv, Shapes
    <3>2. my[queue[i + 1]] = Wrap(serving + ((i + 1) - 1))
      BY <1>7 DEF IInv, Order, n
    <3>3. i - 1 \in 0 .. Turn - 1 /\ (i + 1) - 1 = (i - 1) + 1
      BY <1>2, <2>1
    <3>4. Wrap(Wrap(serving + 1) + (i - 1)) = Wrap(serving + ((i - 1) + 1))
      BY <1>2, <3>3, CountsOn
    <3> QED
      BY <1>4, <3>1, <3>2, <3>3, <3>4
  <2>4. \A u \in Threads : pc'[u] # "cs"
    BY <1>1, <1>4 DEF IInv, Order, Shapes
  <2> QED
    BY <1>3, <2>1, <2>2, <2>3, <2>4 DEF Order
<1> QED
  BY <1>6, <1>8, <1>9, <1>10 DEF IInv

\* A step outside the queue: the thread is in it neither before nor after.
LEMMA OutsideStep ==
  ASSUME Sizes, IInv, NEW t \in Threads, NEW l \in {"idle", "try1", "try2"},
         pc[t] \notin {"wait", "cs"}, pc' = [pc EXCEPT ![t] = l],
         UNCHANGED <<next, serving, queue>>,
         my' \in [Threads -> 0 .. Turn - 1], since' \in [Threads -> 0 .. MaxOvertaking],
         \A u \in Threads \ {t} : my'[u] = my[u] /\ since'[u] = since[u],
         l # "idle" => \E d \in Len(queue) .. Cardinality(Threads) + since'[t] :
                         next = Wrap(my'[t] + d)
  PROVE  IInv'
<1>1. Shapes'
  BY DEF IInv, Shapes
<1>2. \A i \in 1 .. Len(queue) : queue[i] \in Threads \ {t}
  <2>1. \A i \in 1 .. Len(queue) : queue[i] \in Threads
    BY DEF IInv, Shapes
  <2>2. \A i \in 1 .. Len(queue) : queue[i] # t
    BY DEF IInv, QueuedOnce
  <2> QED
    BY <2>1, <2>2
<1>3. QueuedOnce'
  <2>1. \A u \in Threads : pc'[u] \in {"wait", "cs"} <=> pc[u] \in {"wait", "cs"}
    BY DEF IInv, Shapes
  <2> QED
    BY <1>2, <2>1 DEF IInv, QueuedOnce
<1>4. TryBounded'
  <2> SUFFICES ASSUME NEW u \in Trying'
               PROVE  \E d \in Len(queue) .. Cardinality(Threads) + since'[u] :
                        next = Wrap(my'[u] + d)
    BY DEF TryBounded
  <2>1. CASE u = t
    BY <2>1 DEF Trying, IInv, Shapes
  <2>2. CASE u # t
    <3>1. u \in Trying /\ my'[u] = my[u] /\ since'[u] = since[u]
      BY <2>2 DEF Trying, IInv, Shapes
    <3> QED
      BY <3>1 DEF IInv, TryBounded
  <2> QED
    BY <2>1, <2>2
<1>5. Order'
  <2>1. \A i \in 1 .. Len(queue) : my'[queue[i]] = my[queue[i]]
    BY <1>2
  <2>2. \A u \in Threads : pc'[u] = "cs" => pc[u] = "cs"
    BY DEF IInv, Shapes
  <2> QED
    BY <2>1, <2>2 DEF IInv, Order
<1> QED
  BY <1>1, <1>3, <1>4, <1>5 DEF IInv

\* A waiter that is served is the first of the queue: its ticket is nobody else's,
\* for the queue is shorter than a turn.
LEMMA ServedStep ==
  ASSUME Sizes, IInv, NEW t \in Threads, Served(t)
  PROVE  IInv'
<1>1. /\ Turn \in Nat \ {0} /\ serving \in 0 .. Turn - 1 /\ Len(queue) \in Nat /\ Len(queue) < Turn
  BY DEF Sizes, IInv, Shapes, Order
<1>2. PICK i \in 1 .. Len(queue) : queue[i] = t
  BY DEF Served, IInv, QueuedOnce
<1>3. Wrap(serving + (i - 1)) = serving
  BY <1>2 DEF Served, IInv, Order
<1>4. i - 1 \in 0 .. Turn - 1
  BY <1>1
<1>5. i - 1 = 0
  BY <1>1, <1>3, <1>4, Stays
<1>6. queue # <<>> /\ queue[1] = t
  <2>1. i = 1
    BY <1>5
  <2> QED
    BY <1>1, <1>2, <2>1
<1>7. /\ pc' = [pc EXCEPT ![t] = "cs"] /\ pc[t] = "wait"
      /\ UNCHANGED <<next, serving, my, queue, since>>
  BY DEF Served, Goto
<1>8. Shapes'
  BY <1>7 DEF IInv, Shapes
<1>9. QueuedOnce'
  <2>1. \A u \in Threads : pc'[u] \in {"wait", "cs"} <=> pc[u] \in {"wait", "cs"}
    BY <1>7 DEF IInv, Shapes
  <2>2. \A k \in 1 .. Len(queue) : queue[k] \in Threads
    BY DEF IInv, Shapes
  <2> QED
    BY <1>7, <2>1, <2>2 DEF IInv, QueuedOnce
<1>10. TryBounded'
  <2>1. Trying' = Trying
    BY <1>7 DEF IInv, Shapes, Trying
  <2> QED
    BY <1>7, <2>1 DEF IInv, TryBounded
<1>11. Order'
  <2>1. \A u \in Threads : pc'[u] = "cs" => pc[u] = "cs" \/ u = t
    BY <1>7 DEF IInv, Shapes
  <2> QED
    BY <1>6, <1>7, <2>1 DEF IInv, Order
<1> QED
  BY <1>8, <1>9, <1>10, <1>11 DEF IInv

\* Every step of every call keeps IInv.
LEMMA IInvStep ==
  ASSUME Sizes, IInv, [Next]_vars
  PROVE  IInv'
<1>1. ASSUME NEW t \in Threads, Lock(t)
      PROVE  IInv'
  BY <1>1, DrawStep DEF Lock, Goto
<1>2. ASSUME NEW t \in Threads, TryServing(t)
      PROVE  IInv'
  <2>1. /\ pc[t] = "idle" /\ my' = [my EXCEPT ![t] = serving]
        /\ pc' = [pc EXCEPT ![t] = "try1"] /\ UNCHANGED <<next, serving, queue, since>>
    BY <1>2 DEF TryServing, Goto
  <2>2. my' \in [Threads -> 0 .. Turn - 1] /\ my'[t] = serving /\ since' \in [Threads -> 0 .. MaxOvertaking]
    BY <2>1 DEF IInv, Shapes
  <2>3. \A u \in Threads \ {t} : my'[u] = my[u] /\ since'[u] = since[u]
    BY <2>1 DEF IInv, Shapes
  <2>4. Len(queue) <= Cardinality(Threads) /\ Cardinality(Threads) \in Nat /\ Len(queue) \in Nat
    <3>1. queue \in Seq(Threads) /\ \A i, j \in 1 .. Len(queue) : queue[i] = queue[j] => i = j
      BY DEF IInv, Shapes, QueuedOnce
    <3>2. IsFiniteSet(Threads)
      BY DEF Sizes
    <3> QED
      BY <3>1, <3>2, QueueFits, FS_CardinalityType
  <2>5. since'[t] \in Nat
    BY <2>2 DEF Sizes
  <2>6. Len(queue) \in Len(queue) .. Cardinality(Threads) + since'[t]
    BY <2>4, <2>5
  <2>7. next = Wrap(my'[t] + Len(queue))
    BY <2>2 DEF IInv, Order
  <2> QED
    BY <2>1, <2>2, <2>3, <2>6, <2>7, OutsideStep
<1>3. ASSUME NEW t \in Threads, pc[t] \in {"try1", "try2"}, Return(t), UNCHANGED <<next, serving, queue>>
      PROVE  IInv'
  <2>1. /\ pc' = [pc EXCEPT ![t] = "idle"] /\ my' = [my EXCEPT ![t] = 0]
        /\ since' = [since EXCEPT ![t] = 0]
    BY <1>3 DEF Return, Goto
  <2>2. my' \in [Threads -> 0 .. Turn - 1] /\ since' \in [Threads -> 0 .. MaxOvertaking]
    BY <2>1 DEF Sizes, IInv, Shapes
  <2>3. \A u \in Threads \ {t} : my'[u] = my[u] /\ since'[u] = since[u]
    BY <2>1 DEF IInv, Shapes
  <2> QED
    BY <1>3, <2>1, <2>2, <2>3, OutsideStep
<1>4. ASSUME NEW t \in Threads, TryNext(t)
      PROVE  IInv'
  <2>1. CASE my[t] = next
    <3>1. /\ pc[t] = "try1" /\ pc' = [pc EXCEPT ![t] = "try2"]
          /\ UNCHANGED <<next, serving, queue, my, since>>
      BY <1>4, <2>1 DEF TryNext, Goto
    <3>2. t \in Trying
      BY <3>1 DEF Trying
    <3>3. \E d \in Len(queue) .. Cardinality(Threads) + since'[t] : next = Wrap(my'[t] + d)
      BY <3>1, <3>2 DEF IInv, TryBounded
    <3>4. my' \in [Threads -> 0 .. Turn - 1] /\ since' \in [Threads -> 0 .. MaxOvertaking]
      BY <3>1 DEF IInv, Shapes
    <3> QED
      BY <3>1, <3>3, <3>4, OutsideStep
  <2>2. CASE my[t] # next
    BY <1>3, <1>4, <2>2 DEF TryNext
  <2> QED
    BY <2>1, <2>2
<1>5. ASSUME NEW t \in Threads, TryDraw(t)
      PROVE  IInv'
  <2>1. CASE next = my[t]
    <3>1. /\ pc[t] = "try2" /\ pc' = [pc EXCEPT ![t] = "cs"] /\ Draw(t) /\ UNCHANGED <<my, serving>>
      BY <1>5, <2>1 DEF TryDraw, Goto
    <3>2. t \in Trying
      BY <3>1 DEF Trying
    <3>3. /\ Turn \in Nat \ {0} /\ next \in 0 .. Turn - 1 /\ Len(queue) \in Nat /\ queue \in Seq(Threads)
          /\ Cardinality(Threads) \in Nat /\ since[t] \in 0 .. MaxOvertaking /\ MaxOvertaking \in Nat
          /\ Cardinality(Threads) + MaxOvertaking < Turn
      BY FS_CardinalityType DEF Sizes, IInv, Shapes
    <3>4. PICK d \in Len(queue) .. Cardinality(Threads) + since[t] : next = Wrap(my[t] + d)
      BY <3>2 DEF IInv, TryBounded
    <3>5. d \in 0 .. Turn - 1
      BY <3>3
    <3>6. Wrap(next + d) = next
      BY <2>1, <3>4
    <3>8. d = 0
      BY <3>3, <3>5, <3>6, Stays
    <3>9. queue = <<>>
      <4>1. Len(queue) = 0
        BY <3>3, <3>8
      <4> QED
        BY <3>3, <4>1
    <3>10. my' = [my EXCEPT ![t] = next]
      BY <2>1, <3>1 DEF IInv, Shapes
    <3> QED
      BY <3>1, <3>9, <3>10, DrawStep
  <2>2. CASE next # my[t]
    BY <1>3, <1>5, <2>2 DEF TryDraw
  <2> QED
    BY <2>1, <2>2
<1>6. CASE UNCHANGED vars
  BY <1>6 DEF vars, IInv, Shapes, QueuedOnce, TryBounded, Trying, Order
<1> QED
  BY <1>1, <1>2, <1>4, <1>5, <1>6, ServedStep, UnlockStep DEF Next, Running

\* IInv holds at first and at every later moment.
LEMMA Inductive ==
  ASSUME Sizes
  PROVE  Spec => []IInv
<1>1. Init => IInv
  <2> SUFFICES ASSUME Init PROVE IInv
    OBVIOUS
  <2>1. Turn \in Nat \ {0} /\ Seed \in 0 .. Turn - 1
    BY Restated DEF Sizes
  <2>2. queue \in Seq(Threads) /\ Len(queue) = 0
    BY DEF Init
  <2>3. Shapes
    BY <2>1, <2>2 DEF Sizes, Init, Shapes
  <2>4. QueuedOnce
    BY <2>2 DEF Init, QueuedOnce
  <2>5. TryBounded
    BY DEF Init, TryBounded, Trying
  <2>6. Order
    <3>1. Wrap(Seed + 0) = Seed
      BY <2>1, Wraps
    <3> QED
      BY <2>1, <2>2, <3>1 DEF Init, Order
  <2> QED
    BY <2>3, <2>4, <2>5, <2>6 DEF IInv
<1>2. IInv /\ [Next]_vars => IInv'
  BY IInvStep
<1> QED
  BY <1>1, <1>2, PTL DEF Spec

\* operator() waits for the ticket it drew and unlock() serves the next one: the
\* tickets in the queue are consecutive from the one being served, although the
\* counters wrap and try_lock() takes a ticket without waiting, and whoever is
\* inside is the one that drew first.
THEOREM FirstComeFirstServed ==
  ASSUME Sizes
  PROVE  Spec => []TicketsInOrder
<1>1. IInv => TicketsInOrder
  <2> SUFFICES ASSUME IInv PROVE TicketsInOrder
    OBVIOUS
  <2>1. /\ Turn \in Nat \ {0} /\ Len(queue) \in 0 .. Turn - 1 /\ queue \in Seq(Threads)
        /\ next \in 0 .. Turn - 1 /\ serving \in 0 .. Turn - 1
    BY DEF Sizes, IInv, Shapes, Order
  <2>2. Len(queue) = Wrap(next - serving)
    <3>1. next = Wrap(serving + Len(queue))
      BY DEF IInv, Order
    <3>2. ASSUME NEW n \in 0 .. Turn - 1, NEW s \in 0 .. Turn - 1, NEW l \in 0 .. Turn - 1,
                 n = Wrap(s + l)
          PROVE  l = Wrap(n - s)
      <4>1. Turn \in Nat \ {0}
        BY <2>1
      <4> QED
        BY <4>1, <3>2, Apart
    <3> QED
      BY <2>1, <3>1, <3>2
  <2>3. \A i \in 1 .. Len(queue) : my[queue[i]] = Wrap(serving + i - 1)
    <3>1. \A i \in 1 .. Len(queue) : serving + (i - 1) = serving + i - 1
      BY <2>1
    <3> QED
      BY <3>1 DEF IInv, Order
  <2>4. \A t \in Threads : pc[t] = "cs" => queue # <<>> /\ Head(queue) = t
    BY <2>1, Rest DEF IInv, Order
  <2> QED
    BY <2>2, <2>3, <2>4 DEF TicketsInOrder, Turn, Wrap
<1> QED
  BY <1>1, Inductive, PTL

MutualExclusion == \A t, u \in Threads : pc[t] = "cs" /\ pc[u] = "cs" => t = u

\* At most one thread is between operator() or try_lock() and unlock(): a
\* try_lock() that loaded serving long ago never takes a ticket ahead of others.
THEOREM Exclusion ==
  ASSUME Sizes
  PROVE  Spec => []MutualExclusion
<1>1. IInv => MutualExclusion
  BY DEF IInv, Order, MutualExclusion
<1> QED
  BY <1>1, Inductive, PTL
================================================================================
