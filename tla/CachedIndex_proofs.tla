-------------------------- MODULE CachedIndex_proofs ---------------------------
(***************************************************************************)
(* The two queues whose threads work with an index they read some time ago: *)
(* the one-to-one ring, where each side remembers the other's, and the     *)
(* work-stealing deque, where the owner remembers top and a thief reads an *)
(* item before it knows whether the item is its own.  Each has an          *)
(* inductive invariant, for every number of thieves, slots and items,      *)
(* remembering or not, growing or not.  Queues_proofs states the theorems. *)
(***************************************************************************)
EXTENDS ChaseLev, TLAPS

CONSTANTS Producer, Consumer, PairCap, MaxBatch, MaxPairItems

VARIABLES caches, head, tail, cachedHead, cachedTail, cell, count

Pair == INSTANCE SpscRing WITH Cap <- PairCap, MaxItems <- MaxPairItems

\* The rings have a slot, and no thread is on both sides.
Sizes ==
  /\ InitCap \in Nat \ {0} /\ MaxItems \in Nat /\ Owner \notin Thieves
  /\ PairCap \in Nat \ {0} /\ {MaxBatch, MaxPairItems} \subseteq Nat /\ Producer # Consumer

\* A function on 1 .. n is a sequence.
LEMMA Made ==
  ASSUME NEW S, NEW n \in Nat, NEW s \in [1 .. n -> S]
  PROVE  s \in Seq(S) /\ Len(s) = n
OBVIOUS

\* Indices less than a lap apart have different slots.
LEMMA SlotsApart ==
  ASSUME NEW c \in Nat \ {0}, NEW a \in Nat, NEW b \in Nat,
         a <= b, b - a < c, a % c = b % c
  PROVE  a = b
<1>1. a = ((a \div c) * c) + (a % c) /\ a \div c \in Nat
  OBVIOUS
<1>2. b = ((b \div c) * c) + (b % c) /\ b \div c \in Nat
  OBVIOUS
<1>3. PICK p \in Nat : a = (p * c) + (a % c)
  BY <1>1
<1>4. PICK q \in Nat : b = (q * c) + (b % c)
  BY <1>2
<1>5. a % c \in Nat /\ p * c \in Nat /\ q * c \in Nat
  OBVIOUS
<1>6. b - a = q * c - p * c
  BY <1>3, <1>4, <1>5
<1>7. q * c - p * c = (q - p) * c
  OBVIOUS
<1>8. q - p >= 1 => (q - p) * c >= c
  OBVIOUS
<1>9. q - p <= -1 => (q - p) * c <= -c
  OBVIOUS
<1> QED
  BY <1>6, <1>7, <1>8, <1>9

--------------------------------------------------------------------------------
(* The one-to-one ring. *)

\* The two sides of the one-to-one ring and where they can be.
PairSides == {Producer, Consumer}
PairPlaces == {"idle", "refresh", "fill", "publish", "copy", "release"}

\* The types, without the bounds on the indices.
PairShapes ==
  /\ head \in Nat /\ tail \in Nat /\ cachedHead \in Nat /\ cachedTail \in Nat
  /\ pushed \in Nat
  /\ cell \in [Pair!Cells -> Int]
  /\ pc \in [PairSides -> PairPlaces]
  /\ count \in [PairSides -> Nat]

\* The room the producer has found is there, counted from the head it remembers.
PairRoomFound ==
  pc[Producer] \in {"fill", "publish"} => tail + count[Producer] - cachedHead <= PairCap

\* The items the consumer has found are there, whether it remembers the tail or not.
PairItemsFound == Pair!Front <= tail

\* The end of what is in the slots, published or about to be.
PairFilled == IF pc[Producer] = "publish" THEN tail + count[Producer] ELSE tail

\* The slots from head on hold the numbers of the items pushed last.
PairContents == \A i \in head .. PairFilled - 1 : cell[i % PairCap] = pushed - (PairFilled - 1 - i)

\* The inductive part, without the bounds.
PairCore == PairShapes /\ Pair!MemoryUsable /\ PairRoomFound /\ PairItemsFound /\ PairContents

\* What a side is about to move is a batch, and the numbers stay within the bounds.
PairBounds ==
  /\ PairFilled <= pushed
  /\ pushed + (IF pc[Producer] \in {"refresh", "fill"} THEN count[Producer] ELSE 0) <= MaxPairItems
  /\ caches \in BOOLEAN /\ (~caches => cachedTail = 0)
  /\ cell \in [Pair!Cells -> 0 .. MaxPairItems]
  /\ \A s \in PairSides : count[s] <= MaxBatch /\ (pc[s] # "idle" => count[s] > 0)
  /\ pc[Producer] \in {"idle", "refresh", "fill", "publish"}
  /\ pc[Consumer] \in {"idle", "refresh", "copy", "release"}

\* The inductive invariant of the one-to-one ring.
PairIInv == PairCore /\ PairBounds

\* The least of two numbers.
LEMMA PairSmaller ==
  ASSUME NEW a \in Int, NEW b \in Int
  PROVE  Pair!Min({a, b}) = IF a <= b THEN a ELSE b
<1>1. CASE a <= b
  <2>1. \A x \in {a, b} : (\A y \in {a, b} : x =< y) => x = a
    BY <1>1
  <2>2. \A y \in {a, b} : a =< y
    BY <1>1
  <2> QED
    BY <1>1, <2>1, <2>2 DEF Pair!Min
<1>2. CASE ~(a <= b)
  <2>1. \A x \in {a, b} : (\A y \in {a, b} : x =< y) => x = b
    BY <1>2
  <2>2. \A y \in {a, b} : b =< y
    BY <1>2
  <2> QED
    BY <1>2, <2>1, <2>2 DEF Pair!Min
<1> QED
  BY <1>1, <1>2

\* An index has a slot.
LEMMA PairSlotOf ==
  ASSUME PairCap \in Nat \ {0}, NEW a \in Nat
  PROVE  a % PairCap \in Pair!Cells
  BY DEF Pair!Cells

\* A step that leaves the slots, the numbers and the end of what is filled alone,
\* and moves head forward at most, keeps the contents.
LEMMA PairContentsStay ==
  ASSUME Sizes, PairCore, cell' = cell, pushed' = pushed, PairFilled' = PairFilled, head' \in Nat, head' >= head
  PROVE  PairContents'
<1>1. PairFilled \in Nat
  BY DEF PairCore, PairShapes, PairFilled, PairSides
<1>2. \A i \in head' .. PairFilled - 1 : i \in head .. PairFilled - 1
  BY <1>1 DEF PairCore, PairShapes
<1>3. \A i \in head .. PairFilled - 1 : cell[i % PairCap] = pushed - (PairFilled - 1 - i)
  BY DEF PairCore, PairContents
<1> QED
  BY <1>2, <1>3 DEF PairContents

\* The slots being filled are none of those with an item, and each gets its own.
LEMMA PairFillStep ==
  ASSUME Sizes, PairCore, Pair!PushFill
  PROVE  PairCore'
<1> DEFINE n == count[Producer]
           At(k) == (tail + k - 1) % PairCap
<1>1. /\ n \in Nat /\ head \in Nat /\ tail \in Nat /\ pushed \in Nat /\ head <= tail
      /\ cell \in [Pair!Cells -> Int] /\ PairCap \in Nat \ {0}
  BY DEF Sizes, PairCore, PairShapes, Pair!MemoryUsable, PairSides
<1>2. tail + n - head <= PairCap
  <2>1. tail + n - cachedHead <= PairCap
    BY DEF Pair!PushFill, PairCore, PairRoomFound
  <2> QED
    BY <1>1, <2>1 DEF PairCore, Pair!MemoryUsable, PairShapes
<1>3. /\ pc' = [pc EXCEPT ![Producer] = "publish"]
      /\ count' = [count EXCEPT ![Producer] = n]
      /\ pushed' = pushed + n
      /\ UNCHANGED <<caches, head, tail, cachedHead, cachedTail>>
  BY DEF Pair!PushFill, Pair!Go
<1>4. cell' = [i \in Pair!Cells |->
        IF \E k \in 1 .. n : At(k) = i
        THEN pushed + (CHOOSE k \in 1 .. n : At(k) = i)
        ELSE cell[i]]
  BY DEF Pair!PushFill
<1>5. PairShapes'
  <2>1. cell' \in [Pair!Cells -> Int]
    <3>1. ASSUME NEW i \in Pair!Cells, \E k \in 1 .. n : At(k) = i
          PROVE  (CHOOSE k \in 1 .. n : At(k) = i) \in 1 .. n
      BY <3>1
    <3>2. \A i \in Pair!Cells : (\E k \in 1 .. n : At(k) = i) =>
                             pushed + (CHOOSE k \in 1 .. n : At(k) = i) \in Int
      BY <3>1, <1>1
    <3> HIDE DEF At, n
    <3> QED
      BY <1>1, <1>4, <3>2
  <2> QED
    BY <1>1, <1>3, <2>1 DEF PairCore, PairShapes, PairSides, PairPlaces
<1>6. Pair!MemoryUsable' /\ PairItemsFound'
  BY <1>3 DEF Sizes, PairCore, PairShapes, PairSides, PairPlaces, Pair!MemoryUsable, PairItemsFound, Pair!Front
<1>7. PairRoomFound'
  BY <1>3, <1>1 DEF Sizes, Pair!PushFill, PairCore, PairShapes, PairSides, PairPlaces, PairRoomFound
<1>8. PairFilled' = tail + n /\ PairFilled = tail
  BY <1>3 DEF Sizes, Pair!PushFill, PairCore, PairShapes, PairSides, PairPlaces, PairFilled
<1>9. PairContents'
  <2> SUFFICES ASSUME NEW i \in head .. (tail + n) - 1
               PROVE  cell'[i % PairCap] = (pushed + n) - ((tail + n) - 1 - i)
    BY <1>3, <1>8 DEF PairContents
  <2>1. i \in Nat /\ i % PairCap \in Pair!Cells
    BY <1>1, PairSlotOf
  <2>2. ASSUME NEW k \in 1 .. n, At(k) = i % PairCap
        PROVE  i = tail + k - 1
    <3>1. PICK j \in Nat : j = tail + k - 1
      BY <1>1
    <3>2. j % PairCap = i % PairCap
      BY <2>2, <3>1
    <3>3. i - j < PairCap /\ j - i < PairCap
      BY <1>1, <1>2, <2>1, <3>1
    <3>4. i <= j \/ j <= i
      BY <2>1
    <3>5. i = j
      BY <1>1, <2>1, <3>2, <3>3, <3>4, SlotsApart
    <3> QED
      BY <3>1, <3>5
  <2>3. CASE i < tail
    <3>1. ~\E k \in 1 .. n : At(k) = i % PairCap
      BY <2>2, <2>3, <1>1
    <3>2. cell'[i % PairCap] = cell[i % PairCap]
      BY <1>4, <2>1, <3>1
    <3>3. \A j \in head .. tail - 1 : cell[j % PairCap] = pushed - (tail - 1 - j)
      BY <1>8 DEF PairCore, PairContents
    <3>4. cell[i % PairCap] = pushed - (tail - 1 - i)
      BY <1>1, <2>1, <2>3, <3>3
    <3> QED
      BY <1>1, <2>1, <3>2, <3>4
  <2>4. CASE i >= tail
    <3>1. (i - tail) + 1 \in 1 .. n /\ tail + ((i - tail) + 1) - 1 = i
      BY <1>1, <2>1, <2>4
    <3>2. \E k \in 1 .. n : At(k) = i % PairCap
      BY <3>1
    <3>3. PICK m \in 1 .. n : m = (CHOOSE k \in 1 .. n : At(k) = i % PairCap) /\ At(m) = i % PairCap
      BY <3>2
    <3>4. i = tail + m - 1
      BY <3>3, <2>2
    <3>5. cell'[i % PairCap] = pushed + m
      BY <1>4, <2>1, <3>2, <3>3
    <3> QED
      BY <1>1, <2>1, <3>4, <3>5
  <2> QED
    BY <1>1, <2>1, <2>3, <2>4
<1> QED
  BY <1>5, <1>6, <1>7, <1>9 DEF PairCore

\* Every other step leaves the slots alone.
LEMMA PairOtherStep ==
  ASSUME Sizes, PairCore, Pair!Next \/ UNCHANGED Pair!vars, ~Pair!PushFill
  PROVE  PairCore'
<1> USE DEF Sizes, PairCore, PairShapes, PairSides, PairPlaces
<1>1. CASE Pair!PushCall
  <2>1. PICK n \in 1 .. MaxBatch :
          /\ pc[Producer] = "idle"
          /\ Pair!Go(Producer, IF Pair!Avail(cachedHead) < n THEN "refresh" ELSE "fill", n)
          /\ UNCHANGED <<caches, head, tail, cachedHead, cachedTail, cell, pushed>>
    BY <1>1 DEF Pair!PushCall
  <2>2. PairShapes' /\ Pair!MemoryUsable' /\ PairItemsFound'
    BY <2>1 DEF Pair!Go, Pair!MemoryUsable, PairItemsFound, Pair!Front
  <2>3. PairRoomFound'
    BY <2>1 DEF Pair!Go, PairRoomFound, Pair!Avail
  <2>4. PairContents'
    BY <2>1, PairContentsStay DEF Pair!Go, PairFilled
  <2> QED
    BY <2>2, <2>3, <2>4
<1>2. CASE Pair!PushRefresh
  <2> DEFINE n == Pair!Min({Pair!Avail(head), count[Producer]})
  <2>1. /\ pc[Producer] = "refresh"
        /\ cachedHead' = head
        /\ Pair!Go(Producer, IF n = 0 THEN "idle" ELSE "fill", n)
        /\ UNCHANGED <<caches, head, tail, cachedTail, cell, pushed>>
    BY <1>2 DEF Pair!PushRefresh
  <2>2. Pair!Avail(head) \in Nat
    BY DEF Pair!Avail, Pair!MemoryUsable
  <2>3. n = IF Pair!Avail(head) <= count[Producer] THEN Pair!Avail(head) ELSE count[Producer]
    BY <2>2, PairSmaller
  <2> HIDE DEF n
  <2>4. n \in Nat /\ n <= PairCap - (tail - head)
    BY <2>2, <2>3 DEF Pair!Avail
  <2>5. PairShapes' /\ Pair!MemoryUsable' /\ PairItemsFound'
    BY <2>1, <2>4 DEF Pair!Go, Pair!MemoryUsable, PairItemsFound, Pair!Front
  <2>6. PairRoomFound'
    BY <2>1, <2>4 DEF Pair!Go, PairRoomFound
  <2>7. PairContents'
    BY <2>1, PairContentsStay DEF Pair!Go, PairFilled
  <2> QED
    BY <2>5, <2>6, <2>7
<1>3. CASE Pair!PushPublish
  <2>1. PairShapes' /\ Pair!MemoryUsable' /\ PairItemsFound' /\ PairRoomFound'
    BY <1>3 DEF Pair!PushPublish, Pair!Go, Pair!MemoryUsable, PairItemsFound, PairRoomFound, Pair!Front
  <2>2. PairContents'
    BY <1>3, PairContentsStay DEF Pair!PushPublish, Pair!Go, PairFilled
  <2> QED
    BY <2>1, <2>2
<1>4. CASE Pair!PopCall
  <2>1. PICK n \in 1 .. MaxBatch :
          /\ pc[Consumer] = "idle"
          /\ Pair!Go(Consumer, IF caches /\ cachedTail - head >= n THEN "copy" ELSE "refresh", n)
          /\ UNCHANGED <<caches, head, tail, cachedHead, cachedTail, cell, pushed>>
    BY <1>4 DEF Pair!PopCall
  <2>2. PairShapes' /\ Pair!MemoryUsable' /\ PairItemsFound' /\ PairRoomFound'
    BY <2>1 DEF Pair!Go, Pair!MemoryUsable, PairItemsFound, PairRoomFound, Pair!Front
  <2>3. PairContents'
    BY <2>1, PairContentsStay DEF Pair!Go, PairFilled
  <2> QED
    BY <2>2, <2>3
<1>5. CASE Pair!PopRefresh
  <2> DEFINE n == Pair!Min({tail - head, count[Consumer]})
  <2>1. /\ pc[Consumer] = "refresh"
        /\ cachedTail' = IF caches THEN tail ELSE 0
        /\ Pair!Go(Consumer, IF n = 0 THEN "idle" ELSE "copy", n)
        /\ UNCHANGED <<caches, head, tail, cachedHead, cell, pushed>>
    BY <1>5 DEF Pair!PopRefresh
  <2>2. n = IF tail - head <= count[Consumer] THEN tail - head ELSE count[Consumer]
    BY PairSmaller
  <2> HIDE DEF n
  <2>3. n \in Nat /\ n <= tail - head
    BY <2>2 DEF Pair!MemoryUsable
  <2>4. PairShapes' /\ Pair!MemoryUsable' /\ PairItemsFound' /\ PairRoomFound'
    BY <2>1, <2>3 DEF Pair!Go, Pair!MemoryUsable, PairItemsFound, PairRoomFound, Pair!Front
  <2>5. PairContents'
    BY <2>1, PairContentsStay DEF Pair!Go, PairFilled
  <2> QED
    BY <2>4, <2>5
<1>6. CASE Pair!PopCopy
  <2>1. PairShapes' /\ Pair!MemoryUsable' /\ PairItemsFound' /\ PairRoomFound'
    BY <1>6 DEF Pair!PopCopy, Pair!Go, Pair!MemoryUsable, PairItemsFound, PairRoomFound, Pair!Front
  <2>2. PairContents'
    BY <1>6, PairContentsStay DEF Pair!PopCopy, Pair!Go, PairFilled
  <2> QED
    BY <2>1, <2>2
<1>7. CASE Pair!PopRelease
  <2>1. head' = Pair!Front /\ Pair!Front' = Pair!Front /\ head' \in Nat /\ head' >= head
    BY <1>7 DEF Pair!PopRelease, Pair!Go, Pair!Front
  <2>2. PairShapes' /\ PairRoomFound'
    BY <1>7, <2>1 DEF Pair!PopRelease, Pair!Go, PairRoomFound
  <2>3. Pair!MemoryUsable' /\ PairItemsFound'
    BY <1>7, <2>1 DEF Pair!PopRelease, Pair!MemoryUsable, PairItemsFound
  <2>4. PairFilled' = PairFilled
    BY <1>7 DEF Pair!PopRelease, Pair!Go, PairFilled
  <2>5. PairContents'
    BY <1>7, <2>1, <2>4, PairContentsStay DEF Pair!PopRelease
  <2> QED
    BY <2>2, <2>3, <2>5
<1>8. CASE Pair!Clear
  <2>1. cell' \in [Pair!Cells -> Int]
    BY <1>8 DEF Pair!Clear
  <2>2. PairShapes' /\ Pair!MemoryUsable' /\ PairItemsFound' /\ PairRoomFound'
    BY <1>8, <2>1 DEF Pair!Clear, Pair!MemoryUsable, PairItemsFound, PairRoomFound, Pair!Front
  <2>3. head' = 0 /\ PairFilled' = 0
    BY <1>8 DEF Pair!Clear, PairFilled
  <2>4. PairContents'
    BY <2>3 DEF PairContents
  <2> QED
    BY <2>2, <2>4
<1>9. CASE UNCHANGED Pair!vars
  BY <1>9 DEF Pair!vars, Pair!MemoryUsable, PairRoomFound, PairItemsFound, Pair!Front, PairContents, PairFilled
<1> QED
  BY <1>1, <1>2, <1>3, <1>4, <1>5, <1>6, <1>7, <1>8, <1>9 DEF Pair!Next

\* No step leaves the bounds.
LEMMA PairBoundsStep ==
  ASSUME Sizes, PairIInv, Pair!Next \/ UNCHANGED Pair!vars
  PROVE  PairBounds'
<1> USE DEF Sizes, PairIInv, PairCore, PairShapes, PairSides, PairPlaces, PairBounds, Pair!Go, PairFilled
<1>1. CASE Pair!PushCall
  BY <1>1 DEF Pair!PushCall
<1>2. CASE Pair!PushRefresh
  <2> DEFINE n == Pair!Min({Pair!Avail(head), count[Producer]})
  <2>1. Pair!Avail(head) \in Nat
    BY DEF Pair!Avail, Pair!MemoryUsable
  <2>2. n \in Nat /\ n <= count[Producer]
    BY <2>1, PairSmaller
  <2>3. /\ pc[Producer] = "refresh"
        /\ Pair!Go(Producer, IF n = 0 THEN "idle" ELSE "fill", n)
        /\ UNCHANGED <<caches, head, tail, cachedTail, cell, pushed>>
    BY <1>2 DEF Pair!PushRefresh
  <2> HIDE DEF n
  <2> QED
    BY <2>2, <2>3
<1>3. CASE Pair!PushFill
  <2> DEFINE n == count[Producer]
             At(i, k) == (tail + k - 1) % PairCap = i
  <2>1. /\ pc[Producer] = "fill" /\ Pair!Go(Producer, "publish", n)
        /\ UNCHANGED <<caches, head, tail, cachedTail>> /\ pushed' = pushed + n
    BY <1>3 DEF Pair!PushFill
  <2>2. cell' = [i \in Pair!Cells |->
          IF \E k \in 1 .. n : At(i, k) THEN pushed + (CHOOSE k \in 1 .. n : At(i, k)) ELSE cell[i]]
    BY <1>3 DEF Pair!PushFill
  <2>3. \A i \in Pair!Cells : (\E k \in 1 .. n : At(i, k)) => (CHOOSE k \in 1 .. n : At(i, k)) \in 1 .. n
    OBVIOUS
  <2>4. \A m \in 1 .. n : pushed + m \in 0 .. MaxPairItems
    BY <2>1
  <2> HIDE DEF At
  <2>5. cell' \in [Pair!Cells -> 0 .. MaxPairItems]
    <3> HIDE DEF n
    <3> QED
      BY <2>2, <2>3, <2>4
  <2> QED
    BY <2>1, <2>5
<1>4. CASE Pair!PushPublish
  BY <1>4 DEF Pair!PushPublish
<1>5. CASE Pair!PopCall
  BY <1>5 DEF Pair!PopCall
<1>6. CASE Pair!PopRefresh
  <2> DEFINE n == Pair!Min({tail - head, count[Consumer]})
  <2>1. n \in Nat /\ n <= count[Consumer]
    BY PairSmaller DEF Pair!MemoryUsable
  <2>2. /\ pc[Consumer] = "refresh" /\ cachedTail' = IF caches THEN tail ELSE 0
        /\ Pair!Go(Consumer, IF n = 0 THEN "idle" ELSE "copy", n)
        /\ UNCHANGED <<caches, head, tail, cell, pushed>>
    BY <1>6 DEF Pair!PopRefresh
  <2> HIDE DEF n
  <2> QED
    BY <2>1, <2>2
<1>7. CASE Pair!PopCopy \/ Pair!PopRelease
  BY <1>7 DEF Pair!PopCopy, Pair!PopRelease
<1>8. CASE Pair!Clear
  BY <1>8 DEF Pair!Clear
<1>9. CASE UNCHANGED Pair!vars
  BY <1>9 DEF Pair!vars
<1> QED
  BY <1>1, <1>2, <1>3, <1>4, <1>5, <1>6, <1>7, <1>8, <1>9 DEF Pair!Next

\* The empty ring.
LEMMA PairInit ==
  ASSUME Sizes, Pair!Init
  PROVE  PairIInv
<1>1. cell \in [Pair!Cells -> Int] /\ cell \in [Pair!Cells -> 0 .. MaxPairItems]
  BY DEF Sizes, Pair!Init
<1>2. PairShapes
  BY <1>1 DEF Pair!Init, PairShapes, PairSides, PairPlaces
<1>3. Pair!MemoryUsable /\ PairRoomFound /\ PairItemsFound
  BY DEF Sizes, Pair!Init, Pair!MemoryUsable, PairRoomFound, PairItemsFound, Pair!Front
<1>4. head = 0 /\ tail = 0 /\ Pair!Front = 0 /\ PairFilled = 0
  BY DEF Pair!Init, PairFilled, Pair!Front
<1>5. PairContents
  BY <1>4 DEF PairContents
<1>6. PairBounds
  BY <1>1, <1>4 DEF Sizes, Pair!Init, PairBounds, PairSides
<1>7. PairCore
  BY <1>2, <1>3, <1>5 DEF PairCore
<1> QED
  BY <1>6, <1>7 DEF PairIInv

\* The invariant implies the types.
LEMMA PairTypes ==
  ASSUME Sizes, PairIInv
  PROVE  Pair!TypeOK
<1> USE DEF Sizes, PairIInv, PairCore, PairShapes, PairSides, PairBounds
<1>1. head <= MaxPairItems /\ tail <= MaxPairItems /\ cachedHead <= MaxPairItems /\ pushed <= MaxPairItems
  BY DEF Pair!MemoryUsable, PairFilled
<1>2. cachedTail <= MaxPairItems
  BY <1>1 DEF Pair!MemoryUsable
<1>3. count \in [{Producer, Consumer} -> 0 .. MaxBatch]
  OBVIOUS
<1>4. {head, tail, cachedHead, cachedTail, pushed} \subseteq 0 .. MaxPairItems
  BY <1>1, <1>2
<1> QED
  BY <1>3, <1>4 DEF Pair!TypeOK

\* Every step of the one-to-one ring keeps its invariant.
LEMMA PairStep ==
  ASSUME Sizes, PairIInv, Pair!Next \/ UNCHANGED Pair!vars
  PROVE  PairIInv'
<1>1. PairCore'
  BY PairFillStep, PairOtherStep DEF PairIInv
<1>2. PairBounds'
  BY PairBoundsStep
<1> QED
  BY <1>1, <1>2 DEF PairIInv

--------------------------------------------------------------------------------
(* The work-stealing deque. *)

\* What a slot may hold: nothing, or the number of an item.
Numbers == 0 .. MaxItems

\* The slots of the ring in use.
Capacity == CapOf(Current)

\* The types, without the bounds.
Shapes ==
  /\ bottom \in Int /\ top \in Nat /\ topCache \in Nat /\ pushed \in Nat
  /\ rings \in Seq(Seq(Numbers)) /\ rings # <<>> /\ Capacity > 0
  /\ pc \in [Threads -> OwnerPCs \cup ThiefPCs]
  /\ pc[Owner] \in OwnerPCs
  /\ t \in [Threads -> Int]

\* What the owner's memory of top is worth: it is never ahead of top, and the
\* room counted from it is there.
CacheUseful ==
  /\ topCache <= top
  /\ top <= Back
  /\ Back - topCache <= Capacity
  /\ pc[Owner] \in {"publish", "room"} => bottom - topCache < Capacity

\* The pop of a last item: top is at the item or, if a thief won, just past it.
PopUndecided ==
  /\ pc[Owner] = "popcas" => t[Owner] = bottom /\ bottom <= top
  /\ EmptyAgreed

\* A thief that may still win has its eyes on an item of the deque.
ThievesBehind ==
  \A th \in Thieves :
    /\ pc[th] \in ThiefPCs
    /\ pc[th] # "idle" => t[th] <= top
    /\ pc[th] \in {"base", "slot", "take"} /\ t[th] = top => top < Back

\* The part that says nothing of the contents of the slots.
Core == Shapes /\ CacheUseful /\ PopUndecided /\ ThievesBehind

--------------------------------------------------------------------------------
\* Storing to a slot keeps a ring the ring it is.
LEMMA Stored ==
  ASSUME NEW S, NEW s \in Seq(S), NEW k \in 1 .. Len(s), NEW e \in S
  PROVE  /\ [s EXCEPT ![k] = e] \in Seq(S)
         /\ Len([s EXCEPT ![k] = e]) = Len(s)
         /\ [s EXCEPT ![k] = e][k] = e
<1>1. Len(s) \in Nat /\ s \in [1 .. Len(s) -> S]
  OBVIOUS
<1>2. [s EXCEPT ![k] = e] \in [1 .. Len(s) -> S] /\ [s EXCEPT ![k] = e][k] = e
  BY <1>1
<1> QED
  BY <1>1, <1>2, Made

\* An index wraps into the ring.
LEMMA Wraps ==
  ASSUME NEW i \in Int, NEW c \in Nat \ {0}
  PROVE  (i % c) + 1 \in 1 .. c
OBVIOUS

\* Indices less than a lap apart have different places.
LEMMA PlacesApart ==
  ASSUME NEW c \in Nat \ {0}, NEW a \in Nat, NEW b \in Nat, a < b, b - a < c
  PROVE  (a % c) + 1 \in 1 .. c /\ (b % c) + 1 \in 1 .. c /\ (a % c) + 1 # (b % c) + 1
<1>1. a % c # b % c
  <2> SUFFICES ASSUME a % c = b % c PROVE FALSE
    OBVIOUS
  <2>1. a <= b
    OBVIOUS
  <2>2. a = b
    BY <2>1, SlotsApart
  <2> QED
    BY <2>2
<1>2. a % c \in 0 .. c - 1 /\ b % c \in 0 .. c - 1
  OBVIOUS
<1> QED
  BY <1>1, <1>2

\* The last element of a sequence with one appended.
LEMMA Grown ==
  ASSUME NEW S, NEW s \in Seq(S), NEW e \in S
  PROVE  /\ Append(s, e) \in Seq(S) /\ Append(s, e) # <<>>
         /\ Append(s, e)[Len(Append(s, e))] = e
OBVIOUS

\* The current ring.
LEMMA CurrentRing ==
  ASSUME Sizes, Shapes
  PROVE  /\ Current \in 1 .. Len(rings)
         /\ rings[Current] \in Seq(Numbers)
         /\ Capacity = Len(rings[Current]) /\ Capacity \in Nat \ {0}
BY DEF Shapes, Capacity, CapOf, Current

\* A store leaves the capacity as it is.
LEMMA PushKeepsCapacity ==
  ASSUME Sizes, Shapes, PushSlot
  PROVE  rings' \in Seq(Seq(Numbers)) /\ rings' # <<>> /\ Capacity' = Capacity
<1> DEFINE k == (bottom % Capacity) + 1
           s == [rings[Current] EXCEPT ![k] = pushed + 1]
<1>1. k \in 1 .. Capacity
  BY CurrentRing, Wraps DEF Shapes
<1>2. s \in Seq(Numbers) /\ Len(s) = Capacity
  <2> HIDE DEF k
  <2>1. pushed + 1 \in Numbers
    BY DEF Sizes, Shapes, Numbers, PushSlot
  <2> QED
    BY <1>1, <2>1, CurrentRing, Stored
<1>3. rings' = [rings EXCEPT ![Current] = s]
  BY CurrentRing DEF PushSlot, Capacity
<1> HIDE DEF s
<1>4. rings' \in Seq(Seq(Numbers)) /\ Len(rings') = Len(rings) /\ rings'[Current] = s
  BY <1>2, <1>3, CurrentRing, Stored DEF Shapes
<1> QED
  BY <1>2, <1>4, CurrentRing DEF Capacity, CapOf, Current

\* Growing doubles it.
LEMMA GrowDoublesCapacity ==
  ASSUME Sizes, Shapes, Grow
  PROVE  rings' \in Seq(Seq(Numbers)) /\ rings' # <<>> /\ Capacity' = 2 * Capacity
<1> DEFINE cap == 2 * CapOf(Current)
           live == topCache .. bottom - 1
           from(k) == CHOOSE i \in live : i % cap = k - 1
           s == [k \in 1 .. cap |-> IF \E i \in live : i % cap = k - 1
                                    THEN Slot(Current, from(k)) ELSE MakeSeg(cap)[k]]
<1>1. cap = 2 * Capacity /\ cap \in Nat
  BY CurrentRing DEF Capacity
<1>2. ASSUME NEW i \in Int
      PROVE  Slot(Current, i) \in Numbers
  BY CurrentRing, Wraps DEF Slot, Capacity
<1>3. s \in [1 .. cap -> Numbers]
  <2>1. ASSUME NEW k \in 1 .. cap, \E i \in live : i % cap = k - 1
        PROVE  Slot(Current, from(k)) \in Numbers
    <3>1. from(k) \in live
      BY <2>1
    <3>2. live \subseteq Int
      BY DEF Shapes
    <3> QED
      BY <3>1, <3>2, <1>2
  <2>2. ASSUME NEW k \in 1 .. cap
        PROVE  MakeSeg(cap)[k] \in Numbers
    BY DEF Sizes, MakeSeg, Empty, Numbers
  <2> HIDE DEF live, cap, from
  <2> QED
    BY <2>1, <2>2
<1>4. rings' = Append(rings, s)
  BY DEF Grow
<1> HIDE DEF s, cap
<1>5. s \in Seq(Numbers) /\ Len(s) = cap
  BY <1>1, <1>3, Made
<1>6. /\ rings' \in Seq(Seq(Numbers)) /\ rings' # <<>>
      /\ rings'[Len(rings')] = s
  <2>1. rings \in Seq(Seq(Numbers))
    BY DEF Shapes
  <2>2. s \in Seq(Numbers)
    BY <1>5
  <2>3. /\ Append(rings, s) \in Seq(Seq(Numbers)) /\ Append(rings, s) # <<>>
        /\ Append(rings, s)[Len(Append(rings, s))] = s
    BY ONLY <2>1, <2>2, Grown
  <2> QED
    BY ONLY <1>4, <2>3
<1> QED
  BY <1>1, <1>5, <1>6 DEF Capacity, CapOf, Current

--------------------------------------------------------------------------------
\* The steps that store to or replace a ring, and the rest.
LEMMA ShapesStep ==
  ASSUME Sizes, Core, Next \/ UNCHANGED vars
  PROVE  Shapes'
<1> USE DEF Shapes, OwnerPCs, ThiefPCs, Threads, words, locals
<1>1. Capacity \in Nat \ {0}
  BY CurrentRing DEF Core
<1>2. CASE PushSlot
  <2>1. rings' \in Seq(Seq(Numbers)) /\ rings' # <<>> /\ Capacity' > 0
    BY <1>1, <1>2, PushKeepsCapacity DEF Core
  <2> QED
    BY <1>2, <2>1 DEF Core, PushSlot, Goto
<1>3. CASE Grow
  <2>1. rings' \in Seq(Seq(Numbers)) /\ rings' # <<>> /\ Capacity' > 0
    BY <1>1, <1>3, GrowDoublesCapacity DEF Core
  <2> QED
    BY <1>3, <2>1 DEF Core, Grow, Goto
<1>4. ASSUME UNCHANGED rings
      PROVE  rings' \in Seq(Seq(Numbers)) /\ rings' # <<>> /\ Capacity' > 0
  BY <1>4 DEF Core, Capacity, CapOf, Current
<1>5. CASE PushPublish \/ PushFull \/ PopDec
  BY <1>4, <1>5 DEF Core, PushPublish, PushFull, PopDec, Goto, Return
<1>6. CASE PopTop \/ PopCas \/ PopRestore
  <2>1. CASE PopTop
    BY <1>4, <2>1 DEF Core, PopTop, Goto, Return
  <2>2. CASE PopCas
    BY <1>4, <2>2 DEF Core, PopCas, Goto
  <2>3. CASE PopRestore
    BY <1>4, <2>3 DEF Core, PopRestore, Goto, Return
  <2> QED
    BY <1>6, <2>1, <2>2, <2>3
<1>7. ASSUME NEW th \in Thieves, Stealing(th)
      PROVE  Shapes'
  <2>1. th # Owner
    BY DEF Sizes
  <2>2. CASE StealTop(th)
    BY <1>4, <2>1, <2>2 DEF Core, StealTop, Goto
  <2>3. CASE StealBottom(th)
    <3>1. CASE Return(th)
      BY <1>4, <2>1, <2>3, <3>1 DEF Core, StealBottom, Goto, Return
    <3>2. CASE Goto(th, "base") /\ UNCHANGED locals
      BY <1>4, <2>1, <2>3, <3>2 DEF Core, StealBottom, Goto
    <3> QED
      BY <2>3, <3>1, <3>2 DEF StealBottom
  <2>4. CASE StealBase(th) \/ StealSlot(th)
    BY <1>4, <2>1, <2>4 DEF Core, StealBase, StealSlot, Goto
  <2>5. CASE StealTake(th)
    BY <1>4, <2>1, <2>5 DEF Core, StealTake, Goto, Return
  <2>6. CASE StealLost(th)
    BY <1>4, <2>1, <2>6 DEF Core, StealLost, Goto, Return
  <2> QED
    BY <1>7, <2>2, <2>3, <2>4, <2>5, <2>6 DEF Stealing
<1>8. CASE UNCHANGED vars
  BY <1>4, <1>8 DEF Core, vars
<1> QED
  BY <1>2, <1>3, <1>5, <1>6, <1>7, <1>8 DEF Next, Owning

\* What the capacity does in a step, for the arithmetic that follows.
LEMMA CapacityStep ==
  ASSUME Sizes, Shapes, Next \/ UNCHANGED vars
  PROVE  /\ Capacity \in Nat \ {0}
         /\ Grow => Capacity' = 2 * Capacity
         /\ PushSlot => Capacity' = Capacity
         /\ UNCHANGED rings => Capacity' = Capacity
BY CurrentRing, PushKeepsCapacity, GrowDoublesCapacity DEF Capacity, CapOf, Current

\* One step keeps the three arithmetic parts.
LEMMA CoreStep ==
  ASSUME Sizes, Core, Next \/ UNCHANGED vars
  PROVE  Core'
<1> DEFINE Rest == CacheUseful /\ PopUndecided /\ ThievesBehind
<1> USE DEF Shapes, CacheUseful, PopUndecided, ThievesBehind, EmptyAgreed, Back, Core,
            OwnerPCs, ThiefPCs, Threads, words, locals
<1>1. Shapes'
  BY ShapesStep
<1>2. /\ Capacity \in Nat \ {0}
      /\ Grow => Capacity' = 2 * Capacity
      /\ PushSlot => Capacity' = Capacity
      /\ UNCHANGED rings => Capacity' = Capacity
  BY CapacityStep
<1>3. \A th \in Thieves : th # Owner
  BY DEF Sizes
<1>4. CASE PushSlot
  <2>1. /\ pc' = [pc EXCEPT ![Owner] = "publish"]
        /\ UNCHANGED <<bottom, top, topCache, t>>
        /\ (pc[Owner] = "idle" /\ bottom - topCache < Capacity) \/ pc[Owner] = "room"
    BY <1>4 DEF PushSlot, Goto, Capacity
  <2> QED
    BY <1>1, <1>2, <1>3, <1>4, <2>1
<1>5. CASE PushPublish
  BY <1>2, <1>3, <1>5 DEF PushPublish, Goto, Return
<1>6. CASE PushFull
  BY <1>2, <1>3, <1>6 DEF PushFull, Goto, Capacity
<1>7. CASE Grow
  <2>1. /\ pc[Owner] = "grow" /\ pc' = [pc EXCEPT ![Owner] = "room"]
        /\ UNCHANGED <<bottom, top, topCache, t>>
    BY <1>7 DEF Grow, Goto
  <2> QED
    BY <1>1, <1>2, <1>3, <1>7, <2>1
<1>8. CASE PopDec
  BY <1>2, <1>3, <1>8 DEF PopDec, Goto
<1>9. CASE PopTop
  BY <1>2, <1>3, <1>9 DEF PopTop, Goto, Return
<1>10. CASE PopCas
  BY <1>2, <1>3, <1>10 DEF PopCas, Goto
<1>11. CASE PopRestore
  BY <1>2, <1>3, <1>11 DEF PopRestore, Goto, Return
<1>12. ASSUME NEW th \in Thieves, Stealing(th)
       PROVE  Rest'
  <2>1. CASE StealTop(th)
    BY <1>2, <1>3, <2>1 DEF StealTop, Goto
  <2>2. CASE StealBottom(th)
    <3>1. CASE bottom <= t[th]
      <4>1. /\ pc' = [pc EXCEPT ![th] = "idle"] /\ t' = [t EXCEPT ![th] = 0]
            /\ UNCHANGED <<bottom, top, topCache, rings>>
        BY <2>2, <3>1 DEF StealBottom, Goto, Return
      <4> QED
        BY <1>2, <1>3, <4>1
    <3>2. CASE ~(bottom <= t[th])
      <4>1. /\ pc' = [pc EXCEPT ![th] = "base"] /\ pc[th] = "bottom"
            /\ UNCHANGED <<bottom, top, topCache, rings, t>>
        BY <2>2, <3>2 DEF StealBottom, Goto
      <4> QED
        BY <1>2, <1>3, <3>2, <4>1
    <3> QED
      BY <3>1, <3>2
  <2>3. CASE StealBase(th) \/ StealSlot(th)
    BY <1>2, <1>3, <2>3 DEF StealBase, StealSlot, Goto
  <2>4. CASE StealTake(th)
    BY <1>2, <1>3, <2>4 DEF StealTake, Goto, Return
  <2>5. CASE StealLost(th)
    BY <1>2, <1>3, <2>5 DEF StealLost, Goto, Return
  <2> QED
    BY <1>12, <2>1, <2>2, <2>3, <2>4, <2>5 DEF Stealing
<1>13. CASE UNCHANGED vars
  BY <1>2, <1>13 DEF vars
<1> QED
  BY <1>1, <1>4, <1>5, <1>6, <1>7, <1>8, <1>9, <1>10, <1>11, <1>12, <1>13 DEF Next, Owning

--------------------------------------------------------------------------------
\* IInv holds of the deque as constructed.
LEMMA CoreInitially ==
  ASSUME Sizes, Init
  PROVE  Core
<1> USE DEF OwnerPCs, ThiefPCs, Threads
<1> DEFINE s == MakeSeg(InitCap)
<1>1. s \in Seq(Numbers) /\ Len(s) = InitCap
  <2>1. s \in [1 .. InitCap -> Numbers]
    BY DEF Sizes, MakeSeg, Empty, Numbers
  <2> HIDE DEF s
  <2> QED
    BY <2>1, Made DEF Sizes
<1>2. rings = <<s>>
  BY DEF Init
<1> HIDE DEF s
<1>3. rings \in Seq(Seq(Numbers)) /\ rings # <<>> /\ Capacity = InitCap
  BY <1>1, <1>2 DEF Capacity, CapOf, Current
<1>4. Shapes
  BY <1>3 DEF Sizes, Init, Shapes
<1> QED
  BY <1>3, <1>4 DEF Sizes, Init, Core, CacheUseful, PopUndecided, ThievesBehind, EmptyAgreed, Back

--------------------------------------------------------------------------------
\* What ring r of rs shows at index i, and what the last ring shows.
SlotIn(rs, r, i) == rs[r][(i % Len(rs[r])) + 1]
\* The ring in use, by index.
LastAt(rs) == [i \in Int |-> SlotIn(rs, Len(rs), i)]

\* The end of what is in the slots, published or about to be.
Filled == IF pc[Owner] = "publish" THEN bottom + 1 ELSE Back

\* From a up to b there are items that nobody has been handed, in the order of
\* their numbers, which go to n.
Stacked(at, a, b, n, tk) ==
  /\ \A i \in a .. b - 1 : at[i] \in 1 .. n /\ tk[at[i]] = 0
  /\ \A i, j \in a .. b - 1 : i < j => at[i] < at[j]

\* What the slots from top on hold, and what was handed out.
Contents ==
  /\ Stacked(LastAt(rings), top, Filled, pushed, taken)
  /\ taken \in [1 .. MaxItems -> 0 .. 1]
  /\ \A x \in pushed + 1 .. MaxItems : taken[x] = 0
  /\ Filled <= pushed /\ pushed <= MaxItems

\* What a thread has read of the item it may still win is that item, in
\* whichever ring it read it.
Reads ==
  /\ \A r \in 1 .. Len(rings) : Len(rings[r]) > 0
  /\ pc[Owner] = "popcas" => val[Owner] = LastAt(rings)[bottom]
  /\ \A th \in Thieves :
       /\ pc[th] \in {"slot", "take"} => ring[th] \in 1 .. Len(rings)
       /\ pc[th] = "slot" /\ t[th] = top => SlotIn(rings, ring[th], top) = LastAt(rings)[top]
       /\ pc[th] = "take" /\ t[th] = top => val[th] = LastAt(rings)[top]

\* What the threads hold has its type.
Locals ==
  /\ grows \in BOOLEAN
  /\ t \in [Threads -> Numbers]
  /\ ring \in [Threads -> 0 .. Len(rings)]
  /\ val \in [Threads -> Numbers]

\* The inductive invariant of the deque.
IInv == Core /\ Contents /\ Reads /\ Locals

\* push_bottom() stores to one slot, which holds no item a thief may win.
LEMMA PushRings ==
  ASSUME Sizes, IInv, PushSlot
  PROVE  /\ Len(rings') = Len(rings)
         /\ \A r \in 1 .. Len(rings) : Len(rings'[r]) = Len(rings[r])
         /\ \A r \in 1 .. Len(rings), i \in top .. Filled - 1 : SlotIn(rings', r, i) = SlotIn(rings, r, i)
         /\ LastAt(rings')[bottom] = pushed + 1
<1> DEFINE c == Capacity
           k == (bottom % c) + 1
           s == [rings[Len(rings)] EXCEPT ![k] = pushed + 1]
<1>1. /\ c \in Nat \ {0} /\ c = Len(rings[Len(rings)]) /\ Len(rings) \in Nat \ {0}
      /\ rings[Len(rings)] \in Seq(Numbers)
  BY CurrentRing DEF IInv, Core, Shapes, Current
<1>2. /\ bottom \in Nat /\ top \in Nat /\ top <= bottom /\ Filled = bottom
      /\ bottom - top < c
  <2>1. pc[Owner] \in {"idle", "room"} /\ bottom - topCache < c
    BY DEF PushSlot, Capacity, IInv, Core, CacheUseful
  <2> HIDE DEF c
  <2> QED
    BY <1>1, <2>1 DEF IInv, Core, Shapes, CacheUseful, Filled, Back
<1>3. rings' = [rings EXCEPT ![Len(rings)] = s]
  BY CurrentRing DEF PushSlot, Capacity, Current
<1>4. k \in 1 .. c /\ pushed + 1 \in Numbers
  <2>1. k \in 1 .. c
    <3> HIDE DEF c
    <3>1. bottom \in Int
      BY <1>2
    <3> QED
      BY <1>1, <3>1, Wraps
  <2>2. pushed + 1 \in Numbers
    BY DEF Sizes, IInv, Core, Shapes, Numbers, PushSlot
  <2> QED
    BY <2>1, <2>2
<1>5. s \in Seq(Numbers) /\ Len(s) = c /\ s[k] = pushed + 1
  <2> HIDE DEF k, c
  <2> QED
    BY <1>1, <1>4, Stored
<1>6. \A m \in 1 .. c : m # k => s[m] = rings[Len(rings)][m]
  <2> HIDE DEF k, c
  <2> QED
    BY <1>1
<1>7. rings \in Seq(Seq(Numbers))
  BY DEF IInv, Core, Shapes
<1>8. ASSUME NEW i \in top .. bottom - 1
      PROVE  (i % c) + 1 \in 1 .. c /\ (i % c) + 1 # k
  <2> HIDE DEF c
  <2>1. i \in Nat /\ i < bottom /\ bottom - i < c
    BY <1>1, <1>2
  <2> QED
    BY <1>1, <1>2, <2>1, PlacesApart
<1> HIDE DEF k, s, c
<1>9. /\ Len(rings') = Len(rings) /\ rings'[Len(rings)] = s
      /\ \A r \in 1 .. Len(rings) : r # Len(rings) => rings'[r] = rings[r]
  BY <1>1, <1>3, <1>5, <1>7, Stored
<1>10. \A r \in 1 .. Len(rings) : Len(rings'[r]) = Len(rings[r])
  BY <1>1, <1>5, <1>9
<1>11. ASSUME NEW r \in 1 .. Len(rings), NEW i \in top .. Filled - 1
       PROVE  SlotIn(rings', r, i) = SlotIn(rings, r, i)
  <2>1. CASE r # Len(rings)
    BY <2>1, <1>9 DEF SlotIn
  <2>2. CASE r = Len(rings)
    <3>1. (i % c) + 1 \in 1 .. c /\ (i % c) + 1 # k
      BY <1>2, <1>8
    <3>2. s[(i % c) + 1] = rings[Len(rings)][(i % c) + 1]
      BY <3>1, <1>6
    <3> QED
      BY <1>1, <1>5, <1>9, <2>2, <3>2 DEF SlotIn
  <2> QED
    BY <2>1, <2>2
<1>12. LastAt(rings')[bottom] = pushed + 1
  <2>1. SlotIn(rings', Len(rings'), bottom) = s[(bottom % c) + 1]
    BY <1>5, <1>9 DEF SlotIn
  <2>2. bottom \in Int
    BY <1>2
  <2> QED
    BY <1>5, <2>1, <2>2 DEF LastAt, k
<1> QED
  BY <1>9, <1>10, <1>11, <1>12

\* __grow() copies what a thief may win to where the new ring shows it, and
\* leaves the old rings alone.
LEMMA GrowRings ==
  ASSUME Sizes, IInv, Grow
  PROVE  /\ Len(rings') = Len(rings) + 1
         /\ Len(rings'[Len(rings')]) > 0
         /\ \A r \in 1 .. Len(rings) : rings'[r] = rings[r]
         /\ \A i \in top .. Filled - 1 : LastAt(rings')[i] = LastAt(rings)[i]
<1> DEFINE c == Capacity
           cap == 2 * CapOf(Current)
           live == topCache .. bottom - 1
           from(k) == CHOOSE i \in live : i % cap = k - 1
           s == [k \in 1 .. cap |-> IF \E i \in live : i % cap = k - 1
                                    THEN Slot(Current, from(k)) ELSE MakeSeg(cap)[k]]
<1>1. c \in Nat \ {0} /\ cap = 2 * c /\ cap \in Nat \ {0}
  <2>1. PICK n \in Nat \ {0} : n = Capacity
    BY CurrentRing DEF IInv, Core
  <2>2. CapOf(Current) = n
    BY <2>1 DEF Capacity
  <2> QED
    BY <2>1, <2>2
<1>2. /\ bottom \in Int /\ top \in Nat /\ topCache \in Nat /\ topCache <= top
      /\ Filled = bottom /\ bottom - topCache <= c
  BY DEF Grow, IInv, Core, Shapes, CacheUseful, Filled, Back
<1>3. rings' = Append(rings, s) /\ rings \in Seq(Seq(Numbers))
  BY DEF Grow, IInv, Core, Shapes
<1>4. Capacity' = 2 * c
  BY GrowDoublesCapacity DEF IInv, Core
<1>5. ASSUME NEW i \in top .. bottom - 1
      PROVE  /\ (i % cap) + 1 \in 1 .. cap
             /\ s[(i % cap) + 1] = Slot(Current, i)
  <2> HIDE DEF cap, c
  <2>1. i \in live /\ i \in Nat
    BY <1>2
  <2>2. (i % cap) + 1 \in 1 .. cap /\ ((i % cap) + 1) - 1 = i % cap
    BY <1>1, <2>1, Wraps
  <2>3. ASSUME NEW j \in live, j % cap = i % cap
        PROVE  j = i
    <3>1. j \in Nat /\ j - i < cap /\ i - j < cap
      BY <1>1, <1>2, <2>1
    <3>2. CASE i <= j
      BY <1>1, <2>1, <2>3, <3>1, <3>2, SlotsApart
    <3>3. CASE j <= i
      BY <1>1, <2>1, <2>3, <3>1, <3>3, SlotsApart
    <3> QED
      BY <2>1, <3>1, <3>2, <3>3
  <2>4. from((i % cap) + 1) = i
    <3>1. from((i % cap) + 1) \in live /\ from((i % cap) + 1) % cap = i % cap
      BY <2>1, <2>2
    <3> QED
      BY <3>1, <2>3
  <2>5. \E j \in live : j % cap = ((i % cap) + 1) - 1
    BY <2>1, <2>2
  <2> QED
    BY <2>2, <2>4, <2>5
<1> HIDE DEF s, cap
<1>6. rings' \in Seq(Seq(Numbers)) /\ Capacity' = Len(rings'[Len(rings')])
  BY GrowDoublesCapacity DEF IInv, Core, Capacity, CapOf, Current
<1>7. /\ Len(rings') = Len(rings) + 1 /\ rings'[Len(rings')] = s
      /\ \A r \in 1 .. Len(rings) : rings'[r] = rings[r]
  BY <1>3
<1>8. Len(s) = cap
  BY <1>1, <1>4, <1>6, <1>7
<1>9. ASSUME NEW i \in top .. bottom - 1
      PROVE  LastAt(rings')[i] = LastAt(rings)[i]
  <2>1. i \in Int
    BY <1>2
  <2>2. LastAt(rings')[i] = s[(i % cap) + 1]
    BY <1>7, <1>8, <2>1 DEF LastAt, SlotIn
  <2>3. LastAt(rings)[i] = Slot(Current, i)
    BY <2>1 DEF LastAt, SlotIn, Slot, Current, CapOf
  <2> QED
    BY <1>5, <2>2, <2>3
<1> QED
  BY <1>1, <1>2, <1>7, <1>8, <1>9

\* Equal slots hold equal items.
LEMMA StackedSame ==
  ASSUME NEW f, NEW g, NEW a \in Int, NEW b \in Int, NEW n, NEW tk,
         Stacked(f, a, b, n, tk), \A i \in a .. b - 1 : g[i] = f[i]
  PROVE  Stacked(g, a, b, n, tk)
  BY DEF Stacked

\* An item with the next number is stored at the end.
LEMMA StackedPush ==
  ASSUME NEW f, NEW a \in Int, NEW b \in Int, NEW n \in Nat, NEW tk,
         Stacked(f, a, b, n, tk), f[b] = n + 1, tk[n + 1] = 0
  PROVE  Stacked(f, a, b + 1, n + 1, tk)
<1>1. \A i \in a .. (b + 1) - 1 : i \in a .. b - 1 \/ i = b
  OBVIOUS
<1>2. \A i \in a .. b - 1 : f[i] \in 1 .. n /\ tk[f[i]] = 0
  BY DEF Stacked
<1>3. \A i \in a .. (b + 1) - 1 : f[i] \in 1 .. n + 1 /\ tk[f[i]] = 0
  BY <1>1, <1>2
<1>4. ASSUME NEW i \in a .. (b + 1) - 1, NEW j \in a .. (b + 1) - 1, i < j
      PROVE  f[i] < f[j]
  <2>1. i \in a .. b - 1
    BY <1>4
  <2>2. CASE j = b
    BY <1>2, <2>1, <2>2
  <2>3. CASE j \in a .. b - 1
    BY <1>4, <2>1, <2>3 DEF Stacked
  <2> QED
    BY <1>1, <2>2, <2>3
<1> QED
  BY <1>3, <1>4 DEF Stacked

\* Handing out the item at one end leaves the rest.
Handed(tk, x, u) == u = [tk EXCEPT ![x] = @ + 1]

\* What is left of the items, and of the record, without item f[k].
Shrunk(f, a, b, n, m, tk, k, u) ==
  /\ f[k] \in 1 .. n
  /\ u \in [1 .. m -> 0 .. 1]
  /\ \A x \in n + 1 .. m : u[x] = tk[x]
  /\ k = a => Stacked(f, a + 1, b, n, u)
  /\ k = b - 1 => Stacked(f, a, b - 1, n, u)

\* The item at one end is handed out once, and the others not at all.
LEMMA StackedHandOut ==
  ASSUME NEW f, NEW a \in Int, NEW b \in Int, NEW n \in Nat, NEW m \in Nat, n <= m,
         NEW tk \in [1 .. m -> 0 .. 1], NEW k \in {a, b - 1}, a < b,
         Stacked(f, a, b, n, tk), NEW u, Handed(tk, f[k], u)
  PROVE  Shrunk(f, a, b, n, m, tk, k, u)
<1> DEFINE x == f[k]
<1>1. k \in a .. b - 1
  OBVIOUS
<1>2. \A i \in a .. b - 1 : f[i] \in 1 .. n /\ tk[f[i]] = 0
  BY DEF Stacked
<1>3. x \in 1 .. n /\ tk[x] = 0 /\ x \in 1 .. m
  BY <1>1, <1>2
<1>4. ASSUME NEW i \in a .. b - 1, i # k
      PROVE  f[i] # x
  <2>1. i < k \/ k < i
    BY <1>1, <1>4
  <2>2. f[i] < f[k] \/ f[k] < f[i]
    BY <1>1, <2>1 DEF Stacked
  <2> QED
    BY <1>1, <1>2, <2>2
<1> HIDE DEF x
<1>5. u \in [1 .. m -> 0 .. 1] /\ \A y \in 1 .. m : y # x => u[y] = tk[y]
  BY <1>3 DEF x, Handed
<1>6. \A y \in n + 1 .. m : u[y] = tk[y]
  BY <1>3, <1>5
<1>7. \A i \in a .. b - 1 : i # k => f[i] \in 1 .. n /\ u[f[i]] = 0
  BY <1>2, <1>4, <1>5
<1>8. k = a => Stacked(f, a + 1, b, n, u)
  <2>1. \A i \in a + 1 .. b - 1 : i \in a .. b - 1 /\ i # a
    OBVIOUS
  <2> QED
    BY <1>7, <2>1 DEF Stacked
<1>9. k = b - 1 => Stacked(f, a, b - 1, n, u)
  <2>1. \A i \in a .. (b - 1) - 1 : i \in a .. b - 1 /\ i # b - 1
    OBVIOUS
  <2> QED
    BY <1>7, <2>1 DEF Stacked
<1> QED
  BY <1>3, <1>5, <1>6, <1>8, <1>9 DEF x, Shrunk

\* A step changes no slot, in any ring, that shows an item of the deque.
Kept ==
  /\ Len(rings) <= Len(rings')
  /\ \A r \in 1 .. Len(rings') : Len(rings'[r]) > 0
  /\ \A r \in 1 .. Len(rings), i \in top .. Filled - 1 : SlotIn(rings', r, i) = SlotIn(rings, r, i)
  /\ \A i \in top .. Filled - 1 : LastAt(rings')[i] = LastAt(rings)[i]

\* push_bottom(), __grow() and the steps that touch no ring.
LEMMA Keeps ==
  ASSUME Sizes, IInv, Next \/ UNCHANGED vars
  PROVE  Kept /\ (PushSlot \/ Grow \/ UNCHANGED rings)
<1>1. /\ Len(rings) \in Nat \ {0} /\ top \in Int
      /\ \A r \in 1 .. Len(rings) : Len(rings[r]) > 0
  BY CurrentRing DEF IInv, Core, Shapes, Current, Reads
<1>2. Filled \in Int
  BY DEF IInv, Core, Shapes, Filled, Back
<1>3. CASE PushSlot
  <2>1. \A i \in top .. Filled - 1 : LastAt(rings')[i] = LastAt(rings)[i]
    <3>1. \A i \in top .. Filled - 1 : i \in Int
      BY <1>1, <1>2
    <3> QED
      BY <1>1, <1>3, <3>1, PushRings DEF LastAt
  <2> QED
    BY <1>1, <1>3, <2>1, PushRings DEF Kept
<1>4. CASE Grow
  <2>1. \A r \in 1 .. Len(rings), i \in top .. Filled - 1 : SlotIn(rings', r, i) = SlotIn(rings, r, i)
    BY <1>4, GrowRings DEF SlotIn
  <2>2. \A r \in 1 .. Len(rings') : r \in 1 .. Len(rings) \/ r = Len(rings')
    BY <1>1, <1>4, GrowRings
  <2>3. \A r \in 1 .. Len(rings') : Len(rings'[r]) > 0
    BY <1>1, <1>4, <2>2, GrowRings
  <2>4. Len(rings) <= Len(rings')
    BY <1>1, <1>4, GrowRings
  <2> QED
    BY <1>4, <2>1, <2>3, <2>4, GrowRings DEF Kept
<1>5. CASE UNCHANGED rings
  BY <1>1, <1>5 DEF Kept
<1>6. PushSlot \/ Grow \/ UNCHANGED rings
  BY DEF Next, Owning, Stealing, vars, words, PushPublish, PushFull,
         PopDec, PopTop, PopCas, PopRestore, StealTop, StealBottom,
         StealBase, StealSlot, StealTake, StealLost
<1> QED
  BY <1>3, <1>4, <1>5, <1>6

\* Steps that hand out nothing and store nothing.
LEMMA ContentsStay ==
  ASSUME Sizes, IInv, Kept, UNCHANGED <<top, pushed, taken>>, Filled' = Filled
  PROVE  Contents'
<1>1. top \in Int /\ Filled \in Int
  BY DEF IInv, Core, Shapes, Filled, Back
<1>2. Stacked(LastAt(rings'), top, Filled, pushed, taken)
  BY <1>1, StackedSame DEF IInv, Contents, Kept
<1> QED
  BY <1>2 DEF IInv, Contents

\* Steps that hand out the item at one end.
LEMMA ContentsShrink ==
  ASSUME Sizes, IInv, NEW k, UNCHANGED <<rings, pushed>>, HandOut(LastAt(rings)[k]), top < Filled,
         \/ k = top /\ top' = top + 1 /\ Filled' = Filled
         \/ k = Filled - 1 /\ top' = top /\ Filled' = Filled - 1
  PROVE  Contents'
<1> DEFINE f == LastAt(rings)
<1>1. top \in Int /\ Filled \in Int /\ pushed \in Nat /\ pushed <= MaxItems /\ MaxItems \in Nat
  BY DEF Sizes, IInv, Core, Shapes, Filled, Back, Contents
<1>2. /\ Stacked(f, top, Filled, pushed, taken) /\ taken \in [1 .. MaxItems -> 0 .. 1]
      /\ Filled <= pushed /\ \A x \in pushed + 1 .. MaxItems : taken[x] = 0
  BY DEF IInv, Contents
<1>3. Handed(taken, f[k], taken') /\ k \in {top, Filled - 1}
  BY DEF HandOut, Handed
<1> HIDE DEF f
<1>4. Shrunk(f, top, Filled, pushed, MaxItems, taken, k, taken')
  <2>1. PICK a \in Int, b \in Int, n \in Nat, m \in Nat :
          a = top /\ b = Filled /\ n = pushed /\ m = MaxItems
    BY <1>1
  <2>2. /\ n <= m /\ taken \in [1 .. m -> 0 .. 1] /\ k \in {a, b - 1} /\ a < b
        /\ Stacked(f, a, b, n, taken) /\ Handed(taken, f[k], taken')
    BY <1>1, <1>2, <1>3, <2>1
  <2>3. Shrunk(f, a, b, n, m, taken, k, taken')
    BY ONLY <2>2, a \in Int, b \in Int, n \in Nat, m \in Nat, StackedHandOut
  <2> QED
    BY <2>1, <2>3
<1>5. Stacked(f, top', Filled', pushed, taken')
  BY <1>4 DEF Shrunk
<1>6. Filled' <= pushed
  BY <1>1, <1>2
<1> QED
  BY <1>1, <1>2, <1>4, <1>5, <1>6 DEF Contents, Shrunk, f

\* What a read of the current ring returns.
LEMMA SlotLast ==
  ASSUME Sizes, IInv, NEW i \in Int
  PROVE  /\ Slot(Current, i) = LastAt(rings)[i]
         /\ \A r \in 1 .. Len(rings) : /\ Slot(r, i) = SlotIn(rings, r, i)
                                       /\ SlotIn(rings, r, i) \in Numbers
<1>1. Slot(Current, i) = LastAt(rings)[i]
  BY DEF LastAt, SlotIn, Slot, Current, CapOf
<1>2. ASSUME NEW r \in 1 .. Len(rings)
      PROVE  /\ Slot(r, i) = SlotIn(rings, r, i)
             /\ SlotIn(rings, r, i) \in Numbers
  <2>1. rings[r] \in Seq(Numbers) /\ Len(rings[r]) \in Nat \ {0}
    BY DEF IInv, Core, Shapes, Reads
  <2>2. (i % Len(rings[r])) + 1 \in 1 .. Len(rings[r])
    BY <2>1, Wraps
  <2> QED
    BY <2>1, <2>2 DEF SlotIn, Slot, CapOf
<1> QED
  BY <1>1, <1>2

\* The items stay in order, and what is handed out is one at an end.
LEMMA ContentsStep ==
  ASSUME Sizes, IInv, Next \/ UNCHANGED vars
  PROVE  Contents'
<1>1. Kept
  BY Keeps
<1>2. /\ bottom \in Int /\ top \in Nat /\ pushed \in Nat /\ pc[Owner] \in OwnerPCs
      /\ pc \in [Threads -> OwnerPCs \cup ThiefPCs] /\ top <= Back
      /\ Owner \in Threads
  BY DEF IInv, Core, Shapes, CacheUseful, Threads
<1> USE DEF Filled, Back, OwnerPCs, Goto, Return
<1>3. CASE PushSlot
  <2>1. /\ top' = top /\ pushed' = pushed + 1 /\ taken' = taken /\ pushed < MaxItems
        /\ Filled = bottom /\ Filled' = bottom + 1 /\ bottom <= pushed
    BY <1>2, <1>3 DEF PushSlot, IInv, Contents
  <2> DEFINE g == LastAt(rings')
  <2>2. \A i \in top .. bottom - 1 : g[i] = LastAt(rings)[i]
    BY <1>1, <2>1 DEF Kept
  <2>3. g[bottom] = pushed + 1
    BY <1>3, PushRings
  <2>4. taken[pushed + 1] = 0
    BY <1>2, <2>1 DEF Sizes, IInv, Contents
  <2>5. Stacked(LastAt(rings), top, bottom, pushed, taken)
    BY <2>1 DEF IInv, Contents
  <2> HIDE DEF g
  <2>6. Stacked(g, top, bottom + 1, pushed + 1, taken)
    <3>1. Stacked(g, top, bottom, pushed, taken)
      BY <1>2, <2>2, <2>5, StackedSame
    <3> QED
      BY <1>2, <2>3, <2>4, <3>1, StackedPush
  <2>7. /\ taken \in [1 .. MaxItems -> 0 .. 1]
        /\ \A x \in pushed + 1 .. MaxItems : taken[x] = 0
    BY DEF IInv, Contents
  <2> QED
    BY <1>2, <2>1, <2>6, <2>7 DEF Sizes, Contents, g
<1>4. CASE PushPublish \/ PushFull \/ Grow
  <2>1. UNCHANGED <<top, pushed, taken>> /\ Filled' = Filled
    BY <1>2, <1>4 DEF PushPublish, PushFull, Grow
  <2> QED
    BY <1>1, <2>1, ContentsStay
<1>5. CASE PopDec \/ PopRestore
  <2>1. UNCHANGED <<top, pushed, taken>> /\ Filled' = Filled
    BY <1>2, <1>5 DEF PopDec, PopRestore
  <2> QED
    BY <1>1, <2>1, ContentsStay
<1>6. CASE PopTop
  <2>1. CASE bottom > top /\ HandOut(Slot(Current, bottom)) /\ Return(Owner)
    <3>1. /\ UNCHANGED <<rings, pushed, top>> /\ Filled = bottom + 1 /\ Filled' = bottom
      BY <1>2, <1>6, <2>1 DEF PopTop, words
    <3>2. HandOut(LastAt(rings)[bottom])
      BY <1>2, <2>1, SlotLast
    <3>3. top < Filled /\ bottom = Filled - 1 /\ Filled' = Filled - 1
      BY <1>2, <2>1, <3>1
    <3> HIDE DEF Filled
    <3> QED
      BY <3>1, <3>2, <3>3, ContentsShrink
  <2>2. CASE ~(bottom > top)
    <3>1. UNCHANGED <<top, pushed, taken>> /\ Filled' = Filled
      BY <1>2, <1>6, <2>2 DEF PopTop, words
    <3> QED
      BY <1>1, <3>1, ContentsStay
  <2> QED
    BY <1>2, <1>6, <2>1, <2>2 DEF PopTop
<1>7. CASE PopCas
  <2>0. /\ UNCHANGED <<rings, pushed>> /\ Filled = bottom + 1 /\ Filled' = bottom + 1
        /\ t[Owner] = bottom /\ val[Owner] = LastAt(rings)[bottom]
    BY <1>2, <1>7 DEF PopCas, IInv, Core, PopUndecided, Reads
  <2>1. CASE top = t[Owner]
    <3>1. HandOut(LastAt(rings)[top]) /\ top' = top + 1 /\ top < Filled /\ Filled' = Filled
      BY <1>2, <1>7, <2>0, <2>1 DEF PopCas
    <3> HIDE DEF Filled
    <3> QED
      BY <2>0, <3>1, ContentsShrink
  <2>2. CASE top # t[Owner]
    BY <1>1, <1>7, <2>0, <2>2, ContentsStay DEF PopCas
  <2> QED
    BY <2>1, <2>2
<1>8. ASSUME NEW th \in Thieves, Stealing(th)
      PROVE  Contents'
  <2>1. th # Owner
    BY DEF Sizes
  <2>2. /\ UNCHANGED <<bottom, pushed, rings>> /\ \E l \in ThiefPCs : pc' = [pc EXCEPT ![th] = l]
    BY <1>8 DEF Stealing, StealTop, StealBottom, StealBase, StealSlot,
                StealTake, StealLost, words, ThiefPCs
  <2>3. Filled' = Filled
    BY <1>2, <2>1, <2>2
  <2>4. CASE StealTake(th)
    <3>1. pc[th] = "take" /\ top = t[th] /\ top' = top + 1 /\ HandOut(val[th])
      BY <2>4 DEF StealTake
    <3>2. val[th] = LastAt(rings)[top] /\ top < Back
      BY <3>1 DEF IInv, Reads, Core, ThievesBehind
    <3>3. top < Filled
      BY <1>2, <3>2
    <3> HIDE DEF Filled
    <3> QED
      BY <2>2, <2>3, <3>1, <3>2, <3>3, ContentsShrink
  <2>5. CASE ~StealTake(th)
    <3>1. UNCHANGED <<top, taken>>
      BY <1>8, <2>5 DEF Stealing, StealTop, StealBottom, StealBase, StealSlot,
                StealLost, words
    <3> QED
      BY <1>1, <2>2, <2>3, <3>1, ContentsStay
  <2> QED
    BY <2>4, <2>5
<1>9. CASE UNCHANGED vars
  BY <1>1, <1>9, ContentsStay DEF vars, words
<1> QED
  BY <1>3, <1>4, <1>5, <1>6, <1>7, <1>8, <1>9 DEF Next, Owning

\* A thief that sits still keeps a good reading, or has lost.
LEMMA ReadingStays ==
  ASSUME Sizes, IInv, Kept, NEW th \in Thieves, top' \in {top, top + 1},
         pc'[th] = pc[th], t'[th] = t[th], ring'[th] = ring[th], val'[th] = val[th]
  PROVE  /\ pc'[th] \in {"slot", "take"} => ring'[th] \in 1 .. Len(rings')
         /\ pc'[th] = "slot" /\ t'[th] = top' => SlotIn(rings', ring'[th], top') = LastAt(rings')[top']
         /\ pc'[th] = "take" /\ t'[th] = top' => val'[th] = LastAt(rings')[top']
<1>1. /\ top \in Nat /\ Len(rings) \in Nat /\ Len(rings') \in Nat
      /\ pc[th] # "idle" => t[th] <= top
      /\ pc[th] \in {"slot", "take"} /\ t[th] = top => top < Back
      /\ pc[th] \in {"slot", "take"} => ring[th] \in 1 .. Len(rings)
      /\ pc[th] = "slot" /\ t[th] = top => SlotIn(rings, ring[th], top) = LastAt(rings)[top]
      /\ pc[th] = "take" /\ t[th] = top => val[th] = LastAt(rings)[top]
      /\ t[th] \in Int
  <2>1. Len(rings') \in Nat
    BY CurrentRing DEF Kept
  <2> QED
    BY <2>1 DEF Sizes, IInv, Core, Shapes, ThievesBehind, Reads, Threads
<1>2. pc[th] \in {"slot", "take"} => ring'[th] \in 1 .. Len(rings')
  BY <1>1 DEF Kept
<1>3. ASSUME pc[th] \in {"slot", "take"}, t[th] = top'
      PROVE  top' = top /\ top \in top .. Filled - 1
  <2>1. top' = top
    BY <1>1, <1>3
  <2>2. Filled \in Int /\ top < Filled
    BY <1>1, <1>3, <2>1 DEF Filled, Back, IInv, Core, Shapes
  <2> QED
    BY <1>1, <2>1, <2>2
<1>4. ASSUME pc[th] = "slot", t[th] = top'
      PROVE  SlotIn(rings', ring'[th], top') = LastAt(rings')[top']
  <2>1. top' = top /\ top \in top .. Filled - 1 /\ ring[th] \in 1 .. Len(rings)
    BY <1>1, <1>3, <1>4
  <2>2. SlotIn(rings', ring[th], top) = SlotIn(rings, ring[th], top) /\ LastAt(rings')[top] = LastAt(rings)[top]
    BY <2>1 DEF Kept
  <2> QED
    BY <1>1, <1>4, <2>1, <2>2
<1>5. ASSUME pc[th] = "take", t[th] = top'
      PROVE  val'[th] = LastAt(rings')[top']
  <2>1. top' = top /\ top \in top .. Filled - 1
    BY <1>1, <1>3, <1>5
  <2>2. LastAt(rings')[top] = LastAt(rings)[top]
    BY <2>1 DEF Kept
  <2> QED
    BY <1>1, <1>5, <2>1, <2>2
<1> QED
  BY <1>2, <1>4, <1>5

\* A thief's step, apart from the one that wins: it leaves the others alone.
LEMMA ThiefAlone ==
  ASSUME Sizes, IInv, NEW th \in Thieves, Stealing(th)
  PROVE  /\ UNCHANGED <<grows, bottom, topCache, rings, pushed>> /\ top' \in {top, top + 1}
         /\ \A o \in Threads : o # th => /\ pc'[o] = pc[o] /\ t'[o] = t[o]
                                               /\ ring'[o] = ring[o] /\ val'[o] = val[o]
<1>1. pc \in [Threads -> OwnerPCs \cup ThiefPCs]
  BY DEF IInv, Core, Shapes
<1>2. t \in [Threads -> Numbers] /\ val \in [Threads -> Numbers]
  BY DEF IInv, Locals
<1>3. ring \in [Threads -> 0 .. Len(rings)]
  BY DEF IInv, Locals
<1> USE DEF words, locals, Goto, Return
<1>4. CASE StealTop(th) \/ StealBottom(th)
  BY <1>1, <1>2, <1>3, <1>4 DEF StealTop, StealBottom
<1>5. CASE StealBase(th) \/ StealSlot(th)
  BY <1>1, <1>2, <1>3, <1>5 DEF StealBase, StealSlot
<1>6. CASE StealTake(th) \/ StealLost(th)
  BY <1>1, <1>2, <1>3, <1>6 DEF StealTake, StealLost
<1> QED
  BY <1>4, <1>5, <1>6, Stealing(th) DEF Stealing

\* An owner's step leaves the thieves alone.
LEMMA OwnerAlone ==
  ASSUME Sizes, IInv, Owning
  PROVE  /\ UNCHANGED grows /\ top' \in {top, top + 1}
         /\ \A o \in Threads : o # Owner => /\ pc'[o] = pc[o] /\ t'[o] = t[o]
                                                     /\ ring'[o] = ring[o] /\ val'[o] = val[o]
<1>1. pc \in [Threads -> OwnerPCs \cup ThiefPCs]
  BY DEF IInv, Core, Shapes
<1>2. t \in [Threads -> Numbers] /\ val \in [Threads -> Numbers]
  BY DEF IInv, Locals
<1>3. ring \in [Threads -> 0 .. Len(rings)]
  BY DEF IInv, Locals
<1> USE DEF words, locals, Goto, Return
<1>4. CASE PushSlot \/ PushPublish
  BY <1>1, <1>2, <1>3, <1>4 DEF PushSlot, PushPublish
<1>5. CASE PushFull \/ Grow
  BY <1>1, <1>2, <1>3, <1>5 DEF PushFull, Grow
<1>6. CASE PopDec \/ PopTop
  BY <1>1, <1>2, <1>3, <1>6 DEF PopDec, PopTop
<1>7. CASE PopCas \/ PopRestore
  BY <1>1, <1>2, <1>3, <1>7 DEF PopCas, PopRestore
<1> QED
  BY <1>4, <1>5, <1>6, <1>7 DEF Owning

\* What has been read stays good until it is used or refused.
LEMMA ReadsStep ==
  ASSUME Sizes, IInv, Next \/ UNCHANGED vars
  PROVE  Reads'
<1>1. Kept
  BY Keeps
<1>2. Thieves \subseteq Threads /\ Owner \in Threads /\ Owner \notin Thieves
  BY DEF Sizes, Threads
<1>3. /\ bottom \in Int /\ top \in Nat /\ Len(rings) \in Nat \ {0}
      /\ pc \in [Threads -> OwnerPCs \cup ThiefPCs]
  BY DEF IInv, Core, Shapes
<1>4. /\ t \in [Threads -> Numbers] /\ val \in [Threads -> Numbers]
      /\ ring \in [Threads -> 0 .. Len(rings)]
  BY DEF IInv, Locals
<1> DEFINE Good(th) ==
             /\ pc[th] \in {"slot", "take"} => ring[th] \in 1 .. Len(rings)
             /\ pc[th] = "slot" /\ t[th] = top => SlotIn(rings, ring[th], top) = LastAt(rings)[top]
             /\ pc[th] = "take" /\ t[th] = top => val[th] = LastAt(rings)[top]
           Contended == pc[Owner] = "popcas" => val[Owner] = LastAt(rings)[bottom]
<1>5. SUFFICES Contended' /\ \A th \in Thieves : Good(th)'
  BY <1>1 DEF Kept, Reads
<1>6. CASE Owning
  <2>1. \A th \in Thieves : Good(th)'
    BY <1>1, <1>2, <1>6, OwnerAlone, ReadingStays
  <2>2. Contended'
    <3>1. CASE PopTop
      <4>1. CASE bottom = top /\ pc' = [pc EXCEPT ![Owner] = "popcas"]
        <5>1. val' = [val EXCEPT ![Owner] = Slot(Current, bottom)] /\ UNCHANGED <<rings, bottom>>
          BY <1>3, <3>1, <4>1 DEF PopTop, words
        <5> QED
          BY <1>2, <1>3, <1>4, <5>1, SlotLast
      <4>2. CASE bottom # top
        BY <1>2, <1>3, <3>1, <4>2 DEF PopTop, Goto, Return
      <4> QED
        BY <1>3, <3>1, <4>1, <4>2 DEF PopTop, Goto
    <3>2. CASE ~PopTop
      <4>1. pc'[Owner] # "popcas"
        BY <1>2, <1>3, <1>6, <3>2 DEF Owning, PushSlot, PushPublish, PushFull, Grow,
             PopDec, PopCas, PopRestore, Goto, Return
      <4> QED
        BY <4>1
    <3> QED
      BY <3>1, <3>2
  <2> QED
    BY <2>1, <2>2
<1>7. ASSUME NEW th \in Thieves, Stealing(th)
      PROVE  Contended' /\ \A o \in Thieves : Good(o)'
  <2>1. \A o \in Thieves : o # th => Good(o)'
    BY <1>1, <1>2, <1>7, ThiefAlone, ReadingStays
  <2>2. Contended'
    <3>1. UNCHANGED <<rings, bottom>> /\ pc'[Owner] = pc[Owner] /\ val'[Owner] = val[Owner]
      BY <1>2, <1>7, ThiefAlone
    <3> QED
      BY <3>1 DEF IInv, Reads
  <2>3. Good(th)'
    <3>1. CASE StealBase(th)
      <4>1. ring'[th] = Len(rings) /\ UNCHANGED <<rings, top, t>> /\ pc'[th] = "slot"
        BY <1>2, <1>3, <1>4, <3>1 DEF StealBase, Goto, words, Current
      <4>2. SlotIn(rings, Len(rings), top) = LastAt(rings)[top]
        BY <1>3 DEF LastAt
      <4>3. SlotIn(rings', ring'[th], top') = LastAt(rings')[top']
        BY <4>1, <4>2
      <4>4. ring'[th] \in 1 .. Len(rings') /\ pc'[th] # "take"
        BY <1>3, <4>1
      <4> QED
        BY <4>3, <4>4
    <3>2. CASE StealSlot(th)
      <4>1. /\ val'[th] = Slot(ring[th], t[th]) /\ UNCHANGED <<rings, top, t, ring>> /\ pc'[th] = "take"
            /\ pc[th] = "slot"
        BY <1>2, <1>3, <1>4, <3>2 DEF StealSlot, Goto, words
      <4>2. ring[th] \in 1 .. Len(rings) /\ (t[th] = top => SlotIn(rings, ring[th], top) = LastAt(rings)[top])
        BY <4>1 DEF IInv, Reads
      <4>3. top \in Int
        BY <1>3
      <4> QED
        BY <4>1, <4>2, <4>3, SlotLast
    <3>3. CASE StealTop(th) \/ StealBottom(th) \/ StealTake(th) \/ StealLost(th)
      <4>1. pc'[th] \notin {"slot", "take"}
        BY <1>2, <1>3, <3>3 DEF StealTop, StealBottom, StealTake, StealLost, Goto, Return
      <4> QED
        BY <4>1
    <3> QED
      BY <1>7, <3>1, <3>2, <3>3 DEF Stealing
  <2> QED
    BY <2>1, <2>2, <2>3
<1>8. CASE UNCHANGED vars
  BY <1>8 DEF vars, words, locals, IInv, Reads
<1> QED
  BY <1>6, <1>7, <1>8 DEF Next

\* What the threads hold are indices and items.
LEMMA LocalsStep ==
  ASSUME Sizes, IInv, Next \/ UNCHANGED vars
  PROVE  Locals'
<1>1. Len(rings) <= Len(rings') /\ Len(rings) \in Nat \ {0} /\ Len(rings') \in Nat
  BY Keeps DEF Kept, IInv, Core, Shapes
<1>2. /\ grows \in BOOLEAN /\ t \in [Threads -> Numbers] /\ val \in [Threads -> Numbers]
      /\ ring \in [Threads -> 0 .. Len(rings)]
  BY DEF IInv, Locals
<1>3. top \in Numbers /\ 0 \in Numbers /\ bottom \in Int
  <2>1. Filled \in Int /\ top \in Nat /\ top <= Filled /\ bottom \in Int
    BY DEF IInv, Core, Shapes, CacheUseful, Filled, Back
  <2> QED
    BY <2>1 DEF Sizes, IInv, Contents, Core, Shapes, Numbers
<1>4. ring \in [Threads -> 0 .. Len(rings')]
  BY <1>1, <1>2
<1>5. Slot(Current, bottom) \in Numbers
  BY <1>1, <1>3, SlotLast DEF Current
<1> HIDE DEF Numbers
<1> USE DEF words, locals, Goto, Return, Empty
<1>6. CASE Owning
  <2>1. UNCHANGED grows
    BY <1>6, OwnerAlone
  <2>2. /\ t' = t \/ t' = [t EXCEPT ![Owner] = 0] \/ t' = [t EXCEPT ![Owner] = top]
        /\ ring' = ring \/ ring' = [ring EXCEPT ![Owner] = 0]
        /\ val' = val \/ val' = [val EXCEPT ![Owner] = 0] \/ val' = [val EXCEPT ![Owner] = Slot(Current, bottom)]
    BY <1>6 DEF Owning, PushSlot, PushPublish, PushFull, Grow,
             PopDec, PopTop, PopCas, PopRestore
  <2>3. t' \in [Threads -> Numbers]
    BY <1>2, <1>3, <2>2
  <2>4. val' \in [Threads -> Numbers]
    BY <1>2, <1>3, <1>5, <2>2
  <2>5. ring' \in [Threads -> 0 .. Len(rings')]
    BY <1>1, <1>4, <2>2
  <2>6. Threads' = Threads /\ Numbers' = Numbers
    BY DEF Threads, Numbers
  <2> QED
    BY <1>2, <2>1, <2>3, <2>4, <2>5, <2>6 DEF Locals
<1>7. ASSUME NEW th \in Thieves, Stealing(th)
      PROVE  Locals'
  <2>1. UNCHANGED <<grows, rings>>
    BY <1>7, ThiefAlone
  <2>2. CASE StealSlot(th)
    <3>1. /\ pc[th] = "slot" /\ val' = [val EXCEPT ![th] = Slot(ring[th], t[th])] /\ UNCHANGED <<t, ring>>
      BY <2>2 DEF StealSlot
    <3>2. ring[th] \in 1 .. Len(rings) /\ t[th] \in Int
      BY <3>1 DEF Sizes, IInv, Reads, Core, Shapes, Threads
    <3>3. Slot(ring[th], t[th]) \in Numbers
      BY <3>2, SlotLast
    <3> QED
      BY <1>2, <2>1, <3>1, <3>3 DEF Locals
  <2>3. CASE ~StealSlot(th)
    <3>1. /\ t' = t \/ t' = [t EXCEPT ![th] = 0] \/ t' = [t EXCEPT ![th] = top]
          /\ ring' = ring \/ ring' = [ring EXCEPT ![th] = 0] \/ ring' = [ring EXCEPT ![th] = Len(rings)]
          /\ val' = val \/ val' = [val EXCEPT ![th] = 0]
      BY <1>7, <2>3 DEF Stealing, StealTop, StealBottom, StealBase, StealTake,
           StealLost, Current
    <3>2. 0 \in 0 .. Len(rings) /\ Len(rings) \in 0 .. Len(rings)
      BY <1>1
    <3> QED
      BY <1>2, <1>3, <2>1, <3>1, <3>2 DEF Locals
  <2> QED
    BY <2>2, <2>3
<1>8. CASE UNCHANGED vars
  BY <1>2, <1>8 DEF vars, Locals
<1> QED
  BY <1>6, <1>7, <1>8 DEF Next

\* Every step of the deque keeps its invariant.
LEMMA Step ==
  ASSUME Sizes, IInv, Next \/ UNCHANGED vars
  PROVE  IInv'
<1>1. Core'
  BY CoreStep DEF IInv
<1> QED
  BY <1>1, ContentsStep, ReadsStep, LocalsStep DEF IInv

\* The empty deque.
LEMMA Initially ==
  ASSUME Sizes, Init
  PROVE  IInv
<1>1. Core
  BY CoreInitially
<1>2. Contents
  <2>1. Filled = 0 /\ top = 0 /\ pushed = 0
    BY DEF Init, Filled, Back, Threads
  <2>2. taken = [x \in 1 .. MaxItems |-> 0]
    BY DEF Init
  <2> QED
    BY <2>1, <2>2 DEF Sizes, Contents, Stacked
<1>3. Reads
  <2>1. Len(rings) = 1 /\ Len(rings[1]) > 0
    BY <1>1, CurrentRing DEF Init, Core, Current
  <2>2. \A th \in Threads : pc[th] = "idle"
    BY DEF Init
  <2> QED
    BY <2>1, <2>2 DEF Reads, Threads
<1>4. Locals
  BY DEF Sizes, Init, Locals, Numbers, Empty
<1> QED
  BY <1>1, <1>2, <1>3, <1>4 DEF IInv

\* The invariant implies the three that TLC checks.
LEMMA Types ==
  ASSUME Sizes, IInv
  PROVE  TypeOK /\ NeverOverfull /\ EmptyAgreed
<1>1. PICK c \in Nat \ {0} : c = Capacity
  BY CurrentRing DEF IInv, Core
<1>2. /\ bottom \in Int /\ top \in Nat /\ topCache \in Nat /\ pushed \in Nat /\ pushed <= MaxItems
      /\ topCache <= top /\ top <= Back /\ Back - topCache <= c /\ Filled <= pushed
  BY <1>1 DEF IInv, Core, Shapes, CacheUseful, Contents
<1>3. NeverOverfull
  <2>1. Back \in Int
    BY <1>2 DEF Back
  <2>2. Back - top <= c
    BY <1>2, <2>1
  <2> QED
    BY <1>1, <2>2 DEF NeverOverfull, Capacity
<1>4. bottom \in -1 .. MaxItems /\ {top, topCache, pushed} \subseteq 0 .. MaxItems
  BY <1>2 DEF Sizes, Filled, Back
<1>5. /\ grows \in BOOLEAN /\ t \in [Threads -> 0 .. MaxItems]
      /\ ring \in [Threads -> 0 .. Len(rings)] /\ val \in [Threads -> 0 .. MaxItems]
      /\ taken \in [1 .. MaxItems -> 0 .. 1]
  BY DEF IInv, Locals, Contents, Numbers
<1>6. \A r \in 1 .. Len(rings) : rings[r] \in Seq(0 .. MaxItems)
  BY DEF IInv, Core, Shapes, Numbers
<1>7. pc[Owner] \in OwnerPCs /\ \A th \in Thieves : pc[th] \in ThiefPCs
  BY DEF IInv, Core, Shapes, ThievesBehind
<1> QED
  BY <1>3, <1>4, <1>5, <1>6, <1>7 DEF TypeOK, IInv, Core, PopUndecided

--------------------------------------------------------------------------------
(* Stretches: the items of a ring, between two indices, as a sequence.        *)

\* Sequences with the same entries are the same.
LEMMA SameEntries ==
  ASSUME NEW S, NEW s \in Seq(S), NEW u \in Seq(S), Len(s) = Len(u),
         \A i \in 1 .. Len(s) : s[i] = u[i]
  PROVE  s = u
<1>1. s = [i \in 1 .. Len(s) |-> s[i]] /\ u = [i \in 1 .. Len(u) |-> u[i]]
  OBVIOUS
<1> QED
  BY <1>1

\* What SubSeq returns.
LEMMA Cut ==
  ASSUME NEW S, NEW s \in Seq(S), NEW m \in 1 .. Len(s) + 1, NEW n \in m - 1 .. Len(s)
  PROVE  /\ SubSeq(s, m, n) \in Seq(S) /\ Len(SubSeq(s, m, n)) = n - m + 1
         /\ \A i \in 1 .. n - m + 1 : SubSeq(s, m, n)[i] = s[m + i - 1]
OBVIOUS

\* The entries of f from index a on, up to and without index b.
Stretch(f, a, b) == [k \in 1 .. b - a |-> f[a + k - 1]]

\* What the entries of f are.
Entries(f) == {f[i] : i \in Int}

\* A stretch is a sequence.
LEMMA StretchSeq ==
  ASSUME NEW f, NEW a \in Int, NEW b \in Int, a <= b
  PROVE  /\ Stretch(f, a, b) \in Seq(Entries(f))
         /\ Len(Stretch(f, a, b)) = b - a
         /\ \A k \in 1 .. b - a : Stretch(f, a, b)[k] = f[a + k - 1]
<1>1. b - a \in Nat /\ \A k \in 1 .. b - a : a + k - 1 \in Int
  OBVIOUS
<1>2. Stretch(f, a, b) \in [1 .. b - a -> Entries(f)]
  BY <1>1 DEF Stretch, Entries
<1>3. Stretch(f, a, b) \in Seq(Entries(f)) /\ Len(Stretch(f, a, b)) = b - a
  BY <1>1, <1>2, Made
<1>4. \A k \in 1 .. b - a : Stretch(f, a, b)[k] = f[a + k - 1]
  BY DEF Stretch
<1> QED
  BY <1>3, <1>4

\* Equal entries make equal stretches.
LEMMA StretchSame ==
  ASSUME NEW f, NEW g, NEW a \in Int, NEW b \in Int, \A i \in a .. b - 1 : f[i] = g[i]
  PROVE  Stretch(f, a, b) = Stretch(g, a, b)
<1>1. \A k \in 1 .. b - a : a + k - 1 \in a .. b - 1
  OBVIOUS
<1> QED
  BY <1>1 DEF Stretch

\* A stretch that ends where it begins is empty.
LEMMA StretchEmpty ==
  ASSUME NEW f, NEW a \in Int
  PROVE  Stretch(f, a, a) = <<>>
<1>1. 1 .. a - a = {}
  OBVIOUS
<1> QED
  BY <1>1 DEF Stretch

\* The part of a stretch between two places is a stretch.
LEMMA StretchPart ==
  ASSUME NEW f, NEW a \in Int, NEW b \in Int, NEW c \in a .. b, NEW d \in c .. b
  PROVE  SubSeq(Stretch(f, a, b), c - a + 1, d - a) = Stretch(f, c, d)
<1> DEFINE S == Entries(f)
           s == Stretch(f, a, b)
           u == Stretch(f, c, d)
           v == SubSeq(s, c - a + 1, d - a)
<1>0. a <= b /\ c \in Int /\ d \in Int /\ c <= d
  OBVIOUS
<1>1. s \in Seq(S) /\ Len(s) = b - a /\ \A k \in 1 .. b - a : s[k] = f[a + k - 1]
  BY <1>0, StretchSeq
<1>2. u \in Seq(S) /\ Len(u) = d - c /\ \A k \in 1 .. d - c : u[k] = f[c + k - 1]
  BY <1>0, StretchSeq
<1>3. c - a + 1 \in 1 .. (b - a) + 1 /\ d - a \in (c - a + 1) - 1 .. b - a
  OBVIOUS
<1>4. (d - a) - (c - a + 1) + 1 = d - c
  OBVIOUS
<1> HIDE DEF S, s, u
<1>5. /\ v \in Seq(S)
      /\ Len(v) = (d - a) - (c - a + 1) + 1
      /\ \A i \in 1 .. (d - a) - (c - a + 1) + 1 : v[i] = s[(c - a + 1) + i - 1]
  BY <1>1, <1>3, <1>4, Cut
<1> HIDE DEF v
<1>6. Len(v) = d - c
  BY <1>5
<1>7. ASSUME NEW k \in 1 .. d - c
      PROVE  v[k] = u[k]
  <2>1. v[k] = s[(c - a + 1) + k - 1]
    BY <1>4, <1>5
  <2>2. (c - a + 1) + k - 1 \in 1 .. b - a /\ a + ((c - a + 1) + k - 1) - 1 = c + k - 1
    OBVIOUS
  <2> QED
    BY <1>1, <1>2, <2>1, <2>2
<1>8. v = u
  BY <1>2, <1>5, <1>6, <1>7, SameEntries
<1> QED
  BY <1>8 DEF v, s, u

\* The first entry, the last one, and what is left without them.
LEMMA StretchEnds ==
  ASSUME NEW f, NEW a \in Int, NEW b \in Int, a < b
  PROVE  /\ Stretch(f, a, b) # <<>>
         /\ Head(Stretch(f, a, b)) = f[a]
         /\ Tail(Stretch(f, a, b)) = Stretch(f, a + 1, b)
         /\ Stretch(f, a, b)[Len(Stretch(f, a, b))] = f[b - 1]
         /\ SubSeq(Stretch(f, a, b), 1, Len(Stretch(f, a, b)) - 1) = Stretch(f, a, b - 1)
<1> DEFINE s == Stretch(f, a, b)
<1>0. a <= b
  OBVIOUS
<1>1. /\ s \in Seq(Entries(f)) /\ Len(s) = b - a
      /\ \A k \in 1 .. b - a : s[k] = f[a + k - 1]
  BY <1>0, StretchSeq
<1>2. s[1] = f[a] /\ s[b - a] = f[b - 1]
  <2>1. 1 \in 1 .. b - a /\ b - a \in 1 .. b - a /\ a + 1 - 1 = a /\ a + (b - a) - 1 = b - 1
    OBVIOUS
  <2> HIDE DEF s
  <2> QED
    BY <1>1, <2>1
<1>3. SubSeq(s, 2, b - a) = Stretch(f, a + 1, b)
  <2>1. a + 1 \in a .. b /\ b \in a + 1 .. b /\ (a + 1) - a + 1 = 2
    OBVIOUS
  <2> QED
    BY <2>1, StretchPart
<1>4. SubSeq(s, 1, b - a - 1) = Stretch(f, a, b - 1)
  <2>1. a \in a .. b /\ b - 1 \in a .. b /\ a - a + 1 = 1 /\ (b - 1) - a = b - a - 1
    OBVIOUS
  <2> QED
    BY <2>1, StretchPart
<1> HIDE DEF s
<1>5. s # <<>> /\ Head(s) = s[1]
  BY <1>1
<1>6. Tail(s) = SubSeq(s, 2, Len(s))
  <2>1. /\ Tail(s) \in Seq(Entries(f)) /\ Len(Tail(s)) = Len(s) - 1
        /\ \A i \in 1 .. Len(s) - 1 : Tail(s)[i] = s[i + 1]
    BY <1>1, <1>5
  <2>2. 2 \in 1 .. Len(s) + 1 /\ Len(s) \in 2 - 1 .. Len(s) /\ Len(s) - 2 + 1 = Len(s) - 1
    BY <1>1
  <2>3. /\ SubSeq(s, 2, Len(s)) \in Seq(Entries(f)) /\ Len(SubSeq(s, 2, Len(s))) = Len(s) - 1
        /\ \A i \in 1 .. Len(s) - 1 : SubSeq(s, 2, Len(s))[i] = s[2 + i - 1]
    BY <1>1, <2>2, Cut
  <2>4. \A i \in 1 .. Len(s) - 1 : 2 + i - 1 = i + 1
    OBVIOUS
  <2> QED
    BY <2>1, <2>3, <2>4, SameEntries
<1>7. /\ s # <<>> /\ Head(s) = f[a] /\ Tail(s) = Stretch(f, a + 1, b)
      /\ s[Len(s)] = f[b - 1] /\ SubSeq(s, 1, Len(s) - 1) = Stretch(f, a, b - 1)
  BY <1>1, <1>2, <1>3, <1>4, <1>5, <1>6
<1> QED
  BY <1>7 DEF s

\* Sequence u is s with something added at the back, of length cap at most.
Longer(s, u, cap) == Len(u) \in Len(s) + 1 .. cap /\ SubSeq(u, 1, Len(s)) = s

\* Sequence s is u, not empty, followed by v.
Splits(s, u, v) ==
  \E n \in 1 .. Len(s) : u = SubSeq(s, 1, n) /\ v = SubSeq(s, n + 1, Len(s))

\* One more entry at the end.
LEMMA StretchPut ==
  ASSUME NEW f, NEW a \in Int, NEW b \in Int, NEW c \in Int, NEW cap \in Int,
         a <= b, b < c, c - a <= cap
  PROVE  Longer(Stretch(f, a, b), Stretch(f, a, c), cap)
<1>1. Len(Stretch(f, a, b)) = b - a /\ Len(Stretch(f, a, c)) = c - a
  BY StretchSeq
<1>2. SubSeq(Stretch(f, a, c), a - a + 1, b - a) = Stretch(f, a, b)
  BY StretchPart
<1>3. a - a + 1 = 1
  OBVIOUS
<1> QED
  BY <1>1, <1>2, <1>3 DEF Longer

\* The first entry taken off.
LEMMA StretchTake ==
  ASSUME NEW f, NEW a \in Int, NEW b \in Int, NEW c \in Int, a < c, c <= b
  PROVE  Splits(Stretch(f, a, b), Stretch(f, a, c), Stretch(f, c, b))
<1>1. Len(Stretch(f, a, b)) = b - a
  <2>1. a <= b
    OBVIOUS
  <2> QED
    BY <2>1, StretchSeq
<1>2. SubSeq(Stretch(f, a, b), c - a + 1, b - a) = Stretch(f, c, b)
  BY StretchPart
<1>3. SubSeq(Stretch(f, a, b), a - a + 1, c - a) = Stretch(f, a, c)
  <2>1. a \in a .. b /\ c \in a .. b
    OBVIOUS
  <2> QED
    BY <2>1, StretchPart
<1>4. b - a \in Nat /\ c - a \in 1 .. b - a /\ a - a + 1 = 1
  OBVIOUS
<1>5. PICK n \in 1 .. b - a : n = c - a
  BY <1>4
<1>6. /\ Stretch(f, a, c) = SubSeq(Stretch(f, a, b), 1, n)
      /\ Stretch(f, c, b) = SubSeq(Stretch(f, a, b), n + 1, b - a)
  BY <1>2, <1>3, <1>4, <1>5
<1> QED
  BY <1>1, <1>5, <1>6 DEF Splits

--------------------------------------------------------------------------------
(* The one-to-one ring as a bounded queue. *)

\* What each index shows.
PairAt(c) == [i \in Int |-> c[i % PairCap]]

\* The queue a reader of the indices and the slots sees.
PairSeen ==
  /\ Pair!Items = Stretch(PairAt(cell), Pair!Front, tail)
  /\ Pair!Out = [c \in {Consumer} |-> IF pc[Consumer] = "copy"
                   THEN Stretch(PairAt(cell), head, Pair!Front) ELSE <<>>]

\* The items a reader of the model sees are the stretch from front to tail.
LEMMA PairShown == PairCore => PairSeen
<1> HAVE PairCore
<1>1. Pair!Front \in Int /\ head \in Int /\ tail \in Int
  BY DEF PairCore, PairShapes, PairSides, Pair!Front
<1>2. Pair!Items = Stretch(PairAt(cell), Pair!Front, tail)
  <2>1. \A k \in 1 .. tail - Pair!Front : Pair!Front + k - 1 \in Int
    BY <1>1
  <2> QED
    BY <2>1 DEF Pair!Items, Stretch, PairAt
<1>3. CASE pc[Consumer] = "copy"
  <2>1. Pair!Front = head + count[Consumer] /\ count[Consumer] = Pair!Front - head
    BY <1>1, <1>3 DEF Pair!Front, PairCore, PairShapes, PairSides
  <2>2. \A k \in 1 .. Pair!Front - head : head + k - 1 \in Int
    BY <1>1
  <2>3. Stretch(PairAt(cell), head, Pair!Front) =
          [k \in 1 .. count[Consumer] |-> cell[(head + k - 1) % PairCap]]
    BY <2>1, <2>2 DEF Stretch, PairAt
  <2> QED
    BY <1>2, <1>3, <2>3 DEF Pair!Out, PairSeen
<1> QED
  BY <1>2, <1>3 DEF Pair!Out, PairSeen

\* A step of either side, seen through the items between Front and tail and the
\* copies under way, is a step of the bounded queue.
LEMMA PairRefines ==
  ASSUME Sizes, PairIInv, PairIInv', Pair!Next \/ UNCHANGED Pair!vars
  PROVE  Pair!Abstract!Next \/ UNCHANGED <<Pair!Items, Pair!Out>>
<1> DEFINE at == PairAt(cell)
<1>1. /\ Pair!Items = Stretch(at, Pair!Front, tail)
      /\ Pair!Out = [c \in {Consumer} |-> IF pc[Consumer] = "copy"
                       THEN Stretch(at, head, Pair!Front) ELSE <<>>]
  BY PairShown DEF PairIInv, PairSeen
<1>2. /\ Pair!Items' = Stretch(at', Pair!Front', tail')
      /\ Pair!Out' = [c \in {Consumer} |-> IF pc'[Consumer] = "copy"
                        THEN Stretch(at', head', Pair!Front') ELSE <<>>]
  <2>1. PairCore'
    BY DEF PairIInv
  <2>2. PairSeen'
    BY <2>1, PairShown, PTL
  <2> QED
    BY <2>2 DEF PairSeen
<1>3. /\ head \in Nat /\ tail \in Nat /\ Pair!Front \in Nat
      /\ head <= Pair!Front /\ Pair!Front <= tail /\ tail - head <= PairCap
  BY DEF Sizes, PairIInv, PairCore, PairShapes, PairSides, Pair!MemoryUsable, PairItemsFound, Pair!Front
<1>4. CASE Pair!PushCall \/ Pair!PushRefresh \/ Pair!PopRelease
  <2>1. /\ at' = at /\ Pair!Front' = Pair!Front /\ tail' = tail
        /\ pc[Consumer] # "copy" /\ pc'[Consumer] # "copy"
        \/ (/\ at' = at /\ Pair!Front' = Pair!Front /\ tail' = tail /\ head' = head
            /\ pc'[Consumer] = pc[Consumer])
    BY <1>4 DEF Pair!PushCall, Pair!PushRefresh, Pair!PopRelease, Pair!Go, Pair!Front,
                PairIInv, PairCore, PairShapes, PairSides
  <2> QED
    BY <1>1, <1>2, <2>1
<1>5. CASE Pair!PushFill
  <2>1. /\ UNCHANGED <<Pair!Front, head, tail>> /\ pc'[Consumer] = pc[Consumer]
        /\ pushed' = pushed + count[Producer] /\ PairFilled' = tail + count[Producer]
        /\ PairFilled = tail
    BY <1>5 DEF Sizes, Pair!PushFill, Pair!Go, Pair!Front, PairFilled, PairIInv, PairCore, PairShapes, PairSides, PairPlaces
  <2>2. PICK n \in Nat : n = count[Producer]
    BY DEF PairIInv, PairCore, PairShapes, PairSides
  <2>3. PICK p \in Nat : p = pushed
    BY DEF PairIInv, PairCore, PairShapes
  <2>4. \A i \in head .. tail - 1 : cell[i % PairCap] = p - (tail - 1 - i)
    BY <2>1, <2>3 DEF PairIInv, PairCore, PairContents
  <2>5. \A i \in head .. (tail + n) - 1 : cell'[i % PairCap] = (p + n) - ((tail + n) - 1 - i)
    BY <2>1, <2>2, <2>3 DEF PairIInv, PairCore, PairContents
  <2>6. \A i \in head .. tail - 1 : i \in head .. (tail + n) - 1 /\ i \in Int
                                     /\ (p + n) - ((tail + n) - 1 - i) = p - (tail - 1 - i)
    BY <1>3
  <2>7. \A i \in head .. tail - 1 : at'[i] = at[i]
    BY <2>4, <2>5, <2>6 DEF PairAt
  <2> HIDE DEF at
  <2>8. PICK f \in Nat : f = Pair!Front /\ head <= f /\ f <= tail
    BY <1>3
  <2>9. /\ \A i \in f .. tail - 1 : at'[i] = at[i]
        /\ \A i \in head .. f - 1 : at'[i] = at[i]
    BY <1>3, <2>7, <2>8
  <2>10. Stretch(at', f, tail) = Stretch(at, f, tail) /\ Stretch(at', head, f) = Stretch(at, head, f)
    BY <1>3, <2>9, StretchSame
  <2> QED
    BY <1>1, <1>2, <2>1, <2>8, <2>10
<1>6. CASE Pair!PushPublish
  <2>1. /\ UNCHANGED <<Pair!Front, head>> /\ pc'[Consumer] = pc[Consumer] /\ at' = at
        /\ tail' = tail + count[Producer] /\ count[Producer] > 0 /\ count[Producer] \in Nat
    BY <1>6 DEF Sizes, Pair!PushPublish, Pair!Go, Pair!Front, PairIInv, PairCore, PairShapes, PairSides, PairPlaces, PairBounds
  <2>2. PICK f \in Int, b \in Int, c \in Int : f = Pair!Front /\ b = tail /\ c = tail'
    BY <1>3, <2>1
  <2>3. f <= b /\ b < c /\ c - f <= PairCap
    <3>1. tail + count[Producer] - cachedHead <= PairCap /\ cachedHead <= head /\ cachedHead \in Nat
      BY <1>6 DEF Pair!PushPublish, PairIInv, PairCore, PairShapes, Pair!MemoryUsable, PairRoomFound
    <3>2. PICK n \in Nat, h \in Nat : n = count[Producer] /\ n > 0 /\ c = b + n /\ h = cachedHead
      BY <2>1, <2>2, <3>1
    <3>3. PairCap \in Nat /\ b + n - h <= PairCap /\ h <= f /\ f <= b
      BY <1>3, <2>2, <3>1, <3>2 DEF Sizes
    <3> QED
      BY <3>2, <3>3
  <2> HIDE DEF at
  <2>4. Longer(Stretch(at, f, b), Stretch(at, f, c), PairCap)
    <3>1. PairCap \in Int
      BY DEF Sizes
    <3> QED
      BY <2>3, <3>1, StretchPut
  <2>5. Pair!Items = Stretch(at, f, b) /\ Pair!Items' = Stretch(at, f, c) /\ Pair!Out' = Pair!Out
    BY <1>1, <1>2, <2>1, <2>2
  <2>6. Pair!Abstract!Put
    BY <2>4, <2>5 DEF Longer, Pair!Abstract!Put
  <2> QED
    BY <2>6 DEF Pair!Abstract!Next
<1>7. CASE Pair!PopCall \/ Pair!PopRefresh
  <2>1. /\ UNCHANGED <<head, tail>> /\ at' = at /\ pc[Consumer] # "copy"
        /\ pc[Consumer] # "release" /\ pc'[Consumer] # "release"
    BY <1>7 DEF Pair!PopCall, Pair!PopRefresh, Pair!Go, PairIInv, PairCore, PairShapes, PairSides
  <2>2. Pair!Front = head
    BY <2>1 DEF Pair!Front
  <2>3. CASE pc'[Consumer] = "copy"
    <3>1. PICK a \in Int, b \in Int, c \in Int :
            a = head /\ b = tail /\ c = Pair!Front' /\ a < c /\ c <= b
      BY <1>3, <2>1, <2>3 DEF Pair!Front, PairIInv, PairCore, PairShapes, PairSides, PairItemsFound, PairBounds
    <3> HIDE DEF at
    <3>2. Splits(Stretch(at, a, b), Stretch(at, a, c), Stretch(at, c, b))
      BY <3>1, StretchTake
    <3>3. /\ Pair!Items = Stretch(at, a, b) /\ Pair!Items' = Stretch(at, c, b)
          /\ Pair!Out' = [Pair!Out EXCEPT ![Consumer] = Stretch(at, a, c)]
      BY <1>1, <1>2, <2>1, <2>2, <2>3, <3>1
    <3>4. Pair!Abstract!Take(Consumer)
      BY <3>2, <3>3 DEF Splits, Pair!Abstract!Take
    <3> QED
      BY <3>4 DEF Pair!Abstract!Next
  <2>4. CASE pc'[Consumer] # "copy"
    <3>1. Pair!Front' = head
      BY <2>1, <2>4 DEF Pair!Front
    <3> QED
      BY <1>1, <1>2, <2>1, <2>2, <2>4, <3>1
  <2> QED
    BY <2>3, <2>4
<1>8. CASE Pair!PopCopy
  <2>1. /\ UNCHANGED <<head, tail>> /\ at' = at /\ Pair!Front' = Pair!Front
        /\ pc[Consumer] = "copy" /\ pc'[Consumer] = "release"
    BY <1>8 DEF Pair!PopCopy, Pair!Go, Pair!Front, PairIInv, PairCore, PairShapes, PairSides
  <2>2. Pair!Items' = Pair!Items /\ Pair!Out' = [Pair!Out EXCEPT ![Consumer] = <<>>]
    BY <1>1, <1>2, <2>1
  <2>3. Pair!Abstract!Copied(Consumer)
    BY <2>2 DEF Pair!Abstract!Copied
  <2> QED
    BY <2>3 DEF Pair!Abstract!Next
<1>9. CASE Pair!Clear
  <2>1. /\ Pair!Front' = 0 /\ tail' = 0 /\ pc'[Consumer] = "idle" /\ pc[Consumer] = "idle"
    BY <1>9 DEF Pair!Clear, Pair!Front, PairIInv, PairCore, PairShapes, PairSides
  <2> HIDE DEF at
  <2>2. Pair!Items' = <<>>
    BY <1>2, <2>1, StretchEmpty
  <2>3. Pair!Out' = Pair!Out
    BY <1>1, <1>2, <2>1
  <2>4. Pair!Abstract!Clear
    BY <2>2, <2>3 DEF Pair!Abstract!Clear
  <2> QED
    BY <2>4 DEF Pair!Abstract!Next
<1>10. CASE UNCHANGED Pair!vars
  BY <1>1, <1>2, <1>10 DEF Pair!vars, Pair!Front
<1> QED
  BY <1>4, <1>5, <1>6, <1>7, <1>8, <1>9, <1>10 DEF Pair!Next

\* It starts empty, as the bounded queue does.
LEMMA PairViewInit ==
  ASSUME Sizes, Pair!Init
  PROVE  Pair!Abstract!Init
<1>1. PairCore
  BY PairInit DEF PairIInv
<1>2. PairSeen
  BY <1>1, PairShown
<1>3. tail = 0 /\ Pair!Front = 0 /\ pc[Consumer] = "idle"
  BY DEF Pair!Init, Pair!Front
<1>4. Pair!Items = <<>> /\ Pair!Out = [c \in {Consumer} |-> <<>>]
  BY <1>2, <1>3, StretchEmpty DEF PairSeen
<1> QED
  BY <1>4 DEF Pair!Abstract!Init

--------------------------------------------------------------------------------
(* The deque as one with two ends. *)

\* The deque as a thief and the owner see it.
View == INSTANCE DequeSpec WITH items <- Items

\* The items of the deque as a stretch of the ring in use.
DequeSeen == Items = Stretch(LastAt(rings), top, Back)

\* A reader of the model sees that stretch.
LEMMA DequeShown == Core => DequeSeen
<1> SUFFICES ASSUME Core PROVE DequeSeen
  OBVIOUS
<1>1. top \in Int /\ Back \in Int
  BY DEF Core, Shapes, Back
<1>2. \A k \in 1 .. Back - top : top + k - 1 \in Int
  BY <1>1
<1>3. \A k \in 1 .. Back - top : Slot(Current, top + k - 1) = LastAt(rings)[top + k - 1]
  BY <1>2 DEF LastAt, SlotIn, Slot, Current, CapOf
<1> QED
  BY <1>3 DEF DequeSeen, Items, Stretch

\* Every step of the deque is a step of the abstract one, or none.
LEMMA DequeRefines ==
  ASSUME Sizes, IInv, IInv', Next \/ UNCHANGED vars
  PROVE  View!Next \/ UNCHANGED <<Items, taken>>
<1> DEFINE at == LastAt(rings)
<1>1. /\ Items = Stretch(at, top, Back) /\ Items' = Stretch(at', top', Back')
  <2>1. DequeSeen
    BY DequeShown DEF IInv
  <2>2. Core'
    BY DEF IInv
  <2>3. DequeSeen'
    BY <2>2, DequeShown, PTL
  <2> QED
    BY <2>1, <2>3 DEF DequeSeen
<1>2. /\ bottom \in Int /\ top \in Nat /\ pc[Owner] \in OwnerPCs /\ top <= Back
      /\ pc \in [Threads -> OwnerPCs \cup ThiefPCs]
      /\ Owner \in Threads /\ Back \in Int
  BY DEF IInv, Core, Shapes, CacheUseful, Threads, Back
<1>3. \A i \in top .. Back - 1 : at'[i] = at[i]
  <2>1. \A i \in top .. Filled - 1 : at'[i] = at[i]
    BY Keeps DEF Kept
  <2>2. Back <= Filled /\ Filled \in Int
    BY <1>2 DEF Filled, Back
  <2> HIDE DEF at
  <2> QED
    BY <1>2, <2>1, <2>2
<1> USE DEF OwnerPCs, Goto, Return
<1>4. ASSUME top' = top, Back' = Back, taken' = taken
      PROVE  UNCHANGED <<Items, taken>>
  <2> HIDE DEF at
  <2>1. Stretch(at', top, Back) = Stretch(at, top, Back)
    BY <1>2, <1>3, StretchSame
  <2> QED
    BY <1>1, <1>4, <2>1
<1>5. ASSUME at' = at, top < Back, HandOut(at[top]), top' = top + 1, Back' = Back
      PROVE  View!Steal
  <2> HIDE DEF at
  <2>1. PICK a \in Int, b \in Int : a = top /\ b = Back /\ a < b
    BY <1>2, <1>5
  <2>2. /\ Stretch(at, a, b) # <<>> /\ Head(Stretch(at, a, b)) = at[a]
        /\ Tail(Stretch(at, a, b)) = Stretch(at, a + 1, b)
    BY <2>1, StretchEnds
  <2> QED
    BY <1>1, <1>5, <2>1, <2>2 DEF View!Steal, View!HandOut, HandOut
<1>6. CASE PushSlot
  BY <1>2, <1>4, <1>6 DEF PushSlot, Back
<1>7. CASE PushPublish
  <2>1. at' = at /\ top' = top /\ Back = bottom /\ Back' = bottom + 1 /\ taken' = taken
    BY <1>2, <1>7 DEF PushPublish, Back
  <2> HIDE DEF at
  <2>2. PICK a \in Int, b \in Int : a = top /\ b = bottom /\ a <= b
    BY <1>2, <2>1
  <2>3. Longer(Stretch(at, a, b), Stretch(at, a, b + 1), b + 1 - a)
    <3>1. b + 1 \in Int /\ b + 1 - a \in Int /\ b < b + 1 /\ (b + 1) - a <= b + 1 - a
      OBVIOUS
    <3> QED
      BY <2>2, <3>1, StretchPut
  <2>4. Len(Stretch(at, a, b)) = b - a /\ Len(Stretch(at, a, b + 1)) = b + 1 - a
    BY <2>2, StretchSeq
  <2>5. Items = Stretch(at, a, b) /\ Items' = Stretch(at, a, b + 1)
    BY <1>1, <2>1, <2>2
  <2>6. View!Put
    BY <2>1, <2>3, <2>4, <2>5 DEF Longer, View!Put
  <2> QED
    BY <2>6 DEF View!Next
<1>8. CASE PushFull \/ Grow
  BY <1>2, <1>4, <1>8 DEF PushFull, Grow, Back
<1>9. CASE PopDec \/ PopRestore
  BY <1>2, <1>4, <1>9 DEF PopDec, PopRestore, Back
<1>10. CASE PopTop
  <2>1. CASE bottom > top /\ HandOut(Slot(Current, bottom)) /\ Return(Owner)
    <3>1. at' = at /\ top' = top /\ Back = bottom + 1 /\ Back' = bottom
      BY <1>2, <1>10, <2>1 DEF PopTop, words, Back
    <3>2. HandOut(at[bottom])
      BY <1>2, <2>1, SlotLast
    <3> HIDE DEF at
    <3>3. PICK a \in Int, b \in Int : a = top /\ b = bottom + 1 /\ a < b /\ b - 1 = bottom
      BY <1>2, <2>1
    <3>4. /\ Stretch(at, a, b) # <<>>
          /\ Stretch(at, a, b)[Len(Stretch(at, a, b))] = at[b - 1]
          /\ SubSeq(Stretch(at, a, b), 1, Len(Stretch(at, a, b)) - 1) = Stretch(at, a, b - 1)
      BY <3>3, StretchEnds
    <3>5. Items = Stretch(at, a, b) /\ Items' = Stretch(at, a, b - 1)
      BY <1>1, <3>1, <3>3
    <3>6. View!Pop
      BY <3>2, <3>3, <3>4, <3>5 DEF View!Pop, View!HandOut, HandOut
    <3> QED
      BY <3>6 DEF View!Next
  <2>2. CASE ~(bottom > top)
    <3>1. UNCHANGED <<top, taken>> /\ Back' = Back
      BY <1>2, <1>10, <2>2 DEF PopTop, words, Back
    <3> QED
      BY <1>4, <3>1
  <2> QED
    BY <1>2, <1>10, <2>1, <2>2 DEF PopTop
<1>11. CASE PopCas
  <2>0. /\ at' = at /\ Back = bottom + 1 /\ Back' = bottom + 1
        /\ t[Owner] = bottom /\ val[Owner] = at[bottom]
    BY <1>2, <1>11 DEF PopCas, IInv, Core, PopUndecided, Reads, Back
  <2> HIDE DEF at
  <2>1. CASE top = t[Owner]
    <3>1. HandOut(at[top]) /\ top' = top + 1 /\ top < Back
      <4>1. HandOut(val[Owner]) /\ top' = top + 1
        BY <1>11, <2>1 DEF PopCas
      <4>2. val[Owner] = at[top] /\ top < Back
        BY <1>2, <2>0, <2>1
      <4> QED
        BY <4>1, <4>2
    <3> QED
      BY <1>5, <2>0, <3>1 DEF View!Next
  <2>2. CASE top # t[Owner]
    BY <1>4, <1>11, <2>0, <2>2 DEF PopCas
  <2> QED
    BY <2>1, <2>2
<1>12. ASSUME NEW th \in Thieves, Stealing(th)
       PROVE  View!Next \/ UNCHANGED <<Items, taken>>
  <2>1. at' = at /\ Back' = Back
    <3>1. UNCHANGED <<rings, bottom>> /\ pc'[Owner] = pc[Owner]
      BY <1>2, <1>12, ThiefAlone DEF Sizes
    <3> QED
      BY <3>1 DEF Back
  <2>2. CASE StealTake(th)
    <3>1. pc[th] = "take" /\ top = t[th] /\ top' = top + 1 /\ HandOut(val[th])
      BY <2>2 DEF StealTake
    <3>2. val[th] = at[top] /\ top < Back
      BY <3>1 DEF IInv, Reads, Core, ThievesBehind
    <3> QED
      BY <1>5, <2>1, <3>1, <3>2 DEF View!Next
  <2>3. CASE ~StealTake(th)
    <3>1. UNCHANGED <<top, taken>>
      BY <1>12, <2>3 DEF Stealing, StealTop, StealBottom, StealBase, StealSlot,
                StealLost, words
    <3> QED
      BY <1>4, <2>1, <3>1
  <2> QED
    BY <2>2, <2>3
<1>13. CASE UNCHANGED vars
  <2>1. UNCHANGED <<top, taken>> /\ Back' = Back
    BY <1>13 DEF vars, words, Back
  <2> QED
    BY <1>4, <2>1
<1> QED
  BY <1>6, <1>7, <1>8, <1>9, <1>10, <1>11, <1>12, <1>13 DEF Next, Owning

\* It starts as the abstract one does.
LEMMA DequeViewInit ==
  ASSUME Sizes, Init
  PROVE  View!Init
<1>1. Core
  BY CoreInitially
<1>2. DequeSeen
  BY <1>1, DequeShown
<1>3. top = 0 /\ Back = 0
  BY DEF Init, Back, Threads
<1>4. Items = <<>>
  BY <1>2, <1>3, StretchEmpty DEF DequeSeen
<1>5. taken = [x \in DOMAIN taken |-> 0]
  BY DEF Init
<1> QED
  BY <1>4, <1>5 DEF View!Init
================================================================================
