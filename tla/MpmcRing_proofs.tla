---------------------------- MODULE MpmcRing_proofs ----------------------------
(***************************************************************************)
(* The ring with sequence tags keeps what it promises for every number of  *)
(* producers, consumers, cells and pushes: the inductive invariant IInv,   *)
(* what a step does to the items in the ring and to those being copied     *)
(* out, and that push() and pop() refuse only with a reason.  Queues_proofs *)
(* states the theorems.                                                    *)
(***************************************************************************)
EXTENDS MpmcRing, TLAPS

\* At least two cells; no thread is on both sides.
Sizes ==
  /\ Cap \in Nat \ {0, 1} /\ MaxPushes \in Nat
  /\ Producers \cap Consumers = {} /\ Drainer \in Consumers

\* Indices less than a lap apart have different slots.
LEMMA SlotsApart ==
  ASSUME NEW c \in Nat \ {0}, NEW a \in Nat, NEW b \in Nat,
         a <= b, b - a < c, a % c = b % c
  PROVE  a = b
<1>1. a = ((a \div c) * c) + (a % c) /\ a \div c \in Nat
  OBVIOUS
<1>2. b = ((b \div c) * c) + (b % c) /\ b \div c \in Nat
  OBVIOUS
<1>3. PICK p \in Nat : a = (p * c) + (a % c)
  BY <1>1
<1>4. PICK q \in Nat : b = (q * c) + (b % c)
  BY <1>2
<1>5. a % c \in Nat /\ p * c \in Nat /\ q * c \in Nat
  OBVIOUS
<1>6. b - a = q * c - p * c
  BY <1>3, <1>4, <1>5
<1>7. q * c - p * c = (q - p) * c
  OBVIOUS
<1>8. q - p >= 1 => (q - p) * c >= c
  OBVIOUS
<1>9. q - p <= -1 => (q - p) * c <= -c
  OBVIOUS
<1> QED
  BY <1>6, <1>7, <1>8, <1>9

--------------------------------------------------------------------------------
\* What a position's tag is in the tags tg.
TagIn(tg, i) == tg[i % Cap]

\* Where a producer, a consumer and the one drain of the allocator can be.
PushPlaces == {"idle", "load", "tag", "claim", "fill", "publish"}
PopPlaces == {"idle", "load", "tag", "claim", "copy", "reopen"}
DrainPlaces == {"idle", "copy", "reopen", "advance"}

\* A cell holds nothing or an item some producer numbered.
CellsTyped == cell \in [Cells -> {Nothing} \cup (Producers \X (1 .. MaxPushes))]

\* The types, and who can be where; a drain works at head.
Shapes ==
  /\ TypeOK /\ CellsTyped
  /\ \A p \in Producers : pc[p] \in PushPlaces /\ (pc[p] # "idle" => pushes[p] > 0)
  /\ \A c \in Consumers : pc[c] \in IF ~single THEN PopPlaces
                                    ELSE IF c = Drainer THEN DrainPlaces ELSE {"idle"}
  /\ single /\ pc[Drainer] # "idle" => pos[Drainer] = head

\* Position i has been claimed by a push that has not published it, or by a pop
\* that has not given the cell back.
Filling(p, i) == pc[p] \in {"fill", "publish"} /\ pos[p] = i
Emptying(c, i) == pc[c] \in {"copy", "reopen"} /\ pos[c] = i

\* The tags of the cells, position by position: behind the window, claimed by a
\* push, and open for one, unless the last lap's pop is still at work.
Window ==
  /\ Front <= tail /\ tail <= Front + Cap
  /\ \A i \in 0 .. Front - 1 : TagIn(tag, i) > i
  /\ \A i \in Front .. tail - 1 :
       TagIn(tag, i) = i + 1 \/ (TagIn(tag, i) = i /\ \E p \in Producers : Filling(p, i))
  /\ \A i \in tail .. Front + Cap - 1 :
       TagIn(tag, i) = i \/ (TagIn(tag, i) = i - Cap + 1 /\ \E c \in Consumers : Emptying(c, i - Cap))

\* A push that read an open tag finds it so if its exchange succeeds; no two
\* pushes have claimed one position.
ClaimsToPush ==
  /\ \A p \in Producers :
       /\ pc[p] \in {"tag", "claim"} => pos[p] <= tail
       /\ pc[p] = "claim" /\ pos[p] = tail => TagIn(tag, tail) = tail
       /\ pc[p] \in {"fill", "publish"} =>
            pos[p] \in Front .. tail - 1 /\ TagIn(tag, pos[p]) = pos[p]
  /\ \A p, q \in Producers :
       pc[p] \in {"fill", "publish"} /\ pc[q] \in {"fill", "publish"} /\ pos[p] = pos[q] => p = q

\* The same of the pops, none of which lags the pushes by more than a lap.
ClaimsToPop ==
  /\ \A c \in Consumers :
       /\ pc[c] \in {"tag", "claim"} => pos[c] <= head
       /\ pc[c] = "claim" /\ pos[c] = head => TagIn(tag, head) = head + 1
       /\ pc[c] \in {"copy", "reopen"} =>
            pos[c] \in tail - Cap .. Front - 1 /\ TagIn(tag, pos[c]) = pos[c] + 1
  /\ \A c, d \in Consumers :
       pc[c] \in {"copy", "reopen"} /\ pc[d] \in {"copy", "reopen"} /\ pos[c] = pos[d] => c = d

\* The inductive invariant of the tagged ring.
IInv == Shapes /\ Window /\ ClaimsToPush /\ ClaimsToPop

--------------------------------------------------------------------------------
\* Positions a lap apart share a cell, closer ones do not.
Same(i, j) == i % Cap = j % Cap

\* A lap changes no remainder.
LEMMA LapLater ==
  ASSUME NEW c \in Nat \ {0}, NEW a \in Nat
  PROVE  (a + c) % c = a % c
<1>1. PICK p \in Nat : a = (p * c) + (a % c)
  <2>1. a = ((a \div c) * c) + (a % c) /\ a \div c \in Nat
    OBVIOUS
  <2> QED
    BY <2>1
<1>2. PICK q \in Nat : a + c = (q * c) + ((a + c) % c)
  <2>1. a + c = (((a + c) \div c) * c) + ((a + c) % c) /\ (a + c) \div c \in Nat
    OBVIOUS
  <2> QED
    BY <2>1
<1>3. PICK x \in 0 .. c - 1, y \in 0 .. c - 1 : x = a % c /\ y = (a + c) % c
  <2>1. a + c \in Nat
    OBVIOUS
  <2>2. a % c \in 0 .. c - 1 /\ (a + c) % c \in 0 .. c - 1
    BY <2>1
  <2> QED
    BY <2>2
<1>4. p * c \in Int /\ q * c \in Int
  OBVIOUS
<1>5. x - y = (q * c) - (p * c) - c
  BY <1>1, <1>2, <1>3, <1>4
<1>6. (q * c) - (p * c) - c = (q - p - 1) * c
  OBVIOUS
<1>7. q - p - 1 >= 1 => (q - p - 1) * c >= c
  OBVIOUS
<1>8. q - p - 1 <= -1 => (q - p - 1) * c <= -c
  OBVIOUS
<1>9. q - p - 1 = 0 => (q - p - 1) * c = 0
  OBVIOUS
<1>10. x = y
  <2>1. PICK z \in Int : z = (q - p - 1) * c
    OBVIOUS
  <2>2. x - y = z /\ x - y < c /\ y - x < c
    BY <1>3, <1>5, <1>6, <2>1
  <2>3. q - p - 1 = 0
    BY <1>7, <1>8, <2>1, <2>2
  <2> QED
    BY <1>9, <2>1, <2>2, <2>3
<1> QED
  BY <1>3, <1>10

\* The two facts about laps that the proofs use.
LEMMA Laps ==
  ASSUME Sizes
  PROVE  /\ Cap \in Nat /\ Cap >= 2
         /\ \A i, j \in Nat : Same(i, j) /\ i - j < Cap /\ j - i < Cap => i = j
         /\ \A i, j \in Nat : j = i + Cap => Same(i, j) /\ Same(j, i)
<1>1. Cap \in Nat \ {0} /\ Cap >= 2
  BY DEF Sizes
<1>2. ASSUME NEW i \in Nat, NEW j \in Nat, Same(i, j), i - j < Cap, j - i < Cap
      PROVE  i = j
  <2>1. CASE i <= j
    BY <1>1, <1>2, <2>1, SlotsApart DEF Same
  <2>2. CASE j <= i
    BY <1>1, <1>2, <2>2, SlotsApart DEF Same
  <2> QED
    BY <2>1, <2>2
<1>3. ASSUME NEW i \in Nat, NEW j \in Nat, j = i + Cap
      PROVE  Same(i, j) /\ Same(j, i)
  BY <1>1, <1>3, LapLater DEF Same
<1> QED
  BY <1>1, <1>2, <1>3

\* Storing a tag changes the tag of the position and of those laps away from it.
Retagged(tg, u, j, v) ==
  /\ u \in [Cells -> Nat]
  /\ \A i \in Nat : Same(i, j) => TagIn(u, i) = v
  /\ \A i \in Nat : ~Same(i, j) => TagIn(u, i) = TagIn(tg, i)

\* What storing one tag does to the tags, position by position.
LEMMA TagStored ==
  ASSUME Sizes, NEW tg \in [Cells -> Nat], NEW j \in Nat, NEW v \in Nat, NEW u,
         u = [tg EXCEPT ![j % Cap] = v]
  PROVE  Retagged(tg, u, j, v)
<1>1. \A i \in Nat : i % Cap \in Cells
  BY DEF Sizes, Cells
<1> QED
  BY <1>1 DEF Same, TagIn, Retagged

\* Positions that share a cell share its tag.
LEMMA TagShared ==
  ASSUME NEW tg, NEW i, NEW j, Same(i, j)
  PROVE  TagIn(tg, i) = TagIn(tg, j)
BY DEF Same, TagIn

\* A tag is a number.
LEMMA TagTyped ==
  ASSUME Sizes, NEW tg \in [Cells -> Nat], NEW i \in Nat
  PROVE  TagIn(tg, i) \in Nat
<1>1. i % Cap \in Cells
  BY DEF Sizes, Cells
<1> QED
  BY <1>1 DEF TagIn

--------------------------------------------------------------------------------
\* The types, apart from what only one action changes.
Plain ==
  /\ tail \in Nat /\ head \in Nat /\ tag \in [Cells -> Nat]
  /\ pc \in [Threads -> PCs] /\ pos \in [Threads -> Nat]
  /\ pushes \in [Producers -> 0 .. MaxPushes]
  /\ \A p \in Producers : pc[p] \in PushPlaces /\ (pc[p] # "idle" => pushes[p] > 0)
  /\ \A c \in Consumers : pc[c] \in IF ~single THEN PopPlaces
                                    ELSE IF c = Drainer THEN DrainPlaces ELSE {"idle"}
  /\ single /\ pc[Drainer] # "idle" => pos[Drainer] = head

\* The types, split.
LEMMA ShapesParts ==
  Shapes <=> single \in BOOLEAN /\ Plain /\ CellsTyped
BY DEF Shapes, Plain, CellsTyped, TypeOK

\* One step of a producer.
LEMMA PlainPush ==
  ASSUME Sizes, Shapes, NEW p \in Producers, PushCall(p) \/ Pushing(p) \/ ClaimFails(p)
  PROVE  Plain'
<1>1. Plain
  BY ShapesParts
<1>2. p \in Threads /\ \A c \in Consumers : c # p /\ c \in Threads
  BY DEF Sizes, Threads
<1>3. Drainer \in Consumers /\ MaxPushes \in Nat /\ Producers \subseteq Threads
  BY DEF Sizes, Threads
<1> USE DEF Plain, PushPlaces, PCs, Goto, Return
<1>4. CASE PushCall(p)
  BY <1>1, <1>2, <1>3, <1>4 DEF PushCall
<1>5. CASE PushLoad(p)
  BY <1>1, <1>2, <1>3, <1>5 DEF PushLoad
<1>6. CASE PushTag(p)
  BY <1>1, <1>2, <1>3, <1>6 DEF PushTag
<1>7. CASE PushClaim(p)
  BY <1>1, <1>2, <1>3, <1>7 DEF PushClaim
<1>8. CASE PushFill(p)
  BY <1>1, <1>2, <1>3, <1>8 DEF PushFill
<1>9. CASE PushPublish(p)
  <2>1. tag' \in [Cells -> Nat]
    <3>1. PICK j \in Nat, v \in Nat : j = pos[p] /\ v = pos[p] + 1
      BY <1>1, <1>2
    <3> QED
      BY <1>1, <1>9, <3>1, TagStored DEF PushPublish, Retagged
  <2> QED
    BY <1>1, <1>2, <1>3, <1>9, <2>1 DEF PushPublish
<1>10. CASE ClaimFails(p)
  BY <1>1, <1>2, <1>3, <1>10 DEF ClaimFails
<1> QED
  BY <1>4, <1>5, <1>6, <1>7, <1>8, <1>9, <1>10 DEF Pushing

\* One step of a consumer.
LEMMA PlainPop ==
  ASSUME Sizes, Shapes, NEW c \in Consumers,
         Popping(c) \/ ClaimFails(c) \/ (c = Drainer /\ Draining(c))
  PROVE  Plain'
<1>1. Plain
  BY ShapesParts
<1>2. c \in Threads /\ \A p \in Producers : c # p /\ p \in Threads
  BY DEF Sizes, Threads
<1>3. Drainer \in Consumers /\ Cap \in Nat /\ Consumers \subseteq Threads
  BY DEF Sizes, Threads
<1> USE DEF Plain, PopPlaces, DrainPlaces, PCs, Goto, Return
<1>4. CASE PopCall(c)
  BY <1>1, <1>2, <1>3, <1>4 DEF PopCall
<1>5. CASE PopTag(c)
  BY <1>1, <1>2, <1>3, <1>5 DEF PopTag
<1>6. CASE PopClaim(c)
  BY <1>1, <1>2, <1>3, <1>6 DEF PopClaim
<1>7. CASE PopCopy(c)
  BY <1>1, <1>2, <1>3, <1>7 DEF PopCopy
<1>8. CASE PopReopen(c)
  <2>1. tag' \in [Cells -> Nat]
    <3>1. PICK j \in Nat, v \in Nat : j = pos[c] /\ v = pos[c] + Cap
      BY <1>1, <1>2, <1>3
    <3> QED
      BY <1>1, <1>8, <3>1, TagStored DEF PopReopen, Retagged
  <2> QED
    BY <1>1, <1>2, <1>3, <1>8, <2>1 DEF PopReopen
<1>9. CASE ClaimFails(c)
  BY <1>1, <1>2, <1>3, <1>9 DEF ClaimFails
<1>10. CASE c = Drainer /\ DrainTag(c)
  BY <1>1, <1>2, <1>3, <1>10 DEF DrainTag
<1>11. CASE c = Drainer /\ DrainEmpty(c)
  BY <1>1, <1>11 DEF DrainEmpty, vars
<1>12. CASE c = Drainer /\ DrainAdvance(c)
  BY <1>1, <1>2, <1>3, <1>12 DEF DrainAdvance
<1> QED
  BY <1>4, <1>5, <1>6, <1>7, <1>8, <1>9, <1>10, <1>11, <1>12 DEF Popping, Draining

\* Every step of the tagged ring keeps the types.
LEMMA ShapesStep ==
  ASSUME Sizes, Shapes, Next \/ UNCHANGED vars
  PROVE  Shapes' /\ single' = single
<1>1. Plain'
  <2>1. Plain
    BY ShapesParts
  <2>2. CASE UNCHANGED vars
    BY <2>1, <2>2 DEF Plain, vars
  <2> QED
    BY <2>2, PlainPush, PlainPop DEF Sizes, Next
<1>2. single' = single
  BY DEF Next, Pushing, Popping, Draining, vars, PushCall, PushLoad, PushTag,
         PushClaim, PushFill, PushPublish, ClaimFails, PopCall, PopTag, PopClaim,
         PopCopy, PopReopen, DrainTag, DrainEmpty, DrainAdvance
<1>3. CASE \E p \in Producers : PushFill(p)
  <2>1. PICK p \in Producers : PushFill(p)
    BY <1>3
  <2>2. pushes[p] \in 1 .. MaxPushes
    BY <2>1 DEF Sizes, Shapes, TypeOK, PushFill
  <2>3. Item(p) \in Producers \X (1 .. MaxPushes)
    BY <2>2 DEF Item
  <2>4. cell' = [cell EXCEPT ![pos[p] % Cap] = Item(p)]
    BY <2>1 DEF PushFill
  <2>5. CellsTyped
    BY ShapesParts
  <2>6. cell' \in [Cells -> {Nothing} \cup (Producers \X (1 .. MaxPushes))]
    BY <2>3, <2>4, <2>5 DEF CellsTyped
  <2>7. CellsTyped' /\ (single \in BOOLEAN)'
    <3>1. single \in BOOLEAN
      BY ShapesParts
    <3> QED
      BY <1>2, <2>6, <3>1 DEF CellsTyped, Cells
  <2>8. Shapes'
    BY <1>1, <2>7, ShapesParts, PTL
  <2> QED
    BY <1>2, <2>8
<1>4. CASE ~\E p \in Producers : PushFill(p)
  <2>1. cell' = cell
    BY <1>4 DEF Next, Pushing, Popping, Draining, vars, PushCall, PushLoad, PushTag,
         PushClaim, PushPublish, ClaimFails, PopCall, PopTag, PopClaim,
         PopCopy, PopReopen, DrainTag, DrainEmpty, DrainAdvance
  <2>2. single \in BOOLEAN /\ CellsTyped
    BY ShapesParts
  <2>3. CellsTyped' /\ (single \in BOOLEAN)'
    BY <1>2, <2>1, <2>2 DEF CellsTyped
  <2>4. Shapes'
    BY <1>1, <2>3, ShapesParts, PTL
  <2> QED
    BY <1>2, <2>4
<1> QED
  BY <1>3, <1>4

--------------------------------------------------------------------------------
\* Where a push, and a pop, has a position to itself.
ClaimedPlaces == {"fill", "publish"}
TakenPlaces == {"copy", "reopen"}

\* A step that moves no position over the window and stores no tag.
Quiet ==
  /\ UNCHANGED <<tail, tag>> /\ Front' = Front
  /\ \A p \in Producers :
       /\ pc'[p] \in ClaimedPlaces <=> pc[p] \in ClaimedPlaces
       /\ pc[p] \in ClaimedPlaces => pos'[p] = pos[p]
       /\ pc'[p] \in {"tag", "claim"} => pos'[p] <= tail
       /\ pc'[p] = "claim" /\ pos'[p] = tail => TagIn(tag, tail) = tail
  /\ \A c \in Consumers :
       /\ pc'[c] \in TakenPlaces <=> pc[c] \in TakenPlaces
       /\ pc[c] \in TakenPlaces => pos'[c] = pos[c]
       /\ pc'[c] \in {"tag", "claim"} => pos'[c] <= head'
       /\ pc'[c] = "claim" /\ pos'[c] = head' => TagIn(tag, head') = head' + 1

\* Such a step keeps the invariant.
LEMMA QuietStep ==
  ASSUME Sizes, IInv, Shapes', Quiet
  PROVE  IInv'
<1> USE DEF Quiet, ClaimedPlaces, TakenPlaces
<1>1. \A p \in Producers, i \in Int : Filling(p, i)' <=> Filling(p, i)
  BY DEF Filling
<1>2. \A c \in Consumers, i \in Int : Emptying(c, i)' <=> Emptying(c, i)
  BY DEF Emptying
<1>3. tail \in Nat /\ Front \in Nat /\ Cap \in Nat
  BY DEF Sizes, IInv, Shapes, TypeOK, Front
<1>4. Window'
  <2>1. /\ \A i \in Front .. tail - 1 : i \in Int
        /\ \A i \in tail .. Front + Cap - 1 : i - Cap \in Int
    BY <1>3
  <2> QED
    BY <1>1, <1>2, <2>1 DEF IInv, Window
<1>5. ClaimsToPush'
  BY DEF IInv, ClaimsToPush
<1>6. ClaimsToPop'
  BY DEF IInv, ClaimsToPop
<1> QED
  BY <1>4, <1>5, <1>6 DEF IInv

\* The steps of a push before the claim and up to the publication.
LEMMA QuietPush ==
  ASSUME Sizes, IInv, NEW p \in Producers,
         \/ PushCall(p) \/ PushLoad(p) \/ PushTag(p) \/ ClaimFails(p) \/ PushFill(p)
         \/ PushClaim(p) /\ tail # pos[p]
  PROVE  Quiet
<1>1. /\ tail \in Nat /\ head \in Nat /\ pc \in [Threads -> PCs] /\ pos \in [Threads -> Nat]
  BY DEF IInv, Shapes, TypeOK
<1>2. p \in Threads /\ Producers \subseteq Threads /\ \A c \in Consumers : c # p /\ c \in Threads
  BY DEF Sizes, Threads
<1>3. Drainer \in Consumers /\ Drainer # p
  BY DEF Sizes
<1> DEFINE Old ==
  /\ \A q \in Producers : /\ pc[q] \in {"tag", "claim"} => pos[q] <= tail
                          /\ pc[q] = "claim" /\ pos[q] = tail => TagIn(tag, tail) = tail
  /\ \A c \in Consumers : /\ pc[c] \in {"tag", "claim"} => pos[c] <= head
                          /\ pc[c] = "claim" /\ pos[c] = head => TagIn(tag, head) = head + 1
<1>4. Old
  BY DEF IInv, ClaimsToPush, ClaimsToPop
<1> USE DEF Quiet, ClaimedPlaces, TakenPlaces, Goto, Return
<1>5. UNCHANGED <<tail, head, tag>>
  BY DEF PushCall, PushLoad, PushTag, ClaimFails, PushFill, PushClaim
<1>6. Front' = Front
  <2>1. pc'[Drainer] = pc[Drainer] /\ single' = single
    BY <1>1, <1>2, <1>3 DEF PushCall, PushLoad, PushTag, ClaimFails, PushFill, PushClaim
  <2> QED
    BY <1>5, <2>1 DEF Front
<1>7. CASE PushCall(p) \/ PushLoad(p)
  BY <1>1, <1>2, <1>4, <1>5, <1>6, <1>7 DEF PushCall, PushLoad
<1>8. CASE PushTag(p)
  <2>1. \/ TagIn(tag, pos[p]) = pos[p] /\ pc' = [pc EXCEPT ![p] = "claim"] /\ UNCHANGED pos
        \/ pc' = [pc EXCEPT ![p] = "idle"] /\ pos' = [pos EXCEPT ![p] = 0]
        \/ pc' = [pc EXCEPT ![p] = "load"] /\ UNCHANGED pos
    BY <1>8 DEF PushTag, TagAt, TagIn
  <2>2. pc[p] = "tag"
    BY <1>8 DEF PushTag
  <2> QED
    BY <1>1, <1>2, <1>4, <1>5, <1>6, <2>1, <2>2
<1>9. CASE ClaimFails(p) \/ (PushClaim(p) /\ tail # pos[p])
  BY <1>1, <1>2, <1>4, <1>5, <1>6, <1>9 DEF ClaimFails, PushClaim
<1>10. CASE PushFill(p)
  BY <1>1, <1>2, <1>4, <1>5, <1>6, <1>10 DEF PushFill
<1> QED
  BY <1>7, <1>8, <1>9, <1>10

\* The steps of a pop before the claim and up to the return of the cell.
LEMMA QuietPop ==
  ASSUME Sizes, IInv, NEW c \in Consumers,
         \/ PopCall(c) \/ PopTag(c) \/ ClaimFails(c) \/ PopCopy(c)
         \/ PopClaim(c) /\ head # pos[c]
         \/ c = Drainer /\ (DrainEmpty(c) \/ DrainAdvance(c))
  PROVE  Quiet
<1>1. /\ tail \in Nat /\ head \in Nat /\ pc \in [Threads -> PCs] /\ pos \in [Threads -> Nat]
  BY DEF IInv, Shapes, TypeOK
<1>2. c \in Threads /\ Consumers \subseteq Threads /\ \A p \in Producers : c # p /\ p \in Threads
  BY DEF Sizes, Threads
<1>3. Drainer \in Consumers
  BY DEF Sizes
<1> DEFINE Old ==
  /\ \A q \in Producers : /\ pc[q] \in {"tag", "claim"} => pos[q] <= tail
                          /\ pc[q] = "claim" /\ pos[q] = tail => TagIn(tag, tail) = tail
  /\ \A d \in Consumers : /\ pc[d] \in {"tag", "claim"} => pos[d] <= head
                          /\ pc[d] = "claim" /\ pos[d] = head => TagIn(tag, head) = head + 1
<1>4. Old
  BY DEF IInv, ClaimsToPush, ClaimsToPop
<1>5. /\ pc[c] \in IF ~single THEN PopPlaces ELSE IF c = Drainer THEN DrainPlaces ELSE {"idle"}
      /\ single /\ pc[Drainer] # "idle" => pos[Drainer] = head
  BY DEF IInv, Shapes
<1> USE DEF Quiet, ClaimedPlaces, TakenPlaces, Goto, Return
<1>6. CASE PopCall(c)
  BY <1>1, <1>2, <1>3, <1>4, <1>6 DEF PopCall, Front
<1>7. CASE PopTag(c)
  <2>1. \/ TagIn(tag, pos[c]) = pos[c] + 1 /\ pc' = [pc EXCEPT ![c] = "claim"] /\ UNCHANGED pos
        \/ pc' = [pc EXCEPT ![c] = "idle"] /\ pos' = [pos EXCEPT ![c] = 0]
        \/ pc' = [pc EXCEPT ![c] = "load"] /\ UNCHANGED pos
    BY <1>7 DEF PopTag, TagAt, TagIn
  <2>2. pc[c] = "tag" /\ UNCHANGED <<single, tail, head, tag>>
    BY <1>7 DEF PopTag
  <2>3. Front' = Front
    BY <1>1, <1>2, <1>3, <2>1, <2>2 DEF Front
  <2> QED
    BY <1>1, <1>2, <1>4, <2>1, <2>2, <2>3
<1>8. CASE ClaimFails(c) \/ (PopClaim(c) /\ head # pos[c])
  <2>1. /\ pc[c] = "claim" /\ UNCHANGED <<single, tail, head, tag, pos>> /\ pc' = [pc EXCEPT ![c] = "load"]
    BY <1>8 DEF ClaimFails, PopClaim
  <2>2. Front' = Front
    BY <1>1, <1>2, <1>3, <2>1 DEF Front
  <2> QED
    BY <1>1, <1>2, <1>4, <2>1, <2>2
<1>9. CASE PopCopy(c)
  <2>1. /\ pc[c] = "copy" /\ UNCHANGED <<single, tail, head, tag, pos>> /\ pc' = [pc EXCEPT ![c] = "reopen"]
    BY <1>9 DEF PopCopy
  <2>2. Front' = Front
    BY <1>1, <1>2, <1>3, <2>1 DEF Front
  <2> QED
    BY <1>1, <1>2, <1>4, <2>1, <2>2
<1>10. CASE c = Drainer /\ DrainEmpty(c)
  BY <1>4, <1>10 DEF DrainEmpty, vars, Front
<1>11. CASE c = Drainer /\ DrainAdvance(c)
  <2>1. /\ pc[c] = "advance" /\ UNCHANGED <<single, tail, tag>> /\ pc' = [pc EXCEPT ![c] = "idle"]
        /\ pos' = [pos EXCEPT ![c] = 0] /\ head' = pos[c] + 1 /\ c = Drainer
    BY <1>11 DEF DrainAdvance
  <2>2. single
    BY <1>5, <2>1 DEF PopPlaces
  <2>3. Front' = Front
    BY <1>1, <1>2, <1>5, <2>1, <2>2 DEF Front
  <2>4. \A d \in Consumers : pc'[d] \notin {"tag", "claim"}
    BY <1>1, <1>2, <2>1, <2>2 DEF IInv, Shapes, DrainPlaces
  <2> QED
    BY <1>1, <1>2, <1>4, <2>1, <2>3, <2>4
<1> QED
  BY <1>6, <1>7, <1>8, <1>9, <1>10, <1>11

--------------------------------------------------------------------------------
\* What the four steps that matter start from.
LEMMA Basics ==
  ASSUME Sizes, IInv
  PROVE  /\ tail \in Nat /\ head \in Nat /\ Front \in {head, head + 1} /\ tag \in [Cells -> Nat]
         /\ pc \in [Threads -> PCs] /\ pos \in [Threads -> Nat]
         /\ Front <= tail /\ tail <= Front + Cap
         /\ Producers \subseteq Threads /\ Consumers \subseteq Threads /\ Drainer \in Consumers
         /\ \A p \in Producers, c \in Consumers : p # c
         /\ ~single => Front = head
BY DEF Sizes, IInv, Shapes, TypeOK, Window, Front, Threads

\* push() claims a position: the window takes one more in.
LEMMA ClaimStep ==
  ASSUME Sizes, IInv, Shapes', NEW p \in Producers, PushClaim(p), tail = pos[p]
  PROVE  IInv'
<1> /\ Cap \in Nat /\ Cap >= 2
    /\ \A i, j \in Nat : Same(i, j) /\ i - j < Cap /\ j - i < Cap => i = j
    /\ \A i, j \in Nat : j = i + Cap => Same(i, j) /\ Same(j, i)
  BY Laps
<1> DEFINE F == Front
<1>1. /\ tail \in Nat /\ F \in Nat /\ F <= tail /\ tail <= F + Cap /\ tag \in [Cells -> Nat]
      /\ pc \in [Threads -> PCs] /\ pos \in [Threads -> Nat] /\ head \in Nat
      /\ Producers \subseteq Threads /\ Consumers \subseteq Threads /\ Drainer \in Consumers
      /\ \A q \in Producers, c \in Consumers : q # c
  BY Basics
<1>2. /\ pc[p] = "claim" /\ tail' = tail + 1 /\ pc' = [pc EXCEPT ![p] = "fill"]
      /\ UNCHANGED <<single, head, tag, pos>>
  BY DEF PushClaim, Goto
<1>3. F' = F
  BY <1>1, <1>2 DEF Front
<1>4. TagIn(tag, tail) = tail
  BY <1>2 DEF IInv, ClaimsToPush
<1> HIDE DEF F
<1>5. tail < F + Cap
  <2> SUFFICES ASSUME tail = F + Cap PROVE FALSE
    BY <1>1
  <2>1. TagIn(tag, F) = tail
    BY <1>1, <1>4, TagShared
  <2>2. F \in F .. tail - 1
    BY <1>1
  <2>3. TagIn(tag, F) = F + 1 \/ TagIn(tag, F) = F
    BY <2>2 DEF IInv, Window, F
  <2> QED
    BY <1>1, <2>1, <2>3
<1>6. /\ \A q \in Producers, i \in Int : Filling(q, i) => Filling(q, i)'
      /\ \A c \in Consumers, i \in Int : Emptying(c, i) => Emptying(c, i)'
      /\ \A i \in Int : i = tail => Filling(p, i)'
  BY <1>1, <1>2 DEF Filling, Emptying
<1>7. Window'
  <2>1. \A i \in 0 .. F - 1 : TagIn(tag, i) > i
    BY DEF IInv, Window, F
  <2>2. \A i \in F .. tail' - 1 :
          TagIn(tag, i) = i + 1 \/ (TagIn(tag, i) = i /\ \E q \in Producers : Filling(q, i)')
    <3>1. \A i \in F .. tail' - 1 : i \in F .. tail - 1 \/ i = tail
      BY <1>1, <1>2
    <3>2. \A i \in F .. tail - 1 : i \in Int /\
            (TagIn(tag, i) = i + 1 \/ (TagIn(tag, i) = i /\ \E q \in Producers : Filling(q, i)))
      BY <1>1 DEF IInv, Window, F
    <3> QED
      BY <1>1, <1>4, <1>6, <3>1, <3>2
  <2>3. \A i \in tail' .. F + Cap - 1 :
          TagIn(tag, i) = i \/ (TagIn(tag, i) = i - Cap + 1 /\ \E c \in Consumers : Emptying(c, i - Cap)')
    <3>1. \A i \in tail' .. F + Cap - 1 : i \in tail .. F + Cap - 1 /\ i - Cap \in Int
      BY <1>1, <1>2
    <3>2. \A i \in tail .. F + Cap - 1 :
            TagIn(tag, i) = i \/ (TagIn(tag, i) = i - Cap + 1 /\ \E c \in Consumers : Emptying(c, i - Cap))
      BY DEF IInv, Window, F
    <3> QED
      BY <1>6, <3>1, <3>2
  <2>4. F' <= tail' /\ tail' <= F' + Cap
    BY <1>1, <1>2, <1>3, <1>5
  <2> QED
    BY <1>2, <1>3, <2>1, <2>2, <2>3, <2>4 DEF Window, F, TagIn
<1>8. ClaimsToPush'
  <2>1. /\ \A q \in Producers :
             /\ pc[q] \in {"tag", "claim"} => pos[q] <= tail
             /\ pc[q] \in {"fill", "publish"} => pos[q] \in F .. tail - 1 /\ TagIn(tag, pos[q]) = pos[q]
        /\ \A q, r \in Producers :
             pc[q] \in {"fill", "publish"} /\ pc[r] \in {"fill", "publish"} /\ pos[q] = pos[r] => q = r
    BY DEF IInv, ClaimsToPush, F
  <2>2. ASSUME NEW q \in Producers
        PROVE  /\ pc'[q] \in {"tag", "claim"} => pos[q] <= tail' /\ pos[q] # tail'
               /\ pc'[q] \in {"fill", "publish"} => pos[q] \in F .. tail' - 1 /\ TagIn(tag, pos[q]) = pos[q]
    BY <1>1, <1>2, <1>4, <2>1
  <2>3. ASSUME NEW q \in Producers, NEW r \in Producers,
               pc'[q] \in {"fill", "publish"}, pc'[r] \in {"fill", "publish"}, pos[q] = pos[r]
        PROVE  q = r
    BY <1>1, <1>2, <2>1, <2>3
  <2> QED
    BY <1>2, <1>3, <2>2, <2>3 DEF ClaimsToPush, F
<1>9. ClaimsToPop'
  <2>1. ASSUME NEW c \in Consumers, pc[c] \in {"copy", "reopen"}
        PROVE  pos[c] \in tail' - Cap .. F - 1 /\ TagIn(tag, pos[c]) = pos[c] + 1
    <3>1. pos[c] \in tail - Cap .. F - 1 /\ TagIn(tag, pos[c]) = pos[c] + 1 /\ pos[c] \in Nat
      BY <1>1, <2>1 DEF IInv, ClaimsToPop, F
    <3>2. pos[c] # tail - Cap
      <4> SUFFICES ASSUME tail = pos[c] + Cap PROVE FALSE
        BY <1>1, <3>1
      <4>1. TagIn(tag, pos[c]) = tail
        BY <1>1, <1>4, <3>1, TagShared
      <4> QED
        BY <3>1, <4>1
    <3>3. PICK b \in Nat : b = tail' /\ b = tail + 1
      BY <1>1, <1>2
    <3>4. pos[c] \in b - Cap .. F - 1
      BY <1>1, <3>1, <3>2, <3>3
    <3> QED
      BY <3>1, <3>3, <3>4
  <2>2. \A c \in Consumers : pc'[c] = pc[c]
    BY <1>1, <1>2
  <2> QED
    BY <1>2, <1>3, <2>1, <2>2 DEF ClaimsToPop, IInv, F
<1> QED
  BY <1>7, <1>8, <1>9 DEF IInv

\* push() publishes: the tag of its cell says that the item is there.
LEMMA PublishStep ==
  ASSUME Sizes, IInv, Shapes', NEW p \in Producers, PushPublish(p)
  PROVE  IInv'
<1> /\ Cap \in Nat /\ Cap >= 2
    /\ \A i, j \in Nat : Same(i, j) /\ i - j < Cap /\ j - i < Cap => i = j
    /\ \A i, j \in Nat : j = i + Cap => Same(i, j) /\ Same(j, i)
  BY Laps
<1> DEFINE F == Front
<1>1. /\ tail \in Nat /\ F \in Nat /\ F <= tail /\ tail <= F + Cap /\ tag \in [Cells -> Nat]
      /\ pc \in [Threads -> PCs] /\ pos \in [Threads -> Nat] /\ head \in Nat
      /\ Producers \subseteq Threads /\ Consumers \subseteq Threads /\ Drainer \in Consumers
      /\ \A q \in Producers, c \in Consumers : q # c
  BY Basics
<1>2. PICK j \in Nat : j = pos[p]
  BY <1>1
<1>3. /\ pc[p] = "publish" /\ tag' = [tag EXCEPT ![j % Cap] = j + 1]
      /\ pc' = [pc EXCEPT ![p] = "idle"] /\ pos' = [pos EXCEPT ![p] = 0]
      /\ UNCHANGED <<single, tail, head>>
  BY <1>2 DEF PushPublish, Goto, Return
<1>4. F' = F
  BY <1>1, <1>3 DEF Front
<1>5. j \in F .. tail - 1 /\ TagIn(tag, j) = j
  BY <1>2, <1>3 DEF IInv, ClaimsToPush
<1> HIDE DEF F
<1>6. /\ \A i \in Nat : Same(i, j) => TagIn(tag', i) = j + 1 /\ TagIn(tag, i) = j
      /\ \A i \in Nat : ~Same(i, j) => TagIn(tag', i) = TagIn(tag, i)
      /\ Same(j, j)
  <2>1. /\ \A i \in Nat : Same(i, j) => TagIn(tag', i) = j + 1
        /\ \A i \in Nat : ~Same(i, j) => TagIn(tag', i) = TagIn(tag, i)
    <3>1. PICK v \in Nat : v = j + 1
      OBVIOUS
    <3>2. Retagged(tag, tag', j, v)
      BY <1>1, <1>3, <3>1, TagStored
    <3> QED
      BY <3>1, <3>2 DEF Retagged
  <2> QED
    BY <1>5, <2>1, TagShared DEF Same
<1>7. /\ \A q \in Producers, i \in Int : Filling(q, i) /\ q # p => Filling(q, i)'
      /\ \A c \in Consumers, i \in Int : Emptying(c, i) => Emptying(c, i)'
  BY <1>1, <1>3 DEF Filling, Emptying
<1>8. Window'
  <2>1. ASSUME NEW i \in 0 .. F - 1 PROVE TagIn(tag', i) > i
    <3>1. TagIn(tag, i) > i
      BY DEF IInv, Window, F
    <3> QED
      BY <1>1, <1>5, <1>6, <3>1
  <2>2. ASSUME NEW i \in F .. tail - 1
        PROVE  TagIn(tag', i) = i + 1 \/ (TagIn(tag', i) = i /\ \E q \in Producers : Filling(q, i)')
    <3>1. TagIn(tag, i) = i + 1 \/ (TagIn(tag, i) = i /\ \E q \in Producers : Filling(q, i))
      BY DEF IInv, Window, F
    <3>2. CASE Same(i, j)
      <4>1. i = j
        BY <1>1, <1>5, <3>2
      <4> QED
        BY <1>6, <4>1
    <3>3. CASE ~Same(i, j)
      <4>1. i # j /\ i \in Int /\ TagIn(tag', i) = TagIn(tag, i)
        BY <1>1, <1>6, <3>3
      <4>2. \A q \in Producers : Filling(q, i) => q # p
        BY <1>2, <4>1 DEF Filling
      <4> QED
        BY <1>7, <3>1, <4>1, <4>2
    <3> QED
      BY <3>2, <3>3
  <2>3. ASSUME NEW i \in tail .. F + Cap - 1
        PROVE  \/ TagIn(tag', i) = i
               \/ TagIn(tag', i) = i - Cap + 1 /\ \E c \in Consumers : Emptying(c, i - Cap)'
    <3>1. \/ TagIn(tag, i) = i
          \/ TagIn(tag, i) = i - Cap + 1 /\ \E c \in Consumers : Emptying(c, i - Cap)
      BY DEF IInv, Window, F
    <3>2. ~Same(i, j) /\ i \in Nat /\ i - Cap \in Int
      BY <1>1, <1>5
    <3> QED
      BY <1>6, <1>7, <3>1, <3>2
  <2> QED
    BY <1>1, <1>3, <1>4, <2>1, <2>2, <2>3 DEF Window, F, TagIn
<1>9. ClaimsToPush'
  <2>1. ASSUME NEW q \in Producers, q # p
        PROVE  /\ pc'[q] = pc[q] /\ pos'[q] = pos[q]
               /\ pc[q] \in {"tag", "claim"} => pos[q] <= tail
               /\ pc[q] = "claim" /\ pos[q] = tail => TagIn(tag', tail) = tail
               /\ pc[q] \in {"fill", "publish"} => pos[q] \in F .. tail - 1 /\ TagIn(tag', pos[q]) = pos[q]
    <3>1. pc'[q] = pc[q] /\ pos'[q] = pos[q] /\ pos[q] \in Nat
      BY <1>1, <1>3, <2>1
    <3>2. pc[q] \in {"tag", "claim"} => pos[q] <= tail
      BY DEF IInv, ClaimsToPush
    <3>3. ASSUME pc[q] = "claim", pos[q] = tail PROVE TagIn(tag', tail) = tail
      <4>1. TagIn(tag, tail) = tail
        BY <3>3 DEF IInv, ClaimsToPush
      <4> QED
        BY <1>1, <1>5, <1>6, <4>1
    <3>4. ASSUME pc[q] \in {"fill", "publish"}
          PROVE  pos[q] \in F .. tail - 1 /\ TagIn(tag', pos[q]) = pos[q]
      <4>1. pos[q] \in F .. tail - 1 /\ TagIn(tag, pos[q]) = pos[q] /\ pos[q] # j
        BY <1>2, <1>3, <2>1, <3>4 DEF IInv, ClaimsToPush, F
      <4>2. PICK k \in Nat : k = pos[q]
        BY <3>1
      <4>3. ~Same(k, j)
        BY <1>1, <1>5, <4>1, <4>2
      <4> QED
        BY <1>6, <4>1, <4>2, <4>3
    <3> QED
      BY <3>1, <3>2, <3>3, <3>4
  <2>2. pc'[p] = "idle"
    BY <1>1, <1>3
  <2>3. \A q, r \in Producers :
          pc'[q] \in {"fill", "publish"} /\ pc'[r] \in {"fill", "publish"} /\ pos'[q] = pos'[r] => q = r
    <3>1. \A q, r \in Producers :
            pc[q] \in {"fill", "publish"} /\ pc[r] \in {"fill", "publish"} /\ pos[q] = pos[r] => q = r
      BY DEF IInv, ClaimsToPush
    <3> QED
      BY <2>1, <2>2, <3>1
  <2>4. ASSUME NEW q \in Producers
        PROVE  /\ pc'[q] \in {"tag", "claim"} => pos'[q] <= tail
               /\ pc'[q] = "claim" /\ pos'[q] = tail => TagIn(tag', tail) = tail
               /\ pc'[q] \in {"fill", "publish"} => pos'[q] \in F .. tail - 1 /\ TagIn(tag', pos'[q]) = pos'[q]
    BY <2>1, <2>2
  <2>5. tail' = tail /\ F' = F
    BY <1>3, <1>4
  <2> QED
    BY <2>3, <2>4, <2>5 DEF ClaimsToPush, F, TagIn
<1>10. ClaimsToPop'
  <2>1. ASSUME NEW c \in Consumers
        PROVE  /\ pc'[c] = pc[c] /\ pos'[c] = pos[c]
               /\ pc[c] = "claim" /\ pos[c] = head => TagIn(tag', head) = head + 1
               /\ pc[c] \in {"copy", "reopen"} => TagIn(tag', pos[c]) = pos[c] + 1
    <3>1. pc'[c] = pc[c] /\ pos'[c] = pos[c] /\ pos[c] \in Nat
      BY <1>1, <1>3
    <3>2. ASSUME pc[c] = "claim", pos[c] = head PROVE TagIn(tag', head) = head + 1
      <4>1. TagIn(tag, head) = head + 1
        BY <3>2 DEF IInv, ClaimsToPop
      <4>2. ~Same(head, j)
        BY <1>1, <1>6, <4>1
      <4> QED
        BY <1>1, <1>6, <4>1, <4>2
    <3>3. ASSUME pc[c] \in {"copy", "reopen"} PROVE TagIn(tag', pos[c]) = pos[c] + 1
      <4>1. pos[c] \in tail - Cap .. F - 1 /\ TagIn(tag, pos[c]) = pos[c] + 1
        BY <3>3 DEF IInv, ClaimsToPop, F
      <4>2. ~Same(pos[c], j)
        BY <1>1, <1>5, <3>1, <4>1
      <4> QED
        BY <1>6, <3>1, <4>1, <4>2
    <3> QED
      BY <3>1, <3>2, <3>3
  <2>2. UNCHANGED <<tail, head>> /\ F' = F
    BY <1>3, <1>4
  <2> QED
    BY <2>1, <2>2 DEF ClaimsToPop, IInv, F, TagIn
<1> QED
  BY <1>8, <1>9, <1>10 DEF IInv

\* A pop() takes the position at the front.
Taking(c) ==
  /\ UNCHANGED <<tail, tag, single>> /\ Front' = Front + 1 /\ head' \in {head, head + 1}
  /\ single => head' = head
  /\ ~single => head' = head + 1
  /\ pc[c] \notin TakenPlaces /\ TagIn(tag, Front) = Front + 1
  /\ pc' = [pc EXCEPT ![c] = "copy"] /\ pos' = [pos EXCEPT ![c] = Front]

\* A pop claims by exchanging head, the drain by reading the tag of its head.
LEMMA Takes ==
  ASSUME Sizes, IInv, NEW c \in Consumers,
         (PopClaim(c) /\ head = pos[c]) \/ (c = Drainer /\ DrainTag(c))
  PROVE  Taking(c)
<1>1. /\ head \in Nat /\ pc \in [Threads -> PCs] /\ pos \in [Threads -> Nat]
      /\ Consumers \subseteq Threads /\ Drainer \in Consumers
  BY Basics
<1>2. CASE PopClaim(c) /\ head = pos[c]
  <2>1. /\ UNCHANGED <<single, tail, tag, pos>> /\ pc' = [pc EXCEPT ![c] = "copy"] /\ pc[c] = "claim"
        /\ head' = head + 1
    BY <1>2 DEF PopClaim, Goto
  <2>2. ~single
    BY <2>1 DEF IInv, Shapes, DrainPlaces
  <2>3. Front = head /\ Front' = head + 1
    BY <2>1, <2>2 DEF Front
  <2>4. TagIn(tag, head) = head + 1
    BY <1>2, <2>1 DEF IInv, ClaimsToPop
  <2>5. pos' = [pos EXCEPT ![c] = head]
    BY <1>1, <1>2, <2>1
  <2> QED
    BY <2>1, <2>2, <2>3, <2>4, <2>5 DEF Taking, TakenPlaces
<1>3. CASE c = Drainer /\ DrainTag(c)
  <2>1. /\ UNCHANGED <<single, tail, tag, head>> /\ pc' = [pc EXCEPT ![c] = "copy"] /\ pc[c] = "idle" /\ single
        /\ pos' = [pos EXCEPT ![c] = head] /\ TagIn(tag, head) = head + 1
    BY <1>3 DEF DrainTag, Goto, TagAt, TagIn
  <2>2. Front = head /\ Front' = head + 1
    BY <1>1, <1>3, <2>1 DEF Front
  <2> QED
    BY <2>1, <2>2 DEF Taking, TakenPlaces
<1> QED
  BY <1>2, <1>3

\* Taking a position keeps the invariant, and there was an item to take.
LEMMA TakeStep ==
  ASSUME Sizes, IInv, Shapes', NEW c \in Consumers, Taking(c)
  PROVE  IInv' /\ Front < tail
<1> /\ Cap \in Nat /\ Cap >= 2
    /\ \A i, j \in Nat : Same(i, j) /\ i - j < Cap /\ j - i < Cap => i = j
    /\ \A i, j \in Nat : j = i + Cap => Same(i, j) /\ Same(j, i)
  BY Laps
<1> DEFINE F == Front
<1>1. /\ tail \in Nat /\ F \in Nat /\ F <= tail /\ tail <= F + Cap /\ tag \in [Cells -> Nat]
      /\ pc \in [Threads -> PCs] /\ pos \in [Threads -> Nat] /\ head \in Nat
      /\ Producers \subseteq Threads /\ Consumers \subseteq Threads /\ Drainer \in Consumers
      /\ \A q \in Producers, d \in Consumers : q # d
  BY Basics
<1>2. /\ UNCHANGED <<tail, tag, single>> /\ F' = F + 1
      /\ single => head' = head
      /\ ~single => head' = head + 1
      /\ pc[c] \notin {"copy", "reopen"} /\ TagIn(tag, F) = F + 1
      /\ pc' = [pc EXCEPT ![c] = "copy"] /\ pos' = [pos EXCEPT ![c] = F]
  BY DEF Taking, TakenPlaces
<1> HIDE DEF F
<1>3. F < tail
  <2> SUFFICES ASSUME F = tail PROVE FALSE
    BY <1>1
  <2>1. F \in tail .. F + Cap - 1
    BY <1>1
  <2>2. TagIn(tag, F) = F \/ TagIn(tag, F) = F - Cap + 1
    BY <2>1 DEF IInv, Window, F
  <2> QED
    BY <1>1, <1>2, <2>2
<1>4. /\ \A q \in Producers, i \in Int : Filling(q, i) => Filling(q, i)'
      /\ \A d \in Consumers, i \in Int : Emptying(d, i) => Emptying(d, i)'
      /\ \A i \in Int : i = F => Emptying(c, i)'
  BY <1>1, <1>2 DEF Filling, Emptying
<1>5. PICK G \in Nat : G = F' /\ G = F + 1
  BY <1>1, <1>2
<1>6. Window'
  <2>1. ASSUME NEW i \in 0 .. G - 1 PROVE TagIn(tag, i) > i
    <3>1. \A k \in 0 .. F - 1 : TagIn(tag, k) > k
      BY DEF IInv, Window, F
    <3>2. i \in 0 .. F - 1 \/ i = F
      BY <1>1, <1>5
    <3> QED
      BY <1>1, <1>2, <3>1, <3>2
  <2>2. ASSUME NEW i \in G .. tail - 1
        PROVE  TagIn(tag, i) = i + 1 \/ (TagIn(tag, i) = i /\ \E q \in Producers : Filling(q, i)')
    <3>1. i \in F .. tail - 1 /\ i \in Int
      BY <1>1, <1>5
    <3>2. TagIn(tag, i) = i + 1 \/ (TagIn(tag, i) = i /\ \E q \in Producers : Filling(q, i))
      BY <3>1 DEF IInv, Window, F
    <3> QED
      BY <1>4, <3>1, <3>2
  <2>3. ASSUME NEW i \in tail .. G + Cap - 1
        PROVE  \/ TagIn(tag, i) = i
               \/ TagIn(tag, i) = i - Cap + 1 /\ \E d \in Consumers : Emptying(d, i - Cap)'
    <3>1. CASE i \in tail .. F + Cap - 1
      <4>1. \/ TagIn(tag, i) = i
            \/ TagIn(tag, i) = i - Cap + 1 /\ \E d \in Consumers : Emptying(d, i - Cap)
        BY <3>1 DEF IInv, Window, F
      <4>2. i - Cap \in Int
        BY <1>1
      <4> QED
        BY <1>4, <4>1, <4>2
    <3>2. CASE i = F + Cap
      <4>1. TagIn(tag, i) = F + 1
        BY <1>1, <1>2, <3>2, TagShared
      <4>2. i - Cap = F /\ i - Cap + 1 = F + 1
        BY <1>1, <3>2
      <4>3. Emptying(c, i - Cap)'
        BY <1>1, <1>4, <4>2
      <4> QED
        BY <4>1, <4>2, <4>3
    <3> QED
      BY <1>1, <1>5, <3>1, <3>2
  <2>4. G <= tail /\ tail <= G + Cap
    BY <1>1, <1>3, <1>5
  <2>5. G = Front' /\ tag' = tag /\ tail' = tail
    BY <1>2, <1>5 DEF F
  <2> QED
    BY <2>1, <2>2, <2>3, <2>4, <2>5 DEF Window, TagIn
<1>7. ClaimsToPush'
  <2>1. ASSUME NEW q \in Producers
        PROVE  /\ pc'[q] = pc[q] /\ pos'[q] = pos[q]
               /\ pc[q] \in {"fill", "publish"} => pos[q] \in G .. tail - 1
    <3>1. pc'[q] = pc[q] /\ pos'[q] = pos[q] /\ pos[q] \in Nat
      BY <1>1, <1>2
    <3>2. ASSUME pc[q] \in {"fill", "publish"} PROVE pos[q] \in G .. tail - 1
      <4>1. pos[q] \in F .. tail - 1 /\ TagIn(tag, pos[q]) = pos[q]
        BY <3>2 DEF IInv, ClaimsToPush, F
      <4>2. pos[q] # F
        BY <1>1, <1>2, <4>1
      <4> QED
        BY <1>1, <1>5, <4>1, <4>2
    <3> QED
      BY <3>1, <3>2
  <2>2. G = Front' /\ tag' = tag /\ tail' = tail
    BY <1>2, <1>5 DEF F
  <2> QED
    BY <2>1, <2>2 DEF ClaimsToPush, IInv, TagIn
<1>8. ClaimsToPop'
  <2>0. G = Front' /\ tag' = tag /\ tail' = tail
    BY <1>2, <1>5 DEF F
  <2>1. pc'[c] = "copy" /\ pos'[c] = F /\ F \in tail - Cap .. G - 1 /\ TagIn(tag, F) = F + 1
    BY <1>1, <1>2, <1>5
  <2>2. ASSUME NEW d \in Consumers, d # c
        PROVE  /\ pc'[d] = pc[d] /\ pos'[d] = pos[d] /\ pos[d] \in Nat
               /\ pc[d] \in {"tag", "claim"} => pos[d] <= head
               /\ pc[d] = "claim" /\ pos[d] = head => TagIn(tag, head) = head + 1
               /\ pc[d] \in {"copy", "reopen"} => /\ pos[d] \in tail - Cap .. F - 1
                                                  /\ TagIn(tag, pos[d]) = pos[d] + 1
    <3>1. pc'[d] = pc[d] /\ pos'[d] = pos[d] /\ pos[d] \in Nat
      BY <1>1, <1>2, <2>2
    <3> QED
      BY <3>1 DEF IInv, ClaimsToPop, F
  <2>3. ASSUME NEW d \in Consumers
        PROVE  /\ pc'[d] \in {"tag", "claim"} => pos'[d] <= head'
               /\ pc'[d] = "claim" /\ pos'[d] = head' => TagIn(tag, head') = head' + 1
    <3>1. CASE d = c
      BY <2>1, <3>1
    <3>2. CASE d # c /\ single
      <4>1. head' = head
        BY <1>2, <3>2
      <4> QED
        BY <2>2, <3>2, <4>1
    <3>3. CASE d # c /\ ~single
      <4>1. PICK h \in Nat : h = head' /\ h = head + 1
        BY <1>1, <1>2, <3>3
      <4> QED
        BY <1>1, <2>2, <3>3, <4>1
    <3> QED
      BY <3>1, <3>2, <3>3
  <2>4. ASSUME NEW d \in Consumers, pc'[d] \in {"copy", "reopen"}
        PROVE  pos'[d] \in tail - Cap .. G - 1 /\ TagIn(tag, pos'[d]) = pos'[d] + 1
    BY <1>1, <1>5, <2>1, <2>2, <2>4
  <2>5. ASSUME NEW d \in Consumers, NEW e \in Consumers,
               pc'[d] \in {"copy", "reopen"}, pc'[e] \in {"copy", "reopen"}, pos'[d] = pos'[e]
        PROVE  d = e
    <3>1. \A x, y \in Consumers :
            pc[x] \in {"copy", "reopen"} /\ pc[y] \in {"copy", "reopen"} /\ pos[x] = pos[y] => x = y
      BY DEF IInv, ClaimsToPop
    <3>2. \A x \in Consumers : x # c /\ pc'[x] \in {"copy", "reopen"} => pos'[x] # F
      BY <1>1, <2>2
    <3> QED
      BY <2>1, <2>2, <2>5, <3>1, <3>2
  <2> QED
    BY <2>0, <2>3, <2>4, <2>5 DEF ClaimsToPop, TagIn
<1> QED
  BY <1>3, <1>6, <1>7, <1>8 DEF IInv, F

\* A pop() gives its cell back, for the push one lap on.
LEMMA ReopenStep ==
  ASSUME Sizes, IInv, Shapes', NEW c \in Consumers, PopReopen(c)
  PROVE  IInv'
<1> /\ Cap \in Nat /\ Cap >= 2
    /\ \A i, j \in Nat : Same(i, j) /\ i - j < Cap /\ j - i < Cap => i = j
    /\ \A i, j \in Nat : j = i + Cap => Same(i, j) /\ Same(j, i)
  BY Laps
<1> DEFINE F == Front
<1>1. /\ tail \in Nat /\ F \in Nat /\ F <= tail /\ tail <= F + Cap /\ tag \in [Cells -> Nat]
      /\ pc \in [Threads -> PCs] /\ pos \in [Threads -> Nat] /\ head \in Nat
      /\ Producers \subseteq Threads /\ Consumers \subseteq Threads /\ Drainer \in Consumers
      /\ \A q \in Producers, d \in Consumers : q # d
  BY Basics
<1>2. PICK j \in Nat, v \in Nat : j = pos[c] /\ v = j + Cap
  BY <1>1
<1>3. /\ pc[c] = "reopen" /\ tag' = [tag EXCEPT ![j % Cap] = v]
      /\ UNCHANGED <<single, tail, head>>
      /\ \/ single /\ pc' = [pc EXCEPT ![c] = "advance"] /\ UNCHANGED pos
         \/ ~single /\ pc' = [pc EXCEPT ![c] = "idle"] /\ pos' = [pos EXCEPT ![c] = 0]
  BY <1>2 DEF PopReopen, Goto, Return
<1>4. F' = F
  <2>1. CASE single
    <3>1. c = Drainer
      BY <1>3, <2>1 DEF IInv, Shapes
    <3> QED
      BY <1>1, <1>3, <2>1, <3>1 DEF Front
  <2>2. CASE ~single
    BY <1>3, <2>2 DEF Front
  <2> QED
    BY <2>1, <2>2
<1>5. j \in tail - Cap .. F - 1 /\ TagIn(tag, j) = j + 1
  BY <1>2, <1>3 DEF IInv, ClaimsToPop
<1>6. single => \A d \in Consumers : pc[d] # "claim"
  BY DEF IInv, Shapes, DrainPlaces
<1>7. ~single => F = head
  BY DEF Front
<1>8. /\ pc'[c] \notin {"tag", "claim", "copy", "reopen"}
      /\ \A x \in Threads : x # c => pc'[x] = pc[x] /\ pos'[x] = pos[x]
  BY <1>1, <1>3
<1> HIDE DEF F
<1>9. /\ \A i \in Nat : Same(i, j) => TagIn(tag', i) = v /\ TagIn(tag, i) = j + 1
      /\ \A i \in Nat : ~Same(i, j) => TagIn(tag', i) = TagIn(tag, i)
      /\ Same(v, j)
      /\ \A i \in Nat : Same(i, j) => Same(i, v)
  <2>1. Retagged(tag, tag', j, v)
    BY <1>1, <1>3, TagStored
  <2>2. Same(v, j)
    BY <1>2
  <2> QED
    BY <1>5, <2>1, <2>2, TagShared DEF Retagged, Same
<1>10. /\ \A q \in Producers, i \in Int : Filling(q, i) => Filling(q, i)'
       /\ \A d \in Consumers, i \in Int : Emptying(d, i) /\ d # c => Emptying(d, i)'
  BY <1>1, <1>8 DEF Filling, Emptying
<1>11. Window'
  <2>1. ASSUME NEW i \in 0 .. F - 1 PROVE TagIn(tag', i) > i
    <3>1. TagIn(tag, i) > i
      BY DEF IInv, Window, F
    <3> QED
      BY <1>1, <1>2, <1>5, <1>9, <3>1
  <2>2. ASSUME NEW i \in F .. tail - 1
        PROVE  TagIn(tag', i) = i + 1 \/ (TagIn(tag', i) = i /\ \E q \in Producers : Filling(q, i)')
    <3>1. TagIn(tag, i) = i + 1 \/ (TagIn(tag, i) = i /\ \E q \in Producers : Filling(q, i))
      BY DEF IInv, Window, F
    <3>2. ~Same(i, j) /\ i \in Nat
      BY <1>1, <1>5
    <3> QED
      BY <1>9, <1>10, <3>1, <3>2
  <2>3. ASSUME NEW i \in tail .. F + Cap - 1
        PROVE  \/ TagIn(tag', i) = i
               \/ TagIn(tag', i) = i - Cap + 1 /\ \E d \in Consumers : Emptying(d, i - Cap)'
    <3>1. \/ TagIn(tag, i) = i
          \/ TagIn(tag, i) = i - Cap + 1 /\ \E d \in Consumers : Emptying(d, i - Cap)
      BY DEF IInv, Window, F
    <3>2. i \in Nat /\ i - Cap \in Int /\ v - i < Cap /\ i - v < Cap
      BY <1>1, <1>2, <1>5
    <3>3. CASE Same(i, j)
      <4>1. i = v
        BY <1>9, <3>2, <3>3
      <4> QED
        BY <1>9, <3>3, <4>1
    <3>4. CASE ~Same(i, j)
      <4>1. i # v /\ TagIn(tag', i) = TagIn(tag, i)
        BY <1>9, <3>2, <3>4
      <4>2. i - Cap # j
        BY <1>2, <3>2, <4>1
      <4>3. \A d \in Consumers : Emptying(d, i - Cap) => d # c
        BY <1>2, <4>2 DEF Emptying
      <4> QED
        BY <1>10, <3>1, <3>2, <4>1, <4>3
    <3> QED
      BY <3>3, <3>4
  <2> QED
    BY <1>1, <1>3, <1>4, <2>1, <2>2, <2>3 DEF Window, F, TagIn
<1>12. ClaimsToPush'
  <2>1. ASSUME NEW q \in Producers
        PROVE  /\ pc'[q] = pc[q] /\ pos'[q] = pos[q]
               /\ pc[q] = "claim" /\ pos[q] = tail => TagIn(tag', tail) = tail
               /\ pc[q] \in {"fill", "publish"} => TagIn(tag', pos[q]) = pos[q]
    <3>1. pc'[q] = pc[q] /\ pos'[q] = pos[q] /\ pos[q] \in Nat
      BY <1>1, <1>8
    <3>2. ASSUME pc[q] = "claim", pos[q] = tail PROVE TagIn(tag', tail) = tail
      <4>1. TagIn(tag, tail) = tail
        BY <3>2 DEF IInv, ClaimsToPush
      <4>2. ~Same(tail, j)
        BY <1>1, <1>9, <4>1
      <4> QED
        BY <1>1, <1>9, <4>1, <4>2
    <3>3. ASSUME pc[q] \in {"fill", "publish"} PROVE TagIn(tag', pos[q]) = pos[q]
      <4>1. pos[q] \in F .. tail - 1 /\ TagIn(tag, pos[q]) = pos[q]
        BY <3>3 DEF IInv, ClaimsToPush, F
      <4>2. PICK k \in Nat : k = pos[q]
        BY <3>1
      <4>3. ~Same(k, j)
        BY <1>1, <1>5, <4>1, <4>2
      <4> QED
        BY <1>9, <4>1, <4>2, <4>3
    <3> QED
      BY <3>1, <3>2, <3>3
  <2>2. UNCHANGED tail /\ F' = F
    BY <1>3, <1>4
  <2> QED
    BY <2>1, <2>2 DEF ClaimsToPush, IInv, F, TagIn
<1>13. ClaimsToPop'
  <2>1. ASSUME NEW d \in Consumers, d # c
        PROVE  /\ pc'[d] = pc[d] /\ pos'[d] = pos[d]
               /\ pc[d] = "claim" /\ pos[d] = head => TagIn(tag', head) = head + 1
               /\ pc[d] \in {"copy", "reopen"} => TagIn(tag', pos[d]) = pos[d] + 1
    <3>1. pc'[d] = pc[d] /\ pos'[d] = pos[d] /\ pos[d] \in Nat
      BY <1>1, <1>8, <2>1
    <3>2. ASSUME pc[d] = "claim", pos[d] = head PROVE TagIn(tag', head) = head + 1
      <4>1. TagIn(tag, head) = head + 1 /\ F = head
        BY <1>6, <1>7, <3>2 DEF IInv, ClaimsToPop
      <4>2. ~Same(head, j)
        BY <1>1, <1>5, <1>9, <4>1
      <4> QED
        BY <1>1, <1>9, <4>1, <4>2
    <3>3. ASSUME pc[d] \in {"copy", "reopen"} PROVE TagIn(tag', pos[d]) = pos[d] + 1
      <4>1. pos[d] \in tail - Cap .. F - 1 /\ TagIn(tag, pos[d]) = pos[d] + 1 /\ pos[d] # j
        BY <1>2, <1>3, <2>1, <3>3 DEF IInv, ClaimsToPop, F
      <4>2. PICK k \in Nat : k = pos[d]
        BY <3>1
      <4>3. ~Same(k, j)
        BY <1>1, <1>5, <4>1, <4>2
      <4> QED
        BY <1>9, <4>1, <4>2, <4>3
    <3> QED
      BY <3>1, <3>2, <3>3
  <2>2. UNCHANGED <<tail, head>> /\ F' = F
    BY <1>3, <1>4
  <2>3. ASSUME NEW d \in Consumers
        PROVE  /\ pc'[d] \in {"tag", "claim"} => pos'[d] <= head
               /\ pc'[d] = "claim" /\ pos'[d] = head => TagIn(tag', head) = head + 1
               /\ pc'[d] \in {"copy", "reopen"} =>
                    pos'[d] \in tail - Cap .. F - 1 /\ TagIn(tag', pos'[d]) = pos'[d] + 1
    BY <1>8, <2>1 DEF ClaimsToPop, IInv, F
  <2>4. \A d, e \in Consumers :
          pc'[d] \in {"copy", "reopen"} /\ pc'[e] \in {"copy", "reopen"} /\ pos'[d] = pos'[e] => d = e
    BY <1>8, <2>1 DEF ClaimsToPop, IInv
  <2> QED
    BY <2>2, <2>3, <2>4 DEF ClaimsToPop, F, TagIn
<1> QED
  BY <1>11, <1>12, <1>13 DEF IInv

\* IInv holds of the ring as constructed.
LEMMA Initially ==
  ASSUME Sizes, Init
  PROVE  IInv
<1>1. Front = 0 /\ tail = 0 /\ head = 0 /\ \A x \in Threads : pc[x] = "idle"
  <2>1. Drainer \in Threads
    BY DEF Sizes, Threads
  <2> QED
    BY <2>1 DEF Init, Front
<1>2. Shapes
  <2>1. Plain
    BY <1>1 DEF Sizes, Plain, Init, PCs, Cells, Threads, PushPlaces, PopPlaces, DrainPlaces
  <2>2. CellsTyped /\ single \in BOOLEAN
    BY DEF CellsTyped, Init
  <2> QED
    BY <2>1, <2>2, ShapesParts
<1>3. Window
  <2>1. \A i \in 0 .. 0 + Cap - 1 : TagIn(tag, i) = i
    <3>1. ASSUME NEW i \in 0 .. Cap - 1 PROVE i % Cap = i /\ i \in Cells
      BY DEF Sizes, Cells
    <3> QED
      BY <3>1 DEF Sizes, TagIn, Init
  <2> QED
    BY <1>1, <2>1 DEF Sizes, Window
<1>4. ClaimsToPush /\ ClaimsToPop
  BY <1>1 DEF ClaimsToPush, ClaimsToPop, Threads
<1> QED
  BY <1>2, <1>3, <1>4 DEF IInv

\* Every step of the tagged ring keeps its invariant.
LEMMA Step ==
  ASSUME Sizes, IInv, Next \/ UNCHANGED vars
  PROVE  IInv'
<1>1. Shapes'
  BY ShapesStep DEF IInv
<1>2. ASSUME NEW p \in Producers, PushCall(p) \/ Pushing(p) \/ ClaimFails(p)
      PROVE  IInv'
  <2>1. CASE PushClaim(p) /\ tail = pos[p]
    BY <1>1, <2>1, ClaimStep
  <2>2. CASE PushPublish(p)
    BY <1>1, <2>2, PublishStep
  <2>3. CASE \/ PushCall(p) \/ PushLoad(p) \/ PushTag(p) \/ ClaimFails(p) \/ PushFill(p)
             \/ PushClaim(p) /\ tail # pos[p]
    BY <1>1, <2>3, QuietPush, QuietStep
  <2> QED
    BY <1>2, <2>1, <2>2, <2>3 DEF Pushing
<1>3. ASSUME NEW c \in Consumers, Popping(c) \/ ClaimFails(c) \/ (c = Drainer /\ Draining(c))
      PROVE  IInv'
  <2>1. CASE (PopClaim(c) /\ head = pos[c]) \/ (c = Drainer /\ DrainTag(c))
    BY <1>1, <2>1, Takes, TakeStep
  <2>2. CASE PopReopen(c)
    BY <1>1, <2>2, ReopenStep
  <2>3. CASE \/ PopCall(c) \/ PopTag(c) \/ ClaimFails(c) \/ PopCopy(c)
             \/ PopClaim(c) /\ head # pos[c]
             \/ c = Drainer /\ (DrainEmpty(c) \/ DrainAdvance(c))
    BY <1>1, <2>3, QuietPop, QuietStep
  <2> QED
    BY <1>3, <2>1, <2>2, <2>3 DEF Popping, Draining
<1>4. CASE UNCHANGED vars
  <2>1. Quiet
    BY <1>4 DEF Quiet, vars, Front, IInv, ClaimsToPush, ClaimsToPop
  <2> QED
    BY <1>1, <2>1, QuietStep
<1> QED
  BY <1>2, <1>3, <1>4 DEF Sizes, Next

--------------------------------------------------------------------------------
\* A refusal comes from the tag of the position looked at.
LEMMA Refusing ==
  ASSUME Sizes, IInv, Next \/ UNCHANGED vars, NEW x \in Threads, Returns(x)
  PROVE  /\ x \in Producers => TagIn(tag, pos[x]) < pos[x]
         /\ x \in Consumers => TagIn(tag, pos[x]) < pos[x] + 1
<1>1. /\ pc \in [Threads -> PCs] /\ pc[x] = "tag" /\ pc'[x] = "idle"
      /\ Producers \subseteq Threads /\ Consumers \subseteq Threads /\ Drainer \in Consumers
      /\ \A q \in Producers, d \in Consumers : q # d
  BY Basics DEF Returns
<1> USE DEF Goto, Return
<1>2. ASSUME NEW p \in Producers, PushCall(p) \/ Pushing(p) \/ ClaimFails(p)
      PROVE  x = p /\ TagIn(tag, pos[p]) < pos[p]
  BY <1>1, <1>2 DEF Pushing, PushCall, PushLoad, PushTag, PushClaim, PushFill,
                    PushPublish, ClaimFails, TagAt, TagIn
<1>3. ASSUME NEW c \in Consumers, Popping(c) \/ ClaimFails(c) \/ (c = Drainer /\ Draining(c))
      PROVE  x = c /\ TagIn(tag, pos[c]) < pos[c] + 1
  BY <1>1, <1>3 DEF Popping, Draining, PopCall, PopTag, PopClaim, PopCopy, PopReopen,
                    DrainTag, DrainEmpty, DrainAdvance, ClaimFails, TagAt, TagIn, vars
<1>4. ~UNCHANGED vars
  BY <1>1 DEF vars
<1> QED
  BY <1>1, <1>2, <1>3, <1>4 DEF Next

\* push() and pop() refuse with a reason.
LEMMA Refuses ==
  ASSUME Sizes, IInv, Next \/ UNCHANGED vars
  PROVE  RefusalJustified
<1> DEFINE F == Front
<1>1. /\ tail \in Nat /\ F \in Nat /\ F <= tail /\ tail <= F + Cap /\ Cap \in Nat
      /\ pos \in [Threads -> Nat] /\ head \in Nat
      /\ Producers \subseteq Threads /\ Consumers \subseteq Threads
      /\ ~single => F = head
  BY Basics, Laps
<1>2. ASSUME NEW p \in Producers, Returns(p)
      PROVE  \/ tail - F = Cap
             \/ \E c \in Consumers : pc[c] \in {"copy", "reopen"} /\ pos[c] = pos[p] - Cap
  <2>1. PICK i \in Nat : i = pos[p] /\ TagIn(tag, i) < i /\ i <= tail
    <3>1. pc[p] = "tag"
      BY <1>2 DEF Returns
    <3>2. TagIn(tag, pos[p]) < pos[p]
      BY <1>1, <1>2, Refusing
    <3> QED
      BY <1>1, <3>1, <3>2 DEF IInv, ClaimsToPush
  <2>2. /\ \A k \in 0 .. F - 1 : TagIn(tag, k) > k
        /\ \A k \in F .. tail - 1 : TagIn(tag, k) = k + 1 \/ TagIn(tag, k) = k
        /\ \A k \in tail .. F + Cap - 1 :
              TagIn(tag, k) = k \/ \E c \in Consumers : Emptying(c, k - Cap)
    BY DEF IInv, Window
  <2> HIDE DEF F
  <2>3. i = tail
    <3>1. i \notin 0 .. F - 1
      <4> SUFFICES ASSUME i \in 0 .. F - 1 PROVE FALSE
        OBVIOUS
      <4>1. TagIn(tag, i) > i
        BY <2>2
      <4>2. TagIn(tag, i) \in Nat
        BY Basics, TagTyped
      <4> QED
        BY <2>1, <4>1, <4>2
    <3>2. i \notin F .. tail - 1
      <4> SUFFICES ASSUME i \in F .. tail - 1 PROVE FALSE
        OBVIOUS
      <4>1. TagIn(tag, i) = i + 1 \/ TagIn(tag, i) = i
        BY <2>2
      <4> QED
        BY <2>1, <4>1
    <3> QED
      BY <1>1, <2>1, <3>1, <3>2
  <2>4. CASE tail = F + Cap
    BY <1>1, <2>4
  <2>5. CASE tail < F + Cap
    <3>1. i \in tail .. F + Cap - 1 /\ TagIn(tag, i) # i
      BY <1>1, <2>1, <2>3, <2>5
    <3>2. \E c \in Consumers : Emptying(c, i - Cap)
      BY <2>2, <3>1
    <3> QED
      BY <2>1, <3>2 DEF Emptying
  <2> QED
    BY <1>1, <2>4, <2>5
<1>3. ASSUME NEW c \in Consumers, Returns(c)
      PROVE  \/ tail = F
             \/ \E p \in Producers : pc[p] \in {"fill", "publish"} /\ pos[p] = pos[c]
  <2>1. PICK i \in Nat : i = pos[c] /\ TagIn(tag, i) < i + 1 /\ i <= F
    <3>1. pc[c] = "tag"
      BY <1>3 DEF Returns
    <3>2. ~single
      BY <3>1 DEF IInv, Shapes, DrainPlaces
    <3>3. TagIn(tag, pos[c]) < pos[c] + 1
      BY <1>1, <1>3, Refusing
    <3> QED
      BY <1>1, <3>1, <3>2, <3>3 DEF IInv, ClaimsToPop
  <2>2. /\ \A k \in 0 .. F - 1 : TagIn(tag, k) > k
        /\ \A k \in F .. tail - 1 : TagIn(tag, k) = k + 1 \/ \E p \in Producers : Filling(p, k)
    BY DEF IInv, Window
  <2>3. TagIn(tag, i) \in Nat
    BY Basics, TagTyped
  <2> HIDE DEF F
  <2>4. i = F
    <3>1. i \notin 0 .. F - 1
      <4> SUFFICES ASSUME i \in 0 .. F - 1 PROVE FALSE
        OBVIOUS
      <4>1. TagIn(tag, i) > i
        BY <2>2
      <4> QED
        BY <2>1, <2>3, <4>1
    <3> QED
      BY <1>1, <2>1, <3>1
  <2>5. CASE F < tail
    <3>1. i \in F .. tail - 1 /\ TagIn(tag, i) # i + 1
      BY <1>1, <2>1, <2>3, <2>4, <2>5
    <3>2. \E p \in Producers : Filling(p, i)
      BY <2>2, <3>1
    <3> QED
      BY <2>1, <3>2 DEF Filling
  <2> QED
    BY <1>1, <2>5
<1> QED
  BY <1>2, <1>3 DEF RefusalJustified

--------------------------------------------------------------------------------
\* The items by position, wherever they are.
EntryAt == [i \in Int |-> At(i)]

\* In the hands of the one producer that is filling the cell, or in the cell.
Held ==
  /\ \A p \in Producers : pc[p] = "fill" => EntryAt[pos[p]] = <<p, pushes[p]>>
  /\ \A i \in Int : (\A p \in Producers : ~(pc[p] = "fill" /\ pos[p] = i)) => EntryAt[i] = cell[i % Cap]

\* That is where an item is.
LEMMA Shown == Sizes /\ IInv => Held
<1> SUFFICES ASSUME Sizes, IInv PROVE Held
  OBVIOUS
<1>1. pos \in [Threads -> Nat] /\ Producers \subseteq Threads
  BY Basics
<1>2. ASSUME NEW p \in Producers, pc[p] = "fill"
      PROVE  EntryAt[pos[p]] = <<p, pushes[p]>>
  <2> DEFINE who == CHOOSE q \in Producers : pc[q] = "fill" /\ pos[q] = pos[p]
  <2>1. who \in Producers /\ pc[who] = "fill" /\ pos[who] = pos[p]
    BY <1>2
  <2>2. who = p
    BY <1>2, <2>1 DEF IInv, ClaimsToPush
  <2>3. At(pos[p]) = Item(who)
    BY <1>2 DEF At
  <2>4. pos[p] \in Int
    BY <1>1
  <2> HIDE DEF who
  <2> QED
    BY <2>2, <2>3, <2>4 DEF EntryAt, Item
<1>3. ASSUME NEW i \in Int, \A p \in Producers : ~(pc[p] = "fill" /\ pos[p] = i)
      PROVE  EntryAt[i] = cell[i % Cap]
  BY <1>3 DEF EntryAt, At
<1> QED
  BY <1>2, <1>3 DEF Held

\* Who fills what in a step.
Moves ==
  /\ \A p \in Producers : pc[p] = "fill" =>
       /\ pos'[p] = pos[p] /\ pushes'[p] = pushes[p]
       /\ pc'[p] = "fill" \/ PushFill(p)
  /\ \A p \in Producers : pc'[p] = "fill" /\ pc[p] # "fill" => pos'[p] = tail /\ UNCHANGED cell
  /\ UNCHANGED cell \/ \E p \in Producers : PushFill(p)

\* The steps of a push store into no cell but the claimed one.
LEMMA MovesPush ==
  ASSUME Sizes, IInv, NEW p \in Producers, PushCall(p) \/ Pushing(p) \/ ClaimFails(p)
  PROVE  Moves
<1>1. /\ pc \in [Threads -> PCs] /\ pos \in [Threads -> Nat] /\ Producers \subseteq Threads
      /\ pushes \in [Producers -> 0 .. MaxPushes]
  BY Basics DEF IInv, Shapes, TypeOK
<1> USE DEF Moves, Goto, Return
<1>2. CASE PushCall(p) \/ PushLoad(p) \/ PushTag(p)
  BY <1>1, <1>2 DEF PushCall, PushLoad, PushTag
<1>3. CASE PushClaim(p) \/ ClaimFails(p)
  BY <1>1, <1>3 DEF PushClaim, ClaimFails
<1>4. CASE PushFill(p)
  <2>1. /\ pc' = [pc EXCEPT ![p] = "publish"] /\ UNCHANGED <<pos, pushes>>
    BY <1>4 DEF PushFill
  <2> QED
    BY <1>1, <1>4, <2>1
<1>5. CASE PushPublish(p)
  BY <1>1, <1>5 DEF PushPublish
<1> QED
  BY <1>2, <1>3, <1>4, <1>5 DEF Pushing

\* The steps of a pop and of the drain store into no cell.
LEMMA MovesPop ==
  ASSUME Sizes, IInv, NEW c \in Consumers,
         Popping(c) \/ ClaimFails(c) \/ (c = Drainer /\ Draining(c))
  PROVE  Moves
<1>1. /\ pc \in [Threads -> PCs] /\ pos \in [Threads -> Nat] /\ Producers \subseteq Threads
      /\ \A p \in Producers : p # c
  BY Basics
<1>2. UNCHANGED <<cell, pushes>> /\ \A p \in Producers : pc'[p] = pc[p] /\ pos'[p] = pos[p]
  BY <1>1 DEF Goto, Return, Popping, Draining, PopCall, PopTag, PopClaim, PopCopy,
              PopReopen, DrainTag, DrainEmpty, DrainAdvance, ClaimFails, vars
<1> QED
  BY <1>2 DEF Moves

\* A step leaves the items in the window as they are.
LEMMA ItemsStay ==
  ASSUME Sizes, IInv, IInv', Moves, NEW i \in Front .. tail - 1
  PROVE  EntryAt'[i] = EntryAt[i]
<1>1. /\ tail \in Nat /\ Front \in Nat /\ Front <= tail /\ tail <= Front + Cap
      /\ pos \in [Threads -> Nat] /\ Producers \subseteq Threads
  BY Basics
<1>2. i \in Nat /\ i < tail /\ Front <= i
  BY <1>1
<1>3. Held /\ Held'
  BY Shown, PTL
<1>4. CASE \E p \in Producers : pc[p] = "fill" /\ pos[p] = i
  <2>1. PICK p \in Producers : pc[p] = "fill" /\ pos[p] = i
    BY <1>4
  <2>2. EntryAt[i] = <<p, pushes[p]>>
    BY <1>3, <2>1 DEF Held
  <2>3. pos'[p] = i /\ pushes'[p] = pushes[p]
    BY <2>1 DEF Moves
  <2>4. CASE pc'[p] = "fill"
    BY <1>3, <2>2, <2>3, <2>4 DEF Held
  <2>5. CASE pc'[p] # "fill"
    <3>1. PushFill(p)
      BY <2>1, <2>5 DEF Moves
    <3>2. cell' = [cell EXCEPT ![i % Cap] = <<p, pushes[p]>>] /\ UNCHANGED pos
      BY <2>1, <3>1 DEF PushFill, Item
    <3>3. cell'[i % Cap] = <<p, pushes[p]>>
      <4>1. i % Cap \in Cells
        BY <1>2 DEF Sizes, Cells
      <4>2. CellsTyped
        BY DEF IInv, Shapes
      <4> QED
        BY <3>2, <4>1, <4>2 DEF CellsTyped
    <3>4. \A q \in Producers : ~(pc'[q] = "fill" /\ pos'[q] = i)
      <4> SUFFICES ASSUME NEW q \in Producers, pc'[q] = "fill", pos'[q] = i PROVE FALSE
        OBVIOUS
      <4>1. pc[q] = "fill"
        BY <1>2, <1>1 DEF Moves
      <4>2. q = p
        BY <2>1, <3>2, <4>1 DEF IInv, ClaimsToPush
      <4> QED
        BY <2>5, <4>2
    <3>5. EntryAt'[i] = cell'[i % Cap]
      BY <1>2, <1>3, <3>4 DEF Held
    <3> QED
      BY <2>2, <3>3, <3>5
  <2> QED
    BY <2>4, <2>5
<1>5. CASE \A p \in Producers : ~(pc[p] = "fill" /\ pos[p] = i)
  <2>1. EntryAt[i] = cell[i % Cap]
    BY <1>2, <1>3, <1>5 DEF Held
  <2>2. \A q \in Producers : ~(pc'[q] = "fill" /\ pos'[q] = i)
    <3> SUFFICES ASSUME NEW q \in Producers, pc'[q] = "fill", pos'[q] = i PROVE FALSE
      OBVIOUS
    <3>1. CASE pc[q] = "fill"
      BY <1>5, <3>1 DEF Moves
    <3>2. CASE pc[q] # "fill"
      BY <1>1, <1>2, <3>2 DEF Moves
    <3> QED
      BY <3>1, <3>2
  <2>3. EntryAt'[i] = cell'[i % Cap]
    BY <1>2, <1>3, <2>2 DEF Held
  <2>4. ASSUME NEW q \in Producers, PushFill(q)
        PROVE  cell'[i % Cap] = cell[i % Cap]
    <3>1. PICK j \in Nat : j = pos[q]
      BY <1>1
    <3>2. pc[q] = "fill" /\ cell' = [cell EXCEPT ![j % Cap] = Item(q)]
      BY <2>4, <3>1 DEF PushFill
    <3>3. j # i /\ j \in Front .. tail - 1
      BY <1>5, <3>1, <3>2 DEF IInv, ClaimsToPush
    <3>4. ~Same(i, j)
      BY <1>1, <1>2, <3>3, Laps
    <3>5. i % Cap \in Cells /\ i % Cap # j % Cap
      BY <1>2, <3>4 DEF Sizes, Cells, Same
    <3> QED
      BY <3>2, <3>5 DEF IInv, Shapes, CellsTyped
  <2> QED
    BY <2>1, <2>3, <2>4 DEF Moves
<1> QED
  BY <1>4, <1>5

\* A push fills no cell that is being copied out.
LEMMA CopiesStay ==
  ASSUME Sizes, IInv, Moves, NEW c \in Consumers, pc[c] = "copy"
  PROVE  cell'[pos[c] % Cap] = cell[pos[c] % Cap]
<1>1. /\ tail \in Nat /\ Front \in Nat /\ Front <= tail /\ tail <= Front + Cap
      /\ pos \in [Threads -> Nat] /\ Producers \subseteq Threads /\ Consumers \subseteq Threads
  BY Basics
<1>2. PICK i \in Nat : i = pos[c] /\ i \in tail - Cap .. Front - 1
  BY <1>1 DEF IInv, ClaimsToPop
<1>3. ASSUME NEW q \in Producers, PushFill(q)
      PROVE  cell'[i % Cap] = cell[i % Cap]
  <2>1. PICK j \in Nat : j = pos[q]
    BY <1>1
  <2>2. pc[q] = "fill" /\ cell' = [cell EXCEPT ![j % Cap] = Item(q)]
    BY <1>3, <2>1 DEF PushFill
  <2>3. j \in Front .. tail - 1
    BY <2>1, <2>2 DEF IInv, ClaimsToPush
  <2>4. ~Same(i, j)
    BY <1>1, <1>2, <2>3, Laps
  <2>5. i % Cap \in Cells /\ i % Cap # j % Cap
    BY <2>4 DEF Sizes, Cells, Same
  <2> QED
    BY <2>2, <2>5 DEF IInv, Shapes, CellsTyped
<1> QED
  BY <1>2, <1>3 DEF Moves

\* No step changes an item that is being copied out.
LEMMA OutStays ==
  ASSUME Sizes, IInv, Moves,
         \A c \in Consumers : /\ pc'[c] = "copy" <=> pc[c] = "copy"
                              /\ pc[c] = "copy" => pos'[c] = pos[c]
  PROVE  Out' = Out
<1>1. \A c \in Consumers : pc[c] = "copy" => cell'[pos'[c] % Cap] = cell[pos[c] % Cap]
  BY CopiesStay
<1> QED
  BY <1>1 DEF Out

\* What a step may do to the items in the ring and to the copies under way: add
\* one item behind the last, hand the first one out, end a copy, or nothing.
Moved ==
  /\ \A i \in Front' .. tail - 1 : EntryAt'[i] = EntryAt[i]
  /\ \/ Front' = Front /\ tail' = tail /\ Out' = Out
     \/ Front' = Front /\ tail' = tail + 1 /\ tail' <= Front + Cap /\ Out' = Out
     \/ \E c \in Consumers : /\ Front < tail /\ Front' = Front + 1 /\ tail' = tail
                             /\ Out' = [Out EXCEPT ![c] = <<EntryAt[Front]>>]
     \/ \E c \in Consumers : /\ Front' = Front /\ tail' = tail
                             /\ Out' = [Out EXCEPT ![c] = <<>>]

\* A claimed push is an item put in, a claimed pop one taken out, its copy the
\* end of it; the other steps change nothing.
LEMMA StepMoves ==
  ASSUME Sizes, IInv, IInv', Next \/ UNCHANGED vars
  PROVE  Moved
<1>1. /\ tail \in Nat /\ Front \in Nat /\ Front <= tail /\ tail <= Front + Cap /\ Cap \in Nat
      /\ pc \in [Threads -> PCs] /\ pos \in [Threads -> Nat] /\ head \in Nat
      /\ Producers \subseteq Threads /\ Consumers \subseteq Threads /\ Drainer \in Consumers
      /\ \A q \in Producers, d \in Consumers : q # d
  BY Basics, Laps
<1>2. Held
  BY Shown
<1>3. ASSUME Moves PROVE \A i \in Front .. tail - 1 : EntryAt'[i] = EntryAt[i]
  BY <1>3, ItemsStay
<1> USE DEF Goto, Return
<1>4. ASSUME NEW p \in Producers, PushCall(p) \/ Pushing(p) \/ ClaimFails(p)
      PROVE  Moved
  <2>1. Moves
    BY <1>4, MovesPush
  <2>2. UNCHANGED <<head, single>> /\ \A c \in Consumers : pc'[c] = pc[c] /\ pos'[c] = pos[c]
    BY <1>1, <1>4 DEF Pushing, PushCall, PushLoad, PushTag, PushClaim, PushFill,
                      PushPublish, ClaimFails
  <2>3. Front' = Front
    BY <1>1, <2>2 DEF Front
  <2>4. Out' = Out
    BY <2>1, <2>2, OutStays
  <2>5. tail' \in {tail, tail + 1}
    BY <1>4 DEF Pushing, PushCall, PushLoad, PushTag, PushClaim, PushFill, PushPublish, ClaimFails
  <2>6. tail' <= Front' + Cap
    <3>1. Window'
      BY DEF IInv
    <3> QED
      BY <3>1 DEF Window
  <2> QED
    BY <1>3, <2>1, <2>3, <2>4, <2>5, <2>6 DEF Moved
<1>5. ASSUME NEW c \in Consumers, Popping(c) \/ ClaimFails(c) \/ (c = Drainer /\ Draining(c))
      PROVE  Moved
  <2>1. Moves
    BY <1>5, MovesPop
  <2>2. UNCHANGED cell
    BY <1>5 DEF Popping, Draining, PopCall, PopTag, PopClaim, PopCopy,
              PopReopen, DrainTag, DrainEmpty, DrainAdvance, ClaimFails, vars
  <2>3. CASE (PopClaim(c) /\ head = pos[c]) \/ (c = Drainer /\ DrainTag(c))
    <3>1. Taking(c)
      BY <2>3, Takes
    <3>2. Front < tail
      <4>1. Shapes'
        BY DEF IInv
      <4> QED
        BY <3>1, <4>1, TakeStep
    <3>3. /\ Front' = Front + 1 /\ tail' = tail
          /\ pc' = [pc EXCEPT ![c] = "copy"] /\ pos' = [pos EXCEPT ![c] = Front]
          /\ TagIn(tag, Front) = Front + 1
      BY <3>1 DEF Taking
    <3>4. \A p \in Producers : ~(pc[p] = "fill" /\ pos[p] = Front)
      BY <1>1, <3>3 DEF IInv, ClaimsToPush
    <3>5. EntryAt[Front] = cell[Front % Cap]
      BY <1>1, <1>2, <3>4 DEF Held
    <3>6. Out' = [Out EXCEPT ![c] = <<EntryAt[Front]>>]
      BY <1>1, <2>2, <3>3, <3>5 DEF Out
    <3>7. \A i \in Front + 1 .. tail - 1 : EntryAt'[i] = EntryAt[i]
      BY <1>1, <1>3, <2>1
    <3> QED
      BY <3>2, <3>3, <3>6, <3>7 DEF Moved
  <2>4. CASE PopCopy(c)
    <3>1. Quiet
      BY <2>4, QuietPop
    <3>2. Front' = Front /\ tail' = tail
      BY <3>1 DEF Quiet
    <3>3. pc[c] = "copy" /\ pc' = [pc EXCEPT ![c] = "reopen"] /\ UNCHANGED pos
      BY <2>4 DEF PopCopy
    <3>4. Out' = [Out EXCEPT ![c] = <<>>]
      BY <1>1, <2>2, <3>3 DEF Out
    <3> QED
      BY <1>3, <2>1, <3>2, <3>4 DEF Moved
  <2>5. CASE \/ PopCall(c) \/ PopTag(c) \/ ClaimFails(c)
             \/ PopClaim(c) /\ head # pos[c]
             \/ c = Drainer /\ (DrainEmpty(c) \/ DrainAdvance(c))
    <3>1. Quiet
      BY <2>5, QuietPop
    <3>2. Front' = Front /\ tail' = tail
      BY <3>1 DEF Quiet
    <3>3. \A d \in Consumers : /\ pc'[d] = "copy" <=> pc[d] = "copy"
                               /\ pc[d] = "copy" => pos'[d] = pos[d]
      BY <1>1, <2>5 DEF PopCall, PopTag, ClaimFails, PopClaim, DrainEmpty, DrainAdvance, vars
    <3>4. Out' = Out
      BY <2>1, <3>3, OutStays
    <3> QED
      BY <1>3, <2>1, <3>2, <3>4 DEF Moved
  <2>6. CASE PopReopen(c)
    <3>1. /\ pc[c] = "reopen" /\ UNCHANGED <<single, tail, head>>
          /\ \/ single /\ pc' = [pc EXCEPT ![c] = "advance"] /\ UNCHANGED pos
             \/ ~single /\ pc' = [pc EXCEPT ![c] = "idle"] /\ pos' = [pos EXCEPT ![c] = 0]
      BY <2>6 DEF PopReopen
    <3>2. Front' = Front
      <4>1. CASE single
        <5>1. c = Drainer
          BY <3>1, <4>1 DEF IInv, Shapes
        <5> QED
          BY <1>1, <3>1, <4>1, <5>1 DEF Front
      <4>2. CASE ~single
        BY <3>1, <4>2 DEF Front
      <4> QED
        BY <4>1, <4>2
    <3>3. \A d \in Consumers : /\ pc'[d] = "copy" <=> pc[d] = "copy"
                               /\ pc[d] = "copy" => pos'[d] = pos[d]
      BY <1>1, <3>1
    <3>4. Out' = Out
      BY <2>1, <3>3, OutStays
    <3> QED
      BY <1>3, <2>1, <3>1, <3>2, <3>4 DEF Moved
  <2> QED
    BY <1>5, <2>3, <2>4, <2>5, <2>6 DEF Popping, Draining
<1>6. CASE UNCHANGED vars
  <2>1. Front' = Front /\ tail' = tail /\ EntryAt' = EntryAt /\ Out' = Out
    BY <1>6 DEF vars, Front, EntryAt, At, Item, Out
  <2> QED
    BY <2>1 DEF Moved
<1> QED
  BY <1>4, <1>5, <1>6 DEF Sizes, Next

\* It starts with no item and no copy under way.
LEMMA StartsEmpty ==
  ASSUME Sizes, Init
  PROVE  Front = 0 /\ tail = 0 /\ Out = [c \in Consumers |-> <<>>]
<1>1. \A x \in Threads : pc[x] = "idle"
  BY DEF Init
<1>2. Consumers \subseteq Threads /\ Drainer \in Threads
  BY DEF Sizes, Threads
<1> QED
  BY <1>1, <1>2 DEF Init, Front, Out
================================================================================
