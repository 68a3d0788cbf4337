---------------------------- MODULE Queues_proofs ----------------------------
(***************************************************************************)
(* What Queues checks of the three lock-free queues, proved for every      *)
(* number of threads, slots and items.  The inductive invariants are those *)
(* of MpmcRing_proofs and CachedIndex_proofs, where each step is also      *)
(* shown to be one of the abstract specification or to move the items as   *)
(* it may; here the three are put together.                                *)
(***************************************************************************)
EXTENDS Queues, TLAPS

Ringed == INSTANCE MpmcRing_proofs WITH Drainer <- Consumer, Cap <- RingCap, single <- variant
Cached == INSTANCE CachedIndex_proofs
            WITH Owner <- Producer, Thieves <- Consumers, InitCap <- DequeCap,
                 MaxItems <- MaxDequeItems, grows <- variant, caches <- variant

\* The constants are as the proofs of the components want them.
LEMMA Fits == Ringed!Sizes /\ Cached!Sizes
BY Sizes DEF Ringed!Sizes, Cached!Sizes

--------------------------------------------------------------------------------
(* The tagged ring as a bounded queue. *)

\* Its items are the entries from Front up to tail.
RingSeen == Ringed!Items = Cached!Stretch(Ringed!EntryAt, Ringed!Front, tail)

\* A reader of the model sees that stretch.
LEMMA RingShown == Ringed!IInv => RingSeen
<1> SUFFICES ASSUME Ringed!IInv PROVE RingSeen
  OBVIOUS
<1>1. tail \in Nat /\ Ringed!Front \in Nat
  BY Fits, Ringed!Basics
<1>2. \A k \in 1 .. tail - Ringed!Front : Ringed!Front + k - 1 \in Int
  BY <1>1
<1> QED
  BY <1>2 DEF RingSeen, Ringed!Items, Ringed!EntryAt, Cached!Stretch

\* What a step does to the items is a step of the bounded queue.
LEMMA RingRefines ==
  ASSUME Ringed!IInv, Ringed!IInv', Ringed!Moved
  PROVE  Ringed!Abstract!Next \/ UNCHANGED <<Ringed!Items, Ringed!Out>>
<1>1. RingSeen /\ RingSeen'
  BY RingShown, PTL
<1>2. /\ tail \in Nat /\ Ringed!Front \in Nat /\ Ringed!Front <= tail /\ RingCap \in Nat
      /\ tail' \in {tail, tail + 1} /\ Ringed!Front' \in {Ringed!Front, Ringed!Front + 1}
  BY Fits, Ringed!Basics DEF Ringed!Sizes, Ringed!Moved
<1>3. PICK a \in Int, b \in Int, c \in Int, d \in Int :
        a = Ringed!Front /\ b = tail /\ c = Ringed!Front' /\ d = tail'
  BY <1>2
<1> DEFINE f == Ringed!EntryAt
           g == Ringed!EntryAt'
<1>4. Ringed!Items = Cached!Stretch(f, a, b) /\ Ringed!Items' = Cached!Stretch(g, c, d)
  BY <1>1, <1>3 DEF RingSeen
<1>5. Cached!Stretch(g, c, b) = Cached!Stretch(f, c, b)
  <2>1. \A i \in c .. b - 1 : g[i] = f[i]
    BY <1>3 DEF Ringed!Moved
  <2> HIDE DEF f, g
  <2> QED
    BY <2>1, Cached!StretchSame
<1>6. CASE c = a /\ d = b /\ Ringed!Out' = Ringed!Out
  BY <1>4, <1>5, <1>6
<1>7. CASE c = a /\ d = b + 1 /\ d <= a + RingCap /\ Ringed!Out' = Ringed!Out
  <2>1. a <= b /\ b < d /\ d - a <= RingCap /\ RingCap \in Int
    BY <1>2, <1>3, <1>7
  <2> HIDE DEF f, g
  <2>2. Cached!Longer(Cached!Stretch(g, a, b), Cached!Stretch(g, a, d), RingCap)
    BY <2>1, Cached!StretchPut
  <2>3. Ringed!Abstract!Put
    BY <1>4, <1>5, <1>7, <2>2 DEF Cached!Longer, Ringed!Abstract!Put
  <2> QED
    BY <2>3 DEF Ringed!Abstract!Next
<1>8. ASSUME NEW x \in Consumers, a < b, c = a + 1, d = b,
             Ringed!Out' = [Ringed!Out EXCEPT ![x] = <<f[a]>>]
      PROVE  Ringed!Abstract!Next
  <2>1. a < c /\ c <= b
    BY <1>8
  <2> HIDE DEF f, g
  <2>2. Cached!Splits(Cached!Stretch(f, a, b), Cached!Stretch(f, a, c), Cached!Stretch(f, c, b))
    BY <2>1, Cached!StretchTake
  <2>3. Cached!Stretch(f, a, c) = <<f[a]>>
    <3>1. 1 .. c - a = {1} /\ a + 1 - 1 = a
      BY <1>8
    <3> QED
      BY <3>1 DEF Cached!Stretch
  <2>4. Ringed!Abstract!Take(x)
    BY <1>4, <1>5, <1>8, <2>2, <2>3 DEF Cached!Splits, Ringed!Abstract!Take
  <2> QED
    BY <2>4 DEF Ringed!Abstract!Next
<1>9. ASSUME NEW x \in Consumers, c = a, d = b, Ringed!Out' = [Ringed!Out EXCEPT ![x] = <<>>]
      PROVE  Ringed!Abstract!Next
  <2>1. Ringed!Abstract!Copied(x)
    BY <1>4, <1>5, <1>9 DEF Ringed!Abstract!Copied
  <2> QED
    BY <2>1 DEF Ringed!Abstract!Next
<1> QED
  BY <1>3, <1>6, <1>7, <1>8, <1>9 DEF Ringed!Moved

\* It starts as the bounded queue does.
LEMMA RingViewInit ==
  ASSUME Ringed!Init
  PROVE  Ringed!Abstract!Init
<1>1. Ringed!Front = 0 /\ tail = 0 /\ Ringed!Out = [c \in Consumers |-> <<>>]
  BY Fits, Ringed!StartsEmpty
<1>2. RingSeen
  BY Fits, RingShown, Ringed!Initially
<1>3. Ringed!Items = <<>>
  BY <1>1, <1>2, Cached!StretchEmpty DEF RingSeen
<1> QED
  BY <1>1, <1>3 DEF Ringed!Abstract!Init

--------------------------------------------------------------------------------
(* Ring and Ringed, Pair and Cached!Pair, Deque and Cached are instances of the *)
(* same modules: what one does the other does.                                *)

\* The tagged ring starts as its proofs say.
LEMMA RingBegins == Ring!Init => Ringed!Init
BY DEF Ring!Init, Ringed!Init, Ring!Cells, Ringed!Cells, Ring!Threads, Ringed!Threads

\* Its steps are the steps proved about.
LEMMA RingGoes == Ring!Next => Ringed!Next
<1>1. ASSUME NEW p PROVE Ring!PushCall(p) => Ringed!PushCall(p)
  BY DEF Ring!PushCall, Ringed!PushCall, Ring!Goto, Ringed!Goto
<1>2. ASSUME NEW p PROVE Ring!Pushing(p) => Ringed!Pushing(p)
  BY DEF Ring!Pushing, Ringed!Pushing, Ring!Goto, Ringed!Goto, Ring!Return, Ringed!Return, Ring!TagAt, Ringed!TagAt,
    Ring!Item, Ringed!Item, Ring!PushLoad, Ringed!PushLoad, Ring!PushTag, Ringed!PushTag, Ring!PushClaim, Ringed!PushClaim,
    Ring!PushFill, Ringed!PushFill, Ring!PushPublish, Ringed!PushPublish
<1>3. ASSUME NEW c PROVE Ring!ClaimFails(c) => Ringed!ClaimFails(c)
  BY DEF Ring!ClaimFails, Ringed!ClaimFails, Ring!Goto, Ringed!Goto
<1>4. ASSUME NEW c PROVE Ring!Popping(c) => Ringed!Popping(c)
  BY DEF Ring!Popping, Ringed!Popping, Ring!Goto, Ringed!Goto, Ring!Return, Ringed!Return, Ring!TagAt, Ringed!TagAt,
    Ring!PopCall, Ringed!PopCall, Ring!PopTag, Ringed!PopTag, Ring!PopClaim, Ringed!PopClaim,
    Ring!PopCopy, Ringed!PopCopy, Ring!PopReopen, Ringed!PopReopen
<1>5. ASSUME NEW c PROVE Ring!Draining(c) => Ringed!Draining(c)
  BY DEF Ring!Draining, Ringed!Draining, Ring!Goto, Ringed!Goto, Ring!Return, Ringed!Return, Ring!TagAt, Ringed!TagAt,
    Ring!DrainTag, Ringed!DrainTag, Ring!DrainEmpty, Ringed!DrainEmpty, Ring!DrainAdvance, Ringed!DrainAdvance,
    Ring!PopCopy, Ringed!PopCopy, Ring!PopReopen, Ringed!PopReopen, Ring!vars, Ringed!vars
<1> QED
  BY <1>1, <1>2, <1>3, <1>4, <1>5 DEF Ring!Next, Ringed!Next

\* Its items are the same.
LEMMA RingLooks == Ringed!Items = Ring!Items /\ Ringed!Out = Ring!Out
BY DEF Ringed!Items, Ring!Items, Ringed!At, Ring!At, Ringed!Front, Ring!Front, Ringed!Item, Ring!Item, Ringed!Out, Ring!Out

\* And so are its properties.
LEMMA RingSays ==
  /\ Ringed!TypeOK => Ring!TypeOK
  /\ Ringed!RefusalJustified => Ring!RefusalJustified
<1>1. Ringed!TypeOK => Ring!TypeOK
  BY DEF Ringed!TypeOK, Ring!TypeOK, Ringed!Cells, Ring!Cells, Ringed!Threads, Ring!Threads, Ringed!PCs, Ring!PCs
<1>2. Ringed!RefusalJustified => Ring!RefusalJustified
  BY DEF Ringed!RefusalJustified, Ring!RefusalJustified, Ringed!Returns, Ring!Returns, Ringed!Front, Ring!Front
<1> QED
  BY <1>1, <1>2

\* The one-to-one ring starts as its proofs say.
LEMMA PairBegins == Pair!Init => Cached!Pair!Init
BY DEF Pair!Init, Cached!Pair!Init, Pair!Cells, Cached!Pair!Cells

\* Its steps are the steps proved about.
LEMMA PairGoes == Pair!Next => Cached!Pair!Next
<1> USE DEF Pair!Go, Cached!Pair!Go, Pair!Avail, Cached!Pair!Avail, Pair!Min, Cached!Pair!Min
<1>1. Pair!PushCall \/ Pair!PushRefresh => Cached!Pair!PushCall \/ Cached!Pair!PushRefresh
  BY DEF Pair!PushCall, Cached!Pair!PushCall, Pair!PushRefresh, Cached!Pair!PushRefresh
<1>2. Pair!PushFill => Cached!Pair!PushFill
  BY DEF Pair!PushFill, Cached!Pair!PushFill, Pair!Cells, Cached!Pair!Cells
<1>3. Pair!PushPublish \/ Pair!PopCall => Cached!Pair!PushPublish \/ Cached!Pair!PopCall
  BY DEF Pair!PushPublish, Cached!Pair!PushPublish, Pair!PopCall, Cached!Pair!PopCall
<1>4. Pair!PopRefresh \/ Pair!PopCopy => Cached!Pair!PopRefresh \/ Cached!Pair!PopCopy
  BY DEF Pair!PopRefresh, Cached!Pair!PopRefresh, Pair!PopCopy, Cached!Pair!PopCopy
<1>5. Pair!PopRelease => Cached!Pair!PopRelease
  BY DEF Pair!PopRelease, Cached!Pair!PopRelease
<1>6. Pair!Clear => Cached!Pair!Clear
  BY DEF Pair!Clear, Cached!Pair!Clear, Pair!Cells, Cached!Pair!Cells
<1> QED
  BY <1>1, <1>2, <1>3, <1>4, <1>5, <1>6 DEF Pair!Next, Cached!Pair!Next

\* Its items are the same.
LEMMA PairLooks == Cached!Pair!Items = Pair!Items /\ Cached!Pair!Out = Pair!Out
BY DEF Cached!Pair!Items, Pair!Items, Cached!Pair!Front, Pair!Front, Cached!Pair!Out, Pair!Out

\* And so are its properties.
LEMMA PairSays ==
  /\ Cached!Pair!TypeOK => Pair!TypeOK
  /\ Cached!Pair!MemoryUsable => Pair!MemoryUsable
<1>1. Cached!Pair!TypeOK => Pair!TypeOK
  BY DEF Cached!Pair!TypeOK, Pair!TypeOK, Cached!Pair!Cells, Pair!Cells
<1>2. Cached!Pair!MemoryUsable => Pair!MemoryUsable
  BY DEF Cached!Pair!MemoryUsable, Pair!MemoryUsable, Cached!Pair!Front, Pair!Front
<1> QED
  BY <1>1, <1>2

\* The deque starts as its proofs say.
LEMMA DequeBegins == Deque!Init => Cached!Init
BY DEF Deque!Init, Cached!Init, Deque!MakeSeg, Cached!MakeSeg, Deque!Threads, Cached!Threads, Deque!Empty, Cached!Empty

\* Its steps are the steps proved about.
LEMMA DequeGoes == Deque!Next => Cached!Next
<1> USE DEF Deque!Goto, Cached!Goto, Deque!Return, Cached!Return, Deque!Empty, Cached!Empty, Deque!HandOut, Cached!HandOut,
      Deque!Slot, Cached!Slot, Deque!CapOf, Cached!CapOf, Deque!Current, Cached!Current,
      Deque!locals, Cached!locals, Deque!words, Cached!words
<1>1. Deque!PushSlot \/ Deque!PushPublish \/ Deque!PushFull => Cached!PushSlot \/ Cached!PushPublish \/ Cached!PushFull
  BY DEF Deque!PushSlot, Cached!PushSlot, Deque!PushPublish, Cached!PushPublish, Deque!PushFull, Cached!PushFull
<1>2. Deque!Grow => Cached!Grow
  BY DEF Deque!Grow, Cached!Grow, Deque!MakeSeg, Cached!MakeSeg
<1>3. Deque!PopDec => Cached!PopDec
  BY DEF Deque!PopDec, Cached!PopDec
<1>4. Deque!PopTop => Cached!PopTop
  BY DEF Deque!PopTop, Cached!PopTop
<1>5. Deque!PopCas \/ Deque!PopRestore => Cached!PopCas \/ Cached!PopRestore
  BY DEF Deque!PopCas, Cached!PopCas, Deque!PopRestore, Cached!PopRestore
<1>6. ASSUME NEW th PROVE Deque!Stealing(th) => Cached!Stealing(th)
  BY DEF Deque!Stealing, Cached!Stealing, Deque!StealTop, Cached!StealTop, Deque!StealBottom, Cached!StealBottom,
    Deque!StealBase, Cached!StealBase, Deque!StealSlot, Cached!StealSlot, Deque!StealTake, Cached!StealTake,
    Deque!StealLost, Cached!StealLost
<1> QED
  BY <1>1, <1>2, <1>3, <1>4, <1>5, <1>6 DEF Deque!Next, Cached!Next, Deque!Owning, Cached!Owning

\* Its items are the same.
LEMMA DequeLooks == Cached!Items = Deque!Items
BY DEF Cached!Items, Deque!Items, Cached!Back, Deque!Back, Cached!Slot, Deque!Slot, Cached!CapOf, Deque!CapOf, Cached!Current, Deque!Current

\* And so are its properties.
LEMMA DequeSays ==
  /\ Cached!TypeOK => Deque!TypeOK
  /\ Cached!NeverOverfull => Deque!NeverOverfull
  /\ Cached!EmptyAgreed => Deque!EmptyAgreed
<1>1. Cached!TypeOK => Deque!TypeOK
  BY DEF Cached!TypeOK, Deque!TypeOK, Cached!OwnerPCs, Deque!OwnerPCs, Cached!ThiefPCs, Deque!ThiefPCs, Cached!Threads, Deque!Threads
<1>2. Cached!NeverOverfull => Deque!NeverOverfull
  BY DEF Cached!NeverOverfull, Deque!NeverOverfull, Cached!Back, Deque!Back, Cached!CapOf, Deque!CapOf, Cached!Current, Deque!Current
<1>3. Cached!EmptyAgreed => Deque!EmptyAgreed
  BY DEF Cached!EmptyAgreed, Deque!EmptyAgreed
<1> QED
  BY <1>1, <1>2, <1>3

\* The tagged ring starts within its invariant.
LEMMA RingInit == Ring!Init => Ringed!IInv
BY Fits, RingBegins, Ringed!Initially

\* A step of it stays there, refuses with reason and is one of the bounded queue.
LEMMA RingStep ==
  ASSUME Ringed!IInv, Ring!Next \/ UNCHANGED Ring!vars
  PROVE  /\ Ringed!IInv' /\ Ring!RefusalJustified
         /\ Ringed!Abstract!Next \/ UNCHANGED <<Ringed!Items, Ringed!Out>>
<1>1. Ringed!Next \/ UNCHANGED Ringed!vars
  BY RingGoes DEF Ring!vars, Ringed!vars
<1>2. Ringed!IInv'
  BY <1>1, Fits, Ringed!Step
<1>3. Ring!RefusalJustified
  BY <1>1, Fits, RingSays, Ringed!Refuses
<1>4. Ringed!Abstract!Next \/ UNCHANGED <<Ringed!Items, Ringed!Out>>
  BY <1>1, <1>2, Fits, RingRefines, Ringed!StepMoves
<1> QED
  BY <1>2, <1>3, <1>4

\* The one-to-one ring starts within its invariant.
LEMMA PairInit == Pair!Init => Cached!PairIInv
BY Fits, PairBegins, Cached!PairInit

\* A step of it stays there and is one of the bounded queue.
LEMMA PairStep ==
  ASSUME Cached!PairIInv, Pair!Next \/ UNCHANGED Pair!vars
  PROVE  /\ Cached!PairIInv'
         /\ Cached!Pair!Abstract!Next \/ UNCHANGED <<Cached!Pair!Items, Cached!Pair!Out>>
<1>1. Cached!Pair!Next \/ UNCHANGED Cached!Pair!vars
  BY PairGoes DEF Pair!vars, Cached!Pair!vars
<1>2. Cached!PairIInv'
  BY <1>1, Fits, Cached!PairStep
<1>3. Cached!Pair!Abstract!Next \/ UNCHANGED <<Cached!Pair!Items, Cached!Pair!Out>>
  BY <1>1, <1>2, Fits, Cached!PairRefines
<1> QED
  BY <1>2, <1>3

\* The invariant implies the types.
LEMMA PairTypes == Cached!PairIInv => Pair!TypeOK /\ Pair!MemoryUsable
BY Fits, PairSays, Cached!PairTypes DEF Cached!PairIInv, Cached!PairCore

\* The deque starts within its invariant.
LEMMA DequeInit == Deque!Init => Cached!IInv
BY Fits, DequeBegins, Cached!Initially

\* A step of it stays there and is one of the abstract deque.
LEMMA DequeStep ==
  ASSUME Cached!IInv, Deque!Next \/ UNCHANGED Deque!vars
  PROVE  /\ Cached!IInv'
         /\ Cached!View!Next \/ UNCHANGED <<Cached!Items, taken>>
<1>1. Cached!Next \/ UNCHANGED Cached!vars
  BY DequeGoes DEF Deque!vars, Cached!vars, Deque!words, Cached!words, Deque!locals, Cached!locals
<1>2. Cached!IInv'
  BY <1>1, Fits, Cached!Step
<1>3. Cached!View!Next \/ UNCHANGED <<Cached!Items, taken>>
  BY <1>1, <1>2, Fits, Cached!DequeRefines
<1> QED
  BY <1>2, <1>3

\* The invariant implies the types and the two properties.
LEMMA DequeTypes ==
  Cached!IInv => Deque!TypeOK /\ Deque!NeverOverfull /\ Deque!EmptyAgreed
BY Fits, DequeSays, Cached!Types

--------------------------------------------------------------------------------
(* The three together: the one that was chosen keeps its invariant, and the    *)
(* variables of the others stay.                                               *)

\* The invariant of the part that was chosen.
IInv ==
  /\ part \in {"ring", "pair", "deque"}
  /\ part = "ring" => Ringed!IInv
  /\ part = "pair" => Cached!PairIInv
  /\ part = "deque" => Cached!IInv

\* It holds throughout.
LEMMA Inductive == Spec => []IInv
<1>1. Init => IInv
  BY RingInit, PairInit, DequeInit DEF Init, IInv
<1>2. IInv /\ [Next]_vars => IInv'
  <2> SUFFICES ASSUME IInv, [Next]_vars PROVE IInv'
    OBVIOUS
  <2>1. CASE part = "ring"
    <3>1. part' = "ring" /\ (Ring!Next \/ UNCHANGED Ring!vars)
      BY <2>1 DEF Next, vars, Ring!vars, ringVars, tagVars
    <3>2. Ringed!IInv'
      BY <2>1, <3>1, RingStep DEF IInv
    <3> QED
      BY <3>1, <3>2 DEF IInv
  <2>2. CASE part = "pair"
    <3>1. part' = "pair" /\ (Pair!Next \/ UNCHANGED Pair!vars)
      BY <2>2 DEF Next, vars, Pair!vars, ringVars, pairVars
    <3>2. Cached!PairIInv'
      BY <2>2, <3>1, PairStep DEF IInv
    <3> QED
      BY <3>1, <3>2 DEF IInv
  <2>3. CASE part = "deque"
    <3>1. part' = "deque" /\ (Deque!Next \/ UNCHANGED Deque!vars)
      BY <2>3 DEF Next, vars, Deque!vars, Deque!words, Deque!locals, dequeVars
    <3>2. Cached!IInv'
      BY <2>3, <3>1, DequeStep DEF IInv
    <3> QED
      BY <3>1, <3>2 DEF IInv
  <2> QED
    BY <2>1, <2>2, <2>3 DEF IInv
<1> QED
  BY <1>1, <1>2, PTL DEF Spec

\* Indices, tags, cells and places keep their types in all three queues.
THEOREM Typing == Spec => []TypeOK
<1>1. IInv => TypeOK
  <2> SUFFICES ASSUME IInv PROVE TypeOK
    OBVIOUS
  <2>1. CASE part = "ring"
    BY <2>1, RingSays DEF IInv, TypeOK, Ringed!IInv, Ringed!Shapes
  <2>2. CASE part = "pair"
    BY <2>2, PairTypes DEF IInv, TypeOK
  <2>3. CASE part = "deque"
    BY <2>3, DequeTypes DEF IInv, TypeOK
  <2> QED
    BY <2>1, <2>2, <2>3 DEF IInv
<1> QED
  BY <1>1, Inductive, PTL

\* Each side of the one-to-one ring computes with an index of the other that it
\* may have read long ago (__cached_head, __cached_tail); the differences never
\* wrap, and the room and the items they promise are there.
THEOREM Memory == Spec => []MemoryUsable
<1>1. IInv => MemoryUsable
  BY PairTypes DEF IInv, MemoryUsable
<1> QED
  BY <1>1, Inductive, PTL

\* push() and push_batch() store into slots that pop() and pop_batch() have given
\* back, and nowhere else: from head on the one-to-one ring holds the items pushed
\* last, in the order they were pushed, none missing and none twice.
THEOREM InOrder == Spec => [](part = "pair" => Cached!PairContents)
<1>1. IInv => (part = "pair" => Cached!PairContents)
  BY DEF IInv, Cached!PairIInv, Cached!PairCore
<1> QED
  BY <1>1, Inductive, PTL

\* push_bottom() judges the room by a top it loaded long ago, and thieves move top
\* meanwhile; the ring still never holds more items than it has slots, so no item
\* that a thief may win is stored over.
THEOREM Room == Spec => []NeverOverfull
<1>1. IInv => NeverOverfull
  BY DequeTypes DEF IInv, NeverOverfull
<1> QED
  BY <1>1, Inductive, PTL

\* Whoever wins the last item, pop_bottom() puts bottom back to exactly where top
\* went: the deque is empty, never one short.
THEOREM Agreement == Spec => []EmptyAgreed
<1>1. IInv => EmptyAgreed
  BY DequeTypes DEF IInv, EmptyAgreed
<1> QED
  BY <1>1, Inductive, PTL

\* The items in the deque are in the order they were pushed and have not been
\* handed out, in the current ring, however often __grow() has replaced it.
THEOREM NoneTwice == Spec => [](part = "deque" => Cached!Contents)
<1>1. IInv => (part = "deque" => Cached!Contents)
  BY DEF IInv, Cached!IInv
<1> QED
  BY <1>1, Inductive, PTL

\* push() on the tagged ring says full, and pop() empty, only with a reason.
THEOREM Refusals == Spec => RefusalsJustified
<1>1. IInv /\ [Next]_vars => [part = "ring" => Ring!RefusalJustified]_vars
  <2> SUFFICES ASSUME IInv, [Next]_vars, part = "ring" PROVE Ring!RefusalJustified
    OBVIOUS
  <2>1. Ring!Next \/ UNCHANGED Ring!vars
    BY DEF Next, vars, Ring!vars, ringVars, tagVars
  <2> QED
    BY <2>1, RingStep DEF IInv
<1> QED
  BY <1>1, Inductive, PTL DEF Spec, RefusalsJustified

\* The ring with sequence tags implements the bounded first-in first-out queue:
\* every item comes out once, in the order the positions were claimed, and no cell
\* is filled while a pop() copies its last item out.
THEOREM TaggedRing == Spec => ImplementsQueue
<1>1. Init => Tagged!Init
  BY RingBegins, RingLooks, RingViewInit DEF Init, Tagged!Init, NoOut, Ringed!Abstract!Init
<1>2. IInv /\ IInv' /\ [Next]_vars =>
        [Tagged!Next]_<<IF part = "ring" THEN Ring!Items ELSE <<>>, IF part = "ring" THEN Ring!Out ELSE NoOut(Consumers)>>
  <2> SUFFICES ASSUME IInv, IInv', [Next]_vars
               PROVE  [Tagged!Next]_<<IF part = "ring" THEN Ring!Items ELSE <<>>,
                                      IF part = "ring" THEN Ring!Out ELSE NoOut(Consumers)>>
    OBVIOUS
  <2>1. part' = part
    BY DEF Next, vars
  <2>2. CASE part = "ring"
    <3>1. Ring!Next \/ UNCHANGED Ring!vars
      BY <2>2 DEF Next, vars, Ring!vars, ringVars, tagVars
    <3>2. Ringed!Abstract!Next \/ UNCHANGED <<Ringed!Items, Ringed!Out>>
      BY <2>1, <2>2, <3>1, RingStep DEF IInv
    <3>3. (Ringed!Items = Ring!Items /\ Ringed!Out = Ring!Out)'
      BY RingLooks, PTL
    <3> QED
      BY <2>1, <2>2, <3>2, <3>3, RingLooks DEF Tagged!Next, Tagged!Put, Tagged!Take, Tagged!Copied, Tagged!Clear,
           Ringed!Abstract!Next, Ringed!Abstract!Put, Ringed!Abstract!Take, Ringed!Abstract!Copied, Ringed!Abstract!Clear
  <2>3. CASE part # "ring"
    BY <2>1, <2>3 DEF NoOut
  <2> QED
    BY <2>2, <2>3
<1> QED
  BY <1>1, <1>2, Inductive, PTL DEF Spec, ImplementsQueue, Tagged!Spec

\* The ring with one producer and one consumer implements it too, single items,
\* batches and clear() included.
THEOREM PairedRing == Spec => BatchesInOrder
<1>1. Init => Paired!Init
  BY Fits, PairBegins, PairLooks, Cached!PairViewInit DEF Init, Paired!Init, NoOut, Cached!Pair!Abstract!Init
<1>2. IInv /\ IInv' /\ [Next]_vars =>
        [Paired!Next]_<<IF part = "pair" THEN Pair!Items ELSE <<>>, IF part = "pair" THEN Pair!Out ELSE NoOut({Consumer})>>
  <2> SUFFICES ASSUME IInv, IInv', [Next]_vars
               PROVE  [Paired!Next]_<<IF part = "pair" THEN Pair!Items ELSE <<>>,
                                      IF part = "pair" THEN Pair!Out ELSE NoOut({Consumer})>>
    OBVIOUS
  <2>1. part' = part
    BY DEF Next, vars
  <2>2. CASE part = "pair"
    <3>1. Pair!Next \/ UNCHANGED Pair!vars
      BY <2>2 DEF Next, vars, Pair!vars, ringVars, pairVars
    <3>2. Cached!Pair!Abstract!Next \/ UNCHANGED <<Cached!Pair!Items, Cached!Pair!Out>>
      BY <2>1, <2>2, <3>1, PairStep DEF IInv
    <3>3. (Cached!Pair!Items = Pair!Items /\ Cached!Pair!Out = Pair!Out)'
      BY PairLooks, PTL
    <3> QED
      BY <2>1, <2>2, <3>2, <3>3, PairLooks DEF Paired!Next, Paired!Put, Paired!Take, Paired!Copied, Paired!Clear,
           Cached!Pair!Abstract!Next, Cached!Pair!Abstract!Put, Cached!Pair!Abstract!Take,
           Cached!Pair!Abstract!Copied, Cached!Pair!Abstract!Clear
  <2>3. CASE part # "pair"
    BY <2>1, <2>3 DEF NoOut
  <2> QED
    BY <2>2, <2>3
<1> QED
  BY <1>1, <1>2, Inductive, PTL DEF Spec, BatchesInOrder, Paired!Spec

\* The work-stealing deque implements the abstract one: pop_bottom() takes the
\* last item, try_steal() the first, and each is handed out once, although a thief
\* reads the slot before it wins, from a ring that may have been replaced.
THEOREM StealingDeque == Spec => ImplementsDeque
<1>1. Init => Stolen!Init
  <2> SUFFICES ASSUME Init PROVE Stolen!Init
    OBVIOUS
  <2>1. CASE part = "deque"
    BY <2>1, Fits, DequeBegins, DequeLooks, Cached!DequeViewInit DEF Init, Stolen!Init, Cached!View!Init
  <2>2. CASE part # "deque"
    <3>1. taken = <<>>
      BY <2>2 DEF Init, NoDeque
    <3>2. taken = [x \in DOMAIN taken |-> 0]
      BY <3>1
    <3> QED
      BY <2>2, <3>2 DEF Stolen!Init
  <2> QED
    BY <2>1, <2>2
<1>2. IInv /\ IInv' /\ [Next]_vars => [Stolen!Next]_<<IF part = "deque" THEN Deque!Items ELSE <<>>, taken>>
  <2> SUFFICES ASSUME IInv, IInv', [Next]_vars
               PROVE  [Stolen!Next]_<<IF part = "deque" THEN Deque!Items ELSE <<>>, taken>>
    OBVIOUS
  <2>1. part' = part
    BY DEF Next, vars
  <2>2. CASE part = "deque"
    <3>1. Deque!Next \/ UNCHANGED Deque!vars
      BY <2>2 DEF Next, vars, Deque!vars, Deque!words, Deque!locals, dequeVars
    <3>2. Cached!View!Next \/ UNCHANGED <<Cached!Items, taken>>
      BY <2>1, <2>2, <3>1, DequeStep DEF IInv
    <3>3. (Cached!Items = Deque!Items)'
      BY DequeLooks, PTL
    <3> QED
      BY <2>1, <2>2, <3>2, <3>3, DequeLooks DEF Stolen!Next, Stolen!Put, Stolen!Pop, Stolen!Steal, Stolen!HandOut,
           Cached!View!Next, Cached!View!Put, Cached!View!Pop, Cached!View!Steal, Cached!View!HandOut
  <2>3. CASE part # "deque"
    <3>1. taken' = taken
      BY <2>3 DEF Next, vars, dequeVars
    <3> QED
      BY <2>1, <2>3, <3>1
  <2> QED
    BY <2>2, <2>3
<1> QED
  BY <1>1, <1>2, Inductive, PTL DEF Spec, ImplementsDeque, Stolen!Spec
================================================================================
