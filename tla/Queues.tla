-------------------------------- MODULE Queues ---------------------------------
(***************************************************************************)
(* The lock-free queues side by side: the ring with sequence tags, the ring *)
(* with one producer and one consumer, and the work-stealing deque.  The    *)
(* initial state chooses one of them and its variant; the variables of the  *)
(* others stay at zero.                                                     *)
(***************************************************************************)
EXTENDS Integers, Sequences

CONSTANTS
  Producers, Consumers,       \* of the tagged ring; the consumers are the deque's thieves
  Producer, Consumer,         \* of the one-to-one ring; the deque's owner, the allocator's drain
  RingCap, PairCap, DequeCap,
  Nothing,
  MaxPushes,                  \* bound on the pushes of a producer of the tagged ring
  MaxBatch,                   \* bound on the size of a batch
  MaxPairItems, MaxDequeItems \* bounds on the items of the other two

\* A ring has slots and no thread is on both sides.  The tagged ring has two: the
\* code lets a capacity of one through, and MpmcRing alone shows what it does then.
ASSUME Sizes ==
  /\ RingCap \in Nat \ {0, 1} /\ PairCap \in Nat \ {0} /\ DequeCap \in Nat \ {0}
  /\ {MaxPushes, MaxBatch, MaxPairItems, MaxDequeItems} \subseteq Nat
  /\ Producers \cap Consumers = {} /\ Producer \notin Consumers /\ Consumer \in Consumers

VARIABLES
  part, variant, pc,
  tail, head, cell,                                     \* both rings
  tag, pos, pushes,                                     \* tagged ring
  cachedHead, cachedTail, count,                        \* one-to-one ring
  pushed,                                               \* one-to-one ring and deque
  bottom, top, topCache, rings, t, ring, val, taken     \* deque

ringVars == <<tail, head, cell>>
tagVars == <<tag, pos, pushes>>
pairVars == <<cachedHead, cachedTail, count>>
dequeVars == <<bottom, top, topCache, rings, t, ring, val, taken>>
vars == <<part, variant, pc, ringVars, tagVars, pairVars, pushed, dequeVars>>

Ring == INSTANCE MpmcRing WITH Drainer <- Consumer, Cap <- RingCap, single <- variant
Pair == INSTANCE SpscRing WITH Cap <- PairCap, MaxItems <- MaxPairItems, caches <- variant
Deque == INSTANCE ChaseLev
           WITH Owner <- Producer, Thieves <- Consumers, InitCap <- DequeCap,
                MaxItems <- MaxDequeItems, grows <- variant

--------------------------------------------------------------------------------
NoTags == tag = <<>> /\ pos = <<>> /\ pushes = <<>>
NoRing == tail = 0 /\ head = 0 /\ cell = <<>>
NoPair == cachedHead = 0 /\ cachedTail = 0 /\ count = <<>>
NoPushed == pushed = 0
NoDeque ==
  /\ bottom = 0 /\ top = 0 /\ topCache = 0 /\ rings = <<>>
  /\ t = <<>> /\ ring = <<>> /\ val = <<>> /\ taken = <<>>

Init ==
  \/ part = "ring" /\ Ring!Init /\ NoPair /\ NoPushed /\ NoDeque
  \/ part = "pair" /\ Pair!Init /\ NoTags /\ NoDeque
  \/ part = "deque" /\ Deque!Init /\ NoRing /\ NoTags /\ NoPair

Next ==
  \/ part = "ring" /\ Ring!Next /\ UNCHANGED <<part, pairVars, pushed, dequeVars>>
  \/ part = "pair" /\ Pair!Next /\ UNCHANGED <<part, tagVars, dequeVars>>
  \/ part = "deque" /\ Deque!Next /\ UNCHANGED <<part, ringVars, tagVars, pairVars>>

Spec == Init /\ [][Next]_vars

--------------------------------------------------------------------------------
(* The properties of the queues. *)

TypeOK ==
  CASE part = "ring"  -> Ring!TypeOK
    [] part = "pair"  -> Pair!TypeOK
    [] part = "deque" -> Deque!TypeOK

NoOut(cs) == [c \in cs |-> <<>>]

Tagged == INSTANCE QueueSpec
            WITH Cap <- RingCap,
                 items <- IF part = "ring" THEN Ring!Items ELSE <<>>,
                 out <- IF part = "ring" THEN Ring!Out ELSE NoOut(Consumers)

\* The ring with sequence tags implements the bounded queue, with several
\* consumers and in the allocator's form with one.
ImplementsQueue == Tagged!Spec

\* push() and pop() on the tagged ring refuse only with a reason.
RefusalsJustified == [][part = "ring" => Ring!RefusalJustified]_vars

Paired == INSTANCE QueueSpec
            WITH Consumers <- {Consumer}, Cap <- PairCap,
                 items <- IF part = "pair" THEN Pair!Items ELSE <<>>,
                 out <- IF part = "pair" THEN Pair!Out ELSE NoOut({Consumer})

\* The ring with one producer and one consumer implements the bounded queue,
\* with single items, batches and clear().
BatchesInOrder == Paired!Spec

\* The remembered indices of the one-to-one ring are safe to compute with.
MemoryUsable == part = "pair" => Pair!MemoryUsable

Stolen == INSTANCE DequeSpec
            WITH items <- IF part = "deque" THEN Deque!Items ELSE <<>>

\* The deque implements the abstract one: LIFO for the owner, FIFO for thieves,
\* and each item handed out once, although a thief reads the slot before it
\* wins the exchange, and although the ring may have been replaced meanwhile.
ImplementsDeque == Stolen!Spec

\* No slot of the deque is stored over that a thief may still win, however stale
\* the top is that the owner remembers.
NeverOverfull == part = "deque" => Deque!NeverOverfull

\* A pop_bottom() that ends empty leaves top and bottom in agreement.
EmptyAgreed == part = "deque" => Deque!EmptyAgreed
================================================================================
