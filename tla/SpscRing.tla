------------------------------- MODULE SpscRing --------------------------------
(***************************************************************************)
(* queue/spsc_queue.hpp and queue/disruptor.hpp: the ring with one producer *)
(* and one consumer.  Each side owns one index and looks at the other's     *)
(* only when the value it saw last does not do; the disruptor's consumer    *)
(* looks every time.  Batches move several items with one store.            *)
(***************************************************************************)
EXTENDS Integers, Sequences, FiniteSetsExt

CONSTANTS
  Producer, Consumer,
  Cap,          \* a power of two
  MaxBatch,     \* bound on the size of a batch
  MaxItems      \* bound on the items pushed

VARIABLES
  caches,       \* the consumer keeps cachedTail (spsc_queue) or not (disruptor)
  head, tail,
  cachedHead,   \* the producer's
  cachedTail,   \* the consumer's
  cell, pc,
  count,        \* how many items a side wants, then how many it moves
  pushed        \* items pushed so far; the n-th is the number n

vars == <<caches, head, tail, cachedHead, cachedTail, cell, pc, count, pushed>>

Cells == 0 .. Cap - 1

Go(t, l, n) ==
  /\ pc' = [pc EXCEPT ![t] = l]
  /\ count' = [count EXCEPT ![t] = n]

Init ==
  /\ caches \in BOOLEAN
  /\ head = 0 /\ tail = 0 /\ cachedHead = 0 /\ cachedTail = 0
  /\ cell = [i \in Cells |-> 0]
  /\ pc = [t \in {Producer, Consumer} |-> "idle"]
  /\ count = [t \in {Producer, Consumer} |-> 0]
  /\ pushed = 0

--------------------------------------------------------------------------------
(* push(), emplace(), push_batch(); publish(), try_publish_batch(). *)

Avail(h) == Cap - (tail - h)

PushCall ==
  \E n \in 1 .. MaxBatch :
    /\ pc[Producer] = "idle"
    /\ pushed + n <= MaxItems
    /\ Go(Producer, IF Avail(cachedHead) < n THEN "refresh" ELSE "fill", n)
    /\ UNCHANGED <<caches, head, tail, cachedHead, cachedTail, cell, pushed>>

\* The cached head leaves too little room: look at head, push what fits.
PushRefresh ==
  LET n == Min({Avail(head), count[Producer]})
  IN  /\ pc[Producer] = "refresh"
      /\ cachedHead' = head
      /\ Go(Producer, IF n = 0 THEN "idle" ELSE "fill", n)
      /\ UNCHANGED <<caches, head, tail, cachedTail, cell, pushed>>

PushFill ==
  /\ pc[Producer] = "fill"
  /\ cell' = [i \in Cells |->
       IF \E k \in 1 .. count[Producer] : (tail + k - 1) % Cap = i
       THEN pushed + (CHOOSE k \in 1 .. count[Producer] : (tail + k - 1) % Cap = i)
       ELSE cell[i]]
  /\ pushed' = pushed + count[Producer]
  /\ Go(Producer, "publish", count[Producer])
  /\ UNCHANGED <<caches, head, tail, cachedHead, cachedTail>>

PushPublish ==
  /\ pc[Producer] = "publish"
  /\ tail' = tail + count[Producer]
  /\ Go(Producer, "idle", 0)
  /\ UNCHANGED <<caches, head, cachedHead, cachedTail, cell, pushed>>

--------------------------------------------------------------------------------
(* pop(), pop_batch(); consume(), try_consume_batch(). *)

PopCall ==
  \E n \in 1 .. MaxBatch :
    /\ pc[Consumer] = "idle"
    /\ Go(Consumer, IF caches /\ cachedTail - head >= n THEN "copy" ELSE "refresh", n)
    /\ UNCHANGED <<caches, head, tail, cachedHead, cachedTail, cell, pushed>>

\* Mutated form: a batch that is only partly there is taken whole.
PopRefreshGreedy ==
  /\ pc[Consumer] = "refresh"
  /\ cachedTail' = IF caches THEN tail ELSE 0
  /\ Go(Consumer, IF tail = head THEN "idle" ELSE "copy", IF tail = head THEN 0 ELSE count[Consumer])
  /\ UNCHANGED <<caches, head, tail, cachedHead, cell, pushed>>

\* The tail remembered does not do: look at tail, pop what is there.
PopRefresh ==
  LET n == Min({tail - head, count[Consumer]})
  IN  /\ pc[Consumer] = "refresh"
      /\ cachedTail' = IF caches THEN tail ELSE 0
      /\ Go(Consumer, IF n = 0 THEN "idle" ELSE "copy", n)
      /\ UNCHANGED <<caches, head, tail, cachedHead, cell, pushed>>

PopCopy ==
  /\ pc[Consumer] = "copy"
  /\ Go(Consumer, "release", count[Consumer])
  /\ UNCHANGED <<caches, head, tail, cachedHead, cachedTail, cell, pushed>>

PopRelease ==
  /\ pc[Consumer] = "release"
  /\ head' = head + count[Consumer]
  /\ Go(Consumer, "idle", 0)
  /\ UNCHANGED <<caches, tail, cachedHead, cachedTail, cell, pushed>>

--------------------------------------------------------------------------------
\* Mutated form: clear() forgets the producer's copy of head.
ClearStale ==
  /\ \A t \in {Producer, Consumer} : pc[t] = "idle"
  /\ head' = 0 /\ tail' = 0 /\ cachedTail' = 0
  /\ cell' = [i \in Cells |-> 0]
  /\ UNCHANGED <<caches, cachedHead, pc, count, pushed>>

\* clear(), with neither side at work: everything back to zero.
Clear ==
  /\ \A t \in {Producer, Consumer} : pc[t] = "idle"
  /\ head' = 0 /\ tail' = 0 /\ cachedHead' = 0 /\ cachedTail' = 0
  /\ cell' = [i \in Cells |-> 0]
  /\ UNCHANGED <<caches, pc, count, pushed>>

Next ==
  \/ PushCall \/ PushRefresh \/ PushFill \/ PushPublish
  \/ PopCall \/ PopRefresh \/ PopCopy \/ PopRelease
  \/ Clear

Spec == Init /\ [][Next]_vars

--------------------------------------------------------------------------------
(* Properties. *)

TypeOK ==
  /\ caches \in BOOLEAN
  /\ {head, tail, cachedHead, cachedTail, pushed} \subseteq 0 .. MaxItems
  /\ cell \in [Cells -> 0 .. MaxItems]
  /\ pc[Producer] \in {"idle", "refresh", "fill", "publish"}
  /\ pc[Consumer] \in {"idle", "refresh", "copy", "release"}
  /\ count \in [{Producer, Consumer} -> 0 .. MaxBatch]

\* The consumer has its items as soon as it knows that they are there.
Front == IF pc[Consumer] \in {"copy", "release"} THEN head + count[Consumer] ELSE head

Items == [k \in 1 .. tail - Front |-> cell[(Front + k - 1) % Cap]]

Out ==
  [c \in {Consumer} |->
     IF pc[Consumer] = "copy"
     THEN [k \in 1 .. count[Consumer] |-> cell[(head + k - 1) % Cap]]
     ELSE <<>>]

Abstract == INSTANCE QueueSpec WITH Consumers <- {Consumer}, items <- Items, out <- Out

\* The ring implements the bounded queue, whatever each side remembers of the
\* other's index and however pushes and pops of different sizes overlap.
ImplementsQueue == Abstract!Spec

\* What a side remembers of the other's index is never ahead of it and never a
\* lap behind: the subtractions of unsigned indices do not wrap, and the room
\* computed from a stale index is there.
MemoryUsable ==
  /\ cachedHead <= head /\ head <= tail /\ tail - cachedHead <= Cap
  /\ caches => Front <= cachedTail /\ cachedTail <= tail
================================================================================
