------------------------------- MODULE MpmcRing --------------------------------
(***************************************************************************)
(* queue/crossbeam.hpp, queue/static_mpmc.hpp and the allocator's           *)
(* mpsc_free.hpp: the bounded ring whose cells carry sequence tags.  A cell *)
(* tagged pos is open for the push at position pos, tagged pos + 1 it holds *)
(* what that push put in, and pos + capacity opens it for the next lap.     *)
(*                                                                          *)
(* The three differ in little.  A failed exchange gives static_mpmc the new *)
(* position at once and crossbeam after a reload, which is the step here.   *)
(* The allocator's queue has one consumer, with a plain head index.         *)
(***************************************************************************)
EXTENDS Integers, Sequences

CONSTANTS
  Producers, Consumers,
  Drainer,        \* the consumer of the one-consumer form
  Cap,            \* a power of two
  MaxPushes,      \* bound on the pushes of a producer
  Nothing         \* what a cell holds before its first push

VARIABLES
  single,         \* the one-consumer form (mpsc_free)
  tail, head,
  tag, cell,      \* per cell: the sequence tag, the payload
  pc,
  pos,            \* the position a thread is trying for, or has claimed
  pushes          \* how often each producer has pushed

vars == <<single, tail, head, tag, cell, pc, pos, pushes>>

Threads == Producers \cup Consumers
Cells == 0 .. Cap - 1

Goto(t, l) == pc' = [pc EXCEPT ![t] = l]

Return(t) == Goto(t, "idle") /\ pos' = [pos EXCEPT ![t] = 0]

\* The item a producer is pushing, copied, moved or constructed in its cell.
Item(p) == <<p, pushes[p]>>

TagAt(i) == tag[i % Cap]

Init ==
  /\ single \in BOOLEAN
  /\ tail = 0 /\ head = 0
  /\ tag = [i \in Cells |-> i]
  /\ cell = [i \in Cells |-> Nothing]
  /\ pc = [t \in Threads |-> "idle"]
  /\ pos = [t \in Threads |-> 0]
  /\ pushes = [p \in Producers |-> 0]

--------------------------------------------------------------------------------
(* push(), emplace(). *)

PushCall(p) ==
  /\ pc[p] = "idle"
  /\ pushes[p] < MaxPushes
  /\ pushes' = [pushes EXCEPT ![p] = @ + 1]
  /\ pos' = [pos EXCEPT ![p] = tail]
  /\ Goto(p, "tag")
  /\ UNCHANGED <<single, tail, head, tag, cell>>

PushLoad(p) ==
  /\ pc[p] = "load"
  /\ pos' = [pos EXCEPT ![p] = tail]
  /\ Goto(p, "tag")
  /\ UNCHANGED <<single, tail, head, tag, cell, pushes>>

\* Mutated form: any tag but the expected one is taken for a full ring.
PushTagImpatient(p) ==
  /\ pc[p] = "tag"
  /\ \/ TagAt(pos[p]) = pos[p] /\ Goto(p, "claim") /\ UNCHANGED pos
     \/ TagAt(pos[p]) # pos[p] /\ Return(p)
  /\ UNCHANGED <<single, tail, head, tag, cell, pushes>>

\* The tag says: open, still in use a lap behind (full), or already taken.
PushTag(p) ==
  /\ pc[p] = "tag"
  /\ \/ TagAt(pos[p]) = pos[p] /\ Goto(p, "claim") /\ UNCHANGED pos
     \/ TagAt(pos[p]) < pos[p] /\ Return(p)
     \/ TagAt(pos[p]) > pos[p] /\ Goto(p, "load") /\ UNCHANGED pos
  /\ UNCHANGED <<single, tail, head, tag, cell, pushes>>

\* Mutated form: the position is taken without comparing.
PushClaimBlind(p) ==
  /\ pc[p] = "claim"
  /\ tail' = tail + 1
  /\ Goto(p, "fill")
  /\ UNCHANGED <<single, head, tag, cell, pos, pushes>>

PushClaim(p) ==
  /\ pc[p] = "claim"
  /\ IF tail = pos[p]
     THEN tail' = tail + 1 /\ Goto(p, "fill")
     ELSE UNCHANGED tail /\ Goto(p, "load")
  /\ UNCHANGED <<single, head, tag, cell, pos, pushes>>

\* The weak exchange fails for no reason.
ClaimFails(t) ==
  /\ pc[t] = "claim"
  /\ Goto(t, "load")
  /\ UNCHANGED <<single, tail, head, tag, cell, pos, pushes>>

PushFill(p) ==
  /\ pc[p] = "fill"
  /\ cell' = [cell EXCEPT ![pos[p] % Cap] = Item(p)]
  /\ Goto(p, "publish")
  /\ UNCHANGED <<single, tail, head, tag, pos, pushes>>

PushPublish(p) ==
  /\ pc[p] = "publish"
  /\ tag' = [tag EXCEPT ![pos[p] % Cap] = pos[p] + 1]
  /\ Return(p)
  /\ UNCHANGED <<single, tail, head, cell, pushes>>

--------------------------------------------------------------------------------
(* pop() with several consumers. *)

PopCall(c) ==
  /\ pc[c] \in {"idle", "load"}
  /\ ~single
  /\ pos' = [pos EXCEPT ![c] = head]
  /\ Goto(c, "tag")
  /\ UNCHANGED <<single, tail, head, tag, cell, pushes>>

PopTag(c) ==
  /\ pc[c] = "tag"
  /\ \/ TagAt(pos[c]) = pos[c] + 1 /\ Goto(c, "claim") /\ UNCHANGED pos
     \/ TagAt(pos[c]) < pos[c] + 1 /\ Return(c)
     \/ TagAt(pos[c]) > pos[c] + 1 /\ Goto(c, "load") /\ UNCHANGED pos
  /\ UNCHANGED <<single, tail, head, tag, cell, pushes>>

PopClaim(c) ==
  /\ pc[c] = "claim"
  /\ IF head = pos[c]
     THEN head' = head + 1 /\ Goto(c, "copy")
     ELSE UNCHANGED head /\ Goto(c, "load")
  /\ UNCHANGED <<single, tail, tag, cell, pos, pushes>>

PopCopy(c) ==
  /\ pc[c] = "copy"
  /\ Goto(c, "reopen")
  /\ UNCHANGED <<single, tail, head, tag, cell, pos, pushes>>

PopReopen(c) ==
  /\ pc[c] = "reopen"
  /\ tag' = [tag EXCEPT ![pos[c] % Cap] = pos[c] + Cap]
  /\ IF single THEN Goto(c, "advance") /\ UNCHANGED pos ELSE Return(c)
  /\ UNCHANGED <<single, tail, head, cell, pushes>>

(* pop() of the one-consumer form, and drain(), which repeats it. *)

DrainTag(c) ==
  /\ pc[c] = "idle"
  /\ single
  /\ TagAt(head) = head + 1
  /\ pos' = [pos EXCEPT ![c] = head]
  /\ Goto(c, "copy")
  /\ UNCHANGED <<single, tail, head, tag, cell, pushes>>

\* Nothing there, or not published yet: false.
DrainEmpty(c) ==
  /\ pc[c] = "idle"
  /\ single
  /\ TagAt(head) # head + 1
  /\ UNCHANGED vars

DrainAdvance(c) ==
  /\ pc[c] = "advance"
  /\ head' = pos[c] + 1
  /\ Return(c)
  /\ UNCHANGED <<single, tail, tag, cell, pushes>>

--------------------------------------------------------------------------------
Pushing(p) ==
  \/ PushLoad(p) \/ PushTag(p) \/ PushClaim(p) \/ PushFill(p) \/ PushPublish(p)

Popping(c) == PopCall(c) \/ PopTag(c) \/ PopClaim(c) \/ PopCopy(c) \/ PopReopen(c)

Draining(c) == DrainTag(c) \/ DrainEmpty(c) \/ PopCopy(c) \/ PopReopen(c) \/ DrainAdvance(c)

Next ==
  \/ \E p \in Producers : PushCall(p) \/ Pushing(p) \/ ClaimFails(p)
  \/ \E c \in Consumers : Popping(c) \/ ClaimFails(c)
  \/ Draining(Drainer)

Spec == Init /\ [][Next]_vars

--------------------------------------------------------------------------------
(* Properties. *)

PCs == {"idle", "load", "tag", "claim", "fill", "publish", "copy", "reopen", "advance"}

TypeOK ==
  /\ single \in BOOLEAN
  /\ {tail, head} \subseteq Nat
  /\ tag \in [Cells -> Nat]
  /\ \A i \in Cells : cell[i] = Nothing \/ cell[i] \in Producers \X (1 .. MaxPushes)
  /\ pc \in [Threads -> PCs]
  /\ pos \in [Threads -> Nat]
  /\ pushes \in [Producers -> 0 .. MaxPushes]

\* The one consumer has its item as soon as it has seen the tag.
Front == IF pc[Drainer] \in {"copy", "reopen", "advance"} /\ single THEN head + 1 ELSE head

\* The item at a claimed position: in the cell, or still in the producer's hands.
At(i) ==
  IF \E p \in Producers : pc[p] = "fill" /\ pos[p] = i
  THEN Item(CHOOSE p \in Producers : pc[p] = "fill" /\ pos[p] = i)
  ELSE cell[i % Cap]

Items == [k \in 1 .. tail - Front |-> At(Front + k - 1)]

Out == [c \in Consumers |-> IF pc[c] = "copy" THEN <<cell[pos[c] % Cap]>> ELSE <<>>]

Abstract == INSTANCE QueueSpec WITH items <- Items, out <- Out

\* The ring implements the bounded queue: every item comes out once and in the
\* order of the claims, no cell is filled while its last item is being copied
\* out, and no more is claimed than the capacity.
ImplementsQueue == Abstract!Spec

Returns(t) == pc[t] = "tag" /\ pc'[t] = "idle"

\* push() says full only when the ring is, or when a consumer still has the
\* very cell in hand; pop() says empty only when it is, or when a producer has
\* claimed the very cell and not yet published it.
RefusalJustified ==
  /\ \A p \in Producers : Returns(p) =>
       \/ tail - Front = Cap
       \/ \E c \in Consumers : pc[c] \in {"copy", "reopen"} /\ pos[c] = pos[p] - Cap
  /\ \A c \in Consumers : Returns(c) =>
       \/ tail = Front
       \/ \E p \in Producers : pc[p] \in {"fill", "publish"} /\ pos[p] = pos[c]

RefusalsJustified == [][RefusalJustified]_vars

\* The tests "push full returns false": there never is more in the ring than
\* capacity() says.
CapacityHolds == tail - Front <= Cap
================================================================================
