------------------------------- MODULE ChaseLev --------------------------------
(***************************************************************************)
(* queue/chase_lev.hpp: the work-stealing deque of the coroutine scheduler, *)
(* chase_lev with a fixed ring and chase_lev_grow, which doubles the ring.  *)
(*                                                                          *)
(* The owner pushes and pops at bottom, thieves take at top.  The ring's    *)
(* slots are written by the owner only, so its own reads of them need no    *)
(* steps of their own; every other load, store and exchange is an action.   *)
(* The indices are 64 bits wide and do not wrap.                            *)
(***************************************************************************)
EXTENDS Integers, Sequences

CONSTANTS
  Owner, Thieves,
  InitCap,      \* capacity of the first ring
  MaxItems      \* bound on the pushes

VARIABLES
  grows,        \* chase_lev_grow or chase_lev
  bottom, top, topCache,
  rings,        \* the rings made so far; the last is the current one
  pc,
  t,            \* the value of top a thread loaded
  ring,         \* the ring a thief loaded
  val,          \* the item a thread read from a slot
  pushed,       \* how many items were pushed; the n-th item is the number n
  taken         \* how often each item was handed out

words == <<bottom, top, topCache, rings>>
locals == <<t, ring, val>>
vars == <<grows, words, pc, locals, pushed, taken>>

Threads == Thieves \cup {Owner}

Empty == 0
CapOf(r) == Len(rings[r])
Slot(r, i) == rings[r][(i % CapOf(r)) + 1]
Current == Len(rings)

Goto(th, l) == pc' = [pc EXCEPT ![th] = l]

\* A call returns: its locals are gone.
Return(th) ==
  /\ Goto(th, "idle")
  /\ t' = [t EXCEPT ![th] = 0]
  /\ ring' = [ring EXCEPT ![th] = 0]
  /\ val' = [val EXCEPT ![th] = Empty]

HandOut(x) == taken' = [taken EXCEPT ![x] = @ + 1]

\* A fresh ring of n slots.
MakeSeg(n) == [i \in 1 .. n |-> Empty]

Init ==
  /\ grows \in BOOLEAN
  /\ bottom = 0 /\ top = 0 /\ topCache = 0
  /\ rings = <<MakeSeg(InitCap)>>
  /\ pc = [th \in Threads |-> "idle"]
  /\ t = [th \in Threads |-> 0]
  /\ ring = [th \in Threads |-> 0]
  /\ val = [th \in Threads |-> Empty]
  /\ pushed = 0
  /\ taken = [x \in 1 .. MaxItems |-> 0]

--------------------------------------------------------------------------------
(* push_bottom(). *)

\* By the cached top there is room: the slot is stored.
PushSlot ==
  /\ \/ pc[Owner] = "idle" /\ bottom - topCache < CapOf(Current)
     \/ pc[Owner] = "room"
  /\ pushed < MaxItems
  /\ pushed' = pushed + 1
  /\ rings' = [rings EXCEPT ![Current] =
                 [@ EXCEPT ![(bottom % CapOf(Current)) + 1] = pushed + 1]]
  /\ Goto(Owner, "publish")
  /\ UNCHANGED <<grows, bottom, top, topCache, locals, taken>>

PushPublish ==
  /\ pc[Owner] = "publish"
  /\ bottom' = bottom + 1
  /\ Return(Owner)
  /\ UNCHANGED <<grows, top, topCache, rings, pushed, taken>>

\* Mutated form: the ring is taken for full one item too late.
PushFullLate ==
  /\ pc[Owner] = "idle"
  /\ pushed < MaxItems
  /\ bottom - topCache >= CapOf(Current)
  /\ topCache' = top
  /\ Goto(Owner, IF bottom - top <= CapOf(Current) THEN "room"
                 ELSE IF grows THEN "grow" ELSE "idle")
  /\ UNCHANGED <<grows, bottom, top, rings, locals, pushed, taken>>

\* __push_full: look at top; with no room, double the ring or refuse.
PushFull ==
  /\ pc[Owner] = "idle"
  /\ pushed < MaxItems
  /\ bottom - topCache >= CapOf(Current)
  /\ topCache' = top
  /\ Goto(Owner, IF bottom - top < CapOf(Current) THEN "room"
                 ELSE IF grows THEN "grow" ELSE "idle")
  /\ UNCHANGED <<grows, bottom, top, rings, locals, pushed, taken>>

\* Mutated form: the slots are copied in place, although their index changes.
GrowByIndex ==
  /\ pc[Owner] = "grow"
  /\ rings' = Append(rings, rings[Current] \o MakeSeg(CapOf(Current)))
  /\ Goto(Owner, "room")
  /\ UNCHANGED <<grows, bottom, top, topCache, locals, pushed, taken>>

\* __grow: the items between the top loaded and bottom move to a ring twice as
\* large; the old ring stays, thieves may still be reading it.
Grow ==
  LET cap == 2 * CapOf(Current)
      live == topCache .. bottom - 1
  IN  /\ pc[Owner] = "grow"
      /\ rings' = Append(rings, [k \in 1 .. cap |->
                    IF \E i \in live : i % cap = k - 1
                    THEN Slot(Current, CHOOSE i \in live : i % cap = k - 1)
                    ELSE MakeSeg(cap)[k]])
      /\ Goto(Owner, "room")
      /\ UNCHANGED <<grows, bottom, top, topCache, locals, pushed, taken>>

--------------------------------------------------------------------------------
(* pop_bottom(). *)

\* bottom is taken back first, so that thieves see it before top is read.
PopDec ==
  /\ pc[Owner] = "idle"
  /\ bottom' = bottom - 1
  /\ Goto(Owner, "poptop")
  /\ UNCHANGED <<grows, top, topCache, rings, locals, pushed, taken>>

\* Mutated form: the last item is popped without the exchange.
PopTopGreedy ==
  /\ pc[Owner] = "poptop"
  /\ \/ /\ bottom >= top
        /\ HandOut(Slot(Current, bottom))
        /\ Return(Owner)
     \/ /\ bottom < top
        /\ Goto(Owner, "restore")
        /\ UNCHANGED <<locals, taken>>
  /\ UNCHANGED <<grows, words, pushed>>

\* Two or more items: the last is the owner's.  One: it is contended.  None.
PopTop ==
  /\ pc[Owner] = "poptop"
  /\ \/ /\ bottom > top
        /\ HandOut(Slot(Current, bottom))
        /\ Return(Owner)
     \/ /\ bottom = top
        /\ t' = [t EXCEPT ![Owner] = top]
        /\ val' = [val EXCEPT ![Owner] = Slot(Current, bottom)]
        /\ Goto(Owner, "popcas")
        /\ UNCHANGED <<ring, taken>>
     \/ /\ bottom < top
        /\ Goto(Owner, "restore")
        /\ UNCHANGED <<locals, taken>>
  /\ UNCHANGED <<grows, words, pushed>>

\* Mutated form: the exchange is the weak one, which may fail for no reason.
PopCasWeak ==
  /\ pc[Owner] = "popcas"
  /\ \/ top = t[Owner] /\ top' = top + 1 /\ HandOut(val[Owner])
     \/ UNCHANGED <<top, taken>>
  /\ Goto(Owner, "restore")
  /\ UNCHANGED <<grows, bottom, topCache, rings, locals, pushed>>

\* __pop_cold: the last item goes to whoever moves top.
PopCas ==
  /\ pc[Owner] = "popcas"
  /\ IF top = t[Owner]
     THEN top' = top + 1 /\ HandOut(val[Owner])
     ELSE UNCHANGED <<top, taken>>
  /\ Goto(Owner, "restore")
  /\ UNCHANGED <<grows, bottom, topCache, rings, locals, pushed>>

PopRestore ==
  /\ pc[Owner] = "restore"
  /\ bottom' = bottom + 1
  /\ Return(Owner)
  /\ UNCHANGED <<grows, top, topCache, rings, pushed, taken>>

--------------------------------------------------------------------------------
(* try_steal(). *)

StealTop(th) ==
  /\ pc[th] = "idle"
  /\ t' = [t EXCEPT ![th] = top]
  /\ Goto(th, "bottom")
  /\ UNCHANGED <<grows, words, ring, val, pushed, taken>>

StealBottom(th) ==
  /\ pc[th] = "bottom"
  /\ IF bottom <= t[th] THEN Return(th) ELSE Goto(th, "base") /\ UNCHANGED locals
  /\ UNCHANGED <<grows, words, pushed, taken>>

\* __take_top: load the ring, load the slot, exchange top.
StealBase(th) ==
  /\ pc[th] = "base"
  /\ ring' = [ring EXCEPT ![th] = Current]
  /\ Goto(th, "slot")
  /\ UNCHANGED <<grows, words, t, val, pushed, taken>>

StealSlot(th) ==
  /\ pc[th] = "slot"
  /\ val' = [val EXCEPT ![th] = Slot(ring[th], t[th])]
  /\ Goto(th, "take")
  /\ UNCHANGED <<grows, words, t, ring, pushed, taken>>

StealTake(th) ==
  /\ pc[th] = "take"
  /\ top = t[th]
  /\ top' = top + 1
  /\ HandOut(val[th])
  /\ Return(th)
  /\ UNCHANGED <<grows, bottom, topCache, rings, pushed>>

\* Another took it, or the weak exchange failed for no reason.
StealLost(th) ==
  /\ pc[th] = "take"
  /\ Return(th)
  /\ UNCHANGED <<grows, words, pushed, taken>>

--------------------------------------------------------------------------------
Owning ==
  \/ PushSlot \/ PushPublish \/ PushFull \/ Grow
  \/ PopDec \/ PopTop \/ PopCas \/ PopRestore

Stealing(th) ==
  \/ StealTop(th) \/ StealBottom(th) \/ StealBase(th) \/ StealSlot(th)
  \/ StealTake(th) \/ StealLost(th)

Next == Owning \/ \E th \in Thieves : Stealing(th)

Spec == Init /\ [][Next]_vars

--------------------------------------------------------------------------------
(* Properties. *)

OwnerPCs == {"idle", "publish", "room", "grow", "poptop", "popcas", "restore"}
ThiefPCs == {"idle", "bottom", "base", "slot", "take"}

TypeOK ==
  /\ grows \in BOOLEAN
  /\ bottom \in -1 .. MaxItems
  /\ {top, topCache, pushed} \subseteq 0 .. MaxItems
  /\ \A r \in 1 .. Len(rings) : rings[r] \in Seq(0 .. MaxItems)
  /\ pc[Owner] \in OwnerPCs
  /\ \A th \in Thieves : pc[th] \in ThiefPCs
  /\ t \in [Threads -> 0 .. MaxItems]
  /\ ring \in [Threads -> 0 .. Len(rings)]
  /\ val \in [Threads -> 0 .. MaxItems]
  /\ taken \in [1 .. MaxItems -> 0 .. 1]

\* While a pop is undecided the item at bottom still is in the deque.
Back == IF pc[Owner] \in {"poptop", "popcas", "restore"} THEN bottom + 1 ELSE bottom

Items == [i \in 1 .. Back - top |-> Slot(Current, top + i - 1)]

\* A ring never holds more than fits, however stale the cached top is: no slot
\* is stored over that a thief may still win.
NeverOverfull == Back - top <= CapOf(Current)

\* When a pop gives bottom back, the deque is empty exactly: top is where bottom
\* is going to be, so the next push and the next thief agree.
EmptyAgreed == pc[Owner] = "restore" => top = bottom + 1
================================================================================
