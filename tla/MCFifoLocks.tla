------------------------------ MODULE MCFifoLocks ------------------------------
(***************************************************************************)
(* The ticket lock, the MCS lock and the CLH lock for TLC, side by side:    *)
(* each behaviour exercises one of them, which the initial state chooses,   *)
(* and all three promise what FifoLockSpec says.  The variables of the      *)
(* locks not chosen stay at zero.                                           *)
(***************************************************************************)
EXTENDS Integers, Sequences

CONSTANTS t1, t2, t3, Null

Threads == {t1, t2, t3}

VARIABLES
  lock, pc, queue,
  ticket, serving, my, since,                                 \* ticket lock
  tail, next, waiting, state, holder, prev, slot,             \* MCS lock
  held, consumed, pooled, drawn, hint, locked, me, pred, scan \* CLH lock

ticketVars == <<ticket, serving, my, since>>
mcsVars == <<next, waiting, state, holder, prev, slot>>
clhVars == <<held, consumed, pooled, drawn, hint, locked, me, pred, scan>>
vars == <<lock, pc, queue, tail, ticketVars, mcsVars, clhVars>>

Ticket == INSTANCE TicketLock
            WITH next <- ticket, Width <- 3, Seed <- 6, MaxOvertaking <- 3
Mcs == INSTANCE McsLock
Clh == INSTANCE ClhLock WITH Threads <- {t1, t2}, MaxThreads <- 2, WeakAt <- {"take", "try"}

--------------------------------------------------------------------------------
Zeros == [t \in Threads |-> 0]

NoTail == tail = Null
NoTicket == ticket = 0 /\ serving = 0 /\ my = Zeros /\ since = Zeros
NoMcs ==
  /\ next = Zeros /\ waiting = Zeros /\ state = Zeros
  /\ holder = Null /\ prev = Zeros /\ slot = Zeros
NoClh ==
  /\ held = 0 /\ consumed = 0 /\ pooled = Zeros /\ drawn = 0 /\ hint = 0
  /\ locked = Zeros /\ me = Zeros /\ pred = Zeros /\ scan = Zeros

Init ==
  \/ lock = "ticket" /\ Ticket!Init /\ NoTail /\ NoMcs /\ NoClh
  \/ lock = "mcs" /\ Mcs!Init /\ NoTicket /\ NoClh
  \/ lock = "clh" /\ Clh!Init /\ NoTicket /\ NoMcs

Ticketing(A) == lock = "ticket" /\ A /\ UNCHANGED <<lock, tail, mcsVars, clhVars>>
Linking(A) == lock = "mcs" /\ A /\ UNCHANGED <<lock, ticketVars, clhVars>>
Recycling(A) == lock = "clh" /\ A /\ UNCHANGED <<lock, ticketVars, mcsVars>>

Next == Ticketing(Ticket!Next) \/ Linking(Mcs!Next) \/ Recycling(Clh!Next)

Running(t) ==
  \/ Ticketing(Ticket!Running(t))
  \/ Linking(Mcs!Running(t))
  \/ t \in {t1, t2} /\ Recycling(Clh!Running(t))

\* Threads inside a call keep running, and critical sections end.
FairSpec == Init /\ [][Next]_vars /\ \A t \in Threads : WF_vars(Running(t))

--------------------------------------------------------------------------------
(* The properties of the locks. *)

TypeOK ==
  CASE lock = "ticket" -> Ticket!TypeOK
    [] lock = "mcs"    -> Mcs!TypeOK
    [] lock = "clh"    -> Clh!TypeOK

\* Nobody is lost from the line and nobody joins it twice: the tickets are
\* consecutive across the wrap with the first one inside, the linked list of the
\* MCS nodes is the line of those who swapped the tail, and so is the chain of
\* CLH nodes, each spun on by the next in line.
QueueIntact ==
  CASE lock = "ticket" -> Ticket!TicketsInOrder
    [] lock = "mcs"    -> Mcs!ListMatchesQueue
    [] lock = "clh"    -> Clh!ChainMatchesQueue

\* No MCS node is used again before its release is over, and the holder field
\* names the one slot that unlock() has to release; a CLH node is in one place,
\* whichever exchanges of __take() and try_lock() fail for no reason.
NodesSafe ==
  /\ lock = "mcs" => Mcs!NoUseAfterRelease /\ Mcs!HolderKnown
  /\ lock = "clh" => Clh!NodesAccounted

Granted ==
  CASE lock = "ticket" -> Ticket!Granted
    [] lock = "mcs"    -> Mcs!Granted
    [] lock = "clh"    -> Clh!Granted

Abstract == INSTANCE FifoLockSpec WITH held <- Granted

\* Each lock is first come, first served: "acquisition order is arrival order"
\* for the ticket lock, the order of the tail swaps for the other two, whatever
\* try_lock() and the releases by other threads do in between.
ImplementsFifo == Abstract!Spec

At(t, places) == t \in DOMAIN pc /\ pc[t] \in places

\* Nobody who drew a ticket or swapped the tail waits for ever.
EveryoneServed ==
  \A t \in Threads : At(t, {"wait", "link", "spin"}) ~> At(t, {"cs"})
================================================================================
