------------------------------- MODULE TicketLock ------------------------------
(***************************************************************************)
(* mutex/locks/ticket_lock.hpp: the first-come first-served ticket lock.    *)
(* Two counters that wrap: the next ticket to hand out and the one being    *)
(* served.                                                                  *)
(***************************************************************************)
EXTENDS Integers, Sequences, FiniteSets

CONSTANTS
  Threads,
  Width,          \* bits of a counter (32 in the code)
  Seed,           \* the value the constructor gives both counters
  MaxOvertaking   \* bound on the tickets drawn while one try_lock() is under way:
                  \* with the threads, less than a turn of the counter

VARIABLES
  next, serving,
  pc,
  my,         \* the ticket a thread drew, or the value of serving try_lock() loaded
  queue,      \* auxiliary: the threads with a ticket, in the order they drew it
  since       \* tickets drawn since a try_lock() under way began

vars == <<next, serving, pc, my, queue, since>>

Counters == 0 .. (2 ^ Width - 1)
Inc(c) == (c + 1) % 2 ^ Width

Goto(t, l) == pc' = [pc EXCEPT ![t] = l]

\* A call returns and its locals are gone.
Return(t) ==
  /\ Goto(t, "idle")
  /\ my' = [my EXCEPT ![t] = 0]
  /\ since' = [since EXCEPT ![t] = 0]

Init ==
  /\ next = Seed
  /\ serving = Seed
  /\ pc = [t \in Threads |-> "idle"]
  /\ my = [t \in Threads |-> 0]
  /\ queue = <<>>
  /\ since = [t \in Threads |-> 0]

Trying == {t \in Threads : pc[t] \in {"try1", "try2"}}

\* A ticket is handed out; the bound keeps try_lock() from being overtaken by
\* a whole turn of the counter.
Draw(t) ==
  /\ \A u \in Trying \ {t} : since[u] < MaxOvertaking
  /\ next' = Inc(next)
  /\ queue' = Append(queue, t)
  /\ since' = [u \in Threads |-> IF u \in Trying \ {t} THEN since[u] + 1 ELSE 0]

\* operator(): fetch_add, then wait to be served.
Lock(t) ==
  /\ pc[t] = "idle"
  /\ my' = [my EXCEPT ![t] = next]
  /\ Draw(t)
  /\ Goto(t, "wait")
  /\ UNCHANGED serving

Served(t) ==
  /\ pc[t] = "wait"
  /\ serving = my[t]
  /\ Goto(t, "cs")
  /\ UNCHANGED <<next, serving, my, queue, since>>

\* try_lock(): load serving, load next, and draw that ticket if they are equal.
TryServing(t) ==
  /\ pc[t] = "idle"
  /\ my' = [my EXCEPT ![t] = serving]
  /\ Goto(t, "try1")
  /\ UNCHANGED <<next, serving, queue, since>>

TryNext(t) ==
  /\ pc[t] = "try1"
  /\ IF my[t] = next
     THEN Goto(t, "try2") /\ UNCHANGED <<my, since>>
     ELSE Return(t)
  /\ UNCHANGED <<next, serving, queue>>

\* Mutated form: the ticket is drawn by a store of the loaded value plus one.
TryDrawByStore(t) ==
  /\ pc[t] = "try2"
  /\ Draw(t)
  /\ Goto(t, "cs")
  /\ UNCHANGED <<serving, my>>

TryDraw(t) ==
  /\ pc[t] = "try2"
  /\ \/ next = my[t] /\ Draw(t) /\ Goto(t, "cs") /\ UNCHANGED my
     \/ next # my[t] /\ Return(t) /\ UNCHANGED <<next, queue>>
  /\ UNCHANGED serving

\* Mutated form: the counter is stored without its wrap.
UnlockNoWrap(t) ==
  /\ pc[t] = "cs"
  /\ serving' = serving + 1
  /\ queue' = Tail(queue)
  /\ Return(t)
  /\ UNCHANGED next

\* unlock() by the holder; it returns early when nothing is held.
Unlock(t) ==
  /\ pc[t] = "cs"
  /\ serving # next
  /\ serving' = Inc(serving)
  /\ queue' = Tail(queue)
  /\ Return(t)
  /\ UNCHANGED next

--------------------------------------------------------------------------------
Running(t) == Served(t) \/ TryNext(t) \/ TryDraw(t) \/ Unlock(t)

Next == \E t \in Threads : Running(t) \/ Lock(t) \/ TryServing(t)

Spec == Init /\ [][Next]_vars

\* Threads inside a call keep running, and critical sections end.
FairSpec == Spec /\ \A t \in Threads : WF_vars(Running(t))

--------------------------------------------------------------------------------
(* Properties. *)

\* The head of the queue has the lock.
Granted == \E t \in Threads : pc[t] = "cs"

TypeOK ==
  /\ next \in Counters
  /\ serving \in Counters
  /\ pc \in [Threads -> {"idle", "wait", "cs", "try1", "try2"}]
  /\ my \in [Threads -> Counters]
  /\ queue \in Seq(Threads)
  /\ since \in [Threads -> 0 .. MaxOvertaking]

\* The tickets are consecutive across the wrap: the i-th thread of the queue
\* has the ticket i - 1 after the one being served, the queue is as long as the
\* counters are apart, and whoever is inside is the first of the queue.
TicketsInOrder ==
  /\ Len(queue) = (next - serving) % 2 ^ Width
  /\ \A i \in 1 .. Len(queue) : my[queue[i]] = (serving + i - 1) % 2 ^ Width
  /\ \A t \in Threads : pc[t] = "cs" => queue # <<>> /\ Head(queue) = t
================================================================================
