------------------------------- MODULE WaiterList ------------------------------
(***************************************************************************)
(* tasks/waiter_list.hpp: the list of suspended coroutines that the latch,  *)
(* the barrier, the fork group and, with a word of its own, the event share.*)
(*                                                                          *)
(* A node lives in the frame of the coroutine that waits, so a node is      *)
(* named by its task.  The operations hold the list's spinlock and are one  *)
(* step each; __wake_all() walks the detached chain outside the lock, one   *)
(* coroutine at a time, while those it resumed already may come back and    *)
(* link the same node again.  A resumed coroutine goes on at once: the      *)
(* scheduler that runs it is the subject of ForkJoin and Parking.           *)
(***************************************************************************)
EXTENDS Integers, FiniteSets

CONSTANTS Tasks, Null

VARIABLES
  head,
  next,       \* the __next field of each task's node
  cursor,     \* the rest of the chain a task is waking
  pc

listVars == <<head, next, cursor>>

ListPCs == {"idle", "suspend", "parked", "swap", "waking"}

Goto(t, l) == pc' = [pc EXCEPT ![t] = l]

ListInit ==
  /\ head = Null
  /\ next = [t \in Tasks |-> Null]
  /\ cursor = [t \in Tasks |-> Null]
  /\ pc = [t \in Tasks |-> "idle"]

ListTypeOK ==
  /\ {head} \cup {next[t] : t \in Tasks} \cup {cursor[t] : t \in Tasks} \subseteq Tasks \cup {Null}
  /\ DOMAIN next = Tasks /\ DOMAIN cursor = Tasks /\ DOMAIN pc = Tasks

--------------------------------------------------------------------------------
\* push(): the node becomes the head of the list and its task is suspended.
Push(t) ==
  /\ next' = [next EXCEPT ![t] = head]
  /\ head' = t
  /\ Goto(t, "parked")
  /\ UNCHANGED cursor

\* Mutated form: the condition is not looked at again under the lock.
PushBlindly(t, open) == Push(t)

\* push_unless(): nothing happens if the condition has become true.
PushUnless(t, open) ==
  \/ ~open /\ Push(t)
  \/ open /\ Goto(t, "idle") /\ UNCHANGED listVars

\* swap_all(): the whole list goes to the waker.
SwapAll(t) ==
  /\ cursor' = [cursor EXCEPT ![t] = head]
  /\ head' = Null
  /\ Goto(t, "waking")
  /\ UNCHANGED next

\* swap_all_under(): only if the condition holds under the lock.
SwapAllUnder(t, open) ==
  \/ open /\ SwapAll(t)
  \/ ~open /\ Goto(t, "idle") /\ UNCHANGED listVars

\* Mutated form: the node after the one resumed is forgotten.
WakeFirst(t) ==
  /\ pc[t] = "waking"
  /\ cursor' = [cursor EXCEPT ![t] = Null]
  /\ IF cursor[t] = Null
     THEN Goto(t, "idle")
     ELSE pc' = [pc EXCEPT ![cursor[t]] = "idle"]
  /\ UNCHANGED <<head, next>>

\* One turn of __wake_all(): the link is read before the coroutine is resumed.
WakeAll(t) ==
  /\ pc[t] = "waking"
  /\ IF cursor[t] = Null
     THEN Goto(t, "idle") /\ UNCHANGED cursor
     ELSE /\ cursor' = [cursor EXCEPT ![t] = next[cursor[t]]]
          /\ pc' = [pc EXCEPT ![cursor[t]] = "idle"]
  /\ UNCHANGED <<head, next>>

--------------------------------------------------------------------------------
(* The chains, for the properties. *)

\* The tasks on the chain that begins at h.
Chain(h) ==
  LET upto[k \in 0 .. Cardinality(Tasks)] ==
        IF k = 0 THEN {h} \ {Null}
        ELSE upto[k - 1] \cup ({next[t] : t \in upto[k - 1]} \ {Null})
  IN  upto[Cardinality(Tasks)]

Parked == {t \in Tasks : pc[t] = "parked"}

\* Every suspended task is on the list or on a chain that is being woken, on
\* one of them only, and nobody else is: no coroutine is lost and none is
\* resumed twice, whoever comes back while a chain is walked.
ParkedAreListed ==
  /\ Parked = Chain(head) \cup UNION {Chain(cursor[t]) : t \in Tasks}
  /\ \A t \in Tasks : Chain(cursor[t]) \cap Chain(head) = {}
  /\ \A t, u \in Tasks : t # u => Chain(cursor[t]) \cap Chain(cursor[u]) = {}
================================================================================
