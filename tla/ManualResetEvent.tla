---------------------------- MODULE ManualResetEvent ---------------------------
(***************************************************************************)
(* tasks/async_sync.hpp: manual_reset_event.  One word says that the event  *)
(* is set, or points to the newest waiter; set() swaps the word and resumes *)
(* the waiters it found, reset() may follow at once and they may wait again *)
(* with the same node.                                                      *)
(***************************************************************************)
EXTENDS WaiterList

CONSTANT IsSet      \* the word of an event that is set; head is the word

VARIABLE old        \* the word an awaiter loaded last

vars == <<listVars, pc, old>>

Init ==
  /\ ListInit
  /\ old = [t \in Tasks |-> Null]

\* await_ready()
Await(t) ==
  /\ pc[t] = "idle"
  /\ Goto(t, IF head = IsSet THEN "idle" ELSE "suspend")
  /\ UNCHANGED <<listVars, old>>

\* await_suspend(): the load, again after every compare that failed.
Load(t) ==
  /\ pc[t] = "suspend"
  /\ old' = [old EXCEPT ![t] = head]
  /\ Goto(t, IF head = IsSet THEN "idle" ELSE "link")
  /\ UNCHANGED listVars

\* Mutated form: the word is stored whatever it has become.
LinkBlindly(t) ==
  /\ pc[t] = "link"
  /\ next' = [next EXCEPT ![t] = old[t]]
  /\ head' = t
  /\ Goto(t, "parked")
  /\ UNCHANGED <<cursor, old>>

\* __next and the weak compare-exchange, which may fail for no reason.
Link(t) ==
  /\ pc[t] = "link"
  /\ next' = [next EXCEPT ![t] = old[t]]
  /\ \/ head = old[t] /\ head' = t /\ Goto(t, "parked")
     \/ Goto(t, "suspend") /\ UNCHANGED head
  /\ UNCHANGED <<cursor, old>>

\* set(): a swap, and the waiters found one by one.
SetEvent(t) ==
  /\ pc[t] = "idle"
  /\ head' = IsSet
  /\ IF head \in {IsSet, Null}
     THEN UNCHANGED <<cursor, pc>>
     ELSE cursor' = [cursor EXCEPT ![t] = head] /\ Goto(t, "waking")
  /\ UNCHANGED <<next, old>>

Wake(t) == WakeAll(t) /\ UNCHANGED old

Reset(t) ==
  /\ pc[t] = "idle"
  /\ head = IsSet
  /\ head' = Null
  /\ UNCHANGED <<next, cursor, pc, old>>

--------------------------------------------------------------------------------
Running(t) == Load(t) \/ Link(t) \/ Wake(t)

Next == \E t \in Tasks : Running(t) \/ Await(t) \/ SetEvent(t) \/ Reset(t)

Spec == Init /\ [][Next]_vars

--------------------------------------------------------------------------------
(* Properties. *)

TypeOK ==
  /\ head \in Tasks \cup {Null, IsSet}
  /\ next \in [Tasks -> Tasks \cup {Null}]
  /\ cursor \in [Tasks -> Tasks \cup {Null}]
  /\ old \in [Tasks -> Tasks \cup {Null, IsSet}]
  /\ pc \in [Tasks -> ListPCs \cup {"link"}]

Waiting == IF head = IsSet THEN {} ELSE Chain(head)

\* Every suspended task is on the event's list or in the hands of a set() that
\* is resuming it, once; so nobody is suspended at an event that is set.
NobodyStranded ==
  /\ Parked = Waiting \cup UNION {Chain(cursor[t]) : t \in Tasks}
  /\ \A t \in Tasks : Chain(cursor[t]) \cap Waiting = {}
  /\ \A t, u \in Tasks : t # u => Chain(cursor[t]) \cap Chain(cursor[u]) = {}

\* Somebody is in the hands of a set().
Resuming(t) == \E u \in Tasks : t \in Chain(cursor[u])
================================================================================
