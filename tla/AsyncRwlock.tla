------------------------------ MODULE AsyncRwlock ------------------------------
(***************************************************************************)
(* tasks/async_rwlock.hpp: the coroutine reader/writer lock.  The counters  *)
(* and the two lists of parked awaiters are under a spinlock, so each       *)
(* critical section is one step; the grants come after the spinlock is      *)
(* released, and may find the awaiter before it has suspended.              *)
(***************************************************************************)
EXTENDS Integers, Sequences, FiniteSets, SequencesExt

CONSTANTS Readers, Writers,
  MaxRounds       \* bound: how often each task comes

Tasks == Readers \cup Writers

VARIABLES
  readers, writer, wwaiting,
  rhead, whead,      \* parked awaiters, the newest first
  st,                \* __st of each task's node: "idle", "granted" or "frame"
  pc,
  todo,              \* nodes a task that unlocks still has to grant
  rounds             \* auxiliary: how often each task has come

lockVars == <<readers, writer, wwaiting, rhead, whead>>
vars == <<lockVars, st, pc, todo, rounds>>

Goto(t, l) == pc' = [pc EXCEPT ![t] = l]

Init ==
  /\ readers = 0
  /\ writer = FALSE
  /\ wwaiting = 0
  /\ rhead = <<>>
  /\ whead = <<>>
  /\ st = [t \in Tasks |-> "idle"]
  /\ pc = [t \in Tasks |-> "idle"]
  /\ todo = [t \in Tasks |-> <<>>]
  /\ rounds = [t \in Tasks |-> 0]

Arrives(t) ==
  /\ pc[t] = "idle"
  /\ rounds[t] < MaxRounds
  /\ rounds' = [rounds EXCEPT ![t] = @ + 1]

\* __rlock_awaiter::await_ready(), for a reader.
ReadReady(t) ==
  /\ Arrives(t)
  /\ IF ~writer /\ wwaiting = 0
     THEN readers' = readers + 1 /\ Goto(t, "cs") /\ UNCHANGED rhead
     ELSE rhead' = <<t>> \o rhead /\ Goto(t, "suspend") /\ UNCHANGED readers
  /\ UNCHANGED <<writer, wwaiting, whead, st, todo>>

\* __wlock_awaiter::await_ready(), for a writer.
WriteReady(t) ==
  /\ Arrives(t)
  /\ IF ~writer /\ readers = 0
     THEN writer' = TRUE /\ Goto(t, "cs") /\ UNCHANGED <<wwaiting, whead>>
     ELSE /\ wwaiting' = wwaiting + 1
          /\ whead' = <<t>> \o whead
          /\ Goto(t, "suspend")
          /\ UNCHANGED writer
  /\ UNCHANGED <<readers, rhead, st, todo>>

\* Mutated form: the frame is stored over a grant that came first.
SuspendStore(t) ==
  /\ pc[t] = "suspend"
  /\ st' = [st EXCEPT ![t] = "frame"]
  /\ Goto(t, "parked")
  /\ UNCHANGED <<lockVars, todo, rounds>>

\* await_suspend(): the compare-exchange fails on a node that is granted.
Suspend(t) ==
  /\ pc[t] = "suspend"
  /\ IF st[t] = "idle"
     THEN st' = [st EXCEPT ![t] = "frame"] /\ Goto(t, "parked")
     ELSE st' = [st EXCEPT ![t] = "idle"] /\ Goto(t, "cs")
  /\ UNCHANGED <<lockVars, todo, rounds>>

\* A writer takes over from whoever unlocks, without the lock being free.
HandToWriter(t) ==
  /\ wwaiting > 0
  /\ whead' = Tail(whead)
  /\ wwaiting' = wwaiting - 1
  /\ writer' = TRUE
  /\ todo' = [todo EXCEPT ![t] = <<Head(whead)>>]
  /\ Goto(t, "grant")

UnlockShared(t) ==
  /\ pc[t] = "cs"
  /\ t \in Readers
  /\ readers' = readers - 1
  /\ \/ readers = 1 /\ HandToWriter(t)
     \/ /\ readers # 1 \/ wwaiting = 0
        /\ Goto(t, "idle")
        /\ UNCHANGED <<writer, wwaiting, whead, todo>>
  /\ UNCHANGED <<rhead, st, rounds>>

\* Mutated form: the readers that are let in are not counted.
UnlockUncounted(t) ==
  /\ pc[t] = "cs"
  /\ t \in Writers
  /\ \/ HandToWriter(t) /\ UNCHANGED <<readers, rhead>>
     \/ /\ wwaiting = 0
        /\ writer' = FALSE
        /\ rhead' = <<>>
        /\ todo' = [todo EXCEPT ![t] = rhead]
        /\ Goto(t, "grant")
        /\ UNCHANGED <<readers, wwaiting, whead>>
  /\ UNCHANGED <<st, rounds>>

\* unlock(): the next writer, or else every parked reader.
Unlock(t) ==
  /\ pc[t] = "cs"
  /\ t \in Writers
  /\ \/ HandToWriter(t) /\ UNCHANGED <<readers, rhead>>
     \/ /\ wwaiting = 0
        /\ writer' = FALSE
        /\ readers' = Len(rhead)
        /\ rhead' = <<>>
        /\ todo' = [todo EXCEPT ![t] = rhead]
        /\ Goto(t, "grant")
        /\ UNCHANGED <<wwaiting, whead>>
  /\ UNCHANGED <<st, rounds>>

\* __grant() of the first node left.  A frame that is there is resumed, and the
\* node ends with the await.
Grant(t) ==
  /\ pc[t] = "grant"
  /\ IF todo[t] = <<>>
     THEN Goto(t, "idle") /\ UNCHANGED <<st, todo>>
     ELSE LET w == Head(todo[t]) IN
            /\ todo' = [todo EXCEPT ![t] = Tail(@)]
            /\ IF st[w] = "frame"
               THEN st' = [st EXCEPT ![w] = "idle"] /\ Goto(w, "cs")
               ELSE st' = [st EXCEPT ![w] = "granted"] /\ UNCHANGED pc
  /\ UNCHANGED <<lockVars, rounds>>

Running(t) == Suspend(t) \/ UnlockShared(t) \/ Unlock(t) \/ Grant(t)

Arrivals ==
  \/ \E t \in Readers : ReadReady(t)
  \/ \E t \in Writers : WriteReady(t)

Next == Arrivals \/ \E t \in Tasks : Running(t)

Spec == Init /\ [][Next]_vars

--------------------------------------------------------------------------------
(* Properties. *)

TypeOK ==
  /\ readers \in 0..Cardinality(Readers)
  /\ writer \in BOOLEAN
  /\ wwaiting \in 0..Cardinality(Writers)
  /\ rhead \in Seq(Readers)
  /\ whead \in Seq(Writers)
  /\ st \in [Tasks -> {"idle", "granted", "frame"}]
  /\ pc \in [Tasks -> {"idle", "cs", "suspend", "parked", "grant"}]
  /\ todo \in [Tasks -> Seq(Tasks)]
  /\ rounds \in [Tasks -> 0..MaxRounds]

reading == {r \in Readers : pc[r] = "cs"}
writing == {w \in Writers : pc[w] = "cs"}

Waiting == {t \in Tasks : pc[t] \in {"suspend", "parked"} /\ st[t] # "granted"}
InGrant == UNION {ToSet(todo[t]) : t \in Tasks}
Granted == InGrant \cup {t \in Tasks : pc[t] = "suspend" /\ st[t] = "granted"}

\* The counters are what the awaiters add up to: the active readers are the ones
\* inside and the ones on their way in, and so for the writer; a waiting awaiter
\* is in its list or about to be granted; and somebody inside or on the way in
\* will get to whoever waits.
NobodyStranded ==
  /\ readers = Cardinality(reading) + Cardinality(Granted \cap Readers)
  /\ writer <=> (writing \cup (Granted \cap Writers) # {})
  /\ wwaiting = Len(whead)
  /\ Waiting = ToSet(rhead) \cup ToSet(whead) \cup InGrant
  /\ (ToSet(rhead) \cup ToSet(whead)) \cap InGrant = {}
  /\ whead # <<>> => readers > 0 \/ writer
  /\ rhead # <<>> => writer \/ (readers > 0 /\ wwaiting > 0)

RW == INSTANCE RWLockSpec

\* The lock as its users see it: readers together or one writer alone.
ImplementsRWLock == RW!Spec

\* Somebody is in the lock or waits for it.
Pending == \E t \in Tasks : pc[t] # "idle"
================================================================================
