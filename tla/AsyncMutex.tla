------------------------------- MODULE AsyncMutex ------------------------------
(***************************************************************************)
(* tasks/async_sync.hpp: async_mutex, and tasks/async_condvar.hpp on top.   *)
(*                                                                          *)
(* The mutex is one word: not locked, locked without waiters, or a pointer  *)
(* to the newest of the suspended lockers, whose nodes are linked.  unlock()*)
(* hands the lock to the newest waiter without ever freeing it.  A waiter   *)
(* of the condition variable links its node before it unlocks and suspends  *)
(* only after that, so a notifier may reach it awake.                       *)
(*                                                                          *)
(* The users here are the classic ones: producers add a token under the     *)
(* lock and notify after it, consumers wait until there is a token.         *)
(***************************************************************************)
EXTENDS Integers, Sequences, FiniteSets

CONSTANTS Tasks, Null, Free,
  Producers       \* the other tasks are consumers

VARIABLES
  locked, list,   \* the word: Free, or the list of the suspended lockers
  pc,
  old,            \* the word an operation loaded last
  after,          \* where a task goes on after unlock() or a notification
  cvlist,         \* the condition variable's list
  st,             \* the state word of each task's condition variable node
  todo,           \* the nodes a notifier still has to signal
  tokens          \* what the lock protects

mutexVars == <<locked, list, old>>
cvVars == <<cvlist, st, todo>>
vars == <<mutexVars, cvVars, pc, after, tokens>>

Word == IF ~locked THEN Free ELSE IF list = <<>> THEN Null ELSE Head(list)

Goto(t, l) == pc' = [pc EXCEPT ![t] = l]

Init ==
  /\ locked = FALSE
  /\ list = <<>>
  /\ pc = [t \in Tasks |-> "idle"]
  /\ old = [t \in Tasks |-> Null]
  /\ after = [t \in Tasks |-> "idle"]
  /\ cvlist = <<>>
  /\ st = [t \in Tasks |-> "none"]
  /\ todo = [t \in Tasks |-> <<>>]
  /\ tokens = 0

--------------------------------------------------------------------------------
(* lock(): from "idle", or from "relock" at the end of a condition wait, when   *)
(* the node on the condition variable's list is no more.                        *)

Owned(t) ==
  /\ Goto(t, "cs")
  /\ st' = [st EXCEPT ![t] = "none"]

\* await_ready(): one strong compare-exchange.
Lock(t) ==
  /\ pc[t] \in {"idle", "relock"}
  /\ \/ ~locked /\ locked' = TRUE /\ Owned(t)
     \/ locked /\ Goto(t, "suspend") /\ UNCHANGED <<locked, st>>
  /\ UNCHANGED <<list, old, cvlist, todo, after, tokens>>

\* try_lock() of a task that has nothing else to do when it fails.
TryLock(t) ==
  /\ pc[t] = "idle"
  /\ ~locked
  /\ locked' = TRUE
  /\ Owned(t)
  /\ UNCHANGED <<list, old, cvlist, todo, after, tokens>>

SuspendLoad(t) ==
  /\ pc[t] = "suspend"
  /\ old' = [old EXCEPT ![t] = Word]
  /\ Goto(t, "link")
  /\ UNCHANGED <<locked, list, cvVars, after, tokens>>

\* Mutated form: the locker suspends although the lock has been freed.
SuspendCasBlind(t) ==
  /\ pc[t] = "link"
  /\ old' = [old EXCEPT ![t] = Null]
  /\ list' = <<t>> \o list
  /\ Goto(t, "parked")
  /\ UNCHANGED <<locked, cvVars, after, tokens>>

\* The weak compare-exchange of await_suspend(): take the lock that has become
\* free, link the node, or load again.
SuspendCas(t) ==
  /\ pc[t] = "link"
  /\ old' = [old EXCEPT ![t] = Null]
  /\ \/ /\ Word = old[t]
        /\ old[t] = Free
        /\ locked' = TRUE
        /\ Owned(t)
        /\ UNCHANGED list
     \/ /\ Word = old[t]
        /\ old[t] # Free
        /\ list' = <<t>> \o list
        /\ Goto(t, "parked")
        /\ UNCHANGED <<locked, st>>
     \/ Goto(t, "suspend") /\ UNCHANGED <<locked, list, st>>
  /\ UNCHANGED <<cvlist, todo, after, tokens>>

--------------------------------------------------------------------------------
(* unlock() *)

UnlockLoad(t) ==
  /\ pc[t] = "unlock"
  /\ old' = [old EXCEPT ![t] = Word]
  /\ Goto(t, "release")
  /\ UNCHANGED <<locked, list, cvVars, after, tokens>>

\* Mutated form: the word is stored; whoever came since the load is forgotten.
UnlockStore(t) ==
  /\ pc[t] = "release"
  /\ IF old[t] = Null
     THEN locked' = FALSE /\ list' = <<>> /\ Goto(t, after[t]) /\ UNCHANGED old
     ELSE list' = Tail(list) /\ Goto(t, "resume") /\ UNCHANGED <<locked, old>>
  /\ UNCHANGED <<cvVars, after, tokens>>

\* The weak compare-exchange: release, or pop the newest waiter, or load again.
UnlockCas(t) ==
  /\ pc[t] = "release"
  /\ \/ /\ Word = old[t]
        /\ old[t] = Null
        /\ locked' = FALSE
        /\ Goto(t, after[t])
        /\ UNCHANGED list
     \/ /\ Word = old[t]
        /\ old[t] # Null
        /\ list' = Tail(list)
        /\ Goto(t, "resume")
        /\ UNCHANGED locked
     \/ Goto(t, "unlock") /\ UNCHANGED <<locked, list>>
  /\ UNCHANGED <<old, cvVars, after, tokens>>

\* The popped waiter has the lock when it is resumed.
Resume(t) ==
  /\ pc[t] = "resume"
  /\ pc' = [pc EXCEPT ![t] = after[t], ![old[t]] = "cs"]
  /\ st' = [st EXCEPT ![old[t]] = "none"]
  /\ old' = [old EXCEPT ![t] = Null]
  /\ UNCHANGED <<locked, list, cvlist, todo, after, tokens>>

--------------------------------------------------------------------------------
(* The users, and the condition variable's wait(). *)

LeaveTo(t, l) ==
  /\ Goto(t, "unlock")
  /\ after' = [after EXCEPT ![t] = l]

Produce(t) ==
  /\ pc[t] = "cs"
  /\ t \in Producers
  /\ tokens' = tokens + 1
  /\ LeaveTo(t, "owe")
  /\ UNCHANGED <<mutexVars, cvVars>>

Consume(t) ==
  /\ pc[t] = "cs"
  /\ t \notin Producers
  /\ tokens > 0
  /\ tokens' = tokens - 1
  /\ LeaveTo(t, "done")
  /\ UNCHANGED <<mutexVars, cvVars>>

\* wait(), up to the call of unlock(): the node is on the list by then.
Wait(t) ==
  /\ pc[t] = "cs"
  /\ t \notin Producers
  /\ tokens = 0
  /\ cvlist' = <<t>> \o cvlist
  /\ st' = [st EXCEPT ![t] = "idle"]
  /\ LeaveTo(t, "park")
  /\ UNCHANGED <<mutexVars, todo, tokens>>

\* await_ready() of the park.
ParkReady(t) ==
  /\ pc[t] = "park"
  /\ Goto(t, IF st[t] = "signalled" THEN "relock" ELSE "cvsuspend")
  /\ UNCHANGED <<mutexVars, cvVars, after, tokens>>

\* await_suspend() of the park: the compare-exchange fails on a signalled node.
ParkSuspend(t) ==
  /\ pc[t] = "cvsuspend"
  /\ IF st[t] = "idle"
     THEN st' = [st EXCEPT ![t] = "frame"] /\ Goto(t, "cvparked")
     ELSE Goto(t, "relock") /\ UNCHANGED st
  /\ UNCHANGED <<mutexVars, cvlist, todo, after, tokens>>

\* notify_one() and notify_all() up to the list operation.
Notify(t) ==
  /\ pc[t] = "owe"
  /\ \/ cvlist # <<>> /\ todo' = [todo EXCEPT ![t] = <<Head(cvlist)>>] /\ cvlist' = Tail(cvlist)
     \/ todo' = [todo EXCEPT ![t] = cvlist] /\ cvlist' = <<>>
  /\ Goto(t, "signal")
  /\ UNCHANGED <<mutexVars, st, after, tokens>>

\* __signal(): the swap, and the resumption if the frame was there.
Signal(t) ==
  /\ pc[t] = "signal"
  /\ IF todo[t] = <<>>
     THEN Goto(t, "done") /\ UNCHANGED <<st, todo>>
     ELSE LET w == Head(todo[t]) IN
            /\ todo' = [todo EXCEPT ![t] = Tail(@)]
            /\ st' = [st EXCEPT ![w] = "signalled"]
            /\ IF st[w] = "frame" THEN Goto(w, "relock") ELSE UNCHANGED pc
  /\ UNCHANGED <<mutexVars, cvlist, after, tokens>>

--------------------------------------------------------------------------------
Running(t) ==
  \/ pc[t] = "relock" /\ Lock(t)
  \/ SuspendLoad(t) \/ SuspendCas(t)
  \/ UnlockLoad(t) \/ UnlockCas(t) \/ Resume(t)
  \/ Produce(t) \/ Consume(t) \/ Wait(t)
  \/ ParkReady(t) \/ ParkSuspend(t) \/ Notify(t) \/ Signal(t)

\* A weak compare-exchange that does what it was called for.
CasSucceeds(t) ==
  \/ SuspendCas(t) /\ pc'[t] # "suspend"
  \/ UnlockCas(t) /\ pc'[t] # "unlock"

Next == \E t \in Tasks : Running(t) \/ Lock(t) \/ TryLock(t)

Spec == Init /\ [][Next]_vars

--------------------------------------------------------------------------------
(* Properties. *)

PCs == {"idle", "suspend", "link", "parked", "cs", "unlock", "release", "resume", "owe",
        "signal", "park", "cvsuspend", "cvparked", "relock", "done"}

TypeOK ==
  /\ locked \in BOOLEAN
  /\ list \in Seq(Tasks)
  /\ pc \in [Tasks -> PCs]
  /\ old \in [Tasks -> Tasks \cup {Null, Free}]
  /\ after \in [Tasks -> {"idle", "owe", "park", "done"}]
  /\ cvlist \in Seq(Tasks)
  /\ st \in [Tasks -> {"none", "idle", "frame", "signalled"}]
  /\ todo \in [Tasks -> Seq(Tasks)]
  /\ tokens \in Nat

\* Whoever is between the end of lock() and the end of unlock().
Holders == {t \in Tasks : pc[t] \in {"cs", "unlock", "release"}}

On(s, t) == Cardinality({i \in DOMAIN s : s[i] = t})

\* Each suspended locker is once in the list, with the lock held, or has been
\* popped to be resumed; each condition node is once in the list or in the
\* hands of one notifier until it is signalled.
NobodyStranded ==
  /\ \A t \in Tasks :
       On(list, t) + Cardinality({u \in Tasks : pc[u] = "resume" /\ old[u] = t})
         = IF pc[t] = "parked" THEN 1 ELSE 0
  /\ list # <<>> => \E t \in Tasks : pc[t] \in {"cs", "unlock", "release", "resume"}
  /\ LET all == [u \in Tasks |-> todo[u]] IN
     \A t \in Tasks :
       On(cvlist, t) + Cardinality({u \in Tasks : On(all[u], t) > 0})
         = IF st[t] \in {"idle", "frame"} THEN 1 ELSE 0

\* All the tasks have come, as many producers as consumers, and not all are done.
Pending == (\A t \in Tasks : pc[t] # "idle") /\ \E t \in Tasks : pc[t] # "done"
================================================================================
