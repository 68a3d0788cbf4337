-------------------------------- MODULE McsLock --------------------------------
(***************************************************************************)
(* mutex/mutex.hpp queuing_mutex, the MCS queue lock over nodes the callers *)
(* own, and mutex/locks/mcs_lock.hpp, the lock that keeps one node per      *)
(* thread and can be released by any thread.                                *)
(*                                                                          *)
(* The node of a thread has its state (idle, busy, releasing): a thread may *)
(* queue again only when the release of its last acquisition, possibly made *)
(* by another thread, is over with the node.                                *)
(***************************************************************************)
EXTENDS Integers, Sequences, FiniteSets

CONSTANTS
  Threads,
  Null      \* the null pointer

VARIABLES
  tail,         \* the last node of the queue; a node is named by its thread
  next,         \* the next field of each node
  waiting,      \* the waiting field of each node
  state,        \* the state of each thread's slot
  holder,       \* the slot that holds the lock
  pc,
  prev,         \* the node a thread found at the tail
  slot,         \* the slot a thread in unlock() releases
  queue         \* auxiliary: the threads in the order of their tail swaps

vars == <<tail, next, waiting, state, holder, pc, prev, slot, queue>>

Nodes == Threads \cup {Null}

LockPCs == {"await", "init", "swap", "link", "wait", "hold", "tryswap", "undo", "cs"}
UnlockPCs == {"owe", "clear", "next", "cut", "succ", "pass", "idleslot"}
PCs == {"idle"} \cup LockPCs \cup UnlockPCs

Goto(t, l) == pc' = [pc EXCEPT ![t] = l]

Init ==
  /\ tail = Null
  /\ next = [t \in Threads |-> Null]
  /\ waiting = [t \in Threads |-> FALSE]
  /\ state = [t \in Threads |-> "idle"]
  /\ holder = Null
  /\ pc = [t \in Threads |-> "idle"]
  /\ prev = [t \in Threads |-> Null]
  /\ slot = [t \in Threads |-> Null]
  /\ queue = <<>>

--------------------------------------------------------------------------------
(* lock(): mcs_lock::operator() around queuing_mutex::operator(). *)

LockCall(t) ==
  /\ pc[t] = "idle"
  /\ Goto(t, "await")
  /\ UNCHANGED <<tail, next, waiting, state, holder, prev, slot, queue>>

\* Mutated form: the node is used again while its release is still under way.
AwaitNodeNot(t) ==
  /\ pc[t] = "await"
  /\ state' = [state EXCEPT ![t] = "busy"]
  /\ Goto(t, "init")
  /\ UNCHANGED <<tail, next, waiting, holder, prev, slot, queue>>

\* __await_node(): go on once the node is idle ...
AwaitNode(t) ==
  /\ pc[t] = "await"
  /\ state[t] = "idle"
  /\ state' = [state EXCEPT ![t] = "busy"]
  /\ Goto(t, "init")
  /\ UNCHANGED <<tail, next, waiting, holder, prev, slot, queue>>

\* ... or raise when it was seen busy: the thread's own acquisition stands.
AwaitRaises(t) ==
  /\ pc[t] = "await"
  /\ state[t] = "busy"
  /\ Goto(t, "idle")
  /\ UNCHANGED <<tail, next, waiting, state, holder, prev, slot, queue>>

InitNode(t) ==
  /\ pc[t] = "init"
  /\ next' = [next EXCEPT ![t] = Null]
  /\ waiting' = [waiting EXCEPT ![t] = TRUE]
  /\ Goto(t, "swap")
  /\ UNCHANGED <<tail, state, holder, prev, slot, queue>>

SwapTail(t) ==
  /\ pc[t] = "swap"
  /\ tail' = t
  /\ prev' = [prev EXCEPT ![t] = tail]
  /\ queue' = Append(queue, t)
  /\ Goto(t, IF tail = Null THEN "hold" ELSE "link")
  /\ UNCHANGED <<next, waiting, state, holder, slot>>

LinkPrev(t) ==
  /\ pc[t] = "link"
  /\ next' = [next EXCEPT ![prev[t]] = t]
  /\ prev' = [prev EXCEPT ![t] = Null]
  /\ Goto(t, "wait")
  /\ UNCHANGED <<tail, waiting, state, holder, slot, queue>>

Wait(t) ==
  /\ pc[t] = "wait"
  /\ ~waiting[t]
  /\ Goto(t, "hold")
  /\ UNCHANGED <<tail, next, waiting, state, holder, prev, slot, queue>>

Hold(t) ==
  /\ pc[t] = "hold"
  /\ holder' = t
  /\ Goto(t, "cs")
  /\ UNCHANGED <<tail, next, waiting, state, prev, slot, queue>>

\* Mutated form: try_lock() swaps itself in without looking at the slot.
TryLockReused(t) ==
  /\ pc[t] = "idle"
  /\ tail = Null
  /\ state' = [state EXCEPT ![t] = "busy"]
  /\ next' = [next EXCEPT ![t] = Null]
  /\ waiting' = [waiting EXCEPT ![t] = FALSE]
  /\ Goto(t, "tryswap")
  /\ UNCHANGED <<tail, holder, prev, slot, queue>>

\* try_lock(): give up on a node in use or on a tail seen taken.
TryLock(t) ==
  /\ pc[t] = "idle"
  /\ state[t] = "idle"
  /\ tail = Null
  /\ state' = [state EXCEPT ![t] = "busy"]
  /\ next' = [next EXCEPT ![t] = Null]
  /\ waiting' = [waiting EXCEPT ![t] = FALSE]
  /\ Goto(t, "tryswap")
  /\ UNCHANGED <<tail, holder, prev, slot, queue>>

TrySwap(t) ==
  /\ pc[t] = "tryswap"
  /\ IF tail = Null
     THEN tail' = t /\ queue' = Append(queue, t) /\ Goto(t, "hold")
     ELSE Goto(t, "undo") /\ UNCHANGED <<tail, queue>>
  /\ UNCHANGED <<next, waiting, state, holder, prev, slot>>

TryUndo(t) ==
  /\ pc[t] = "undo"
  /\ state' = [state EXCEPT ![t] = "idle"]
  /\ Goto(t, "idle")
  /\ UNCHANGED <<tail, next, waiting, holder, prev, slot, queue>>

--------------------------------------------------------------------------------
(* unlock(): mcs_lock::unlock() around queuing_mutex::do_unlock(). *)

\* The holder leaves the release to another thread.
HandOver(t, u) ==
  /\ pc[t] = "cs"
  /\ pc[u] = "idle"
  /\ pc' = [pc EXCEPT ![t] = "idle", ![u] = "owe"]
  /\ UNCHANGED <<tail, next, waiting, state, holder, prev, slot, queue>>

Unlock(u) ==
  /\ pc[u] \in {"cs", "owe"}
  /\ holder # Null
  /\ slot' = [slot EXCEPT ![u] = holder]
  /\ state' = [state EXCEPT ![holder] = "releasing"]
  /\ Goto(u, "clear")
  /\ UNCHANGED <<tail, next, waiting, holder, prev, queue>>

ClearHolder(u) ==
  /\ pc[u] = "clear"
  /\ holder' = Null
  /\ Goto(u, "next")
  /\ UNCHANGED <<tail, next, waiting, state, prev, slot, queue>>

LoadNext(u) ==
  /\ pc[u] = "next"
  /\ Goto(u, IF next[slot[u]] = Null THEN "cut" ELSE "pass")
  /\ UNCHANGED <<tail, next, waiting, state, holder, prev, slot, queue>>

\* Mutated form: no successor linked is taken for no successor.
CutTailBlind(u) ==
  /\ pc[u] = "cut"
  /\ tail' = Null
  /\ queue' = Tail(queue)
  /\ Goto(u, "idleslot")
  /\ UNCHANGED <<next, waiting, state, holder, prev, slot>>

\* The exchange of the tail by null: nobody has queued behind the node.
CutTail(u) ==
  /\ pc[u] = "cut"
  /\ IF tail = slot[u]
     THEN tail' = Null /\ queue' = Tail(queue) /\ Goto(u, "idleslot")
     ELSE Goto(u, "succ") /\ UNCHANGED <<tail, queue>>
  /\ UNCHANGED <<next, waiting, state, holder, prev, slot>>

\* Somebody has swapped the tail and is about to link itself.
AwaitSuccessor(u) ==
  /\ pc[u] = "succ"
  /\ next[slot[u]] # Null
  /\ Goto(u, "pass")
  /\ UNCHANGED <<tail, next, waiting, state, holder, prev, slot, queue>>

PassOn(u) ==
  /\ pc[u] = "pass"
  /\ waiting' = [waiting EXCEPT ![next[slot[u]]] = FALSE]
  /\ queue' = Tail(queue)
  /\ Goto(u, "idleslot")
  /\ UNCHANGED <<tail, next, state, holder, prev, slot>>

IdleSlot(u) ==
  /\ pc[u] = "idleslot"
  /\ state' = [state EXCEPT ![slot[u]] = "idle"]
  /\ slot' = [slot EXCEPT ![u] = Null]
  /\ Goto(u, "idle")
  /\ UNCHANGED <<tail, next, waiting, holder, prev, queue>>

--------------------------------------------------------------------------------
Running(t) ==
  \/ AwaitNode(t) \/ InitNode(t) \/ SwapTail(t) \/ LinkPrev(t) \/ Wait(t) \/ Hold(t)
  \/ TrySwap(t) \/ TryUndo(t)
  \/ Unlock(t) \/ ClearHolder(t) \/ LoadNext(t) \/ CutTail(t) \/ AwaitSuccessor(t)
  \/ PassOn(t) \/ IdleSlot(t)

Calls(t) ==
  \/ LockCall(t) \/ TryLock(t) \/ AwaitRaises(t)
  \/ \E u \in Threads \ {t} : HandOver(t, u)

Next == \E t \in Threads : Running(t) \/ Calls(t)

Spec == Init /\ [][Next]_vars

\* Threads inside a call keep running, and critical sections end.
FairSpec == Spec /\ \A t \in Threads : WF_vars(Running(t))

--------------------------------------------------------------------------------
(* Properties. *)

TypeOK ==
  /\ tail \in Nodes
  /\ next \in [Threads -> Nodes]
  /\ waiting \in [Threads -> BOOLEAN]
  /\ state \in [Threads -> {"idle", "busy", "releasing"}]
  /\ holder \in Nodes
  /\ pc \in [Threads -> PCs]
  /\ prev \in [Threads -> Nodes]
  /\ slot \in [Threads -> Nodes]
  /\ queue \in Seq(Threads)
  /\ \A i, j \in 1 .. Len(queue) : queue[i] = queue[j] => i = j

\* The head of the queue has the lock, until its node is cut off or passed on.
Granted == \E t \in Threads : pc[t] \in {"hold", "cs"} \cup (UnlockPCs \ {"idleslot"})

\* The linked list never loses anybody: whoever is queued and not first is
\* linked from its predecessor, or is about to link itself to it; the tail is
\* the last of the queue.
ListMatchesQueue ==
  /\ tail = IF queue = <<>> THEN Null ELSE queue[Len(queue)]
  /\ \A i \in 1 .. (Len(queue) - 1) :
       \/ next[queue[i]] = queue[i + 1]
       \/ pc[queue[i + 1]] = "link" /\ prev[queue[i + 1]] = queue[i]

\* unlock() reads the holder, which may be another thread's slot; until the
\* release is over with that slot, its owner does not use it again.
NoUseAfterRelease ==
  \A u \in Threads :
    slot[u] # Null =>
      state[slot[u]] = "releasing" /\ pc[slot[u]] \notin LockPCs \ {"await"}

\* At most one thread is inside, or owes the release, and the holder field
\* names the slot that unlock() has to release.
HolderKnown ==
  \A t \in Threads :
    /\ pc[t] \in {"cs", "owe"} => holder = Head(queue)
    /\ pc[t] = "cs" => holder = t
================================================================================
