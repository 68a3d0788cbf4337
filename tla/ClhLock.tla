-------------------------------- MODULE ClhLock --------------------------------
(***************************************************************************)
(* mutex/locks/clh_lock.hpp: the CLH queue lock with its node arena.        *)
(*                                                                          *)
(* A thread takes a node from the pool, publishes it at the tail and spins  *)
(* on the node it found there.  Releasing, it returns that found node to    *)
(* the pool and leaves its own to its successor.  The pool is a row of      *)
(* flags that __take() scans one by one while other threads change them.    *)
(***************************************************************************)
EXTENDS Integers, Sequences, FiniteSets, TLC

CONSTANTS
  Threads,
  MaxThreads,     \* the template parameter: the arena has one node more
  WeakAt          \* where compare_and_swap, a weak exchange, may fail for no reason:
                  \* in __take() ("take"), in try_lock() ("try"); nowhere on machines
                  \* whose exchange is one instruction

ASSUME MaxThreadsAssumption == MaxThreads \in Nat \ {0}

VARIABLES
  tail,
  held, consumed,     \* the holder's own node and the one it found
  pooled,             \* which nodes are in the pool
  drawn,              \* how many nodes exist
  hint,               \* the node returned last
  locked,             \* the locked field of each node
  pc,
  me, pred,           \* locals: the node taken and the node found at the tail
  scan,               \* locals of __take(): pass, n, i, k
  queue               \* auxiliary: the threads in the order they got to the tail

vars == <<tail, held, consumed, pooled, drawn, hint, locked, pc, me, pred, scan, queue>>
arenaVars == <<pooled, drawn, hint>>
lockVars == <<tail, held, consumed, locked>>

NodeCount == MaxThreads + 1
Nodes == 0 .. (NodeCount - 1)
NoNode == -1

TakePCs == {"take", "hint", "scan", "draw"}
TryPCs == {"t_look", "t_cas", "t_check", "t_back", "t_spin", "t_give", "t_undo"}
PCs == TakePCs \cup TryPCs
       \cup {"idle", "mark", "swap", "spin", "own", "cs", "give", "free", "thrown"}

\* Of the two callers of __take(), try_lock() has loaded the tail before.
Trying(t) == pred[t] # NoNode

NoScan == [pass |-> 0, n |-> 0, i |-> 0, k |-> 0]

Goto(t, l) == pc' = [pc EXCEPT ![t] = l]

\* A call returns and its locals are gone.
Return(t) ==
  /\ Goto(t, "idle")
  /\ me' = [me EXCEPT ![t] = NoNode]
  /\ pred' = [pred EXCEPT ![t] = NoNode]

Init ==
  /\ tail = 0
  /\ held = NoNode
  /\ consumed = NoNode
  /\ pooled = [i \in Nodes |-> FALSE]
  /\ drawn = 1
  /\ hint = 0
  /\ locked = [i \in Nodes |-> FALSE]
  /\ pc = [t \in Threads |-> "idle"]
  /\ me = [t \in Threads |-> NoNode]
  /\ pred = [t \in Threads |-> NoNode]
  /\ scan = [t \in Threads |-> NoScan]
  /\ queue = <<>>

--------------------------------------------------------------------------------
(* The arena: __take() and __give(). *)

\* The load of __drawn that begins a pass.
TakeBegin(t) ==
  /\ pc[t] = "take"
  /\ scan' = [scan EXCEPT ![t].n = drawn]
  /\ Goto(t, "hint")
  /\ UNCHANGED <<lockVars, arenaVars, me, pred, queue>>

\* The load of __hint: where the scan starts.
TakeHint(t) ==
  /\ pc[t] = "hint"
  /\ scan' = [scan EXCEPT ![t].i = IF hint >= scan[t].n THEN 0 ELSE hint, ![t].k = 0]
  /\ Goto(t, "scan")
  /\ UNCHANGED <<lockVars, arenaVars, me, pred, queue>>

Taken(t, i) ==
  /\ me' = [me EXCEPT ![t] = i]
  /\ scan' = [scan EXCEPT ![t] = NoScan]
  /\ Goto(t, "mark")

\* One node of the scan: take it out of the pool, or go on to the next one, be it
\* only because the exchange failed.
TakeScan(t) ==
  /\ pc[t] = "scan"
  /\ LET i == scan[t].i
         k == scan[t].k + 1
     IN  \/ /\ pooled[i]
            /\ pooled' = [pooled EXCEPT ![i] = FALSE]
            /\ Taken(t, i)
         \/ /\ ~pooled[i] \/ "take" \in WeakAt
            /\ scan' = [scan EXCEPT ![t].i = IF i + 1 >= scan[t].n THEN 0 ELSE i + 1,
                                    ![t].k = k]
            /\ Goto(t, IF k = scan[t].n THEN "draw" ELSE "scan")
            /\ UNCHANGED <<pooled, me>>
  /\ UNCHANGED <<lockVars, drawn, hint, pred, queue>>

\* Mutated form: the bound on the nodes drawn is off by one.
TakeDrawPast(t) ==
  /\ pc[t] = "draw"
  /\ drawn <= NodeCount
  /\ drawn' = drawn + 1
  /\ Taken(t, drawn)
  /\ UNCHANGED <<lockVars, pooled, hint, queue, pred>>

\* Nothing in the pool: draw a new node, scan once more, or give up.
TakeDraw(t) ==
  /\ pc[t] = "draw"
  /\ \/ /\ drawn < NodeCount
        /\ drawn' = drawn + 1
        /\ Taken(t, drawn)
        /\ UNCHANGED pred
     \/ /\ drawn >= NodeCount
        /\ scan[t].pass = 0
        /\ scan' = [scan EXCEPT ![t] = [NoScan EXCEPT !.pass = 1]]
        /\ Goto(t, "take")
        /\ UNCHANGED <<drawn, me, pred>>
     \/ /\ drawn >= NodeCount
        /\ scan[t].pass = 1
        /\ scan' = [scan EXCEPT ![t] = NoScan]
        /\ IF Trying(t) THEN Return(t) ELSE Goto(t, "thrown") /\ UNCHANGED <<me, pred>>
        /\ UNCHANGED drawn
  /\ UNCHANGED <<lockVars, pooled, hint, queue>>

\* Into the pool, and remembered as the first guess of the next scan.
Give(i) ==
  /\ pooled' = [pooled EXCEPT ![i] = TRUE]
  /\ hint' = i
  /\ UNCHANGED drawn

--------------------------------------------------------------------------------
(* lock() *)

LockCall(t) ==
  /\ pc[t] = "idle"
  /\ Goto(t, "take")
  /\ UNCHANGED <<lockVars, arenaVars, me, pred, scan, queue>>

\* The caller of a lock() that raised thread_error goes on without the lock.
Caught(t) ==
  /\ pc[t] = "thrown"
  /\ Goto(t, "idle")
  /\ UNCHANGED <<lockVars, arenaVars, me, pred, scan, queue>>

Mark(t) ==
  /\ pc[t] = "mark"
  /\ locked' = [locked EXCEPT ![me[t]] = TRUE]
  /\ Goto(t, IF Trying(t) THEN "t_cas" ELSE "swap")
  /\ UNCHANGED <<tail, held, consumed, arenaVars, me, pred, scan, queue>>

SwapTail(t) ==
  /\ pc[t] = "swap"
  /\ pred' = [pred EXCEPT ![t] = tail]
  /\ tail' = me[t]
  /\ queue' = Append(queue, t)
  /\ Goto(t, "spin")
  /\ UNCHANGED <<held, consumed, locked, arenaVars, me, scan>>

Spin(t) ==
  /\ pc[t] = "spin"
  /\ ~locked[pred[t]]
  /\ Goto(t, "own")
  /\ UNCHANGED <<lockVars, arenaVars, me, pred, scan, queue>>

\* The stores of __consumed and __held; only the holder touches them.
Own(t) ==
  /\ pc[t] = "own"
  /\ consumed' = pred[t]
  /\ held' = me[t]
  /\ Goto(t, "cs")
  /\ UNCHANGED <<tail, locked, arenaVars, me, pred, scan, queue>>

--------------------------------------------------------------------------------
(* try_lock() *)

TryLock(t) ==
  /\ pc[t] = "idle"
  /\ pred' = [pred EXCEPT ![t] = tail]
  /\ Goto(t, "t_look")
  /\ UNCHANGED <<lockVars, arenaVars, me, scan, queue>>

\* The tail loaded may be in the pool or in use again by now.
TryLook(t) ==
  /\ pc[t] = "t_look"
  /\ IF locked[pred[t]] THEN Return(t) ELSE Goto(t, "take") /\ UNCHANGED <<me, pred>>
  /\ UNCHANGED <<lockVars, arenaVars, scan, queue>>

TryCas(t) ==
  /\ pc[t] = "t_cas"
  /\ \/ tail = pred[t] /\ tail' = me[t] /\ queue' = Append(queue, t) /\ Goto(t, "t_check")
     \/ (tail # pred[t] \/ "try" \in WeakAt) /\ Goto(t, "t_undo") /\ UNCHANGED <<tail, queue>>
  /\ UNCHANGED <<held, consumed, locked, arenaVars, me, pred, scan>>

\* Mutated form: a tail compared equal is taken to be the free node it was.
TryCheckNot(t) ==
  /\ pc[t] = "t_check"
  /\ Goto(t, "own")
  /\ UNCHANGED <<lockVars, arenaVars, me, pred, scan, queue>>

\* The node that was free may have been through the pool and be locked now.
TryCheck(t) ==
  /\ pc[t] = "t_check"
  /\ Goto(t, IF locked[pred[t]] THEN "t_back" ELSE "own")
  /\ UNCHANGED <<lockVars, arenaVars, me, pred, scan, queue>>

\* Mutated form: the thread leaves although somebody spins on its node.
TryBackBlind(t) ==
  /\ pc[t] = "t_back"
  /\ tail' = pred[t]
  /\ queue' = SubSeq(queue, 1, Len(queue) - 1)
  /\ Goto(t, "t_undo")
  /\ UNCHANGED <<held, consumed, locked, arenaVars, me, pred, scan>>

\* Back out when nobody has queued behind, else, or when the exchange fails, wait
\* for the turn and pass it on.
TryBack(t) ==
  /\ pc[t] = "t_back"
  /\ \/ /\ tail = me[t]
        /\ tail' = pred[t]
        /\ queue' = SubSeq(queue, 1, Len(queue) - 1)
        /\ Goto(t, "t_undo")
     \/ (tail # me[t] \/ "try" \in WeakAt) /\ Goto(t, "t_spin") /\ UNCHANGED <<tail, queue>>
  /\ UNCHANGED <<held, consumed, locked, arenaVars, me, pred, scan>>

\* The unlocking of a node nobody can see, and its return to the pool.
TryUndo(t) ==
  /\ pc[t] = "t_undo"
  /\ locked' = [locked EXCEPT ![me[t]] = FALSE]
  /\ Give(me[t])
  /\ Return(t)
  /\ UNCHANGED <<tail, held, consumed, scan, queue>>

TrySpin(t) ==
  /\ pc[t] = "t_spin"
  /\ ~locked[pred[t]]
  /\ Goto(t, "t_give")
  /\ UNCHANGED <<lockVars, arenaVars, me, pred, scan, queue>>

--------------------------------------------------------------------------------
(* unlock(), and the end of a try_lock() that has to pass the lock on. *)

\* __consumed keeps its value, which nobody reads before the next store: the model
\* forgets it.
Unlock(t) ==
  /\ pc[t] = "cs"
  /\ held # NoNode
  /\ me' = [me EXCEPT ![t] = held]
  /\ pred' = [pred EXCEPT ![t] = consumed]
  /\ held' = NoNode
  /\ consumed' = NoNode
  /\ Goto(t, "give")
  /\ UNCHANGED <<tail, locked, arenaVars, scan, queue>>

\* Mutated form: the node pooled is the one the successor spins on.
GiveBackOwn(t) ==
  /\ pc[t] \in {"give", "t_give"}
  /\ Give(me[t])
  /\ Goto(t, "free")
  /\ UNCHANGED <<lockVars, me, pred, scan, queue>>

GiveBack(t) ==
  /\ pc[t] \in {"give", "t_give"}
  /\ Give(pred[t])
  /\ Goto(t, "free")
  /\ UNCHANGED <<lockVars, me, pred, scan, queue>>

FreeNode(t) ==
  /\ pc[t] = "free"
  /\ locked' = [locked EXCEPT ![me[t]] = FALSE]
  /\ queue' = Tail(queue)
  /\ Return(t)
  /\ UNCHANGED <<tail, held, consumed, arenaVars, scan>>

--------------------------------------------------------------------------------
Running(t) ==
  \/ TakeBegin(t) \/ TakeHint(t) \/ TakeScan(t) \/ TakeDraw(t)
  \/ Caught(t) \/ Mark(t) \/ SwapTail(t) \/ Spin(t) \/ Own(t)
  \/ TryLook(t) \/ TryCas(t) \/ TryCheck(t) \/ TryBack(t) \/ TryUndo(t) \/ TrySpin(t)
  \/ Unlock(t) \/ GiveBack(t) \/ FreeNode(t)

Next == \E t \in Threads : Running(t) \/ LockCall(t) \/ TryLock(t)

Spec == Init /\ [][Next]_vars

\* Threads that only lock and unlock.
LockersSpec == Init /\ [][\E t \in Threads : Running(t) \/ LockCall(t)]_vars

\* Threads inside a call keep running, and critical sections end.
FairSpec == Spec /\ \A t \in Threads : WF_vars(Running(t))

\* The threads are interchangeable.
Symmetry == Permutations(Threads)

--------------------------------------------------------------------------------
(* Properties. *)

TypeOK ==
  /\ tail \in Nodes
  /\ {held, consumed} \subseteq Nodes \cup {NoNode}
  /\ pooled \in [Nodes -> BOOLEAN]
  /\ drawn \in 1 .. NodeCount
  /\ hint \in Nodes
  /\ locked \in [Nodes -> BOOLEAN]
  /\ pc \in [Threads -> PCs]
  /\ me \in [Threads -> Nodes \cup {NoNode}]
  /\ pred \in [Threads -> Nodes \cup {NoNode}]
  /\ scan \in [Threads -> [pass : {0, 1}, n : 0 .. NodeCount, i : Nodes, k : 0 .. NodeCount]]
  /\ queue \in Seq(Threads)

\* The head of the queue has the lock, from the moment it sees its predecessor
\* unlocked until it unlocks its own node.
Granted == \E t \in Threads : pc[t] \in {"own", "cs", "give", "t_give", "free"}

\* Each node is in one place: not drawn yet, in the pool, a thread's own node,
\* the found node of the first in the queue that has not been given back, or
\* the free tail of an empty queue.  So no node is lost, and none is pooled or
\* taken while a thread still spins on it, which is the claim "pooling the
\* inherited node before the handoff is safe".
NodesAccounted ==
  LET first == Head(queue)
      Places(i) ==
        {<<"own", t>> : t \in {u \in Threads : me[u] = i}}
        \cup (IF i >= drawn THEN {<<"undrawn">>} ELSE {})
        \cup (IF pooled[i] THEN {<<"pool">>} ELSE {})
        \cup (IF queue # <<>> /\ pred[first] = i /\ pc[first] # "free" THEN {<<"found">>} ELSE {})
        \cup (IF queue = <<>> /\ tail = i THEN {<<"tail">>} ELSE {})
  IN  \A i \in Nodes : Cardinality(Places(i)) = 1

\* The queue of the nodes is the queue of the threads: everybody spins on the
\* node of whoever is before, whatever reuse of nodes (and of a node a try_lock
\* had compared the tail with) has happened in between.
ChainMatchesQueue ==
  /\ queue # <<>> => tail = me[queue[Len(queue)]]
  /\ \A i \in 1 .. (Len(queue) - 1) : pred[queue[i + 1]] = me[queue[i]]
  /\ \A t \in Threads : pc[t] \in {"own", "cs", "give", "t_give", "free"} => t = Head(queue)

Abstract == INSTANCE FifoLockSpec WITH held <- Granted

\* The CLH lock is first come, first served; a try_lock() may leave again.
ImplementsFifo == Abstract!Spec

\* lock() does not fail for want of a node while the threads fit the arena:
\* "a narrow arena still serves the threads that fit".
ThreadsThatFitAreServed ==
  Cardinality(Threads) <= MaxThreads => \A t \in Threads : pc[t] # "thrown"
================================================================================
