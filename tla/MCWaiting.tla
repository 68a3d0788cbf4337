------------------------------ MODULE MCWaiting --------------------------------
(***************************************************************************)
(* The primitives threads wait at and the futexes the workers of the        *)
(* coroutine runtime sleep on, for TLC, side by side: each behaviour        *)
(* exercises one of them, which the initial state chooses.  They share the  *)
(* threads and the variables whose meaning is the same; the variables of    *)
(* the parts not chosen stay at zero.                                       *)
(***************************************************************************)
EXTENDS Integers

CONSTANTS t1, t2, t3, Nobody

Threads == {t1, t2, t3}
Workers == {1, 2}

\* The job that t1 submits forks another.
Kid == [j \in {t1, t2} |-> IF j = t1 THEN t2 ELSE Nobody]

VARIABLES
  part, pc,
  counter, wakeups, flags, granted, aborted, seen,            \* semaphore, latch
  epoch, waiters, gpc, key, items, made,                      \* event count, queue
  droppers, gen, cnt, mine, arrived, passed,                  \* barrier
  seq, w, data, k, s0, out, stores, since,                    \* seqlock
  gate, completed, holder, start, pos, owner, depth,          \* once, lock sets, recursive lock
  inbox, dq, mask, active, asleep, job, ep, announced, done,  \* parking
  stopping, quiet, scan, calm

seqVars == <<seq, w, data, k, s0, out, stores, since>>
lockVars == <<gate, completed, holder, start, pos, owner, depth>>
parkVars == <<inbox, dq, mask, active, asleep, job, ep, announced, done, stopping, quiet, scan, calm>>
semRest == <<part, parkVars, seqVars, lockVars, seen, epoch, waiters, gpc, key, items, made,
             droppers, gen, cnt, mine, arrived, passed>>
latchRest == <<part, parkVars, seqVars, lockVars, wakeups, flags, granted, aborted, epoch, waiters, gpc, key, items, made,
               droppers, gen, cnt, mine, arrived, passed>>
queueRest == <<part, parkVars, seqVars, lockVars, counter, wakeups, flags, granted, aborted, seen,
               droppers, gen, cnt, mine, arrived, passed>>
barrierRest == <<part, parkVars, seqVars, lockVars, counter, wakeups, flags, granted, aborted, seen, items, made>>
sleepVars == <<part, counter, wakeups, flags, granted, aborted, seen, epoch, waiters, gpc, key,
               items, made, droppers, gen, cnt, arrived, passed, parkVars>>
parkRest == <<part, seqVars, lockVars, counter, wakeups, flags, granted, aborted, waiters, gpc, key,
              items, made, droppers, gen, cnt, mine, arrived, passed>>
seqRest == <<sleepVars, mine, lockVars>>
onceRest == <<sleepVars, mine, seqVars, holder, start, pos, owner, depth>>
setRest == <<sleepVars, mine, seqVars, gate, completed, owner, depth>>
recursiveRest == <<sleepVars, seqVars, gate, completed, holder, start, pos>>
vars == <<sleepVars, mine, seqVars, lockVars, pc>>

Sem == INSTANCE Semaphore
         WITH Permits <- 1, Plenty <- 20, AllTokens <- 9, MaxFlags <- 3, MaxGrants <- 4
Latch == INSTANCE Latch WITH Expected <- 4, Steps <- {0, 1, 3}
Queue == INSTANCE EventQueue WITH EpochBits <- 4, Producers <- {t1}, MaxItems <- 3
Barrier == INSTANCE Barrier
             WITH EpochBits <- 2, GenBits <- 1, MaxRounds <- 3, Droppers <- {t3}
Seq == INSTANCE Seqlock WITH Words <- 2, Half <- 2, MaxStores <- 3
Once == INSTANCE DoOnce
Park == INSTANCE Parking WITH Submitters <- {t1}, Stopper <- t3, Null <- Nobody, Scans <- 1
Recursive == INSTANCE RecursiveLock WITH MaxDepth <- 2
Set == INSTANCE LockSet
         WITH Locks <- {1, 2, 3}, Order <- [t \in Threads |->
                CASE t = t1 -> <<1, 2, 3>> [] t = t2 -> <<2, 3, 1>> [] t = t3 -> <<3, 1>>]

--------------------------------------------------------------------------------
Zeros == [t \in Threads |-> 0]

NoCounter == counter = 0
NoSemaphore == wakeups = 0 /\ flags = 0 /\ granted = 0 /\ aborted = FALSE
NoLatch == seen = Zeros
NoWaiters == waiters = 0 /\ gpc = Zeros /\ key = Zeros
NoGate == epoch = 0 /\ NoWaiters
NoQueue == items = 0 /\ made = Zeros
NoMine == mine = Zeros
NoBarrier ==
  /\ droppers = {} /\ gen = 0 /\ cnt = 0
  /\ arrived = Zeros /\ passed = Zeros
NoSeqlock ==
  /\ seq = 0 /\ w = Nobody /\ data = Zeros /\ k = Zeros
  /\ s0 = Zeros /\ out = Zeros /\ stores = 0 /\ since = Zeros
NoOnce == gate = "uninit" /\ completed = 0
NoSet == holder = Zeros /\ start = Zeros /\ pos = Zeros
NoRecursive == owner = Nobody /\ depth = 0
NoPark ==
  /\ inbox = {} /\ dq = 0 /\ mask = {} /\ active = 0 /\ asleep = {} /\ job = 0 /\ ep = 0
  /\ announced = 0 /\ done = {} /\ stopping = FALSE /\ quiet = 0 /\ scan = {} /\ calm = 0
NoSleepers == NoPark /\ NoCounter /\ NoSemaphore /\ NoLatch /\ NoGate /\ NoQueue /\ NoBarrier

SleepersInit ==
  \/ /\ NoPark
     /\ \/ part = "semaphore" /\ Sem!Init /\ NoLatch /\ NoGate /\ NoQueue /\ NoBarrier /\ NoMine
        \/ part = "latch" /\ Latch!Init /\ NoSemaphore /\ NoGate /\ NoQueue /\ NoBarrier /\ NoMine
        \/ part = "queue" /\ Queue!Init /\ NoCounter /\ NoSemaphore /\ NoLatch /\ NoBarrier /\ NoMine
        \/ part = "barrier" /\ Barrier!Init /\ NoCounter /\ NoSemaphore /\ NoLatch /\ NoQueue
  \/ /\ part = "parking" /\ Park!Init
     /\ NoCounter /\ NoSemaphore /\ NoWaiters /\ NoQueue /\ NoBarrier /\ NoMine

Init ==
  \/ SleepersInit /\ NoSeqlock /\ NoOnce /\ NoSet /\ NoRecursive
  \/ /\ NoSleepers
     /\ \/ part = "seqlock" /\ Seq!Init /\ NoMine /\ NoOnce /\ NoSet /\ NoRecursive
        \/ part = "once" /\ Once!Init /\ NoMine /\ NoSeqlock /\ NoSet /\ NoRecursive
        \/ part = "set" /\ Set!Init /\ NoMine /\ NoSeqlock /\ NoOnce /\ NoRecursive
        \/ part = "recursive" /\ Recursive!Init /\ NoSeqlock /\ NoOnce /\ NoSet

Next ==
  \/ part = "semaphore" /\ Sem!Next /\ UNCHANGED semRest
  \/ part = "latch" /\ Latch!Next /\ UNCHANGED latchRest
  \/ part = "queue" /\ Queue!Next /\ UNCHANGED queueRest
  \/ part = "barrier" /\ Barrier!Next /\ UNCHANGED barrierRest
  \/ part = "seqlock" /\ Seq!Next /\ UNCHANGED seqRest
  \/ part = "once" /\ Once!Next /\ UNCHANGED onceRest
  \/ part = "set" /\ Set!Next /\ UNCHANGED setRest
  \/ part = "recursive" /\ Recursive!Next /\ UNCHANGED recursiveRest
  \/ part = "parking" /\ Park!Next /\ UNCHANGED parkRest

\* The steps of a thread that is inside a call, or of a barrier's thread that
\* comes back to it.
Running(t) ==
  \/ part = "semaphore" /\ Sem!Running(t) /\ UNCHANGED semRest
  \/ part = "latch" /\ Latch!Running(t) /\ UNCHANGED latchRest
  \/ part = "queue" /\ Queue!Running(t) /\ UNCHANGED queueRest
  \/ part = "barrier" /\ (Barrier!Running(t) \/ Barrier!Arrive(t)) /\ UNCHANGED barrierRest
  \/ part = "seqlock" /\ Seq!Running(t) /\ UNCHANGED seqRest
  \/ part = "once" /\ Once!Running(t) /\ UNCHANGED onceRest
  \/ /\ part = "parking"
     /\ \/ t = t1 /\ (Park!Submit(t) \/ Park!Waking(t))
        \/ t = t3 /\ Park!Stopping
     /\ UNCHANGED parkRest

Serving(i) == part = "parking" /\ (Park!Working(i) \/ Park!Waking(i)) /\ UNCHANGED parkRest

FairSpec ==
  /\ Init /\ [][Next]_vars
  /\ \A t \in Threads : WF_vars(Running(t))
  /\ \A i \in Workers : WF_vars(Serving(i))

--------------------------------------------------------------------------------
(* The properties of the parts. *)

TypeOK ==
  CASE part = "semaphore" -> Sem!TypeOK
    [] part = "latch"     -> Latch!TypeOK
    [] part = "queue"     -> Queue!TypeOK
    [] part = "barrier"   -> Barrier!TypeOK
    [] part = "seqlock"   -> Seq!TypeOK
    [] part = "once"      -> Once!TypeOK
    [] part = "set"       -> Set!TypeOK
    [] part = "recursive" -> Recursive!TypeOK
    [] part = "parking"   -> Park!TypeOK

\* Words that are changed one after the other never disagree: the permits of
\* wait(), try_wait() and flag() add up, the gate is running while one thread
\* is, who blocks on a lock of a set holds none, the depth is the owner's.
BooksBalance ==
  CASE part = "semaphore" -> Sem!BooksBalance
    [] part = "seqlock"   -> Seq!OneWriter
    [] part = "once"      -> Once!OneRuns
    [] part = "set"       -> Set!BlocksEmptyHanded
    [] part = "recursive" -> Recursive!DepthCounted
    [] OTHER              -> TRUE

\* No wake-up is lost: a token of the semaphore, a count of zero, an item of the
\* queue, the end of a phase or a frame in the inbox never lies there with somebody
\* asleep who waits for it and no wake on its way.
NobodyOversleeps ==
  CASE part = "semaphore" -> Sem!NoTokenOverslept
    [] part = "latch"     -> Latch!SleepersJustified
    [] part = "queue"     -> Queue!NoItemOverslept
    [] part = "barrier"   -> Barrier!NobodyLeftBehind
    [] part = "parking"   -> Park!NobodyStranded
    [] OTHER              -> TRUE

\* Whoever gets through has what the call promises: at the barrier everybody's
\* arrival in a phase that was full, from the seqlock one value and no mixture,
\* from do_once an initialiser that ran to its end, once, and at the end of the
\* coroutine runtime an engine that is empty if it was still during a look.
PassesJustified ==
  CASE part = "barrier" -> Barrier!Lockstep /\ Barrier!PhaseFull
    [] part = "seqlock" -> Seq!Untorn
    [] part = "once"    -> Once!OnceDone
    [] part = "parking" -> Park!StopsEmpty
    [] OTHER            -> TRUE

\* The threads of the semaphore, the latch and the seqlock are all alike: what
\* holds of t1 holds of each.
Owed ==
  CASE part = "semaphore" -> Sem!Owed(t1)
    [] part = "latch"     -> Latch!Owed(t1)
    [] part = "queue"     -> TRUE
    [] part = "barrier"   -> droppers = {}
    [] part = "seqlock"   -> Seq!Busy(t1)
    [] part = "once"      -> Once!Pending
    [] part = "parking"   -> Park!Pending
    [] OTHER              -> FALSE
Paid ==
  CASE part = "semaphore" -> Sem!Paid(t1)
    [] part = "latch"     -> Latch!Paid(t1)
    [] part = "queue"     -> Queue!Consumed
    [] part = "barrier"   -> Barrier!Complete
    [] part = "seqlock"   -> ~Seq!Busy(t1)
    [] part = "once"      -> ~Once!Pending
    [] part = "parking"   -> ~Park!Pending
    [] OTHER              -> TRUE

\* Whoever waits comes back: a waiter of the semaphore once the count stays at
\* or above zero, one of the latch once the count is zero, a consumer for every
\* item and for the end, a thread of the barrier after each of its rounds, the
\* calls of a seqlock once the stores end, every do_once, and who waits for a job
\* that was submitted or for the workers to end.
EveryoneReturns == Owed ~> Paid
================================================================================
